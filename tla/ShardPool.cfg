CONSTANTS
    HotAgg = a
    ColdAgg = b
    Hot = {c1, c2, c3, c4}
    Commands = {c1, c2, c3, c4, d}
    Aggs = {a, b}
    AggregateID <- MCAggregateID
    SendWaits = {d}
    Workers = {w1, w2}
    QueueDepth = 1
    MaxCancels = 1
    MaxShutdowns = 2
SPECIFICATION Spec
SYMMETRY Symmetry
CHECK_DEADLOCK FALSE
INVARIANTS TypeOK OneWorkerPerAggregate NoCommandLost RunInClaimOrder ShutdownLeavesNothing
