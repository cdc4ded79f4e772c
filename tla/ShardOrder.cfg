CONSTANTS
    HotAgg = a
    ColdAgg = b
    Hot = {c1, c2}
    Commands = {c1, c2}
    Aggs = {a, b}
    AggregateID <- MCAggregateID
    SendWaits = {}
    Workers = {w1, w2}
    QueueDepth = 2
    MaxCancels = 0
    MaxShutdowns = 0
SPECIFICATION Spec
CHECK_DEADLOCK FALSE
INVARIANT ArrivalOrder
