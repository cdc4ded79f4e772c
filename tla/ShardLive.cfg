CONSTANTS
    HotAgg = a
    ColdAgg = b
    Hot = {c1, c2}
    Commands = {c1, c2, d}
    Aggs = {a, b}
    AggregateID <- MCAggregateID
    SendWaits = {d}
    Workers = {w1, w2}
    QueueDepth = 1
    MaxCancels = 1
    MaxShutdowns = 2
SPECIFICATION FairSpec
CHECK_DEADLOCK FALSE
PROPERTIES SendsReturn ShutdownCompletes
