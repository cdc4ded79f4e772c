CONSTANTS
    Aggs = {a}
    Subs = {s1}
    Resumers = {r1}
    MaxAttempts = 2
    DeadLetters = FALSE
    Batch = 1
    DirtyReads = TRUE
    MaxVersion = 2
    MaxFaults = 0
    MaxForgets = 1
    MaxCrashes = 0
    MayShutDown = FALSE
SPECIFICATION Spec
CHECK_DEADLOCK FALSE
INVARIANT SettledMeansAttempted
