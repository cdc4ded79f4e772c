CONSTANTS
    Aggs = {a}
    Subs = {s1}
    Resumers = {r1}
    MaxAttempts = 2
    DeadLetters = FALSE
    Batch = 1
    DirtyReads = FALSE
    MaxVersion = 2
    MaxFaults = 1
    MaxForgets = 1
    MaxCrashes = 1
    MayShutDown = TRUE
SPECIFICATION FairSpec
CHECK_DEADLOCK FALSE
PROPERTIES EventuallyDelivered ForgetEnds CloseDrains WaitersReturn
