CONSTANTS
    Aggs = {a}
    Subs = {s1, s2}
    Resumers = {r1}
    MaxAttempts = 1
    DeadLetters = TRUE
    Batch = 1
    DirtyReads = FALSE
    MaxVersion = 3
    MaxFaults = 1
    MaxForgets = 1
    MaxCrashes = 1
    MayShutDown = TRUE
SPECIFICATION Spec
SYMMETRY Symmetry
CHECK_DEADLOCK FALSE
INVARIANTS HaltOpenUnlessParked QueueHasWorker DeliveredInOrder AckedMeansAccepted NothingStranded
PROPERTIES EraseIsFenced ImplementsOutbox
