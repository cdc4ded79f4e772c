CONSTANTS
    Aggs = {a, b}
    Subs = {s1}
    Resumers = {r1, r2}
    MaxAttempts = 1
    DeadLetters = FALSE
    Batch = 1
    DirtyReads = TRUE
    MaxVersion = 2
    MaxFaults = 1
    MaxForgets = 0
    MaxCrashes = 0
    MayShutDown = FALSE
SPECIFICATION Spec
SYMMETRY Symmetry
CHECK_DEADLOCK FALSE
INVARIANTS TypeOK NoOvertaking NothingStranded GenerationsAreUnique
