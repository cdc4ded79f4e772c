CONSTANTS
    Aggs = {a, b}
    Legacy = {a}
    CommandIDs = {c}
    NoID = noID
    Callers = {p1, p2}
    Nobody = nobody
    MaxCalls = 4
    MaxFaults = 1
    MayCrash = TRUE
SPECIFICATION Spec
SYMMETRY Symmetry
CHECK_DEADLOCK FALSE
INVARIANTS SnapshotsAgree ValidatedAgainstStream ReceiptsMatchEvents AppliedOnce RejectionsStand AnswersAreOriginal
PROPERTY GetReadsTheStream
