CONSTANTS
    Aggs = {a, b}
    Legacy = {}
    CommandIDs = {c}
    NoID = noID
    Callers = {p1, p2}
    Nobody = nobody
    MaxCalls = 2
    MaxFaults = 1
    MayCrash = FALSE
SPECIFICATION Spec
CHECK_DEADLOCK FALSE
INVARIANT AcceptedMeansCommitted
