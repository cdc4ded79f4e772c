CONSTANTS
    Bounded = l1
    Unbounded = l2
    Slow = h1
    Shaky = h2
    Aggs = {a}
    Callers = {x}
    Subs = {l1, l2, h1, h2}
    Listeners = {l1, l2}
    Applications <- MCApplications
    Pattern <- MCPattern
    Timed = {h1}
    WithFallback = {h2}
    Count <- MCCount
    Buffer = 1
    MaxEvents = 3
    MaxTimeouts = 1
SPECIFICATION FairSpec
CHECK_DEADLOCK FALSE
INVARIANTS OneAtATime ShutdownIsQuiet SendsAreSafe SeesTheStream
PROPERTIES ListenerIsRemoved PublishSyncReturns
