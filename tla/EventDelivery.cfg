SPECIFICATION FairSpec
CONSTANTS
    e1 = e1
    e2 = e2
    c1 = c1
    Events <- MCEvents
    Conns <- MCConns
    PageLimit = 1
    SendBuffer = 1
    MaxCrashes = 1
INVARIANTS
    NoLossWindow
    RetainedFirst
PROPERTIES
    ImplementsFeed
    EmitsEnd
    EventuallyWritten
CHECK_DEADLOCK FALSE
