SPECIFICATION FairSpec
CONSTANTS
    a1 = a1
    c1 = c1
    c2 = c2
    Ids <- MCIds
    Calls <- MCCalls
    NoObject = NoObject
    NoId = NoId
    DefaultExpiry = 1
    Extension = 1
    DecisionCap = 1
    MaxTime = 4
    MaxCrashes = 2
    MaxOutages = 1
INVARIANTS
    DecidedOnce
    DurableBeforeTold
    MemoryMatchesStore
    ResolvedOnce
PROPERTIES
    PendingEnds
CHECK_DEADLOCK FALSE
