SPECIFICATION FairSpec
CONSTANTS
    r1 = r1
    r2 = r2
    Reqs <- MCReqs
INVARIANTS
    FailClosed
    AcceptedTakesEffect
    NobodyStranded
PROPERTIES
    NoDecisionAfterEnd
    HandlersEnd
CHECK_DEADLOCK FALSE
