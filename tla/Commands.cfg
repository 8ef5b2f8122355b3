SPECIFICATION Spec
CONSTANTS
    k1 = k1
    Requests <- MCRequests
    Keys <- MCKeys
    NoKey = NoKey
    NoEntry = NoEntry
    NoAnswer = NoAnswer
    Expiry = 1
    MaxTime = 2
    MaxRestarts = 1
INVARIANTS
    RetryDoesNotRunAgain
    ReplayIsTheAnswer
CHECK_DEADLOCK FALSE
