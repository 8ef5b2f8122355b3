SPECIFICATION FairSpec
CONSTANTS
    d1 = d1
    Codes <- MCCodes
    Keys <- MCKeys
    Calls <- MCCalls
    NoCode = 0
    NoKey = NoKey
    NoCall = 0
    MaxChallenges = 2
    ChallengeTTL = 1
    AccessExpiry = 1
    MaxTime = 2
    MaxFaults = 1
    MaxRestarts = 1
INVARIANTS
    OneDevicePerCode
    NoAccessAfterRevoke
    TokenIsDurable
PROPERTIES
    ChallengeKept
    RevokedSocketCloses
CHECK_DEADLOCK FALSE
