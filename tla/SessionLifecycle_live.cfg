SPECIFICATION FairSpec
CONSTANTS
    s1 = s1
    s2 = s2
    i1 = i1
    p1 = p1
    p2 = p2
    Starts <- MCOneStart
    Interrupts <- MCInterrupts
    Approvals <- MCOneApproval
    NoRun = NoRun
    NoApproval = NoApproval
    SignalCap = 1
    MaxLines = 1
    MaxRestarts = 0
PROPERTIES
    ShutdownEnds
    ObserverEnds
CHECK_DEADLOCK FALSE
