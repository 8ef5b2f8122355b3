SPECIFICATION Spec
CONSTANTS
    s1 = s1
    s2 = s2
    i1 = i1
    p1 = p1
    p2 = p2
    Starts <- MCOneStart
    Interrupts <- MCNoInterrupts
    Approvals <- MCOneApproval
    NoRun = NoRun
    NoApproval = NoApproval
    SignalCap = 1
    MaxLines = 0
    MaxRestarts = 0
INVARIANT SuccessfulExitCompletes
CHECK_DEADLOCK FALSE
