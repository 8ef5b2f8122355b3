SPECIFICATION Spec
CONSTANTS
    s1 = s1
    s2 = s2
    i1 = i1
    p1 = p1
    p2 = p2
    Starts <- MCStarts
    Interrupts <- MCInterrupts
    Approvals <- MCOneApproval
    NoRun = NoRun
    NoApproval = NoApproval
    SignalCap = 1
    MaxLines = 1
    MaxRestarts = 1
SYMMETRY MCSymmetry
INVARIANTS
    OneRun
    JournalOrder
    StoppedIsMarked
    ReconciledNotLive
CHECK_DEADLOCK FALSE
