SPECIFICATION FairSpec
CONSTANTS
    ChanCap = 1
    SignalCap = 2
    MaxChunks = 1
    MaxInterrupts = 1
INVARIANTS
    OutputBeforeCompletion
    CompletionIsTrue
    SilentEndExplained
PROPERTIES
    RunEnds
    KillEnds
    InterruptEnds
CHECK_DEADLOCK FALSE
