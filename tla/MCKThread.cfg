SPECIFICATION FairSpec
CHECK_DEADLOCK FALSE
CONSTANTS
    Kinds <- AllKinds
    MaxWakes = 4
INVARIANTS
    IInv
    SleepsOnlyIdle
    WakeupKept
    BugWindows
PROPERTIES
    WakeupHandled
    StopReturns
