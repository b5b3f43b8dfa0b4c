SPECIFICATION FairSpec
CHECK_DEADLOCK FALSE
CONSTANTS
    d1 = d1
    d2 = d2
    d3 = d3
    Devs <- ThreeDisks
    DevSize <- Sizes
    Chunk = 2
    Grain = 1
    SbDisks = 4
    Totals = {0, 1, 2, 3, 5}
    Numbers = {0, 1, 3, 4}
    ENOMEM = 12
    Retries = 2
    Wrap = 16
    MaxAdds = 4
    MaxFaults = 1
    MaxLoads = 2
    None = None
    Freed = Freed
INVARIANTS
    IInv
    PersonalityUsable
    FailedStartLeavesNothing
    PendingAccounted
    UpdateComplete
PROPERTIES
    StartUsesAllMembers
    StartFits
    StartEnds
    WritesSettle
