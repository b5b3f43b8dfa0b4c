SPECIFICATION FairSpec
CHECK_DEADLOCK FALSE
CONSTANTS
    Tasks = {t1, t2}
    PageSectors = 2
    NrPages = 3
    VecSize = 2
    MaxBios = 2
    MaxFaults = 1
    None = None
INVARIANTS
    IInv
    WrittenIsTagged
    FindCountsTags
    ExitFreesTree
    UnlinkedHasOwner
PROPERTIES
    RequestEnds
