SPECIFICATION Spec
CHECK_DEADLOCK FALSE
CONSTANTS
    d1 = d1
    d2 = d2
    d3 = d3
    Devs <- ThreeDisks
    DevSize <- Sizes
    Chunk = 2
    Grain = 1
    SbDisks = 4
    Totals = {2, 3}
    Numbers = {0, 1, 2}
    ENOMEM = 12
    Retries = 3
    Wrap = 16
    MaxAdds = 4
    MaxFaults = 1
    MaxLoads = 1
    None = None
    Freed = Freed
INVARIANTS
    DescNrIndexesMember
