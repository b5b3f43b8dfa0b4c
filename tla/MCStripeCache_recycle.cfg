SPECIFICATION Spec
CONSTANTS
    s1 = s1
    s2 = s2
    k1 = k1
    k2 = k2
    k3 = k3
    Threads = {t1, t2, t3}
    Stripes <- TwoStripes
    Sectors <- ThreeSectors
    NDisks = 2
    Absent = {}
    Dirs = {"read", "write"}
    Parity <- RotatingParity
    InitialList <- TwoList
    MaxBios = 1
    MaxIo = 1
    jraid5d = jraid5d
    None = None
    Stale = Stale
SYMMETRY ThreadSymmetry
INVARIANTS
    IInv
    HashUnique
    NoLostWakeup
PROPERTIES
    SectorStable
    RefinesPool
