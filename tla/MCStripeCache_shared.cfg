SPECIFICATION Spec
CONSTANTS
    s1 = s1
    s2 = s2
    k1 = k1
    k2 = k2
    k3 = k3
    Threads = {t1, t2}
    Stripes <- OneStripe
    Sectors <- OneSector
    NDisks = 3
    Absent = {}
    Dirs = {"read", "write"}
    Parity <- RotatingParity
    InitialList <- OneList
    MaxBios = 2
    MaxIo = 2
    jraid5d = jraid5d
    None = None
    Stale = Stale
SYMMETRY ThreadSymmetry
INVARIANTS
    TypeOK
    CountIsRefs
    OneHome
