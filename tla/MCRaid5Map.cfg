SPECIFICATION Spec
CONSTANTS
    RaidDisks = {1, 2, 3}
    DiskSizes = {5, 11, 27, 45, 77, 93}
    SectorsPerChunk = 4
    ChunkSectors = 8
    StripeSectors = 2
    Reserved = 8
    IntLimit = 32
    SizeLimit = 64
    SectorLimit = 256
    None = None
INVARIANTS
    IInv
    NoSharedBlock
    ParityOfStripe
    RoundTrip
    BelowSuperblock
