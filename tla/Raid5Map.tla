------------------------------ MODULE Raid5Map ------------------------------
(***************************************************************************)
(* Where the sectors of an array live.  Disks are added one at a time      *)
(* (add_store and add_new_disk of src/src/jmd.c); the last one fixes the   *)
(* capacity of the array and starts it.  A bio is mapped to a disk and a   *)
(* sector by jraid5_compute_sector of src/src/jraid5.c, and __init_stripe  *)
(* maps the devices of its stripe back with compute_blocknr.               *)
(*                                                                         *)
(* Sizes are in sectors.  The machine's integer types are given by their   *)
(* limits: an int is below IntLimit (2^31), a __u32 below SizeLimit (2^32) *)
(* and a sector_t below SectorLimit (2^64).                                *)
(***************************************************************************)
EXTENDS Integers, Sequences, FiniteSets

CONSTANTS
    RaidDisks,       \* values of total_num
    DiskSizes,       \* i_size_read of a disk, in sectors
    SectorsPerChunk, \* conf->chunk_size >> 9
    ChunkSectors,    \* jmddev->chunk_sectors
    StripeSectors,   \* STRIPE_SECTORS
    Reserved,        \* MD_RESERVED_BLOCKS
    IntLimit, SizeLimit, SectorLimit,
    None             \* no bio mapped yet

\* x & ~(m - 1), for a power of two m
RoundDown(x, m) == x - (x % m)

\* calc_dev_sboffset: where the superblock of a disk of x sectors is.  On a disk
\* below 64 KiB the subtraction wraps around in sector_t.
calc_dev_sboffset(x) == (RoundDown(x, Reserved) - Reserved) % SectorLimit

\* calc_dev_size: what is left below it.  The mask is a __u32, so that the bits
\* above it are lost.
calc_dev_size(x) ==
    RoundDown(calc_dev_sboffset(x), SectorsPerChunk) % SizeLimit

\* The superblock has room for MD_SB_DISKS = 27 disks and a chunk is 64 sectors,
\* so there are fewer disks than sectors in a chunk.  jmddev->chunk_sectors is a
\* multiple of the chunk, and a page lies in one chunk.  The size of a disk and
\* the number of disks are otherwise free: the code checks neither.
ASSUME GeometryAssumption ==
    /\ RaidDisks \subseteq Nat /\ \A n \in RaidDisks : n <= SectorsPerChunk
    /\ DiskSizes \subseteq 0..(SectorLimit - 1)
    /\ SectorsPerChunk \in Nat \ {0} /\ ChunkSectors \in Nat \ {0}
    /\ StripeSectors \in Nat \ {0} /\ Reserved \in Nat \ {0}
    /\ ChunkSectors % SectorsPerChunk = 0
    /\ SectorsPerChunk % StripeSectors = 0
    /\ IntLimit \in Nat \ {0} /\ SizeLimit = 2 * IntLimit
    /\ SectorLimit \in Nat /\ \A n \in RaidDisks : SizeLimit * n <= SectorLimit
    /\ None \notin [r : Nat, sector : Nat, pd : Nat, dd : Nat]

Algorithms == {"LEFT_ASYMMETRIC", "RIGHT_ASYMMETRIC",
               "LEFT_SYMMETRIC", "RIGHT_SYMMETRIC"}

VARIABLES
    raid_disks,  \* sb->raid_disks
    level,       \* sb->level
    algorithm,   \* sb->layout
    disks,       \* the sizes of the disks added so far, by raid disk
    size,        \* sb->size
    capacity,    \* jmddev->array_sectors
    running,     \* the array is started
    prev, cur,   \* the two bios mapped last: [r, sector, dd, pd]
    oops         \* the kernel has stopped at a division by zero

conf == <<raid_disks, level, algorithm>>
vars == <<conf, disks, size, capacity, running, prev, cur, oops>>

\* Mutant: the size of a disk is not halved.
WholeDisks(s, n) == RoundDown(s, ChunkSectors) * n

\* jmddev_size, called with one disk more than the array has.
jmddev_size(s, n) == RoundDown(s \div 2, ChunkSectors) * n

-----------------------------------------------------------------------------
Init ==
    /\ raid_disks \in RaidDisks
    /\ level \in {4, 5}
    /\ algorithm \in Algorithms
    /\ disks = << >>
    /\ size = 0
    /\ capacity = 0
    /\ running = FALSE
    /\ prev = None /\ cur = None /\ oops = FALSE

\* Mutant: a later disk never lowers the size.
FirstSize(x) == IF size = 0 THEN calc_dev_size(x) ELSE size

\* add_new_disk: sb->size is the smallest size so far, 0 standing for `not yet
\* known'.
NewSize(x) ==
    IF size = 0 \/ size > calc_dev_size(x) THEN calc_dev_size(x) ELSE size

\* device_size_calculation: no disk is smaller than a chunk.
LargeEnough(ds) ==
    \A i \in 1..raid_disks : calc_dev_size(ds[i]) >= SectorsPerChunk

\* add_store: the disk is added; after the last one the capacity is set and
\* the array is started, if its disks are large enough.
AddDisk(x) ==
    /\ Len(disks) < raid_disks
    /\ disks' = Append(disks, x)
    /\ size' = NewSize(x)
    /\ IF Len(disks) + 1 = raid_disks
       THEN /\ capacity' = jmddev_size(NewSize(x), raid_disks)
            /\ running' = LargeEnough(disks')
       ELSE UNCHANGED <<capacity, running>>
    /\ UNCHANGED <<conf, prev, cur, oops>>

-----------------------------------------------------------------------------
data_disks == raid_disks - 1

\* Mutant: the chunks of a row are counted with the parity chunk.
RowWithParity(chunk) == chunk \div raid_disks

\* The stripe of a chunk of the array.
RowOf(chunk) == chunk \div data_disks

\* The parity disk of a stripe: fixed at level 4, rotating at level 5.
ParityDisk(stripe) ==
    CASE level = 4 -> data_disks
      [] level # 4 /\ algorithm \in {"LEFT_ASYMMETRIC", "LEFT_SYMMETRIC"} ->
            data_disks - (stripe % raid_disks)
      [] OTHER -> stripe % raid_disks

\* The disk of the d-th data chunk of a stripe with parity disk pd.
DataDisk(d, pd) ==
    CASE level = 4 -> d
      [] level # 4 /\ algorithm \in {"LEFT_ASYMMETRIC", "RIGHT_ASYMMETRIC"} ->
            IF d >= pd THEN d + 1 ELSE d
      [] OTHER -> (pd + 1 + d) % raid_disks

\* Mutant: the parity disk rotates with the chunk and not with the stripe.
compute_sector_by_chunk(r) ==
    LET chunk == r \div SectorsPerChunk
        pd == ParityDisk(chunk)
    IN [r |-> r,
        sector |-> RowOf(chunk) * SectorsPerChunk + (r % SectorsPerChunk),
        pd |-> pd, dd |-> DataDisk(chunk % data_disks, pd)]

\* jraid5_compute_sector
compute_sector(r) ==
    LET chunk == r \div SectorsPerChunk
        pd == ParityDisk(RowOf(chunk))
    IN [r |-> r,
        sector |-> RowOf(chunk) * SectorsPerChunk + (r % SectorsPerChunk),
        pd |-> pd, dd |-> DataDisk(chunk % data_disks, pd)]

\* Mutant: the asymmetric layouts do not skip the parity disk.
DataIndexNoSkip(pd, i) ==
    IF algorithm \in {"LEFT_ASYMMETRIC", "RIGHT_ASYMMETRIC"} THEN i
    ELSE (IF i < pd THEN i + raid_disks ELSE i) - (pd + 1)

\* compute_blocknr: which data chunk of its stripe disk i holds.
DataIndex(pd, i) ==
    IF algorithm \in {"LEFT_ASYMMETRIC", "RIGHT_ASYMMETRIC"}
    THEN IF i > pd THEN i - 1 ELSE i
    ELSE (IF i < pd THEN i + raid_disks ELSE i) - (pd + 1)

\* The value an int variable gets.
ToInt(x) ==
    LET m == x % (2 * IntLimit)
    IN IF m >= IntLimit THEN m - 2 * IntLimit ELSE m

\* compute_blocknr: the array sector of a sector of disk i, or 0 when mapping
\* the result forward again does not lead back.  chunk_number is an int.
compute_blocknr(sector, pd, i) ==
    LET stripe == sector \div SectorsPerChunk
        chunk_number == ToInt(stripe * data_disks + DataIndex(pd, i))
        r_sector == (chunk_number * SectorsPerChunk
                        + (sector % SectorsPerChunk)) % SectorLimit
        check == compute_sector(r_sector)
    IN IF check.sector = sector /\ check.dd = i /\ check.pd = pd
       THEN r_sector ELSE 0

\* jraid5_make_request with a bio below the capacity.
MapBio(r) ==
    /\ running /\ data_disks > 0
    /\ prev' = cur
    /\ cur' = compute_sector(r)
    /\ UNCHANGED <<conf, disks, size, capacity, running, oops>>

\* Nothing keeps an array of one disk from being started: its first bio divides
\* the chunk number by data_disks = 0.
DivideError ==
    /\ running /\ capacity > 0 /\ data_disks = 0 /\ ~oops
    /\ oops' = TRUE
    /\ UNCHANGED <<conf, disks, size, capacity, running, prev, cur>>

\* Nothing is left to do: the array has no sector, was not started, or the
\* kernel has stopped.
Idle ==
    /\ Len(disks) = raid_disks
    /\ ~running \/ capacity = 0 \/ oops
    /\ UNCHANGED vars

Next ==
    \/ \E x \in DiskSizes : AddDisk(x)
    \/ \E r \in 0..(capacity - 1) : MapBio(r)
    \/ DivideError
    \/ Idle

Spec == Init /\ [][Next]_vars
-----------------------------------------------------------------------------
(***************************************************************************)
(* Properties                                                              *)
(***************************************************************************)
DiskIds == 0..(raid_disks - 1)
MappedBios ==
    [r : 0..(capacity - 1), sector : Nat, pd : DiskIds, dd : DiskIds]

\* The type invariant: a mapped bio names two disks of the array.
TypeOK ==
    /\ raid_disks \in RaidDisks /\ level \in {4, 5} /\ algorithm \in Algorithms
    /\ disks \in Seq(DiskSizes) /\ Len(disks) <= raid_disks
    /\ size \in Nat /\ capacity \in Nat /\ running \in BOOLEAN
    /\ oops \in BOOLEAN
    /\ prev \in MappedBios \cup {None} /\ cur \in MappedBios \cup {None}

\* Two sectors of the array never share a sector of a disk, and no data goes
\* to the parity disk of its stripe, at every level and in every layout that
\* jraid5_run accepts.
NoSharedBlock ==
    /\ cur # None => cur.dd # cur.pd
    /\ prev # None /\ prev.r # cur.r =>
            <<prev.sector, prev.dd>> # <<cur.sector, cur.dd>>

\* Bios of one stripe agree on its parity disk.  get_active_stripe ignores the
\* pd_idx of a bio whose stripe is in the hash, and the stripe cache model
\* takes the parity disk as a function of the sector for that reason.
ParityOfStripe ==
    prev # None /\ prev.sector = cur.sector => prev.pd = cur.pd

\* compute_blocknr inverts jraid5_compute_sector on every bio below the
\* capacity: its chunk number never exceeds an int, because sb->size is kept in
\* 32 bits, and the `map not correct' branch, which returns 0, is never taken
\* for another sector than 0.
RoundTrip ==
    cur # None => compute_blocknr(cur.sector, cur.pd, cur.dd) = cur.r

\* On every disk that has room for a superblock, the page of a bio that starts on
\* a page boundary lies below the superblock, and so does the first sector of any
\* bio, whatever the other disks and the order in which they were added.  Nothing
\* is claimed of a disk below 64 KiB: calc_dev_sboffset wraps around, the disk
\* counts as an enormous one, and bios run past its end.
BelowSuperblock ==
    cur # None =>
        LET x == disks[cur.dd + 1]
            offset == RoundDown(x, Reserved) - Reserved
        IN x >= Reserved =>
            /\ cur.sector < offset
            /\ cur.r % StripeSectors = 0 => cur.sector + StripeSectors <= offset

-----------------------------------------------------------------------------
(***************************************************************************)
(* The inductive invariant                                                 *)
(***************************************************************************)

\* sb->size is known and fits every disk, unless some disk is so small that
\* the array will not be started.
Sized ==
    disks # << >> =>
        \/ \E i \in DOMAIN disks : calc_dev_size(disks[i]) < SectorsPerChunk
        \/ /\ size # 0
           /\ \A i \in DOMAIN disks : size <= calc_dev_size(disks[i])

\* What add_store has established when it starts the array.
Started ==
    running =>
        /\ Len(disks) = raid_disks
        /\ LargeEnough(disks)
        /\ capacity = jmddev_size(size, raid_disks)

\* The bios on record were mapped by this array, below its capacity.
Mapped(b) ==
    b # None =>
        /\ running /\ raid_disks >= 2
        /\ b.r \in 0..(capacity - 1) /\ b = compute_sector(b.r)

\* BelowSuperblock needs Sized and Started: only all the disks together fix
\* the capacity; the other properties need that both bios were mapped by the
\* same configuration.
IInv ==
    /\ TypeOK
    /\ size < SizeLimit
    /\ Sized
    /\ Started
    /\ Mapped(prev) /\ Mapped(cur)
    /\ prev # None => cur # None
=============================================================================
