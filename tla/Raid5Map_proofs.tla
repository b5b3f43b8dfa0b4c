-------------------------- MODULE Raid5Map_proofs --------------------------
(***************************************************************************)
(* Proofs about Raid5Map: for any number of disks, any disk sizes, both    *)
(* levels and all four layouts, the address computation of jraid5.c is     *)
(* injective, avoids the parity disk, is inverted by compute_blocknr and   *)
(* stays below the superblocks.                                            *)
(***************************************************************************)
EXTENDS Raid5Map, TLAPS

-----------------------------------------------------------------------------
(***************************************************************************)
(* Division                                                                *)
(***************************************************************************)

\* Quotient and remainder, as compute_sector takes them, make up the number.
LEMMA DivMod ==
    ASSUME NEW x \in Nat, NEW n \in Nat \ {0}
    PROVE  /\ x \div n \in Nat
           /\ x % n \in 0..(n - 1)
           /\ x = n * (x \div n) + (x % n)
OBVIOUS

\* Quotient and remainder are determined by the number.
LEMMA DivModUnique ==
    ASSUME NEW n \in Nat \ {0}, NEW q \in Nat, NEW m \in 0..(n - 1)
    PROVE  (n * q + m) \div n = q /\ (n * q + m) % n = m
OBVIOUS

\* A multiple of n is n times its quotient.
LEMMA DivExact ==
    ASSUME NEW x \in Nat, NEW n \in Nat \ {0}, x % n = 0
    PROVE  x \div n \in Nat /\ x = n * (x \div n)
<1>1. x \div n \in Nat /\ x = n * (x \div n) + (x % n)
    BY DivMod
<1> DEFINE q == x \div n
           m == x % n
<1> HIDE DEF q, m
<1>2. m = 0 /\ q \in Nat /\ x = n * q + m
    BY <1>1 DEF q, m
<1>3. x = n * q
    BY <1>2
<1> QED
    BY <1>2, <1>3 DEF q

\* A number that is not below n has a quotient.
LEMMA DivPositive ==
    ASSUME NEW x \in Nat, NEW n \in Nat \ {0}, x >= n
    PROVE  x \div n \in Nat /\ n * (x \div n) >= n
<1> DEFINE q == x \div n
           m == x % n
<1>1. q \in Nat /\ m \in 0..(n - 1) /\ x = n * q + m
    BY DivMod
<1> HIDE DEF q, m
<1>2. q # 0
    BY <1>1
<1>3. n * q >= n
    BY <1>1, <1>2
<1> QED
    BY <1>1, <1>3 DEF q

\* The remainder of a sum of two numbers below n, one of them plus one.
LEMMA Wrap ==
    ASSUME NEW n \in Nat, n >= 2, NEW p \in 0..(n - 1), NEW d \in 0..(n - 2)
    PROVE  (p + 1 + d) % n = IF p + 1 + d < n THEN p + 1 + d
                             ELSE p + 1 + d - n
OBVIOUS

\* Rounding down, as the masks of calc_dev_size do it.
LEMMA RoundDownLemma ==
    ASSUME NEW x \in Nat, NEW m \in Nat \ {0}
    PROVE  /\ RoundDown(x, m) \in Nat
           /\ RoundDown(x, m) <= x
           /\ RoundDown(x, m) = m * (x \div m)
BY DivMod DEF RoundDown

-----------------------------------------------------------------------------
(***************************************************************************)
(* The address computation                                                 *)
(***************************************************************************)

\* The configurations with a data disk that jraid5_run accepts.
Config ==
    /\ raid_disks \in RaidDisks /\ raid_disks >= 2
    /\ level \in {4, 5}
    /\ algorithm \in Algorithms

LEMMA ConfigLemma ==
    ASSUME Config
    PROVE  /\ raid_disks \in Nat /\ raid_disks >= 2
           /\ raid_disks <= SectorsPerChunk
           /\ data_disks \in Nat \ {0} /\ data_disks = raid_disks - 1
           /\ SectorsPerChunk \in Nat \ {0}
BY GeometryAssumption DEF Config, data_disks

\* The parity disk of a stripe is a disk of the array.
LEMMA ParityDiskLemma ==
    ASSUME Config, NEW stripe \in Nat
    PROVE  ParityDisk(stripe) \in DiskIds
<1>1. stripe % raid_disks \in 0..(raid_disks - 1)
    BY ConfigLemma, DivMod
<1>2. CASE level = 4
    BY <1>2, ConfigLemma DEF ParityDisk, DiskIds
<1>3. CASE level # 4
    BY <1>1, <1>3, ConfigLemma DEF ParityDisk, DiskIds
<1> QED
    BY <1>2, <1>3

\* The parity disks on which the layout computations are called.
ParityDisks == IF level = 4 THEN {data_disks} ELSE DiskIds

LEMMA ParityDisksLemma ==
    ASSUME Config, NEW stripe \in Nat
    PROVE  ParityDisk(stripe) \in ParityDisks
BY ParityDiskLemma DEF ParityDisks, ParityDisk

\* A data chunk goes to a disk that is not the parity disk, and compute_blocknr
\* recovers its index from the disk.
LEMMA DataDiskLemma ==
    ASSUME Config, NEW pd \in ParityDisks, NEW d \in 0..(data_disks - 1)
    PROVE  /\ DataDisk(d, pd) \in DiskIds
           /\ DataDisk(d, pd) # pd
           /\ DataIndex(pd, DataDisk(d, pd)) = d
<1> USE ConfigLemma
<1>1. pd \in 0..(raid_disks - 1)
    BY DEF ParityDisks, DiskIds
<1>2. (pd + 1 + d) % raid_disks = IF pd + 1 + d < raid_disks THEN pd + 1 + d
                                  ELSE pd + 1 + d - raid_disks
    BY <1>1, Wrap
<1>3. CASE level = 4
    <2>1. pd = data_disks
        BY <1>3 DEF ParityDisks
    <2> QED
        BY <1>3, <2>1 DEF DataDisk, DataIndex, DiskIds
<1>4. CASE level # 4 /\ algorithm \in {"LEFT_ASYMMETRIC", "RIGHT_ASYMMETRIC"}
    BY <1>1, <1>4 DEF DataDisk, DataIndex, DiskIds
<1>5. CASE /\ level # 4
           /\ algorithm \notin {"LEFT_ASYMMETRIC", "RIGHT_ASYMMETRIC"}
    <2>1. DataDisk(d, pd) = (pd + 1 + d) % raid_disks
        BY <1>5 DEF DataDisk
    <2>2. CASE pd + 1 + d < raid_disks
        BY <1>1, <1>2, <1>5, <2>1, <2>2 DEF DataIndex, DiskIds
    <2>3. CASE pd + 1 + d >= raid_disks
        BY <1>1, <1>2, <1>5, <2>1, <2>3 DEF DataIndex, DiskIds
    <2> QED
        BY <1>1, <2>2, <2>3
<1> QED
    BY <1>3, <1>4, <1>5

\* The steps of the computation for one sector.
LEMMA MapLemma ==
    ASSUME Config, NEW r \in Nat
    PROVE  LET chunk == r \div SectorsPerChunk
               row == chunk \div data_disks
               d == chunk % data_disks
               m == compute_sector(r)
           IN /\ chunk \in Nat /\ row \in Nat /\ d \in 0..(data_disks - 1)
              /\ r % SectorsPerChunk \in 0..(SectorsPerChunk - 1)
              /\ r = SectorsPerChunk * chunk + (r % SectorsPerChunk)
              /\ chunk = data_disks * row + d
              /\ m.r = r
              /\ m.sector = SectorsPerChunk * row + (r % SectorsPerChunk)
              /\ m.sector \in Nat
              /\ m.sector \div SectorsPerChunk = row
              /\ m.sector % SectorsPerChunk = r % SectorsPerChunk
              /\ m.pd = ParityDisk(row) /\ m.pd \in ParityDisks
              /\ m.dd = DataDisk(d, m.pd)
              /\ DataIndex(m.pd, m.dd) = d
              /\ m \in [r : Nat, sector : Nat, pd : DiskIds, dd : DiskIds]
              /\ m.dd # m.pd
<1> DEFINE chunk == r \div SectorsPerChunk
           row == chunk \div data_disks
           off == r % SectorsPerChunk
           d == chunk % data_disks
           m == compute_sector(r)
<1>1. chunk \in Nat /\ off \in 0..(SectorsPerChunk - 1)
      /\ r = SectorsPerChunk * chunk + off
    BY ConfigLemma, DivMod
<1>2. row \in Nat /\ d \in 0..(data_disks - 1) /\ chunk = data_disks * row + d
    <2> HIDE DEF chunk
    <2> QED BY <1>1, ConfigLemma, DivMod
<1> HIDE DEF row, off, d
<1>3. m = [r |-> r, sector |-> row * SectorsPerChunk + off,
           pd |-> ParityDisk(row), dd |-> DataDisk(d, ParityDisk(row))]
    BY DEF compute_sector, RowOf, row, off, d
<1>4. m.sector = SectorsPerChunk * row + off /\ m.sector \in Nat
    BY <1>1, <1>2, <1>3, ConfigLemma
<1>5. m.sector \div SectorsPerChunk = row /\ m.sector % SectorsPerChunk = off
    BY <1>1, <1>2, <1>4, ConfigLemma, DivModUnique
<1>6. m.pd = ParityDisk(row) /\ m.pd \in ParityDisks /\ m.pd \in DiskIds
    BY <1>2, <1>3, ParityDisksLemma, ParityDiskLemma
<1>7. /\ m.dd = DataDisk(d, m.pd) /\ m.dd \in DiskIds /\ m.dd # m.pd
      /\ DataIndex(m.pd, m.dd) = d
    BY <1>2, <1>3, <1>6, DataDiskLemma
<1>8. m \in [r : Nat, sector : Nat, pd : DiskIds, dd : DiskIds] /\ m.r = r
    BY <1>3, <1>4, <1>6, <1>7
<1> QED
    BY <1>1, <1>2, <1>4, <1>5, <1>6, <1>7, <1>8 DEF row, off, d

\* jraid5_compute_sector is injective: two sectors of the array with the same
\* disk sector have the same parity disk, and on the same disk they are equal.
LEMMA MapInjective ==
    ASSUME Config, NEW r1 \in Nat, NEW r2 \in Nat,
           compute_sector(r1).sector = compute_sector(r2).sector
    PROVE  /\ compute_sector(r1).pd = compute_sector(r2).pd
           /\ compute_sector(r1).dd = compute_sector(r2).dd => r1 = r2
<1> DEFINE row1 == (r1 \div SectorsPerChunk) \div data_disks
           row2 == (r2 \div SectorsPerChunk) \div data_disks
<1>1. row1 = row2 /\ r1 % SectorsPerChunk = r2 % SectorsPerChunk
    BY MapLemma
<1>2. compute_sector(r1).pd = compute_sector(r2).pd
    BY <1>1, MapLemma
<1>3. ASSUME compute_sector(r1).dd = compute_sector(r2).dd
      PROVE  r1 = r2
    <2>1. (r1 \div SectorsPerChunk) % data_disks
            = (r2 \div SectorsPerChunk) % data_disks
        BY <1>2, <1>3, MapLemma
    <2>2. r1 \div SectorsPerChunk = r2 \div SectorsPerChunk
        BY <1>1, <2>1, MapLemma
    <2> QED
        BY <1>1, <2>2, MapLemma
<1> QED
    BY <1>2, <1>3

\* compute_blocknr leads back from the disk to the array, if the chunk number
\* fits an int and the sector a sector_t.
LEMMA MapInverse ==
    ASSUME Config, NEW r \in Nat, r < SectorLimit,
           r \div SectorsPerChunk < IntLimit
    PROVE  LET m == compute_sector(r)
           IN compute_blocknr(m.sector, m.pd, m.dd) = r
<1> DEFINE chunk == r \div SectorsPerChunk
           m == compute_sector(r)
<1>1. /\ m.sector \div SectorsPerChunk = chunk \div data_disks
      /\ m.sector % SectorsPerChunk = r % SectorsPerChunk
      /\ DataIndex(m.pd, m.dd) = chunk % data_disks
      /\ chunk \in Nat
      /\ chunk = data_disks * (chunk \div data_disks) + (chunk % data_disks)
      /\ chunk \div data_disks \in Nat
      /\ r = SectorsPerChunk * chunk + (r % SectorsPerChunk)
      /\ r % SectorsPerChunk \in Nat
    BY MapLemma
<1>2. (m.sector \div SectorsPerChunk) * data_disks + DataIndex(m.pd, m.dd)
        = chunk
    <2> HIDE DEF chunk, m
    <2>1. (chunk \div data_disks) * data_disks
            = data_disks * (chunk \div data_disks)
        BY <1>1, ConfigLemma
    <2> QED BY <1>1, <2>1
<1>3. ToInt(chunk) = chunk
    <2> HIDE DEF chunk
    <2>1. chunk \in 0..(2 * IntLimit - 1) /\ IntLimit \in Nat \ {0}
        BY <1>1, GeometryAssumption DEF chunk
    <2>2. chunk % (2 * IntLimit) = chunk
        BY <2>1
    <2> QED BY <2>1, <2>2 DEF ToInt, chunk
<1>4. (chunk * SectorsPerChunk + (m.sector % SectorsPerChunk)) % SectorLimit
        = r
    <2> HIDE DEF chunk, m
    <2>1. chunk * SectorsPerChunk + (m.sector % SectorsPerChunk) = r
        BY <1>1, ConfigLemma
    <2>2. r % SectorLimit = r
        BY GeometryAssumption
    <2> QED BY <2>1, <2>2
<1> HIDE DEF chunk
<1>5. compute_blocknr(m.sector, m.pd, m.dd)
        = IF /\ compute_sector(r).sector = m.sector
             /\ compute_sector(r).dd = m.dd
             /\ compute_sector(r).pd = m.pd
          THEN r ELSE 0
    <2> HIDE DEF m
    <2> QED BY <1>2, <1>3, <1>4 DEF compute_blocknr
<1> QED
    BY <1>5

-----------------------------------------------------------------------------
(***************************************************************************)
(* Sizes                                                                   *)
(***************************************************************************)

\* The size of a disk is a __u32 and ends below its superblock, which is on the
\* disk if there is room for it.
LEMMA DevSizeLemma ==
    ASSUME NEW x \in DiskSizes
    PROVE  /\ x \in Nat
           /\ calc_dev_sboffset(x) \in Nat
           /\ x >= Reserved =>
                calc_dev_sboffset(x) = RoundDown(x, Reserved) - Reserved
           /\ calc_dev_size(x) \in Nat
           /\ calc_dev_size(x) <= calc_dev_sboffset(x)
           /\ calc_dev_size(x) < SizeLimit
<1>1. x \in Nat /\ x < SectorLimit /\ SectorLimit \in Nat \ {0}
      /\ Reserved \in Nat \ {0}
      /\ SectorsPerChunk \in Nat \ {0} /\ SizeLimit \in Nat \ {0}
    BY GeometryAssumption
<1> DEFINE d == RoundDown(x, Reserved)
<1>2. d = Reserved * (x \div Reserved) /\ d \in Nat /\ d <= x
    BY <1>1, RoundDownLemma
<1>3. x >= Reserved => d >= Reserved
    BY <1>1, <1>2, DivPositive
<1> HIDE DEF d
<1>4. calc_dev_sboffset(x) \in Nat
      /\ (x >= Reserved => calc_dev_sboffset(x) = d - Reserved)
    <2>1. d - Reserved \in Int
        BY <1>1, <1>2
    <2>2. (d - Reserved) % SectorLimit \in Nat
        BY <1>1, <2>1
    <2>3. ASSUME x >= Reserved
          PROVE  (d - Reserved) % SectorLimit = d - Reserved
        BY <1>1, <1>2, <1>3, <2>3
    <2> QED
        BY <2>2, <2>3 DEF calc_dev_sboffset, d
<1> DEFINE y == RoundDown(calc_dev_sboffset(x), SectorsPerChunk)
<1>5. y \in Nat /\ y <= calc_dev_sboffset(x)
    BY <1>1, <1>4, RoundDownLemma
<1> HIDE DEF y
<1>6. y % SizeLimit <= y /\ y % SizeLimit \in 0..(SizeLimit - 1)
    BY <1>1, <1>5
<1> QED
    BY <1>1, <1>4, <1>5, <1>6 DEF calc_dev_size, y, d

\* Every sector below the capacity is mapped below the size of the disks, with
\* its page if it starts on a page boundary; its chunk number fits an int.
LEMMA CapacityLemma ==
    ASSUME Config, NEW s \in Nat, s < SizeLimit,
           NEW r \in 0..(jmddev_size(s, raid_disks) - 1)
    PROVE  /\ compute_sector(r).sector < s
           /\ r % StripeSectors = 0 =>
                compute_sector(r).sector + StripeSectors <= s
           /\ r \div SectorsPerChunk < IntLimit
           /\ r < SectorLimit
<1> DEFINE chunk == r \div SectorsPerChunk
           off == r % SectorsPerChunk
           row == chunk \div data_disks
           half == RoundDown(s \div 2, ChunkSectors)
           per == ChunkSectors \div SectorsPerChunk
           h == per * ((s \div 2) \div ChunkSectors)
<1>1. /\ ChunkSectors \in Nat \ {0} /\ SectorsPerChunk \in Nat \ {0}
      /\ ChunkSectors % SectorsPerChunk = 0
      /\ StripeSectors \in Nat \ {0} /\ SectorsPerChunk % StripeSectors = 0
      /\ IntLimit \in Nat \ {0} /\ SizeLimit = 2 * IntLimit
      /\ SectorLimit \in Nat /\ SizeLimit * raid_disks <= SectorLimit
    BY GeometryAssumption DEF Config
<1>2. s \div 2 \in Nat /\ 2 * (s \div 2) <= s
    OBVIOUS
<1>3. half \in Nat /\ half <= s \div 2
      /\ half = ChunkSectors * ((s \div 2) \div ChunkSectors)
    BY <1>1, <1>2, RoundDownLemma
<1>4. per \in Nat /\ ChunkSectors = SectorsPerChunk * per
    BY <1>1, DivExact
<1>5. (s \div 2) \div ChunkSectors \in Nat
    BY <1>1, <1>2, DivMod
<1>6. h \in Nat /\ half = SectorsPerChunk * h
    <2> DEFINE k == (s \div 2) \div ChunkSectors
    <2>1. k \in Nat /\ half = ChunkSectors * k
        BY <1>3, <1>5
    <2> HIDE DEF k, half, per
    <2> QED BY <2>1, <1>4, <1>1 DEF k
<1>7. r \in Nat /\ r < half * raid_disks
    BY <1>3, ConfigLemma DEF jmddev_size
<1>8. /\ chunk \in Nat /\ row \in Nat /\ off \in 0..(SectorsPerChunk - 1)
      /\ r = SectorsPerChunk * chunk + off
      /\ data_disks * row <= chunk
      /\ compute_sector(r).sector = SectorsPerChunk * row + off
    BY <1>7, MapLemma, ConfigLemma
<1> HIDE DEF chunk, off, row, half, h
<1>9. chunk < h * raid_disks
    <2>1. SectorsPerChunk * chunk < SectorsPerChunk * (h * raid_disks)
        BY <1>1, <1>6, <1>7, <1>8, ConfigLemma
    <2> QED BY <2>1, <1>1, <1>6, <1>8, ConfigLemma
<1>10. row < 2 * h
    <2>1. raid_disks <= 2 * data_disks
        BY ConfigLemma
    <2>2. h * raid_disks <= h * (2 * data_disks)
        BY <2>1, <1>6, ConfigLemma
    <2>3. data_disks * row < data_disks * (2 * h)
        BY <2>2, <1>6, <1>8, <1>9, ConfigLemma
    <2> QED BY <2>3, <1>6, <1>8, ConfigLemma
<1>11. SectorsPerChunk * row + SectorsPerChunk <= s
    <2>1. SectorsPerChunk * (row + 1) <= SectorsPerChunk * (2 * h)
        BY <1>1, <1>6, <1>8, <1>10
    <2> QED BY <2>1, <1>1, <1>2, <1>3, <1>6, <1>8
<1>12. compute_sector(r).sector < s
    BY <1>1, <1>8, <1>11
<1>13. ASSUME r % StripeSectors = 0
       PROVE  compute_sector(r).sector + StripeSectors <= s
    <2> DEFINE u == r \div StripeSectors
               v == SectorsPerChunk \div StripeSectors
    <2>1. u \in Nat /\ r = StripeSectors * u
          /\ v \in Nat /\ SectorsPerChunk = StripeSectors * v
        BY <1>1, <1>7, <1>13, DivExact
    <2> HIDE DEF u, v
    <2>2. off = StripeSectors * (u - v * chunk)
        BY <2>1, <1>1, <1>8
    <2>3. u - v * chunk < v
        BY <2>1, <2>2, <1>1, <1>8
    <2>4. off + StripeSectors <= SectorsPerChunk
        BY <2>1, <2>2, <2>3, <1>1, <1>8
    <2> QED BY <2>4, <1>1, <1>8, <1>11
<1>14. h * raid_disks <= half
    BY <1>1, <1>6, ConfigLemma
<1>15. half < IntLimit
    BY <1>1, <1>2, <1>3
<1>16. chunk < IntLimit
    BY <1>1, <1>3, <1>6, <1>8, <1>9, <1>14, <1>15, ConfigLemma
<1>17. r < SectorLimit
    <2>1. half * raid_disks <= SizeLimit * raid_disks
        BY <1>1, <1>3, <1>15, ConfigLemma
    <2> QED BY <2>1, <1>1, <1>3, <1>7, ConfigLemma
<1> QED
    BY <1>12, <1>13, <1>16, <1>17 DEF chunk

-----------------------------------------------------------------------------
(***************************************************************************)
(* The invariant                                                           *)
(***************************************************************************)

\* A mapped bio has the type TypeOK gives it.
LEMMA MappedType ==
    ASSUME Config, capacity \in Nat, NEW r \in 0..(capacity - 1)
    PROVE  compute_sector(r) \in MappedBios /\ compute_sector(r).r = r
<1>1. r \in Nat
    OBVIOUS
<1>2. compute_sector(r) \in [r : Nat, sector : Nat, pd : DiskIds, dd : DiskIds]
      /\ compute_sector(r).r = r
    BY <1>1, MapLemma
<1> QED
    BY <1>2 DEF MappedBios

LEMMA InitIInv ==
    ASSUME Init
    PROVE  IInv
<1> USE DEF Init
<1>1. SizeLimit \in Nat \ {0} /\ raid_disks \in Nat
    BY GeometryAssumption
<1>2. disks \in Seq(DiskSizes) /\ Len(disks) <= raid_disks
    BY <1>1
<1>3. TypeOK
    BY <1>2 DEF TypeOK
<1>4. size < SizeLimit
    BY <1>1
<1> QED
    BY <1>3, <1>4 DEF IInv, Sized, Started, Mapped

LEMMA AddDiskStep ==
    ASSUME IInv, NEW x \in DiskSizes, AddDisk(x)
    PROVE  IInv'
<1> USE DEF AddDisk
<1>1. ~running /\ cur = None /\ prev = None
    BY DEF IInv, Started, Mapped, TypeOK
<1>2. /\ disks \in Seq(DiskSizes) /\ disks' \in Seq(DiskSizes)
      /\ Len(disks') = Len(disks) + 1 /\ disks' # << >>
      /\ \A i \in 1..Len(disks) : disks'[i] = disks[i]
      /\ disks'[Len(disks) + 1] = x
      /\ DOMAIN disks = 1..Len(disks) /\ DOMAIN disks' = 1..(Len(disks) + 1)
      /\ Len(disks) \in Nat
    BY DEF IInv, TypeOK
<1>3. calc_dev_size(x) \in Nat /\ calc_dev_size(x) < SizeLimit
      /\ SizeLimit \in Nat
    BY DevSizeLemma, GeometryAssumption
<1>4. size' \in Nat /\ size' < SizeLimit
    BY <1>3 DEF IInv, TypeOK, NewSize
<1>5. conf' = conf /\ raid_disks \in Nat
    BY GeometryAssumption DEF IInv, TypeOK
<1>6. capacity' \in Nat
    <2>1. CASE Len(disks) + 1 = raid_disks
        <3>1. size' \div 2 \in Nat /\ ChunkSectors \in Nat \ {0}
            BY <1>4, GeometryAssumption
        <3>2. RoundDown(size' \div 2, ChunkSectors) \in Nat
            BY <3>1, RoundDownLemma
        <3>3. capacity' = RoundDown(size' \div 2, ChunkSectors) * raid_disks
            BY <2>1 DEF jmddev_size
        <3> QED BY <3>2, <3>3, <1>5
    <2>2. CASE Len(disks) + 1 # raid_disks
        BY <2>2 DEF IInv, TypeOK
    <2> QED BY <2>1, <2>2
<1>7. TypeOK'
    <2>1. Len(disks') <= raid_disks
        BY <1>2, <1>5
    <2>2. running' \in BOOLEAN
        BY DEF IInv, TypeOK, LargeEnough
    <2>3. prev' = None /\ cur' = None /\ raid_disks' = raid_disks
          /\ level' = level /\ algorithm' = algorithm
        BY <1>1 DEF conf
    <2> QED
        BY <1>2, <1>4, <1>5, <1>6, <2>1, <2>2, <2>3 DEF IInv, TypeOK
<1>8. Sized'
    <2> SUFFICES ASSUME \A i \in DOMAIN disks' :
                            ~(calc_dev_size(disks'[i]) < SectorsPerChunk)
                 PROVE  /\ size' # 0
                        /\ \A i \in DOMAIN disks' :
                                size' <= calc_dev_size(disks'[i])
        BY DEF Sized, calc_dev_size, calc_dev_sboffset, RoundDown
    <2>1. \A i \in 1..Len(disks) :
            /\ ~(calc_dev_size(disks[i]) < SectorsPerChunk)
            /\ disks[i] \in DiskSizes /\ calc_dev_size(disks[i]) \in Nat
        <3> SUFFICES ASSUME NEW i \in 1..Len(disks)
                     PROVE  /\ ~(calc_dev_size(disks[i]) < SectorsPerChunk)
                            /\ disks[i] \in DiskSizes
                            /\ calc_dev_size(disks[i]) \in Nat
            OBVIOUS
        <3>1. disks[i] \in DiskSizes /\ i \in DOMAIN disks'
              /\ disks'[i] = disks[i]
            BY <1>2
        <3> QED BY <3>1, DevSizeLemma
    <2>2. calc_dev_size(x) # 0
        BY <1>2, <1>3, GeometryAssumption
    <2>3. CASE disks = << >>
        <3>1. size = 0 \/ size > calc_dev_size(x) \/ size <= calc_dev_size(x)
            BY <1>3 DEF IInv, TypeOK
        <3> QED BY <1>2, <1>3, <2>2, <2>3 DEF IInv, TypeOK, NewSize
    <2>4. CASE disks # << >>
        <3>1. size # 0 /\ \A i \in 1..Len(disks) :
                            size <= calc_dev_size(disks[i])
            BY <1>2, <2>1, <2>4 DEF IInv, Sized
        <3>2. size' # 0 /\ size' <= size /\ size' <= calc_dev_size(x)
            BY <1>3, <2>2, <3>1 DEF IInv, TypeOK, NewSize
        <3> QED
            BY <1>2, <1>3, <1>4, <2>1, <3>1, <3>2 DEF IInv, TypeOK
    <2> QED BY <2>3, <2>4
<1>9. Started'
    BY <1>1, <1>2, <1>5 DEF Started, LargeEnough, conf, calc_dev_size, calc_dev_sboffset,
                            RoundDown, jmddev_size
<1> QED
    BY <1>1, <1>4, <1>7, <1>8, <1>9 DEF IInv, Mapped

LEMMA MapBioStep ==
    ASSUME IInv, NEW r \in 0..(capacity - 1), MapBio(r)
    PROVE  IInv'
<1> USE DEF MapBio
<1>1. Config /\ capacity \in Nat
    BY GeometryAssumption DEF IInv, TypeOK, Config, data_disks
<1>2. cur' \in MappedBios /\ cur'.r = r /\ cur' # None
    <2>1. cur' \in MappedBios /\ cur'.r = r
        BY <1>1, MappedType
    <2>2. cur' \in [r : Nat, sector : Nat, pd : Nat, dd : Nat]
        BY <2>1, <1>1, ConfigLemma DEF MappedBios, DiskIds
    <2> QED BY <2>1, <2>2, GeometryAssumption
<1>3. TypeOK'
    BY <1>2 DEF IInv, TypeOK, conf, MappedBios, DiskIds
<1>4. Sized' /\ Started' /\ (size < SizeLimit)'
    BY DEF IInv, Sized, Started, LargeEnough, conf
<1>5. Mapped(prev)' /\ Mapped(cur)'
    <2>1. \A q : compute_sector(q)' = compute_sector(q)
        BY DEF compute_sector, RowOf, ParityDisk, DataDisk, data_disks, conf
    <2> QED BY <1>1, <1>2, <2>1 DEF IInv, Mapped, Config, conf
<1> QED
    BY <1>2, <1>3, <1>4, <1>5 DEF IInv

LEMMA DivideErrorStep ==
    ASSUME IInv, DivideError
    PROVE  IInv'
BY DEF DivideError, conf, IInv, TypeOK, MappedBios, DiskIds, Sized, Started,
       LargeEnough, Mapped, compute_sector, RowOf, ParityDisk, DataDisk,
       data_disks, jmddev_size

\* The invariant holds in every reachable state, for any number of disks, any
\* disk sizes, both levels and all layouts that jraid5_run accepts.
THEOREM IInvHolds == Spec => []IInv
<1>1. Init => IInv
    BY InitIInv
<1>2. IInv /\ [Next]_vars => IInv'
    <2> SUFFICES ASSUME IInv, [Next]_vars PROVE IInv'
        OBVIOUS
    <2>1. ASSUME UNCHANGED vars PROVE IInv'
        BY <2>1 DEF vars, conf, IInv, TypeOK, MappedBios, DiskIds, Sized,
            Started, LargeEnough, Mapped, compute_sector, RowOf, ParityDisk, DataDisk,
            data_disks, jmddev_size, calc_dev_size, calc_dev_sboffset,
            RoundDown
    <2> QED
        BY <2>1, AddDiskStep, MapBioStep, DivideErrorStep DEF Next, Idle
<1> QED
    BY <1>1, <1>2, PTL DEF Spec

\* A mapped bio names two disks of the array.
THEOREM TypeCorrect == Spec => []TypeOK
<1>1. IInv => TypeOK
    BY DEF IInv
<1> QED
    BY <1>1, IInvHolds, PTL

\* No two sectors of the array share a disk sector, and data never goes to the
\* parity disk.
THEOREM NoSharedBlockHolds == Spec => []NoSharedBlock
<1>1. IInv => NoSharedBlock
    <2> SUFFICES ASSUME IInv PROVE NoSharedBlock
        OBVIOUS
    <2>1. cur # None => Config
        BY DEF IInv, TypeOK, Mapped, Config
    <2>2. cur # None => cur.dd # cur.pd
        <3> SUFFICES ASSUME cur # None PROVE cur.dd # cur.pd
            OBVIOUS
        <3>1. cur.r \in Nat /\ cur = compute_sector(cur.r)
            BY DEF IInv, Mapped
        <3> QED BY <2>1, <3>1, MapLemma
    <2>3. prev # None /\ prev.r # cur.r =>
            <<prev.sector, prev.dd>> # <<cur.sector, cur.dd>>
        <3> SUFFICES ASSUME prev # None, prev.r # cur.r,
                            prev.sector = cur.sector, prev.dd = cur.dd
                     PROVE  FALSE
            OBVIOUS
        <3>1. /\ cur.r \in Nat /\ cur = compute_sector(cur.r)
              /\ prev.r \in Nat /\ prev = compute_sector(prev.r)
              /\ cur # None
            BY DEF IInv, Mapped
        <3> QED BY <2>1, <3>1, MapInjective
    <2> QED BY <2>2, <2>3 DEF NoSharedBlock
<1> QED
    BY <1>1, IInvHolds, PTL

\* The parity disk is a function of the stripe, as the stripe cache assumes.
THEOREM ParityOfStripeHolds == Spec => []ParityOfStripe
<1>1. IInv => ParityOfStripe
    <2> SUFFICES ASSUME IInv, prev # None, prev.sector = cur.sector
                 PROVE  prev.pd = cur.pd
        BY DEF ParityOfStripe
    <2>1. Config
        BY DEF IInv, TypeOK, Mapped, Config
    <2>2. /\ cur.r \in Nat /\ cur = compute_sector(cur.r)
          /\ prev.r \in Nat /\ prev = compute_sector(prev.r)
        BY DEF IInv, Mapped
    <2> QED BY <2>1, <2>2, MapInjective
<1> QED
    BY <1>1, IInvHolds, PTL

\* compute_blocknr inverts jraid5_compute_sector below the capacity.
THEOREM RoundTripHolds == Spec => []RoundTrip
<1>1. IInv => RoundTrip
    <2> SUFFICES ASSUME IInv, cur # None
                 PROVE  compute_blocknr(cur.sector, cur.pd, cur.dd) = cur.r
        BY DEF RoundTrip
    <2>1. Config /\ size \in Nat /\ size < SizeLimit
        BY DEF IInv, TypeOK, Mapped, Config
    <2>2. /\ cur.r \in Nat /\ cur = compute_sector(cur.r)
          /\ cur.r \in 0..(jmddev_size(size, raid_disks) - 1)
        BY DEF IInv, Mapped, Started
    <2>3. cur.r \div SectorsPerChunk < IntLimit /\ cur.r < SectorLimit
        BY <2>1, <2>2, CapacityLemma
    <2> QED BY <2>1, <2>2, <2>3, MapInverse
<1> QED
    BY <1>1, IInvHolds, PTL

\* A bio below the capacity stays below the superblock of its disk, if the disk
\* has room for one: for any sizes of the other disks, small ones included.
THEOREM BelowSuperblockHolds == Spec => []BelowSuperblock
<1>1. IInv => BelowSuperblock
    <2> DEFINE x == disks[cur.dd + 1]
               offset == RoundDown(x, Reserved) - Reserved
    <2> SUFFICES ASSUME IInv, cur # None, x >= Reserved
                 PROVE  /\ cur.sector < offset
                        /\ cur.r % StripeSectors = 0 =>
                                cur.sector + StripeSectors <= offset
        BY DEF BelowSuperblock
    <2>1. Config /\ size \in Nat /\ size < SizeLimit
        BY DEF IInv, TypeOK, Mapped, Config
    <2>2. /\ cur.r \in Nat /\ cur = compute_sector(cur.r)
          /\ cur.r \in 0..(jmddev_size(size, raid_disks) - 1)
        BY DEF IInv, Mapped, Started
    <2>3. /\ cur.sector < size
          /\ cur.r % StripeSectors = 0 => cur.sector + StripeSectors <= size
        BY <2>1, <2>2, CapacityLemma
    <2>4. cur.dd + 1 \in 1..raid_disks /\ cur.sector \in Nat
        BY <2>1, ConfigLemma DEF IInv, TypeOK, MappedBios, DiskIds
    <2>5. /\ Len(disks) = raid_disks /\ disks # << >>
          /\ DOMAIN disks = 1..raid_disks /\ disks \in Seq(DiskSizes)
          /\ \A i \in 1..raid_disks :
                calc_dev_size(disks[i]) >= SectorsPerChunk
        BY <2>1, ConfigLemma DEF IInv, TypeOK, Mapped, Started, LargeEnough
    <2>6. x \in DiskSizes
        BY <2>4, <2>5
    <2>7. \A i \in 1..raid_disks : calc_dev_size(disks[i]) \in Nat
        BY <2>5, DevSizeLemma
    <2>8. size <= calc_dev_size(x)
        BY <2>1, <2>4, <2>5, <2>7, ConfigLemma DEF IInv, Sized
    <2>9. size <= offset /\ offset \in Nat
        BY <2>1, <2>6, <2>8, DevSizeLemma
    <2> HIDE DEF offset
    <2> QED
        BY <2>1, <2>3, <2>4, <2>9, GeometryAssumption
<1> QED
    BY <1>1, IInvHolds, PTL
=============================================================================
