------------------------ MODULE ArrayAssembly_proofs ------------------------
(***************************************************************************)
(* Proofs about ArrayAssembly, for any disks, numbers and totals, any       *)
(* number of commands, failures and rounds of jmd_update_sb: the members    *)
(* stay claimed, a failed start leaves nothing, pending_writes is exact,    *)
(* the superblock update reaches every disk, and what jraid5_run starts     *)
(* has its members in slots of their own and room for its capacity.         *)
(***************************************************************************)
EXTENDS ArrayAssembly, FiniteSetTheorems, WellFoundedInduction, TLAPS

-----------------------------------------------------------------------------
(* Lists and sets *)

LEMMA LowestIn ==
    ASSUME NEW T, T \subseteq Nat, T # {}
    PROVE  Lowest(T) \in T
<1> DEFINE R == OpToRel(<, Nat)
<1>1. IsWellFoundedOn(R, Nat)
  BY NatLessThanWellFounded
<1>2. \A x, y \in Nat : x < y => <<x, y>> \in R
  BY DEF OpToRel
<1> HIDE DEF R
<1>3. PICK x \in T : \A y \in T : ~(<<y, x>> \in R)
  BY <1>1, WFMin
<1>4. \A y \in T : x <= y
  <2> TAKE y \in T
  <2> x \in Nat /\ y \in Nat
    OBVIOUS
  <2> ~(y < x)
    BY <1>2, <1>3
  <2> QED
    OBVIOUS
<1> QED
  BY <1>4 DEF Lowest

Listed(l) == {l[i] : i \in DOMAIN l}

\* A list without repetition is as long as it has disks.
LEMMA ListCounted ==
    ASSUME NEW l \in Seq(Devs), \A i, j \in DOMAIN l : l[i] = l[j] => i = j
    PROVE  /\ Listed(l) \subseteq Devs /\ IsFiniteSet(Listed(l))
           /\ Len(l) \in Nat /\ Cardinality(Listed(l)) = Len(l)
           /\ l = << >> <=> Listed(l) = {}
<1>1. /\ Len(l) \in Nat /\ DOMAIN l = 1..Len(l)
      /\ \A i \in 1..Len(l) : l[i] \in Devs
  OBVIOUS
<1>2. Listed(l) \subseteq Devs
  BY <1>1 DEF Listed
<1>4. IsFiniteSet(Listed(l))
  BY <1>2, ArrayConstants, FS_Subset
<1>5. l \in Bijection(1..Len(l), Listed(l))
  <2>1. l \in [1..Len(l) -> Listed(l)]
    BY <1>1 DEF Listed
  <2>2. \A d \in Listed(l) : \E i \in 1..Len(l) : l[i] = d
    BY <1>1 DEF Listed
  <2> QED
    BY <1>1, <2>1, <2>2 DEF Bijection, Injection, Surjection, IsInjective
<1>6. ExistsBijection(1..Len(l), Listed(l))
  BY <1>5 DEF ExistsBijection
<1>7. IsFiniteSet(1..Len(l)) /\ Cardinality(1..Len(l)) = Len(l)
  <2> DEFINE n == Len(l)
  <2>1. n \in Int /\ 1 \in Int /\ (IF 1 > n THEN 0 ELSE n - 1 + 1) = n
    BY <1>1
  <2> HIDE DEF n
  <2>2. IsFiniteSet(1..n) /\ Cardinality(1..n) = n
    BY <2>1, FS_Interval
  <2> QED
    BY <2>2 DEF n
<1>8. Cardinality(Listed(l)) = Len(l)
  BY <1>6, <1>7, FS_Bijection
<1>10. l = << >> <=> Listed(l) = {}
  <2>1. l = << >> => Listed(l) = {}
    BY DEF Listed
  <2>2. Listed(l) = {} => Len(l) = 0
    BY <1>8, FS_EmptySet
  <2>3. Len(l) = 0 => l = << >>
    BY <1>1
  <2> QED
    BY <2>1, <2>2, <2>3
<1> QED
  BY <1>1, <1>2, <1>4, <1>8, <1>10

LEMMA MembersCounted ==
    ASSUME TypeOK
    PROVE  /\ Members \subseteq Devs /\ IsFiniteSet(Members)
           /\ Len(disks) \in Nat /\ Cardinality(Members) = Len(disks)
           /\ disks = << >> <=> Members = {}
<1>1. disks \in Seq(Devs) /\ \A i, j \in DOMAIN disks : disks[i] = disks[j] => i = j
  BY DEF TypeOK
<1>2. Members = Listed(disks)
  BY DEF Members, Listed
<1> QED
  BY <1>1, <1>2, ListCounted

\* bind_rdev_to_array
LEMMA BindLemma ==
    ASSUME TypeOK, NEW d \in Devs, d \notin Members
    PROVE  LET l == bind_rdev_to_array(d)
           IN  /\ l \in Seq(Devs) /\ l # << >>
               /\ \A i, j \in DOMAIN l : l[i] = l[j] => i = j
               /\ Listed(l) = Members \cup {d} /\ Len(l) = Len(disks) + 1
<1> DEFINE l == << d >> \o disks
<1>1. disks \in Seq(Devs) /\ Len(disks) \in Nat /\ DOMAIN disks = 1..Len(disks)
      /\ \A i, j \in 1..Len(disks) : disks[i] = disks[j] => i = j
  <2>1. disks \in Seq(Devs) /\ \A i, j \in DOMAIN disks : disks[i] = disks[j] => i = j
    BY DEF TypeOK
  <2> QED
    BY <2>1
<1>2. /\ l \in Seq(Devs) /\ Len(l) = Len(disks) + 1 /\ DOMAIN l = 1..(Len(disks) + 1)
      /\ l[1] = d /\ \A i \in 1..(Len(disks) + 1) : i # 1 => l[i] = disks[i - 1]
  BY <1>1
<1> HIDE DEF l
<1>3. \A i \in 1..(Len(disks) + 1) : i # 1 => i - 1 \in 1..Len(disks)
  BY <1>1
<1>4. \A i \in 1..Len(disks) : disks[i] # d
  BY <1>1 DEF Members
<1>5. \A i, j \in DOMAIN l : l[i] = l[j] => i = j
  <2> SUFFICES ASSUME NEW i \in 1..(Len(disks) + 1), NEW j \in 1..(Len(disks) + 1),
                      l[i] = l[j]
               PROVE  i = j
    BY <1>2
  <2>1. CASE i = 1 \/ j = 1
    BY <1>2, <1>3, <1>4, <2>1
  <2>2. CASE i # 1 /\ j # 1
    <3>1. i - 1 = j - 1
      BY <1>1, <1>2, <1>3, <2>2
    <3> QED
      BY <3>1
  <2> QED
    BY <2>1, <2>2
<1>6. Listed(l) = Members \cup {d}
  <2>1. ASSUME NEW x \in Listed(l)
        PROVE  x \in Members \cup {d}
    <3>1. PICK i \in 1..(Len(disks) + 1) : x = l[i]
      BY <1>2 DEF Listed
    <3>2. CASE i = 1
      BY <1>2, <3>1, <3>2
    <3>3. CASE i # 1
      <4>1. x = disks[i - 1] /\ i - 1 \in DOMAIN disks
        BY <1>1, <1>2, <1>3, <3>1, <3>3
      <4> QED
        BY <4>1 DEF Members
    <3> QED
      BY <3>2, <3>3
  <2>2. d \in Listed(l)
    <3> 1 \in 1..(Len(disks) + 1)
      BY <1>1
    <3> QED
      BY <1>2 DEF Listed
  <2>3. \A x \in Members : x \in Listed(l)
    <3> SUFFICES ASSUME NEW i \in 1..Len(disks)
                 PROVE  disks[i] \in Listed(l)
      BY <1>1 DEF Members
    <3>1. i + 1 \in 1..(Len(disks) + 1) /\ i + 1 # 1 /\ (i + 1) - 1 = i
      BY <1>1
    <3>2. l[i + 1] = disks[i]
      BY <1>2, <3>1
    <3> QED
      BY <1>2, <3>1, <3>2 DEF Listed
  <2> QED
    BY <2>1, <2>2, <2>3
<1>7. l # << >>
  BY <1>1, <1>2
<1> QED
  BY <1>2, <1>5, <1>6, <1>7 DEF bind_rdev_to_array, l

-----------------------------------------------------------------------------
(* The superblock *)

LEMMA SbFields ==
    ASSUME NEW s \in Superblocks
    PROVE  /\ s.disks \in [Indices -> Descs] /\ s.nr_disks \in Nat
           /\ s.raid_disks \in Nat /\ s.size \in Nat /\ s.events \in Nat
           /\ s # None
BY NullIsNoSuperblock DEF Superblocks

LEMMA InfoLemma ==
    ASSUME TypeOK, SbFollowed, NEW total \in Totals
    PROVE  LET s == set_array_info(total)
           IN  /\ s \in Superblocks /\ DescsNumbered(s)
               /\ s.raid_disks = total /\ s.nr_disks = total /\ s.size = 0
               /\ total \in 0..(Wrap - 1)
               /\ sb # None => s.events = sb.events /\ s.disks = sb.disks
               /\ sb = None => \A i \in Indices : s.disks[i] = NoDesc
<1> DEFINE s == set_array_info(total)
<1>1. total \in Nat /\ total \in 0..(Wrap - 1)
  BY ArrayConstants
<1>2. NoDesc \in Descs
  BY DEF NoDesc, Descs
<1>3. CASE sb = None
  <2>1. s = [disks |-> [i \in Indices |-> NoDesc], nr_disks |-> total,
             raid_disks |-> total, size |-> 0, events |-> 0]
    BY <1>3 DEF set_array_info
  <2>2. s \in Superblocks
    BY <1>1, <1>2, <2>1 DEF Superblocks
  <2> QED
    BY <1>1, <1>3, <2>1, <2>2 DEF DescsNumbered, NoDesc
<1>4. CASE sb # None
  <2>1. s = [disks |-> sb.disks, nr_disks |-> total,
             raid_disks |-> total, size |-> 0, events |-> sb.events]
    BY <1>4 DEF set_array_info
  <2>2. s \in Superblocks
    BY <1>1, <1>4, <2>1 DEF Superblocks, TypeOK
  <2> QED
    BY <1>1, <1>4, <2>1, <2>2 DEF DescsNumbered, SbFollowed
<1> QED
  BY <1>3, <1>4

LEMMA WriteDescLemma ==
    ASSUME NEW s \in Superblocks, NEW nr \in Indices, NEW d \in Devs
    PROVE  LET t == WriteDesc(s, nr, d)
           IN  /\ t \in Superblocks
               /\ DescsNumbered(s) => DescsNumbered(t)
               /\ t.nr_disks = s.nr_disks /\ t.raid_disks = s.raid_disks
               /\ t.size = s.size /\ t.events = s.events
               /\ t.disks[nr] = [number |-> nr, dev |-> d, faulty |-> FALSE]
               /\ \A i \in Indices \ {nr} : t.disks[i] = s.disks[i]
<1> DEFINE e == [number |-> nr, dev |-> d, faulty |-> FALSE]
           t == WriteDesc(s, nr, d)
<1>1. t = [s EXCEPT !.disks = [s.disks EXCEPT ![nr] = e]]
  BY DEF WriteDesc, Superblocks
<1>2. e \in Descs
  BY ArrayConstants DEF Descs, Indices
<1>3. [s.disks EXCEPT ![nr] = e] \in [Indices -> Descs]
  BY <1>2, SbFields
<1>4. t \in Superblocks /\ t.disks = [s.disks EXCEPT ![nr] = e]
      /\ t.nr_disks = s.nr_disks /\ t.raid_disks = s.raid_disks
      /\ t.size = s.size /\ t.events = s.events
  BY <1>1, <1>3 DEF Superblocks
<1>5. t.disks[nr] = e /\ \A i \in Indices \ {nr} : t.disks[i] = s.disks[i]
  BY <1>4, SbFields
<1>6. DescsNumbered(s) => DescsNumbered(t)
  BY <1>5, SbFields DEF DescsNumbered
<1> QED
  BY <1>4, <1>5, <1>6

LEMMA SyncLemma ==
    ASSUME NEW s \in Superblocks, NEW members \in SUBSET Devs,
           NEW nrs \in [Devs -> Nat]
    PROVE  /\ sync_sbs(s, members, nrs) \in [Devs -> Nat]
           /\ \A d \in Devs \ members : sync_sbs(s, members, nrs)[d] = nrs[d]
           /\ DescsNumbered(s) =>
                \A d \in members :
                    \/ sync_sbs(s, members, nrs)[d] = nrs[d]
                       /\ \A i \in Indices : s.disks[i].dev # d
                    \/ sync_sbs(s, members, nrs)[d] \in Indices
                       /\ s.disks[sync_sbs(s, members, nrs)[d]].dev = d
<1>1. ASSUME NEW d \in Devs
      PROVE  /\ set_this_disk(s, d, nrs[d]) \in Nat
             /\ DescsNumbered(s) =>
                  \/ set_this_disk(s, d, nrs[d]) = nrs[d]
                     /\ \A i \in Indices : s.disks[i].dev # d
                  \/ set_this_disk(s, d, nrs[d]) \in Indices
                     /\ s.disks[set_this_disk(s, d, nrs[d])].dev = d
  <2> DEFINE mine == {i \in Indices : s.disks[i].dev = d}
  <2>1. CASE mine = {}
    <3>1. set_this_disk(s, d, nrs[d]) = nrs[d]
      BY <2>1 DEF set_this_disk
    <3> QED
      BY <2>1, <3>1
  <2>2. CASE mine # {}
    <3>1. mine \subseteq Nat
      BY ArrayConstants DEF Indices
    <3>2. Lowest(mine) \in mine
      <4> HIDE DEF mine
      <4> QED
        BY <2>2, <3>1, LowestIn
    <3>3. set_this_disk(s, d, nrs[d]) = s.disks[Lowest(mine)].number
      BY <2>2 DEF set_this_disk
    <3>4. Lowest(mine) \in Indices /\ s.disks[Lowest(mine)].dev = d
      BY <3>2
    <3> HIDE DEF mine
    <3>5. s.disks[Lowest(mine)].number \in Nat
      BY <3>4, SbFields DEF Descs
    <3>6. DescsNumbered(s) => s.disks[Lowest(mine)].number = Lowest(mine)
      BY <3>4, SbFields, ArrayConstants DEF DescsNumbered
    <3> QED
      BY <3>3, <3>4, <3>5, <3>6
  <2> QED
    BY <2>1, <2>2
<1> QED
  BY <1>1 DEF sync_sbs

LEMMA AnalyzedLemma ==
    ASSUME NEW s \in Superblocks, NEW nrs
    PROVE  LET t == Analyzed(s, nrs)
           IN  /\ t \in Superblocks
               /\ DescsNumbered(s) => DescsNumbered(t)
               /\ t.raid_disks = s.raid_disks
               /\ t.size = s.size /\ t.events = s.events
               /\ s.nr_disks < Wrap /\ (\A i \in Indices : ~Removed(s.disks[i], nrs))
                    => t.disks = s.disks /\ t.nr_disks = s.nr_disks
<1> DEFINE out == {i \in Indices : Removed(s.disks[i], nrs)}
           ds == [i \in Indices |-> IF i \in out THEN remove_descriptor(s.disks[i])
                                    ELSE s.disks[i]]
           n == (s.nr_disks - Cardinality(out)) % Wrap
           t == Analyzed(s, nrs)
<1>1. t = [s EXCEPT !.disks = ds, !.nr_disks = n]
  BY DEF Analyzed
<1>2. ds \in [Indices -> Descs]
  <2>1. ASSUME NEW i \in Indices
        PROVE  s.disks[i] \in Descs /\ remove_descriptor(s.disks[i]) \in Descs
    BY SbFields DEF Descs, remove_descriptor
  <2> QED
    BY <2>1
<1>3. IsFiniteSet(out) /\ Cardinality(out) \in Nat
  <2>1. IsFiniteSet(Indices)
    BY FS_Interval, ArrayConstants DEF Indices
  <2>2. out \in SUBSET Indices
    OBVIOUS
  <2> HIDE DEF out
  <2> QED
    BY <2>1, <2>2, FS_Subset, FS_CardinalityType
<1>4. n \in Nat
  <2> DEFINE x == s.nr_disks - Cardinality(out)
  <2>1. x \in Int /\ Wrap \in Nat /\ Wrap > 0
    BY <1>3, SbFields, ArrayConstants
  <2> HIDE DEF x
  <2>2. x % Wrap \in Nat
    BY <2>1
  <2> QED
    BY <2>2 DEF x
<1>5. ASSUME s.nr_disks < Wrap, \A i \in Indices : ~Removed(s.disks[i], nrs)
      PROVE  ds = s.disks /\ n = s.nr_disks
  <2>1. out = {}
    BY <1>5
  <2>2. Cardinality(out) = 0
    BY <2>1, FS_EmptySet
  <2>3. n = s.nr_disks
    <3> s.nr_disks \in Nat /\ Wrap \in Nat /\ s.nr_disks - Cardinality(out) = s.nr_disks
      BY <2>2, SbFields, ArrayConstants
    <3>1. s.nr_disks % Wrap = s.nr_disks
      BY <1>5
    <3> QED
      BY <3>1
  <2>4. ds = s.disks
    <3>1. ds = [i \in Indices |-> s.disks[i]]
      BY <2>1
    <3> QED
      BY <3>1, SbFields
  <2> QED
    BY <2>3, <2>4
<1>6. ASSUME DescsNumbered(s), NEW i \in Indices, ds[i].dev # None
      PROVE  ds[i].number = i
  <2>1. i \notin out
    BY <1>6, SbFields DEF remove_descriptor, Descs
  <2>2. ds[i] = s.disks[i]
    BY <2>1
  <2> QED
    BY <1>6, <2>2, SbFields DEF DescsNumbered
<1> HIDE DEF ds, n, out
<1>7. /\ t \in Superblocks /\ t.disks = ds /\ t.nr_disks = n
      /\ t.raid_disks = s.raid_disks /\ t.size = s.size /\ t.events = s.events
  BY <1>1, <1>2, <1>4 DEF Superblocks
<1>8. DescsNumbered(s) => DescsNumbered(t)
  BY <1>6, <1>7 DEF DescsNumbered
<1> QED
  BY <1>5, <1>7, <1>8 DEF out

\* jmddev_size halves the size and multiplies it by one more than the disks.
LEMMA CapacityLemma ==
    ASSUME NEW s \in Superblocks, NEW n \in Nat
    PROVE  /\ jmddev_size(s, n + 1) \in Nat
           /\ 2 * jmddev_size(s, n + 1) <= s.size * n
<1> DEFINE half == s.size \div 2
           h == half - (half % Grain)
<1>1. s.size \in Nat /\ s # None /\ Grain \in Nat \ {0}
  BY SbFields, ArrayConstants
<1>2. half \in Nat /\ 2 * half <= s.size
  BY <1>1
<1>3. half % Grain \in Nat /\ half % Grain <= half
  <2> HIDE DEF half
  <2> QED
    BY <1>1, <1>2
<1>4. h \in Nat /\ 2 * h <= s.size
  <2> HIDE DEF half
  <2> QED
    BY <1>1, <1>2, <1>3
<1>5. jmddev_size(s, n + 1) = h * n
  BY <1>1 DEF jmddev_size
<1> HIDE DEF h
<1>6. h * n \in Nat /\ 2 * (h * n) = (2 * h) * n /\ (2 * h) * n <= s.size * n
  BY <1>1, <1>4
<1> QED
  BY <1>1, <1>5, <1>6
-----------------------------------------------------------------------------
(* Steps that leave the array alone *)

LEMMA InitIInv == Init => IInv
<1> SUFFICES ASSUME Init
             PROVE  IInv
  OBVIOUS
<1>1. TypeOK
  <2> USE DEF Init
  <2>1. /\ disks \in Seq(Devs) /\ left \in Seq(Devs)
        /\ \A i, j \in DOMAIN disks : disks[i] = disks[j] => i = j
    OBVIOUS
  <2>2. /\ desc_nr \in [Devs -> Nat] /\ sent \in [Devs -> Nat]
        /\ count \in 0..Retries /\ orphans \in 0..MaxFaults /\ adds \in 0..MaxAdds
        /\ loads \in 0..MaxLoads /\ faults \in 0..MaxFaults
    BY ArrayConstants
  <2>3. /\ sb \in Superblocks \cup {None} /\ synced \in Superblocks \cup {None}
        /\ conf \in {None, Freed} /\ held \subseteq Devs /\ resized \subseteq Devs
        /\ inflight \subseteq [dev : Devs, events : Nat]
        /\ loaded \in BOOLEAN /\ pers \in BOOLEAN /\ gone \in BOOLEAN
    BY Zenon
  <2>4. capacity \in Nat /\ err \in Int /\ pending \in Int
    OBVIOUS
  <2>5. pc = "idle" /\ bug = "none"
    OBVIOUS
  <2> HIDE DEF Init
  <2> QED
    BY <2>1, <2>2, <2>3, <2>4, <2>5 DEF TypeOK
<1> USE DEF Init
<1>2. Members = {}
  BY DEF Members
<1>3. MembersHeld /\ SbFollowed /\ SizeKept /\ NoLeftovers
  BY <1>2 DEF MembersHeld, SbFollowed, DescsNumbered, SizeKept, NoLeftovers
<1>4. CommandOK /\ RoundOK /\ UpdateComplete
  BY DEF CommandOK, RoundOK, UpdateComplete, Running
<1>5. InflightOK /\ PendingAccounted
  BY FS_EmptySet DEF InflightOK, PendingAccounted
<1> QED
  BY <1>1, <1>3, <1>4, <1>5 DEF IInv

LEMMA ArrayKept ==
    ASSUME IInv, UNCHANGED <<sb, synced, disks, desc_nr>>,
           faults' \in {faults, faults + 1}, sb = None => inflight' = {}
    PROVE  Members' = Members /\ SbFollowed' /\ SizeKept' /\ NoLeftovers'
<1>1. Members' = Members
  BY DEF Members
<1>2. SbFollowed' /\ SizeKept'
  BY <1>1 DEF IInv, SbFollowed, DescsNumbered, SizeKept
<1>3. faults' = 0 => faults = 0
  BY DEF IInv, TypeOK
<1>4. NoLeftovers'
  BY <1>1, <1>3 DEF IInv, NoLeftovers
<1> QED
  BY <1>1, <1>2, <1>4

\* Most steps leave the array alone.
LEMMA ArrayTyped ==
    ASSUME TypeOK, UNCHANGED <<sb, synced, disks, desc_nr, capacity>>,
           held' \subseteq Devs
    PROVE  /\ sb' \in Superblocks \cup {None} /\ synced' \in Superblocks \cup {None}
           /\ disks' \in Seq(Devs)
           /\ \A i, j \in DOMAIN disks' : disks'[i] = disks'[j] => i = j
           /\ desc_nr' \in [Devs -> Nat] /\ held' \subseteq Devs /\ capacity' \in Nat
BY DEF TypeOK

LEMMA ControlTyped ==
    ASSUME TypeOK, UNCHANGED <<left, sent, inflight>>
    PROVE  /\ left' \in Seq(Devs) /\ sent' \in [Devs -> Nat]
           /\ inflight' \subseteq [dev : Devs, events : Nat]
BY DEF TypeOK

LEMMA ConfTyped ==
    ASSUME TypeOK, conf' \in {conf, None, Freed}
    PROVE  conf' \in {None, Freed}
                \cup [slots : [Indices -> Devs \cup {None}], raid_disks : Nat]
BY DEF TypeOK

\* Steps outside of a command, and steps into a bug.
LEMMA AsideStep ==
    ASSUME IInv, TypeOK',
           UNCHANGED <<sb, synced, disks, desc_nr, capacity, pers, pc, update,
                       orphans, gone>>,
           held \subseteq held', faults' \in {faults, faults + 1},
           conf' = conf \/ (conf # None /\ conf' = Freed)
    PROVE  IInv'
<1> USE DEF update
<1>1. Members' = Members /\ SbFollowed' /\ SizeKept' /\ NoLeftovers'
  BY ArrayKept DEF IInv, SbFollowed
<1>2. MembersHeld'
  BY <1>1 DEF IInv, MembersHeld
<1>3. Running' => conf' = conf /\ Running
  BY DEF Running
<1>4. CommandOK'
  <2>1. orphans' <= faults'
    BY DEF IInv, TypeOK, CommandOK
  <2>2. pc' = "run" => 2 * capacity' <= sb'.size * Len(disks')
    BY DEF IInv, CommandOK
  <2> QED
    BY <1>1, <1>3, <2>1, <2>2 DEF IInv, CommandOK, Operational, Used
<1>5. RoundOK' /\ InflightOK' /\ PendingAccounted'
  BY DEF IInv, RoundOK, InflightOK, PendingAccounted, Done
<1>6. UpdateComplete'
  BY <1>3 DEF IInv, UpdateComplete, Operational, Used
<1> QED
  BY <1>1, <1>2, <1>4, <1>5, <1>6 DEF IInv

LEMMA ExitStep ==
    ASSUME IInv, jmd_exit
    PROVE  IInv'
<1>1. /\ pc = "idle" /\ gone' = TRUE /\ held' = held \ Members
      /\ UNCHANGED <<sb, synced, disks, desc_nr, capacity, loaded, pers, conf,
                   orphans, pc, update, resized, adds, loads, faults, bug>>
  BY DEF jmd_exit
<1> USE DEF update
<1>2. TypeOK'
  BY <1>1 DEF IInv, TypeOK
<1>3. Members' = Members /\ SbFollowed' /\ SizeKept' /\ NoLeftovers'
  BY <1>1, ArrayKept DEF IInv, SbFollowed
<1>4. MembersHeld' /\ RoundOK' /\ PendingAccounted'
  BY <1>1 DEF MembersHeld, RoundOK, PendingAccounted
<1>5. CommandOK' /\ UpdateComplete' /\ InflightOK'
  BY <1>1, <1>3 DEF IInv, CommandOK, UpdateComplete, InflightOK, Running, Operational, Used, Done
<1> QED
  BY <1>2, <1>3, <1>4, <1>5 DEF IInv

-----------------------------------------------------------------------------
(* The command add *)

\* The superblock a command begins with.
LEMMA StartSb ==
    ASSUME IInv, NEW total \in Totals, NEW s0,
           s0 = ArrayInfo(total) \/ (s0 = sb /\ sb = None /\ disks = << >>)
    PROVE  /\ s0 \in Superblocks \cup {None} /\ DescsNumbered(s0)
           /\ s0 # None => s0.raid_disks \in 0..(Wrap - 1)
           /\ sb # None => s0 # None /\ s0.events = sb.events
           /\ disks # << >> => s0 = sb
           /\ disks = << >> /\ s0 # None => s0.size = 0
           /\ faults = 0 /\ s0 # None =>
                /\ s0.nr_disks <= s0.raid_disks
                /\ \A i \in Indices :
                        /\ ~s0.disks[i].faulty
                        /\ s0.disks[i].dev # None =>
                                /\ s0.disks[i].dev \in Members
                                /\ desc_nr[s0.disks[i].dev] = i
<1>1. TypeOK /\ SbFollowed /\ NoLeftovers
  BY DEF IInv
<1>2. CASE disks # << >> \/ s0 = None
  <2>1. s0 = sb
    BY <1>1, <1>2, InfoLemma, SbFields DEF ArrayInfo
  <2>2. disks = << >> => s0 = None
    BY <1>2
  <2> QED
    BY <1>1, <2>1, <2>2 DEF TypeOK, SbFollowed, NoLeftovers
<1>3. CASE disks = << >> /\ s0 # None
  <2>1. disks = << >> /\ s0 = set_array_info(total)
    BY <1>3 DEF ArrayInfo
  <2>2. /\ s0 \in Superblocks /\ DescsNumbered(s0)
        /\ s0.raid_disks = total /\ s0.nr_disks = total /\ s0.size = 0
        /\ total \in 0..(Wrap - 1)
        /\ sb # None => s0.events = sb.events /\ s0.disks = sb.disks
        /\ sb = None => \A i \in Indices : s0.disks[i] = NoDesc
    BY <1>1, <2>1, InfoLemma
  <2>3. s0 # None
    BY <2>2, SbFields
  <2>4. ASSUME faults = 0, NEW i \in Indices
        PROVE  /\ ~s0.disks[i].faulty
               /\ s0.disks[i].dev # None =>
                        s0.disks[i].dev \in Members /\ desc_nr[s0.disks[i].dev] = i
    BY <1>1, <2>2, <2>4 DEF NoLeftovers, NoDesc
  <2>5. s0.nr_disks <= s0.raid_disks
    BY <2>2
  <2> QED
    BY <2>1, <2>2, <2>3, <2>4, <2>5
<1> QED
  BY <1>2, <1>3

\* d has written descriptor nr of s0, which had none left over; s2 is the result.
Joined(members, old, d, nr, s0, s2, base) ==
    /\ members \subseteq Devs /\ d \in Devs /\ d \notin members /\ nr \in Indices
    /\ s0 \in Superblocks /\ s2 \in Superblocks /\ DescsNumbered(s2)
    /\ \A i \in Indices : s0.disks[i].dev # None =>
            s0.disks[i].dev \in members /\ old[s0.disks[i].dev] = i
    /\ s2.disks[nr] = [number |-> nr, dev |-> d, faulty |-> FALSE]
    /\ \A i \in Indices \ {nr} : s2.disks[i] = s0.disks[i]
    /\ base \in [Devs -> Nat] /\ base[d] = nr
    /\ \A e \in Devs \ {d} : base[e] = old[e]

\* If no descriptor is left over, a disk that joins gets its number and the
\* others keep theirs.
LEMMA JoinNumbers ==
    ASSUME NEW members, NEW old, NEW d, NEW nr, NEW s0, NEW s2, NEW base,
           Joined(members, old, d, nr, s0, s2, base),
           NEW nrs, nrs = sync_sbs(s2, members \cup {d}, base)
    PROVE  nrs[d] = nr /\ \A e \in members : nrs[e] = old[e]
<1>1. /\ members \subseteq Devs /\ d \in Devs /\ d \notin members /\ nr \in Indices
      /\ s0 \in Superblocks /\ s2 \in Superblocks /\ DescsNumbered(s2)
      /\ \A i \in Indices : s0.disks[i].dev # None =>
            s0.disks[i].dev \in members /\ old[s0.disks[i].dev] = i
      /\ s2.disks[nr] = [number |-> nr, dev |-> d, faulty |-> FALSE]
      /\ \A i \in Indices \ {nr} : s2.disks[i] = s0.disks[i]
      /\ base \in [Devs -> Nat] /\ base[d] = nr
      /\ \A e \in Devs \ {d} : base[e] = old[e]
  BY DEF Joined
<1>2. members \cup {d} \in SUBSET Devs /\ members \subseteq Devs /\ None \notin Devs
  BY <1>1, ArrayConstants
<1>3. \A e \in members \cup {d} :
        nrs[e] = base[e] \/ (nrs[e] \in Indices /\ s2.disks[nrs[e]].dev = e)
  <2> DEFINE M == members \cup {d}
  <2>1. M \in SUBSET Devs /\ nrs = sync_sbs(s2, M, base)
    BY <1>2
  <2> HIDE DEF M
  <2>2. s2 \in Superblocks /\ DescsNumbered(s2) /\ base \in [Devs -> Nat]
    BY <1>1
  <2>3. \A e \in M : nrs[e] = base[e] \/ (nrs[e] \in Indices /\ s2.disks[nrs[e]].dev = e)
    BY ONLY <2>1, <2>2, SyncLemma
  <2> QED
    BY <2>3 DEF M
<1>4. ASSUME NEW e \in members \cup {d}, nrs[e] # nr, nrs[e] \in Indices,
             s2.disks[nrs[e]].dev = e
      PROVE  e \in members /\ old[e] = nrs[e]
  BY <1>1, <1>2, <1>4
<1>5. nrs[d] = nr
  BY <1>1, <1>3, <1>4
<1>6. ASSUME NEW e \in members
      PROVE  nrs[e] = old[e]
  <2>1. e # d /\ e \in Devs
    BY <1>1, <1>2
  <2>2. CASE nrs[e] = base[e]
    BY <1>1, <2>1, <2>2
  <2>3. CASE nrs[e] \in Indices /\ s2.disks[nrs[e]].dev = e
    <3>1. nrs[e] # nr
      BY <1>1, <2>1, <2>3
    <3> QED
      BY <1>4, <2>3, <3>1
  <2> QED
    BY <1>3, <2>2, <2>3
<1> QED
  BY <1>5, <1>6

LEMMA AddStoreStep ==
    ASSUME IInv, NEW d \in Devs, NEW total \in Totals, NEW nr \in Numbers,
           NEW out \in AddOutcomes, AddStore(d, total, nr, out)
    PROVE  IInv'
<1> DEFINE first == disks = << >>
           s0 == IF out = "no_sb" THEN sb ELSE ArrayInfo(total)
           accepted == Accepts(s0, d, nr)
           joins == accepted /\ out = "ok"
           s1 == IF accepted THEN WriteDesc(s0, nr, d) ELSE s0
           s2 == IF joins THEN [s1 EXCEPT !.size = NewSize(s1, d)] ELSE s1
           members == IF joins THEN Members \cup {d} ELSE Members
           nrs == IF joins
                  THEN sync_sbs(s2, members, [desc_nr EXCEPT ![d] = nr])
                  ELSE desc_nr
           copy == IF joins THEN s2 ELSE synced
           complete == Cardinality(members) = total
           analyze == complete /\ members # {} /\ ~pers
           s3 == IF analyze THEN Analyzed(copy, {nrs[m] : m \in members}) ELSE s2
           starts == analyze /\ do_jmd_run(s3, members, nrs)
<1>1. /\ pc = "idle" /\ ~gone /\ adds < MaxAdds
      /\ d \notin held /\ (accepted => nr \in Indices)
      /\ out = "no_sb" => sb = None /\ first
      /\ out # "ok" => faults < MaxFaults
      /\ sb' = s3 /\ synced' = copy /\ desc_nr' = nrs
      /\ disks' = IF joins THEN bind_rdev_to_array(d) ELSE disks
      /\ held' = IF joins THEN lock_jrdev(d) ELSE held
      /\ capacity' = IF complete THEN jmddev_size(s2, total + 1) ELSE capacity
      /\ pers' = (pers \/ starts)
      /\ pc' = IF starts THEN "run" ELSE "idle"
      /\ adds' = adds + 1
      /\ faults' = IF out = "ok" THEN faults ELSE faults + 1
      /\ UNCHANGED <<loaded, conf, orphans, update, resized, gone, loads, bug>>
  BY DEF AddStore
<1>2. TypeOK /\ SbFollowed /\ MembersHeld /\ SizeKept /\ NoLeftovers /\ CommandOK
  BY DEF IInv
<1>3. /\ Members \subseteq Devs /\ IsFiniteSet(Members) /\ Members \subseteq held
      /\ first <=> Members = {}
  BY <1>1, <1>2, MembersCounted DEF MembersHeld
<1>4. /\ s0 \in Superblocks \cup {None} /\ DescsNumbered(s0)
      /\ s0 # None => s0.raid_disks \in 0..(Wrap - 1)
      /\ sb # None => s0 # None /\ s0.events = sb.events
      /\ ~first => s0 = sb
      /\ first /\ s0 # None => s0.size = 0
      /\ faults = 0 /\ s0 # None =>
                /\ s0.nr_disks <= s0.raid_disks
                /\ \A i \in Indices :
                        /\ ~s0.disks[i].faulty
                        /\ s0.disks[i].dev # None =>
                                /\ s0.disks[i].dev \in Members
                                /\ desc_nr[s0.disks[i].dev] = i
  <2>1. s0 = ArrayInfo(total) \/ (s0 = sb /\ sb = None /\ disks = << >>)
    BY <1>1
  <2> HIDE DEF s0
  <2> QED
    BY <2>1, StartSb
<1>5. accepted => s0 # None /\ d \notin Members /\ nr < s0.nr_disks /\ nr \in Indices
  BY <1>1 DEF Accepts
<1>6. faults' = 0 => faults = 0 /\ out = "ok" /\ (joins <=> accepted)
  BY <1>1, <1>2 DEF TypeOK
<1> HIDE DEF s0, accepted
\* s1 and s2
<1>7. /\ accepted => /\ s1 \in Superblocks /\ DescsNumbered(s1)
                     /\ s1.nr_disks = s0.nr_disks /\ s1.raid_disks = s0.raid_disks
                     /\ s1.size = s0.size /\ s1.events = s0.events
                     /\ s1.disks[nr] = [number |-> nr, dev |-> d, faulty |-> FALSE]
                     /\ \A i \in Indices \ {nr} : s1.disks[i] = s0.disks[i]
      /\ ~accepted => s1 = s0
  <2>1. ASSUME accepted
        PROVE  s0 \in Superblocks /\ nr \in Indices /\ DescsNumbered(s0)
    BY <1>4, <1>5, <2>1
  <2>2. accepted => s1 = WriteDesc(s0, nr, d)
    OBVIOUS
  <2> HIDE DEF s1
  <2>3. ~accepted => s1 = s0
    BY DEF s1
  <2> QED
    BY <2>1, <2>2, <2>3, WriteDescLemma
<1> HIDE DEF s1
<1>8. /\ joins => /\ s2 \in Superblocks /\ s2.disks = s1.disks
                  /\ s2.nr_disks = s1.nr_disks /\ s2.raid_disks = s1.raid_disks
                  /\ s2.size = NewSize(s1, d) /\ s2.events = s1.events
                  /\ DescsNumbered(s2)
      /\ ~joins => s2 = s1
  <2>1. ASSUME joins
        PROVE  s1 \in Superblocks /\ NewSize(s1, d) \in Nat /\ DescsNumbered(s1)
    BY <1>7, <2>1, SbFields, ArrayConstants DEF NewSize
  <2>2. joins => s2 = [s1 EXCEPT !.size = NewSize(s1, d)]
    OBVIOUS
  <2>3. ASSUME joins
        PROVE  /\ s2 \in Superblocks /\ s2.disks = s1.disks
               /\ s2.nr_disks = s1.nr_disks /\ s2.raid_disks = s1.raid_disks
               /\ s2.size = NewSize(s1, d) /\ s2.events = s1.events
    <3> HIDE DEF s2
    <3> QED
      BY <2>1, <2>2, <2>3 DEF Superblocks
  <2>4. joins => DescsNumbered(s2)
    BY <2>1, <2>3, SbFields DEF DescsNumbered
  <2> QED
    BY <2>3, <2>4
<1> HIDE DEF s2
<1>9. /\ s2 \in Superblocks \cup {None} /\ DescsNumbered(s2)
      /\ s0 # None => s2 # None /\ s2.raid_disks = s0.raid_disks
                      /\ s2.events = s0.events /\ s2.nr_disks = s0.nr_disks
      /\ s0 # None /\ ~joins => s2.size = s0.size
      /\ s0 = None => s2 = None /\ ~joins
  BY <1>4, <1>5, <1>7, <1>8, SbFields
\* the members
<1>10. /\ disks' \in Seq(Devs) /\ Members' = members
       /\ \A i, j \in DOMAIN disks' : disks'[i] = disks'[j] => i = j
       /\ joins => disks' # << >>
       /\ Len(disks) <= Len(disks')
  <2>1. CASE joins
    <3>1. disks' = bind_rdev_to_array(d) /\ d \notin Members
      BY <1>1, <1>5, <2>1
    <3>2. /\ disks' \in Seq(Devs) /\ disks' # << >>
          /\ \A i, j \in DOMAIN disks' : disks'[i] = disks'[j] => i = j
          /\ Listed(disks') = Members \cup {d} /\ Len(disks') = Len(disks) + 1
      BY <1>2, <3>1, BindLemma
    <3>3. Len(disks) <= Len(disks')
      BY <1>2, <3>2 DEF TypeOK
    <3> QED
      BY <2>1, <3>2, <3>3 DEF Members, Listed
  <2>2. CASE ~joins
    <3>1. disks' = disks
      BY <1>1, <2>2
    <3> QED
      BY <1>2, <2>2, <3>1 DEF TypeOK, Members
  <2> QED
    BY <2>1, <2>2
<1>11. /\ Cardinality(members) = Len(disks') /\ Len(disks') \in Nat
       /\ members \subseteq Devs /\ (members = {} <=> disks' = << >>)
  <2>1. members = Listed(disks')
    BY <1>10 DEF Members, Listed
  <2> HIDE DEF members
  <2> QED
    BY <1>10, <2>1, ListCounted
<1> HIDE DEF members
<1>12. /\ nrs \in [Devs -> Nat] /\ \A m \in members : nrs[m] \in Indices
  <2>1. CASE joins
    <3> DEFINE base == [desc_nr EXCEPT ![d] = nr]
    <3>1. nrs = sync_sbs(s2, members, base) /\ nr \in Indices /\ nr \in Nat
      BY <1>5, <2>1, ArrayConstants
    <3>9. desc_nr \in [Devs -> Nat]
      BY <1>2 DEF TypeOK
    <3>2. /\ base \in [Devs -> Nat] /\ base[d] = nr
          /\ \A e \in Devs \ {d} : base[e] = desc_nr[e]
      BY <3>1, <3>9
    <3>3. members \in SUBSET Devs /\ members = Members \cup {d}
      BY <1>11, <2>1 DEF members
    <3>4. \A m \in members : base[m] \in Indices
      BY <1>2, <1>3, <3>1, <3>2, <3>3 DEF SbFollowed
    <3> HIDE DEF base, nrs
    <3>5. s2 \in Superblocks /\ DescsNumbered(s2)
      BY <1>8, <2>1
    <3>6. nrs \in [Devs -> Nat]
      BY <3>1, <3>2, <3>3, <3>5, SyncLemma
    <3>8. \A m \in members : nrs[m] = base[m] \/ nrs[m] \in Indices
      BY <3>1, <3>2, <3>3, <3>5, SyncLemma
    <3> QED
      BY <3>4, <3>6, <3>8
  <2>2. CASE ~joins
    <3>1. nrs = desc_nr /\ members = Members
      BY <2>2 DEF members
    <3> QED
      BY <1>2, <2>2, <3>1 DEF TypeOK, SbFollowed
  <2> QED
    BY <2>1, <2>2
<1>13. ASSUME faults' = 0, joins
       PROVE  nrs[d] = nr /\ \A e \in Members : nrs[e] = desc_nr[e]
  <2> DEFINE base == [desc_nr EXCEPT ![d] = nr]
  <2>1. nrs = sync_sbs(s2, Members \cup {d}, base)
    BY <1>13 DEF members
  <2>5. /\ base \in [Devs -> Nat] /\ base[d] = nr
        /\ \A e \in Devs \ {d} : base[e] = desc_nr[e]
    <3>1. desc_nr \in [Devs -> Nat]
      BY <1>2 DEF TypeOK
    <3>2. nr \in Nat
      BY ArrayConstants
    <3> QED
      BY <3>1, <3>2
  <2>2. /\ d \notin Members /\ nr \in Indices /\ s0 \in Superblocks
        /\ s2 \in Superblocks /\ DescsNumbered(s2)
    BY <1>4, <1>5, <1>8, <1>13
  <2>3. \A i \in Indices : s0.disks[i].dev # None =>
                s0.disks[i].dev \in Members /\ desc_nr[s0.disks[i].dev] = i
    BY <1>4, <1>5, <1>6, <1>13
  <2>4. /\ s2.disks[nr] = [number |-> nr, dev |-> d, faulty |-> FALSE]
        /\ \A i \in Indices \ {nr} : s2.disks[i] = s0.disks[i]
    BY <1>7, <1>8, <1>13
  <2>6. TypeOK /\ d \in Devs
    BY <1>2
  <2> HIDE DEF nrs, joins, base
  <2>7. Joined(Members, desc_nr, d, nr, s0, s2, base)
    BY <1>3, <2>2, <2>3, <2>4, <2>5, <2>6 DEF Joined
  <2> QED
    BY ONLY <2>1, <2>7, JoinNumbers
<1> HIDE DEF nrs
<1>14. /\ copy \in Superblocks \cup {None} /\ DescsNumbered(copy)
       /\ members # {} =>
            /\ copy \in Superblocks /\ s2 \in Superblocks /\ s0 # None
            /\ copy.size = s2.size /\ copy.events = s2.events
            /\ copy.raid_disks = s2.raid_disks
       /\ members # {} /\ faults' = 0 =>
            copy.disks = s2.disks /\ copy.nr_disks = s2.nr_disks
  <2>1. CASE joins
    BY <1>5, <1>8, <2>1
  <2>2. CASE ~joins
    <3>1. copy = synced /\ members = Members
      BY <2>2 DEF members
    <3>2. copy \in Superblocks \cup {None} /\ DescsNumbered(copy)
      BY <1>2, <3>1 DEF TypeOK, SbFollowed
    <3>3. ASSUME members # {}
          PROVE  /\ s0 = sb /\ sb # None /\ synced # None
                 /\ sb.size = synced.size /\ sb.events = synced.events
                 /\ sb.raid_disks = synced.raid_disks
      BY <1>2, <1>3, <1>4, <3>1, <3>3 DEF SbFollowed
    <3>4. ASSUME members # {}, faults' = 0
          PROVE  synced.disks = sb.disks /\ synced.nr_disks = sb.nr_disks /\ s2 = sb
      <4>1. s2 = s0
        BY <1>6, <1>7, <1>8, <2>2, <3>4
      <4> QED
        BY <1>2, <1>3, <1>6, <3>1, <3>3, <3>4, <4>1 DEF NoLeftovers
    <3> QED
      BY <1>9, <2>2, <3>1, <3>2, <3>3, <3>4
  <2> QED
    BY <2>1, <2>2
<1>15. total \in Nat /\ (complete => total = Len(disks'))
  BY <1>11, ArrayConstants
<1>16. ASSUME faults' = 0, s2 # None
       PROVE  /\ s2.nr_disks <= s2.raid_disks
              /\ \A i \in Indices :
                    /\ ~s2.disks[i].faulty
                    /\ s2.disks[i].dev # None =>
                            s2.disks[i].dev \in members /\ nrs[s2.disks[i].dev] = i
              /\ \A m \in members : nrs[m] < s2.raid_disks
  <2>1. faults = 0 /\ s0 # None /\ s0 \in Superblocks
    BY <1>4, <1>6, <1>9, <1>16
  <2>2. s2.nr_disks <= s2.raid_disks
    BY <1>4, <1>9, <2>1
  <2>3. CASE joins
    <3>1. nrs[d] = nr /\ (\A e \in Members : nrs[e] = desc_nr[e])
          /\ members = Members \cup {d}
      BY <1>13, <1>16, <2>3 DEF members
    <3>2. ASSUME NEW i \in Indices
          PROVE  /\ ~s2.disks[i].faulty
                 /\ s2.disks[i].dev # None =>
                        s2.disks[i].dev \in members /\ nrs[s2.disks[i].dev] = i
      <4>1. CASE i = nr
        BY <1>7, <1>8, <2>3, <3>1, <4>1
      <4>2. CASE i # nr
        <5>1. s2.disks[i] = s0.disks[i]
          BY <1>7, <1>8, <2>3, <4>2
        <5> QED
          BY <1>4, <2>1, <3>1, <5>1
      <4> QED
        BY <4>1, <4>2
    <3>3. nr < s2.raid_disks
      <4>1. nr < s0.nr_disks /\ nr \in Nat /\ s0.nr_disks \in Nat /\ s0.raid_disks \in Nat
        BY <1>5, <2>1, <2>3, SbFields, ArrayConstants
      <4> QED
        BY <1>9, <2>1, <2>2, <4>1
    <3>4. ASSUME NEW e \in Members
          PROVE  desc_nr[e] < s2.raid_disks
      BY <1>2, <1>3, <1>4, <1>9, <2>1 DEF NoLeftovers
    <3> QED
      BY <2>2, <3>1, <3>2, <3>3, <3>4
  <2>4. CASE ~joins
    <3>1. s2 = s0 /\ members = Members /\ nrs = desc_nr
      BY <1>6, <1>7, <1>8, <1>16, <2>4 DEF members, nrs
    <3>2. ASSUME NEW e \in Members
          PROVE  desc_nr[e] < s2.raid_disks
      BY <1>2, <1>3, <1>4, <1>9, <2>1 DEF NoLeftovers
    <3> QED
      BY <1>4, <2>1, <2>2, <3>1, <3>2
  <2> QED
    BY <2>3, <2>4
<1> HIDE DEF copy, complete
\* analyze_sbs
<1>17. /\ s3 \in Superblocks \cup {None} /\ DescsNumbered(s3)
       /\ s2 # None => /\ s3 # None /\ s3.raid_disks = s2.raid_disks
                       /\ s3.events = s2.events /\ s3.size = s2.size
       /\ s2 = None => s3 = None
       /\ faults' = 0 /\ s2 # None => s3.disks = s2.disks /\ s3.nr_disks = s2.nr_disks
  <2>1. CASE analyze
    <3> DEFINE N == {nrs[m] : m \in members}
    <3>1. s3 = Analyzed(copy, N)
      BY <2>1
    <3>2. members # {} /\ copy \in Superblocks /\ s2 \in Superblocks /\ DescsNumbered(copy)
      BY <1>14, <1>15, <2>1
    <3>3. ASSUME faults' = 0
          PROVE  copy.nr_disks < Wrap /\ \A i \in Indices : ~Removed(copy.disks[i], N)
      <4>1. s2 # None /\ copy.disks = s2.disks /\ copy.nr_disks = s2.nr_disks
        BY <1>14, <3>2, <3>3, SbFields
      <4>2. copy.nr_disks < Wrap
        BY <1>4, <1>9, <1>14, <1>16, <3>2, <3>3, <4>1, SbFields, ArrayConstants
      <4>3. ASSUME NEW i \in Indices
            PROVE  ~Removed(copy.disks[i], N)
        <5>1. /\ ~copy.disks[i].faulty
              /\ copy.disks[i].dev # None => copy.disks[i].number \in N
          BY <1>9, <1>16, <3>3, <4>1 DEF DescsNumbered
        <5> HIDE DEF N
        <5> QED
          BY <5>1 DEF Removed
      <4> QED
        BY <4>2, <4>3
    <3> HIDE DEF N, s3
    <3>4. /\ s3 \in Superblocks /\ DescsNumbered(s3)
          /\ s3.raid_disks = copy.raid_disks /\ s3.size = copy.size
          /\ s3.events = copy.events
          /\ faults' = 0 => s3.disks = copy.disks /\ s3.nr_disks = copy.nr_disks
      BY <3>1, <3>2, <3>3, AnalyzedLemma
    <3> QED
      BY <1>14, <3>2, <3>4, SbFields
  <2>2. CASE ~analyze
    <3>1. s3 = s2
      BY <2>2
    <3> QED
      BY <1>9, <3>1
  <2> QED
    BY <2>1, <2>2
<1> HIDE DEF s3
<1>18. starts => /\ analyze /\ ~pers /\ complete /\ members # {} /\ LargeEnough(members)
                 /\ \A m, e \in members : m # e => nrs[m] # nrs[e]
  BY DEF do_jmd_run, SbsConsistent
<1> HIDE DEF starts, analyze
<1>19. TypeOK'
  <2>1. sb' \in Superblocks \cup {None} /\ synced' \in Superblocks \cup {None}
        /\ desc_nr' \in [Devs -> Nat]
    BY <1>1, <1>12, <1>14, <1>17
  <2>2. held' \subseteq Devs
    BY <1>1, <1>2 DEF TypeOK, lock_jrdev
  <2>3. capacity' \in Nat
    <3>1. ASSUME complete PROVE jmddev_size(s2, total + 1) \in Nat
      <4>1. CASE s2 \in Superblocks
        BY <1>15, <4>1, CapacityLemma
      <4>2. CASE s2 = None
        BY <4>2 DEF jmddev_size
      <4> QED
        BY <1>9, <4>1, <4>2
    <3> QED
      BY <1>1, <1>2, <3>1 DEF TypeOK
  <2>4. adds' \in 0..MaxAdds /\ faults' \in 0..MaxFaults
    <3>1. /\ adds \in 0..MaxAdds /\ faults \in 0..MaxFaults
          /\ MaxAdds \in Nat /\ MaxFaults \in Nat
      BY <1>2, ArrayConstants DEF TypeOK
    <3> QED
      BY <1>1, <3>1
  <2>5. pers' \in BOOLEAN /\ pc' \in {"run", "idle"}
    BY <1>1
  <2> QED
    BY <1>1, <1>2, <1>10, <2>1, <2>2, <2>3, <2>4, <2>5 DEF TypeOK, update
<1>20. MembersHeld'
  BY <1>1, <1>3, <1>10 DEF MembersHeld, lock_jrdev, members
<1>21. SbFollowed'
  <2>1. DescsNumbered(sb') /\ DescsNumbered(synced')
    BY <1>1, <1>14, <1>17
  <2>2. sb' # None => sb'.raid_disks \in 0..(Wrap - 1)
    BY <1>1, <1>4, <1>9, <1>17
  <2>3. sb' = None => inflight' = {}
    BY <1>1, <1>2, <1>4, <1>9, <1>17 DEF SbFollowed, update
  <2>4. disks' # << >> =>
            /\ sb' # None /\ synced' # None
            /\ sb'.size = synced'.size /\ sb'.events = synced'.events
            /\ sb'.raid_disks = synced'.raid_disks
    BY <1>1, <1>11, <1>14, <1>17, SbFields
  <2>5. \A m \in Members' : desc_nr'[m] \in Indices
    BY <1>1, <1>10, <1>12
  <2> QED
    BY <2>1, <2>2, <2>3, <2>4, <2>5 DEF SbFollowed, DescsNumbered
<1>22. SizeKept'
  <2> SUFFICES ASSUME members # {}, LargeEnough(members), NEW m \in members
               PROVE  Chunk <= s2.size /\ s2.size <= DevSize[m]
    <3>1. s2 # None => sb'.size = s2.size
      BY <1>1, <1>17
    <3> QED
      BY <1>10, <1>11, <1>14, <3>1, SbFields DEF SizeKept, LargeEnough
  <2>1. /\ \A e \in members : DevSize[e] \in Nat /\ DevSize[e] >= Chunk
        /\ Chunk \in Nat \ {0} /\ s0 \in Superblocks /\ s0.size \in Nat
    BY <1>4, <1>11, <1>14, ArrayConstants, SbFields DEF LargeEnough
  <2>2. ASSUME Members # {}
        PROVE  \A e \in Members : Chunk <= s0.size /\ s0.size <= DevSize[e]
    <3>1. LargeEnough(Members) /\ disks # << >> /\ s0 = sb
      BY <1>3, <1>4, <2>1, <2>2 DEF LargeEnough, members
    <3> QED
      BY <1>2, <3>1 DEF SizeKept
  <2>3. CASE joins
    <3>1. members = Members \cup {d} /\ s2.size = NewSize(s1, d) /\ s1.size = s0.size
      BY <1>7, <1>8, <2>3 DEF members
    <3>2. s2.size = IF s0.size = 0 \/ s0.size > DevSize[d] THEN DevSize[d] ELSE s0.size
      BY <3>1 DEF NewSize
    <3>3. CASE Members = {}
      BY <1>3, <1>4, <1>14, <2>1, <3>1, <3>2, <3>3
    <3>4. CASE Members # {}
      <4>1. Chunk <= s0.size
        BY <2>2, <3>4
      <4>2. m \in Members => s0.size <= DevSize[m]
        BY <2>2, <3>4
      <4> QED
        BY <2>1, <3>1, <3>2, <4>1, <4>2
    <3> QED
      BY <3>3, <3>4
  <2>4. CASE ~joins
    BY <1>9, <1>14, <2>2, <2>4 DEF members
  <2> QED
    BY <2>3, <2>4
<1>23. NoLeftovers'
  <2> SUFFICES ASSUME faults' = 0
               PROVE  NoLeftovers'
    BY DEF NoLeftovers
  <2>1. sb' # None => s2 # None /\ sb'.disks = s2.disks /\ sb'.nr_disks = s2.nr_disks
                      /\ sb'.raid_disks = s2.raid_disks
    BY <1>1, <1>17
  <2>2. disks' # << >> => synced'.disks = sb'.disks /\ synced'.nr_disks = sb'.nr_disks
    BY <1>1, <1>11, <1>14, <1>17, SbFields
  <2>3. members # {} => sb' # None
    BY <1>1, <1>14, <1>17, SbFields
  <2> QED
    BY <1>1, <1>10, <1>16, <2>1, <2>2, <2>3 DEF NoLeftovers
<1>24. CommandOK'
  <2>1. Running' => Running /\ pers
    BY <1>1, <1>2 DEF CommandOK, Running
  <2>2. Members \subseteq Members'
    BY <1>10 DEF members
  <2>3. ASSUME starts
        PROVE  /\ conf = None /\ LargeEnough(members) /\ disks' # << >>
               /\ \A m, e \in members : m # e => nrs[m] # nrs[e]
               /\ 2 * capacity' <= sb'.size * Len(disks')
    <3>1. conf = None /\ complete /\ members # {}
      BY <1>2, <1>18, <2>3 DEF CommandOK
    <3>2. capacity' = jmddev_size(s2, total + 1) /\ s2 \in Superblocks
          /\ sb'.size = s2.size /\ total = Len(disks') /\ total \in Nat /\ disks' # << >>
      BY <1>1, <1>11, <1>14, <1>15, <1>17, <3>1, SbFields
    <3>3. 2 * jmddev_size(s2, total + 1) <= s2.size * total
      BY <3>2, CapacityLemma
    <3> QED
      BY <1>18, <2>3, <3>1, <3>2, <3>3
  <2>4. orphans' <= faults'
    BY <1>1, <1>2 DEF TypeOK, CommandOK
  <2>5. conf' # None => pers'
    BY <1>1, <1>2 DEF CommandOK
  <2>6. Running' => Used(conf'.slots) \subseteq Members'
    BY <1>1, <1>2, <2>1, <2>2 DEF CommandOK, Operational, Used
  <2>7. pc' = "run" => starts
    BY <1>1
  <2>8. pc' # "idle" => pers' /\ disks' # << >> /\ ~gone'
    BY <1>1, <2>3
  <2> QED
    BY <1>1, <1>10, <2>3, <2>4, <2>5, <2>6, <2>7, <2>8 DEF CommandOK, LargeEnough
<1>25. sb # None => sb' # None /\ sb'.events = sb.events
  BY <1>1, <1>4, <1>9, <1>17
<1>26. RoundOK' /\ InflightOK' /\ PendingAccounted'
  BY <1>1, <1>25 DEF IInv, SbFollowed, RoundOK, InflightOK, PendingAccounted, update
<1>27. UpdateComplete'
  <2> SUFFICES ASSUME Running', err' = 0 \/ count' > 0, Len(disks') <= ENOMEM,
                      NEW j \in Operational(conf'.slots)
               PROVE  sent'[conf'.slots[j]] = sb'.events
    BY DEF UpdateComplete
  <2>4. Len(disks) <= ENOMEM
    BY <1>2, <1>10, <1>11, MembersCounted, ArrayConstants
  <2>1. Running /\ j \in Operational(conf.slots) /\ conf' = conf /\ sent' = sent
        /\ (err = 0 \/ count > 0)
    BY <1>1 DEF Running, update, Operational, Used
  <2>2. Members # {}
    BY <1>2, <2>1 DEF CommandOK, Used
  <2>3. sb # None
    BY <1>2, <1>3, <2>2 DEF SbFollowed
  <2> QED
    BY <1>1, <1>25, <2>1, <2>3, <2>4 DEF IInv, UpdateComplete
<1> QED
  BY <1>19, <1>20, <1>21, <1>22, <1>23, <1>24, <1>26, <1>27 DEF IInv

-----------------------------------------------------------------------------
(* jraid5_run *)

\* A slot holds a member with its number, and every member with a number up to
\* raid_disks has a slot.
LEMMA SlotsLemma ==
    ASSUME TypeOK, SbFollowed, disks # << >>
    PROVE  /\ SlotsOf \in [Indices -> Devs \cup {None}]
           /\ \A j \in Indices : SlotsOf[j] # None =>
                    /\ SlotsOf[j] \in Members /\ desc_nr[SlotsOf[j]] = j
                    /\ j <= sb.raid_disks
           /\ \A d \in Members : desc_nr[d] <= sb.raid_disks =>
                    desc_nr[d] \in Indices /\ SlotsOf[desc_nr[d]] # None
<1>1. /\ disks \in Seq(Devs) /\ sb \in Superblocks /\ sb.raid_disks \in Nat
      /\ \A d \in Members : desc_nr[d] \in Indices
  <2>1. disks \in Seq(Devs) /\ sb \in Superblocks \cup {None}
    BY DEF TypeOK
  <2>2. sb # None /\ \A d \in Members : desc_nr[d] \in Indices
    BY DEF SbFollowed
  <2> QED
    BY <2>1, <2>2, SbFields
<1>2. /\ DOMAIN disks = 1..Len(disks) /\ Len(disks) \in Nat
      /\ \A i \in DOMAIN disks : disks[i] \in Devs /\ disks[i] \in Members
  BY <1>1 DEF Members
<1> DEFINE At(j) == {i \in DOMAIN disks : desc_nr[disks[i]] = j}
<1>3. ASSUME NEW j
      PROVE  At(j) # {} => Lowest(At(j)) \in DOMAIN disks
                           /\ desc_nr[disks[Lowest(At(j))]] = j
  <2> DEFINE T == At(j)
  <2>1. T \subseteq Nat
    BY <1>2
  <2>2. T # {} => Lowest(T) \in T
    <3> HIDE DEF T
    <3> QED
      BY <2>1, LowestIn
  <2> QED
    BY <2>2
<1>4. SlotsOf = [j \in Indices |-> IF At(j) = {} \/ j > sb.raid_disks THEN None
                                   ELSE disks[Lowest(At(j))]]
  BY DEF SlotsOf
<1>5. \A i \in DOMAIN disks : At(desc_nr[disks[i]]) # {}
  OBVIOUS
<1> HIDE DEF At
<1>6. \A j \in Indices :
        \/ SlotsOf[j] = None /\ (At(j) = {} \/ j > sb.raid_disks)
        \/ /\ At(j) # {} /\ ~(j > sb.raid_disks)
           /\ SlotsOf[j] = disks[Lowest(At(j))]
  BY <1>4
<1>7. SlotsOf \in [Indices -> Devs \cup {None}]
  BY <1>2, <1>3, <1>4
<1>8. ASSUME NEW j \in Indices, SlotsOf[j] # None
      PROVE  SlotsOf[j] \in Members /\ desc_nr[SlotsOf[j]] = j /\ j <= sb.raid_disks
  <2>1. At(j) # {} /\ ~(j > sb.raid_disks) /\ SlotsOf[j] = disks[Lowest(At(j))]
    BY <1>6, <1>8
  <2>2. j \in Nat
    BY ArrayConstants DEF Indices
  <2>3. j <= sb.raid_disks
    BY <1>1, <2>1, <2>2
  <2> QED
    BY <1>2, <1>3, <2>1, <2>3
<1>9. ASSUME NEW d \in Members, desc_nr[d] <= sb.raid_disks
      PROVE  desc_nr[d] \in Indices /\ SlotsOf[desc_nr[d]] # None
  <2>1. PICK i \in DOMAIN disks : d = disks[i]
    BY DEF Members
  <2> DEFINE j == desc_nr[d]
  <2>2. j \in Indices /\ j \in Nat /\ At(j) # {}
    BY <1>1, <1>5, <2>1, ArrayConstants DEF Indices
  <2>3. ~(j > sb.raid_disks)
    BY <1>1, <1>9, <2>2
  <2> HIDE DEF j
  <2>4. SlotsOf[j] = disks[Lowest(At(j))] /\ Lowest(At(j)) \in DOMAIN disks
    BY <1>3, <1>6, <2>2, <2>3
  <2>5. SlotsOf[j] \in Devs
    BY <1>2, <2>4
  <2> QED
    BY <2>2, <2>5, ArrayConstants DEF j
<1> QED
  BY <1>7, <1>8, <1>9

LEMMA RunStep ==
    ASSUME IInv, NEW out \in RunOutcomes, jraid5_run(out)
    PROVE  IInv'
<1> DEFINE enough == EnoughDisks(SlotsOf)
           ok == out = "ok" /\ enough
<1>1. /\ pc = "run" /\ loaded
      /\ out # "ok" => faults < MaxFaults
      /\ conf' = IF ok THEN [slots |-> SlotsOf, raid_disks |-> sb.raid_disks]
                 ELSE None
      /\ pers' = ok
      /\ orphans' = IF ThreadStays(out, enough) THEN orphans + 1 ELSE orphans
      /\ pc' = IF ok THEN "round" ELSE "idle"
      /\ count' = IF ok THEN Retries ELSE count
      /\ faults' = IF out = "ok" THEN faults ELSE faults + 1
      /\ bug' = IF ok /\ sb.raid_disks > SbDisks THEN "overrun" ELSE bug
      /\ UNCHANGED <<array, loaded, left, err, pending, inflight, sent,
                     resized, gone, adds, loads>>
  BY DEF jraid5_run, PersAfter
<1>2. UNCHANGED <<sb, synced, disks, desc_nr, held, capacity>>
  BY <1>1 DEF array
<1>3. TypeOK /\ SbFollowed /\ CommandOK /\ disks # << >> /\ ~gone /\ sb # None
  BY <1>1 DEF IInv, CommandOK, SbFollowed
<1> HIDE DEF ok
<1>4. ok \in BOOLEAN
  BY DEF ok, EnoughDisks
<1>5. /\ SlotsOf \in [Indices -> Devs \cup {None}] /\ sb.raid_disks \in Nat
      /\ \A j \in Indices : SlotsOf[j] # None => SlotsOf[j] \in Members
  BY <1>3, SlotsLemma, SbFields DEF TypeOK
<1>6. faults' \in {faults, faults + 1} /\ faults' \in 0..MaxFaults
  BY <1>1, <1>3, ArrayConstants DEF TypeOK
<1>7. orphans' <= faults' /\ orphans' \in 0..MaxFaults
  <2>1. orphans \in Nat /\ faults \in Nat /\ orphans <= faults /\ MaxFaults \in Nat
    BY <1>3, ArrayConstants DEF TypeOK, CommandOK
  <2>2. ThreadStays(out, enough) => out # "ok"
    BY DEF ThreadStays
  <2> QED
    BY <1>1, <1>6, <2>1, <2>2
<1>8. TypeOK'
  <2>1. conf' \in {None, Freed}
                \cup [slots : [Indices -> Devs \cup {None}], raid_disks : Nat]
    BY <1>1, <1>5
  <2>2. pc' \in {"round", "idle"} /\ count' \in 0..Retries /\ pers' \in BOOLEAN
    BY <1>1, <1>3, <1>4, ArrayConstants DEF TypeOK
  <2>3. bug' \in {bug, "overrun"}
    BY <1>1
  <2> QED
    BY <1>1, <1>2, <1>3, <1>6, <1>7, <2>1, <2>2, <2>3 DEF TypeOK
<1>9. Members' = Members /\ SbFollowed' /\ SizeKept' /\ NoLeftovers'
  BY <1>1, <1>2, <1>3, <1>6, ArrayKept
<1>10. MembersHeld'
  BY <1>1, <1>2, <1>9 DEF IInv, MembersHeld
<1>11. CommandOK'
  <2>1. ok => conf'.slots = SlotsOf
    BY <1>1
  <2>2. Running' => ok
    BY <1>1 DEF Running
  <2>3. Running' => Used(conf'.slots) \subseteq Members'
    BY <1>5, <1>9, <2>1, <2>2 DEF Operational, Used
  <2>4. /\ conf' # None => pers'
        /\ pc' # "idle" => pers' /\ disks' # << >> /\ ~gone'
        /\ pc' # "run"
    BY <1>1, <1>2, <1>3, <1>4
  <2>5. pc' \in {"round", "write", "count"} => count' \in 1..Retries
    BY <1>1, <1>3, ArrayConstants
  <2> QED
    BY <1>7, <2>3, <2>4, <2>5 DEF CommandOK
<1>12. RoundOK' /\ UpdateComplete'
  BY <1>1 DEF RoundOK, UpdateComplete, Running
<1>13. InflightOK' /\ PendingAccounted'
  BY <1>1, <1>2 DEF IInv, InflightOK, PendingAccounted
<1> QED
  BY <1>8, <1>9, <1>10, <1>11, <1>12, <1>13 DEF IInv

-----------------------------------------------------------------------------
(* jmd_update_sb *)

LEMMA BeginRoundStep ==
    ASSUME IInv, BeginRound
    PROVE  IInv'
<1> DEFINE s == [sb EXCEPT !.events = @ + 1]
<1>1. /\ pc = "round"
      /\ sb' = s /\ synced' = s /\ desc_nr' = sync_sbs(s, Members, desc_nr)
      /\ left' = disks /\ err' = 0 /\ pc' = "write"
      /\ UNCHANGED <<disks, held, capacity, loaded, pers, conf, orphans,
                     count, pending, inflight, sent, resized, gone, adds,
                     loads, faults, bug>>
  BY DEF BeginRound
<1>2. TypeOK /\ SbFollowed /\ CommandOK /\ NoLeftovers /\ disks # << >> /\ sb # None
      /\ sb \in Superblocks
  BY <1>1 DEF IInv, CommandOK, SbFollowed, TypeOK
<1>3. /\ s \in Superblocks /\ s.disks = sb.disks /\ s.nr_disks = sb.nr_disks
      /\ s.raid_disks = sb.raid_disks /\ s.size = sb.size /\ s.events = sb.events + 1
      /\ sb.events \in Nat /\ s # None
  <2>1. sb.events \in Nat
    BY <1>2, SbFields
  <2> QED
    BY <1>2, <2>1, NullIsNoSuperblock DEF Superblocks
<1> HIDE DEF s
<1>4. DescsNumbered(s)
  BY <1>2, <1>3 DEF SbFollowed, DescsNumbered
<1>5. Members' = Members /\ Members \in SUBSET Devs
  BY <1>1, <1>2, MembersCounted DEF Members
<1>6. desc_nr \in [Devs -> Nat]
  BY <1>2 DEF TypeOK
<1>7. /\ desc_nr' \in [Devs -> Nat]
      /\ \A d \in Members :
            \/ desc_nr'[d] = desc_nr[d]
            \/ desc_nr'[d] \in Indices /\ s.disks[desc_nr'[d]].dev = d
  <2> DEFINE r == sync_sbs(s, Members, desc_nr)
  <2>1. /\ r \in [Devs -> Nat]
        /\ \A d \in Members : r[d] = desc_nr[d] \/ (r[d] \in Indices /\ s.disks[r[d]].dev = d)
    BY <1>3, <1>4, <1>5, <1>6, SyncLemma
  <2> QED
    BY <1>1, <2>1
<1>8. TypeOK'
  <2>1. /\ sb' \in Superblocks \cup {None} /\ synced' \in Superblocks \cup {None}
        /\ desc_nr' \in [Devs -> Nat]
    BY <1>1, <1>3, <1>7
  <2>2. /\ disks' \in Seq(Devs) /\ left' \in Seq(Devs)
        /\ \A i, j \in DOMAIN disks' : disks'[i] = disks'[j] => i = j
    BY <1>1, <1>2 DEF TypeOK
  <2>3. err' \in Int /\ pc' = "write"
    BY <1>1
  <2> QED
    BY <1>1, <1>2, <2>1, <2>2, <2>3 DEF TypeOK
<1>9. SbFollowed'
  <2>1. \A d \in Members' : desc_nr'[d] \in Indices
    BY <1>2, <1>5, <1>7 DEF SbFollowed
  <2>2. DescsNumbered(sb') /\ DescsNumbered(synced')
    BY <1>1, <1>4
  <2>3. sb' # None /\ synced' = sb' /\ sb'.raid_disks \in 0..(Wrap - 1)
    BY <1>1, <1>2, <1>3 DEF SbFollowed
  <2> QED
    BY <2>1, <2>2, <2>3 DEF SbFollowed, DescsNumbered
<1>10. NoLeftovers'
  <2> SUFFICES ASSUME faults' = 0
               PROVE  NoLeftovers'
    BY DEF NoLeftovers
  <2>1. /\ sb.nr_disks <= sb.raid_disks
        /\ \A i \in Indices :
                /\ ~sb.disks[i].faulty
                /\ sb.disks[i].dev # None =>
                        sb.disks[i].dev \in Members /\ desc_nr[sb.disks[i].dev] = i
        /\ \A d \in Members : desc_nr[d] < sb.raid_disks
    BY <1>1, <1>2 DEF NoLeftovers
  <2>2. \A d \in Members : desc_nr'[d] = desc_nr[d]
    BY <1>3, <1>5, <1>7, <2>1, ArrayConstants
  <2>3. sb' = s /\ synced' = s
    BY <1>1
  <2> QED
    BY <1>3, <1>5, <2>1, <2>2, <2>3 DEF NoLeftovers
<1>11. MembersHeld' /\ SizeKept'
  BY <1>1, <1>3, <1>5 DEF IInv, MembersHeld, SizeKept
<1>12. CommandOK'
  <2>1. count' \in 1..Retries /\ pc' = "write" /\ pers' /\ disks' # << >> /\ ~gone'
    BY <1>1, <1>2 DEF CommandOK
  <2>2. orphans' <= faults' /\ (conf' # None => pers')
    BY <1>1, <1>2 DEF CommandOK
  <2>3. Running' => Used(conf'.slots) \subseteq Members'
    BY <1>1, <1>2, <1>5 DEF CommandOK, Running, Operational, Used
  <2> QED
    BY <2>1, <2>2, <2>3 DEF CommandOK
<1>13. RoundOK'
  <2>1. disks \in Seq(Devs) /\ Len(disks) \in Nat
    BY <1>2 DEF TypeOK
  <2>2. left' = disks /\ disks' = disks /\ err' = 0 /\ pc' = "write"
    BY <1>1
  <2>3. Done' = 0
    BY <2>1, <2>2 DEF Done
  <2>4. \A i \in 1..Len(left') : left'[i] = disks'[Done' + i]
    BY <2>1, <2>2, <2>3
  <2>5. Done' \in 0..Len(disks') /\ err' \in 0..Done' /\ \A i \in 1..Done' : FALSE
    BY <2>1, <2>2, <2>3
  <2> QED
    BY <2>2, <2>4, <2>5 DEF RoundOK
<1>14. InflightOK'
  <2>1. \A w \in inflight : w.events \in Nat /\ w.events <= sb.events
    BY <1>2 DEF IInv, InflightOK, TypeOK
  <2>2. sb'.events = sb.events + 1 /\ pc' = "write"
    BY <1>1, <1>3
  <2>3. \A w \in inflight : w.events <= sb'.events /\ w.events # sb'.events
    BY <1>3, <2>1, <2>2
  <2> QED
    BY <1>1, <2>2, <2>3 DEF IInv, InflightOK
<1>15. PendingAccounted' /\ UpdateComplete'
  BY <1>1 DEF IInv, PendingAccounted, UpdateComplete
<1> QED
  BY <1>8, <1>9, <1>10, <1>11, <1>12, <1>13, <1>14, <1>15 DEF IInv

\* The steps of jmd_update_sb between two calls of sync_sbs.
LEMMA UpdateKept ==
    ASSUME IInv, UNCHANGED <<array, pers, conf, orphans, gone>>,
           faults' \in {faults, faults + 1}, sb = None => inflight' = {},
           pc' = pc \/ (pc # "idle" /\ pc' # "run"),
           pc' \in {"round", "write", "count"} => count' \in 1..Retries
    PROVE  /\ Members' = Members /\ MembersHeld' /\ SbFollowed' /\ SizeKept'
           /\ NoLeftovers' /\ CommandOK'
<1>1. UNCHANGED <<sb, synced, disks, desc_nr, held, capacity>>
  BY DEF array
<1>2. Members' = Members /\ SbFollowed' /\ SizeKept' /\ NoLeftovers'
  BY <1>1, ArrayKept
<1>3. MembersHeld'
  BY <1>1, <1>2 DEF IInv, MembersHeld
<1>4. orphans' <= faults'
  BY DEF IInv, TypeOK, CommandOK
<1>5. pc' = "run" => /\ conf' = None /\ LargeEnough(Members')
                     /\ \A d, e \in Members' : d # e => desc_nr'[d] # desc_nr'[e]
                     /\ 2 * capacity' <= sb'.size * Len(disks')
  BY <1>1, <1>2 DEF IInv, CommandOK
<1>6. /\ conf' # None => pers'
      /\ pc' # "idle" => pers' /\ disks' # << >> /\ ~gone'
      /\ Running' => Used(conf'.slots) \subseteq Members'
  BY <1>1, <1>2 DEF IInv, CommandOK, Running, Operational, Used
<1> QED
  BY <1>2, <1>3, <1>4, <1>5, <1>6 DEF CommandOK, LargeEnough

\* The place in the list of members.
LEMMA PlaceLemma ==
    ASSUME TypeOK, RoundOK, pc \in {"write", "count"}, left # << >>
    PROVE  /\ Len(disks) \in Nat /\ Done \in Nat /\ Done + 1 \in DOMAIN disks
           /\ Head(left) = disks[Done + 1] /\ Head(left) \in Devs
           /\ Tail(left) \in Seq(Devs) /\ Len(disks) - Len(Tail(left)) = Done + 1
           /\ Done + 1 \in 0..Len(disks)
           /\ \A i \in 1..Len(Tail(left)) : Tail(left)[i] = disks[(Done + 1) + i]
<1>1. disks \in Seq(Devs) /\ left \in Seq(Devs)
  BY DEF TypeOK
<1>2. /\ Done = Len(disks) - Len(left) /\ Done \in 0..Len(disks)
      /\ \A i \in 1..Len(left) : left[i] = disks[Done + i]
  BY DEF RoundOK, Done
<1>3. /\ Len(left) \in Nat /\ Len(left) # 0 /\ Len(Tail(left)) = Len(left) - 1
      /\ Tail(left) \in Seq(Devs) /\ Head(left) = left[1] /\ Head(left) \in Devs
      /\ \A i \in 1..Len(Tail(left)) : Tail(left)[i] = left[i + 1]
      /\ Len(disks) \in Nat /\ DOMAIN disks = 1..Len(disks)
  BY <1>1
<1> HIDE DEF Done
<1>4. Done \in Nat /\ Done + 1 \in 1..Len(disks)
  BY <1>2, <1>3
<1>5. Head(left) = disks[Done + 1]
  BY <1>2, <1>3
<1>6. Len(disks) - Len(Tail(left)) = Done + 1
  BY <1>2, <1>3
<1>7. ASSUME NEW i \in 1..Len(Tail(left))
      PROVE  Tail(left)[i] = disks[(Done + 1) + i]
  <2>1. i + 1 \in 1..Len(left) /\ Done + (i + 1) = (Done + 1) + i
    BY <1>3, <1>4
  <2> QED
    BY <1>2, <1>3, <2>1
<1> QED
  BY <1>3, <1>4, <1>5, <1>6, <1>7

\* write_disk_sb has failed, for want of memory or because of the size.
LEMMA WriteFailedStep ==
    ASSUME IInv, pc = "write", left # << >>, left' = Tail(left),
           faults' \in {faults, faults + 1}, faults' \in 0..MaxFaults,
           err' = err - ENOMEM \/ err' = err + 1,
           UNCHANGED <<array, loaded, pers, conf, orphans, pc, count, pending,
                       inflight, sent, resized, gone, adds, loads, bug>>
    PROVE  IInv'
<1>1. TypeOK /\ RoundOK /\ CommandOK /\ InflightOK /\ ENOMEM \in Nat
  BY ArrayConstants DEF IInv
<1>2. UNCHANGED <<sb, synced, disks, desc_nr, held, capacity>>
  BY DEF array
<1>3. /\ Len(disks) \in Nat /\ Done \in Nat
      /\ left' \in Seq(Devs) /\ Done' = Done + 1
      /\ Done + 1 \in 0..Len(disks)
      /\ \A i \in 1..Len(left') : left'[i] = disks[(Done + 1) + i]
  BY <1>1, <1>2, PlaceLemma DEF Done
<1>4. err \in Int /\ err' \in Int
  <2>1. err \in Int
    BY <1>1 DEF TypeOK
  <2> QED
    BY <1>1, <2>1
<1>5. TypeOK'
  BY <1>1, <1>2, <1>3, <1>4 DEF TypeOK
<1>6. /\ Members' = Members /\ MembersHeld' /\ SbFollowed' /\ SizeKept'
      /\ NoLeftovers' /\ CommandOK'
  <2>1. sb = None => inflight' = {}
    BY DEF IInv, SbFollowed
  <2>2. count' \in 1..Retries
    BY <1>1 DEF CommandOK
  <2> QED
    BY <2>1, <2>2, UpdateKept
<1>7. RoundOK'
  <2>1. \/ err \in 0..Done
        \/ err <= Done - 1 - ENOMEM
    BY <1>1 DEF RoundOK
  <2> HIDE DEF Done
  <2>2. \/ err' \in 1..(Done + 1)
        \/ err' <= (Done + 1) - 1 - ENOMEM
    BY <1>1, <1>3, <1>4, <2>1
  <2>3. \/ err' \in 0..Done' /\ err' # 0
        \/ err' <= Done' - 1 - ENOMEM
    BY <1>3, <1>4, <2>2
  <2>4. Done' \in 0..Len(disks') /\ \A i \in 1..Len(left') : left'[i] = disks'[Done' + i]
    BY <1>2, <1>3
  <2> QED
    BY <2>3, <2>4 DEF RoundOK
<1>8. InflightOK'
  <2>1. \A i \in 1..Done : i \in 1..Done'
    <3> HIDE DEF Done
    <3> QED
      BY <1>3
  <2> HIDE DEF Done
  <2> QED
    BY <1>1, <1>2, <2>1 DEF InflightOK
<1>9. PendingAccounted' /\ UpdateComplete'
  BY DEF IInv, PendingAccounted, UpdateComplete
<1> QED
  BY <1>5, <1>6, <1>7, <1>8, <1>9 DEF IInv

LEMMA SubmitSbStep ==
    ASSUME IInv, SubmitSb
    PROVE  IInv'
<1> DEFINE d == Head(left)
           w == [dev |-> d, events |-> sb.events]
<1>1. /\ pc = "write" /\ left # << >>
      /\ inflight' = inflight \cup {w}
      /\ sent' = [sent EXCEPT ![d] = sb.events]
      /\ pc' = "count"
      /\ UNCHANGED <<array, loaded, pers, conf, orphans, left, err, count,
                     pending, resized, gone, adds, loads, faults, bug>>
  BY DEF SubmitSb
<1>2. /\ TypeOK /\ RoundOK /\ CommandOK /\ InflightOK /\ SbFollowed /\ PendingAccounted
      /\ disks # << >> /\ sb # None /\ sb \in Superblocks
  BY <1>1 DEF IInv, CommandOK, SbFollowed, TypeOK
<1>3. UNCHANGED <<sb, synced, disks, desc_nr, held, capacity>> /\ Done' = Done
  BY <1>1 DEF array, Done
<1>4. /\ Len(disks) \in Nat /\ Done \in Nat /\ Done + 1 \in DOMAIN disks
      /\ d = disks[Done + 1] /\ d \in Devs
  BY <1>1, <1>2, PlaceLemma
<1>5. sb.events \in Nat
  BY <1>2, SbFields
<1> HIDE DEF d, Done
<1>6. /\ w \in [dev : Devs, events : Nat] /\ w.dev = d /\ w.events = sb.events
  BY <1>4, <1>5
<1>7. w \notin inflight
  <2> SUFFICES ASSUME w \in inflight
               PROVE  FALSE
    OBVIOUS
  <2>1. PICK i \in 1..Done : d = disks[i]
    BY <1>1, <1>2, <1>6 DEF InflightOK
  <2>2. i \in DOMAIN disks /\ i # Done + 1
    <3>1. disks \in Seq(Devs) /\ DOMAIN disks = 1..Len(disks)
      BY <1>2 DEF TypeOK
    <3> QED
      BY <1>4, <3>1
  <2> QED
    BY <1>2, <1>4, <2>1, <2>2 DEF TypeOK
<1> HIDE DEF w
<1>8. TypeOK'
  <2>1. sent' \in [Devs -> Nat] /\ inflight' \subseteq [dev : Devs, events : Nat]
    BY <1>1, <1>2, <1>5, <1>6 DEF TypeOK
  <2> QED
    BY <1>1, <1>2, <1>3, <2>1 DEF TypeOK
<1>9. /\ Members' = Members /\ MembersHeld' /\ SbFollowed' /\ SizeKept'
      /\ NoLeftovers' /\ CommandOK'
  <2>1. count' \in 1..Retries
    BY <1>1, <1>2 DEF CommandOK
  <2> QED
    BY <1>1, <1>2, <2>1, UpdateKept
<1>10. \A e \in Devs : sent'[e] = IF e = d THEN sb.events ELSE sent[e]
  BY <1>1, <1>2, <1>4 DEF TypeOK
<1>11. RoundOK'
  <2>1. \A i \in 1..Done : disks[i] \in Devs
    <3>1. disks \in Seq(Devs)
      BY <1>2 DEF TypeOK
    <3> QED
      BY <1>4, <3>1
  <2>2. err = 0 /\ (\A i \in 1..Done : sent[disks[i]] = sb.events)
          => \A i \in 1..Done : sent'[disks[i]] = sb.events
    BY <1>10, <2>1
  <2>3. sent'[Head(left)] = sb.events
    BY <1>4, <1>10 DEF d
  <2> QED
    BY <1>1, <1>2, <1>3, <2>2, <2>3 DEF RoundOK
<1>12. InflightOK'
  <2>1. IsFiniteSet(inflight')
    BY <1>1, <1>2, FS_AddElement DEF InflightOK
  <2>2. ASSUME NEW v \in inflight'
        PROVE  /\ v.events <= sb.events
               /\ v.events = sb.events => \E i \in 1..(Done + 1) : v.dev = disks[i]
    <3>1. CASE v \in inflight
      <4>1. \A i \in 1..Done : i \in 1..(Done + 1)
        BY <1>4
      <4> QED
        BY <1>1, <1>2, <3>1, <4>1 DEF InflightOK
    <3>2. CASE v = w
      <4>1. Done + 1 \in 1..(Done + 1)
        BY <1>4
      <4> QED
        BY <1>4, <1>5, <1>6, <3>2, <4>1
    <3> QED
      BY <1>1, <3>1, <3>2
  <2> QED
    BY <1>1, <1>3, <2>1, <2>2 DEF InflightOK
<1>13. PendingAccounted'
  <2>1. Cardinality(inflight') = Cardinality(inflight) + 1
    BY <1>1, <1>2, <1>7, FS_AddElement DEF InflightOK
  <2>2. pending \in Int /\ Cardinality(inflight) \in Nat
    BY <1>2, FS_CardinalityType DEF TypeOK, InflightOK
  <2> QED
    BY <1>1, <1>2, <2>1, <2>2 DEF PendingAccounted
<1>14. UpdateComplete'
  BY <1>1 DEF UpdateComplete
<1> QED
  BY <1>8, <1>9, <1>11, <1>12, <1>13, <1>14 DEF IInv

LEMMA CountWriteStep ==
    ASSUME IInv, CountWrite
    PROVE  IInv'
<1>1. /\ pc = "count" /\ pending' = pending + 1 /\ left' = Tail(left) /\ pc' = "write"
      /\ UNCHANGED <<array, loaded, pers, conf, orphans, err, count, inflight,
                     sent, resized, gone, adds, loads, faults, bug>>
  BY DEF CountWrite, CountedOne
<1>2. /\ TypeOK /\ RoundOK /\ CommandOK /\ InflightOK /\ SbFollowed /\ PendingAccounted
      /\ left # << >> /\ sent[Head(left)] = sb.events /\ ENOMEM \in Nat
  BY <1>1, ArrayConstants DEF IInv, RoundOK
<1>3. UNCHANGED <<sb, synced, disks, desc_nr, held, capacity>>
  BY <1>1 DEF array
<1>4. /\ Len(disks) \in Nat /\ Done \in Nat /\ Head(left) = disks[Done + 1]
      /\ left' \in Seq(Devs) /\ Done' = Done + 1
      /\ Done + 1 \in 0..Len(disks)
      /\ \A i \in 1..Len(left') : left'[i] = disks[(Done + 1) + i]
  BY <1>1, <1>2, <1>3, PlaceLemma DEF Done
<1>5. TypeOK'
  <2>1. pending' \in Int /\ left' \in Seq(Devs) /\ pc' = "write"
    BY <1>1, <1>2, <1>4 DEF TypeOK
  <2> QED
    BY <1>1, <1>2, <1>3, <2>1 DEF TypeOK
<1>6. /\ Members' = Members /\ MembersHeld' /\ SbFollowed' /\ SizeKept'
      /\ NoLeftovers' /\ CommandOK'
  <2>1. count' \in 1..Retries /\ (sb = None => inflight' = {})
    BY <1>1, <1>2 DEF CommandOK, SbFollowed
  <2> QED
    BY <1>1, <2>1, UpdateKept
<1> HIDE DEF Done
<1>7. RoundOK'
  <2>1. err \in Int
    BY <1>2 DEF TypeOK
  <2>2. CASE err \in 0..Done /\ (err = 0 => \A i \in 1..Done : sent[disks[i]] = sb.events)
    <3>1. err' \in 0..Done'
      BY <1>1, <1>4, <2>2
    <3>2. ASSUME err = 0, NEW i \in 1..Done'
          PROVE  sent[disks[i]] = sb.events
      <4>1. i \in 1..Done \/ i = Done + 1
        BY <1>4
      <4> QED
        BY <1>2, <1>4, <2>2, <3>2, <4>1
    <3> QED
      BY <1>1, <1>3, <1>4, <3>1, <3>2 DEF RoundOK
  <2>3. CASE err <= Done - 1 - ENOMEM
    <3>1. err' <= Done' - 1 - ENOMEM
      BY <1>1, <1>2, <1>4, <2>1, <2>3
    <3> QED
      BY <1>1, <1>3, <1>4, <3>1 DEF RoundOK
  <2> QED
    BY <1>1, <1>2, <2>2, <2>3 DEF RoundOK
<1>8. InflightOK'
  BY <1>1, <1>2, <1>3, <1>4 DEF InflightOK
<1>9. PendingAccounted'
  <2>1. pending \in Int
    BY <1>2 DEF TypeOK
  <2> QED
    BY <1>1, <1>2, <2>1 DEF PendingAccounted
<1>10. UpdateComplete'
  BY <1>1 DEF UpdateComplete
<1> QED
  BY <1>5, <1>6, <1>7, <1>8, <1>9, <1>10 DEF IInv

\* The end of a round: with no more than ENOMEM disks an err of 0 is not the sum
\* of failures, so every member has been sent the superblock.
LEMMA EndRoundStep ==
    ASSUME IInv, EndRound
    PROVE  IInv'
<1>1. /\ pc = "write" /\ left = << >>
      /\ count' = IF err # 0 THEN count - 1 ELSE count
      /\ pc' = IF err # 0 /\ count > 1 THEN "round" ELSE "idle"
      /\ UNCHANGED <<array, loaded, pers, conf, orphans, left, err, pending,
                     inflight, sent, resized, gone, adds, loads, faults, bug>>
  BY DEF EndRound, Repeats
<1>2. /\ TypeOK /\ RoundOK /\ CommandOK /\ InflightOK /\ SbFollowed /\ PendingAccounted
      /\ count \in 1..Retries /\ Retries \in Nat /\ ENOMEM \in Nat
  BY <1>1, ArrayConstants DEF IInv, CommandOK
<1>3. UNCHANGED <<sb, synced, disks, desc_nr, held, capacity>>
  BY <1>1 DEF array
<1>4. /\ count' \in 0..Retries /\ pc' \in {"round", "idle"}
      /\ pc' = "round" => count' \in 1..Retries
  BY <1>1, <1>2
<1>5. TypeOK'
  <2>1. held' \subseteq Devs
    BY <1>2, <1>3 DEF TypeOK
  <2>2. /\ sb' \in Superblocks \cup {None} /\ synced' \in Superblocks \cup {None}
        /\ disks' \in Seq(Devs)
        /\ \A i, j \in DOMAIN disks' : disks'[i] = disks'[j] => i = j
        /\ desc_nr' \in [Devs -> Nat] /\ held' \subseteq Devs /\ capacity' \in Nat
    BY <1>2, <1>3, <2>1, ArrayTyped
  <2>3. /\ left' \in Seq(Devs) /\ sent' \in [Devs -> Nat]
        /\ inflight' \subseteq [dev : Devs, events : Nat]
        /\ conf' \in {None, Freed}
                \cup [slots : [Indices -> Devs \cup {None}], raid_disks : Nat]
    BY <1>1, <1>2, ControlTyped, ConfTyped
  <2> QED
    BY <1>1, <1>2, <1>4, <2>2, <2>3 DEF TypeOK
<1>6. /\ Members' = Members /\ MembersHeld' /\ SbFollowed' /\ SizeKept'
      /\ NoLeftovers' /\ CommandOK'
  <2>1. sb = None => inflight' = {}
    BY <1>1, <1>2 DEF SbFollowed
  <2> QED
    BY <1>1, <1>4, <2>1, UpdateKept
<1>7. RoundOK' /\ InflightOK' /\ PendingAccounted'
  <2>1. RoundOK'
    BY <1>4 DEF RoundOK
  <2>2. InflightOK' /\ PendingAccounted'
    BY <1>1, <1>2, <1>3, <1>4 DEF InflightOK, PendingAccounted
  <2> QED
    BY <2>1, <2>2
<1>8. ASSUME err = 0, Len(disks) <= ENOMEM, NEW d \in Members
      PROVE  sent[d] = sb.events
  <2>1. Len(disks) \in Nat /\ Done = Len(disks)
    BY <1>1, <1>2, MembersCounted DEF Done
  <2>2. ~(err <= Done - 1 - ENOMEM)
    BY <1>2, <1>8, <2>1
  <2>3. \A i \in 1..Done : sent[disks[i]] = sb.events
    BY <1>1, <1>2, <1>8, <2>2 DEF RoundOK
  <2>4. DOMAIN disks = 1..Len(disks)
    BY <1>2 DEF TypeOK
  <2> QED
    BY <2>1, <2>3, <2>4 DEF Members
<1>9. UpdateComplete'
  <2> SUFFICES ASSUME Running', pc' = "idle", err' = 0 \/ count' > 0,
                      Len(disks') <= ENOMEM,
                      NEW j \in Operational(conf'.slots)
               PROVE  sent'[conf'.slots[j]] = sb'.events
    BY DEF UpdateComplete
  <2>1. err = 0
    BY <1>1, <1>2
  <2>2. conf' = conf /\ Running /\ sent' = sent /\ sb' = sb
    BY <1>1, <1>3 DEF Running
  <2>3. conf.slots[j] \in Members
    BY <1>2, <2>2 DEF CommandOK, Operational, Used
  <2> QED
    BY <1>3, <1>8, <2>1, <2>2, <2>3
<1> QED
  BY <1>5, <1>6, <1>7, <1>9 DEF IInv

LEMMA SuperWrittenStep ==
    ASSUME IInv, NEW w \in inflight, super_written(w)
    PROVE  IInv'
<1>1. /\ inflight' = inflight \ {w}
      /\ gone => bug' = "freed_jmddev" /\ UNCHANGED pending
      /\ ~gone => pending' = pending - 1 /\ UNCHANGED bug
      /\ UNCHANGED <<array, loaded, pers, conf, orphans, pc, left, err, count,
                     sent, resized, gone, adds, loads, faults>>
  BY DEF super_written
<1>2. /\ TypeOK /\ RoundOK /\ CommandOK /\ InflightOK /\ SbFollowed /\ PendingAccounted
      /\ UpdateComplete
  BY DEF IInv
<1>3. UNCHANGED <<sb, synced, disks, desc_nr, held, capacity>>
  BY <1>1 DEF array
<1>4. TypeOK'
  <2>1. pending' \in Int /\ inflight' \subseteq [dev : Devs, events : Nat]
    BY <1>1, <1>2 DEF TypeOK
  <2>2. bug' \in {bug, "freed_jmddev"}
    BY <1>1
  <2>3. /\ conf' \in {None, Freed}
                \cup [slots : [Indices -> Devs \cup {None}], raid_disks : Nat]
        /\ sent' \in [Devs -> Nat] /\ left' \in Seq(Devs)
    BY <1>1, <1>2 DEF TypeOK
  <2>4. bug' \in {"none", "claimed", "null_conf", "unloaded", "double_free",
                 "freed_jmddev", "overrun"}
    BY <1>2, <2>2 DEF TypeOK
  <2>5. UNCHANGED <<loaded, pers, orphans, pc, err, count, resized, gone, adds,
                    loads, faults>>
    BY <1>1
  <2>6. /\ sb' \in Superblocks \cup {None} /\ synced' \in Superblocks \cup {None}
        /\ disks' \in Seq(Devs)
        /\ \A i, j \in DOMAIN disks' : disks'[i] = disks'[j] => i = j
        /\ desc_nr' \in [Devs -> Nat] /\ held' \subseteq Devs /\ capacity' \in Nat
    <3> held' \subseteq Devs
      BY <1>2, <1>3 DEF TypeOK
    <3> QED
      BY <1>2, <1>3, ArrayTyped
  <2> QED
    BY <1>2, <2>1, <2>3, <2>4, <2>5, <2>6 DEF TypeOK
<1>5. /\ Members' = Members /\ MembersHeld' /\ SbFollowed' /\ SizeKept'
      /\ NoLeftovers' /\ CommandOK'
  <2>1. sb # None
    BY <1>2 DEF SbFollowed
  <2>2. pc' \in {"round", "write", "count"} => count' \in 1..Retries
    BY <1>1, <1>2 DEF CommandOK
  <2> QED
    BY <1>1, <2>1, <2>2, UpdateKept
<1>6. RoundOK' /\ UpdateComplete'
  BY <1>1, <1>2, <1>3 DEF RoundOK, UpdateComplete, Running, Operational, Used, Done
<1>7. /\ IsFiniteSet(inflight')
      /\ Cardinality(inflight') = Cardinality(inflight) - 1
  BY <1>1, <1>2, FS_RemoveElement DEF InflightOK
<1>8. InflightOK'
  BY <1>1, <1>2, <1>3, <1>7 DEF InflightOK, Done
<1>9. PendingAccounted'
  <2>1. pending \in Int /\ Cardinality(inflight) \in Nat
    BY <1>2, FS_CardinalityType DEF TypeOK, InflightOK
  <2> QED
    BY <1>1, <1>2, <1>7, <2>1 DEF PendingAccounted
<1> QED
  BY <1>4, <1>5, <1>6, <1>8, <1>9 DEF IInv

LEMMA StutterStep ==
    ASSUME IInv, UNCHANGED vars
    PROVE  IInv'
<1>1. UNCHANGED <<sb, synced, disks, desc_nr, held, capacity, loaded, pers, conf,
                  orphans, pc, update, resized, gone, adds, loads, faults, bug>>
  BY DEF vars, array
<1>2. TypeOK'
  BY <1>1 DEF IInv, TypeOK, update
<1> QED
  BY <1>1, <1>2, AsideStep

LEMMA AsideSteps ==
    ASSUME IInv, NEW d \in Devs,
           \/ AddClaimed(d) \/ AddNoInfo(d) \/ Resize(d)
           \/ (\E total \in Totals, nr \in Numbers : AddOverrun(d, total, nr))
    PROVE  IInv'
<1>1. /\ UNCHANGED <<sb, synced, disks, desc_nr, capacity, loaded, pers, conf,
                     orphans, pc, update, gone, loads>>
      /\ held' \in {held, held \cup {d}} /\ resized' \in {resized, resized \cup {d}}
      /\ faults' \in {faults, faults + 1} /\ faults' \in 0..MaxFaults
      /\ adds' \in 0..MaxAdds /\ bug' \in {bug, "claimed", "overrun"}
  <2>1. /\ faults \in 0..MaxFaults /\ adds \in 0..MaxAdds
        /\ MaxFaults \in Nat /\ MaxAdds \in Nat
    BY ArrayConstants DEF IInv, TypeOK
  <2>2. CASE AddClaimed(d)
    BY <2>1, <2>2 DEF AddClaimed, array
  <2>3. CASE AddNoInfo(d)
    BY <2>1, <2>3 DEF AddNoInfo, array
  <2>4. CASE Resize(d)
    BY <2>1, <2>4 DEF Resize, array
  <2>5. CASE \E total \in Totals, nr \in Numbers : AddOverrun(d, total, nr)
    BY <2>1, <2>5 DEF AddOverrun, array
  <2> QED
    BY <2>2, <2>3, <2>4, <2>5
<1>2. TypeOK'
  <2>1. TypeOK
    BY DEF IInv
  <2>2. held' \subseteq Devs /\ resized' \subseteq Devs
    BY <1>1, <2>1 DEF TypeOK
  <2>3. /\ sb' \in Superblocks \cup {None} /\ synced' \in Superblocks \cup {None}
        /\ disks' \in Seq(Devs)
        /\ \A i, j \in DOMAIN disks' : disks'[i] = disks'[j] => i = j
        /\ desc_nr' \in [Devs -> Nat] /\ held' \subseteq Devs /\ capacity' \in Nat
    BY <1>1, <2>1, <2>2, ArrayTyped
  <2>4. /\ left' \in Seq(Devs) /\ sent' \in [Devs -> Nat]
        /\ inflight' \subseteq [dev : Devs, events : Nat]
        /\ conf' \in {None, Freed}
                \cup [slots : [Indices -> Devs \cup {None}], raid_disks : Nat]
    BY <1>1, <2>1, ControlTyped, ConfTyped DEF update
  <2>5. /\ err' \in Int /\ count' \in 0..Retries /\ pending' \in Int
        /\ orphans' \in 0..MaxFaults /\ loads' \in 0..MaxLoads
        /\ pc' \in {"idle", "run", "round", "write", "count"}
        /\ loaded' \in BOOLEAN /\ pers' \in BOOLEAN /\ gone' \in BOOLEAN
    BY <1>1, <2>1 DEF TypeOK, update
  <2>6. bug' \in {"none", "claimed", "null_conf", "unloaded", "double_free",
                 "freed_jmddev", "overrun"}
    BY <1>1, <2>1 DEF TypeOK
  <2> QED
    BY <1>1, <2>2, <2>3, <2>4, <2>5, <2>6 DEF TypeOK
<1> QED
  BY <1>1, <1>2, AsideStep

LEMMA ModuleSteps ==
    ASSUME IInv, RunUnloaded \/ RequestBug \/ jraid5_init \/ jraid5_exit
    PROVE  IInv'
<1>1. /\ UNCHANGED <<sb, synced, disks, desc_nr, capacity, held, pers,
                     orphans, pc, update, gone, resized, adds, faults>>
      /\ loaded' \in BOOLEAN /\ loads' \in 0..MaxLoads
      /\ conf' = conf \/ (conf # None /\ conf' = Freed)
      /\ bug' \in {bug, "unloaded", "null_conf", "double_free"}
  <2>1. loaded \in BOOLEAN /\ loads \in 0..MaxLoads /\ MaxLoads \in Nat
    BY ArrayConstants DEF IInv, TypeOK
  <2>2. CASE RunUnloaded
    BY <2>1, <2>2 DEF RunUnloaded, array
  <2>3. CASE RequestBug
    BY <2>1, <2>3 DEF RequestBug, array
  <2>4. CASE jraid5_init
    BY <2>1, <2>4 DEF jraid5_init, array
  <2>5. CASE jraid5_exit
    BY <2>1, <2>5 DEF jraid5_exit, array
  <2> QED
    BY <2>2, <2>3, <2>4, <2>5
<1>2. TypeOK'
  <2>1. TypeOK /\ held' \subseteq Devs
    BY <1>1 DEF IInv, TypeOK
  <2>3. /\ sb' \in Superblocks \cup {None} /\ synced' \in Superblocks \cup {None}
        /\ disks' \in Seq(Devs)
        /\ \A i, j \in DOMAIN disks' : disks'[i] = disks'[j] => i = j
        /\ desc_nr' \in [Devs -> Nat] /\ held' \subseteq Devs /\ capacity' \in Nat
    BY <1>1, <2>1, ArrayTyped
  <2>4. /\ left' \in Seq(Devs) /\ sent' \in [Devs -> Nat]
        /\ inflight' \subseteq [dev : Devs, events : Nat]
        /\ conf' \in {None, Freed}
                \cup [slots : [Indices -> Devs \cup {None}], raid_disks : Nat]
    BY <1>1, <2>1, ControlTyped, ConfTyped DEF update
  <2>5. /\ err' \in Int /\ count' \in 0..Retries /\ pending' \in Int
        /\ orphans' \in 0..MaxFaults /\ faults' \in 0..MaxFaults
        /\ adds' \in 0..MaxAdds /\ resized' \subseteq Devs
        /\ pc' \in {"idle", "run", "round", "write", "count"}
        /\ pers' \in BOOLEAN /\ gone' \in BOOLEAN
    BY <1>1, <2>1 DEF TypeOK, update
  <2>6. bug' \in {"none", "claimed", "null_conf", "unloaded", "double_free",
                 "freed_jmddev", "overrun"}
    BY <1>1, <2>1 DEF TypeOK
  <2> QED
    BY <1>1, <2>3, <2>4, <2>5, <2>6 DEF TypeOK
<1> QED
  BY <1>1, <1>2, AsideStep

LEMMA NextIInv == IInv /\ [Next]_vars => IInv'
<1> SUFFICES ASSUME IInv, [Next]_vars
             PROVE  IInv'
  OBVIOUS
<1>1. CASE UNCHANGED vars
  BY <1>1, StutterStep
<1>2. ASSUME NEW d \in Devs, AddClaimed(d) \/ AddNoInfo(d) \/ Resize(d)
      PROVE  IInv'
  BY <1>2, AsideSteps
<1>3. ASSUME NEW d \in Devs, NEW total \in Totals, NEW nr \in Numbers,
             AddOverrun(d, total, nr)
      PROVE  IInv'
  BY <1>3, AsideSteps
<1>4. ASSUME NEW d \in Devs, NEW total \in Totals, NEW nr \in Numbers,
             NEW out \in AddOutcomes, AddStore(d, total, nr, out)
      PROVE  IInv'
  BY <1>4, AddStoreStep
<1>5. ASSUME NEW out \in RunOutcomes, jraid5_run(out)
      PROVE  IInv'
  BY <1>5, RunStep
<1>6. CASE RunUnloaded \/ RequestBug \/ jraid5_init \/ jraid5_exit
  BY <1>6, ModuleSteps
<1>7. CASE UpdateStep
  <2>1. CASE BeginRound
    BY <2>1, BeginRoundStep
  <2>2. CASE WriteNoMemory \/ WriteSkipped
    <3>1. /\ pc = "write" /\ left # << >> /\ left' = Tail(left)
          /\ err' = err - ENOMEM \/ err' = err + 1
          /\ UNCHANGED <<array, loaded, pers, conf, orphans, pc, count, pending,
                         inflight, sent, resized, gone, adds, loads, bug>>
          /\ faults' = faults \/ (faults < MaxFaults /\ faults' = faults + 1)
      BY <2>2 DEF WriteNoMemory, WriteSkipped
    <3>2. faults' \in {faults, faults + 1} /\ faults' \in 0..MaxFaults
      <4>1. faults \in 0..MaxFaults /\ MaxFaults \in Nat
        BY ArrayConstants DEF IInv, TypeOK
      <4> QED
        BY <3>1, <4>1
    <3> QED
      BY <3>1, <3>2, WriteFailedStep
  <2>3. CASE SubmitSb
    BY <2>3, SubmitSbStep
  <2>4. CASE CountWrite
    BY <2>4, CountWriteStep
  <2>5. CASE EndRound
    BY <2>5, EndRoundStep
  <2> QED
    BY <1>7, <2>1, <2>2, <2>3, <2>4, <2>5 DEF UpdateStep
<1>8. ASSUME NEW w \in inflight, super_written(w)
      PROVE  IInv'
  BY <1>8, SuperWrittenStep
<1>9. CASE jmd_exit
  BY <1>9, ExitStep
<1> QED
  BY <1>1, <1>2, <1>3, <1>4, <1>5, <1>6, <1>7, <1>8, <1>9 DEF Next

-----------------------------------------------------------------------------
(* The theorems *)

\* The inductive invariant holds in every state: of the lists of members and
\* descriptors (add_store), of the command (do_jmd_run, jraid5_run) and of the
\* round of writes (jmd_update_sb).
THEOREM IInvHolds == Spec => []IInv
<1>1. Init => IInv
  BY InitIInv
<1>2. IInv /\ [Next]_vars => IInv'
  BY NextIInv
<1> QED
  BY <1>1, <1>2, PTL DEF Spec

\* Every variable keeps its type, and no disk is twice on jmddev->disks.
THEOREM TypeCorrect == Spec => []TypeOK
<1>1. IInv => TypeOK
  BY DEF IInv
<1> QED
  BY <1>1, IInvHolds, PTL

\* A start that failed or was refused (do_jmd_run, the abort path of
\* jraid5_run) leaves jmddev->private NULL, and no more threads than failures.
THEOREM FailedStartLeavesNothingHolds == Spec => []FailedStartLeavesNothing
<1>1. IInv => FailedStartLeavesNothing
  BY DEF IInv, CommandOK, FailedStartLeavesNothing
<1> QED
  BY <1>1, IInvHolds, PTL

\* A personality that requests can see has its private data (do_jmd_run,
\* jraid5_run), but for the run itself and the time after jraid5_exit.
THEOREM PersonalityUsableHolds == Spec => []PersonalityUsable
<1> DEFINE PInv == PersonalityUsable /\ loads >= 1
<1>1. Init => PInv
  BY DEF Init, PersonalityUsable
<1>2. ASSUME IInv, PInv, [Next]_vars
      PROVE  PInv'
  <2> USE DEF PersonalityUsable, Running
  <2>1. /\ loads \in Nat /\ pers \in BOOLEAN /\ loaded \in BOOLEAN
        /\ pc = "run" => conf = None
    BY <1>2 DEF IInv, TypeOK, CommandOK
  <2>2. CASE UNCHANGED <<pers, conf, pc, loaded, loads>>
    BY <1>2, <2>2
  <2>3. ASSUME NEW d \in Devs, NEW total \in Totals, NEW nr \in Numbers,
               NEW out \in AddOutcomes, AddStore(d, total, nr, out)
        PROVE  PInv'
    <3>1. /\ pc' = "run" \/ (pers' = pers /\ pc' = pc)
          /\ UNCHANGED <<conf, loaded, loads>>
      BY <2>1, <2>3 DEF AddStore
    <3> QED
      BY <1>2, <3>1
  <2>4. ASSUME NEW out \in RunOutcomes, jraid5_run(out)
        PROVE  PInv'
    <3>1. SlotsOf \in [Indices -> Devs \cup {None}] /\ sb.raid_disks \in Nat
      <4>1. IInv /\ pc = "run" /\ disks # << >> /\ sb \in Superblocks
        BY <1>2, <2>4 DEF jraid5_run, IInv, CommandOK, SbFollowed, TypeOK
      <4> QED
        BY <4>1, SlotsLemma, SbFields DEF IInv
    <3>2. UNCHANGED <<loaded, loads>>
      BY <2>4 DEF jraid5_run
    <3>3. pers' => conf' = [slots |-> SlotsOf, raid_disks |-> sb.raid_disks]
      BY <2>4 DEF jraid5_run, PersAfter
    <3>4. pers' => conf' \notin {None, Freed}
      BY <3>1, <3>3, NoConfThere
    <3> QED
      BY <1>2, <3>2, <3>4
  <2>5. ASSUME NEW d \in Devs, AddClaimed(d) \/ AddNoInfo(d) \/ Resize(d)
        PROVE  PInv'
    BY <2>2, <2>5 DEF AddClaimed, AddNoInfo, Resize
  <2>6. ASSUME NEW d \in Devs, NEW total \in Totals, NEW nr \in Numbers,
               AddOverrun(d, total, nr)
        PROVE  PInv'
    BY <2>2, <2>6 DEF AddOverrun
  <2>7. CASE UpdateStep
    <3>1. pc # "run" /\ pc' # "run" /\ UNCHANGED <<pers, conf, loaded, loads>>
      BY <2>7 DEF UpdateStep, BeginRound, WriteNoMemory, WriteSkipped, SubmitSb,
                  CountWrite, EndRound
    <3> QED
      BY <1>2, <3>1
  <2>8. ASSUME NEW w \in inflight, super_written(w)
        PROVE  PInv'
    BY <2>2, <2>8 DEF super_written
  <2>9. CASE RunUnloaded \/ RequestBug \/ jmd_exit
    BY <2>2, <2>9 DEF RunUnloaded, RequestBug, jmd_exit
  <2>10. CASE jraid5_init
    BY <1>2, <2>1, <2>10 DEF jraid5_init
  <2>11. CASE jraid5_exit
    BY <1>2, <2>1, <2>11 DEF jraid5_exit
  <2>12. CASE UNCHANGED vars
    BY <2>2, <2>12 DEF vars
  <2> QED
    BY <1>2, <2>3, <2>4, <2>5, <2>6, <2>7, <2>8, <2>9, <2>10, <2>11, <2>12
       DEF Next
<1>3. PInv => PersonalityUsable
  OBVIOUS
<1> HIDE DEF PInv
<1> QED
  BY <1>1, <1>2, <1>3, IInvHolds, PTL DEF Spec

\* pending_writes is the number of superblock writes in flight, but for the one
\* between submit_bio and atomic_inc (write_disk_sb, super_written).
THEOREM PendingAccountedHolds == Spec => []PendingAccounted
<1>1. IInv => PendingAccounted
  BY DEF IInv
<1> QED
  BY <1>1, IInvHolds, PTL

\* A command that has not given up has submitted the current superblock to
\* every disk of the array (jmd_update_sb), for arrays of up to ENOMEM disks.
THEOREM UpdateCompleteHolds == Spec => []UpdateComplete
<1>1. IInv => UpdateComplete
  BY DEF IInv
<1> QED
  BY <1>1, IInvHolds, PTL

\* Only jraid5_run fills jmddev->private.
LEMMA StartIsRun ==
    ASSUME IInv, [Next]_vars, ~Running, Running'
    PROVE  /\ pc = "run" /\ EnoughDisks(SlotsOf) /\ faults' = faults
           /\ conf'.slots = SlotsOf
           /\ TypeOK /\ SbFollowed /\ SizeKept /\ NoLeftovers /\ CommandOK
           /\ disks # << >> /\ sb \in Superblocks
<1>1. conf' # conf /\ conf' \notin {None, Freed}
  BY DEF Running
<1>2. ASSUME NEW out \in RunOutcomes, jraid5_run(out)
      PROVE  /\ pc = "run" /\ EnoughDisks(SlotsOf) /\ faults' = faults
             /\ conf'.slots = SlotsOf
  BY <1>1, <1>2 DEF jraid5_run
<1>3. \E out \in RunOutcomes : jraid5_run(out)
  <2> USE <1>1
  <2>1. CASE UNCHANGED vars
    BY <2>1 DEF vars
  <2>2. ASSUME NEW d \in Devs, AddClaimed(d) \/ AddNoInfo(d) \/ Resize(d)
        PROVE  FALSE
    BY <2>2 DEF AddClaimed, AddNoInfo, Resize
  <2>3. ASSUME NEW d \in Devs, NEW total \in Totals, NEW nr \in Numbers,
               AddOverrun(d, total, nr)
        PROVE  FALSE
    BY <2>3 DEF AddOverrun
  <2>4. ASSUME NEW d \in Devs, NEW total \in Totals, NEW nr \in Numbers,
               NEW out \in AddOutcomes, AddStore(d, total, nr, out)
        PROVE  FALSE
    BY <2>4 DEF AddStore
  <2>5. CASE RunUnloaded \/ RequestBug \/ jraid5_init \/ jraid5_exit \/ jmd_exit
    BY <2>5 DEF RunUnloaded, RequestBug, jraid5_init, jraid5_exit, jmd_exit
  <2>6. CASE UpdateStep
    BY <2>6 DEF UpdateStep, BeginRound, WriteNoMemory, WriteSkipped, SubmitSb,
                CountWrite, EndRound
  <2>7. ASSUME NEW w \in inflight, super_written(w)
        PROVE  FALSE
    BY <2>7 DEF super_written
  <2> QED
    BY <2>1, <2>2, <2>3, <2>4, <2>5, <2>6, <2>7 DEF Next
<1>4. TypeOK /\ SbFollowed /\ SizeKept /\ NoLeftovers /\ CommandOK
  BY DEF IInv
<1>5. disks # << >> /\ sb \in Superblocks
  BY <1>2, <1>3, <1>4 DEF CommandOK, SbFollowed, TypeOK
<1> QED
  BY <1>2, <1>3, <1>4, <1>5

\* Members with different numbers below raid_disks are no more than raid_disks.
LEMMA MembersFit ==
    ASSUME TypeOK, sb \in Superblocks,
           \A d, e \in Members : d # e => desc_nr[d] # desc_nr[e],
           \A d \in Members : desc_nr[d] < sb.raid_disks
    PROVE  Len(disks) <= sb.raid_disks
<1>1. /\ Members \subseteq Devs /\ IsFiniteSet(Members)
      /\ Cardinality(Members) = Len(disks) /\ Len(disks) \in Nat
      /\ sb.raid_disks \in Nat
  BY MembersCounted, SbFields
<1>2. desc_nr \in [Devs -> Nat]
  BY DEF TypeOK
<1> DEFINE R == 0..(sb.raid_disks - 1)
           f == [d \in Members |-> desc_nr[d]]
<1>3. IsFiniteSet(R) /\ Cardinality(R) = sb.raid_disks
  <2> DEFINE b == sb.raid_disks - 1
  <2>1. b \in Int /\ 0 \in Int /\ (IF 0 > b THEN 0 ELSE b - 0 + 1) = sb.raid_disks
    BY <1>1
  <2> HIDE DEF b
  <2>2. IsFiniteSet(0..b) /\ Cardinality(0..b) = IF 0 > b THEN 0 ELSE b - 0 + 1
    BY <2>1, FS_Interval
  <2> QED
    BY <2>1, <2>2 DEF b
<1>4. \A d \in Members : desc_nr[d] \in R
  BY <1>1, <1>2
<1>5. f \in Injection(Members, R)
  <2>1. f \in [Members -> R]
    BY <1>4
  <2>2. \A d, e \in Members : f[d] = f[e] => d = e
    OBVIOUS
  <2> HIDE DEF f
  <2> QED
    BY <2>1, <2>2 DEF Injection, IsInjective
<1> HIDE DEF f, R
<1>6. Cardinality(Members) <= Cardinality(R)
  BY <1>3, <1>5, FS_Injection
<1> QED
  BY <1>1, <1>3, <1>6

\* If a set of slots leaves at most one of the numbers below n out by count, no
\* two different ones are left out.
LEMMA OneEmpty ==
    ASSUME NEW n \in Nat, NEW O \in SUBSET (0..(n - 1)), n - Cardinality(O) <= 1,
           NEW j \in (0..(n - 1)) \ O, NEW k \in (0..(n - 1)) \ O
    PROVE  j = k
<1> SUFFICES ASSUME j # k
             PROVE  FALSE
  OBVIOUS
<1> DEFINE R == 0..(n - 1)
<1>1. IsFiniteSet(R) /\ Cardinality(R) = n
  <2> DEFINE b == n - 1
  <2>1. b \in Int /\ 0 \in Int /\ (IF 0 > b THEN 0 ELSE b - 0 + 1) = n
    OBVIOUS
  <2> HIDE DEF b
  <2>2. IsFiniteSet(0..b) /\ Cardinality(0..b) = IF 0 > b THEN 0 ELSE b - 0 + 1
    BY <2>1, FS_Interval
  <2> QED
    BY <2>1, <2>2 DEF b
<1>2. O \subseteq (R \ {j}) \ {k} /\ j \in R /\ k \in R \ {j}
  OBVIOUS
<1> HIDE DEF R
<1>3. IsFiniteSet(R \ {j}) /\ Cardinality(R \ {j}) = n - 1
  BY <1>1, <1>2, FS_RemoveElement
<1>4. /\ IsFiniteSet((R \ {j}) \ {k})
      /\ Cardinality((R \ {j}) \ {k}) = n - 2
  BY <1>2, <1>3, FS_RemoveElement
<1> DEFINE T == (R \ {j}) \ {k}
<1>5. IsFiniteSet(O) /\ Cardinality(O) <= n - 2
  <2>1. O \in SUBSET T /\ IsFiniteSet(T) /\ Cardinality(T) = n - 2
    BY <1>2, <1>4
  <2> HIDE DEF T
  <2>2. IsFiniteSet(O) /\ Cardinality(O) <= Cardinality(T)
    BY <2>1, FS_Subset
  <2> QED
    BY <2>1, <2>2
<1>6. Cardinality(O) \in Nat
  BY <1>5, FS_CardinalityType
<1> QED
  BY <1>5, <1>6

\* jraid5_run puts every member whose number is a slot of the array there and no
\* disk in two slots; without an earlier failure every member is used, no slot
\* behind the last disk is filled and at most one slot is empty.
THEOREM StartUsesAllMembersHolds == Spec => StartUsesAllMembers
<1>1. ASSUME IInv, [Next]_vars
      PROVE  StartUses
  <2> SUFFICES ASSUME ~Running, Running'
               PROVE  StartUses
    BY DEF StartUses
  <2>1. /\ pc = "run" /\ EnoughDisks(SlotsOf) /\ faults' = faults
        /\ conf'.slots = SlotsOf
        /\ TypeOK /\ SbFollowed /\ SizeKept /\ NoLeftovers /\ CommandOK
        /\ disks # << >> /\ sb \in Superblocks
    BY <1>1, StartIsRun
  <2>2. /\ SlotsOf \in [Indices -> Devs \cup {None}]
        /\ \A j \in Indices : SlotsOf[j] # None =>
                /\ SlotsOf[j] \in Members /\ desc_nr[SlotsOf[j]] = j
                /\ j <= sb.raid_disks
        /\ \A d \in Members : desc_nr[d] <= sb.raid_disks =>
                desc_nr[d] \in Indices /\ SlotsOf[desc_nr[d]] # None
    BY <2>1, SlotsLemma
  <2>3. \A d, e \in Members : d # e => desc_nr[d] # desc_nr[e]
    BY <2>1 DEF CommandOK
  <2> DEFINE O == Operational(SlotsOf)
             U == Used(SlotsOf)
             n == sb.raid_disks
  <2>4. /\ O \subseteq Indices /\ U = {SlotsOf[j] : j \in O}
        /\ \A j \in Indices : j \in O <=> SlotsOf[j] # None
    BY DEF Operational, Used
  <2>5. /\ n \in Nat /\ n - Cardinality(O) <= 1
        /\ \A d \in Members : desc_nr[d] \in Nat
    BY <2>1, MembersCounted, SbFields DEF TypeOK, EnoughDisks, FailedDisks
  <2> HIDE DEF O, U, n
  <2>6. \A d \in Members : desc_nr[d] < n => SlotsOf[desc_nr[d]] = d
    BY <2>2, <2>3, <2>5 DEF n
  <2>7. \A j, k \in O : SlotsOf[j] = SlotsOf[k] => j = k
    BY <2>2, <2>4
  <2>8. ASSUME faults' = 0
        PROVE  /\ U = Members /\ O \subseteq 0..(n - 1)
               /\ \A j, k \in (0..(n - 1)) \ O : j = k
    <3>1. \A d \in Members : desc_nr[d] < n
      BY <2>1, <2>8 DEF NoLeftovers, n
    <3>2. O \subseteq 0..(n - 1)
      BY <2>2, <2>4, <2>5, <3>1
    <3>3. U = Members
      <4>1. \A d \in Members : desc_nr[d] \in O
        BY <2>2, <2>4, <2>5, <3>1 DEF n
      <4> QED
        BY <2>2, <2>4, <2>6, <3>1, <4>1
    <3>4. \A j, k \in (0..(n - 1)) \ O : j = k
      BY <2>5, <3>2, OneEmpty
    <3> QED
      BY <3>2, <3>3, <3>4
  <2> QED
    BY <2>1, <2>6, <2>7, <2>8 DEF StartUses, O, U, n
<1>2. IInv /\ [Next]_vars => [StartUses]_vars
  BY <1>1
<1> QED
  BY IInvHolds, <1>2, PTL DEF Spec, StartUsesAllMembers

\* A started array has members of the size in the superblock, and the capacity
\* that add_store has announced fits on the data disks unless an earlier failure
\* has brought in more members than the array has disks.
THEOREM StartFitsHolds == Spec => StartFits
<1>1. ASSUME IInv, [Next]_vars
      PROVE  StartHasRoom
  <2> SUFFICES ASSUME ~Running, Running'
               PROVE  StartHasRoom
    BY DEF StartHasRoom
  <2>1. /\ pc = "run" /\ faults' = faults
        /\ TypeOK /\ SbFollowed /\ SizeKept /\ NoLeftovers /\ CommandOK
        /\ disks # << >> /\ sb \in Superblocks
    BY <1>1, StartIsRun
  <2>2. \A d \in Members : Chunk <= sb.size /\ sb.size <= DevSize[d]
    BY <2>1 DEF SizeKept, CommandOK
  <2> DEFINE n == sb.raid_disks
             z == sb.size
             l == Len(disks)
             c == capacity
  <2>3. /\ n \in Nat /\ z \in Nat /\ l \in Nat /\ c \in Nat
        /\ 2 * c <= z * l /\ \A d \in Members : desc_nr[d] \in Nat
    <3>1. n \in 0..(Wrap - 1) /\ Wrap \in Nat
      BY <2>1, SbFields, ArrayConstants DEF SbFollowed
    <3>2. c \in Nat /\ 2 * c <= z * l
      BY <2>1 DEF TypeOK, CommandOK
    <3>3. z \in Nat /\ l \in Nat /\ Members \subseteq Devs
      BY <2>1, SbFields, MembersCounted
    <3>4. \A d \in Members : desc_nr[d] \in Nat
      BY <2>1, <3>3 DEF TypeOK
    <3> QED
      BY <3>1, <3>2, <3>3, <3>4
  <2>4. ASSUME n > 1, l <= n
        PROVE  c <= (n - 1) * z
    <3> HIDE DEF n, z, l, c
    <3>1. z * l <= z * n
      BY <2>3, <2>4
    <3>2. z * n <= z * (2 * (n - 1))
      <4> n <= 2 * (n - 1)
        BY <2>3, <2>4
      <4> QED
        BY <2>3, <2>4
    <3>3. z * (2 * (n - 1)) = 2 * ((n - 1) * z)
      BY <2>3
    <3> DEFINE a == z * l
               b == z * n
               m == (n - 1) * z
    <3>4. a \in Nat /\ b \in Nat /\ m \in Nat
      BY <2>3, <2>4
    <3>5. 2 * c <= a /\ a <= b /\ b <= 2 * m
      BY <2>3, <3>1, <3>2, <3>3
    <3> HIDE DEF a, b, m
    <3>6. c <= m
      BY <2>3, <3>4, <3>5
    <3> QED
      BY <3>6 DEF m
  <2>5. faults' = 0 => l <= n
    <3>1. faults' = 0 => \A d \in Members : desc_nr[d] < sb.raid_disks
      BY <2>1 DEF NoLeftovers
    <3>2. \A d, e \in Members : d # e => desc_nr[d] # desc_nr[e]
      BY <2>1 DEF CommandOK
    <3> QED
      BY <2>1, <3>1, <3>2, MembersFit
  <2> QED
    BY <2>2, <2>4, <2>5 DEF StartHasRoom
<1>2. IInv /\ [Next]_vars => [StartHasRoom]_vars
  BY <1>1
<1> QED
  BY IInvHolds, <1>2, PTL DEF Spec, StartFits
=============================================================================
