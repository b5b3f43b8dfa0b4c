-------------------------- MODULE RadixDemo_proofs --------------------------
(***************************************************************************)
(* Proofs about RadixDemo, for any number of tasks, requests and failed    *)
(* allocations, any size of pages, device and batches: written pages are   *)
(* tagged, a page keeps its block, the loops of radix_block_exit visit     *)
(* every block once.                                                       *)
(***************************************************************************)
EXTENDS RadixDemo, FiniteSetTheorems, WellFoundedInduction, TLAPS

-----------------------------------------------------------------------------
(* Sectors and pages *)

LEMMA DivMod ==
    ASSUME NEW x \in Nat, NEW n \in Nat \ {0}
    PROVE  /\ x \div n \in Nat
           /\ x % n \in 0..(n - 1)
           /\ x = n * (x \div n) + (x % n)
OBVIOUS

LEMMA DivModUnique ==
    ASSUME NEW n \in Nat \ {0}, NEW q \in Nat, NEW m \in 0..(n - 1)
    PROVE  (n * q + m) \div n = q
OBVIOUS

\* The page of a sector.
LEMMA PageLemma ==
    ASSUME NEW s \in Nat
    PROVE  /\ PageOf(s) \in Nat
           /\ s % PageSectors \in 0..(PageSectors - 1)
           /\ PageSectors * PageOf(s) \in Nat
           /\ s = PageSectors * PageOf(s) + (s % PageSectors)
<1>1. PageSectors \in Nat \ {0}
  BY RadixConstants
<1>2. /\ PageOf(s) \in Nat
      /\ s % PageSectors \in 0..(PageSectors - 1)
      /\ s = PageSectors * PageOf(s) + (s % PageSectors)
  BY <1>1, DivMod DEF PageOf
<1>3. \A q \in Nat : PageSectors * q \in Nat
  BY <1>1
<1> QED
  BY <1>2, <1>3

\* A sector between two multiples of the size of a page.
LEMMA PageUnique ==
    ASSUME NEW q \in Nat, NEW s \in Nat,
           PageSectors * q <= s, s < PageSectors * q + PageSectors
    PROVE  PageOf(s) = q
<1> DEFINE b == PageSectors * q
           m == s - b
<1>1. PageSectors \in Nat \ {0} /\ b \in Nat
  BY RadixConstants
<1>2. m \in 0..(PageSectors - 1) /\ s = b + m
  <2> HIDE DEF b
  <2> QED BY <1>1 DEF b
<1>3. (PageSectors * q + m) \div PageSectors = q
  <2> HIDE DEF m
  <2> QED BY <1>1, <1>2, DivModUnique
<1> QED
  BY <1>2, <1>3 DEF PageOf

LEMMA LastSectorType ==
    LastSector + 1 = NrPages * PageSectors /\ LastSector \in Nat
<1>1. PageSectors \in Nat /\ NrPages \in Nat /\ PageSectors >= 1 /\ NrPages >= 1
  BY RadixConstants
<1>2. NrPages * PageSectors \in Nat /\ NrPages * PageSectors >= 1
  BY <1>1
<1> QED
  BY <1>2 DEF LastSector

LEMMA PageInDevice ==
    ASSUME NEW s \in 0..LastSector
    PROVE  PageOf(s) \in Pages
<1> DEFINE q == PageOf(s)
<1>1. s \in Nat /\ s < NrPages * PageSectors
  BY LastSectorType
<1>2. q \in Nat /\ PageSectors * q <= s
  <2> DEFINE b == PageSectors * q
             m == s % PageSectors
  <2>1. q \in Nat /\ b \in Nat /\ m \in 0..(PageSectors - 1) /\ s = b + m
    BY <1>1, PageLemma, Zenon
  <2>2. m \in Nat
    BY <2>1
  <2> HIDE DEF b, m
  <2> QED
    BY <2>1, <2>2 DEF b
<1>3. PageSectors \in Nat \ {0} /\ NrPages \in Nat
  BY RadixConstants
<1> HIDE DEF q
<1>4. ASSUME q >= NrPages PROVE FALSE
  <2>1. PageSectors * q >= PageSectors * NrPages
    BY <1>2, <1>3, <1>4
  <2> QED
    BY <1>1, <1>2, <1>3, <2>1
<1> QED
  BY <1>2, <1>3, <1>4 DEF Pages, q

-----------------------------------------------------------------------------
(* The least and the greatest element, and the next batch of a loop *)

LEMMA Least ==
    ASSUME NEW T, T \subseteq Nat, T # {}
    PROVE  \E x \in T : \A y \in T : x <= y
<1> DEFINE R == OpToRel(<, Nat)
<1>1. IsWellFoundedOn(R, Nat)
  BY NatLessThanWellFounded
<1>2. \A x, y \in Nat : x < y => <<x, y>> \in R
  BY DEF OpToRel
<1> HIDE DEF R
<1>3. PICK x \in T : \A y \in T : ~(<<y, x>> \in R)
  BY <1>1, WFMin
<1>4. \A y \in T : x <= y
  <2> TAKE y \in T
  <2> x \in Nat /\ y \in Nat
    OBVIOUS
  <2> ~(y < x)
    BY <1>2, <1>3
  <2> QED
    OBVIOUS
<1> QED
  BY <1>4

LEMMA Greatest ==
    ASSUME NEW T, NEW n \in Nat, T \subseteq 0..n, T # {}
    PROVE  Highest(T) \in T /\ \A y \in T : y <= Highest(T)
<1> DEFINE U == {n - x : x \in T}
<1>1. PICK u \in U : \A y \in U : u <= y
  <2>1. U \subseteq Nat
    OBVIOUS
  <2>2. U # {}
    <3> PICK x \in T : TRUE
      OBVIOUS
    <3> n - x \in U
      OBVIOUS
    <3> QED
      OBVIOUS
  <2> HIDE DEF U
  <2> QED
    BY <2>1, <2>2, Least
<1>2. PICK x \in T : u = n - x
  BY <1>1
<1>3. \A y \in T : y <= x
  <2> TAKE y \in T
  <2> n - y \in U
    OBVIOUS
  <2> HIDE DEF U
  <2> n - x <= n - y
    BY <1>1, <1>2
  <2> QED
    OBVIOUS
<1>4. \E p \in T : \A q \in T : q <= p
  BY <1>3
<1> QED
  BY <1>4 DEF Highest

LEMMA PagesFinite ==
    /\ Pages \subseteq Nat
    /\ IsFiniteSet(Pages)
    /\ \A S : S \subseteq Pages => IsFiniteSet(S) /\ Cardinality(S) \in Nat
<1>1. NrPages - 1 \in Int /\ 0 \in Int
  BY RadixConstants
<1>2. IsFiniteSet(Pages)
  BY <1>1, FS_Interval DEF Pages
<1>3. ASSUME NEW S, S \subseteq Pages
      PROVE  IsFiniteSet(S) /\ Cardinality(S) \in Nat
  BY <1>2, <1>3, FS_Subset, FS_CardinalityType
<1> QED
  BY <1>2, <1>3 DEF Pages

\* What a turn of find_tag_blks or free_all_blks gets: nothing if there is
\* nothing at or above from, and otherwise all that is there up to the last.
LEMMA BatchLemma ==
    ASSUME NEW S, S \subseteq Pages, NEW from \in Nat, NEW n \in Nat \ {0},
           NEW got, got = FirstOf(S, from, n)
    PROVE  /\ got \subseteq S
           /\ got = {} => \A p \in S : p < from
           /\ got # {} => /\ Highest(got) \in got
                          /\ Highest(got) >= from
                          /\ got = {p \in S : from <= p /\ p <= Highest(got)}
<1> DEFINE Before(p) == {q \in S : from <= q /\ q < p}
           rest == {p \in S : p >= from}
<1>1. got = {p \in S : p >= from /\ Cardinality(Before(p)) < n}
  BY DEF FirstOf
<1>0. S \subseteq Nat
  BY PagesFinite
<1>2. \A p : IsFiniteSet(Before(p)) /\ Cardinality(Before(p)) \in Nat
  <2> \A p : Before(p) \subseteq Pages
    OBVIOUS
  <2> HIDE DEF Before
  <2> QED
    BY PagesFinite
<1>3. ASSUME got = {}
      PROVE  \A p \in S : p < from
  <2>1. ASSUME rest # {}
        PROVE  FALSE
    <3>1. PICK x \in rest : \A y \in rest : x <= y
      <4> rest \subseteq Nat
        BY <1>0
      <4> HIDE DEF rest
      <4> QED
        BY <2>1, Least
    <3>2. Before(x) = {}
      <4> SUFFICES ASSUME NEW q \in S, from <= q, q < x
                   PROVE  FALSE
        OBVIOUS
      <4> q \in rest /\ q \in Nat /\ x \in Nat
        BY <1>0
      <4> x <= q
        BY <3>1
      <4> QED
        OBVIOUS
    <3>3. Cardinality(Before(x)) = 0
      BY <3>2, FS_EmptySet
    <3> HIDE DEF Before
    <3> QED
      BY <1>1, <1>3, <3>1, <3>3
  <2> QED
    BY <1>0, <2>1
<1>4. ASSUME got # {}
      PROVE  /\ Highest(got) \in got
             /\ Highest(got) >= from
             /\ got = {p \in S : from <= p /\ p <= Highest(got)}
  <2> DEFINE h == Highest(got)
  <2>1. h \in got /\ \A y \in got : y <= h
    <3>1. NrPages - 1 \in Nat
      BY RadixConstants
    <3>2. got \subseteq S
      BY <1>1
    <3>3. got \subseteq 0..(NrPages - 1)
      BY <3>2 DEF Pages
    <3> QED
      BY <1>4, <3>1, <3>3, Greatest
  <2> HIDE DEF h
  <2>2. ASSUME NEW p \in S, from <= p, p <= h
        PROVE  p \in got
    <3>1. h \in S /\ Cardinality(Before(h)) < n
      BY <1>1, <2>1
    <3>2. Before(p) \in SUBSET Before(h)
      <4> SUFFICES ASSUME NEW q \in S, from <= q, q < p
                   PROVE  q < h
        OBVIOUS
      <4> QED
        BY <1>0, <2>2, <3>1
    <3> HIDE DEF Before
    <3>3. Cardinality(Before(p)) <= Cardinality(Before(h))
      BY <1>2, <3>2, FS_Subset
    <3> QED
      BY <1>0, <1>1, <1>2, <2>2, <3>1, <3>3
  <2>3. \A p \in got : p \in S /\ from <= p /\ p <= h
    BY <1>0, <1>1, <2>1
  <2>4. got = {p \in S : from <= p /\ p <= h}
    BY <2>2, <2>3
  <2> QED
    BY <2>1, <2>3, <2>4 DEF h
<1> QED
  BY <1>1, <1>3, <1>4

Below(S, n) == {p \in S : p < n}
Span(S, from, h) == {p \in S : from <= p /\ p <= h}

\* The elements of S below the next batch.
LEMMA CountLemma ==
    ASSUME NEW S, S \subseteq Pages, NEW from \in Nat, NEW h \in Nat, h >= from
    PROVE  Cardinality(Below(S, h + 1))
             = Cardinality(Below(S, from)) + Cardinality(Span(S, from, h))
<1> DEFINE got == {p \in S : from <= p /\ p <= h}
           low == {p \in S : p < from}
<1>1. S \subseteq Nat
  BY PagesFinite
<1>2. low \cup got = {p \in S : p < h + 1} /\ low \cap got = {}
  <2>1. \A p \in S : p < h + 1 <=> p < from \/ (from <= p /\ p <= h)
    BY <1>1
  <2>2. \A p \in S : ~(p < from /\ from <= p)
    BY <1>1
  <2> QED
    BY <2>1, <2>2
<1>3. IsFiniteSet(low) /\ IsFiniteSet(got)
      /\ Cardinality(low) \in Nat /\ Cardinality(got) \in Nat
  <2> low \subseteq Pages /\ got \subseteq Pages
    OBVIOUS
  <2> HIDE DEF low, got
  <2> QED
    BY PagesFinite
<1> HIDE DEF low, got
<1>4. Cardinality(low \cup got)
        = Cardinality(low) + Cardinality(got) - Cardinality(low \cap got)
  BY <1>3, FS_Union
<1>5. Cardinality(low \cap got) = 0
  BY <1>2, FS_EmptySet
<1>6. Cardinality(low \cup got) = Cardinality(low) + Cardinality(got)
  BY <1>3, <1>4, <1>5
<1> QED
  BY <1>2, <1>6 DEF low, got, Below, Span

-----------------------------------------------------------------------------
(* Requests *)

\* A sector that a request works on is a sector of the device.
LEMMA SectorInDevice ==
    ASSUME TypeOK, NEW t \in Tasks, RequestOK(t), pc[t] # "idle"
    PROVE  /\ req[t].sector \in 0..LastSector
           /\ PageOf(req[t].sector) \in Pages
<1>1. req[t].sector \in 0..LastSector
  BY LastSectorType, RadixConstants DEF TypeOK, RequestOK
<1> QED
  BY <1>1, PageInDevice

\* A request is not disturbed by what others do with the tree and the tags.
LEMMA OthersKept ==
    ASSUME TypeOK, NEW t \in Tasks, RequestOK(t), RequestKept(t),
           pc'[t] = pc[t], req'[t] = req[t], blk'[t] = blk[t],
           dirty \subseteq dirty', tsync \subseteq tsync',
           \A p \in Pages : tree[p] # None => tree'[p] # None
    PROVE  RequestOK(t)' /\ RequestKept(t)'
<1>1. RequestOK(t)'
  BY DEF RequestOK
<1>2. ASSUME pc[t] # "idle", req[t].rw = "write",
             NEW s \in req[t].first..(req[t].sector - 1)
      PROVE  PageOf(s) \in dirty' \cap tsync' /\ tree'[PageOf(s)] # None
  <2>1. PageOf(s) \in dirty \cap tsync /\ tree[PageOf(s)] # None
    BY <1>2 DEF RequestKept
  <2> QED
    BY <2>1 DEF TypeOK
<1>3. ASSUME pc[t] \in {"link", "use"}
      PROVE  blk'[t] # None /\ tree'[PageOf(req[t].sector)] # None
  <2>1. blk[t] # None /\ tree[PageOf(req[t].sector)] # None
    BY <1>3 DEF RequestKept
  <2>2. PageOf(req[t].sector) \in Pages
    BY <1>3, SectorInDevice
  <2> QED
    BY <2>1, <2>2
<1> QED
  BY <1>1, <1>2, <1>3 DEF RequestKept

\* The first part of a segment, as blk_dev_write computes it.
LEMMA FirstPart ==
    ASSUME NEW s \in Nat, NEW len \in 1..PageSectors
    PROVE  LET room == PageSectors - (s % PageSectors)
               copy == MinOf(len, room)
           IN  /\ copy \in 1..len
               /\ len > room =>
                    copy < len /\ s + copy = PageSectors * (PageOf(s) + 1)
               /\ ~(len > room) => copy = len
               /\ \A x \in s..(s + copy - 1) : PageOf(x) = PageOf(s)
<1> DEFINE room == PageSectors - (s % PageSectors)
           copy == MinOf(len, room)
           q == PageOf(s)
           m == s % PageSectors
           b == PageSectors * q
<1>1. PageSectors \in Nat \ {0}
  BY RadixConstants
<1>2. q \in Nat /\ m \in 0..(PageSectors - 1) /\ b \in Nat /\ s = b + m
  BY PageLemma
<1>3. PageSectors * (q + 1) = b + PageSectors
  <2> HIDE DEF q
  <2> QED
    BY <1>1, <1>2
<1> HIDE DEF q, m, b
<1>4. room = PageSectors - m
  BY DEF m
<1> HIDE DEF room
<1>5. room \in 1..PageSectors
  BY <1>1, <1>2, <1>4
<1>6. copy \in 1..len /\ copy <= room /\ (len > room => copy < len /\ copy = room)
      /\ (~(len > room) => copy = len)
  BY <1>1, <1>5 DEF MinOf
<1> HIDE DEF copy
<1>7. ASSUME len > room
      PROVE  s + copy = PageSectors * (PageOf(s) + 1)
  <2>1. s + copy = b + PageSectors
    BY <1>1, <1>2, <1>4, <1>6, <1>7
  <2> QED
    BY <1>3, <2>1 DEF q
<1>8. ASSUME NEW x \in s..(s + copy - 1)
      PROVE  PageOf(x) = q
  <2>1. x \in Nat /\ b <= x /\ x < b + PageSectors
    BY <1>1, <1>2, <1>4, <1>6
  <2> QED
    BY <1>2, <2>1, PageUnique DEF b
<1> QED
  BY <1>6, <1>7, <1>8 DEF q, room, copy

\* The second part of a segment lies in the next page.
LEMMA SecondPart ==
    ASSUME NEW q \in Nat, NEW a \in Nat, NEW n \in 1..PageSectors,
           a = PageSectors * (q + 1)
    PROVE  \A x \in a..(a + n - 1) : PageOf(x) = PageOf(a)
<1>1. PageSectors \in Nat \ {0}
  BY RadixConstants
<1>2. ASSUME NEW x \in a..(a + n - 1)
      PROVE  PageOf(x) = q + 1
  <2>1. x \in Nat /\ a <= x /\ x < a + PageSectors /\ q + 1 \in Nat
    BY <1>1
  <2> QED
    BY <2>1, PageUnique
<1>3. a \in a..(a + n - 1)
  BY <1>1
<1> QED
  BY <1>2, <1>3

-----------------------------------------------------------------------------
(* The invariant is inductive *)

Requests == \A t \in Tasks : RequestOK(t) /\ RequestKept(t)

LEMMA InitIInv == Init => IInv
<1> SUFFICES ASSUME Init
             PROVE  IInv
  OBVIOUS
<1> USE DEF Init
<1>1. TypeOK
  BY RadixConstants, LastSectorType DEF TypeOK, NoReq
<1>2. \A t \in Tasks : RequestOK(t) /\ RequestKept(t)
  BY DEF RequestOK, RequestKept
<1>3. WrittenIsTagged /\ Quiet /\ TreeOwnsBlocks
  BY DEF WrittenIsTagged, Quiet, TreeOwnsBlocks
<1>4. BlocksAccounted /\ TagsCounted /\ ExitFreesTree
  BY DEF BlocksAccounted, TagsCounted, ExitFreesTree
<1> QED
  BY <1>1, <1>2, <1>3, <1>4 DEF IInv

\* The steps of loading and the steps into a bug leave the device alone.
LEMMA ModStep ==
    ASSUME IInv, UNCHANGED <<device, tasks, index, cnt>>, TypeOK',
           \/ mod' = mod
           \/ mod = "loading" /\ mod' \in {"live", "no_dev", "gone"}
    PROVE  IInv'
<1> USE DEF device, tasks
<1>1. Requests'
  BY DEF IInv, Requests, RequestOK, RequestKept
<1>2. Quiet'
  BY DEF IInv, Quiet
<1>3. TreeOwnsBlocks'
  BY DEF IInv, TreeOwnsBlocks
<1>4. WrittenIsTagged'
  BY DEF IInv, WrittenIsTagged, BlocksAccounted
<1>5. BlocksAccounted' /\ TagsCounted' /\ ExitFreesTree'
  BY FS_EmptySet DEF IInv, BlocksAccounted, TagsCounted, ExitFreesTree
<1> QED
  BY <1>1, <1>2, <1>3, <1>4, <1>5 DEF IInv, Requests

LEMMA SubmitStep ==
    ASSUME IInv, NEW t \in Tasks, NEW rw \in {"read", "write"},
           NEW s \in 0..LastSector, NEW len \in 1..PageSectors,
           Submit(t, rw, s, len)
    PROVE  IInv'
<1> DEFINE room == PageSectors - (s % PageSectors)
           copy == MinOf(len, room)
<1>1. /\ pc[t] = "idle" /\ mod \in {"loading", "live"} /\ bios < MaxBios
      /\ s + len <= LastSector + 1
      /\ req' = [req EXCEPT ![t] =
                [rw |-> rw, first |-> s, len |-> len, sector |-> s,
                 copy |-> copy, nr |-> IF len > room THEN 2 ELSE 1]]
      /\ pc' = [pc EXCEPT ![t] = "lookup"] /\ bios' = bios + 1
      /\ UNCHANGED <<device, blk, written, mod, index, cnt, faults, bug>>
  BY DEF Submit
<1>2. s \in Nat /\ LastSector \in Nat /\ PageSectors \in Nat \ {0}
  BY LastSectorType, RadixConstants
<1>3. /\ copy \in 1..len
      /\ len > room => copy < len /\ s + copy = PageSectors * (PageOf(s) + 1)
      /\ ~(len > room) => copy = len
      /\ \A x \in s..(s + copy - 1) : PageOf(x) = PageOf(s)
  BY <1>2, FirstPart
<1> HIDE DEF copy, room
<1>4. TypeOK'
  BY <1>1, <1>2, <1>3, RadixConstants DEF IInv, TypeOK, device, Blocks
<1>5. ASSUME NEW u \in Tasks
      PROVE  RequestOK(u)' /\ RequestKept(u)'
  <2>1. CASE u = t
    <3>1. req'[t] = [rw |-> rw, first |-> s, len |-> len, sector |-> s,
                     copy |-> copy, nr |-> IF len > room THEN 2 ELSE 1]
          /\ pc'[t] = "lookup"
      BY <1>1 DEF IInv, TypeOK
    <3>2. RequestOK(t)'
      BY <1>1, <1>2, <1>3, <3>1 DEF RequestOK
    <3>3. RequestKept(t)'
      BY <1>2, <3>1 DEF RequestKept
    <3> QED
      BY <2>1, <3>2, <3>3
  <2>2. CASE u # t
    <3>1. pc'[u] = pc[u] /\ req'[u] = req[u] /\ blk'[u] = blk[u]
      BY <1>1, <2>2 DEF IInv, TypeOK
    <3> QED
      BY <1>1, <3>1, OthersKept DEF IInv, device
  <2> QED
    BY <2>1, <2>2
<1>6. WrittenIsTagged'
  BY <1>1 DEF IInv, WrittenIsTagged, device
<1>7. Quiet'
  BY <1>1 DEF IInv, Quiet, TypeOK
<1>8. TreeOwnsBlocks'
  BY <1>1 DEF IInv, TreeOwnsBlocks, device
<1>9. BlocksAccounted' /\ TagsCounted' /\ ExitFreesTree'
  BY <1>1 DEF IInv, BlocksAccounted, TagsCounted, ExitFreesTree, device
<1> QED
  BY <1>4, <1>5, <1>6, <1>7, <1>8, <1>9 DEF IInv

LEMMA LookupStep ==
    ASSUME IInv, NEW t \in Tasks, Lookup(t)
    PROVE  IInv'
<1> DEFINE b == tree[PageOf(req[t].sector)]
<1>1. pc[t] = "lookup" /\ UNCHANGED <<device, req, written, bios, mod, index, cnt, faults>>
  BY DEF Lookup
<1>2. CASE mod # "live"
  <2>1. bug' = "null_dev" /\ UNCHANGED <<pc, blk>>
    BY <1>2 DEF Lookup
  <2>2. TypeOK'
    BY <1>1, <2>1 DEF IInv, TypeOK, device, Blocks
  <2> QED
    BY <1>1, <2>1, <2>2, ModStep DEF tasks
<1>3. CASE mod = "live"
  <2>1. /\ pc' = [pc EXCEPT ![t] = IF b = None THEN "insert" ELSE "use"]
        /\ blk' = [blk EXCEPT ![t] = b] /\ UNCHANGED bug
    BY <1>3 DEF Lookup
  <2>2. PageOf(req[t].sector) \in Pages
    BY <1>1, SectorInDevice DEF IInv
  <2>3. b \in Blocks \cup {None}
    BY <2>2 DEF IInv, TypeOK
  <2> HIDE DEF b
  <2>4. TypeOK'
    BY <1>1, <2>1, <2>3 DEF IInv, TypeOK, device, Blocks
  <2>5. ASSUME NEW u \in Tasks
        PROVE  RequestOK(u)' /\ RequestKept(u)'
    <3>1. CASE u = t
      <4>1. pc'[t] = (IF b = None THEN "insert" ELSE "use") /\ blk'[t] = b
        BY <2>1 DEF IInv, TypeOK
      <4>2. RequestOK(t)'
        BY <1>1, <4>1 DEF IInv, RequestOK
      <4>3. RequestKept(t)'
        BY <1>1, <4>1 DEF IInv, RequestKept, device, b
      <4> QED
        BY <3>1, <4>2, <4>3
    <3>2. CASE u # t
      <4>1. pc'[u] = pc[u] /\ req'[u] = req[u] /\ blk'[u] = blk[u]
        BY <1>1, <2>1, <3>2 DEF IInv, TypeOK
      <4> QED
        BY <1>1, <4>1, OthersKept DEF IInv, device
    <3> QED
      BY <3>1, <3>2
  <2>6. WrittenIsTagged' /\ Quiet' /\ TreeOwnsBlocks'
    BY <1>1, <1>3 DEF IInv, WrittenIsTagged, Quiet, TreeOwnsBlocks, device
  <2>7. BlocksAccounted' /\ TagsCounted' /\ ExitFreesTree'
    BY <1>1, <1>3 DEF IInv, BlocksAccounted, TagsCounted, ExitFreesTree, device
  <2> QED
    BY <2>4, <2>5, <2>6, <2>7 DEF IInv
<1> QED
  BY <1>2, <1>3

LEMMA AllocFailsStep ==
    ASSUME IInv, NEW t \in Tasks, AllocFails(t)
    PROVE  IInv'
<1>1. /\ pc[t] = "insert" /\ faults < MaxFaults
      /\ pc' = [pc EXCEPT ![t] = "idle"] /\ faults' = faults + 1
      /\ UNCHANGED <<tree, dirty, tsync, linked, blk, req, written, bios, mod,
                     index, cnt, bug>>
      /\ \/ UNCHANGED <<live, nblks>>
         \/ live' = live \cup {nblks + 1} /\ nblks' = nblks + 1
  BY DEF AllocFails
<1>2. mod = "live"
  BY <1>1 DEF IInv, Quiet
<1>3. TypeOK'
  <2>1. /\ nblks \in Nat /\ nblks' \in Nat /\ Blocks \subseteq Blocks'
        /\ live' \subseteq Blocks'
    <3>1. CASE UNCHANGED <<live, nblks>>
      BY <3>1 DEF IInv, TypeOK, Blocks
    <3>2. CASE live' = live \cup {nblks + 1} /\ nblks' = nblks + 1
      BY <3>2 DEF IInv, TypeOK, Blocks
    <3> QED
      BY <1>1, <3>1, <3>2
  <2>2. tree' \in [Pages -> Blocks' \cup {None}] /\ linked' \subseteq Blocks'
        /\ blk' \in [Tasks -> Blocks' \cup {None}]
    BY <1>1, <2>1 DEF IInv, TypeOK
  <2>3. faults' \in 0..MaxFaults
        /\ pc' \in [Tasks -> {"idle", "lookup", "insert", "link", "use"}]
    BY <1>1, RadixConstants DEF IInv, TypeOK
  <2> QED
    BY <1>1, <2>1, <2>2, <2>3 DEF IInv, TypeOK
<1>4. ASSUME NEW u \in Tasks
      PROVE  RequestOK(u)' /\ RequestKept(u)'
  <2>1. CASE u = t
    <3>1. pc'[t] = "idle"
      BY <1>1 DEF IInv, TypeOK
    <3> QED
      BY <2>1, <3>1 DEF RequestOK, RequestKept
  <2>2. CASE u # t
    <3>1. pc'[u] = pc[u] /\ req'[u] = req[u] /\ blk'[u] = blk[u]
      BY <1>1, <2>2 DEF IInv, TypeOK
    <3> QED
      BY <1>1, <3>1, OthersKept DEF IInv
  <2> QED
    BY <2>1, <2>2
<1>5. WrittenIsTagged' /\ Quiet' /\ TreeOwnsBlocks'
  BY <1>1, <1>2 DEF IInv, WrittenIsTagged, Quiet, TreeOwnsBlocks
<1>6. BlocksAccounted'
  <2>1. live' = 1..nblks'
    <3>1. live = 1..nblks /\ nblks \in Nat
      BY <1>2 DEF IInv, TypeOK, BlocksAccounted
    <3>2. 1..(nblks + 1) = 1..nblks \cup {nblks + 1}
      BY <3>1
    <3> QED
      BY <1>1, <3>1, <3>2
  <2> QED
    BY <1>1, <1>2, <2>1 DEF BlocksAccounted
<1>7. TagsCounted' /\ ExitFreesTree'
  BY <1>1, <1>2 DEF TagsCounted, ExitFreesTree
<1> QED
  BY <1>3, <1>4, <1>5, <1>6, <1>7 DEF IInv

LEMMA InsertStep ==
    ASSUME IInv, NEW t \in Tasks, Insert(t)
    PROVE  IInv'
<1> DEFINE p == PageOf(req[t].sector)
           b == nblks + 1
<1>1. /\ pc[t] = "insert"
      /\ tree' = Inserted(p, b)
      /\ live' = live \cup {b} /\ nblks' = b
      /\ blk' = [blk EXCEPT ![t] = b]
      /\ pc' = [pc EXCEPT ![t] = "link"]
      /\ UNCHANGED <<dirty, tsync, linked, req, written, bios, mod, index, cnt,
                     faults, bug>>
  BY DEF Insert
<1>2. mod = "live"
  BY <1>1 DEF IInv, Quiet
<1>3. p \in Pages
  BY <1>1, SectorInDevice DEF IInv
<1>4. b \in Nat /\ b # None /\ nblks \in Nat /\ b \notin live
  BY <1>2, RadixConstants DEF IInv, TypeOK, BlocksAccounted
<1>5. tree' = IF tree[p] = None THEN [tree EXCEPT ![p] = b] ELSE tree
  BY <1>1 DEF Inserted
<1>6. b = nblks + 1
  OBVIOUS
<1> HIDE DEF p, b
<1>7. TypeOK'
  <2>1. Blocks' = Blocks \cup {b}
    BY <1>1, <1>4, <1>6 DEF Blocks
  <2>2. tree' \in [Pages -> Blocks' \cup {None}]
    BY <1>3, <1>5, <2>1 DEF IInv, TypeOK
  <2>3. live' \subseteq Blocks' /\ linked' \subseteq Blocks' /\ nblks' \in Nat
    BY <1>1, <1>4, <2>1 DEF IInv, TypeOK
  <2>4. pc' \in [Tasks -> {"idle", "lookup", "insert", "link", "use"}]
        /\ blk' \in [Tasks -> Blocks' \cup {None}]
    BY <1>1, <2>1 DEF IInv, TypeOK
  <2> QED
    BY <1>1, <2>2, <2>3, <2>4 DEF IInv, TypeOK
<1>8. ASSUME NEW u \in Tasks
      PROVE  RequestOK(u)' /\ RequestKept(u)'
  <2>0. \A q \in Pages : tree[q] # None => tree'[q] # None
    BY <1>4, <1>5 DEF IInv, TypeOK
  <2>1. CASE u = t
    <3>1. pc'[t] = "link" /\ blk'[t] = b
      BY <1>1 DEF IInv, TypeOK
    <3>2. RequestOK(t)'
      BY <1>1, <3>1 DEF IInv, RequestOK
    <3>3. tree'[p] # None
      BY <1>3, <1>4, <1>5 DEF IInv, TypeOK
    <3>4. ASSUME req[t].rw = "write",
                 NEW s \in req[t].first..(req[t].sector - 1)
          PROVE  PageOf(s) \in dirty \cap tsync /\ tree'[PageOf(s)] # None
      <4>1. PageOf(s) \in dirty \cap tsync /\ tree[PageOf(s)] # None
        BY <1>1, <3>4 DEF IInv, RequestKept
      <4> QED
        BY <2>0, <4>1 DEF IInv, TypeOK
    <3>5. RequestKept(t)'
      BY <1>1, <1>4, <3>1, <3>3, <3>4 DEF RequestKept, p
    <3> QED
      BY <2>1, <3>2, <3>5
  <2>2. CASE u # t
    <3>1. pc'[u] = pc[u] /\ req'[u] = req[u] /\ blk'[u] = blk[u]
      BY <1>1, <2>2 DEF IInv, TypeOK
    <3> QED
      BY <1>1, <2>0, <3>1, OthersKept DEF IInv
  <2> QED
    BY <2>1, <2>2
<1>9. WrittenIsTagged'
  BY <1>1, <1>2, <1>4, <1>5 DEF IInv, WrittenIsTagged, TypeOK
<1>10. TreeOwnsBlocks'
  <2>1. \A q \in Pages : tree'[q] = tree[q] \/ (q = p /\ tree'[q] = b)
    BY <1>3, <1>5 DEF IInv, TypeOK
  <2>2. \A q \in Pages : tree[q] # b
    BY <1>4 DEF IInv, TreeOwnsBlocks
  <2> QED
    BY <1>1, <2>1, <2>2 DEF IInv, TreeOwnsBlocks
<1>11. BlocksAccounted'
  BY <1>1, <1>2, <1>4, <1>6 DEF IInv, BlocksAccounted
<1>12. Quiet' /\ TagsCounted' /\ ExitFreesTree'
  BY <1>1, <1>2 DEF Quiet, TagsCounted, ExitFreesTree
<1> QED
  BY <1>7, <1>8, <1>9, <1>10, <1>11, <1>12 DEF IInv

LEMMA LinkStep ==
    ASSUME IInv, NEW t \in Tasks, Link(t)
    PROVE  IInv'
<1>1. /\ pc[t] = "link" /\ linked' = linked \cup {blk[t]}
      /\ pc' = [pc EXCEPT ![t] = "use"]
      /\ UNCHANGED <<tree, dirty, tsync, live, nblks, blk, req, written, bios,
                     mod, index, cnt, faults, bug>>
  BY DEF Link
<1>2. mod = "live"
  BY <1>1 DEF IInv, Quiet
<1>3. blk[t] \in Blocks
  BY <1>1 DEF IInv, TypeOK, RequestKept
<1>4. TypeOK'
  BY <1>1, <1>3 DEF IInv, TypeOK, Blocks
<1>5. ASSUME NEW u \in Tasks
      PROVE  RequestOK(u)' /\ RequestKept(u)'
  <2>1. CASE u = t
    <3>1. pc'[t] = "use"
      BY <1>1 DEF IInv, TypeOK
    <3> QED
      BY <1>1, <2>1, <3>1 DEF IInv, RequestOK, RequestKept
  <2>2. CASE u # t
    <3>1. pc'[u] = pc[u] /\ req'[u] = req[u] /\ blk'[u] = blk[u]
      BY <1>1, <2>2 DEF IInv, TypeOK
    <3> QED
      BY <1>1, <3>1, OthersKept DEF IInv
  <2> QED
    BY <2>1, <2>2
<1>6. WrittenIsTagged' /\ Quiet' /\ TreeOwnsBlocks'
  BY <1>1, <1>2 DEF IInv, WrittenIsTagged, Quiet, TreeOwnsBlocks
<1>7. BlocksAccounted' /\ TagsCounted' /\ ExitFreesTree'
  BY <1>1, <1>2 DEF IInv, BlocksAccounted, TagsCounted, ExitFreesTree
<1> QED
  BY <1>4, <1>5, <1>6, <1>7 DEF IInv

LEMMA UseStep ==
    ASSUME IInv, NEW t \in Tasks, Use(t)
    PROVE  IInv'
<1> DEFINE r == req[t]
           p == PageOf(r.sector)
           write == r.rw = "write"
<1>1. /\ pc[t] = "use"
      /\ dirty' = IF write THEN dirty \cup {p} ELSE dirty
      /\ tsync' = IF write THEN tsync \cup {p} ELSE tsync
      /\ req' = [req EXCEPT ![t] = NextPart(r)]
      /\ pc' = [pc EXCEPT ![t] = IF r.nr > 1 THEN "lookup" ELSE "idle"]
      /\ written' = IF write /\ r.nr = 1
                    THEN written \cup r.first..(r.first + r.len - 1)
                    ELSE written
      /\ UNCHANGED <<tree, live, linked, nblks, blk, bios, mod, index, cnt,
                     faults, bug>>
  BY DEF Use
<1>2. mod = "live"
  BY <1>1 DEF IInv, Quiet
<1>3. p \in Pages /\ tree[p] # None /\ r.sector \in 0..LastSector
  BY <1>1, SectorInDevice DEF IInv, RequestKept
<1>4. /\ r.len \in 1..PageSectors /\ r.copy \in 1..r.len
      /\ r.first + r.len <= LastSector + 1
      /\ \/ /\ r.nr = 2 /\ r.sector = r.first /\ r.copy < r.len
            /\ r.sector + r.copy = PageSectors * (p + 1)
         \/ /\ r.nr = 1 /\ r.sector >= r.first
            /\ r.sector + r.copy = r.first + r.len
      /\ \A s \in r.sector..(r.sector + r.copy - 1) : PageOf(s) = p
  BY <1>1 DEF IInv, RequestOK
<1>5. r \in [rw : {"read", "write"}, first : Nat, len : Nat,
             sector : 0..(LastSector + 1), copy : 0..PageSectors, nr : 0..2]
  BY DEF IInv, TypeOK
<1>6. LastSector \in Nat /\ PageSectors \in Nat \ {0} /\ p \in Nat
  BY <1>3, LastSectorType, RadixConstants, PagesFinite
<1>7. NextPart(r) = [r EXCEPT !.sector = r.sector + r.copy,
                              !.copy = r.len - r.copy, !.nr = r.nr - 1]
  BY DEF NextPart
<1>8. /\ req'[t] = NextPart(r)
      /\ pc'[t] = IF r.nr > 1 THEN "lookup" ELSE "idle"
      /\ \A u \in Tasks \ {t} : pc'[u] = pc[u] /\ req'[u] = req[u]
  BY <1>1 DEF IInv, TypeOK
<1>9. ASSUME write, NEW s \in r.first..(r.sector + r.copy - 1)
      PROVE  PageOf(s) \in dirty' \cap tsync' /\ tree'[PageOf(s)] # None
  <2>1. CASE s < r.sector
    <3>1. s \in r.first..(r.sector - 1)
      BY <1>5, <2>1
    <3>2. PageOf(s) \in dirty \cap tsync /\ tree[PageOf(s)] # None
      BY <1>1, <1>9, <3>1 DEF IInv, RequestKept
    <3> QED
      BY <1>1, <3>2
  <2>2. CASE s >= r.sector
    <3>1. s \in r.sector..(r.sector + r.copy - 1)
      BY <1>5, <2>2
    <3>2. PageOf(s) = p
      BY <1>4, <3>1
    <3> QED
      BY <1>1, <1>3, <1>9, <3>2
  <2> QED
    BY <1>5, <2>1, <2>2
<1>15. /\ r.first \in Nat /\ r.len \in Nat /\ r.sector \in Nat
       /\ r.copy \in Nat /\ r.nr \in Nat
  BY <1>5, <1>6
<1>16. write => \A s \in r.first..(r.sector + r.copy - 1) :
                    PageOf(s) \in dirty' \cap tsync' /\ tree'[PageOf(s)] # None
  BY <1>9
<1> HIDE DEF r, p, write
<1>10. TypeOK'
  <2>1. NextPart(r) \in [rw : {"read", "write"}, first : Nat, len : Nat,
             sector : 0..(LastSector + 1), copy : 0..PageSectors, nr : 0..2]
    <3>1. r.sector + r.copy \in 0..(LastSector + 1)
      BY <1>4, <1>6, <1>15
    <3>2. r.len - r.copy \in 0..PageSectors /\ r.nr - 1 \in 0..2
      BY <1>4, <1>6, <1>15
    <3> QED
      BY <1>5, <1>7, <3>1, <3>2
  <2>2. written' \subseteq 0..LastSector
    <3>1. r.first..(r.first + r.len - 1) \subseteq 0..LastSector
      BY <1>4, <1>6, <1>15
    <3>2. written \subseteq 0..LastSector
      BY DEF IInv, TypeOK
    <3> QED
      BY <1>1, <3>1, <3>2
  <2> QED
    BY <1>1, <1>3, <2>1, <2>2 DEF IInv, TypeOK, Blocks
<1>11. ASSUME NEW u \in Tasks
       PROVE  RequestOK(u)' /\ RequestKept(u)'
  <2>1. CASE u = t /\ r.nr = 1
    <3>1. pc'[t] = "idle"
      BY <1>8, <2>1
    <3> QED
      BY <2>1, <3>1 DEF RequestOK, RequestKept
  <2>2. CASE u = t /\ r.nr = 2
    <3> DEFINE a == r.sector + r.copy
               n == r.len - r.copy
    <3>1. /\ pc'[t] = "lookup"
          /\ req'[t].first = r.first /\ req'[t].len = r.len
          /\ req'[t].sector = a /\ req'[t].copy = n
          /\ req'[t].nr = 1 /\ req'[t].rw = r.rw
      BY <1>5, <1>7, <1>8, <2>2
    <3>2. a \in Nat /\ n \in 1..PageSectors /\ a = PageSectors * (p + 1)
          /\ r.copy + n = r.len /\ a + n = r.first + r.len /\ a >= r.first
      BY <1>4, <1>5, <1>6, <2>2
    <3>3. \A x \in a..(a + n - 1) : PageOf(x) = PageOf(a)
      <4> HIDE DEF a, n
      <4>1. p \in Nat /\ a \in Nat /\ n \in 1..PageSectors /\ a = PageSectors * (p + 1)
        BY <1>6, <3>2
      <4> QED
        BY <4>1, SecondPart, ZenonT(40)
    <3>4. write => \A s \in r.first..(a - 1) :
                        PageOf(s) \in dirty' \cap tsync' /\ tree'[PageOf(s)] # None
      BY <1>16, <1>15 DEF write
    <3> HIDE DEF a, n
    <3>5. RequestOK(t)'
      BY <1>4, <1>5, <1>6, <3>1, <3>2, <3>3 DEF RequestOK
    <3>6. RequestKept(t)'
      BY <3>1, <3>4 DEF RequestKept, write
    <3> QED
      BY <2>2, <3>5, <3>6
  <2>3. CASE u # t
    <3>1. pc'[u] = pc[u] /\ req'[u] = req[u] /\ blk'[u] = blk[u]
      BY <1>1, <1>8, <2>3
    <3>2. dirty \subseteq dirty' /\ tsync \subseteq tsync' /\ tree' = tree
      BY <1>1
    <3> QED
      BY <3>1, <3>2, OthersKept DEF IInv
  <2> QED
    BY <1>4, <2>1, <2>2, <2>3
<1>12. WrittenIsTagged'
  <2> SUFFICES ASSUME NEW s \in written'
               PROVE  PageOf(s) \in dirty' \cap tsync' /\ tree'[PageOf(s)] # None
    BY DEF WrittenIsTagged
  <2>1. CASE s \in written
    <3>1. PageOf(s) \in dirty \cap tsync /\ tree[PageOf(s)] # None
      BY <1>2, <2>1 DEF IInv, WrittenIsTagged
    <3> QED
      BY <1>1, <3>1
  <2>2. CASE s \notin written
    <3>1. write /\ r.nr = 1 /\ s \in r.first..(r.first + r.len - 1)
      BY <1>1, <2>2
    <3>2. s \in r.first..(r.sector + r.copy - 1)
      BY <1>4, <1>15, <3>1
    <3> QED
      BY <1>9, <3>1, <3>2
  <2> QED
    BY <2>1, <2>2
<1>13. Quiet' /\ TreeOwnsBlocks'
  BY <1>1, <1>2 DEF IInv, Quiet, TreeOwnsBlocks
<1>14. BlocksAccounted' /\ TagsCounted' /\ ExitFreesTree'
  BY <1>1, <1>2 DEF IInv, BlocksAccounted, TagsCounted, ExitFreesTree
<1> QED
  BY <1>10, <1>11, <1>12, <1>13, <1>14 DEF IInv

-----------------------------------------------------------------------------
(* The exit *)

LEMMA NoPageBelow0 ==
    ASSUME NEW S, S \subseteq Pages
    PROVE  {p \in S : p < 0} = {}
<1>1. \A p \in Nat : ~(p < 0)
  OBVIOUS
<1> QED
  BY <1>1, PagesFinite

\* While radix_block_exit runs no request is in the driver.
LEMMA IdleKept ==
    ASSUME NEW t \in Tasks, pc'[t] = "idle"
    PROVE  RequestOK(t)' /\ RequestKept(t)'
BY DEF RequestOK, RequestKept

LEMMA LiveFinite ==
    ASSUME TypeOK
    PROVE  /\ IsFiniteSet(live) /\ Cardinality(live) \in Nat
           /\ live = 1..nblks => Cardinality(live) = nblks
<1>1. nblks \in Nat /\ live \subseteq 1..nblks
  BY DEF TypeOK, Blocks
<1>2. IsFiniteSet(1..nblks) /\ Cardinality(1..nblks) = nblks
  BY <1>1, FS_Interval
<1> QED
  BY <1>1, <1>2, FS_Subset, FS_CardinalityType

LEMMA ExitBeginStep ==
    ASSUME IInv, ExitBegin
    PROVE  IInv'
<1>1. /\ mod = "live" /\ \A t \in Tasks : pc[t] = "idle"
      /\ mod' = "find_dirty" /\ index' = 0 /\ cnt' = 0
      /\ UNCHANGED <<device, tasks, faults, bug>>
  BY DEF ExitBegin
<1> USE DEF device, tasks
<1>2. TypeOK'
  BY <1>1, RadixConstants DEF IInv, TypeOK, Blocks
<1>3. \A t \in Tasks : RequestOK(t)' /\ RequestKept(t)'
  BY <1>1, IdleKept
<1>4. WrittenIsTagged' /\ Quiet' /\ TreeOwnsBlocks' /\ BlocksAccounted' /\ ExitFreesTree'
  BY <1>1 DEF IInv, WrittenIsTagged, Quiet, TreeOwnsBlocks, BlocksAccounted,
              ExitFreesTree
<1>5. TagsCounted'
  <2>1. {p \in dirty : p < 0} = {}
    BY NoPageBelow0 DEF IInv, TypeOK
  <2> QED
    BY <1>1, <2>1, FS_EmptySet DEF TagsCounted
<1> QED
  BY <1>2, <1>3, <1>4, <1>5 DEF IInv

LEMMA FindTaggedStep ==
    ASSUME IInv, FindTagged
    PROVE  IInv'
<1> DEFINE tagged == IF mod = "find_dirty" THEN dirty ELSE tsync
           got == FirstOf(tagged, index, VecSize)
<1>1. /\ mod \in {"find_dirty", "find_tsync"}
      /\ UNCHANGED <<device, tasks, faults, bug>>
      /\ IF index <= NrPages /\ got # {}
         THEN /\ index' = Behind(got) /\ cnt' = cnt + Cardinality(got)
              /\ UNCHANGED mod
         ELSE /\ index' = 0 /\ cnt' = 0
              /\ mod' = IF mod = "find_dirty" THEN "find_tsync" ELSE "free"
  BY DEF FindTagged
<1>2. tagged \subseteq Pages /\ index \in Nat /\ cnt \in Nat
      /\ VecSize \in Nat \ {0} /\ NrPages \in Nat
  BY RadixConstants DEF IInv, TypeOK
<1>3. cnt = Cardinality({p \in tagged : p < index})
  BY <1>1 DEF IInv, TagsCounted
<1>4. mod' \in {"find_dirty", "find_tsync", "free"}
  BY <1>1
<1>5. \A t \in Tasks : RequestOK(t)' /\ RequestKept(t)'
  BY <1>1, IdleKept DEF IInv, Quiet, tasks
<1>6. WrittenIsTagged' /\ Quiet' /\ TreeOwnsBlocks' /\ ExitFreesTree'
  BY <1>1, <1>4 DEF IInv, WrittenIsTagged, Quiet, TreeOwnsBlocks, ExitFreesTree,
                    device, tasks
<1>7. CASE index <= NrPages /\ got # {}
  <2> DEFINE h == Highest(got)
  <2>1. /\ got \subseteq tagged
        /\ h \in got /\ h >= index
        /\ got = {p \in tagged : index <= p /\ p <= h}
    <3> HIDE DEF tagged
    <3> QED
      BY <1>2, <1>7, BatchLemma
  <2> HIDE DEF got
  <2>2. h \in Pages
    BY <1>2, <2>1
  <2>3. index' = h + 1 /\ cnt' = cnt + Cardinality(got) /\ mod' = mod
    BY <1>1, <1>7 DEF Behind
  <2> HIDE DEF h, tagged
  <2>4. Cardinality(got) \in Nat /\ h \in Nat /\ h + 1 \in 0..NrPages
    <3>1. got \subseteq Pages
      BY <1>2, <2>1
    <3> QED
      <4>1. Cardinality(got) \in Nat
        BY <3>1, PagesFinite
      <4>2. h \in Nat /\ h + 1 \in 0..NrPages
        BY <1>2, <2>2 DEF Pages
      <4> QED
        BY <4>1, <4>2
  <2>5. cnt' = Cardinality({p \in tagged : p < index'})
    <3>1. Cardinality(Below(tagged, h + 1))
            = Cardinality(Below(tagged, index)) + Cardinality(Span(tagged, index, h))
      BY <1>2, <2>1, <2>4, CountLemma
    <3>2. got = Span(tagged, index, h)
      BY <2>1 DEF Span
    <3> QED
      BY <1>3, <2>3, <3>1, <3>2 DEF Below
  <2>6. TypeOK'
    BY <1>1, <1>2, <2>3, <2>4 DEF IInv, TypeOK, Blocks, device, tasks
  <2>7. BlocksAccounted'
    BY <1>1, <2>3 DEF IInv, BlocksAccounted, device, tasks
  <2>8. TagsCounted'
    BY <1>1, <2>3, <2>5 DEF TagsCounted, tagged, device
  <2> QED
    BY <1>5, <1>6, <2>6, <2>7, <2>8 DEF IInv
<1>8. CASE ~(index <= NrPages /\ got # {})
  <2> HIDE DEF got, tagged
  <2>1. index' = 0 /\ cnt' = 0
        /\ mod' = IF mod = "find_dirty" THEN "find_tsync" ELSE "free"
    BY <1>1, <1>8
  <2>2. TypeOK'
    BY <1>1, <1>2, <2>1 DEF IInv, TypeOK, Blocks, device, tasks
  <2>3. BlocksAccounted'
    <3>1. live = 1..nblks /\ nblks \in Nat
      BY <1>1 DEF IInv, BlocksAccounted, TypeOK
    <3>2. Cardinality(live) = nblks - 0
      BY <3>1, LiveFinite DEF IInv
    <3>3. \A p \in Pages : ~(p < 0)
      BY PagesFinite
    <3> QED
      BY <1>1, <2>1, <3>1, <3>2, <3>3 DEF BlocksAccounted, device, tasks
  <2>4. TagsCounted'
    <3>1. {p \in tsync : p < 0} = {}
      BY NoPageBelow0 DEF IInv, TypeOK
    <3> QED
      BY <1>1, <2>1, <3>1, FS_EmptySet DEF TagsCounted, device
  <2> QED
    BY <1>5, <1>6, <2>2, <2>3, <2>4 DEF IInv
<1> QED
  BY <1>7, <1>8

BlocksOf(G) == {tree[p] : p \in G}

\* Freeing the blocks of some pages frees as many blocks as pages.
LEMMA FreedBlocks ==
    ASSUME TypeOK, TreeOwnsBlocks, NEW G, G \subseteq Pages,
           \A p \in G : tree[p] # None
    PROVE  /\ Cardinality(live \ BlocksOf(G)) = Cardinality(live) - Cardinality(G)
           /\ \A q \in Pages \ G : tree[q] # None => tree[q] \notin BlocksOf(G)
<1> DEFINE B == {tree[p] : p \in G}
           f == [p \in G |-> tree[p]]
<1>1. IsFiniteSet(G) /\ Cardinality(G) \in Nat
  BY PagesFinite
<1>2. f \in Bijection(G, B)
  <2>1. f \in [G -> B] /\ \A b \in B : \E p \in G : f[p] = b
    OBVIOUS
  <2>2. \A p, q \in G : f[p] = f[q] => p = q
    BY DEF TreeOwnsBlocks
  <2> HIDE DEF f, B
  <2> QED
    BY <2>1, <2>2 DEF Bijection, Injection, Surjection, IsInjective
<1>3. Cardinality(B) = Cardinality(G)
  <2> HIDE DEF f, B
  <2> ExistsBijection(G, B)
    BY <1>2 DEF ExistsBijection
  <2> QED
    BY <1>1, FS_Bijection
<1>4. B \subseteq live
  BY DEF TreeOwnsBlocks
<1>5. \A q \in Pages \ G : tree[q] # None => tree[q] \notin B
  BY DEF TreeOwnsBlocks
<1> HIDE DEF B
<1>6. live \cap B = B
  BY <1>4
<1>7. Cardinality(live \ B) = Cardinality(live) - Cardinality(live \cap B)
  BY LiveFinite, FS_Difference
<1> QED
  BY <1>3, <1>5, <1>6, <1>7 DEF B, BlocksOf

LEMMA FreeBatchStep ==
    ASSUME IInv, FreeBatch
    PROVE  IInv'
<1> DEFINE present == {p \in Pages : tree[p] # None}
           got == FirstOf(present, index, VecSize)
<1>1. /\ mod = "free"
      /\ UNCHANGED <<dirty, tsync, linked, nblks, tasks, faults>>
      /\ IF got = {}
         THEN mod' = "gone" /\ UNCHANGED <<index, cnt, tree, live, bug>>
         ELSE /\ index' = Behind(got) /\ cnt' = cnt + Cardinality(got)
              /\ tree' = [p \in Pages |-> IF p \in got THEN None ELSE tree[p]]
              /\ live' = live \ {tree[p] : p \in got}
              /\ bug' = IF \E p \in got : p < index THEN "gang_order" ELSE bug
              /\ UNCHANGED mod
  BY DEF FreeBatch
<1>2. present \subseteq Pages /\ index \in Nat /\ cnt \in Nat
      /\ VecSize \in Nat \ {0} /\ NrPages \in Nat /\ nblks \in Nat
  BY RadixConstants DEF IInv, TypeOK
<1>3. /\ got \subseteq present
      /\ got = {} => \A p \in present : p < index
      /\ got # {} => /\ Highest(got) \in got /\ Highest(got) >= index
                     /\ got = {p \in present : index <= p /\ p <= Highest(got)}
  <2> HIDE DEF present
  <2> QED
    BY <1>2, BatchLemma
<1>4. /\ Cardinality(live) = nblks - cnt
      /\ \A p \in Pages : p < index => tree[p] = None
  BY <1>1 DEF IInv, BlocksAccounted
<1>5. \A t \in Tasks : pc'[t] = "idle"
  BY <1>1 DEF IInv, Quiet, tasks
<1>6. \A t \in Tasks : RequestOK(t)' /\ RequestKept(t)'
  BY <1>5, IdleKept
<1>7. WrittenIsTagged' /\ Quiet' /\ TagsCounted'
  BY <1>1, <1>5 DEF WrittenIsTagged, Quiet, TagsCounted
<1>8. CASE got = {}
  <2>1. mod' = "gone" /\ UNCHANGED <<index, cnt, tree, live, bug>>
    BY <1>1, <1>8
  <2>2. \A p \in Pages : tree[p] = None
    BY <1>3, <1>4, <1>8
  <2> HIDE DEF got, present
  <2>3. TypeOK'
    BY <1>1, <2>1 DEF IInv, TypeOK, Blocks, tasks
  <2>4. TreeOwnsBlocks' /\ BlocksAccounted' /\ ExitFreesTree'
    BY <1>1, <1>4, <2>1, <2>2 DEF TreeOwnsBlocks, BlocksAccounted, ExitFreesTree
  <2> QED
    BY <1>6, <1>7, <2>3, <2>4 DEF IInv
<1>9. CASE got # {}
  <2> DEFINE h == Highest(got)
             B == BlocksOf(got)
  <2>1. /\ index' = h + 1 /\ cnt' = cnt + Cardinality(got) /\ mod' = mod
        /\ tree' = [p \in Pages |-> IF p \in got THEN None ELSE tree[p]]
        /\ live' = live \ B
        /\ bug' = IF \E p \in got : p < index THEN "gang_order" ELSE bug
    BY <1>1, <1>9 DEF Behind, BlocksOf
  <2>2. h \in got /\ h >= index /\ got \subseteq Pages
        /\ \A p \in Pages : p \in got <=> tree[p] # None /\ index <= p /\ p <= h
    BY <1>2, <1>3, <1>9
  <2> HIDE DEF got, present
  <2>3. /\ Cardinality(live \ B) = Cardinality(live) - Cardinality(got)
        /\ \A q \in Pages \ got : tree[q] # None => tree[q] \notin B
    <3>1. got \subseteq Pages /\ \A p \in got : tree[p] # None
      BY <2>2
    <3>2. TypeOK /\ TreeOwnsBlocks
      BY DEF IInv
    <3> QED
      BY <3>1, <3>2, FreedBlocks
  <2>4. Cardinality(got) \in Nat
    BY <2>2, PagesFinite
  <2> HIDE DEF h, B
  <2>5. h \in Nat /\ h + 1 \in 0..NrPages
    <3>1. h \in Pages
      BY <2>2
    <3> QED
      BY <1>2, <3>1 DEF Pages
  <2>6. TypeOK'
    <3>1. tree' \in [Pages -> Blocks \cup {None}] /\ live' \subseteq Blocks
      BY <2>1 DEF IInv, TypeOK
    <3>2. bug' \in {"none", "null_dev", "null_ddev", "gang_order"}
      BY <2>1 DEF IInv, TypeOK
    <3>3. index' \in 0..NrPages /\ cnt' \in Nat
      BY <1>2, <2>1, <2>4, <2>5
    <3>4. Blocks' = Blocks
      BY <1>1 DEF Blocks
    <3> QED
      BY <1>1, <2>1, <3>1, <3>2, <3>3, <3>4 DEF IInv, TypeOK, tasks
  <2>7. TreeOwnsBlocks'
    <3>1. \A p \in Pages : tree'[p] # None => p \notin got /\ tree'[p] = tree[p]
      BY <2>1
    <3> QED
      BY <2>1, <2>3, <3>1 DEF IInv, TreeOwnsBlocks
  <2>8. BlocksAccounted'
    <3>1. Cardinality(live') = nblks' - cnt'
      BY <1>1, <1>2, <1>4, <2>1, <2>3, <2>4
    <3>2. ASSUME NEW p \in Pages, p < h + 1
          PROVE  tree'[p] = None
      <4>1. p \in Nat
        BY PagesFinite
      <4>2. p \in got \/ tree[p] = None
        BY <1>2, <1>4, <2>2, <2>5, <3>2, <4>1
      <4> QED
        BY <2>1, <4>2
    <3> QED
      BY <1>1, <2>1, <3>1, <3>2 DEF BlocksAccounted
  <2>9. ExitFreesTree'
    BY <1>1, <2>1 DEF ExitFreesTree
  <2> QED
    BY <1>6, <1>7, <2>6, <2>7, <2>8, <2>9 DEF IInv
<1> QED
  BY <1>8, <1>9

-----------------------------------------------------------------------------
(* The theorems *)

LEMMA NextIInv == IInv /\ [Next]_vars => IInv'
<1> SUFFICES ASSUME IInv, [Next]_vars
             PROVE  IInv'
  OBVIOUS
<1>1. CASE InitDone
  <2>1. TypeOK'
    BY <1>1 DEF IInv, TypeOK, Blocks, InitDone, device, tasks
  <2> QED
    BY <1>1, <2>1, ModStep DEF InitDone
<1>8. CASE InitFails
  <2>1. faults' \in 0..MaxFaults
    BY <1>8, RadixConstants DEF IInv, TypeOK, InitFails
  <2>2. TypeOK'
    BY <1>8, <2>1 DEF IInv, TypeOK, Blocks, InitFails, device, tasks
  <2> QED
    BY <1>8, <2>2, ModStep DEF InitFails
<1>2. CASE ExitNoDev \/ \E t \in Tasks : UseUnlinked(t)
  <2>1. TypeOK'
    BY <1>2 DEF IInv, TypeOK, Blocks, ExitNoDev, UseUnlinked, device, tasks
  <2> QED
    BY <1>2, <2>1, ModStep DEF ExitNoDev, UseUnlinked
<1>3. CASE ExitBegin
  BY <1>3, ExitBeginStep
<1>4. CASE ExitStep
  BY <1>4, FindTaggedStep, FreeBatchStep DEF ExitStep
<1>5. ASSUME NEW t \in Tasks, NEW rw \in {"read", "write"}, NEW s \in 0..LastSector,
             NEW len \in 1..PageSectors, Submit(t, rw, s, len)
      PROVE  IInv'
  BY <1>5, SubmitStep
<1>6. ASSUME NEW t \in Tasks, TaskStep(t), ~UseUnlinked(t)
      PROVE  IInv'
  BY <1>6, LookupStep, InsertStep, AllocFailsStep, LinkStep, UseStep DEF TaskStep
<1>7. CASE UNCHANGED vars
  <2>1. TypeOK'
    BY <1>7 DEF IInv, TypeOK, Blocks, vars, device, tasks
  <2> QED
    BY <1>7, <2>1, ModStep DEF vars
<1> QED
  BY <1>1, <1>2, <1>3, <1>4, <1>5, <1>6, <1>7, <1>8 DEF Next

\* The inductive invariant holds in every reachable state.
THEOREM IInvHolds == Spec => []IInv
BY InitIInv, NextIInv, PTL DEF Spec

\* The part of a segment that a turn of the loops of blk_dev_write and
\* blk_dev_read copies lies in one page of the device, and the parts that are
\* left end where the segment ends.
THEOREM PartsInPage == Spec => [](\A t \in Tasks : RequestOK(t))
<1>1. IInv => \A t \in Tasks : RequestOK(t)
  BY DEF IInv
<1> QED
  BY IInvHolds, <1>1, PTL

\* While the device is there, every page that holds a sector of a write that has
\* ended well has a block and carries both tags: for any number of tasks that
\* race for the block of a page in dev_insert_page, and for segments that cross
\* the end of a page.
THEOREM WrittenIsTaggedHolds == Spec => []WrittenIsTagged
<1>1. IInv => WrittenIsTagged
  BY DEF IInv
<1> QED
  BY IInvHolds, <1>1, PTL

\* Each of the two loops of find_tag_blks ends with the number of the tagged
\* blocks, for any number of them and any size of a batch.
THEOREM FindCountsTagsHolds == Spec => []FindCountsTags
<1>1. ASSUME IInv PROVE FindCountsTags
  <2>1. ASSUME NEW S, S \subseteq Pages, FirstOf(S, index, 1) = {}
        PROVE  {p \in S : p < index} = S
    <3>1. index \in Nat /\ 1 \in Nat \ {0}
      BY <1>1, RadixConstants DEF IInv, TypeOK
    <3>2. \A p \in S : p < index
      BY <2>1, <3>1, BatchLemma
    <3> QED
      BY <3>2
  <2>2. dirty \subseteq Pages /\ tsync \subseteq Pages
    BY <1>1 DEF IInv, TypeOK
  <2> QED
    BY <1>1, <2>1, <2>2 DEF IInv, TagsCounted, FindCountsTags
<1> QED
  BY IInvHolds, <1>1, PTL

\* free_all_blks frees every block of the tree once, for any number of blocks and
\* any size of a batch; what it leaves allocated never was in the tree.
THEOREM ExitFreesTreeHolds == Spec => []ExitFreesTree
<1>1. IInv => ExitFreesTree
  BY DEF IInv
<1> QED
  BY IInvHolds, <1>1, PTL

\* A task leaves "link" only with its block linked, and takes a block from the
\* tree only if the block is linked or its inserter is still there.
LEMMA UnlinkedNext ==
  ASSUME IInv, UnlinkedHasOwner, [Next]_vars
  PROVE  UnlinkedHasOwner'
<1> USE DEF UnlinkedHasOwner
<1>0. pc \in [Tasks -> {"idle", "lookup", "insert", "link", "use"}]
      /\ blk \in [Tasks -> Blocks \cup {None}]
      /\ tree \in [Pages -> Blocks \cup {None}]
  BY DEF IInv, TypeOK
<1>1. ASSUME UNCHANGED <<tree, linked, pc, blk>>
      PROVE  UnlinkedHasOwner'
  BY <1>1
<1>2. ASSUME NEW t \in Tasks, NEW rw \in {"read", "write"}, NEW s \in 0..LastSector,
             NEW len \in 1..PageSectors, Submit(t, rw, s, len)
      PROVE  UnlinkedHasOwner'
  BY <1>0, <1>2 DEF Submit, device
<1>3. ASSUME NEW t \in Tasks, Lookup(t)
      PROVE  UnlinkedHasOwner'
  <2>1. CASE mod # "live"
    BY <1>3, <2>1, <1>1 DEF Lookup, device
  <2>2. CASE mod = "live"
    <3> DEFINE q == PageOf(req[t].sector)
    <3>1. q \in Pages
      BY <1>3, SectorInDevice DEF IInv, Lookup
    <3> HIDE DEF q
    <3>2. /\ pc[t] = "lookup" /\ UNCHANGED <<tree, linked>>
          /\ pc' = [pc EXCEPT ![t] = IF tree[q] = None THEN "insert" ELSE "use"]
          /\ blk' = [blk EXCEPT ![t] = tree[q]]
      BY <1>3, <2>2 DEF Lookup, device, q
    <3>3. \A u \in Tasks : pc[u] = "link" => pc'[u] = "link" /\ blk'[u] = blk[u]
      BY <1>0, <3>2
    <3>4. pc'[t] = "use" => blk'[t] = tree[q] /\ tree[q] # None
      BY <1>0, <3>2
    <3>5. \A u \in Tasks \ {t} : pc'[u] = pc[u] /\ blk'[u] = blk[u]
      BY <1>0, <3>2
    <3> QED
      BY <3>1, <3>2, <3>3, <3>4, <3>5
  <2> QED
    BY <2>1, <2>2
<1>4. ASSUME NEW t \in Tasks, AllocFails(t)
      PROVE  UnlinkedHasOwner'
  BY <1>0, <1>4 DEF AllocFails
<1>5. ASSUME NEW t \in Tasks, Insert(t)
      PROVE  UnlinkedHasOwner'
  <2>1. /\ pc[t] = "insert" /\ pc' = [pc EXCEPT ![t] = "link"]
        /\ blk' = [blk EXCEPT ![t] = nblks + 1] /\ linked' = linked
        /\ tree' = Inserted(PageOf(req[t].sector), nblks + 1)
    BY <1>5 DEF Insert
  <2>2. \A p \in Pages : tree'[p] = tree[p] \/ tree'[p] = nblks + 1
    BY <1>0, <2>1 DEF Inserted
  <2>3. pc'[t] = "link" /\ blk'[t] = nblks + 1
    BY <1>0, <2>1
  <2>4. \A u \in Tasks : u # t => pc'[u] = pc[u] /\ blk'[u] = blk[u]
    BY <1>0, <2>1
  <2> QED
    BY <2>1, <2>2, <2>3, <2>4
<1>6. ASSUME NEW t \in Tasks, Link(t)
      PROVE  UnlinkedHasOwner'
  BY <1>0, <1>6 DEF Link
<1>7. ASSUME NEW t \in Tasks, Use(t)
      PROVE  UnlinkedHasOwner'
  BY <1>0, <1>7 DEF Use
<1>8. CASE FreeBatch
  <2>1. UNCHANGED <<linked, pc, blk>> /\ \A p \in Pages : tree'[p] \in {None, tree[p]}
    BY <1>0, <1>8 DEF FreeBatch, tasks
  <2> QED
    BY <2>1
<1> QED
  BY <1>1, <1>2, <1>3, <1>4, <1>5, <1>6, <1>7, <1>8
     DEF Next, vars, device, tasks, InitDone, InitFails, ExitBegin, ExitNoDev,
         ExitStep, FindTagged, TaskStep, UseUnlinked

\* For any number of tasks, a block without its ddev is met only while the task
\* that inserted it has not yet come to the assignment.
THEOREM UnlinkedHasOwnerHolds == Spec => []UnlinkedHasOwner
<1>1. Init => UnlinkedHasOwner
  BY DEF Init, UnlinkedHasOwner
<1>2. IInv /\ UnlinkedHasOwner /\ [Next]_vars => UnlinkedHasOwner'
  BY UnlinkedNext
<1> QED
  BY <1>1, <1>2, IInvHolds, PTL DEF Spec
=============================================================================
