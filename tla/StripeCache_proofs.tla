------------------------- MODULE StripeCache_proofs -------------------------
(***************************************************************************)
(* Proofs that the stripe cache keeps its inductive invariant for any      *)
(* number of threads, stripes, sectors and disks.                          *)
(***************************************************************************)
EXTENDS StripeCache, FiniteSetTheorems, TLAPS

-----------------------------------------------------------------------------
(***************************************************************************)
(* Lists                                                                   *)
(***************************************************************************)

\* list_add_tail of a stripe that is not on the list adds just that stripe.
LEMMA AppendLemma ==
    ASSUME NEW S, NEW q \in Seq(S), NEW s \in S
    PROVE  /\ Append(q, s) \in Seq(S)
           /\ Append(q, s) # << >>
           /\ Elems(Append(q, s)) = Elems(q) \cup {s}
           /\ NoDuplicates(q) /\ s \notin Elems(q) =>
                NoDuplicates(Append(q, s))
<1> DEFINE r == Append(q, s)
<1>1. /\ r \in Seq(S)
      /\ Len(r) = Len(q) + 1
      /\ Len(q) \in Nat
      /\ DOMAIN q = 1..Len(q)
      /\ DOMAIN r = 1..(Len(q) + 1)
      /\ \A i \in 1..Len(q) : r[i] = q[i]
      /\ r[Len(q) + 1] = s
    OBVIOUS
<1>2. Elems(r) = Elems(q) \cup {s}
    BY <1>1 DEF Elems
<1>3. ASSUME NoDuplicates(q), s \notin Elems(q)
      PROVE  NoDuplicates(r)
    BY <1>1, <1>3 DEF Elems, NoDuplicates
<1> QED BY <1>1, <1>2, <1>3

\* Taking the first stripe off a list without duplicates removes just that
\* stripe.
LEMMA TailLemma ==
    ASSUME NEW S, NEW q \in Seq(S), q # << >>, NoDuplicates(q)
    PROVE  /\ Head(q) \in S
           /\ Head(q) \in Elems(q)
           /\ Tail(q) \in Seq(S)
           /\ Elems(Tail(q)) = Elems(q) \ {Head(q)}
           /\ NoDuplicates(Tail(q))
<1> DEFINE r == Tail(q)
<1>1. /\ r \in Seq(S)
      /\ Len(q) \in Nat \ {0}
      /\ DOMAIN q = 1..Len(q)
      /\ DOMAIN r = 1..(Len(q) - 1)
      /\ \A i \in 1..(Len(q) - 1) : r[i] = q[i + 1]
      /\ Head(q) = q[1]
    OBVIOUS
<1>2. Head(q) \in S /\ Head(q) \in Elems(q)
    BY <1>1 DEF Elems
<1>3. Elems(r) \subseteq Elems(q) \ {Head(q)}
    BY <1>1 DEF Elems, NoDuplicates
<1>4. ASSUME NEW x \in Elems(q) \ {Head(q)}
      PROVE  x \in Elems(r)
    <2>1. PICK i \in 1..Len(q) : x = q[i] BY <1>1 DEF Elems
    <2>2. i # 1 BY <1>1, <2>1
    <2>3. i - 1 \in DOMAIN r /\ r[i - 1] = x BY <1>1, <2>1, <2>2
    <2> QED BY <2>3 DEF Elems
<1>5. NoDuplicates(r)
    <2> SUFFICES ASSUME NEW i \in DOMAIN r, NEW j \in DOMAIN r, r[i] = r[j]
                 PROVE  i = j
        BY DEF NoDuplicates
    <2>1. i + 1 \in DOMAIN q /\ j + 1 \in DOMAIN q /\ q[i + 1] = q[j + 1]
        BY <1>1
    <2> QED BY <1>1, <2>1 DEF NoDuplicates
<1> QED BY <1>1, <1>2, <1>3, <1>4, <1>5

\* list_del removes just the stripe it is given.
LEMMA ListDelLemma ==
    ASSUME NEW S, NEW q \in Seq(S), NEW s, NoDuplicates(q)
    PROVE  /\ ListDel(q, s) \in Seq(S)
           /\ Elems(ListDel(q, s)) = Elems(q) \ {s}
           /\ NoDuplicates(ListDel(q, s))
<1>1. CASE s \notin Elems(q)
    BY <1>1 DEF ListDel
<1>2. CASE s \in Elems(q)
    <2> DEFINE k == CHOOSE i \in DOMAIN q : q[i] = s
               r == [j \in 1..(Len(q) - 1) |->
                        IF j < k THEN q[j] ELSE q[j + 1]]
    <2>1. k \in DOMAIN q /\ q[k] = s
        BY <1>2 DEF Elems
    <2>2. ListDel(q, s) = r
        BY <1>2 DEF ListDel
    <2> HIDE DEF k
    <2>3. /\ Len(q) \in Nat \ {0}
          /\ DOMAIN q = 1..Len(q)
          /\ k \in 1..Len(q)
          /\ \A i \in 1..Len(q) : q[i] \in S
        BY <2>1
    <2>4. /\ r \in Seq(S)
          /\ DOMAIN r = 1..(Len(q) - 1)
          /\ \A j \in 1..(Len(q) - 1) :
                r[j] = IF j < k THEN q[j] ELSE q[j + 1]
        BY <2>3
    <2> HIDE DEF r
    <2>5. Elems(r) \subseteq Elems(q) \ {s}
        <3> SUFFICES ASSUME NEW j \in DOMAIN r
                     PROVE  r[j] \in Elems(q) /\ r[j] # s
            BY DEF Elems
        <3>1. CASE j < k
            BY <2>1, <2>3, <2>4, <3>1 DEF Elems, NoDuplicates
        <3>2. CASE ~(j < k)
            <4>1. j + 1 \in DOMAIN q /\ j + 1 # k /\ r[j] = q[j + 1]
                BY <2>3, <2>4, <3>2
            <4> QED BY <2>1, <2>3, <4>1 DEF Elems, NoDuplicates
        <3> QED BY <3>1, <3>2
    <2>6. ASSUME NEW x \in Elems(q) \ {s}
          PROVE  x \in Elems(r)
        <3>1. PICK i \in 1..Len(q) : x = q[i] BY <2>3 DEF Elems
        <3>2. i # k BY <2>1, <3>1
        <3>3. CASE i < k
            <4>1. i \in DOMAIN r /\ r[i] = x BY <2>3, <2>4, <3>1, <3>3
            <4> QED BY <4>1 DEF Elems
        <3>4. CASE i > k
            <4>1. i - 1 \in DOMAIN r /\ ~(i - 1 < k) /\ (i - 1) + 1 = i
                BY <2>3, <2>4, <3>1, <3>4
            <4>2. r[i - 1] = x
                BY <2>4, <3>1, <4>1
            <4> QED BY <4>1, <4>2 DEF Elems
        <3> QED BY <2>3, <3>2, <3>3, <3>4
    <2>7. NoDuplicates(r)
        <3> SUFFICES ASSUME NEW i \in DOMAIN r, NEW j \in DOMAIN r,
                            r[i] = r[j]
                     PROVE  i = j
            BY DEF NoDuplicates
        <3> DEFINE up(x) == IF x < k THEN x ELSE x + 1
        <3>1. /\ up(i) \in DOMAIN q /\ up(j) \in DOMAIN q
              /\ r[i] = q[up(i)] /\ r[j] = q[up(j)]
            BY <2>3, <2>4
        <3>2. up(i) = up(j)
            BY <3>1 DEF NoDuplicates
        <3> QED BY <2>3, <2>4, <3>2
    <2> QED BY <2>2, <2>4, <2>5, <2>6, <2>7
<1> QED BY <1>1, <1>2

-----------------------------------------------------------------------------
(***************************************************************************)
(* Owners of references                                                    *)
(***************************************************************************)

\* The sets of owners are finite, so that counting them makes sense.
LEMMA FiniteOwners ==
    ASSUME NEW s \in Stripes
    PROVE  /\ IsFiniteSet(Holders(s)) /\ Cardinality(Holders(s)) \in Nat
           /\ IsFiniteSet(Queued(s)) /\ Cardinality(Queued(s)) \in Nat
           /\ IsFiniteSet(InFlight(s)) /\ Cardinality(InFlight(s)) \in Nat
<1>1. IsFiniteSet(Actors)
    BY ConstantsAssumption, FS_AddElement DEF Actors
<1>2. IsFiniteSet(Disks)
    BY ConstantsAssumption, FS_Interval DEF Disks
<1>3. IsFiniteSet(1..MaxIo)
    BY ConstantsAssumption, FS_Interval
<1>4. IsFiniteSet(Threads \X Disks)
    BY <1>2, ConstantsAssumption, FS_Product
<1>5. IsFiniteSet(Disks \X (1..MaxIo))
    BY <1>2, <1>3, FS_Product
<1>6. IsFiniteSet(Holders(s))
    BY <1>1, FS_Subset DEF Holders
<1>7. IsFiniteSet(Queued(s))
    BY <1>4, FS_Subset DEF Queued
<1>8. IsFiniteSet(InFlight(s))
    BY <1>5, FS_Subset DEF InFlight
<1> QED BY <1>6, <1>7, <1>8, FS_CardinalityType

\* An actor takes a reference: one holder more.
LEMMA HoldersAdd ==
    ASSUME TypeOK, NEW a \in Actors, NEW s \in Stripes, NEW p \in HoldingPcs,
           pc[a] \notin HoldingPcs,
           sh' = [sh EXCEPT ![a] = s], pc' = [pc EXCEPT ![a] = p]
    PROVE  /\ Cardinality(Holders(s)') = Cardinality(Holders(s)) + 1
           /\ \A x \in Stripes \ {s} : Holders(x)' = Holders(x)
<1>1. a \notin Holders(s) /\ Holders(s)' = Holders(s) \cup {a}
    BY DEF TypeOK, Holders
<1>2. \A x \in Stripes \ {s} : Holders(x)' = Holders(x)
    BY DEF TypeOK, Holders
<1> QED BY <1>1, <1>2, FiniteOwners, FS_AddElement

\* An actor drops its reference: one holder less.
LEMMA HoldersDrop ==
    ASSUME TypeOK, NEW a \in Actors, NEW s \in Stripes, NEW p,
           pc[a] \in HoldingPcs, p \notin HoldingPcs, sh[a] = s,
           sh' = sh, pc' = [pc EXCEPT ![a] = p]
    PROVE  /\ Cardinality(Holders(s)) > 0
           /\ Cardinality(Holders(s)') = Cardinality(Holders(s)) - 1
           /\ \A x \in Stripes \ {s} : Holders(x)' = Holders(x)
<1>1. a \in Holders(s) /\ Holders(s)' = Holders(s) \ {a}
    BY DEF TypeOK, Holders
<1>2. \A x \in Stripes \ {s} : Holders(x)' = Holders(x)
    BY DEF TypeOK, Holders
<1>3. Cardinality(Holders(s)') = Cardinality(Holders(s)) - 1
    BY <1>1, FiniteOwners, FS_RemoveElement
<1>4. Cardinality(Holders(s)) # 0
    BY <1>1, FiniteOwners, FS_EmptySet
<1> QED BY <1>1, <1>2, <1>3, <1>4, FiniteOwners

\* An actor moves without taking or dropping a reference.
LEMMA HoldersKeep ==
    ASSUME TypeOK, NEW a \in Actors, NEW p,
           pc[a] \in HoldingPcs <=> p \in HoldingPcs,
           sh' = sh, pc' = [pc EXCEPT ![a] = p]
    PROVE  \A x \in Stripes : Holders(x)' = Holders(x)
BY DEF TypeOK, Holders

\* A request reaches a disk: one request in flight more.
LEMMA InFlightAdd ==
    ASSUME TypeOK, NEW s \in Stripes, NEW d \in Disks, issued[s][d] < MaxIo,
           issued' = [issued EXCEPT ![s][d] = @ + 1]
    PROVE  /\ Cardinality(InFlight(s)') = Cardinality(InFlight(s)) + 1
           /\ \A x \in Stripes \ {s} : InFlight(x)' = InFlight(x)
<1> DEFINE f == <<d, issued[s][d] + 1>>
<1>1. /\ issued \in [Stripes -> [Disks -> 0..MaxIo]]
      /\ MaxIo \in Nat
      /\ issued[s][d] \in 0..MaxIo
      /\ issued'[s][d] = issued[s][d] + 1
      /\ \A e \in Disks \ {d} : issued'[s][e] = issued[s][e]
      /\ \A x \in Stripes \ {s} : issued'[x] = issued[x]
    BY ConstantsAssumption DEF TypeOK
<1>2. f \notin InFlight(s)
    BY <1>1 DEF InFlight
<1>3. InFlight(s)' = InFlight(s) \cup {f}
    <2>1. ASSUME NEW g \in InFlight(s)' PROVE g \in InFlight(s) \cup {f}
        <3>1. PICK e \in Disks, k \in 1..MaxIo : g = <<e, k>>
            BY DEF InFlight
        <3>2. k <= issued'[s][e]
            BY <3>1 DEF InFlight
        <3>3. CASE e = d /\ k = issued[s][d] + 1
            BY <3>1, <3>3
        <3>4. CASE ~(e = d /\ k = issued[s][d] + 1)
            <4>1. k <= issued[s][e]
                BY <1>1, <3>2, <3>4
            <4> QED BY <3>1, <4>1 DEF InFlight
        <3> QED BY <3>3, <3>4
    <2>2. ASSUME NEW g \in InFlight(s) PROVE g \in InFlight(s)'
        <3>1. PICK e \in Disks, k \in 1..MaxIo : g = <<e, k>>
            BY DEF InFlight
        <3>2. k <= issued[s][e]
            BY <3>1 DEF InFlight
        <3>3. k <= issued'[s][e]
            BY <1>1, <3>2
        <3> QED BY <3>1, <3>3 DEF InFlight
    <2>3. f \in InFlight(s)'
        BY <1>1 DEF InFlight
    <2> QED BY <2>1, <2>2, <2>3
<1>4. \A x \in Stripes \ {s} : InFlight(x)' = InFlight(x)
    BY <1>1 DEF InFlight
<1>5. IsFiniteSet(InFlight(s))
    BY FiniteOwners
<1> HIDE DEF f
<1>6. Cardinality(InFlight(s)') = Cardinality(InFlight(s)) + 1
    BY <1>2, <1>3, <1>5, FS_AddElement
<1> QED BY <1>4, <1>6

\* A disk ends a request: one request in flight less.
LEMMA InFlightDrop ==
    ASSUME TypeOK, NEW s \in Stripes, NEW d \in Disks, issued[s][d] > 0,
           issued' = [issued EXCEPT ![s][d] = @ - 1]
    PROVE  /\ Cardinality(InFlight(s)) > 0
           /\ Cardinality(InFlight(s)') = Cardinality(InFlight(s)) - 1
           /\ \A x \in Stripes \ {s} : InFlight(x)' = InFlight(x)
           /\ Cardinality(InFlight(s)) \in Nat
<1> DEFINE f == <<d, issued[s][d]>>
<1>1. /\ issued \in [Stripes -> [Disks -> 0..MaxIo]]
      /\ MaxIo \in Nat
      /\ issued[s][d] \in 0..MaxIo
      /\ issued'[s][d] = issued[s][d] - 1
      /\ \A e \in Disks \ {d} : issued'[s][e] = issued[s][e]
      /\ \A x \in Stripes \ {s} : issued'[x] = issued[x]
    BY ConstantsAssumption DEF TypeOK
<1>2. f \in InFlight(s)
    BY <1>1 DEF InFlight
<1>3. InFlight(s)' = InFlight(s) \ {f}
    <2>1. ASSUME NEW g \in InFlight(s)' PROVE g \in InFlight(s) \ {f}
        <3>1. PICK e \in Disks, k \in 1..MaxIo : g = <<e, k>>
            BY DEF InFlight
        <3>2. k <= issued'[s][e]
            BY <3>1 DEF InFlight
        <3>3. k <= issued[s][e] /\ (e = d => k # issued[s][d])
            BY <1>1, <3>2
        <3> QED BY <3>1, <3>3 DEF InFlight
    <2>2. ASSUME NEW g \in InFlight(s) \ {f} PROVE g \in InFlight(s)'
        <3>1. PICK e \in Disks, k \in 1..MaxIo : g = <<e, k>>
            BY DEF InFlight
        <3>2. k <= issued[s][e] /\ (e = d => k # issued[s][d])
            BY <3>1 DEF InFlight
        <3>3. k <= issued'[s][e]
            BY <1>1, <3>2
        <3> QED BY <3>1, <3>3 DEF InFlight
    <2> QED BY <2>1, <2>2
<1>4. \A x \in Stripes \ {s} : InFlight(x)' = InFlight(x)
    BY <1>1 DEF InFlight
<1>5. Cardinality(InFlight(s)) # 0
    BY <1>2, FiniteOwners, FS_EmptySet
<1>6. IsFiniteSet(InFlight(s)) /\ Cardinality(InFlight(s)) \in Nat
    BY FiniteOwners
<1> HIDE DEF f
<1>7. Cardinality(InFlight(s)') = Cardinality(InFlight(s)) - 1
    BY <1>2, <1>3, <1>6, FS_RemoveElement
<1> QED BY <1>4, <1>5, <1>6, <1>7

\* A thread queues a request that it has not queued yet.
LEMMA QueuedAdd ==
    ASSUME TypeOK, NEW t \in Threads, NEW s \in Stripes, NEW d \in Disks,
           d \notin bioList[t],
           sh[t] = s,
           sh' = sh, bioList' = [bioList EXCEPT ![t] = @ \cup {d}]
    PROVE  /\ Cardinality(Queued(s)') = Cardinality(Queued(s)) + 1
           /\ \A x \in Stripes \ {s} : Queued(x)' = Queued(x)
<1> DEFINE f == <<t, d>>
<1>1. /\ bioList \in [Threads -> SUBSET Disks]
      /\ bioList'[t] = bioList[t] \cup {d}
      /\ \A u \in Threads \ {t} : bioList'[u] = bioList[u]
    BY DEF TypeOK
<1>2. f \notin Queued(s)
    BY DEF Queued
<1>3. Queued(s)' = Queued(s) \cup {f}
    BY <1>1 DEF Queued
<1>4. \A x \in Stripes \ {s} : Queued(x)' = Queued(x)
    BY <1>1 DEF Queued
<1> QED BY <1>2, <1>3, <1>4, FiniteOwners, FS_AddElement

\* A queued request leaves the bio_list of its thread.
LEMMA QueuedDrop ==
    ASSUME TypeOK, NEW t \in Threads, NEW s \in Stripes, NEW d \in Disks,
           d \in bioList[t],
           sh[t] = s,
           sh' = sh, bioList' = [bioList EXCEPT ![t] = @ \ {d}]
    PROVE  /\ Cardinality(Queued(s)') = Cardinality(Queued(s)) - 1
           /\ \A x \in Stripes \ {s} : Queued(x)' = Queued(x)
<1> DEFINE f == <<t, d>>
<1>1. /\ bioList \in [Threads -> SUBSET Disks]
      /\ bioList'[t] = bioList[t] \ {d}
      /\ \A u \in Threads \ {t} : bioList'[u] = bioList[u]
    BY DEF TypeOK
<1>2. f \in Queued(s)
    BY DEF Queued
<1>3. Queued(s)' = Queued(s) \ {f}
    BY <1>1 DEF Queued
<1>4. \A x \in Stripes \ {s} : Queued(x)' = Queued(x)
    BY <1>1 DEF Queued
<1>5. IsFiniteSet(Queued(s))
    BY FiniteOwners
<1> HIDE DEF f
<1>6. Cardinality(Queued(s)') = Cardinality(Queued(s)) - 1
    BY <1>2, <1>3, <1>5, FS_RemoveElement
<1> QED BY <1>4, <1>6

\* The queue does not change, and only actors with an empty queue change
\* their stripe.
LEMMA QueuedKeep ==
    ASSUME bioList' = bioList,
           \A t \in Threads : bioList[t] # {} => sh'[t] = sh[t]
    PROVE  \A x \in Stripes : Queued(x)' = Queued(x)
BY DEF Queued

-----------------------------------------------------------------------------
(***************************************************************************)
(* Steps that leave the lists alone                                        *)
(***************************************************************************)

\* A step that changes neither lists, counts, hash nor owners keeps the
\* invariant if it keeps types, control and the wake-ups.
LEMMA LocalStep ==
    ASSUME IInv, TypeOK', Control', NoLostWakeup',
           UNCHANGED <<sector, count, handle, inactive, handleList, active,
                       limbo, issued, bioList, bug>>,
           \A x \in Stripes : Holders(x)' = Holders(x),
           \A t \in Threads : bioList[t] # {} => sh'[t] = sh[t]
    PROVE  IInv'
<1>1. \A x \in Stripes : Queued(x)' = Queued(x)
    BY QueuedKeep
<1>2. \A x \in Stripes : InFlight(x)' = InFlight(x)
    BY DEF InFlight
<1>3. CountIsRefs'
    BY <1>1, <1>2 DEF IInv, CountIsRefs, Refs
<1>4. OneHome' /\ ActiveIsBusy'
    BY DEF IInv, OneHome, ActiveIsBusy, Busy, NoDuplicates, OnLru, Elems
<1>5. HashUnique' /\ HandledIsHashed' /\ ListsByFlag' /\ AssertionsHold'
    BY DEF IInv, HashUnique, HandledIsHashed, ListsByFlag, AssertionsHold,
           Elems
<1> QED BY <1>3, <1>4, <1>5 DEF IInv

\* jmd_make_request enters jraid5_make_request.
LEMMA RequestStep ==
    ASSUME IInv, NEW t \in Threads, Request(t)
    PROVE  IInv'
<1> USE DEF IInv, Request
<1>1. TypeOK'
    BY DEF TypeOK, ThreadPcs, HoldingPcs, DaemonPcs, devVars, lruVars
<1>2. Control'
    BY ConstantsAssumption
    DEF TypeOK, Control, ThreadPcs, HoldingPcs, DaemonPcs, devVars, lruVars,
        Actors
<1>3. \A x \in Stripes : Holders(x)' = Holders(x)
    BY HoldersKeep DEF HoldingPcs, Actors
<1>4. NoLostWakeup'
    BY ConstantsAssumption DEF NoLostWakeup, TypeOK, lruVars, Actors
<1> QED BY <1>1, <1>2, <1>3, <1>4, LocalStep DEF lruVars

\* A task goes to sleep for a stripe: the inactive list is empty.
LEMMA GetWaitStep ==
    ASSUME IInv, NEW t \in Threads, GetWait(t)
    PROVE  IInv'
<1> USE DEF IInv, GetWait
<1>1. TypeOK'
    BY DEF TypeOK, ThreadPcs, HoldingPcs, DaemonPcs, devVars, lruVars,
           threadVars
<1>2. Control'
    BY ConstantsAssumption
    DEF TypeOK, Control, ThreadPcs, HoldingPcs, DaemonPcs, lruVars, Actors,
        threadVars
<1>3. \A x \in Stripes : Holders(x)' = Holders(x)
    BY HoldersKeep DEF HoldingPcs, Actors
<1>4. NoLostWakeup'
    BY ConstantsAssumption DEF NoLostWakeup, TypeOK, lruVars, Actors
<1> QED BY <1>1, <1>2, <1>3, <1>4, LocalStep DEF lruVars, threadVars

\* A bio is linked to its device, or refused as overlapping.
LEMMA AddStripeBioStep ==
    ASSUME IInv, NEW t \in Threads, AddStripeBio(t)
    PROVE  IInv'
<1> USE DEF IInv
<1>1. /\ pc[t] = "add" /\ t \in Actors
      /\ pc' = [pc EXCEPT ![t] = "scan"]
      /\ idx' = [idx EXCEPT ![t] = NDisks - 1]
      /\ UNCHANGED <<sector, count, handle, endio, lruVars, asleep, wakeup,
                     issued, sh, threadVars, bug>>
    BY DEF AddStripeBio, Actors
<1>2. sh[t] \in Stripes /\ bio[t] \in Bios /\ bio[t].dd \in Disks
    BY <1>1 DEF Control, HoldingPcs, Bios
<1>3. /\ toread' \in [Stripes -> [Disks -> Threads \cup {None, Stale}]]
      /\ towrite' \in [Stripes -> [Disks -> Threads \cup {None, Stale}]]
      /\ flags' \in [Stripes -> [Disks -> SUBSET Flags]]
    <2>1. CASE LinkBio(t)
        BY <1>2, <2>1 DEF LinkBio, TypeOK
    <2>2. CASE RefuseBio(t)
        BY <1>2, <2>2 DEF RefuseBio, TypeOK, Flags
    <2> QED BY <2>1, <2>2 DEF AddStripeBio
<1>4. NDisks - 1 \in Disks
    BY ConstantsAssumption DEF Disks
<1>5. TypeOK'
    BY <1>1, <1>3, <1>4
    DEF TypeOK, ThreadPcs, HoldingPcs, DaemonPcs, lruVars, threadVars
<1>6. Control'
    BY <1>1, <1>2, <1>4, ConstantsAssumption
    DEF TypeOK, Control, ThreadPcs, HoldingPcs, DaemonPcs, lruVars, Actors,
        threadVars
<1>7. \A x \in Stripes : Holders(x)' = Holders(x)
    BY <1>1, HoldersKeep DEF HoldingPcs
<1>8. NoLostWakeup'
    BY <1>1, ConstantsAssumption DEF NoLostWakeup, TypeOK, lruVars, Actors
<1> QED BY <1>1, <1>5, <1>6, <1>7, <1>8, LocalStep DEF lruVars, threadVars

\* handle_stripe turns the lists of a device into Want bits.
LEMMA ScanDevStep ==
    ASSUME IInv, NEW a \in Actors, ScanDev(a)
    PROVE  IInv'
<1> USE DEF IInv, ScanDev
<1>1. sh[a] \in Stripes /\ idx[a] \in Disks
    BY DEF Control, HoldingPcs
<1>2. flags' \in [Stripes -> [Disks -> SUBSET Flags]]
    BY <1>1 DEF TypeOK, Flags, Wants
<1>3. idx[a] - 1 \in Disks \cup {-1} /\ (idx[a] # 0 => idx[a] - 1 \in Disks)
    BY <1>1, ConstantsAssumption DEF Disks
<1>4. TypeOK'
    BY <1>2, <1>3
    DEF TypeOK, ThreadPcs, HoldingPcs, DaemonPcs, lruVars, threadVars
<1>5. Control'
    BY <1>1, <1>3, ConstantsAssumption
    DEF TypeOK, Control, ThreadPcs, HoldingPcs, DaemonPcs, lruVars, Actors,
        threadVars
<1>6. \A x \in Stripes : Holders(x)' = Holders(x)
    BY HoldersKeep DEF HoldingPcs
<1>7. NoLostWakeup'
    BY ConstantsAssumption DEF NoLostWakeup, TypeOK, lruVars, Actors
<1> QED BY <1>4, <1>5, <1>6, <1>7, LocalStep DEF lruVars, threadVars

\* handle_stripe marks the parity device.
LEMMA MarkParityStep ==
    ASSUME IInv, NEW a \in Actors, MarkParity(a)
    PROVE  IInv'
<1> USE DEF IInv, MarkParity
<1>1. sh[a] \in Stripes /\ sector[sh[a]] # None
    BY DEF Control, HoldingPcs
<1>2. Parity[sector[sh[a]]] \in Disks /\ NDisks - 1 \in Disks
    BY <1>1, ConstantsAssumption DEF TypeOK, Disks
<1>3. flags' \in [Stripes -> [Disks -> SUBSET Flags]]
    BY <1>1, <1>2 DEF TypeOK, Flags
<1>4. TypeOK'
    BY <1>2, <1>3
    DEF TypeOK, ThreadPcs, HoldingPcs, DaemonPcs, lruVars, threadVars
<1>5. Control'
    BY <1>1, <1>2, ConstantsAssumption
    DEF TypeOK, Control, ThreadPcs, HoldingPcs, DaemonPcs, lruVars, Actors,
        threadVars
<1>6. \A x \in Stripes : Holders(x)' = Holders(x)
    BY HoldersKeep DEF HoldingPcs
<1>7. NoLostWakeup'
    BY ConstantsAssumption DEF NoLostWakeup, TypeOK, lruVars, Actors
<1> QED BY <1>4, <1>5, <1>6, <1>7, LocalStep DEF lruVars, threadVars

\* The loop of handle_stripe over the devices keeps types and control.
LEMMA NextDevLemma ==
    ASSUME TypeOK, Control, NEW a \in Actors, pc[a] = "submit", NextDev(a)
    PROVE  /\ sh[a] \in Stripes /\ sector[sh[a]] # None /\ idx[a] \in Disks
           /\ idx' \in [Actors -> Disks \cup {-1}]
           /\ pc' \in [Actors -> ThreadPcs \cup DaemonPcs]
           /\ idx'[a] = idx[a] - 1
           /\ pc'[a] \in {"submit", "release"}
           /\ pc'[a] = "submit" => idx'[a] \in Disks
           /\ \A b \in Actors \ {a} : pc'[b] = pc[b] /\ idx'[b] = idx[b]
           /\ pc' = [pc EXCEPT ![a] = pc'[a]]
<1>1. sh[a] \in Stripes /\ sector[sh[a]] # None /\ idx[a] \in Disks
    BY DEF Control, HoldingPcs
<1>2. idx[a] - 1 \in Disks \cup {-1} /\ (idx[a] # 0 => idx[a] - 1 \in Disks)
    BY <1>1, ConstantsAssumption DEF Disks
<1> QED BY <1>1, <1>2
        DEF NextDev, TypeOK, ThreadPcs, DaemonPcs, HoldingPcs

LEMMA NextDevControl ==
    ASSUME TypeOK, Control, NEW a \in Actors, pc[a] = "submit", NextDev(a),
           UNCHANGED <<sector, sh, bio>>,
           \A t \in Threads :
                \/ bioList'[t] = bioList[t]
                \/ t = a /\ bioList'[t] = bioList[t] \cup {idx[t]}
    PROVE  Control'
<1> USE NextDevLemma, ConstantsAssumption
<1>1. pc'[jraid5d] \in DaemonPcs /\ \A t \in Threads : pc'[t] \in ThreadPcs
    BY DEF Control, ThreadPcs, DaemonPcs, HoldingPcs, Actors
<1>2. \A b \in Actors : /\ pc'[b] \in HoldingPcs =>
                             sh'[b] \in Stripes /\ sector'[sh'[b]] # None
                        /\ pc'[b] \in {"scan", "submit"} => idx'[b] \in Disks
    BY DEF Control, HoldingPcs
<1>3. ASSUME NEW t \in Threads
      PROVE  /\ pc'[t] \in HoldingPcs \cup {"get", "wait", "endio"} =>
                    bio'[t] \in Bios
             /\ pc'[t] \in {"endio", "drain"} => sh'[t] \in Stripes
             /\ bioList'[t] # {} =>
                    pc'[t] \in {"submit", "release", "endio", "drain"}
    BY DEF Control, HoldingPcs, Actors
<1>4. ASSUME NEW t \in Threads, pc'[t] = "submit", NEW d \in bioList'[t]
      PROVE  d > idx'[t]
    <2>1. CASE t = a
        <3>1. d > idx[a] \/ d = idx[a]
            BY <1>4, <2>1 DEF Control
        <3>2. idx[a] \in Disks /\ idx'[a] = idx[a] - 1
            OBVIOUS
        <3>3. bioList[a] \subseteq Disks
            BY <2>1 DEF TypeOK
        <3>4. d \in Disks
            BY <1>4, <2>1, <3>2, <3>3
        <3> QED BY <2>1, <3>1, <3>2, <3>4 DEF Disks
    <2>2. CASE t # a
        BY <1>4, <2>2 DEF Control, Actors
    <2> QED BY <2>1, <2>2
<1> QED BY <1>1, <1>2, <1>3, <1>4 DEF Control

\* A device with no Want bit is skipped.
LEMMA SkipDevStep ==
    ASSUME IInv, NEW a \in Actors, SkipDev(a)
    PROVE  IInv'
<1> USE DEF IInv
<1>1. /\ pc[a] = "submit" /\ NextDev(a)
      /\ UNCHANGED <<sector, count, handle, devVars, lruVars, asleep, wakeup,
                     issued, sh, threadVars, bug>>
    BY DEF SkipDev
<1>2. TypeOK'
    BY <1>1, NextDevLemma DEF TypeOK, lruVars, threadVars, devVars
<1>3. Control'
    BY <1>1, NextDevControl DEF threadVars
<1>4. \A x \in Stripes : Holders(x)' = Holders(x)
    BY <1>1, NextDevLemma, HoldersKeep DEF HoldingPcs
<1>5. NoLostWakeup'
    BY <1>1, NextDevLemma, ConstantsAssumption
    DEF NoLostWakeup, TypeOK, lruVars, Actors
<1> QED BY <1>1, <1>2, <1>3, <1>4, <1>5, LocalStep DEF lruVars, threadVars

\* bio_endio returns the bio of a thread.
LEMMA EndBioStep ==
    ASSUME IInv, NEW t \in Threads, EndBio(t)
    PROVE  IInv'
<1> USE DEF IInv, EndBio
<1>1. /\ toread' \in [Stripes -> [Disks -> Threads \cup {None, Stale}]]
      /\ towrite' \in [Stripes -> [Disks -> Threads \cup {None, Stale}]]
    BY DEF TypeOK, Forget
<1>2. TypeOK'
    <2>1. bio' \in [Threads -> Bios \cup {None}]
        BY DEF TypeOK
    <2>2. done' \in [Threads -> Nat]
        BY DEF TypeOK
    <2>3. pc' \in [Actors -> ThreadPcs \cup DaemonPcs]
        BY DEF TypeOK, ThreadPcs
    <2> QED BY <1>1, <2>1, <2>2, <2>3 DEF TypeOK, lruVars
<1>3. Control'
    BY ConstantsAssumption
    DEF TypeOK, Control, ThreadPcs, HoldingPcs, DaemonPcs, lruVars, Actors
<1>4. \A x \in Stripes : Holders(x)' = Holders(x)
    BY HoldersKeep DEF HoldingPcs, Actors
<1>5. NoLostWakeup'
    BY ConstantsAssumption DEF NoLostWakeup, TypeOK, lruVars, Actors
<1> QED BY <1>2, <1>3, <1>4, <1>5, LocalStep DEF lruVars

\* A thread leaves generic_make_request.
LEMMA ReturnStep ==
    ASSUME IInv, NEW t \in Threads, Return(t)
    PROVE  IInv'
<1> USE DEF IInv, Return
<1>1. TypeOK'
    BY DEF TypeOK, ThreadPcs, HoldingPcs, DaemonPcs, lruVars, devVars,
           threadVars, Actors
<1>2. Control'
    BY ConstantsAssumption
    DEF TypeOK, Control, ThreadPcs, HoldingPcs, DaemonPcs, lruVars, Actors,
        threadVars
<1>3. \A x \in Stripes : Holders(x)' = Holders(x)
    BY DEF Holders, HoldingPcs, Actors, TypeOK
<1>4. NoLostWakeup'
    BY ConstantsAssumption DEF NoLostWakeup, TypeOK, lruVars, Actors
<1>5. \A u \in Threads : bioList[u] # {} => sh'[u] = sh[u]
    BY DEF TypeOK
<1> QED BY <1>1, <1>2, <1>3, <1>4, <1>5, LocalStep DEF lruVars, threadVars

\* jmd_thread runs jraid5d.
LEMMA DaemonWakeStep ==
    ASSUME IInv, DaemonWake
    PROVE  IInv'
<1> USE DEF IInv, DaemonWake
<1>1. TypeOK'
    BY DEF TypeOK, ThreadPcs, HoldingPcs, DaemonPcs, lruVars, devVars,
           threadVars
<1>2. Control'
    BY ConstantsAssumption
    DEF TypeOK, Control, ThreadPcs, HoldingPcs, DaemonPcs, lruVars, Actors,
        threadVars
<1>3. \A x \in Stripes : Holders(x)' = Holders(x)
    BY HoldersKeep DEF HoldingPcs, Actors
<1>4. NoLostWakeup'
    BY DEF NoLostWakeup, TypeOK, lruVars, Actors
<1> QED BY <1>1, <1>2, <1>3, <1>4, LocalStep DEF lruVars, threadVars

\* jraid5d finds the handle list empty and returns.
LEMMA DaemonSleepStep ==
    ASSUME IInv, DaemonSleep
    PROVE  IInv'
<1> USE DEF IInv, DaemonSleep
<1>1. TypeOK'
    BY DEF TypeOK, ThreadPcs, HoldingPcs, DaemonPcs, lruVars, devVars,
           threadVars
<1>2. Control'
    BY ConstantsAssumption
    DEF TypeOK, Control, ThreadPcs, HoldingPcs, DaemonPcs, lruVars, Actors,
        threadVars
<1>3. \A x \in Stripes : Holders(x)' = Holders(x)
    BY HoldersKeep DEF HoldingPcs, Actors
<1>4. NoLostWakeup'
    BY DEF NoLostWakeup, TypeOK, lruVars, Actors
<1> QED BY <1>1, <1>2, <1>3, <1>4, LocalStep DEF lruVars, threadVars

-----------------------------------------------------------------------------
(***************************************************************************)
(* handle_stripe: submissions and absent disks                             *)
(***************************************************************************)

\* A stripe somebody holds has a positive count and is on no list.
LEMMA HeldStripe ==
    ASSUME IInv, bug = "none", NEW a \in Actors, pc[a] \in HoldingPcs
    PROVE  /\ sh[a] \in Stripes
           /\ count[sh[a]] > 0
           /\ sh[a] \notin Elems(inactive)
           /\ sh[a] \notin Elems(handleList)
           /\ sh[a] \notin limbo
<1> DEFINE s == sh[a]
<1>1. s \in Stripes
    BY DEF IInv, Control
<1>2. a \in Holders(s)
    BY DEF Holders
<1>3. Cardinality(Holders(s)) # 0
    BY <1>1, <1>2, FiniteOwners, FS_EmptySet
<1> HIDE DEF s
<1>4. count[s] = Refs(s)
    BY <1>1 DEF IInv, CountIsRefs
<1>5. count[s] > 0
    BY <1>1, <1>3, <1>4, FiniteOwners DEF Refs
<1>6. ~(OnLru(s) \/ s \in limbo)
    BY <1>1, <1>5 DEF IInv, OneHome
<1> QED BY <1>1, <1>5, <1>6 DEF OnLru, s

\* The lists stay well-formed when they do not change and no stripe gets its
\* first or loses its last reference.
LEMMA ListsStay ==
    ASSUME IInv, UNCHANGED <<inactive, handleList, active, limbo, bug>>,
           \A x \in Stripes : count'[x] = 0 <=> count[x] = 0
    PROVE  OneHome' /\ ActiveIsBusy' /\ AssertionsHold'
BY DEF IInv, OneHome, ActiveIsBusy, AssertionsHold, Busy, NoDuplicates, OnLru,
       Elems

\* An absent disk makes handle_stripe set STRIPE_HANDLE: the stripe is held,
\* so that it is on no list.
LEMMA AbsentDevStep ==
    ASSUME IInv, bug = "none", NEW a \in Actors, AbsentDev(a)
    PROVE  IInv'
<1> DEFINE s == sh[a]
<1>1. /\ pc[a] = "submit" /\ NextDev(a)
      /\ UNCHANGED <<sector, count, toread, towrite, lruVars, asleep, wakeup,
                     issued, sh, threadVars, bug>>
      /\ handle' = [handle EXCEPT ![s] = TRUE]
    BY DEF AbsentDev
<1>2. TypeOK /\ Control
    BY DEF IInv
<1>3. s \in Stripes /\ idx[a] \in Disks
    BY <1>1, <1>2, NextDevLemma
<1>4. TypeOK'
    <2>1. flags' \in [Stripes -> [Disks -> SUBSET Flags]]
        BY <1>2, <1>3 DEF AbsentDev, TypeOK
    <2>2. endio' \in [Stripes -> [Disks -> {"none", "read", "write"}]]
        BY <1>2, <1>3 DEF AbsentDev, TypeOK
    <2>3. handle' \in [Stripes -> BOOLEAN]
        BY <1>1, <1>2, <1>3 DEF TypeOK
    <2> QED BY <1>1, <1>2, <2>1, <2>2, <2>3, NextDevLemma
            DEF TypeOK, lruVars, threadVars
<1>5. Control'
    BY <1>1, <1>2, NextDevControl DEF threadVars
<1>6. \A x \in Stripes : Holders(x)' = Holders(x)
    BY <1>1, <1>2, NextDevLemma, HoldersKeep DEF HoldingPcs
<1>7. CountIsRefs'
    <2>1. \A x \in Stripes : Queued(x)' = Queued(x)
        BY <1>1, QueuedKeep DEF threadVars
    <2>2. \A x \in Stripes : InFlight(x)' = InFlight(x)
        BY <1>1 DEF InFlight
    <2> QED BY <1>1, <1>6, <2>1, <2>2 DEF IInv, CountIsRefs, Refs
<1>8. OneHome' /\ ActiveIsBusy' /\ AssertionsHold'
    BY <1>1, ListsStay DEF lruVars
<1>9. HashUnique' /\ HandledIsHashed'
    BY <1>1, <1>2, NextDevLemma DEF IInv, HashUnique, HandledIsHashed
<1>10. ListsByFlag'
    <2>1. s \notin Elems(inactive)
        BY <1>1, HeldStripe DEF HoldingPcs
    <2>2. inactive' = inactive /\ handleList' = handleList
        BY <1>1 DEF lruVars
    <2> QED BY <1>1, <1>2, <2>1, <2>2 DEF IInv, ListsByFlag, Elems, TypeOK
<1>11. NoLostWakeup'
    BY <1>1, <1>2, NextDevLemma, ConstantsAssumption
    DEF IInv, NoLostWakeup, TypeOK, lruVars, Actors
<1> QED BY <1>4, <1>5, <1>7, <1>8, <1>9, <1>10, <1>11 DEF IInv

\* A request is submitted: one reference more, owned by the request.
LEMMA SubmitDevStep ==
    ASSUME IInv, bug = "none", NEW a \in Actors, SubmitDev(a)
    PROVE  IInv'
<1>1. PICK s \in Stripes, i \in Disks : s = sh[a] /\ i = idx[a]
    BY DEF SubmitDev, RefRequest, IInv, Control, HoldingPcs
<1>2. /\ pc[a] = "submit" /\ NextDev(a)
      /\ UNCHANGED <<sector, handle, toread, towrite, lruVars, asleep, wakeup,
                     sh, bio, done, bug>>
      /\ count' = [count EXCEPT ![s] = @ + 1]
    BY <1>1 DEF SubmitDev, RefRequest
<1>3. TypeOK /\ Control
    BY DEF IInv
<1>4. \/ /\ a = jraid5d
         /\ issued[s][i] < MaxIo
         /\ issued' = [issued EXCEPT ![s][i] = @ + 1]
         /\ UNCHANGED bioList
      \/ /\ a \in Threads
         /\ bioList' = [bioList EXCEPT ![a] = @ \cup {i}]
         /\ UNCHANGED issued
    BY <1>1 DEF SubmitDev, RefRequest, Actors
<1>5. bioList' \in [Threads -> SUBSET Disks]
    <2>1. bioList \in [Threads -> SUBSET Disks]
        BY <1>3 DEF TypeOK
    <2>2. CASE bioList' = bioList
        BY <2>1, <2>2
    <2>3. CASE a \in Threads /\ bioList' = [bioList EXCEPT ![a] = @ \cup {i}]
        BY <2>1, <2>3
    <2> QED BY <1>4, <2>2, <2>3
<1>6. TypeOK'
    <2>1. flags' \in [Stripes -> [Disks -> SUBSET Flags]]
        BY <1>3, <1>1 DEF SubmitDev, RefRequest, TypeOK
    <2>2. endio' \in [Stripes -> [Disks -> {"none", "read", "write"}]]
        BY <1>3, <1>1 DEF SubmitDev, RefRequest, TypeOK
    <2>3. count' \in [Stripes -> Int]
        BY <1>2, <1>3, <1>1 DEF TypeOK
    <2>4. issued' \in [Stripes -> [Disks -> 0..MaxIo]]
        <3>1. issued \in [Stripes -> [Disks -> 0..MaxIo]] /\ MaxIo \in Nat
            BY <1>3, ConstantsAssumption DEF TypeOK
        <3>2. CASE issued' = issued
            BY <3>1, <3>2
        <3>3. CASE /\ issued[s][i] < MaxIo
                   /\ issued' = [issued EXCEPT ![s][i] = @ + 1]
            BY <3>1, <3>3
        <3> QED BY <1>4, <3>2, <3>3
    <2> QED BY <1>2, <1>3, <1>5, <2>1, <2>2, <2>3, <2>4, NextDevLemma
            DEF TypeOK, lruVars
<1>7. Control'
    <2>1. \A t \in Threads :
                \/ bioList'[t] = bioList[t]
                \/ t = a /\ bioList'[t] = bioList[t] \cup {idx[t]}
        BY <1>1, <1>3, <1>4 DEF TypeOK
    <2> QED BY <1>2, <1>3, <2>1, NextDevControl
<1>8. \A x \in Stripes : Holders(x)' = Holders(x)
    BY <1>2, <1>3, NextDevLemma, HoldersKeep DEF HoldingPcs
<1>9. Refs(s)' = Refs(s) + 1 /\ \A x \in Stripes \ {s} : Refs(x)' = Refs(x)
    <2>1. CASE a = jraid5d
        <3>1. /\ Cardinality(InFlight(s)') = Cardinality(InFlight(s)) + 1
              /\ \A x \in Stripes \ {s} : InFlight(x)' = InFlight(x)
            BY <1>3, <1>1, <1>4, <2>1, ConstantsAssumption, InFlightAdd
        <3>2. \A x \in Stripes : Queued(x)' = Queued(x)
            BY <1>2, <1>4, <2>1, QueuedKeep, ConstantsAssumption
        <3> QED BY <1>1, <1>8, <3>1, <3>2, FiniteOwners DEF Refs
    <2>2. CASE a \in Threads
        <3>1. i \notin bioList[a]
            <4>1. \A d \in bioList[a] : d > i
                BY <1>2, <1>3, <1>1, <2>2 DEF Control
            <4> QED BY <1>1, <4>1 DEF Disks
        <3>2. a # jraid5d
            BY <2>2, ConstantsAssumption
        <3>3. /\ Cardinality(Queued(s)') = Cardinality(Queued(s)) + 1
              /\ \A x \in Stripes \ {s} : Queued(x)' = Queued(x)
            BY <1>2, <1>3, <1>1, <1>4, <2>2, <3>1, <3>2, QueuedAdd
        <3>4. \A x \in Stripes : InFlight(x)' = InFlight(x)
            BY <1>4, <3>2 DEF InFlight
        <3> QED BY <1>1, <1>8, <3>3, <3>4, FiniteOwners DEF Refs
    <2> QED BY <1>4, <2>1, <2>2
<1>10. CountIsRefs'
    BY <1>2, <1>3, <1>1, <1>9 DEF IInv, CountIsRefs, TypeOK
<1>11. OneHome' /\ ActiveIsBusy' /\ AssertionsHold'
    <2>1. count[s] > 0
        BY <1>2, <1>1, HeldStripe DEF HoldingPcs
    <2>2. \A x \in Stripes : count'[x] = 0 <=> count[x] = 0
        BY <1>2, <1>3, <1>1, <2>1 DEF TypeOK
    <2> QED BY <1>2, <2>2, ListsStay DEF lruVars
<1>12. HashUnique' /\ HandledIsHashed' /\ ListsByFlag'
    BY <1>2 DEF IInv, HashUnique, HandledIsHashed, ListsByFlag, Elems, lruVars
<1>13. NoLostWakeup'
    BY <1>2, <1>3, NextDevLemma, ConstantsAssumption
    DEF IInv, NoLostWakeup, TypeOK, lruVars, Actors
<1> QED BY <1>6, <1>7, <1>10, <1>11, <1>12, <1>13 DEF IInv

\* A queued request reaches its disk: the reference changes its owner.
LEMMA IssueQueuedStep ==
    ASSUME IInv, NEW t \in Threads, IssueQueued(t)
    PROVE  IInv'
<1>0. PICK s \in Stripes : s = sh[t]
    BY DEF IssueQueued, IInv, Control
<1>1. PICK d \in bioList[t] :
        /\ issued[s][d] < MaxIo
        /\ issued' = [issued EXCEPT ![s][d] = @ + 1]
        /\ bioList' = [bioList EXCEPT ![t] = @ \ {d}]
    BY <1>0 DEF IssueQueued
<1>2. /\ pc[t] = "drain"
      /\ UNCHANGED <<sector, count, handle, devVars, lruVars, asleep, wakeup,
                     actorVars, bio, done, bug>>
    BY DEF IssueQueued
<1>3. TypeOK /\ Control /\ d \in Disks
    BY <1>1, <1>2 DEF IInv, Control, TypeOK
<1>4. TypeOK'
    <2>1. bioList' \in [Threads -> SUBSET Disks]
        BY <1>1, <1>3 DEF TypeOK
    <2>2. issued' \in [Stripes -> [Disks -> 0..MaxIo]]
        BY <1>1, <1>3, ConstantsAssumption DEF TypeOK
    <2> QED BY <1>2, <1>3, <2>1, <2>2
            DEF TypeOK, lruVars, devVars, actorVars
<1>5. Control'
    <2>1. \A u \in Threads : bioList'[u] \subseteq bioList[u]
        BY <1>1, <1>3 DEF TypeOK
    <2> QED BY <1>2, <1>3, <2>1 DEF Control, actorVars
<1>6. /\ Cardinality(InFlight(s)') = Cardinality(InFlight(s)) + 1
      /\ \A x \in Stripes \ {s} : InFlight(x)' = InFlight(x)
    BY <1>1, <1>3, InFlightAdd
<1>7. /\ Cardinality(Queued(s)') = Cardinality(Queued(s)) - 1
      /\ \A x \in Stripes \ {s} : Queued(x)' = Queued(x)
    BY <1>0, <1>1, <1>2, <1>3, QueuedDrop DEF actorVars
<1>8. \A x \in Stripes : Holders(x)' = Holders(x)
    BY <1>2 DEF Holders, actorVars
<1>9. \A x \in Stripes : Refs(x)' = Refs(x)
    BY <1>3, <1>6, <1>7, <1>8, FiniteOwners DEF Refs
<1>10. CountIsRefs'
    BY <1>2, <1>9 DEF IInv, CountIsRefs
<1>11. OneHome' /\ ActiveIsBusy' /\ AssertionsHold'
    BY <1>2, ListsStay DEF lruVars
<1>12. HashUnique' /\ HandledIsHashed' /\ ListsByFlag' /\ NoLostWakeup'
    BY <1>2 DEF IInv, HashUnique, HandledIsHashed, ListsByFlag,
                NoLostWakeup, Elems, lruVars,
                actorVars
<1> QED BY <1>4, <1>5, <1>10, <1>11, <1>12 DEF IInv

-----------------------------------------------------------------------------
(***************************************************************************)
(* Releasing a stripe                                                      *)
(***************************************************************************)

\* The stripes that are not free are finitely many; putting a stripe on the
\* inactive list leaves one fewer, taking it off one more.
LEMMA BusyDrop ==
    ASSUME NEW s \in Stripes, s \notin Elems(inactive),
           Elems(inactive)' = Elems(inactive) \cup {s}
    PROVE  Cardinality(Busy') = Cardinality(Busy) - 1
<1>1. IsFiniteSet(Busy)
    BY ConstantsAssumption, FS_Subset DEF Busy
<1>2. s \in Busy /\ Busy' = Busy \ {s}
    BY DEF Busy
<1> QED BY <1>1, <1>2, FS_RemoveElement

LEMMA BusyAdd ==
    ASSUME NEW s \in Stripes, s \in Elems(inactive),
           Elems(inactive)' = Elems(inactive) \ {s}
    PROVE  Cardinality(Busy') = Cardinality(Busy) + 1
<1>1. IsFiniteSet(Busy)
    BY ConstantsAssumption, FS_Subset DEF Busy
<1>2. s \notin Busy /\ Busy' = Busy \cup {s}
    BY DEF Busy
<1> QED BY <1>1, <1>2, FS_AddElement

\* A stripe whose count reached zero and that is on no list goes to the list
\* its STRIPE_HANDLE bit asks for.
LEMMA PutOnLruLemma ==
    ASSUME IInv, bug = "none", NEW s \in Stripes, ~OnLru(s), PutOnLru(s),
           UNCHANGED <<handle, bug>>,
           pc[jraid5d] # "sleep" => pc'[jraid5d] # "sleep",
           limbo' = limbo \ {s},
           count'[s] = 0, \A x \in Stripes \ {s} : count'[x] = count[x]
    PROVE  /\ inactive' \in Seq(Stripes) /\ handleList' \in Seq(Stripes)
           /\ active' \in Int /\ asleep' \in SUBSET Threads
           /\ wakeup' \in BOOLEAN
           /\ OneHome' /\ ActiveIsBusy' /\ ListsByFlag' /\ NoLostWakeup'
<1>1. /\ inactive \in Seq(Stripes) /\ handleList \in Seq(Stripes)
      /\ active \in Int /\ asleep \in SUBSET Threads /\ wakeup \in BOOLEAN
    BY DEF IInv, TypeOK
<1>2. /\ NoDuplicates(inactive) /\ NoDuplicates(handleList)
      /\ Elems(inactive) \cap Elems(handleList) = {}
      /\ limbo \cap (Elems(inactive) \cup Elems(handleList)) = {}
      /\ \A x \in Stripes : count[x] = 0 <=>
            x \in Elems(inactive) \/ x \in Elems(handleList) \/ x \in limbo
    BY DEF IInv, OneHome, OnLru
<1>3. s \notin Elems(inactive) /\ s \notin Elems(handleList)
    BY DEF OnLru
<1>4. CASE handle[s]
    <2>1. /\ handleList' = Append(handleList, s)
          /\ wakeup' = TRUE
          /\ UNCHANGED <<inactive, active, asleep>>
        BY <1>4 DEF PutOnLru
    <2>2. /\ handleList' \in Seq(Stripes)
          /\ Elems(handleList)' = Elems(handleList) \cup {s}
          /\ NoDuplicates(handleList)'
        <3>1. Elems(handleList)' = Elems(handleList')
            BY DEF Elems
        <3>2. NoDuplicates(handleList)' = NoDuplicates(handleList')
            BY DEF NoDuplicates
        <3> QED BY <1>1, <1>2, <1>3, <2>1, <3>1, <3>2, AppendLemma
    <2>3. Elems(inactive)' = Elems(inactive) /\ NoDuplicates(inactive)'
        BY <1>2, <2>1 DEF Elems, NoDuplicates
    <2>4. OneHome'
        BY <1>2, <1>3, <2>2, <2>3 DEF OneHome, OnLru
    <2>5. ActiveIsBusy'
        BY <2>1, <2>3 DEF IInv, ActiveIsBusy, Busy
    <2>6. ListsByFlag'
        BY <1>4, <2>2, <2>3 DEF IInv, ListsByFlag
    <2>7. NoLostWakeup'
        BY <2>1 DEF IInv, NoLostWakeup
    <2> QED BY <1>1, <2>1, <2>2, <2>4, <2>5, <2>6, <2>7
<1>5. CASE ~handle[s]
    <2>1. /\ inactive' = Append(inactive, s)
          /\ active' = active - 1
          /\ asleep' = {}
          /\ UNCHANGED <<handleList, wakeup>>
        BY <1>5 DEF PutOnLru
    <2>2. /\ inactive' \in Seq(Stripes)
          /\ Elems(inactive)' = Elems(inactive) \cup {s}
          /\ NoDuplicates(inactive)'
        <3>1. Elems(inactive)' = Elems(inactive')
            BY DEF Elems
        <3>2. NoDuplicates(inactive)' = NoDuplicates(inactive')
            BY DEF NoDuplicates
        <3> QED BY <1>1, <1>2, <1>3, <2>1, <3>1, <3>2, AppendLemma
    <2>3. Elems(handleList)' = Elems(handleList) /\ NoDuplicates(handleList)'
        BY <1>2, <2>1 DEF Elems, NoDuplicates
    <2>4. OneHome'
        BY <1>2, <1>3, <2>2, <2>3 DEF OneHome, OnLru
    <2>5. ActiveIsBusy'
        BY <1>3, <2>1, <2>2, BusyDrop DEF IInv, ActiveIsBusy
    <2>6. ListsByFlag'
        BY <1>5, <2>2, <2>3 DEF IInv, ListsByFlag
    <2>7. NoLostWakeup'
        BY <2>1 DEF IInv, NoLostWakeup
    <2> QED BY <1>1, <2>1, <2>2, <2>4, <2>5, <2>6, <2>7
<1> QED BY <1>4, <1>5

\* release_stripe by an owner of a reference keeps the lists well-formed.
LEMMA ReleaseStripeLemma ==
    ASSUME IInv, bug = "none", NEW s \in Stripes, count[s] > 0,
           ReleaseStripe(s), UNCHANGED <<handle, bug>>,
           pc[jraid5d] # "sleep" => pc'[jraid5d] # "sleep"
    PROVE  /\ inactive' \in Seq(Stripes) /\ handleList' \in Seq(Stripes)
           /\ active' \in Int /\ asleep' \in SUBSET Threads
           /\ wakeup' \in BOOLEAN /\ limbo' = limbo
           /\ count' = [count EXCEPT ![s] = @ - 1]
           /\ count' \in [Stripes -> Int]
           /\ OneHome' /\ ActiveIsBusy' /\ ListsByFlag' /\ NoLostWakeup'
<1>1. /\ count' = [count EXCEPT ![s] = @ - 1] /\ limbo' = limbo
      /\ count \in [Stripes -> Int]
    BY DEF ReleaseStripe, IInv, TypeOK
<1>2. ~OnLru(s) /\ s \notin limbo
    BY DEF IInv, OneHome
<1>3. CASE count[s] = 1
    <2>1. PutOnLru(s)
        BY <1>3 DEF ReleaseStripe
    <2>2. count'[s] = 0 /\ \A x \in Stripes \ {s} : count'[x] = count[x]
        BY <1>1, <1>3
    <2>3. limbo' = limbo \ {s}
        BY <1>1, <1>2
    <2> QED BY <1>1, <1>2, <2>1, <2>2, <2>3, PutOnLruLemma
<1>4. CASE count[s] # 1
    <2>1. UNCHANGED <<inactive, handleList, active, asleep, wakeup>>
        BY <1>4 DEF ReleaseStripe
    <2>2. \A x \in Stripes : count'[x] = 0 <=> count[x] = 0
        BY <1>1, <1>4
    <2>3. OneHome' /\ ActiveIsBusy'
        BY <1>1, <2>1, <2>2, ListsStay
    <2>4. ListsByFlag' /\ NoLostWakeup'
        BY <2>1 DEF IInv, ListsByFlag, NoLostWakeup, Elems
    <2> QED BY <1>1, <2>1, <2>3, <2>4 DEF IInv, TypeOK
<1> QED BY <1>3, <1>4

\* An actor releases its stripe.
LEMMA ReleaseActorStep ==
    ASSUME IInv, bug = "none", NEW a \in Actors, ReleaseActor(a)
    PROVE  IInv'
<1>1. PICK s \in Stripes : s = sh[a]
    BY DEF ReleaseActor, IInv, Control, HoldingPcs
<1>2. PICK p \in {"loop", "endio"} :
        /\ p = IF a = jraid5d THEN "loop" ELSE "endio"
        /\ pc[a] = "release"
        /\ pc' = [pc EXCEPT ![a] = p]
        /\ ReleaseStripe(s)
        /\ UNCHANGED <<sector, handle, devVars, issued, sh, idx, threadVars,
                       bug>>
    BY <1>1 DEF ReleaseActor
<1>3. TypeOK /\ Control
    BY DEF IInv
<1>4. count[s] > 0
    BY <1>1, <1>2, HeldStripe DEF HoldingPcs
<1>5. pc[jraid5d] # "sleep" => pc'[jraid5d] # "sleep"
    BY <1>2, <1>3 DEF TypeOK, Actors
<1>6. /\ inactive' \in Seq(Stripes) /\ handleList' \in Seq(Stripes)
      /\ active' \in Int /\ asleep' \in SUBSET Threads
      /\ wakeup' \in BOOLEAN /\ limbo' = limbo
      /\ count' = [count EXCEPT ![s] = @ - 1]
      /\ count' \in [Stripes -> Int]
      /\ OneHome' /\ ActiveIsBusy' /\ ListsByFlag' /\ NoLostWakeup'
    BY <1>2, <1>4, <1>5, ReleaseStripeLemma
<1>7. TypeOK'
    <2>1. pc' \in [Actors -> ThreadPcs \cup DaemonPcs]
        BY <1>2, <1>3 DEF TypeOK, ThreadPcs, DaemonPcs
    <2> QED BY <1>2, <1>3, <1>6, <2>1 DEF TypeOK, devVars, threadVars
<1>8. Control'
    BY <1>1, <1>2, <1>3, ConstantsAssumption
    DEF TypeOK, Control, ThreadPcs, HoldingPcs, DaemonPcs, Actors, threadVars
<1>9. CountIsRefs'
    <2>1. /\ Cardinality(Holders(s)') = Cardinality(Holders(s)) - 1
          /\ \A x \in Stripes \ {s} : Holders(x)' = Holders(x)
        <3>1. pc[a] \in HoldingPcs /\ p \notin HoldingPcs
            BY <1>2 DEF HoldingPcs
        <3>2. sh' = sh /\ sh[a] = s /\ pc' = [pc EXCEPT ![a] = p]
            BY <1>1, <1>2
        <3> QED BY <1>3, <3>1, <3>2, HoldersDrop
    <2>2. \A x \in Stripes : Queued(x)' = Queued(x)
        BY <1>2, QueuedKeep DEF threadVars
    <2>3. \A x \in Stripes : InFlight(x)' = InFlight(x)
        BY <1>2 DEF InFlight
    <2>4. Refs(s)' = Refs(s) - 1 /\ \A x \in Stripes \ {s} : Refs(x)' = Refs(x)
        BY <2>1, <2>2, <2>3, FiniteOwners DEF Refs
    <2> QED BY <1>3, <1>6, <2>4 DEF IInv, CountIsRefs, TypeOK
<1>10. HashUnique' /\ HandledIsHashed' /\ AssertionsHold'
    BY <1>2 DEF IInv, HashUnique, HandledIsHashed, AssertionsHold
<1> QED BY <1>6, <1>7, <1>8, <1>9, <1>10 DEF IInv

\* A disk has a request of the stripe, so that its count is positive; ending
\* the request removes that one owner.
LEMMA EndIoRefs ==
    ASSUME IInv, NEW s \in Stripes, NEW d \in Disks, issued[s][d] > 0,
           issued' = [issued EXCEPT ![s][d] = @ - 1],
           UNCHANGED <<actorVars, threadVars>>
    PROVE  /\ count[s] > 0
           /\ Refs(s)' = Refs(s) - 1
           /\ \A x \in Stripes \ {s} : Refs(x)' = Refs(x)
           /\ issued' \in [Stripes -> [Disks -> 0..MaxIo]]
<1>1. TypeOK
    BY DEF IInv
<1>2. /\ Cardinality(InFlight(s)) > 0
      /\ Cardinality(InFlight(s)') = Cardinality(InFlight(s)) - 1
      /\ \A x \in Stripes \ {s} : InFlight(x)' = InFlight(x)
    BY <1>1, InFlightDrop
<1>3. \A x \in Stripes : Holders(x)' = Holders(x) /\ Queued(x)' = Queued(x)
    BY DEF Holders, Queued, actorVars, threadVars
<1>4. count[s] = Refs(s)
    BY DEF IInv, CountIsRefs
<1>5. count[s] > 0
    BY <1>2, <1>4, FiniteOwners DEF Refs
<1>6. Refs(s)' = Refs(s) - 1 /\ \A x \in Stripes \ {s} : Refs(x)' = Refs(x)
    BY <1>2, <1>3, FiniteOwners DEF Refs
<1>7. issued' \in [Stripes -> [Disks -> 0..MaxIo]]
    BY <1>1, ConstantsAssumption DEF TypeOK
<1> QED BY <1>5, <1>6, <1>7

\* Ending a request and dropping one reference keeps the count right.
LEMMA EndIoCount ==
    ASSUME IInv, NEW s \in Stripes, NEW d \in Disks, issued[s][d] > 0,
           issued' = [issued EXCEPT ![s][d] = @ - 1],
           count' = [count EXCEPT ![s] = @ - 1],
           UNCHANGED <<actorVars, threadVars>>
    PROVE  CountIsRefs'
BY EndIoRefs DEF IInv, CountIsRefs, TypeOK

\* raid5_end_read_request.
LEMMA EndReadStep ==
    ASSUME IInv, bug = "none", NEW s \in Stripes, NEW d \in Disks,
           EndRead(s, d)
    PROVE  IInv'
<1>1. /\ issued[s][d] > 0
      /\ issued' = [issued EXCEPT ![s][d] = @ - 1]
      /\ ReleaseStripe(s)
      /\ UNCHANGED <<sector, handle, devVars, actorVars, threadVars, bug>>
    BY DEF EndRead
<1>2. count[s] > 0 /\ issued' \in [Stripes -> [Disks -> 0..MaxIo]]
    BY <1>1, EndIoRefs
<1>3. /\ inactive' \in Seq(Stripes) /\ handleList' \in Seq(Stripes)
      /\ active' \in Int /\ asleep' \in SUBSET Threads
      /\ wakeup' \in BOOLEAN /\ limbo' = limbo
      /\ count' = [count EXCEPT ![s] = @ - 1]
      /\ count' \in [Stripes -> Int]
      /\ OneHome' /\ ActiveIsBusy' /\ ListsByFlag' /\ NoLostWakeup'
    BY <1>1, <1>2, ReleaseStripeLemma DEF actorVars
<1>4. TypeOK'
    BY <1>1, <1>2, <1>3 DEF IInv, TypeOK, devVars, actorVars, threadVars
<1>5. Control'
    BY <1>1 DEF IInv, Control, actorVars, threadVars
<1>6. CountIsRefs'
    BY <1>1, <1>3, EndIoCount
<1>7. HashUnique' /\ HandledIsHashed' /\ AssertionsHold'
    BY <1>1 DEF IInv, HashUnique, HandledIsHashed, AssertionsHold
<1> QED BY <1>3, <1>4, <1>5, <1>6, <1>7 DEF IInv

\* raid5_end_write_request, the unlocked decrement.
LEMMA EndWriteStep ==
    ASSUME IInv, bug = "none", NEW s \in Stripes, NEW d \in Disks,
           EndWrite(s, d)
    PROVE  IInv'
<1>1. /\ issued[s][d] > 0
      /\ issued' = [issued EXCEPT ![s][d] = @ - 1]
      /\ count' = [count EXCEPT ![s] = @ - 1]
      /\ limbo' = IF count[s] = 1 THEN limbo \cup {s} ELSE limbo
      /\ UNCHANGED <<sector, handle, devVars, inactive, handleList, active,
                     asleep, wakeup, actorVars, threadVars, bug>>
    BY DEF EndWrite
<1>2. count[s] > 0 /\ issued' \in [Stripes -> [Disks -> 0..MaxIo]]
    BY <1>1, EndIoRefs
<1>3. count \in [Stripes -> Int] /\ count' \in [Stripes -> Int]
    BY <1>1 DEF IInv, TypeOK
<1>4. TypeOK'
    BY <1>1, <1>2, <1>3 DEF IInv, TypeOK, devVars, actorVars, threadVars
<1>5. Control'
    BY <1>1 DEF IInv, Control, actorVars, threadVars
<1>6. CountIsRefs'
    BY <1>1, EndIoCount
<1>7. OneHome'
    <2>1. ~OnLru(s) /\ s \notin limbo
        BY <1>2 DEF IInv, OneHome
    <2>2. \A x \in Stripes : OnLru(x)' <=> OnLru(x)
        BY <1>1 DEF OnLru, Elems
    <2>3. \A x \in Stripes : count'[x] = 0 <=> OnLru(x)' \/ x \in limbo'
        <3>1. CASE count[s] = 1
            BY <1>1, <1>3, <2>1, <2>2, <3>1 DEF IInv, OneHome
        <3>2. CASE count[s] # 1
            BY <1>1, <1>2, <1>3, <2>1, <2>2, <3>2 DEF IInv, OneHome
        <3> QED BY <3>1, <3>2
    <2>4. /\ Elems(inactive)' = Elems(inactive)
          /\ Elems(handleList)' = Elems(handleList)
          /\ NoDuplicates(inactive)' = NoDuplicates(inactive)
          /\ NoDuplicates(handleList)' = NoDuplicates(handleList)
        BY <1>1 DEF Elems, NoDuplicates
    <2>5. limbo' \cap (Elems(inactive) \cup Elems(handleList)) = {}
        BY <1>1, <2>1 DEF IInv, OneHome, OnLru
    <2> QED BY <1>1, <2>3, <2>4, <2>5 DEF IInv, OneHome
<1>8. ActiveIsBusy'
    BY <1>1 DEF IInv, ActiveIsBusy, Busy, Elems
<1>9. /\ HashUnique' /\ HandledIsHashed' /\ AssertionsHold'
      /\ ListsByFlag' /\ NoLostWakeup'
    BY <1>1 DEF IInv, HashUnique, HandledIsHashed, AssertionsHold,
                ListsByFlag, NoLostWakeup,
                Elems, actorVars
<1> QED BY <1>4, <1>5, <1>6, <1>7, <1>8, <1>9 DEF IInv

\* raid5_end_write_request, the unlocked list insertion.
LEMMA EndWriteListStep ==
    ASSUME IInv, bug = "none", NEW s \in Stripes, EndWriteList(s)
    PROVE  IInv'
<1>1. /\ s \in limbo
      /\ limbo' = limbo \ {s}
      /\ PutOnLru(s)
      /\ UNCHANGED <<sector, count, handle, devVars, issued, actorVars,
                     threadVars, bug>>
    BY DEF EndWriteList
<1>2. ~OnLru(s) /\ count'[s] = 0
    BY <1>1 DEF IInv, OneHome, OnLru
<1>3. /\ inactive' \in Seq(Stripes) /\ handleList' \in Seq(Stripes)
      /\ active' \in Int /\ asleep' \in SUBSET Threads
      /\ wakeup' \in BOOLEAN
      /\ OneHome' /\ ActiveIsBusy' /\ ListsByFlag' /\ NoLostWakeup'
    BY <1>1, <1>2, PutOnLruLemma DEF actorVars
<1>4. TypeOK'
    BY <1>1, <1>3 DEF IInv, TypeOK, devVars, actorVars, threadVars
<1>5. Control'
    BY <1>1 DEF IInv, Control, actorVars, threadVars
<1>6. CountIsRefs'
    BY <1>1 DEF IInv, CountIsRefs, Refs, Holders, Queued, InFlight, actorVars,
                threadVars
<1>7. HashUnique' /\ HandledIsHashed' /\ AssertionsHold'
    BY <1>1 DEF IInv, HashUnique, HandledIsHashed, AssertionsHold
<1> QED BY <1>3, <1>4, <1>5, <1>6, <1>7 DEF IInv

-----------------------------------------------------------------------------
(***************************************************************************)
(* Taking a stripe                                                         *)
(***************************************************************************)

\* An actor without a reference takes one on s: the count stays right.
LEMMA TakeCount ==
    ASSUME IInv, NEW a \in Actors, NEW s \in Stripes, NEW p \in HoldingPcs,
           pc[a] \notin HoldingPcs, a \in Threads => bioList[a] = {},
           sh' = [sh EXCEPT ![a] = s], pc' = [pc EXCEPT ![a] = p],
           count' = [count EXCEPT ![s] = @ + 1], UNCHANGED <<issued, bioList>>
    PROVE  CountIsRefs' /\ count' \in [Stripes -> Int]
<1>1. TypeOK
    BY DEF IInv
<1>2. /\ Cardinality(Holders(s)') = Cardinality(Holders(s)) + 1
      /\ \A x \in Stripes \ {s} : Holders(x)' = Holders(x)
    BY <1>1, HoldersAdd
<1>3. \A u \in Threads : bioList[u] # {} => sh'[u] = sh[u]
    BY <1>1 DEF TypeOK
<1>4. \A x \in Stripes : Queued(x)' = Queued(x)
    BY <1>3, QueuedKeep
<1>5. \A x \in Stripes : InFlight(x)' = InFlight(x)
    BY DEF InFlight
<1>6. Refs(s)' = Refs(s) + 1 /\ \A x \in Stripes \ {s} : Refs(x)' = Refs(x)
    BY <1>2, <1>4, <1>5, FiniteOwners DEF Refs
<1> QED BY <1>1, <1>6 DEF IInv, CountIsRefs, TypeOK

\* An unreferenced stripe has no holder.
LEMMA FreeStripe ==
    ASSUME IInv, NEW s \in Stripes, count[s] = 0
    PROVE  /\ Refs(s) = 0
           /\ \A a \in Actors : pc[a] \in HoldingPcs => sh[a] # s
<1>1. Refs(s) = 0
    BY DEF IInv, CountIsRefs
<1>2. Cardinality(Holders(s)) = 0
    BY <1>1, FiniteOwners DEF Refs
<1>3. Holders(s) = {}
    BY <1>2, FiniteOwners, FS_EmptySet
<1> QED BY <1>1, <1>3 DEF Holders

\* A thread in the loop of get_active_stripe.
LEMMA InLoopLemma ==
    ASSUME IInv, NEW t \in Threads, InLoop(t)
    PROVE  /\ t \in Actors /\ t # jraid5d
           /\ pc[t] \in {"get", "wait"} /\ pc[t] \notin HoldingPcs
           /\ bio[t] \in Bios /\ bio[t].sector \in Sectors
           /\ bio[t].sector # None
           /\ bioList[t] = {}
<1>1. t \in Actors /\ t # jraid5d
    BY ConstantsAssumption DEF Actors
<1>2. pc[t] \in {"get", "wait"}
    BY DEF InLoop
<1>3. pc[t] \notin HoldingPcs
    BY <1>2 DEF HoldingPcs
<1>4. bio[t] \in Bios
    BY <1>2 DEF IInv, Control
<1>5. bio[t].sector \in Sectors /\ bio[t].sector # None
    BY <1>4, ConstantsAssumption DEF Bios
<1>6. bioList[t] = {}
    BY <1>2 DEF IInv, Control
<1> QED BY <1>1, <1>2, <1>3, <1>4, <1>5, <1>6

\* get_active_stripe finds the stripe.
LEMMA GetFoundStep ==
    ASSUME IInv, bug = "none", NEW t \in Threads, NEW s \in Stripes,
           GetFound(t, s)
    PROVE  IInv'
<1>1. /\ InLoop(t) /\ sector[s] = bio[t].sector
      /\ count[s] # 0 \/ OnLru(s)
      /\ active' = IF count[s] = 0 /\ ~handle[s] THEN active + 1 ELSE active
      /\ count' = [count EXCEPT ![s] = @ + 1]
      /\ sh' = [sh EXCEPT ![t] = s]
      /\ pc' = [pc EXCEPT ![t] = "add"]
      /\ UNCHANGED <<sector, handle, devVars, limbo, asleep, wakeup, issued,
                     idx, threadVars, bug>>
    BY DEF GetFound, WasFree, TakeOffLru, Cached
<1>2. TypeOK /\ Control
    BY DEF IInv
<1>3. CountIsRefs' /\ count' \in [Stripes -> Int]
    <2>1. "add" \in HoldingPcs
        BY DEF HoldingPcs
    <2> QED BY <1>1, <2>1, InLoopLemma, TakeCount DEF threadVars
<1>4. Control'
    BY <1>1, <1>2, InLoopLemma, ConstantsAssumption
    DEF TypeOK, Control, ThreadPcs, HoldingPcs, DaemonPcs, Actors, threadVars
<1>5. /\ inactive' \in Seq(Stripes) /\ handleList' \in Seq(Stripes)
      /\ NoDuplicates(inactive)' /\ NoDuplicates(handleList)'
      /\ Elems(inactive)' = Elems(inactive) \ {s}
      /\ Elems(handleList)' = Elems(handleList) \ {s}
    <2>1. CASE count[s] = 0
        <3>1. /\ inactive' = ListDel(inactive, s)
              /\ handleList' = ListDel(handleList, s)
            BY <2>1 DEF GetFound, WasFree, TakeOffLru
        <3>2. /\ inactive \in Seq(Stripes) /\ handleList \in Seq(Stripes)
              /\ NoDuplicates(inactive) /\ NoDuplicates(handleList)
            BY <1>2 DEF IInv, OneHome, TypeOK
        <3>3. /\ Elems(inactive)' = Elems(inactive')
              /\ Elems(handleList)' = Elems(handleList')
              /\ NoDuplicates(inactive)' = NoDuplicates(inactive')
              /\ NoDuplicates(handleList)' = NoDuplicates(handleList')
            BY DEF Elems, NoDuplicates
        <3>4. /\ inactive' \in Seq(Stripes)
              /\ NoDuplicates(inactive')
              /\ Elems(inactive') = Elems(inactive) \ {s}
            BY <3>1, <3>2, ListDelLemma
        <3>5. /\ handleList' \in Seq(Stripes)
              /\ NoDuplicates(handleList')
              /\ Elems(handleList') = Elems(handleList) \ {s}
            BY <3>1, <3>2, ListDelLemma
        <3> QED BY <3>3, <3>4, <3>5
    <2>2. CASE count[s] # 0
        <3>1. UNCHANGED <<inactive, handleList>>
            BY <2>2 DEF GetFound, WasFree, TakeOffLru
        <3>2. s \notin Elems(inactive) /\ s \notin Elems(handleList)
            BY <2>2 DEF IInv, OneHome, OnLru
        <3> QED BY <1>2, <3>1, <3>2
                DEF IInv, OneHome, TypeOK, Elems, NoDuplicates
    <2> QED BY <2>1, <2>2
<1>6. active' \in Int
    BY <1>1, <1>2 DEF TypeOK
<1>7. TypeOK'
    <2>1. pc' \in [Actors -> ThreadPcs \cup DaemonPcs]
        BY <1>1, <1>2 DEF TypeOK, ThreadPcs, HoldingPcs
    <2>2. sh' \in [Actors -> Stripes \cup {None}]
        BY <1>1, <1>2 DEF TypeOK
    <2> QED BY <1>1, <1>2, <1>3, <1>5, <1>6, <2>1, <2>2
            DEF TypeOK, devVars, threadVars
<1>8. OneHome'
    <2>1. s \notin limbo
        BY <1>1 DEF IInv, OneHome, OnLru
    <2>2. count[s] >= 0
        BY FiniteOwners DEF IInv, CountIsRefs, Refs
    <2>3. count'[s] > 0 /\ \A x \in Stripes \ {s} : count'[x] = count[x]
        BY <1>1, <1>2, <2>2 DEF TypeOK
    <2>4. \A x \in Stripes : count'[x] = 0 <=>
                \/ x \in Elems(inactive)' \/ x \in Elems(handleList)'
                \/ x \in limbo'
        BY <1>1, <1>5, <2>1, <2>3 DEF IInv, OneHome, OnLru
    <2> QED BY <1>1, <1>5, <2>4 DEF IInv, OneHome, OnLru
<1>9. ActiveIsBusy'
    <2>1. CASE s \in Elems(inactive)
        <3>1. count[s] = 0 /\ ~handle[s]
            BY <2>1 DEF IInv, OneHome, ListsByFlag, OnLru
        <3>2. Cardinality(Busy') = Cardinality(Busy) + 1
            BY <1>5, <2>1, BusyAdd
        <3> QED BY <1>1, <3>1, <3>2 DEF IInv, ActiveIsBusy
    <2>2. CASE s \notin Elems(inactive)
        <3>1. ~(count[s] = 0 /\ ~handle[s])
            BY <1>1, <2>2 DEF IInv, ListsByFlag, OnLru
        <3>2. Busy' = Busy
            BY <1>5, <2>2 DEF Busy
        <3> QED BY <1>1, <3>1, <3>2 DEF IInv, ActiveIsBusy
    <2> QED BY <2>1, <2>2
<1>10. HashUnique' /\ HandledIsHashed' /\ AssertionsHold' /\ ListsByFlag'
    BY <1>1, <1>5 DEF IInv, HashUnique, HandledIsHashed, AssertionsHold,
                      ListsByFlag
<1>11. NoLostWakeup'
    <2>1. \A q : q = << >> => Elems(q) = {}
        BY DEF Elems
    <2>2. inactive' # << >> => inactive # << >>
        <3>1. CASE count[s] = 0
            BY <1>2, <3>1, <2>1
                DEF GetFound, WasFree, TakeOffLru, ListDel, TypeOK
        <3>2. CASE count[s] # 0
            BY <3>2 DEF GetFound, WasFree, TakeOffLru
        <3> QED BY <3>1, <3>2
    <2>3. handleList' # << >> => handleList # << >>
        <3>1. CASE count[s] = 0
            BY <1>2, <3>1, <2>1
                DEF GetFound, WasFree, TakeOffLru, ListDel, TypeOK
        <3>2. CASE count[s] # 0
            BY <3>2 DEF GetFound, WasFree, TakeOffLru
        <3> QED BY <3>1, <3>2
    <2>4. pc'[jraid5d] = pc[jraid5d]
        BY <1>1, <1>2, InLoopLemma DEF TypeOK
    <2> QED BY <1>1, <2>2, <2>3, <2>4 DEF IInv, NoLostWakeup
<1> QED BY <1>3, <1>4, <1>7, <1>8, <1>9, <1>10, <1>11 DEF IInv

\* get_active_stripe stops at BUG().
LEMMA GetFoundBugStep ==
    ASSUME IInv, NEW t \in Threads, NEW s \in Stripes, GetFoundBug(t, s)
    PROVE  IInv'
<1>1. /\ active' = IF handle[s] THEN active ELSE active + 1
      /\ bug' = "lru_empty"
      /\ UNCHANGED <<sector, count, handle, devVars, inactive, handleList,
                     limbo, asleep, wakeup, issued, actorVars, threadVars>>
    BY DEF GetFoundBug, WasFree
<1>2. TypeOK'
    BY <1>1 DEF IInv, TypeOK, devVars, actorVars, threadVars, Bugs
<1>3. Control'
    BY <1>1 DEF IInv, Control, actorVars, threadVars
<1>4. CountIsRefs'
    BY <1>1 DEF IInv, CountIsRefs, Refs, Holders, Queued, InFlight, actorVars,
                threadVars
<1>5. OneHome' /\ ActiveIsBusy' /\ AssertionsHold'
    BY <1>1 DEF OneHome, ActiveIsBusy, AssertionsHold
<1>6. HashUnique' /\ HandledIsHashed' /\ ListsByFlag' /\ NoLostWakeup'
    BY <1>1 DEF IInv, HashUnique, HandledIsHashed, ListsByFlag,
                NoLostWakeup, Elems, actorVars
<1> QED BY <1>2, <1>3, <1>4, <1>5, <1>6 DEF IInv

\* What get_free_stripe and __init_stripe find: the head of the inactive list
\* has no reference and no STRIPE_HANDLE, so that only its devices can stop
\* __init_stripe.
LEMMA FreeHead ==
    ASSUME IInv, bug = "none", inactive # << >>
    PROVE  /\ Head(inactive) \in Stripes
           /\ count[Head(inactive)] = 0
           /\ InitStripeBug(Head(inactive)) \in {"none", "init_dev"}
           /\ Tail(inactive) \in Seq(Stripes)
           /\ NoDuplicates(Tail(inactive))
           /\ Head(inactive) \in Elems(inactive)
           /\ Elems(Tail(inactive)) = Elems(inactive) \ {Head(inactive)}
<1>1. inactive \in Seq(Stripes) /\ NoDuplicates(inactive)
    BY DEF IInv, TypeOK, OneHome
<1>2. /\ Head(inactive) \in Stripes
      /\ Head(inactive) \in Elems(inactive)
      /\ Tail(inactive) \in Seq(Stripes)
      /\ NoDuplicates(Tail(inactive))
      /\ Elems(Tail(inactive)) = Elems(inactive) \ {Head(inactive)}
    BY <1>1, TailLemma
<1>3. count[Head(inactive)] = 0 /\ ~handle[Head(inactive)]
    BY <1>2 DEF IInv, OneHome, OnLru, ListsByFlag
<1>4. InitStripeBug(Head(inactive)) \in {"none", "init_dev"}
    BY <1>3 DEF InitStripeBug
<1> QED BY <1>2, <1>3, <1>4

\* get_active_stripe recycles the oldest inactive stripe.
LEMMA GetFreeStep ==
    ASSUME IInv, bug = "none", NEW t \in Threads, GetFree(t)
    PROVE  IInv'
<1>1. inactive # << >> /\ InLoop(t)
    BY DEF GetFree, FirstFree
<1>2. PICK s \in Stripes : s = Head(inactive)
    BY <1>1, FreeHead
<1>3. /\ \A x \in Stripes : sector[x] # bio[t].sector
      /\ inactive' = Tail(inactive)
      /\ active' = active + 1
      /\ bug' = InitStripeBug(s)
      /\ UNCHANGED <<handle, toread, towrite, handleList, limbo, asleep,
                     wakeup, issued, idx, threadVars>>
    BY <1>2 DEF GetFree, FirstFree, Miss, Cached
<1>4. /\ count[s] = 0
      /\ bug' \in {"none", "init_dev"}
      /\ inactive' \in Seq(Stripes)
      /\ s \in Elems(inactive)
      /\ Elems(inactive') = Elems(inactive) \ {s}
      /\ NoDuplicates(inactive')
    BY <1>1, <1>2, <1>3, FreeHead
<1>5. TypeOK /\ Control
    BY DEF IInv
<1>6. \A a \in Actors : pc[a] \in HoldingPcs => sh[a] # s
    BY <1>4, FreeStripe
<1>7. ListsByFlag' /\ AssertionsHold'
    <2>1. Elems(inactive)' = Elems(inactive') /\ handleList' = handleList
        BY <1>3 DEF Elems
    <2> QED BY <1>3, <1>4, <2>1
            DEF IInv, ListsByFlag, AssertionsHold, Elems
<1>8. inactive' # << >> => asleep' = {}
    BY <1>1, <1>3 DEF IInv, NoLostWakeup
<1>9. CASE InitStripeBug(s) = "none"
    <2>1. /\ sector' = [sector EXCEPT ![s] = bio[t].sector]
          /\ flags' = [flags EXCEPT ![s] = [d \in Disks |-> {}]]
          /\ endio' = [endio EXCEPT ![s] = [d \in Disks |-> "none"]]
          /\ count' = [count EXCEPT ![s] = @ + 1]
          /\ sh' = [sh EXCEPT ![t] = s]
          /\ pc' = [pc EXCEPT ![t] = "add"]
          /\ bug' = "none"
        BY <1>2, <1>3, <1>9 DEF GetFree, FirstFree
    <2>2. CountIsRefs' /\ count' \in [Stripes -> Int]
        <3>1. "add" \in HoldingPcs
            BY DEF HoldingPcs
        <3> QED
            BY <1>1, <1>3, <2>1, <3>1, InLoopLemma, TakeCount DEF threadVars
    <2>3. TypeOK'
        <3>1. sector' \in [Stripes -> Sectors \cup {None}]
            BY <1>1, <1>5, <2>1, InLoopLemma DEF TypeOK
        <3>2. flags' \in [Stripes -> [Disks -> SUBSET Flags]]
            BY <1>5, <2>1 DEF TypeOK
        <3>3. endio' \in [Stripes -> [Disks -> {"none", "read", "write"}]]
            BY <1>5, <2>1 DEF TypeOK
        <3>4. pc' \in [Actors -> ThreadPcs \cup DaemonPcs]
            BY <1>5, <2>1 DEF TypeOK, ThreadPcs, HoldingPcs
        <3>5. sh' \in [Actors -> Stripes \cup {None}]
            BY <1>5, <2>1 DEF TypeOK
        <3>6. active' \in Int
            BY <1>3, <1>5 DEF TypeOK
        <3> QED BY <1>3, <1>4, <1>5, <2>1, <2>2, <3>1, <3>2, <3>3, <3>4, <3>5,
                   <3>6
                DEF TypeOK, threadVars, Bugs
    <2>4. Control'
        <3>1. sector'[s] # None /\ \A x \in Stripes \ {s} : sector'[x] = sector[x]
            BY <1>1, <1>5, <2>1, InLoopLemma DEF TypeOK
        <3>2. /\ pc'[t] = "add" /\ sh'[t] = s
              /\ \A a \in Actors \ {t} : pc'[a] = pc[a] /\ sh'[a] = sh[a]
            BY <1>1, <1>5, <2>1, InLoopLemma DEF TypeOK
        <3>3. pc'[jraid5d] \in DaemonPcs /\ \A u \in Threads : pc'[u] \in ThreadPcs
            BY <1>1, <1>5, <3>2, InLoopLemma
            DEF Control, Actors, ThreadPcs, HoldingPcs
        <3>4. \A a \in Actors : /\ pc'[a] \in HoldingPcs =>
                                     sh'[a] \in Stripes /\ sector'[sh'[a]] # None
                                /\ pc'[a] \in {"scan", "submit"} =>
                                     idx'[a] \in Disks
            BY <1>3, <1>5, <1>6, <3>1, <3>2 DEF Control
        <3>5. ASSUME NEW u \in Threads
              PROVE  /\ pc'[u] \in HoldingPcs \cup {"get", "wait", "endio"} =>
                            bio'[u] \in Bios
                     /\ pc'[u] \in {"endio", "drain"} => sh'[u] \in Stripes
                     /\ bioList'[u] # {} =>
                            pc'[u] \in {"submit", "release", "endio", "drain"}
                     /\ pc'[u] = "submit" => \A d \in bioList'[u] : d > idx'[u]
            <4>1. CASE u = t
                BY <1>1, <1>3, <3>2, <4>1, InLoopLemma DEF threadVars
            <4>2. CASE u # t
                BY <1>3, <1>5, <3>2, <4>2 DEF Control, Actors, threadVars
            <4> QED BY <4>1, <4>2
        <3> QED BY <3>3, <3>4, <3>5 DEF Control
    <2>5. HashUnique' /\ HandledIsHashed'
        <3>1. HashUnique'
            BY <1>3, <1>5, <2>1 DEF IInv, HashUnique, TypeOK
        <3>2. HandledIsHashed'
            BY <1>1, <1>3, <1>5, <2>1, InLoopLemma
            DEF IInv, HandledIsHashed, TypeOK
        <3> QED BY <3>1, <3>2
    <2>6. OneHome'
        <3>1. count'[s] # 0 /\ \A x \in Stripes \ {s} : count'[x] = count[x]
            BY <1>4, <1>5, <2>1 DEF TypeOK
        <3>2. s \notin limbo /\ s \notin Elems(handleList)
            BY <1>4 DEF IInv, OneHome
        <3>3. /\ Elems(inactive)' = Elems(inactive')
              /\ NoDuplicates(inactive)' = NoDuplicates(inactive')
              /\ Elems(handleList)' = Elems(handleList)
              /\ NoDuplicates(handleList)' = NoDuplicates(handleList)
            BY <1>3 DEF Elems, NoDuplicates
        <3>4. \A x \in Stripes : count'[x] = 0 <=>
                \/ x \in Elems(inactive)' \/ x \in Elems(handleList)'
                \/ x \in limbo'
            BY <1>3, <1>4, <3>1, <3>2, <3>3 DEF IInv, OneHome, OnLru
        <3> QED BY <1>3, <1>4, <3>3, <3>4 DEF IInv, OneHome, OnLru
    <2>7. ActiveIsBusy'
        <3>1. Elems(inactive)' = Elems(inactive) \ {s}
            BY <1>4 DEF Elems
        <3>2. Cardinality(Busy') = Cardinality(Busy) + 1
            BY <1>4, <3>1, BusyAdd
        <3> QED BY <1>3, <3>2 DEF IInv, ActiveIsBusy
    <2>8. NoLostWakeup'
        BY <1>1, <1>3, <1>5, <1>8, <2>1, InLoopLemma
        DEF IInv, NoLostWakeup, TypeOK
    <2> QED BY <1>7, <2>2, <2>3, <2>4, <2>5, <2>6, <2>7, <2>8 DEF IInv
<1>10. CASE InitStripeBug(s) # "none"
    <2>1. /\ sector' = [sector EXCEPT ![s] = None]
          /\ UNCHANGED <<flags, endio, count, sh, pc>>
          /\ bug' = "init_dev"
        BY <1>2, <1>3, <1>4, <1>10 DEF GetFree, FirstFree
    <2>2. TypeOK'
        <3>1. sector' \in [Stripes -> Sectors \cup {None}]
            BY <1>5, <2>1 DEF TypeOK
        <3>2. active' \in Int
            BY <1>3, <1>5 DEF TypeOK
        <3> QED BY <1>3, <1>4, <1>5, <2>1, <3>1, <3>2
                DEF TypeOK, threadVars, Bugs
    <2>3. Control'
        <3>1. \A a \in Actors : pc[a] \in HoldingPcs =>
                    sh[a] \in Stripes /\ sector'[sh[a]] # None
            BY <1>5, <1>6, <2>1 DEF Control, TypeOK
        <3> QED BY <1>3, <1>5, <2>1, <3>1 DEF Control, threadVars
    <2>4. CountIsRefs'
        BY <1>3, <2>1
        DEF IInv, CountIsRefs, Refs, Holders, Queued, InFlight, threadVars
    <2>5. HashUnique' /\ HandledIsHashed'
        <3>1. HashUnique'
            BY <1>5, <2>1 DEF IInv, HashUnique, TypeOK
        <3>2. ~handle[s]
            BY <1>4 DEF IInv, ListsByFlag
        <3>3. HandledIsHashed'
            BY <1>3, <1>5, <2>1, <3>2 DEF IInv, HandledIsHashed, TypeOK
        <3> QED BY <3>1, <3>3
    <2>6. OneHome' /\ ActiveIsBusy'
        BY <2>1 DEF OneHome, ActiveIsBusy
    <2>7. NoLostWakeup'
        BY <1>3, <1>8, <2>1 DEF IInv, NoLostWakeup
    <2> QED BY <1>7, <2>2, <2>3, <2>4, <2>5, <2>6, <2>7 DEF IInv
<1> QED BY <1>9, <1>10

\* jraid5d takes the oldest stripe of the handle list: nobody else has a
\* reference on it.
LEMMA DaemonTakeStep ==
    ASSUME IInv, bug = "none", DaemonTake
    PROVE  IInv'
<1>1. TypeOK /\ Control /\ jraid5d \in Actors /\ jraid5d \notin Threads
    BY ConstantsAssumption DEF IInv, Actors
<1>2. /\ handleList # << >> /\ handleList \in Seq(Stripes)
      /\ NoDuplicates(handleList) /\ pc[jraid5d] = "loop"
    BY <1>1 DEF DaemonTake, IInv, OneHome, TypeOK
<1>3. PICK s \in Stripes : s = Head(handleList)
    BY <1>2, TailLemma
<1>4. /\ s \in Elems(handleList)
      /\ Tail(handleList) \in Seq(Stripes)
      /\ NoDuplicates(Tail(handleList))
      /\ Elems(Tail(handleList)) = Elems(handleList) \ {s}
    BY <1>2, <1>3, TailLemma
<1>5. count[s] = 0 /\ handle[s]
    BY <1>4 DEF IInv, OneHome, OnLru, ListsByFlag
<1>6. /\ handleList' = Tail(handleList)
      /\ count' = [count EXCEPT ![s] = @ + 1]
      /\ sh' = [sh EXCEPT ![jraid5d] = s]
      /\ idx' = [idx EXCEPT ![jraid5d] = NDisks - 1]
      /\ pc' = [pc EXCEPT ![jraid5d] = "scan"]
      /\ UNCHANGED <<sector, handle, devVars, inactive, active, limbo, asleep,
                     wakeup, issued, threadVars, bug>>
    BY <1>3, <1>5 DEF DaemonTake
<1>7. CountIsRefs' /\ count' \in [Stripes -> Int]
    <2>1. "scan" \in HoldingPcs /\ pc[jraid5d] \notin HoldingPcs
        BY <1>2 DEF HoldingPcs
    <2> QED BY <1>1, <1>6, <2>1, TakeCount DEF threadVars
<1>8. TypeOK'
    <2>1. NDisks - 1 \in Disks
        BY ConstantsAssumption DEF Disks
    <2>2. /\ pc' \in [Actors -> ThreadPcs \cup DaemonPcs]
          /\ sh' \in [Actors -> Stripes \cup {None}]
          /\ idx' \in [Actors -> Disks \cup {-1}]
        BY <1>1, <1>6, <2>1 DEF TypeOK, DaemonPcs
    <2> QED BY <1>1, <1>4, <1>6, <1>7, <2>2 DEF TypeOK, devVars, threadVars
<1>9. Control'
    <2>1. sector[s] # None /\ NDisks - 1 \in Disks
        BY <1>5, ConstantsAssumption DEF IInv, HandledIsHashed, Disks
    <2> QED BY <1>1, <1>6, <2>1
            DEF TypeOK, Control, DaemonPcs, HoldingPcs, Actors, threadVars
<1>10. OneHome'
    <2>1. count'[s] # 0 /\ \A x \in Stripes \ {s} : count'[x] = count[x]
        BY <1>1, <1>5, <1>6 DEF TypeOK
    <2>2. s \notin limbo /\ s \notin Elems(inactive)
        BY <1>4 DEF IInv, OneHome
    <2>3. /\ Elems(handleList)' = Elems(handleList) \ {s}
          /\ NoDuplicates(handleList)'
          /\ Elems(inactive)' = Elems(inactive)
          /\ NoDuplicates(inactive)' = NoDuplicates(inactive)
        BY <1>4, <1>6 DEF Elems, NoDuplicates
    <2>4. \A x \in Stripes : count'[x] = 0 <=>
            x \in Elems(inactive)' \/ x \in Elems(handleList)' \/ x \in limbo'
        BY <1>6, <2>1, <2>2, <2>3 DEF IInv, OneHome, OnLru
    <2> QED BY <1>6, <2>3, <2>4 DEF IInv, OneHome, OnLru
<1>11. ActiveIsBusy' /\ HashUnique' /\ HandledIsHashed' /\ AssertionsHold'
    BY <1>6 DEF IInv, ActiveIsBusy, Busy, Elems, HashUnique, HandledIsHashed,
                AssertionsHold
<1>12. ListsByFlag'
    <2>1. Elems(handleList)' = Elems(handleList) \ {s}
        BY <1>4, <1>6 DEF Elems
    <2>2. Elems(inactive)' = Elems(inactive)
        BY <1>6 DEF Elems
    <2> QED BY <1>6, <2>1, <2>2 DEF IInv, ListsByFlag
<1>13. NoLostWakeup'
    BY <1>1, <1>6 DEF IInv, NoLostWakeup, TypeOK
<1> QED BY <1>7, <1>8, <1>9, <1>10, <1>11, <1>12, <1>13 DEF IInv

-----------------------------------------------------------------------------
(***************************************************************************)
(* The theorems                                                            *)
(***************************************************************************)

\* An unlocked release meets another list operation: only bug changes.
LEMMA ListRaceStep ==
    ASSUME IInv, NEW s \in Stripes, ListRace(s)
    PROVE  IInv'
<1> USE DEF IInv, ListRace, devVars, lruVars, actorVars, threadVars
<1>1. TypeOK'
    BY DEF TypeOK, Bugs
<1>2. Control'
    BY DEF Control
<1>4. CountIsRefs'
    BY DEF CountIsRefs, Refs, Holders, Queued, InFlight
<1>5. bug' # "none" /\ AssertionsHold'
    BY DEF AssertionsHold
<1>6. OneHome' /\ ActiveIsBusy'
    BY <1>5 DEF OneHome, ActiveIsBusy
<1>7. HashUnique' /\ HandledIsHashed'
    BY DEF HashUnique, HandledIsHashed
<1>8. ListsByFlag' /\ NoLostWakeup'
    BY DEF ListsByFlag, NoLostWakeup, Elems
<1> QED BY <1>1, <1>2, <1>4, <1>5, <1>6, <1>7, <1>8

\* grow_stripes establishes the invariant: all stripes free, none referenced.
LEMMA InitIInv == Init => IInv
<1> SUFFICES ASSUME Init PROVE IInv
    OBVIOUS
<1>1. TypeOK
    <2>1. /\ issued \in [Stripes -> [Disks -> 0..MaxIo]]
          /\ idx \in [Actors -> Disks \cup {-1}]
        BY ConstantsAssumption DEF Init, Disks
    <2>2. /\ pc \in [Actors -> ThreadPcs \cup DaemonPcs]
          /\ sh \in [Actors -> Stripes \cup {None}]
        BY DEF Init, ThreadPcs, DaemonPcs
    <2>3. /\ sector \in [Stripes -> Sectors \cup {None}]
          /\ count \in [Stripes -> Int]
          /\ handle \in [Stripes -> BOOLEAN]
          /\ active \in Int /\ bug \in Bugs
          /\ inactive \in Seq(Stripes) /\ handleList \in Seq(Stripes)
        BY InitialListAssumption DEF Init, Bugs
    <2>4. /\ toread \in [Stripes -> [Disks -> Threads \cup {None, Stale}]]
          /\ towrite \in [Stripes -> [Disks -> Threads \cup {None, Stale}]]
          /\ flags \in [Stripes -> [Disks -> SUBSET Flags]]
          /\ endio \in [Stripes -> [Disks -> {"none", "read", "write"}]]
        BY DEF Init
    <2>5. /\ limbo \in SUBSET Stripes /\ asleep \in SUBSET Threads
          /\ wakeup \in BOOLEAN
          /\ bio \in [Threads -> Bios \cup {None}]
          /\ bioList \in [Threads -> SUBSET Disks]
          /\ done \in [Threads -> Nat]
        BY DEF Init
    <2> QED BY <2>1, <2>2, <2>3, <2>4, <2>5 DEF TypeOK
<1>2. Control
    BY ConstantsAssumption
    DEF Init, Control, ThreadPcs, HoldingPcs, DaemonPcs, Actors
<1>3. CountIsRefs
    <2> SUFFICES ASSUME NEW s \in Stripes PROVE count[s] = Refs(s)
        BY DEF CountIsRefs
    <2>1. Holders(s) = {} /\ Queued(s) = {}
        BY ConstantsAssumption DEF Init, Holders, Queued, HoldingPcs, Actors
    <2>2. InFlight(s) = {}
        BY ConstantsAssumption DEF Init, InFlight
    <2>3. count[s] = 0
        BY DEF Init
    <2> QED BY <2>1, <2>2, <2>3, FS_EmptySet DEF Refs
<1>4. /\ Elems(inactive) = Stripes /\ NoDuplicates(inactive)
      /\ Elems(handleList) = {} /\ NoDuplicates(handleList)
    BY InitialListAssumption DEF Init, Elems, NoDuplicates
<1>5. OneHome
    BY <1>4 DEF Init, OneHome, OnLru
<1>6. ActiveIsBusy
    <2>1. Busy = {}
        BY <1>4 DEF Busy
    <2> QED BY <2>1, FS_EmptySet DEF Init, ActiveIsBusy
<1>7. HashUnique /\ HandledIsHashed /\ ListsByFlag /\ AssertionsHold
    BY <1>4 DEF Init, HashUnique, HandledIsHashed, ListsByFlag, AssertionsHold
<1>8. NoLostWakeup
    BY DEF Init, NoLostWakeup
<1> QED BY <1>1, <1>2, <1>3, <1>5, <1>6, <1>7, <1>8 DEF IInv

\* Every step of every actor, disk and interrupt keeps the invariant.
LEMMA NextIInv == IInv /\ [Next]_vars => IInv'
<1> SUFFICES ASSUME IInv, [Next]_vars PROVE IInv'
    OBVIOUS
<1>1. CASE UNCHANGED vars
    <2> USE <1>1 DEF vars, devVars, lruVars, actorVars, threadVars
    <2>1. TypeOK' /\ Control'
        <3>1. TypeOK' BY DEF IInv, TypeOK
        <3>2. Control' BY DEF IInv, Control
        <3> QED BY <3>1, <3>2
    <2>2. \A x \in Stripes : Holders(x)' = Holders(x)
        BY DEF Holders
    <2>3. NoLostWakeup'
        BY DEF IInv, NoLostWakeup
    <2> QED BY <2>1, <2>2, <2>3, LocalStep
<1>2. ASSUME bug = "none", NEW a \in Actors, HandleStep(a)
      PROVE  IInv'
    BY <1>2, ScanDevStep, MarkParityStep, SkipDevStep, SubmitDevStep,
       AbsentDevStep, ReleaseActorStep DEF HandleStep
<1>3. ASSUME bug = "none", NEW t \in Threads, Request(t) \/ ThreadStep(t)
      PROVE  IInv'
    <2>1. t \in Actors
        BY DEF Actors
    <2> QED BY <1>2, <1>3, <2>1, RequestStep, GetFreeStep, GetWaitStep,
               GetFoundStep, GetFoundBugStep, AddStripeBioStep, EndBioStep,
               IssueQueuedStep, ReturnStep DEF ThreadStep
<1>4. ASSUME bug = "none", DaemonStep
      PROVE  IInv'
    <2>1. jraid5d \in Actors
        BY DEF Actors
    <2> QED BY <1>2, <1>4, <2>1, DaemonWakeStep, DaemonTakeStep,
               DaemonSleepStep DEF DaemonStep
<1>5. ASSUME bug = "none", NEW s \in Stripes, NEW d \in Disks, DiskStep(s, d)
      PROVE  IInv'
    BY <1>5, EndReadStep, EndWriteStep DEF DiskStep
<1>6. ASSUME bug = "none", NEW s \in Stripes, EndWriteList(s)
      PROVE  IInv'
    BY <1>6, EndWriteListStep
<1>7. ASSUME bug = "none", NEW s \in Stripes, ListRace(s)
      PROVE  IInv'
    BY <1>7, ListRaceStep
<1> QED BY <1>1, <1>3, <1>4, <1>5, <1>6, <1>7 DEF Next, Step, Halted

\* The inductive invariant holds in every reachable state of the stripe cache.
THEOREM IInvHolds == Spec => []IInv
<1>1. Init => IInv
    BY InitIInv
<1>2. IInv /\ [Next]_vars => IInv'
    BY NextIInv
<1> QED BY <1>1, <1>2, PTL DEF Spec

\* The state keeps its types.
THEOREM TypeCorrect == Spec => []TypeOK
<1>1. IInv => TypeOK
    BY DEF IInv
<1> QED BY <1>1, IInvHolds, PTL

\* sh->count is the number of actors and disk requests that use the stripe.
THEOREM CountCorrect == Spec => []CountIsRefs
<1>1. IInv => CountIsRefs
    BY DEF IInv
<1> QED BY <1>1, IInvHolds, PTL

\* A stripe is referenced, on one list, or in the hands of one unlocked
\* release: never in two of these places.
THEOREM HomeCorrect == Spec => []OneHome
<1>1. IInv => OneHome
    BY DEF IInv
<1> QED BY <1>1, IInvHolds, PTL

\* active_stripes is the number of stripes that are not on the inactive list.
THEOREM ActiveCorrect == Spec => []ActiveIsBusy
<1>1. IInv => ActiveIsBusy
    BY DEF IInv
<1> QED BY <1>1, IInvHolds, PTL

\* No sector is cached twice.
THEOREM HashCorrect == Spec => []HashUnique
<1>1. IInv => HashUnique
    BY DEF IInv
<1> QED BY <1>1, IInvHolds, PTL

\* An unreferenced stripe that is not in the middle of an unlocked release waits
\* on the handle list if and only if STRIPE_HANDLE is set, and is free if and
\* only if it is not.
THEOREM HandleListCorrect == Spec => []HandleListed
<1>1. IInv => HandleListed
    BY DEF IInv, OneHome, OnLru, ListsByFlag, HandleListed
<1> QED BY <1>1, IInvHolds, PTL

\* The assertions of __init_stripe on count and STRIPE_HANDLE and the one of
\* jraid5d never fire.
THEOREM AssertionsCorrect == Spec => []AssertionsHold
<1>1. IInv => AssertionsHold
    BY DEF IInv
<1> QED BY <1>1, IInvHolds, PTL

\* No task sleeps for a stripe while one is free; jraid5d does not sleep while
\* a stripe waits for it.
THEOREM WakeupCorrect == Spec => []NoLostWakeup
<1>1. IInv => NoLostWakeup
    BY DEF IInv
<1> QED BY <1>1, IInvHolds, PTL

\* Only get_active_stripe changes the sector of a stripe head, and it does so
\* to a stripe that nobody references.
THEOREM SectorStableHolds == Spec => SectorStable
<1> DEFINE A == \A s \in Stripes : sector'[s] # sector[s] => Refs(s) = 0
<1>1. IInv /\ [Next]_vars => [A]_vars
    <2> SUFFICES ASSUME IInv, [Next]_vars, NEW s \in Stripes,
                        sector'[s] # sector[s]
                 PROVE  Refs(s) = 0
        OBVIOUS
    <2>1. bug = "none" /\ Step
        BY DEF Next, Halted, vars
    <2>2. PICK t \in Threads : GetFree(t)
        BY <2>1
        DEF Step, ThreadStep, DaemonStep, DiskStep, HandleStep, Request,
            GetWait, GetFound, GetFoundBug, AddStripeBio, ScanDev, MarkParity,
            SkipDev, SubmitDev, RefRequest, TakeOffLru, AbsentDev,
            ReleaseActor, EndBio, IssueQueued,
            Return, EndRead, EndWrite, EndWriteList, ListRace, DaemonWake, DaemonTake,
            DaemonSleep
    <2>3. inactive # << >> /\ s = Head(inactive)
        BY <2>2 DEF GetFree, FirstFree, IInv, TypeOK
    <2> QED BY <2>1, <2>3, FreeHead, FreeStripe
<1> QED BY <1>1, IInvHolds, PTL DEF Spec, SectorStable
=============================================================================
