------------------------- MODULE StripePool_proofs -------------------------
(***************************************************************************)
(* Proof that the stripe cache implements StripePool.  By CountIsRefs the  *)
(* owners of a stripe are sh->count in number before and after a step, so  *)
(* each action is matched with a step of the pool on sh->count first.      *)
(***************************************************************************)
EXTENDS StripeCache_proofs

CountPool == INSTANCE StripePool WITH refs <- count

\* The first reference on a cached stripe, or one more, is Share.
LEMMA GetFoundPool ==
    ASSUME IInv, NEW t \in Threads, NEW s \in Stripes, GetFound(t, s)
    PROVE  CountPool!Share(s)
<1>1. sector[s] # None
    BY InLoopLemma DEF GetFound, Cached
<1> QED BY <1>1 DEF GetFound, CountPool!Share

\* Recycling a free stripe is Recycle; stopping at a BUG() is Drop.
LEMMA GetFreePool ==
    ASSUME IInv, bug = "none", NEW t \in Threads, GetFree(t)
    PROVE  CountPool!Next
<1> DEFINE s == Head(inactive)
           k == bio[t].sector
<1>1. inactive # << >> /\ InLoop(t) /\ Miss(t)
    BY DEF GetFree
<1>2. s \in Stripes /\ count[s] = 0
    BY <1>1, FreeHead
<1>3. k \in Sectors /\ \A u \in Stripes : sector[u] # k
    BY <1>1, InLoopLemma DEF Miss, Cached
<1>4. CASE InitStripeBug(s) = "none"
    <2>1. /\ sector' = [sector EXCEPT ![s] = k]
          /\ count' = [count EXCEPT ![s] = @ + 1]
        BY <1>4 DEF GetFree, FirstFree
    <2>2. count' = [count EXCEPT ![s] = 1]
        BY <1>2, <2>1 DEF IInv, TypeOK
    <2>3. CountPool!Recycle(s, k)
        BY <1>2, <1>3, <2>1, <2>2 DEF CountPool!Recycle
    <2> QED BY <1>2, <1>3, <2>3 DEF CountPool!Next
<1>5. CASE InitStripeBug(s) # "none"
    <2>1. CountPool!Drop(s)
        BY <1>2, <1>5 DEF GetFree, FirstFree, CountPool!Drop
    <2> QED BY <1>2, <2>1 DEF CountPool!Next
<1> QED BY <1>4, <1>5

\* A request that handle_stripe submits joins the stripe of the actor.
LEMMA SubmitPool ==
    ASSUME IInv, NEW a \in Actors, SubmitDev(a)
    PROVE  CountPool!Next
<1>1. sh[a] \in Stripes /\ sector[sh[a]] # None
    BY DEF SubmitDev, IInv, Control, HoldingPcs
<1>2. CountPool!Share(sh[a])
    BY <1>1 DEF SubmitDev, RefRequest, CountPool!Share
<1> QED BY <1>1, <1>2 DEF CountPool!Next

\* The actor leaves its stripe.
LEMMA ReleasePool ==
    ASSUME IInv, bug = "none", NEW a \in Actors, ReleaseActor(a)
    PROVE  CountPool!Next
<1>1. sh[a] \in Stripes /\ count[sh[a]] > 0
    BY HeldStripe DEF ReleaseActor, HoldingPcs
<1>2. CountPool!Leave(sh[a])
    BY <1>1 DEF ReleaseActor, ReleaseStripe, CountPool!Leave
<1> QED BY <1>1, <1>2 DEF CountPool!Next

\* A request that the disk has ended leaves its stripe.
LEMMA DiskPool ==
    ASSUME IInv, NEW s \in Stripes, NEW d \in Disks, DiskStep(s, d)
    PROVE  CountPool!Next
<1>1. /\ issued[s][d] > 0
      /\ issued' = [issued EXCEPT ![s][d] = @ - 1]
      /\ count' = [count EXCEPT ![s] = @ - 1]
      /\ UNCHANGED <<sector, actorVars, threadVars>>
    BY DEF DiskStep, EndRead, EndWrite, ReleaseStripe
<1>2. count[s] > 0
    BY <1>1, EndIoRefs
<1>3. CountPool!Leave(s)
    BY <1>1, <1>2 DEF CountPool!Leave
<1> QED BY <1>3 DEF CountPool!Next

\* jraid5d joins the stripe it takes off the handle list.
LEMMA DaemonTakePool ==
    ASSUME IInv, bug = "none", DaemonTake
    PROVE  CountPool!Next
<1>1. handleList # << >> /\ handleList \in Seq(Stripes) /\ NoDuplicates(handleList)
    BY DEF DaemonTake, IInv, OneHome, TypeOK
<1>2. PICK s \in Stripes : s = Head(handleList)
    BY <1>1, TailLemma
<1>3. s \in Elems(handleList)
    BY <1>1, <1>2, TailLemma
<1>4. sector[s] # None
    BY <1>3 DEF IInv, ListsByFlag, HandledIsHashed
<1>5. CountPool!Share(s)
    BY <1>2, <1>4 DEF DaemonTake, CountPool!Share
<1> QED BY <1>5 DEF CountPool!Next

\* The steps that are left change no sector and no count.
LEMMA StepPool ==
    ASSUME IInv, [Next]_vars
    PROVE  [CountPool!Next]_(CountPool!vars)
<1> USE DEF CountPool!vars
<1>1. CASE UNCHANGED vars
    BY <1>1 DEF vars
<1>2. ASSUME bug = "none", NEW a \in Actors, HandleStep(a)
      PROVE  [CountPool!Next]_(CountPool!vars)
    BY <1>2, SubmitPool, ReleasePool
    DEF HandleStep, ScanDev, MarkParity, SkipDev, AbsentDev
<1>3. ASSUME bug = "none", NEW t \in Threads, Request(t) \/ ThreadStep(t)
      PROVE  [CountPool!Next]_(CountPool!vars)
    <2>1. t \in Actors
        BY DEF Actors
    <2>2. ASSUME NEW s \in Stripes, GetFound(t, s) \/ GetFoundBug(t, s)
          PROVE  [CountPool!Next]_(CountPool!vars)
        BY <2>2, GetFoundPool DEF GetFoundBug, CountPool!Next
    <2> QED BY <1>2, <1>3, <2>1, <2>2, GetFreePool
            DEF ThreadStep, Request, GetWait, AddStripeBio, EndBio,
                IssueQueued, Return
<1>4. ASSUME bug = "none", DaemonStep
      PROVE  [CountPool!Next]_(CountPool!vars)
    <2>1. jraid5d \in Actors
        BY DEF Actors
    <2> QED BY <1>2, <1>4, <2>1, DaemonTakePool
            DEF DaemonStep, DaemonWake, DaemonSleep
<1>5. ASSUME NEW s \in Stripes, EndWriteList(s) \/ ListRace(s)
      PROVE  [CountPool!Next]_(CountPool!vars)
    BY <1>5 DEF EndWriteList, ListRace
<1> QED BY <1>1, <1>3, <1>4, <1>5, DiskPool DEF Next, Step, Halted

\* By CountIsRefs the count and the number of owners are the same function.
LEMMA CountIsOwners ==
    ASSUME IInv
    PROVE  count = [s \in Stripes |-> Refs(s)]
BY DEF IInv, CountIsRefs, TypeOK

\* The stripe cache of jraid5.c implements the abstract pool: seen through the
\* sectors and the owners of its stripe heads, every behaviour is one of
\* StripePool, for any number of threads, heads, sectors and disks.
THEOREM PoolRefinement == Spec => RefinesPool
<1>1. Init => Pool!Init
    <2> SUFFICES ASSUME Init PROVE Pool!Init
        OBVIOUS
    <2>1. count = [s \in Stripes |-> Refs(s)]
        BY InitIInv, CountIsOwners
    <2> QED BY <2>1 DEF Init, Pool!Init
<1>2. IInv /\ IInv' /\ [Next]_vars => [Pool!Next]_(Pool!vars)
    <2> SUFFICES ASSUME IInv, IInv', [Next]_vars
                 PROVE  [Pool!Next]_(Pool!vars)
        OBVIOUS
    <2>1. count = [s \in Stripes |-> Refs(s)]
        BY CountIsOwners
    <2>2. count' = [s \in Stripes |-> Refs(s)]'
        BY DEF IInv, CountIsRefs, TypeOK
    <2>3. [CountPool!Next]_(CountPool!vars)
        BY StepPool
    <2> QED BY <2>1, <2>2, <2>3
            DEF Pool!Next, Pool!vars, Pool!Share, Pool!Leave, Pool!Drop,
                Pool!Recycle, CountPool!Next, CountPool!vars, CountPool!Share,
                CountPool!Leave, CountPool!Drop, CountPool!Recycle
<1> QED BY <1>1, <1>2, IInvHolds, PTL DEF Spec, RefinesPool, Pool!Spec
=============================================================================
