----------------------------- MODULE StripePool -----------------------------
(***************************************************************************)
(* What the stripe cache of src/src/jraid5.c promises, without its lists,  *)
(* locks, flags and sleeping tasks: a pool of stripe heads that are leased *)
(* by sector.  Every user of a sector, be it a task, the daemon or a disk  *)
(* request, shares the one head that caches it; a head changes its sector  *)
(* only when nobody uses it.                                               *)
(***************************************************************************)
EXTENDS Integers

CONSTANTS
    Stripes,    \* stripe heads
    Sectors,    \* per-disk sectors
    None        \* no sector

VARIABLES
    sector,     \* the sector a head caches
    refs        \* the number of users of a head

vars == <<sector, refs>>

Init ==
    /\ sector = [s \in Stripes |-> None]
    /\ refs = [s \in Stripes |-> 0]

\* A user joins the head that caches a sector.
Share(s) ==
    /\ sector[s] # None
    /\ refs' = [refs EXCEPT ![s] = @ + 1]
    /\ UNCHANGED sector

\* A sector that no head caches is given an unused head.
Recycle(s, k) ==
    /\ refs[s] = 0
    /\ \A u \in Stripes : sector[u] # k
    /\ sector' = [sector EXCEPT ![s] = k]
    /\ refs' = [refs EXCEPT ![s] = 1]

\* A user leaves.
Leave(s) ==
    /\ refs[s] > 0
    /\ refs' = [refs EXCEPT ![s] = @ - 1]
    /\ UNCHANGED sector

\* An unused head is taken out of the hash and an assertion stops the kernel.
Drop(s) ==
    /\ refs[s] = 0
    /\ sector' = [sector EXCEPT ![s] = None]
    /\ UNCHANGED refs

Next ==
    \E s \in Stripes :
        \/ Share(s) \/ Leave(s) \/ Drop(s)
        \/ \E k \in Sectors : Recycle(s, k)

Spec == Init /\ [][Next]_vars
=============================================================================
