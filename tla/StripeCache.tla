---------------------------- MODULE StripeCache ----------------------------
(***************************************************************************)
(* The stripe cache of src/src/jraid5.c: stripe heads with a reference     *)
(* count, the sector hash, the inactive and the handle list, the request   *)
(* path jraid5_make_request, the daemon jraid5d and the two completion     *)
(* handlers raid5_end_read_request and raid5_end_write_request.            *)
(*                                                                         *)
(* A section of code run under conf->device_lock is one action.  The steps *)
(* of handle_stripe run without any lock and are one action per device.    *)
(* raid5_end_write_request calls __release_stripe WITHOUT the lock, so it  *)
(* is two actions: the atomic_dec_and_test, and what follows when the      *)
(* count reached zero; between them the stripe is in `limbo'.              *)
(*                                                                         *)
(* A BUG() stops the model: `bug' names the assertion that fired.          *)
(***************************************************************************)
EXTENDS Integers, Sequences, FiniteSets

CONSTANTS
    Threads,    \* tasks that submit bios to the array
    Stripes,    \* the stripe heads that grow_stripes allocates
    Sectors,    \* per-disk sectors, the keys of the stripe hash
    NDisks,     \* conf->raid_disks
    Absent,     \* disks i with conf->disks[i].jrdev = NULL
    Dirs,       \* directions of the bios submitted: subset of {"read","write"}
    Parity,     \* pd_idx of each sector, as jraid5_compute_sector returns it
    InitialList,\* the order in which grow_stripes allocated the stripe heads
    MaxBios,    \* bound: bios one thread submits
    MaxIo,      \* bound: requests a disk queue accepts for one r5dev.req
    jraid5d,    \* the raid daemon
    None,       \* a NULL pointer
    Stale       \* a pointer to a bio that bio_endio has already returned

Disks == 0..(NDisks - 1)
Actors == Threads \cup {jraid5d}

ASSUME ConstantsAssumption ==
    /\ NDisks \in Nat /\ NDisks >= 2
    /\ Absent \subseteq Disks
    /\ Dirs \subseteq {"read", "write"}
    /\ Parity \in [Sectors -> Disks]
    /\ MaxBios \in Nat /\ MaxIo \in Nat
    /\ IsFiniteSet(Threads) /\ IsFiniteSet(Stripes)
    /\ jraid5d \notin Threads
    /\ None \notin Sectors \cup Stripes \cup Threads
    /\ Stale \notin Threads \cup {None}

\* grow_stripes releases every stripe head it allocates, once.
ASSUME InitialListAssumption ==
    /\ InitialList \in Seq(Stripes)
    /\ \A s \in Stripes : \E i \in DOMAIN InitialList : InitialList[i] = s
    /\ \A i, j \in DOMAIN InitialList :
            InitialList[i] = InitialList[j] => i = j

Bugs == {"none", "init_count", "init_handle", "init_dev", "lru_empty",
         "daemon_count", "list_race"}
\* Control points at which an actor owns a reference on its stripe.
HoldingPcs == {"add", "scan", "parity", "submit", "release"}
ThreadPcs == HoldingPcs \cup {"idle", "get", "wait", "endio", "drain"}
DaemonPcs == {"sleep", "loop", "scan", "parity", "submit", "release"}
\* The bits of dev[i].flags that some live code tests, besides R5_Overlap; left
\* out is R5_OVERWRITE, which __add_stripe_bio sets and nothing reads.
Flags == {"UPTODATE", "LOCKED", "Insync", "Wantread", "Wantwrite", "Overlap"}

VARIABLES
    sector,     \* sh->sector when sh is in the hash, None otherwise
    count,      \* sh->count
    handle,     \* STRIPE_HANDLE in sh->state
    toread,     \* head of dev[i].toread: a thread's current bio, Stale or None
    towrite,    \* head of dev[i].towrite
    flags,      \* dev[i].flags
    endio,      \* dev[i].req.bi_end_io
    inactive,   \* conf->inactive_list
    handleList, \* conf->handle_list
    active,     \* conf->active_stripes
    limbo,      \* stripes whose count an unlocked release brought to 0
    asleep,     \* threads asleep on conf->wait_for_stripe
    wakeup,     \* THREAD_WAKEUP of conf->thread
    issued,     \* requests of dev[i].req that the disk has and has not ended
    pc, sh, idx,\* control point, local sh and loop index of an actor
    bio,        \* the bio a thread is submitting
    bioList,    \* current->bio_list: devices whose req awaits the outer
                \* generic_make_request of the thread
    done,       \* bios the thread has submitted
    bug         \* the BUG() that fired

devVars == <<toread, towrite, flags, endio>>
lruVars == <<inactive, handleList, active, limbo>>
actorVars == <<pc, sh, idx>>
threadVars == <<bio, bioList, done>>
vars == <<sector, count, handle, devVars, lruVars, asleep, wakeup, issued,
          actorVars, threadVars, bug>>

Bios == {b \in [sector : Sectors, dd : Disks, rw : Dirs] :
            b.dd # Parity[b.sector]}

Elems(q) == {q[i] : i \in DOMAIN q}

OnLru(s) == s \in Elems(inactive) \cup Elems(handleList)

\* list_del of the entry s.
ListDel(q, s) ==
    IF s \notin Elems(q) THEN q
    ELSE LET k == CHOOSE i \in DOMAIN q : q[i] = s
         IN [j \in 1..(Len(q) - 1) |-> IF j < k THEN q[j] ELSE q[j + 1]]

-----------------------------------------------------------------------------
\* grow_stripes: every stripe head is created with one reference and released.
Init ==
    /\ sector = [s \in Stripes |-> None]
    /\ count = [s \in Stripes |-> 0]
    /\ handle = [s \in Stripes |-> FALSE]
    /\ toread = [s \in Stripes |-> [d \in Disks |-> None]]
    /\ towrite = [s \in Stripes |-> [d \in Disks |-> None]]
    /\ flags = [s \in Stripes |-> [d \in Disks |-> {}]]
    /\ endio = [s \in Stripes |-> [d \in Disks |-> "none"]]
    /\ inactive = InitialList
    /\ handleList = << >>
    /\ active = 0
    /\ limbo = {}
    /\ asleep = {}
    /\ wakeup = FALSE
    /\ issued = [s \in Stripes |-> [d \in Disks |-> 0]]
    /\ pc = [a \in Actors |-> IF a = jraid5d THEN "sleep" ELSE "idle"]
    /\ sh = [a \in Actors |-> None]
    /\ idx = [a \in Actors |-> 0]
    /\ bio = [t \in Threads |-> None]
    /\ bioList = [t \in Threads |-> {}]
    /\ done = [t \in Threads |-> 0]
    /\ bug = "none"

\* Mutant: a stripe becomes free and wait_for_stripe is not woken.
PutOnLruNoWake(s) ==
    IF handle[s]
    THEN /\ handleList' = Append(handleList, s)
         /\ wakeup' = TRUE
         /\ UNCHANGED <<inactive, active, asleep>>
    ELSE /\ inactive' = Append(inactive, s)
         /\ active' = active - 1
         /\ UNCHANGED <<handleList, wakeup, asleep>>

\* Mutant: a stripe is put on the handle list and jraid5d is not woken.
PutOnLruNoThread(s) ==
    IF handle[s]
    THEN /\ handleList' = Append(handleList, s)
         /\ UNCHANGED <<inactive, active, asleep, wakeup>>
    ELSE /\ inactive' = Append(inactive, s)
         /\ active' = active - 1
         /\ asleep' = {}
         /\ UNCHANGED <<handleList, wakeup>>

\* Mutant: STRIPE_HANDLE is not tested, every stripe goes to the free list.
PutOnLruInactive(s) ==
    /\ inactive' = Append(inactive, s)
    /\ active' = active - 1
    /\ asleep' = {}
    /\ UNCHANGED <<handleList, wakeup>>

\* The part of __release_stripe after atomic_dec_and_test returned true: the
\* stripe goes to the handle list (waking jraid5d) or to the inactive list
\* (waking every task on wait_for_stripe).
PutOnLru(s) ==
    IF handle[s]
    THEN /\ handleList' = Append(handleList, s)
         /\ wakeup' = TRUE
         /\ UNCHANGED <<inactive, active, asleep>>
    ELSE /\ inactive' = Append(inactive, s)
         /\ active' = active - 1
         /\ asleep' = {}
         /\ UNCHANGED <<handleList, wakeup>>

\* Mutant: a reference is dropped and the stripe listed without the test.
ReleaseStripeAlways(s) ==
    /\ count' = [count EXCEPT ![s] = @ - 1]
    /\ PutOnLru(s)
    /\ UNCHANGED limbo

\* release_stripe: __release_stripe under device_lock.
ReleaseStripe(s) ==
    /\ count' = [count EXCEPT ![s] = @ - 1]
    /\ IF count[s] = 1
       THEN PutOnLru(s)
       ELSE UNCHANGED <<inactive, handleList, active, asleep, wakeup>>
    /\ UNCHANGED limbo

-----------------------------------------------------------------------------
\* Mutant: the data disk index is not moved past the parity disk.
RequestOnParity(t) ==
    /\ pc[t] = "idle"
    /\ done[t] < MaxBios
    /\ \E b \in [sector : Sectors, dd : Disks, rw : Dirs] :
            bio' = [bio EXCEPT ![t] = b]
    /\ pc' = [pc EXCEPT ![t] = "get"]
    /\ UNCHANGED <<sector, count, handle, devVars, lruVars, asleep, wakeup,
                   issued, sh, idx, bioList, done, bug>>

\* jmd_make_request enters jraid5_make_request with a bio; compute_sector has
\* given its stripe sector and data disk.
Request(t) ==
    /\ pc[t] = "idle"
    /\ done[t] < MaxBios
    /\ \E b \in Bios : bio' = [bio EXCEPT ![t] = b]
    /\ pc' = [pc EXCEPT ![t] = "get"]
    /\ UNCHANGED <<sector, count, handle, devVars, lruVars, asleep, wakeup,
                   issued, sh, idx, bioList, done, bug>>

\* get_active_stripe is at the top of its loop: it has just taken the lock, or
\* wait_event_lock_irq has returned with the inactive list not empty.
InLoop(t) ==
    \/ pc[t] = "get"
    \/ pc[t] = "wait" /\ t \notin asleep /\ inactive # << >>

\* __find_stripe
Cached(t, s) == sector[s] = bio[t].sector

\* Mutant: __find_stripe finds nothing.
AlwaysMiss(t) == TRUE

Miss(t) == \A s \in Stripes : ~Cached(t, s)

\* Mutant: STRIPE_HANDLE is not tested before active_stripes is incremented.
WasUnreferenced(s) == count[s] = 0

\* A stripe that was free becomes active; one that waits on the handle list is
\* active already.
WasFree(s) == count[s] = 0 /\ ~handle[s]

\* Mutant: list_del_init is missing.
StayOnLru(s) == UNCHANGED <<inactive, handleList>>

\* The first reference takes the stripe off the list it is on.
TakeOffLru(s) ==
    IF count[s] = 0
    THEN /\ inactive' = ListDel(inactive, s)
         /\ handleList' = ListDel(handleList, s)
    ELSE UNCHANGED <<inactive, handleList>>

\* get_active_stripe, the stripe is in the hash.  (The loop looks again after a
\* sleep; it then never finds the sector, because every stripe that was in use
\* has a bio and stops at the BUG() of __init_stripe before it gets another.)
GetFound(t, s) ==
    /\ InLoop(t)
    /\ Cached(t, s)
    /\ count[s] # 0 \/ OnLru(s)
    /\ active' = IF WasFree(s) THEN active + 1 ELSE active
    /\ TakeOffLru(s)
    /\ count' = [count EXCEPT ![s] = @ + 1]
    /\ sh' = [sh EXCEPT ![t] = s]
    /\ pc' = [pc EXCEPT ![t] = "add"]
    /\ UNCHANGED <<sector, handle, devVars, limbo, asleep, wakeup, issued,
                   idx, threadVars, bug>>

\* get_active_stripe, the stripe is in the hash with no reference and on no
\* list: BUG().
GetFoundBug(t, s) ==
    /\ InLoop(t)
    /\ Cached(t, s)
    /\ count[s] = 0 /\ ~OnLru(s)
    /\ active' = IF WasFree(s) THEN active + 1 ELSE active
    /\ bug' = "lru_empty"
    /\ UNCHANGED <<sector, count, handle, devVars, inactive, handleList, limbo,
                   asleep, wakeup, issued, actorVars, threadVars>>

\* What __init_stripe asserts of the stripe it recycles.
DevBusy(s, d) ==
    \/ toread[s][d] # None
    \/ towrite[s][d] # None
    \/ "LOCKED" \in flags[s][d]

InitStripeBug(s) ==
    CASE count[s] # 0 -> "init_count"
      [] count[s] = 0 /\ handle[s] -> "init_handle"
      [] count[s] = 0 /\ ~handle[s] /\ \E d \in Disks : DevBusy(s, d) ->
            "init_dev"
      [] OTHER -> "none"

\* get_free_stripe: the oldest free stripe.
FirstFree == Head(inactive)

\* get_active_stripe, not in the hash: get_free_stripe takes the oldest
\* inactive stripe off the list and out of the hash, __init_stripe gives it
\* its new sector or stops at a BUG().
GetFree(t) ==
    /\ InLoop(t)
    /\ Miss(t)
    /\ inactive # << >>
    /\ LET s == FirstFree IN
        /\ inactive' = Tail(inactive)
        /\ active' = active + 1
        /\ bug' = InitStripeBug(s)
        /\ IF InitStripeBug(s) = "none"
           THEN /\ sector' = [sector EXCEPT ![s] = bio[t].sector]
                /\ flags' = [flags EXCEPT ![s] = [d \in Disks |-> {}]]
                /\ endio' = [endio EXCEPT ![s] = [d \in Disks |-> "none"]]
                /\ count' = [count EXCEPT ![s] = @ + 1]
                /\ sh' = [sh EXCEPT ![t] = s]
                /\ pc' = [pc EXCEPT ![t] = "add"]
           ELSE /\ sector' = [sector EXCEPT ![s] = None]
                /\ UNCHANGED <<flags, endio, count, sh, pc>>
    /\ UNCHANGED <<handle, toread, towrite, handleList, limbo, asleep, wakeup,
                   issued, idx, threadVars>>

\* get_active_stripe, not in the hash and no inactive stripe: the task sleeps
\* on wait_for_stripe.  A task woken when the list is empty again goes back to
\* sleep without looking into the hash.
GetWait(t) ==
    /\ \/ pc[t] = "get" /\ Miss(t)
       \/ pc[t] = "wait" /\ t \notin asleep
    /\ inactive = << >>
    /\ asleep' = asleep \cup {t}
    /\ pc' = [pc EXCEPT ![t] = "wait"]
    /\ UNCHANGED <<sector, count, handle, devVars, lruVars, wakeup, issued,
                   sh, idx, threadVars, bug>>

\* The list of its device that __add_stripe_bio adds a bio to.
BioListHead(t) ==
    IF bio[t].rw = "write" THEN towrite[sh[t]][bio[t].dd]
                           ELSE toread[sh[t]][bio[t].dd]

LinkBio(t) ==
    /\ toread' = IF bio[t].rw = "write" THEN toread
                 ELSE [toread EXCEPT ![sh[t]][bio[t].dd] = t]
    /\ towrite' = IF bio[t].rw = "write"
                  THEN [towrite EXCEPT ![sh[t]][bio[t].dd] = t]
                  ELSE towrite
    /\ UNCHANGED flags

RefuseBio(t) ==
    /\ flags' = [flags EXCEPT ![sh[t]][bio[t].dd] = @ \cup {"Overlap"}]
    /\ UNCHANGED <<toread, towrite>>

\* __add_stripe_bio.  Two bios on one device of a stripe start at the same
\* sector, so the second one overlaps the first: R5_Overlap is set and the bio
\* is not linked, a result that jraid5_make_request ignores.  A list whose head
\* has already been returned by bio_endio is read after its lifetime: the
\* comparison may come out either way.
AddStripeBio(t) ==
    /\ pc[t] = "add"
    /\ \/ BioListHead(t) \in {None, Stale} /\ LinkBio(t)
       \/ BioListHead(t) # None /\ RefuseBio(t)
    /\ pc' = [pc EXCEPT ![t] = "scan"]
    /\ idx' = [idx EXCEPT ![t] = NDisks - 1]
    /\ UNCHANGED <<sector, count, handle, endio, lruVars, asleep, wakeup,
                   issued, sh, threadVars, bug>>

-----------------------------------------------------------------------------
\* handle_stripe, first loop, device i: the pending lists become Want bits.
Wants(s, i) ==
    (IF toread[s][i] # None THEN {"Wantread"} ELSE {}) \cup
    (IF towrite[s][i] # None THEN {"Wantwrite"} ELSE {})

ScanDev(a) ==
    LET s == sh[a]
        i == idx[a]
    IN
    /\ pc[a] = "scan"
    /\ flags' = [flags EXCEPT ![s][i] = @ \cup Wants(s, i)]
    /\ idx' = [idx EXCEPT ![a] = i - 1]
    /\ pc' = [pc EXCEPT ![a] = IF i = 0 THEN "parity" ELSE "scan"]
    /\ UNCHANGED <<sector, count, handle, toread, towrite, endio, lruVars,
                   asleep, wakeup, issued, sh, threadVars, bug>>

\* handle_stripe, between its loops: the parity device is declared in sync,
\* unlocked and up to date.  `written' is then set to 0, so that the block that
\* returns written bios is never entered.
MarkParity(a) ==
    LET s == sh[a]
        p == Parity[sector[s]]
    IN
    /\ pc[a] = "parity"
    /\ flags' = [flags EXCEPT
                    ![s][p] = (@ \ {"LOCKED"}) \cup {"Insync", "UPTODATE"}]
    /\ idx' = [idx EXCEPT ![a] = NDisks - 1]
    /\ pc' = [pc EXCEPT ![a] = "submit"]
    /\ UNCHANGED <<sector, count, handle, toread, towrite, endio, lruVars,
                   asleep, wakeup, issued, sh, threadVars, bug>>

\* The actor leaves device i of the second loop of handle_stripe.
NextDev(a) ==
    /\ idx' = [idx EXCEPT ![a] = @ - 1]
    /\ pc' = [pc EXCEPT ![a] = IF idx[a] = 0 THEN "release" ELSE "submit"]

\* handle_stripe, second loop, device i: Wantwrite is consumed first, Wantread
\* only when there is no Wantwrite.
Taken(s, i) ==
    IF "Wantwrite" \in flags[s][i] THEN {"Wantwrite"}
    ELSE flags[s][i] \cap {"Wantread"}

SkipDev(a) ==
    /\ pc[a] = "submit"
    /\ Taken(sh[a], idx[a]) = {}
    /\ NextDev(a)
    /\ UNCHANGED <<sector, count, handle, devVars, lruVars, asleep, wakeup,
                   issued, sh, threadVars, bug>>

\* Mutant: the submitted request holds no reference.
NoRef(s) == UNCHANGED count

\* atomic_inc(&sh->count) for the request.
RefRequest(s) == count' = [count EXCEPT ![s] = @ + 1]

\* The disk is present: one more reference, and dev[i].req is submitted.  In a
\* thread generic_make_request is nested and only queues the request; in the
\* daemon it reaches the disk at once.
SubmitDev(a) ==
    LET s == sh[a]
        i == idx[a]
    IN
    /\ pc[a] = "submit"
    /\ Taken(s, i) # {}
    /\ i \notin Absent
    /\ flags' = [flags EXCEPT ![s][i] = @ \ Taken(s, i)]
    /\ endio' = [endio EXCEPT
                    ![s][i] = IF Taken(s, i) = {"Wantwrite"}
                              THEN "write" ELSE "read"]
    /\ RefRequest(s)
    /\ IF a = jraid5d
       THEN /\ issued[s][i] < MaxIo
            /\ issued' = [issued EXCEPT ![s][i] = @ + 1]
            /\ UNCHANGED bioList
       ELSE /\ bioList' = [bioList EXCEPT ![a] = @ \cup {i}]
            /\ UNCHANGED issued
    /\ NextDev(a)
    /\ UNCHANGED <<sector, handle, toread, towrite, lruVars, asleep, wakeup,
                   sh, bio, done, bug>>

\* The disk is absent: the stripe is marked for jraid5d.
AbsentDev(a) ==
    LET s == sh[a]
        i == idx[a]
    IN
    /\ pc[a] = "submit"
    /\ Taken(s, i) # {}
    /\ i \in Absent
    /\ flags' = [flags EXCEPT ![s][i] = @ \ (Taken(s, i) \cup {"LOCKED"})]
    /\ endio' = [endio EXCEPT
                    ![s][i] = IF Taken(s, i) = {"Wantwrite"}
                              THEN "write" ELSE "read"]
    /\ handle' = [handle EXCEPT ![s] = TRUE]
    /\ NextDev(a)
    /\ UNCHANGED <<sector, count, toread, towrite, lruVars, asleep, wakeup,
                   issued, sh, threadVars, bug>>

-----------------------------------------------------------------------------
\* The release_stripe that ends the use of a stripe by an actor.
ReleaseActor(a) ==
    /\ pc[a] = "release"
    /\ ReleaseStripe(sh[a])
    /\ pc' = [pc EXCEPT ![a] = IF a = jraid5d THEN "loop" ELSE "endio"]
    /\ UNCHANGED <<sector, handle, devVars, issued, sh, idx, threadVars, bug>>

\* The end of jraid5_make_request: bi_phys_segments drops to 0 and bio_endio
\* returns the bio.  Lists that still point to it now point to a dead bio.
Forget(f, t) ==
    [s \in Stripes |->
        [d \in Disks |-> IF f[s][d] = t THEN Stale ELSE f[s][d]]]

EndBio(t) ==
    /\ pc[t] = "endio"
    /\ toread' = Forget(toread, t)
    /\ towrite' = Forget(towrite, t)
    /\ bio' = [bio EXCEPT ![t] = None]
    /\ done' = [done EXCEPT ![t] = @ + 1]
    /\ pc' = [pc EXCEPT ![t] = "drain"]
    /\ UNCHANGED <<sector, count, handle, flags, endio, lruVars, asleep,
                   wakeup, issued, sh, idx, bioList, bug>>

\* Back in the outer generic_make_request: the queued requests go to the
\* disks, in the order in which handle_stripe queued them.
IssueQueued(t) ==
    /\ pc[t] = "drain"
    /\ \E d \in bioList[t] :
        /\ \A e \in bioList[t] : e <= d
        /\ issued[sh[t]][d] < MaxIo
        /\ issued' = [issued EXCEPT ![sh[t]][d] = @ + 1]
        /\ bioList' = [bioList EXCEPT ![t] = @ \ {d}]
    /\ UNCHANGED <<sector, count, handle, devVars, lruVars, asleep, wakeup,
                   actorVars, bio, done, bug>>

Return(t) ==
    /\ pc[t] = "drain"
    /\ bioList[t] = {}
    /\ sh' = [sh EXCEPT ![t] = None]
    /\ pc' = [pc EXCEPT ![t] = "idle"]
    /\ UNCHANGED <<sector, count, handle, devVars, lruVars, asleep, wakeup,
                   issued, idx, threadVars, bug>>

-----------------------------------------------------------------------------
\* Mutant: a read completion forgets release_stripe.
EndReadNoRelease(s, d) ==
    /\ issued[s][d] > 0
    /\ endio[s][d] = "read"
    /\ issued' = [issued EXCEPT ![s][d] = @ - 1]
    /\ UNCHANGED <<sector, count, handle, devVars, lruVars, asleep, wakeup,
                   actorVars, threadVars, bug>>

\* A disk ends one request of dev[d].req and calls the bi_end_io that the
\* request holds now.  raid5_end_read_request takes device_lock.
EndRead(s, d) ==
    /\ issued[s][d] > 0
    /\ endio[s][d] = "read"
    /\ issued' = [issued EXCEPT ![s][d] = @ - 1]
    /\ ReleaseStripe(s)
    /\ UNCHANGED <<sector, handle, devVars, actorVars, threadVars, bug>>

\* raid5_end_write_request without the lock: atomic_dec_and_test.
EndWrite(s, d) ==
    /\ issued[s][d] > 0
    /\ endio[s][d] = "write"
    /\ issued' = [issued EXCEPT ![s][d] = @ - 1]
    /\ count' = [count EXCEPT ![s] = @ - 1]
    /\ limbo' = IF count[s] = 1 THEN limbo \cup {s} ELSE limbo
    /\ UNCHANGED <<sector, handle, devVars, inactive, handleList, active,
                   asleep, wakeup, actorVars, threadVars, bug>>

\* The rest of __release_stripe in raid5_end_write_request.
EndWriteList(s) ==
    /\ s \in limbo
    /\ limbo' = limbo \ {s}
    /\ PutOnLru(s)
    /\ UNCHANGED <<sector, count, handle, devVars, issued, actorVars,
                   threadVars, bug>>

\* Another CPU is about to work on a list under device_lock: get_active_stripe,
\* release_stripe, jraid5d, raid5_end_read_request; or it is in an unlocked
\* release of its own.
OtherListUser(s) ==
    \/ \E t \in Threads : InLoop(t)
    \/ \E a \in Actors : pc[a] = "release"
    \/ pc[jraid5d] = "loop"
    \/ \E x \in Stripes, d \in Disks : issued[x][d] > 0 /\ endio[x][d] = "read"
    \/ limbo # {s}

\* The unlocked list_add_tail of raid5_end_write_request meets another list
\* operation: the links of both lists may be lost.
ListRace(s) ==
    /\ s \in limbo
    /\ OtherListUser(s)
    /\ bug' = "list_race"
    /\ UNCHANGED <<sector, count, handle, devVars, lruVars, asleep, wakeup,
                   issued, actorVars, threadVars>>

-----------------------------------------------------------------------------
\* jmd_thread wakes up, clears THREAD_WAKEUP and runs jraid5d.  jraid5d first
\* writes the superblocks if jmddev->sb_dirty is set; that touches nothing of
\* the stripe cache.
DaemonWake ==
    /\ pc[jraid5d] = "sleep"
    /\ wakeup
    /\ wakeup' = FALSE
    /\ pc' = [pc EXCEPT ![jraid5d] = "loop"]
    /\ UNCHANGED <<sector, count, handle, devVars, lruVars, asleep, issued,
                   sh, idx, threadVars, bug>>

\* jraid5d takes the first stripe of the handle list and asserts that it holds
\* the only reference.
DaemonTake ==
    /\ pc[jraid5d] = "loop"
    /\ handleList # << >>
    /\ LET s == Head(handleList) IN
        /\ handleList' = Tail(handleList)
        /\ count' = [count EXCEPT ![s] = @ + 1]
        /\ IF count[s] + 1 # 1
           THEN /\ bug' = "daemon_count"
                /\ UNCHANGED actorVars
           ELSE /\ sh' = [sh EXCEPT ![jraid5d] = s]
                /\ idx' = [idx EXCEPT ![jraid5d] = NDisks - 1]
                /\ pc' = [pc EXCEPT ![jraid5d] = "scan"]
                /\ UNCHANGED bug
    /\ UNCHANGED <<sector, handle, devVars, inactive, active, limbo, asleep,
                   wakeup, issued, threadVars>>

\* jraid5d returns to jmd_thread.
DaemonSleep ==
    /\ pc[jraid5d] = "loop"
    /\ handleList = << >>
    /\ pc' = [pc EXCEPT ![jraid5d] = "sleep"]
    /\ UNCHANGED <<sector, count, handle, devVars, lruVars, asleep, wakeup,
                   issued, sh, idx, threadVars, bug>>

-----------------------------------------------------------------------------
HandleStep(a) ==
    \/ ScanDev(a)
    \/ MarkParity(a)
    \/ SkipDev(a)
    \/ SubmitDev(a)
    \/ AbsentDev(a)
    \/ ReleaseActor(a)

ThreadStep(t) ==
    \/ GetFree(t)
    \/ GetWait(t)
    \/ \E s \in Stripes : GetFound(t, s) \/ GetFoundBug(t, s)
    \/ AddStripeBio(t)
    \/ HandleStep(t)
    \/ EndBio(t)
    \/ IssueQueued(t)
    \/ Return(t)

DaemonStep ==
    \/ DaemonWake
    \/ DaemonTake
    \/ DaemonSleep
    \/ HandleStep(jraid5d)

DiskStep(s, d) == EndRead(s, d) \/ EndWrite(s, d)

\* After a BUG(), and once every thread has submitted its MaxBios bios and
\* nothing is left to do, the model idles.
Halted ==
    /\ \/ bug # "none"
       \/ /\ \A t \in Threads : pc[t] = "idle" /\ done[t] = MaxBios
          /\ pc[jraid5d] = "sleep" /\ ~wakeup
          /\ limbo = {} /\ \A s \in Stripes, d \in Disks : issued[s][d] = 0
    /\ UNCHANGED vars

Step ==
    \/ \E t \in Threads : Request(t) \/ ThreadStep(t)
    \/ DaemonStep
    \/ \E s \in Stripes, d \in Disks : DiskStep(s, d)
    \/ \E s \in Stripes : EndWriteList(s) \/ ListRace(s)

Next == (bug = "none" /\ Step) \/ Halted

Spec == Init /\ [][Next]_vars

\* The kernel schedules every runnable task, a disk ends every request it was
\* given, and an interrupt handler runs to its end.  Whether a thread submits
\* another bio is up to the thread.
Fairness ==
    /\ \A t \in Threads : WF_vars(bug = "none" /\ ThreadStep(t))
    /\ WF_vars(bug = "none" /\ DaemonStep)
    /\ \A s \in Stripes : \A d \in Disks :
            WF_vars(bug = "none" /\ DiskStep(s, d))
    /\ \A s \in Stripes : WF_vars(bug = "none" /\ EndWriteList(s))

FairSpec == Spec /\ Fairness
-----------------------------------------------------------------------------
(***************************************************************************)
(* Properties                                                              *)
(***************************************************************************)

\* The type invariant.
TypeOK ==
    /\ sector \in [Stripes -> Sectors \cup {None}]
    /\ count \in [Stripes -> Int]
    /\ handle \in [Stripes -> BOOLEAN]
    /\ toread \in [Stripes -> [Disks -> Threads \cup {None, Stale}]]
    /\ towrite \in [Stripes -> [Disks -> Threads \cup {None, Stale}]]
    /\ flags \in [Stripes -> [Disks -> SUBSET Flags]]
    /\ endio \in [Stripes -> [Disks -> {"none", "read", "write"}]]
    /\ inactive \in Seq(Stripes)
    /\ handleList \in Seq(Stripes)
    /\ active \in Int
    /\ limbo \in SUBSET Stripes
    /\ asleep \in SUBSET Threads
    /\ wakeup \in BOOLEAN
    /\ issued \in [Stripes -> [Disks -> 0..MaxIo]]
    /\ pc \in [Actors -> ThreadPcs \cup DaemonPcs]
    /\ sh \in [Actors -> Stripes \cup {None}]
    /\ idx \in [Actors -> Disks \cup {-1}]
    /\ bio \in [Threads -> Bios \cup {None}]
    /\ bioList \in [Threads -> SUBSET Disks]
    /\ done \in [Threads -> Nat]
    /\ bug \in Bugs

\* Who owns a reference on stripe s: an actor between get_active_stripe (or
\* jraid5d's atomic_inc) and release_stripe, a request queued on a bio_list,
\* a request the disk has.
Holders(s) == {a \in Actors : sh[a] = s /\ pc[a] \in HoldingPcs}
Queued(s) ==
    {q \in Threads \X Disks : sh[q[1]] = s /\ q[2] \in bioList[q[1]]}
InFlight(s) == {f \in Disks \X (1..MaxIo) : f[2] <= issued[s][f[1]]}
Refs(s) ==
    Cardinality(Holders(s)) + Cardinality(Queued(s)) + Cardinality(InFlight(s))

\* sh->count is "nr of active thread/requests" (jraid5.h): it counts the
\* owners of a reference, no more and no fewer, in every interleaving of
\* requests, daemon and completions.
CountIsRefs == \A s \in Stripes : count[s] = Refs(s)

NoDuplicates(q) == \A i, j \in DOMAIN q : q[i] = q[j] => i = j

\* A stripe is in exactly one place: referenced, on the inactive list, on the
\* handle list, or between the two steps of an unlocked __release_stripe.
\* (list_add_tail of a stripe that is already on a list corrupts both lists.)
OneHome ==
    bug = "none" =>
        /\ NoDuplicates(inactive) /\ NoDuplicates(handleList)
        /\ Elems(inactive) \cap Elems(handleList) = {}
        /\ limbo \cap (Elems(inactive) \cup Elems(handleList)) = {}
        /\ \A s \in Stripes : count[s] = 0 <=> OnLru(s) \/ s \in limbo

Busy == {s \in Stripes : s \notin Elems(inactive)}

\* conf->active_stripes is the number of stripes that are not free, through the
\* five places that change it depending on STRIPE_HANDLE.  (It is printed by
\* get_active_stripe; shrink_stripe_cache, which tests it, has no caller.)
ActiveIsBusy == bug = "none" => active = Cardinality(Busy)

\* Two stripe heads never cache the same sector, whatever requesters miss it at
\* the same time: insert_hash is never reached for a sector that __find_stripe
\* would find.
HashUnique ==
    \A s1, s2 \in Stripes :
        sector[s1] = sector[s2] /\ sector[s1] # None => s1 = s2

\* A stripe on the free list needs no handling, one on the handle list does.
ListsByFlag ==
    \A s \in Stripes :
        /\ s \in Elems(inactive) => ~handle[s]
        /\ s \in Elems(handleList) => handle[s]

\* No marked stripe is forgotten: a stripe that nobody references and no unlocked
\* release is about to list waits for jraid5d on the handle list if STRIPE_HANDLE
\* is set, and is free to be recycled if and only if it is not.  (A referenced
\* stripe is on no list, marked or not; its last release lists it.)
HandleListed ==
    bug = "none" =>
        \A s \in Stripes : count[s] = 0 /\ s \notin limbo =>
            /\ s \in Elems(handleList) <=> handle[s]
            /\ s \in Elems(inactive) <=> ~handle[s]

\* The assertions of __init_stripe on the count and on STRIPE_HANDLE and the
\* one of jraid5d on its reference never fire.
AssertionsHold == bug \notin {"init_count", "init_handle", "daemon_count"}

\* No task sleeps on wait_for_stripe while a stripe is free, and jraid5d never
\* sleeps without THREAD_WAKEUP while a stripe is on the handle list.
NoLostWakeup ==
    /\ inactive # << >> => asleep = {}
    /\ handleList # << >> => wakeup \/ pc[jraid5d] # "sleep"

\* A stripe head changes its sector only while no actor uses it and no request
\* of it is queued or at a disk: a completion never reports on another sector
\* than the one it was submitted for.
SectorStable ==
    [][\A s \in Stripes : sector'[s] # sector[s] => Refs(s) = 0]_vars

-----------------------------------------------------------------------------
(***************************************************************************)
(* The abstract specification: heads leased by sector.  Its reference      *)
(* counts are the owners themselves, not the counter sh->count.            *)
(***************************************************************************)
Pool == INSTANCE StripePool WITH refs <- [s \in Stripes |-> Refs(s)]

\* Whatever requests, daemon and completions do, seen through the sectors and
\* the owners the stripe cache is a StripePool: owners come and go one at a
\* time, the owners of a sector share one head, and a head gets another sector
\* only when it has no owner.
RefinesPool == Pool!Spec

-----------------------------------------------------------------------------
(***************************************************************************)
(* The inductive invariant                                                 *)
(***************************************************************************)

\* What the control point of an actor says about its local variables.
Control ==
    /\ pc[jraid5d] \in DaemonPcs
    /\ \A t \in Threads : pc[t] \in ThreadPcs
    /\ \A a \in Actors : pc[a] \in HoldingPcs =>
            sh[a] \in Stripes /\ sector[sh[a]] # None
    /\ \A a \in Actors : pc[a] \in {"scan", "submit"} => idx[a] \in Disks
    /\ \A t \in Threads :
        /\ pc[t] \in HoldingPcs \cup {"get", "wait", "endio"} =>
                bio[t] \in Bios
        /\ pc[t] \in {"endio", "drain"} => sh[t] \in Stripes
        /\ bioList[t] # {} => pc[t] \in {"submit", "release", "endio", "drain"}
        /\ pc[t] = "submit" => \A d \in bioList[t] : d > idx[t]

\* A stripe that needs handling is in the hash: jraid5d finds its parity disk.
HandledIsHashed == \A s \in Stripes : handle[s] => sector[s] # None

\* Every conjunct is needed: a release leaves the right count only if the
\* count was the number of owners (CountIsRefs), it puts the stripe on a list
\* that does not hold it yet only by OneHome, recycling is safe only because
\* an unreferenced stripe has no owner, and the assertion on STRIPE_HANDLE and
\* the accounting of active_stripes need ListsByFlag.
IInv ==
    /\ TypeOK
    /\ Control
    /\ CountIsRefs
    /\ OneHome
    /\ ActiveIsBusy
    /\ HashUnique
    /\ HandledIsHashed
    /\ ListsByFlag
    /\ AssertionsHold
    /\ NoLostWakeup

-----------------------------------------------------------------------------
\* Without a BUG(), every bio that enters jraid5_make_request is returned and
\* the requests it queued go to the disks.
RequestReturns ==
    \A t \in Threads : pc[t] = "get" ~> (pc[t] = "idle" \/ bug # "none")

\* Without a BUG(), a stripe marked for jraid5d is handled by it, whatever
\* requesters take and release the stripe meanwhile.
StripeHandled ==
    \A s \in Stripes :
        handle[s] ~> \/ pc[jraid5d] = "scan" /\ sh[jraid5d] = s
                     \/ bug # "none"

\* A stripe in use becomes free again.
StripeFreed ==
    \A s \in Stripes :
        count[s] > 0 ~> (s \in Elems(inactive) \/ bug # "none")

-----------------------------------------------------------------------------
(***************************************************************************)
(* What assertions and comments of the code claim and the code does not do *)
(***************************************************************************)

\* __init_stripe: a recycled stripe has no pending bio and no locked device,
\* or BUG().
RecycledIsClean == bug # "init_dev"

\* get_active_stripe: an unreferenced cached stripe is on a list, or BUG().
UnreferencedIsListed == bug # "lru_empty"

\* jraid5.h: R5_Wantread and R5_Wantwrite are "internal to handle_stripe": no
\* such bit outlives the calls of handle_stripe on the stripe.
WantIsInternal ==
    \A s \in Stripes :
        (\A a \in Actors : sh[a] = s => pc[a] \notin HoldingPcs) =>
            \A d \in Disks : {"Wantread", "Wantwrite"} \cap flags[s][d] = {}
=============================================================================
