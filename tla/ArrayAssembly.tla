--------------------------- MODULE ArrayAssembly ---------------------------
(***************************************************************************)
(* Assembly of an array (src/src/jmd.c and jraid5_run, jraid5_exit of      *)
(* src/src/jraid5.c): the sysfs command `add <disk> <total> <number>', the *)
(* array superblock and the copies kept per disk, the start of the raid5   *)
(* personality, the superblock update with its asynchronous writes, and    *)
(* the removal of the two modules.                                         *)
(*                                                                         *)
(* Commands come one after the other, as scripts/install.sh gives them.    *)
(* A command runs in one step up to the point where jmddev->pers is        *)
(* published; pers->run is the second step, then one step per superblock   *)
(* write, and one more for the atomic_inc that follows submit_bio.         *)
(*                                                                         *)
(* All members get their copy of the superblock from one call of sync_sbs  *)
(* and are never marked faulty, so one variable, synced, stands for the    *)
(* copies, and desc_nr for the part of them that differs.  Adding a member *)
(* puts it on all_jraid_disks and on jmddev->disks together: `disks' is    *)
(* both lists.                                                             *)
(***************************************************************************)
EXTENDS Integers, Sequences, FiniteSets

CONSTANTS
    Devs,       \* disks the administrator may name
    DevSize,    \* calc_dev_size of each disk, a multiple of Chunk
    Chunk,      \* sb->chunk_size / 512
    Grain,      \* jmddev->chunk_sectors, what jmddev_size rounds to
    SbDisks,    \* MD_SB_DISKS, descriptors of a superblock
    Totals,     \* values of <total> in the commands
    Numbers,    \* values of <number> in the commands
    ENOMEM,     \* 12
    Retries,    \* rounds jmd_update_sb tries: 100 in the code
    Wrap,       \* modulus of __u32
    MaxAdds,    \* bound: add commands
    MaxFaults,  \* bound: failed allocations, lost claims and resized disks
    MaxLoads,   \* bound: insertions of the module jraid5
    None,       \* a NULL pointer, MKDEV(0,0)
    Freed       \* a pointer to memory that was freed

ASSUME ArrayConstants ==
    /\ IsFiniteSet(Devs)
    /\ Chunk \in Nat \ {0} /\ Grain \in Nat \ {0}
    /\ DevSize \in [Devs -> {n \in Nat : n % Chunk = 0}]
    /\ SbDisks \in Nat /\ Wrap \in Nat /\ Wrap > SbDisks
    /\ Totals \subseteq 0..(Wrap - 1) /\ Numbers \subseteq Nat
    /\ ENOMEM \in Nat /\ Retries \in Nat \ {0}
    /\ MaxAdds \in Nat /\ MaxFaults \in Nat /\ MaxLoads \in Nat \ {0}
    /\ None \notin Devs /\ Freed # None

VARIABLES
    sb,         \* jmddev->sb
    synced,     \* the superblock the members hold since the last sync_sbs
    disks,      \* jmddev->disks, the newest member first
    desc_nr,    \* jrdev->desc_nr of each member
    held,       \* disks this driver has opened with FMODE_EXCL
    capacity,   \* get_capacity(jmddev->gendisk)
    loaded,     \* pers[RAID5] # NULL: the module jraid5 is inserted
    pers,       \* jmddev->pers # NULL
    conf,       \* jmddev->private
    orphans,    \* jraid5d threads that no conf points to any more
    pc,         \* where the add command is
    left,       \* members the current round of jmd_update_sb has still to write
    err, count, \* locals of jmd_update_sb
    pending,    \* jmddev->pending_writes
    inflight,   \* superblock writes that have not ended
    sent,       \* events of the last superblock submitted to each disk
    resized,    \* disks whose size has changed since they were imported
    gone,       \* jmd_exit has run
    adds, loads, faults, bug

array == <<sb, synced, disks, desc_nr, held, capacity>>
update == <<left, err, count, pending, inflight, sent>>
vars == <<array, loaded, pers, conf, orphans, pc, update, resized, gone,
          adds, loads, faults, bug>>

Indices == 0..(SbDisks - 1)
Descs == [number : Nat, dev : Devs \cup {None}, faulty : BOOLEAN]
Superblocks == [disks : [Indices -> Descs], nr_disks : Nat, raid_disks : Nat,
                size : Nat, events : Nat]

ASSUME NullIsNoSuperblock == None \notin Superblocks
ASSUME NoConfThere ==
    \A p \in {None, Freed} :
        p \notin [slots : [Indices -> Devs \cup {None}], raid_disks : Nat]

Members == {disks[i] : i \in DOMAIN disks}
Lowest(S) == CHOOSE i \in S : \A j \in S : i <= j

\* The type invariant; a disk is on the list of members once.
TypeOK ==
    /\ sb \in Superblocks \cup {None}
    /\ synced \in Superblocks \cup {None}
    /\ disks \in Seq(Devs)
    /\ \A i, j \in DOMAIN disks : disks[i] = disks[j] => i = j
    /\ desc_nr \in [Devs -> Nat]
    /\ held \subseteq Devs /\ capacity \in Nat
    /\ loaded \in BOOLEAN /\ pers \in BOOLEAN /\ gone \in BOOLEAN
    /\ conf \in {None, Freed}
                \cup [slots : [Indices -> Devs \cup {None}], raid_disks : Nat]
    /\ pc \in {"idle", "run", "round", "write", "count"}
    /\ left \in Seq(Devs) /\ err \in Int /\ count \in 0..Retries
    /\ pending \in Int /\ sent \in [Devs -> Nat]
    /\ inflight \subseteq [dev : Devs, events : Nat]
    /\ resized \subseteq Devs /\ orphans \in 0..MaxFaults
    /\ adds \in 0..MaxAdds /\ loads \in 0..MaxLoads /\ faults \in 0..MaxFaults
    /\ bug \in {"none", "claimed", "null_conf", "unloaded", "double_free",
                "freed_jmddev", "overrun"}

NoDesc == [number |-> 0, dev |-> None, faulty |-> FALSE]

\* jmd_init, and module_init of jraid5.
Init ==
    /\ sb = None /\ synced = None /\ disks = << >>
    /\ desc_nr = [d \in Devs |-> 0] /\ held = {} /\ capacity = 0
    /\ loaded = TRUE /\ pers = FALSE /\ conf = None /\ orphans = 0
    /\ pc = "idle" /\ left = << >> /\ err = 0 /\ count = 0
    /\ pending = 0 /\ inflight = {} /\ sent = [d \in Devs |-> 0]
    /\ resized = {} /\ gone = FALSE
    /\ adds = 0 /\ loads = 1 /\ faults = 0 /\ bug = "none"

-----------------------------------------------------------------------------
(* The superblock *)

\* alloc_array_sb and set_array_info: a superblock that exists already (the
\* first disk failed to join) is filled again and keeps its descriptors.
set_array_info(total) ==
    [disks |-> IF sb = None THEN [i \in Indices |-> NoDesc] ELSE sb.disks,
     nr_disks |-> total, raid_disks |-> total, size |-> 0,
     events |-> IF sb = None THEN 0 ELSE sb.events]

\* The descriptor is written before the disk is imported.
WriteDesc(s, nr, d) ==
    [s EXCEPT !.disks[nr] = [number |-> nr, dev |-> d, faulty |-> FALSE]]

\* Mutant: a member without a descriptor loses its number.
set_this_disk_or_none(s, d, old) ==
    LET mine == {i \in Indices : s.disks[i].dev = d}
    IN IF mine = {} THEN -1 ELSE s.disks[Lowest(mine)].number

\* The first descriptor that names d gives its number; without one (MD_BUG)
\* the member keeps the number it had.
set_this_disk(s, d, old) ==
    LET mine == {i \in Indices : s.disks[i].dev = d}
    IN IF mine = {} THEN old ELSE s.disks[Lowest(mine)].number

sync_sbs(s, members, nrs) ==
    [d \in Devs |-> IF d \in members THEN set_this_disk(s, d, nrs[d])
                    ELSE nrs[d]]

\* Mutant: the size of the array is the size of the last disk.
LastSize(s, d) == DevSize[d]

\* A size of 0 counts as not known.
NewSize(s, d) == IF s.size = 0 \/ s.size > DevSize[d] THEN DevSize[d] ELSE s.size

jmddev_size(s, raid_disks) ==
    IF s = None THEN 0
    ELSE LET half == s.size \div 2
         IN (half - (half % Grain)) * (raid_disks - 1)

-----------------------------------------------------------------------------
(* analyze_sbs *)

\* A descriptor survives if it is unused or some member has its number; a
\* removed one is removed again if a member has its number.
Removed(desc, nrs) ==
    LET found == desc.number \in nrs
    IN IF desc.faulty THEN found \/ desc.dev # None
       ELSE desc.dev # None /\ ~found

remove_descriptor(desc) == [desc EXCEPT !.dev = None, !.faulty = TRUE]

\* The newest copy of the superblock, without the descriptors of disks that
\* are not there.  This is stored in jmddev->sb even if the analysis fails.
Analyzed(s, nrs) ==
    LET out == {i \in Indices : Removed(s.disks[i], nrs)}
    IN [s EXCEPT
          !.disks = [i \in Indices |-> IF i \in out
                        THEN remove_descriptor(s.disks[i]) ELSE s.disks[i]],
          !.nr_disks = (s.nr_disks - Cardinality(out)) % Wrap]

\* Mutant: two members with one number are accepted.
DescsHaveDisks(s, members, nrs) ==
    \A i \in Indices : s.disks[i].dev # None => s.disks[i].dev \in members

\* Every descriptor in use names a member, no two members have one number.
SbsConsistent(s, members, nrs) ==
    /\ \A i \in Indices : s.disks[i].dev # None =>
            ~s.disks[i].faulty /\ s.disks[i].dev \in members
    /\ \A d, e \in members : d # e => nrs[d] # nrs[e]

\* device_size_calculation
LargeEnough(members) == \A d \in members : DevSize[d] >= Chunk

\* What do_jmd_run tests before it publishes the personality.
do_jmd_run(s, members, nrs) ==
    SbsConsistent(s, members, nrs) /\ loaded /\ LargeEnough(members)

-----------------------------------------------------------------------------
(* The command add *)

\* The outcomes of the calls that may fail: none does; alloc_array_sb fails;
\* jmd_import_device fails (no memory, or another opener was faster in
\* lock_jrdev).
AddOutcomes == {"ok", "no_sb", "no_import"}

\* The checks of add_new_disk before it touches a descriptor.  Without an
\* array superblock (its allocation has failed) jmd_import_device(dev, 1) looks
\* for one at sector 0 of the disk, fails for want of it and lets go of the
\* disk.  What is on the disks before they join is not modelled; the driver
\* itself writes superblocks at sb_offset, which is 0 only for a disk whose
\* calc_dev_size is 0, and such a disk's array is never started.
Accepts(s, d, nr) == s # None /\ d \notin Members /\ nr < s.nr_disks

\* The superblock when the disk is added: made or filled again with the first.
ArrayInfo(total) == IF disks = << >> THEN set_array_info(total) ELSE sb

\* blkdev_get_by_dev with FMODE_EXCL, in lock_jrdev.
lock_jrdev(d) == held \cup {d}

\* The newest member is the first one.
bind_rdev_to_array(d) == << d >> \o disks

\* blkdev_get_by_path has returned an ERR_PTR, which add_store dereferences.
AddClaimed(d) ==
    /\ pc = "idle" /\ ~gone /\ adds < MaxAdds
    /\ d \in held
    /\ bug' = "claimed" /\ adds' = adds + 1
    /\ UNCHANGED <<array, loaded, pers, conf, orphans, pc, update, resized,
                   gone, loads, faults>>

\* Nothing compares <total> with MD_SB_DISKS, and nr_disks may have wrapped:
\* add_new_disk writes a descriptor behind the end of sb->disks.
AddOverrun(d, total, nr) ==
    /\ pc = "idle" /\ ~gone /\ adds < MaxAdds /\ d \notin held
    /\ Accepts(ArrayInfo(total), d, nr) /\ nr \notin Indices
    /\ bug' = "overrun" /\ adds' = adds + 1
    /\ UNCHANGED <<array, loaded, pers, conf, orphans, pc, update, resized,
                   gone, loads, faults>>

\* An allocation of add_store fails: the disk stays claimed by nobody.
AddNoInfo(d) ==
    /\ pc = "idle" /\ ~gone /\ adds < MaxAdds /\ faults < MaxFaults
    /\ d \notin held
    /\ held' = held \cup {d} /\ adds' = adds + 1 /\ faults' = faults + 1
    /\ UNCHANGED <<sb, synced, disks, desc_nr, capacity, loaded, pers, conf,
                   orphans, pc, update, resized, gone, loads, bug>>

\* add_store up to the call of pers->run.  A disk that does not join does not
\* end the command: if the number of members is <total> the array is started.
AddStore(d, total, nr, out) ==
    LET first == disks = << >>
        s0 == IF out = "no_sb" THEN sb ELSE ArrayInfo(total)
        accepted == Accepts(s0, d, nr)
        joins == accepted /\ out = "ok"
        s1 == IF accepted THEN WriteDesc(s0, nr, d) ELSE s0
        s2 == IF joins THEN [s1 EXCEPT !.size = NewSize(s1, d)] ELSE s1
        members == IF joins THEN Members \cup {d} ELSE Members
        nrs == IF joins
               THEN sync_sbs(s2, members, [desc_nr EXCEPT ![d] = nr])
               ELSE desc_nr
        copy == IF joins THEN s2 ELSE synced
        complete == Cardinality(members) = total
        analyze == complete /\ members # {} /\ ~pers
        s3 == IF analyze THEN Analyzed(copy, {nrs[m] : m \in members}) ELSE s2
        starts == analyze /\ do_jmd_run(s3, members, nrs)
    IN  /\ pc = "idle" /\ ~gone /\ adds < MaxAdds
        /\ d \notin held /\ (accepted => nr \in Indices)
        /\ out = "no_sb" => sb = None /\ first
        /\ out = "no_import" => accepted
        /\ out # "ok" => faults < MaxFaults
        /\ sb' = s3 /\ synced' = copy /\ desc_nr' = nrs
        /\ disks' = IF joins THEN bind_rdev_to_array(d) ELSE disks
        /\ held' = IF joins THEN lock_jrdev(d) ELSE held
        /\ capacity' = IF complete THEN jmddev_size(s2, total + 1) ELSE capacity
        /\ pers' = (pers \/ starts)
        /\ pc' = IF starts THEN "run" ELSE "idle"
        /\ adds' = adds + 1
        /\ faults' = IF out = "ok" THEN faults ELSE faults + 1
        /\ UNCHANGED <<loaded, conf, orphans, update, resized, gone, loads, bug>>

-----------------------------------------------------------------------------
(* jraid5_run *)

\* The slot of a member is the raid_disk of its descriptor, which add_store
\* sets to the descriptor's number; the first member of the list gets it.
SlotsOf ==
    LET At(j) == {i \in DOMAIN disks : desc_nr[disks[i]] = j}
    IN [j \in Indices |-> IF At(j) = {} \/ j > sb.raid_disks THEN None
                          ELSE disks[Lowest(At(j))]]

Operational(slots) == {j \in Indices : slots[j] # None}
FailedDisks(slots) == sb.raid_disks - Cardinality(Operational(slots))

EnoughDisks(slots) == FailedDisks(slots) <= 1

\* Where the run gives up: conf or the hash table, the thread jraid5d, the
\* stripes, the thread jraid5syncd (only started when no disk is missing).  A
\* run that gets past the stripes reads raid_disks entries of conf->disks.
RunOutcomes == {"ok", "no_conf", "no_thread", "no_stripes", "no_resync"}

\* Mutant: the thread is registered before the disks are counted.
ThreadLeft(out, enough) == out \in {"no_stripes", "no_resync"} \/ ~enough

\* The abort path frees conf and the hash table; jraid5d, if it was
\* registered, stays.
ThreadStays(out, enough) == out \in {"no_stripes", "no_resync"}

\* Mutant: do_jmd_run returns the error with jmddev->pers still set.
PersKept(ok) == TRUE

\* do_jmd_run takes jmddev->pers back if pers->run has failed.
PersAfter(ok) == ok

jraid5_run(out) ==
    LET slots == SlotsOf
        enough == EnoughDisks(slots)
        ok == out = "ok" /\ enough
    IN  /\ pc = "run" /\ loaded
        /\ out # "ok" => faults < MaxFaults
        /\ out \in RunOutcomes \ {"ok", "no_conf"} => enough
        /\ out = "no_resync" => FailedDisks(slots) = 0
        /\ conf' = IF ok THEN [slots |-> slots, raid_disks |-> sb.raid_disks]
                   ELSE None
        /\ pers' = PersAfter(ok)
        /\ orphans' = IF ThreadStays(out, enough) THEN orphans + 1 ELSE orphans
        /\ pc' = IF ok THEN "round" ELSE "idle"
        /\ count' = IF ok THEN Retries ELSE count
        /\ faults' = IF out = "ok" THEN faults ELSE faults + 1
        /\ bug' = IF ok /\ sb.raid_disks > SbDisks THEN "overrun" ELSE bug
        /\ UNCHANGED <<array, loaded, left, err, pending, inflight, sent,
                       resized, gone, adds, loads>>

\* The module was removed after do_jmd_run had read pers[pnum].
RunUnloaded ==
    /\ pc = "run" /\ ~loaded
    /\ bug' = "unloaded"
    /\ UNCHANGED <<array, loaded, pers, conf, orphans, pc, update, resized,
                   gone, adds, loads, faults>>

-----------------------------------------------------------------------------
(* jmd_update_sb *)

\* A round: a new event number, new copies for the members.
BeginRound ==
    LET s == [sb EXCEPT !.events = @ + 1]
    IN  /\ pc = "round"
        /\ sb' = s /\ synced' = s /\ desc_nr' = sync_sbs(s, Members, desc_nr)
        /\ left' = disks /\ err' = 0 /\ pc' = "write"
        /\ UNCHANGED <<disks, held, capacity, loaded, pers, conf, orphans,
                       count, pending, inflight, sent, resized, gone, adds,
                       loads, faults, bug>>

\* write_disk_sb without memory for the bio or the page.
WriteNoMemory ==
    /\ pc = "write" /\ left # << >> /\ faults < MaxFaults
    /\ err' = err - ENOMEM /\ left' = Tail(left) /\ faults' = faults + 1
    /\ UNCHANGED <<array, loaded, pers, conf, orphans, pc, count, pending,
                   inflight, sent, resized, gone, adds, loads, bug>>

\* Mutant: the loop does not go on to the next disk.
WriteSkippedAgain ==
    /\ pc = "write" /\ left # << >> /\ Head(left) \in resized
    /\ UNCHANGED vars

\* write_disk_sb of a disk whose size or superblock offset has changed.
WriteSkipped ==
    /\ pc = "write" /\ left # << >> /\ Head(left) \in resized
    /\ err' = err + 1 /\ left' = Tail(left)
    /\ UNCHANGED <<array, loaded, pers, conf, orphans, pc, count, pending,
                   inflight, sent, resized, gone, adds, loads, faults, bug>>

\* write_disk_sb up to submit_bio.
SubmitSb ==
    /\ pc = "write" /\ left # << >> /\ Head(left) \notin resized
    /\ inflight' = inflight \cup {[dev |-> Head(left), events |-> sb.events]}
    /\ sent' = [sent EXCEPT ![Head(left)] = sb.events]
    /\ pc' = "count"
    /\ UNCHANGED <<array, loaded, pers, conf, orphans, left, err, count,
                   pending, resized, gone, adds, loads, faults, bug>>

\* Mutant: a write that has ended already is not counted.
CountInflight(n) ==
    IF \E w \in inflight : w.dev = Head(left) /\ w.events = sb.events
    THEN n + 1 ELSE n

\* atomic_inc(&pending_writes), after submit_bio.
CountedOne(n) == n + 1

CountWrite ==
    /\ pc = "count"
    /\ pending' = CountedOne(pending) /\ left' = Tail(left) /\ pc' = "write"
    /\ UNCHANGED <<array, loaded, pers, conf, orphans, err, count, inflight,
                   sent, resized, gone, adds, loads, faults, bug>>

\* Mutant: only positive results count as errors.
RepeatPositive == err > 0

\* `if (err) ... if (--count) goto repeat'
Repeats == err # 0

EndRound ==
    /\ pc = "write" /\ left = << >>
    /\ count' = IF Repeats THEN count - 1 ELSE count
    /\ pc' = IF Repeats /\ count > 1 THEN "round" ELSE "idle"
    /\ UNCHANGED <<array, loaded, pers, conf, orphans, left, err, pending,
                   inflight, sent, resized, gone, adds, loads, faults, bug>>

\* The disk has ended a write: super_written.  It reaches jmddev through the
\* member, also after jmd_exit has freed it.
super_written(w) ==
    /\ w \in inflight
    /\ inflight' = inflight \ {w}
    /\ IF gone THEN bug' = "freed_jmddev" /\ UNCHANGED pending
       ELSE pending' = pending - 1 /\ UNCHANGED bug
    /\ UNCHANGED <<array, loaded, pers, conf, orphans, pc, left, err, count,
                   sent, resized, gone, adds, loads, faults>>

-----------------------------------------------------------------------------
(* Requests, removal of the modules, changes of the disks *)

\* jmd_make_request hands a bio to a personality that has not been set up or
\* whose module is gone.  (Without pers the bio is ended at once; with a live
\* conf it goes to the stripe cache, module StripeCache.)
RequestBug ==
    /\ capacity > 0 /\ pers /\ ~gone
    /\ conf \in {None, Freed}
    /\ bug' = IF conf = None THEN "null_conf" ELSE "unloaded"
    /\ UNCHANGED <<array, loaded, pers, conf, orphans, pc, update, resized,
                   gone, adds, loads, faults>>

jraid5_init ==
    /\ ~loaded /\ ~gone /\ loads < MaxLoads
    /\ loaded' = TRUE /\ loads' = loads + 1
    /\ UNCHANGED <<array, pers, conf, orphans, pc, update, resized, gone,
                   adds, faults, bug>>

\* jraid5_exit frees conf and leaves the pointers to it and to the personality.
jraid5_exit ==
    /\ loaded /\ ~gone
    /\ loaded' = FALSE
    /\ conf' = IF conf = None THEN None ELSE Freed
    /\ bug' = IF conf = Freed THEN "double_free" ELSE bug
    /\ UNCHANGED <<array, pers, orphans, pc, update, resized, gone, adds,
                   loads, faults>>

\* jraid5 uses symbols of jmd and keeps it from being removed.
jmd_exit ==
    /\ ~loaded /\ ~gone /\ pc = "idle"
    /\ gone' = TRUE /\ held' = held \ Members
    /\ UNCHANGED <<sb, synced, disks, desc_nr, capacity, loaded, pers, conf,
                   orphans, pc, update, resized, adds, loads, faults, bug>>

\* A disk of the array has changed its size.  Nothing but write_disk_sb
\* compares the size with the one found at the import.
Resize(d) ==
    /\ pc \in {"round", "write"}
    /\ d \in Members \ resized /\ faults < MaxFaults
    /\ resized' = resized \cup {d} /\ faults' = faults + 1
    /\ UNCHANGED <<array, loaded, pers, conf, orphans, pc, update, gone, adds,
                   loads, bug>>

-----------------------------------------------------------------------------
UpdateStep == BeginRound \/ WriteNoMemory \/ WriteSkipped \/ SubmitSb
              \/ CountWrite \/ EndRound

Next ==
    /\ bug = "none"
    /\ \/ \E d \in Devs :
            \/ AddClaimed(d) \/ AddNoInfo(d) \/ Resize(d)
            \/ \E total \in Totals, nr \in Numbers :
                    \/ AddOverrun(d, total, nr)
                    \/ \E out \in AddOutcomes : AddStore(d, total, nr, out)
       \/ \E out \in RunOutcomes : jraid5_run(out)
       \/ RunUnloaded
       \/ UpdateStep
       \/ \E w \in inflight : super_written(w)
       \/ RequestBug \/ jraid5_init \/ jraid5_exit \/ jmd_exit

Spec == Init /\ [][Next]_vars

\* The command runs on, and a disk ends the writes it was given.
FairSpec ==
    /\ Spec
    /\ WF_vars(bug = "none" /\ (UpdateStep \/ RunUnloaded
                                \/ \E out \in RunOutcomes : jraid5_run(out)))
    /\ \A d \in Devs :
          WF_vars(bug = "none" /\ \E w \in inflight : w.dev = d /\ super_written(w))

-----------------------------------------------------------------------------
(* Properties *)

\* jmddev->private is filled.
Running == conf \notin {None, Freed}

\* The disks in the slots.
Used(slots) == {slots[j] : j \in Operational(slots)}

\* jraid5_run gives every member whose number is one of the array's slots that
\* slot, and no disk two of them, as analyze_sbs has refused two members of one
\* number.  If nothing has failed since jmd was loaded all the members are used,
\* no slot behind the last disk of the array is filled and at most one is empty.
\* A failed import leaves a descriptor behind that may give a member the number
\* raid_disks; the test `raid_disk > sb->raid_disks' lets it pass, it counts as
\* a working disk, and the array may start with two of its slots empty.
StartUses ==
    ~Running /\ Running' =>
        LET slots == conf'.slots
            empty == (0..(sb.raid_disks - 1)) \ Operational(slots)
        IN  /\ \A d \in Members :
                    desc_nr[d] < sb.raid_disks => slots[desc_nr[d]] = d
            /\ \A j, k \in Operational(slots) : slots[j] = slots[k] => j = k
            /\ faults' = 0 => /\ Used(slots) = Members
                              /\ Operational(slots) \subseteq 0..(sb.raid_disks - 1)
                              /\ \A j, k \in empty : j = k
StartUsesAllMembers == [][StartUses]_vars

\* When the array starts every member is as large as the superblock says, and
\* the capacity add_store has announced fits on the data disks unless there are
\* more members than the array has disks, which takes an earlier failure, or
\* the array has only one disk.
StartHasRoom ==
    ~Running /\ Running' =>
        /\ \A d \in Members : Chunk <= sb.size /\ sb.size <= DevSize[d]
        /\ sb.raid_disks > 1 /\ Len(disks) <= sb.raid_disks =>
                capacity <= (sb.raid_disks - 1) * sb.size
        /\ faults' = 0 => Len(disks) <= sb.raid_disks
StartFits == [][StartHasRoom]_vars

\* Without a personality and outside a command jmddev->private is NULL: a start
\* that failed or was refused has taken it back.  The threads jraid5d that are
\* left running on a freed conf are no more than the allocations that failed:
\* a start refused for want of disks leaves none.
FailedStartLeavesNothing ==
    pc = "idle" /\ ~pers => conf = None /\ orphans <= faults

\* A personality that requests can see has its private data, whatever commands
\* and failures came before.  The exceptions are the two windows of the code:
\* do_jmd_run publishes jmddev->pers before pers->run has made the data, and
\* jraid5_exit frees it without taking jmddev->pers back, so that the module is
\* out or has been inserted again.
PersonalityUsable ==
    pers => \/ Running
            \/ pc = "run"
            \/ conf = Freed /\ (~loaded \/ loads > 1)

\* pending_writes differs from the number of writes in flight only between
\* submit_bio and the atomic_inc after it.
PendingAccounted ==
    ~gone => pending + (IF pc = "count" THEN 1 ELSE 0) = Cardinality(inflight)

\* A command that has not given up has submitted the superblock with the
\* current event number to every disk of the array, in spite of failed
\* attempts in between (jmd_update_sb, write_disk_sb).  With more than ENOMEM
\* disks a failed write (-ENOMEM) may be cancelled by skipped ones (+1).
UpdateComplete ==
    Running /\ pc = "idle" /\ (err = 0 \/ count > 0) /\ Len(disks) <= ENOMEM =>
        \A j \in Operational(conf.slots) : sent[conf.slots[j]] = sb.events

\* The inductive invariant of the proofs.  A descriptor in use carries its index.
DescsNumbered(s) ==
    s # None => \A i \in Indices : s.disks[i].dev # None => s.disks[i].number = i

\* Every member stays opened until jmd_exit.
MembersHeld == ~gone => Members \subseteq held

\* The copies of the members follow the superblock of the array.
SbFollowed ==
    /\ DescsNumbered(sb) /\ DescsNumbered(synced)
    /\ sb # None => sb.raid_disks \in 0..(Wrap - 1)
    /\ sb = None => inflight = {}
    /\ disks # << >> =>
            /\ sb # None /\ synced # None
            /\ sb.size = synced.size /\ sb.events = synced.events
            /\ sb.raid_disks = synced.raid_disks
    /\ \A d \in Members : desc_nr[d] \in Indices

\* A size of 0 is taken for none: the size of the superblock holds for all
\* members only when none of them is too small, which LargeEnough asks for.
SizeKept ==
    disks # << >> /\ LargeEnough(Members) =>
        \A d \in Members : Chunk <= sb.size /\ sb.size <= DevSize[d]

\* As long as nothing has failed every descriptor in use belongs to the member
\* that has its number.
NoLeftovers ==
    faults = 0 =>
        /\ sb # None =>
                /\ sb.nr_disks <= sb.raid_disks
                /\ \A i \in Indices :
                        /\ ~sb.disks[i].faulty
                        /\ sb.disks[i].dev # None =>
                                /\ sb.disks[i].dev \in Members
                                /\ desc_nr[sb.disks[i].dev] = i
        /\ disks # << >> =>
                synced.disks = sb.disks /\ synced.nr_disks = sb.nr_disks
        /\ \A d \in Members : desc_nr[d] < sb.raid_disks

\* Where the command is, and what the personality and the array have then.
CommandOK ==
    /\ conf # None => pers
    /\ Running => Used(conf.slots) \subseteq Members
    /\ pc # "idle" => pers /\ disks # << >> /\ ~gone
    /\ pc \in {"round", "write", "count"} => count \in 1..Retries
    /\ pc = "run" =>
            /\ conf = None /\ LargeEnough(Members)
            /\ \A d, e \in Members : d # e => desc_nr[d] # desc_nr[e]
            /\ 2 * capacity <= sb.size * Len(disks)
    /\ orphans <= faults

\* Members the current round has dealt with.
Done == Len(disks) - Len(left)

\* `left' is the rest of the list; err is 0 only if all superblocks up to there
\* have been submitted, and negative for good after a failed allocation.
RoundOK ==
    pc \in {"write", "count"} =>
        /\ Done \in 0..Len(disks)
        /\ \A i \in 1..Len(left) : left[i] = disks[Done + i]
        /\ \/ /\ err \in 0..Done
              /\ err = 0 => \A i \in 1..Done : sent[disks[i]] = sb.events
           \/ err <= Done - 1 - ENOMEM
        /\ pc = "count" => left # << >> /\ sent[Head(left)] = sb.events

\* A write in flight with the current event number is one of this round.
InflightOK ==
    /\ IsFiniteSet(inflight)
    /\ \A w \in inflight :
            /\ w.events <= sb.events
            /\ pc = "write" /\ w.events = sb.events =>
                    \E i \in 1..Done : w.dev = disks[i]
            /\ pc = "count" /\ w.events = sb.events =>
                    \E i \in 1..(Done + 1) : w.dev = disks[i]

IInv ==
    /\ TypeOK
    /\ MembersHeld
    /\ SbFollowed
    /\ SizeKept
    /\ NoLeftovers
    /\ CommandOK
    /\ RoundOK
    /\ InflightOK
    /\ PendingAccounted
    /\ UpdateComplete

\* A start of the array comes to its end: jmd_update_sb does not repeat itself
\* for ever, whatever write_disk_sb returns.
StartEnds == pc = "run" ~> (pc = "idle" \/ bug # "none")

\* pending_writes comes back to 0, although super_written may have counted
\* down before write_disk_sb counted up.
WritesSettle == pending # 0 ~> (pending = 0 \/ bug # "none" \/ gone)

\* struct jmd_rdev: desc_nr is the "descriptor index in the superblock": when
\* the superblocks of a started array are written, the descriptor with the
\* number of a member names that member.
DescNrIndexesMember ==
    pc = "round" => \A d \in Members : sb.disks[desc_nr[d]].dev = d
=============================================================================
