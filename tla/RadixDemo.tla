----------------------------- MODULE RadixDemo -----------------------------
(***************************************************************************)
(* The block device of src/attach/tpblkdev/radix_demo.c: tasks read and    *)
(* write segments of bios, each page of the device has a block in a radix  *)
(* tree that is made on first use, writes tag the block, and the removal   *)
(* of the module counts the tagged blocks and frees all of them.           *)
(*                                                                         *)
(* What happens under one hold of tree_lock is one action.  dev_insert_page*)
(* looks up and inserts under two holds, and fills in blk->ddev after the  *)
(* second.  Bytes are left out: blk_dev_write and blk_dev_read copy inside *)
(* the page of the bio and never touch the page of the block.  So are the  *)
(* counters dirty_blks, tsync_blks, write_blks and read_blks, which are    *)
(* only printed.                                                           *)
(***************************************************************************)
EXTENDS Integers, FiniteSets

CONSTANTS
    Tasks,          \* tasks that submit bios
    PageSectors,    \* PAGE_SECTORS
    NrPages,        \* pages of the device: ddev->size >> PAGE_SECTORS_SHIFT
    VecSize,        \* BLKS_VEC_SIZE
    MaxBios,        \* bound: segments submitted
    MaxFaults,      \* bound: failed allocations
    None            \* a NULL pointer

ASSUME RadixConstants ==
    /\ PageSectors \in Nat \ {0} /\ NrPages \in Nat \ {0}
    /\ VecSize \in Nat \ {0} /\ MaxBios \in Nat /\ MaxFaults \in Nat
    /\ IsFiniteSet(Tasks) /\ None \notin Nat

VARIABLES
    tree,       \* ddev->dev_pages: the block of each page
    dirty, tsync, \* pages with RADIX_TREE_TAG_DIRTY, RADIX_TREE_TAG_TSYNC
    live,       \* blocks allocated from _cache_blk
    linked,     \* blocks whose ddev is set
    nblks,      \* blocks allocated so far, the name of the next one
    pc, blk,    \* of each task: where it is, the block it works on
    req,        \* of each task: its segment and the locals of the copy loop
    written,    \* sectors of the write segments that have ended well
    mod,        \* where radix_block_init or radix_block_exit is
    index, cnt, \* locals of find_tag_blks, free_all_blks (pos, blk_cnt)
    bios, faults, bug

device == <<tree, dirty, tsync, live, linked, nblks>>
tasks == <<pc, blk, req, written, bios>>
vars == <<device, tasks, mod, index, cnt, faults, bug>>

Pages == 0..(NrPages - 1)
LastSector == NrPages * PageSectors - 1
Blocks == 1..nblks

NoReq == [rw |-> "read", first |-> 0, len |-> 0, sector |-> 0, copy |-> 0,
          nr |-> 0]

\* The type invariant.
TypeOK ==
    /\ tree \in [Pages -> Blocks \cup {None}]
    /\ dirty \subseteq Pages /\ tsync \subseteq Pages
    /\ live \subseteq Blocks /\ linked \subseteq Blocks /\ nblks \in Nat
    /\ pc \in [Tasks -> {"idle", "lookup", "insert", "link", "use"}]
    /\ blk \in [Tasks -> Blocks \cup {None}]
    /\ req \in [Tasks -> [rw : {"read", "write"}, first : Nat, len : Nat,
                          sector : 0..(LastSector + 1), copy : 0..PageSectors,
                          nr : 0..2]]
    /\ written \subseteq 0..LastSector
    /\ mod \in {"loading", "live", "no_dev", "find_dirty", "find_tsync",
                "free", "gone"}
    /\ index \in 0..NrPages /\ cnt \in Nat
    /\ bios \in 0..MaxBios /\ faults \in 0..MaxFaults
    /\ bug \in {"none", "null_dev", "null_ddev", "gang_order"}

\* radix_block_init has called add_disk; _cache_blk and blk_dev do not exist.
Init ==
    /\ tree = [p \in Pages |-> None] /\ dirty = {} /\ tsync = {}
    /\ live = {} /\ linked = {} /\ nblks = 0
    /\ pc = [t \in Tasks |-> "idle"] /\ blk = [t \in Tasks |-> None]
    /\ req = [t \in Tasks |-> NoReq] /\ written = {}
    /\ mod = "loading" /\ index = 0 /\ cnt = 0
    /\ bios = 0 /\ faults = 0 /\ bug = "none"

-----------------------------------------------------------------------------
(* The module is loaded *)

InitDone ==
    /\ mod = "loading" /\ mod' = "live"
    /\ UNCHANGED <<device, tasks, index, cnt, faults, bug>>

\* The slab or blk_dev cannot be allocated.  In the second case ret was never
\* set: the module is refused, or kept without a device.
InitFails ==
    /\ mod = "loading" /\ faults < MaxFaults
    /\ mod' \in {"gone", "no_dev"} /\ faults' = faults + 1
    /\ UNCHANGED <<device, tasks, index, cnt, bug>>

-----------------------------------------------------------------------------
(* Requests *)

MinOf(a, b) == IF a < b THEN a ELSE b
PageOf(sector) == sector \div PageSectors

\* simp_make_request passes a segment to blk_dev_write or blk_dev_read.
Submit(t, rw, sector, len) ==
    LET room == PageSectors - (sector % PageSectors)
    IN  /\ pc[t] = "idle" /\ mod \in {"loading", "live"} /\ bios < MaxBios
        /\ sector + len <= LastSector + 1
        /\ req' = [req EXCEPT ![t] =
                [rw |-> rw, first |-> sector, len |-> len, sector |-> sector,
                 copy |-> MinOf(len, room), nr |-> IF len > room THEN 2 ELSE 1]]
        /\ pc' = [pc EXCEPT ![t] = "lookup"] /\ bios' = bios + 1
        /\ UNCHANGED <<device, blk, written, mod, index, cnt, faults, bug>>

\* dev_lookup_blk; blk_dev is NULL until radix_block_init has allocated it.
Lookup(t) ==
    LET b == tree[PageOf(req[t].sector)]
    IN  /\ pc[t] = "lookup"
        /\ IF mod # "live" THEN bug' = "null_dev" /\ UNCHANGED <<pc, blk>>
           ELSE /\ pc' = [pc EXCEPT ![t] = IF b = None THEN "insert" ELSE "use"]
                /\ blk' = [blk EXCEPT ![t] = b]
                /\ UNCHANGED bug
        /\ UNCHANGED <<device, req, written, bios, mod, index, cnt, faults>>

\* kmem_cache_zalloc, alloc_page or radix_tree_preload fails; the bio is ended
\* without an error.  After a failed preload the block is lost.
AllocFails(t) ==
    /\ pc[t] = "insert" /\ faults < MaxFaults
    /\ \/ UNCHANGED <<live, nblks>>
       \/ live' = live \cup {nblks + 1} /\ nblks' = nblks + 1
    /\ pc' = [pc EXCEPT ![t] = "idle"] /\ faults' = faults + 1
    /\ UNCHANGED <<tree, dirty, tsync, linked, blk, req, written, bios, mod,
                   index, cnt, bug>>

\* radix_tree_insert fails if the page has a block.
Inserted(p, b) == IF tree[p] = None THEN [tree EXCEPT ![p] = b] ELSE tree

\* The second half of dev_insert_page, up to write_unlock_irq.  A task that
\* was too late goes on with a block that is not in the tree.
Insert(t) ==
    /\ pc[t] = "insert"
    /\ tree' = Inserted(PageOf(req[t].sector), nblks + 1)
    /\ live' = live \cup {nblks + 1} /\ nblks' = nblks + 1
    /\ blk' = [blk EXCEPT ![t] = nblks + 1]
    /\ pc' = [pc EXCEPT ![t] = "link"]
    /\ UNCHANGED <<dirty, tsync, linked, req, written, bios, mod, index, cnt,
                   faults, bug>>

\* Mutant: only a task whose block got into the tree sets its ddev.
LinkWinner(t) ==
    /\ pc[t] = "link"
    /\ linked' = IF tree[PageOf(req[t].sector)] = blk[t]
                 THEN linked \cup {blk[t]} ELSE linked
    /\ pc' = [pc EXCEPT ![t] = "use"]
    /\ UNCHANGED <<tree, dirty, tsync, live, nblks, blk, req, written, bios,
                   mod, index, cnt, faults, bug>>

\* blk->ddev = ddev
Link(t) ==
    /\ pc[t] = "link"
    /\ linked' = linked \cup {blk[t]}
    /\ pc' = [pc EXCEPT ![t] = "use"]
    /\ UNCHANGED <<tree, dirty, tsync, live, nblks, blk, req, written, bios,
                   mod, index, cnt, faults, bug>>

\* Mutant: the second part of a segment starts where the first one did.
SameSector(r) == [r EXCEPT !.copy = r.len - r.copy, !.nr = r.nr - 1]

\* Mutant: the loop counter is not advanced.
SamePart(r) == [r EXCEPT !.copy = r.len - r.copy]

\* Mutant: the sector moves by the length of the segment, not of the part.
WholeSegment(r) ==
    [r EXCEPT !.sector = r.sector + r.len, !.copy = r.len - r.copy,
              !.nr = r.nr - 1]

\* sector += sectors; copy = len - copy
NextPart(r) ==
    [r EXCEPT !.sector = r.sector + r.copy, !.copy = r.len - r.copy,
              !.nr = r.nr - 1]

\* set_blk_dirty and set_blk_tsync; they reach the device through the block,
\* which another task may still be filling in.  They take the lock twice: the
\* tags are read by nobody before the exit, so this is one step.
Use(t) ==
    LET r == req[t]
        p == PageOf(r.sector)
        write == r.rw = "write"
    IN  /\ pc[t] = "use" /\ blk[t] \in linked
        /\ dirty' = IF write THEN dirty \cup {p} ELSE dirty
        /\ tsync' = IF write THEN tsync \cup {p} ELSE tsync
        /\ req' = [req EXCEPT ![t] = NextPart(r)]
        /\ pc' = [pc EXCEPT ![t] = IF r.nr > 1 THEN "lookup" ELSE "idle"]
        /\ written' = IF write /\ r.nr = 1
                      THEN written \cup r.first..(r.first + r.len - 1)
                      ELSE written
        /\ UNCHANGED <<tree, live, linked, nblks, blk, bios, mod, index, cnt,
                       faults, bug>>

UseUnlinked(t) ==
    /\ pc[t] = "use" /\ blk[t] \notin linked
    /\ bug' = "null_ddev"
    /\ UNCHANGED <<device, tasks, mod, index, cnt, faults>>

TaskStep(t) ==
    Lookup(t) \/ Insert(t) \/ AllocFails(t) \/ Link(t) \/ Use(t) \/ UseUnlinked(t)

-----------------------------------------------------------------------------
(* radix_block_exit: an open device keeps the module from being removed *)

ExitBegin ==
    /\ mod = "live" /\ \A t \in Tasks : pc[t] = "idle"
    /\ mod' = "find_dirty" /\ index' = 0 /\ cnt' = 0
    /\ UNCHANGED <<device, tasks, faults, bug>>

\* The module was kept although blk_dev is NULL.
ExitNoDev ==
    /\ mod = "no_dev"
    /\ bug' = "null_dev"
    /\ UNCHANGED <<device, tasks, mod, index, cnt, faults>>

\* The first n pages of S at or above from: what radix_tree_for_each_tagged
\* and radix_tree_gang_lookup deliver.
FirstOf(S, from, n) ==
    {p \in S : p >= from /\ Cardinality({q \in S : from <= q /\ q < p}) < n}

Highest(S) == CHOOSE p \in S : \A q \in S : q <= p

\* Mutant: the next batch begins one page too far.
PastNext(got) == Highest(got) + 2

\* *index = blks[ret - 1]->index + 1, and pos++ in free_all_blks.
Behind(got) == Highest(got) + 1

\* One turn of the loop of find_tag_blks for the tag of mod.
FindTagged ==
    LET tagged == IF mod = "find_dirty" THEN dirty ELSE tsync
        got == FirstOf(tagged, index, VecSize)
    IN  /\ mod \in {"find_dirty", "find_tsync"}
        /\ IF index <= NrPages /\ got # {}
           THEN /\ index' = Behind(got) /\ cnt' = cnt + Cardinality(got)
                /\ UNCHANGED mod
           ELSE /\ index' = 0 /\ cnt' = 0
                /\ mod' = IF mod = "find_dirty" THEN "find_tsync" ELSE "free"
        /\ UNCHANGED <<device, tasks, faults, bug>>

\* One turn of the loop of free_all_blks, with its BUG_ON.
FreeBatch ==
    LET present == {p \in Pages : tree[p] # None}
        got == FirstOf(present, index, VecSize)
    IN  /\ mod = "free"
        /\ IF got = {}
           THEN mod' = "gone" /\ UNCHANGED <<index, cnt, tree, live, bug>>
           ELSE /\ index' = Behind(got) /\ cnt' = cnt + Cardinality(got)
                /\ tree' = [p \in Pages |-> IF p \in got THEN None ELSE tree[p]]
                /\ live' = live \ {tree[p] : p \in got}
                /\ bug' = IF \E p \in got : p < index THEN "gang_order" ELSE bug
                /\ UNCHANGED mod
        /\ UNCHANGED <<dirty, tsync, linked, nblks, tasks, faults>>

ExitStep == FindTagged \/ FreeBatch

-----------------------------------------------------------------------------
Next ==
    /\ bug = "none"
    /\ \/ InitDone \/ InitFails \/ ExitBegin \/ ExitNoDev \/ ExitStep
       \/ \E t \in Tasks :
            \/ TaskStep(t)
            \/ \E rw \in {"read", "write"}, s \in 0..LastSector,
                  len \in 1..PageSectors : Submit(t, rw, s, len)

Spec == Init /\ [][Next]_vars

\* A task in the driver runs on.
FairSpec ==
    Spec /\ \A t \in Tasks : WF_vars(bug = "none" /\ TaskStep(t))

-----------------------------------------------------------------------------
(* Properties *)

\* Every page that holds a sector of a write that has ended well is in the
\* tree and carries both tags, also when the write crossed a page boundary
\* and when several tasks made the block of the page at the same time.
WrittenIsTagged ==
    mod = "live" =>
        \A s \in written : /\ PageOf(s) \in dirty \cap tsync
                           /\ tree[PageOf(s)] # None

\* Whoever meets a block without its ddev, in the tree or as the block to tag,
\* meets it while the task that inserted it is between write_unlock_irq and
\* blk->ddev = ddev of dev_insert_page: the NULL that set_blk_dirty dereferences
\* can come from this window only, and the blocks of the losers and the blocks
\* that free_all_blks finds have their ddev.
UnlinkedHasOwner ==
    LET Inserting(b) == \E u \in Tasks : pc[u] = "link" /\ blk[u] = b
    IN  /\ \A p \in Pages :
            tree[p] # None /\ tree[p] \notin linked => Inserting(tree[p])
        /\ \A t \in Tasks :
            pc[t] = "use" /\ blk[t] \notin linked => Inserting(blk[t])

\* find_tag_blks has counted every tagged block once when its loop ends,
\* whatever the number of blocks is to the size of a batch.
FindCountsTags ==
    /\ mod = "find_dirty" /\ FirstOf(dirty, index, 1) = {} => cnt = Cardinality(dirty)
    /\ mod = "find_tsync" /\ FirstOf(tsync, index, 1) = {} => cnt = Cardinality(tsync)

\* The removal of the module frees every block of the tree and counts it once;
\* the blocks that are left never were in the tree: their tasks lost the race
\* of dev_insert_page or could not preload.
ExitFreesTree ==
    mod = "gone" =>
        /\ \A p \in Pages : tree[p] = None
        /\ Cardinality(live) = nblks - cnt

\* The inductive invariant of the proofs.  A request in the driver: the part
\* it copies lies in one page, and the parts that are left end with the segment.
RequestOK(t) ==
    LET r == req[t]
    IN  pc[t] # "idle" =>
            /\ r.len \in 1..PageSectors /\ r.copy \in 1..r.len
            /\ r.first + r.len <= LastSector + 1
            /\ \/ /\ r.nr = 2 /\ r.sector = r.first /\ r.copy < r.len
                  /\ r.sector + r.copy = PageSectors * (PageOf(r.sector) + 1)
               \/ /\ r.nr = 1 /\ r.sector >= r.first
                  /\ r.sector + r.copy = r.first + r.len
            /\ \A s \in r.sector..(r.sector + r.copy - 1) :
                    PageOf(s) = PageOf(r.sector)

\* What it has written is tagged, and the page it works on has a block.
RequestKept(t) ==
    /\ pc[t] # "idle" /\ req[t].rw = "write" =>
            \A s \in req[t].first..(req[t].sector - 1) :
                /\ PageOf(s) \in dirty \cap tsync
                /\ tree[PageOf(s)] # None
    /\ pc[t] \in {"link", "use"} =>
            blk[t] # None /\ tree[PageOf(req[t].sector)] # None

\* Requests are past their look-up only while the device is there, and the exit
\* runs without any.
Quiet ==
    /\ mod # "live" => \A t \in Tasks : pc[t] \in {"idle", "lookup"}
    /\ mod \in {"find_dirty", "find_tsync", "free"} =>
            \A t \in Tasks : pc[t] = "idle"

\* The blocks of the tree are allocated, and no two pages share one.
TreeOwnsBlocks ==
    /\ \A p \in Pages : tree[p] # None => tree[p] \in live
    /\ \A p, q \in Pages : tree[p] # None /\ tree[p] = tree[q] => p = q

\* No block is freed before free_all_blks, which has freed those behind index.
BlocksAccounted ==
    /\ mod \in {"loading", "no_dev"} =>
            /\ nblks = 0 /\ cnt = 0 /\ written = {}
            /\ \A p \in Pages : tree[p] = None
    /\ mod \notin {"free", "gone"} => live = 1..nblks
    /\ mod \in {"free", "gone"} => Cardinality(live) = nblks - cnt
    /\ mod = "free" => \A p \in Pages : p < index => tree[p] = None

\* find_tag_blks has counted the tagged blocks behind index.
TagsCounted ==
    /\ mod = "find_dirty" => cnt = Cardinality({p \in dirty : p < index})
    /\ mod = "find_tsync" => cnt = Cardinality({p \in tsync : p < index})

IInv ==
    /\ TypeOK
    /\ \A t \in Tasks : RequestOK(t) /\ RequestKept(t)
    /\ WrittenIsTagged
    /\ Quiet
    /\ TreeOwnsBlocks
    /\ BlocksAccounted
    /\ TagsCounted
    /\ ExitFreesTree

\* A request comes to its end, also one that crosses a page and one that loses
\* the race for a block.
RequestEnds == \A t \in Tasks : pc[t] # "idle" ~> (pc[t] = "idle" \/ bug # "none")
=============================================================================
