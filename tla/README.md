# A TLA+ verification of JRAID

JRAID is a Linux kernel module (`src/src`) that builds a RAID-4/5 block device
from other block devices, with a user-space tool and some side projects. This
directory holds TLA+ models of it, TLC configurations that model-check them on
small instances, and TLAPS proofs about them.

## 1. The system

| Component | State | Operations | Interacts with |
|---|---|---|---|
| **stripe cache and request path** (`src/src/jraid5.c`, `jraid5.h`) | stripe heads (`sector`, `count`, `STRIPE_HANDLE`, per device `toread`/`towrite`/`flags`/`req`), the sector hash, `inactive_list`, `handle_list`, `active_stripes`, `wait_for_stripe` | `get_active_stripe`, `__init_stripe`, `__add_stripe_bio`, `handle_stripe`, `release_stripe`, `jraid5_make_request`, `jraid5d`, the two `bi_end_io` handlers | called by `jmd_make_request` in the context of any task; submits to the member disks; completions run in interrupt context; wakes `jraid5d` through `jmd_wakeup_thread` |
| **address computation and array size** (`jraid5.c`, `jmd.c`, `jmd_p.h`) | `sb->size`, `sb->layout`, `array_sectors` | `jraid5_compute_sector`, `compute_blocknr`, `calc_dev_sboffset`, `calc_dev_size`, `jmddev_size` | gives the stripe cache its keys and parity disks |
| **jraid5 life cycle** (`jraid5.c`) | `raid5_conf`, the threads, the slab cache | `jraid5_run`, `jraid5_exit`, `grow_stripes`, `shrink_stripe_cache` | called by `do_jmd_run` and module exit |
| **resync** (`jraid5.c`, `jmd.c`) | - | `jraid5_sync_request`, `jraid5syncd`, `jmd_do_sync` | never started by live code |
| **array assembly and superblocks** (`jmd.c`) | the array list, its `jrdev` list, the superblock in memory, `raid_disks`, `nb_dev` | `add_store`, `set_array_info`, `add_new_disk`, `jmd_import_device`, bind/unbind, `analyze_sbs`, `do_jmd_run` | sysfs and ioctl; starts the personality |
| **superblock update** (`jmd.c`) | `sb_dirty`, `pending_writes`, `sb_wait` | `jmd_update_sb`, `write_disk_sb`, `super_written` | called by `jraid5d` and `do_jmd_run`; completions |
| **jmd threads** (`jmd.c`) | `THREAD_WAKEUP`, the wait queue | register, wake up, unregister, `jmd_thread` | runs `jraid5d` |
| **block device, ioctl, sysfs front end** (`jmd.c`) | open counts, the gendisk | open, release, ioctl, init, exit | kernel |
| **cache memory manager** (`jmd_mem.c`) | page pools, its thread | init, `memory_management_fn`, exit | module init and exit |
| **radix tree block device** (`attach/tpblkdev`) | a radix tree of pages with dirty tags | look up, insert, tag, release | its own block device |
| **RAID-6 P/Q demonstration** (`algorithm/raid6_pq`) | GF(16) tables | encode, recover | none |
| **jrcpp** (`attach/jrcpp`) | power-down event, threads | notifier, `power_down_thread`; the other files are stubs | kernel notifier |
| **rosock**, **jradm** | - | socket demonstration; command line tool | pure I/O |
| **xor engine** (`xor.c`) | - | - | not called: `handle_stripe` computes no parity |

Most of what makes the code hard to test is in its first component. A stripe
head is shared by any number of submitting tasks, by the daemon `jraid5d` and by
completion interrupts; `handle_stripe` runs on it without a lock (the
`spin_lock(&sh->lock)` calls are commented out); one completion handler drops
its reference *without* `device_lock`; and stripe heads are recycled for other
sectors while tasks sleep for them. In the other components it is what a failed
step leaves behind (a claimed disk, a descriptor, a thread, a pointer to freed
memory), completions that overtake the counter that is to count them, and the
moment at which a thread is woken or stopped. `PROJECT.json` lists each such hazard at
its line, with the properties that would catch it going wrong, or with the
reason why none does yet.

What each component must do to be correct:

* stripe cache: the count equals the number of owners; a stripe is on exactly
  one list or referenced; one stripe head per sector; a stripe is recycled only
  when nobody uses it; no wake-up is lost; the code's own `BUG()` assertions do
  not fire; every bio returns.
* addresses: no two array sectors share a disk sector, none lands on parity or
  on the superblock, the inverse mapping inverts.
* life cycle: a start that fails leaves no `conf` and no personality; requests
  meet only a personality that is set up.
* threads: a wake-up before the sleep is not lost, stopping a thread returns.
* assembly: every member has a slot of its own and the
  announced capacity fits when the array starts; a disk that failed to join
  does not confuse the ones that did.
* superblock update: every member is sent the current superblock in spite of
  failed attempts; the repetition ends; `pending_writes` counts what is in
  flight and comes back to 0. (`jmd_update_sb` does not wait for its writes:
  nothing sleeps on `sb_wait`.)
* radix tree device: written pages are tagged, a block has its device by the time
  it is used, the exit visits every block once.

## 2. Modules

| Module | Models | Reads |
|---|---|---|
| `StripeCache` | stripe cache, request path, daemon, completions | `Raid5Map`'s `ParityOfStripe` justifies its constant `Parity` |
| `StripeCache_proofs` | theorems about `StripeCache` | |
| `MCStripeCache` + 7 `.cfg` | instances for TLC | |
| `StripePool` | abstract specification of the stripe cache: heads leased by sector | |
| `StripePool_proofs` | the refinement of `StripePool` by `StripeCache` | `StripeCache_proofs` |
| `Raid5Map` | sizes, capacity, forward and inverse address mapping | |
| `Raid5Map_proofs` | theorems about `Raid5Map` | |
| `MCRaid5Map` + `.cfg` | instance for TLC | |
| `ArrayAssembly` | the command `add`, superblocks, `jraid5_run` and `jraid5_exit`, superblock update, removal of the modules | |
| `ArrayAssembly_proofs` | theorems about `ArrayAssembly` | |
| `MCArrayAssembly` + 2 `.cfg` | instances for TLC | |
| `KThread` | the three kinds of kernel thread: `jmd_thread`, `memory_management_fn`, `power_down_thread`, their owners and wake-ups | |
| `KThread_proofs` | theorems about `KThread` | |
| `MCKThread` + `.cfg` | instance for TLC | |
| `RadixDemo` | the block device of `attach/tpblkdev` | |
| `RadixDemo_proofs` | theorems about `RadixDemo` | |
| `MCRadixDemo` + `.cfg` | instance for TLC | |

The operators that `PROJECT.json` uses as mutants (plausible bugs of a
definition, each breaking one property) stand, marked *Mutant*, in front of
the definition that they alter. No specification uses them.

### 2.1 StripeCache

*State.* `sector`, `count`, `handle`, `toread`, `towrite`, `flags`, `endio` are
the fields of `struct stripe_head` and its `r5dev`s; `inactive`, `handleList`,
`active` are the lists and the counter of `raid5_conf`; `asleep` is the wait
queue `wait_for_stripe`; `wakeup` is `THREAD_WAKEUP`; `issued` counts how often
a disk holds `dev[i].req`; `pc`, `sh`, `idx`, `bio`, `bioList` are the local
state of a submitting task or of the daemon. `bug` records that a `BUG()` was
reached; the machine then stops.

*Actions.*

| Action | Code |
|---|---|
| `Request` | entry of `jraid5_make_request` |
| `GetFound`, `GetFoundBug`, `GetFree`, `GetWait` | one round of the loop of `get_active_stripe` under `device_lock`, with `get_free_stripe`, `__init_stripe`, `wait_event_lock_irq` |
| `AddStripeBio` | `__add_stripe_bio` (its result is ignored by its caller) |
| `ScanDev`, `MarkParity`, `SkipDev`, `SubmitDev`, `AbsentDev` | `handle_stripe`, one action for each device of each loop |
| `ReleaseActor`, `EndBio`, `IssueQueued`, `Return` | the end of `jraid5_make_request` and the return to the outer `generic_make_request` |
| `EndRead` | `raid5_end_read_request` |
| `EndWrite`, `EndWriteList` | `raid5_end_write_request`, the two halves of its unlocked `__release_stripe` |
| `ListRace` | the same unlocked `list_add_tail` while another CPU is at a list operation |
| `DaemonWake`, `DaemonTake`, `DaemonSleep` | `jmd_thread` around `jraid5d`, and its loop |

*Granularity and abstraction.*

* A section under `device_lock` is one action. `handle_stripe` holds no lock:
  each device of each loop is a step of its own. Within a step the test-and-
  clear of the Want bit and the submission are joined; the actor's own
  reference keeps the stripe in use across that window.
* The unlocked release is split between `atomic_dec_and_test` and
  `list_add_tail`. Where that insertion can meet a list operation of somebody
  else it may be undisturbed (`EndWriteList`) or may damage the lists
  (`ListRace`, `bug` becomes `"list_race"` and the machine stops). The links of
  the lists are not modelled.
* A bio is identified with the task that submits it. It covers one page, has a
  stripe sector and a data disk, and is a read or a write. Two bios on one
  device of a stripe start at the same array sector (this is `NoSharedBlock` of
  `Raid5Map`), so `__add_stripe_bio` finds that the second overlaps.
* Nothing takes a bio off `toread`/`towrite`. After `bio_endio` the list points
  to a bio that its owner may free or reuse: the head becomes `Stale`, and a
  comparison that dereferences it may come out either way.
* `generic_make_request` called from a task that is already inside it queues on
  `current->bio_list`; those requests reach the disks, in FIFO order (the loops
  run from the highest device down), after `jraid5_make_request` has returned.
  The daemon is in no such call and submits directly.
* `dev[i].req` is one `bio` that two actors may submit twice. The model counts
  the submissions and lets each completion run the `bi_end_io` that the request
  holds at that time; the damage to `bi_next` links in a disk's queue is not
  modelled. A disk accepts `MaxIo` submissions and then makes the submitter
  wait.
* `R5_UPTODATE` and `R5_Insync` are set and have no effect; `R5_OVERWRITE`, which
  `__add_stripe_bio` sets and nothing reads, is left out; `dev->written` is
  never set by live code; `noblock` is never true, as `bio_data_dir` yields only
  READ or WRITE. A run of `jraid5d` with nothing on its list, which a signal
  may cause, changes nothing and is left out; so is its `jmd_update_sb`,
  which touches no stripe.

*Abstract specification.* `StripePool` says what the cache promises to those
who use it: every user of a sector shares the one head that caches it, and a
head gets another sector only when it has no user. `Pool` in `StripeCache` is
its instance in which `refs` is the number of owners (`Refs`, computed from the
control points and from `issued`, not from `count`), and `RefinesPool` says
that each step of tasks, daemon and disks is a step of the pool or none.

### 2.2 Raid5Map

The state is what decides where a sector goes: number of disks, level, layout,
the sizes of the disks added so far, `sb->size`, the capacity, and the last two
bios mapped. `AddDisk` is `add_store` with `add_new_disk` (after the last disk
also `jmddev_size` and `device_size_calculation`); `MapBio` is the call of
`jraid5_compute_sector` in `jraid5_make_request`, the inverse
`compute_blocknr` is an operator.

* All sizes are in sectors. In the code a chunk is 64 sectors, `chunk_sectors`
  16384, the superblock area 128, `STRIPE_SECTORS` 8, and there are at most 27
  disks.
* `add_store` calls `jmddev_size` with `total_num + 1` disks, so the capacity
  is half of `sb->size`, rounded down, times the number of disks `n`. That is
  the whole of both disks when `n` is 2 (one data disk), and a share of
  `n/(2(n-1))` of each disk otherwise: `BelowSuperblock` is tight for two disks
  and has room to spare for more.
* `calc_dev_size` masks with a `__u32`, so a size is reduced modulo 2^32;
  `compute_blocknr` keeps a chunk number in an `int`. Both widths are
  constants.
* Nothing is assumed of the sizes of the disks, nor that an array has two of
  them: no line of the code checks either. On a disk below 64 KiB
  `MD_NEW_SIZE_BLOCKS` wraps around modulo the width of a sector number, so that
  the disk looks enormous and bios run past its end: `BelowSuperblock` excepts
  the bios on such a disk and holds for all others of the same array. An array of
  one disk starts with no data disk, and its first bio divides by 0
  (`DivideError`).
* Failures of `add_store` other than the size check belong to array assembly.

### 2.3 ArrayAssembly

*State.* `sb` is `jmddev->sb`, `synced` the copies the members got in the last
`sync_sbs`, `disks` the list of members (newest first) and `desc_nr` their
numbers; `held` are the disks this driver has opened exclusively; `pers` and
`conf` are `jmddev->pers` and `jmddev->private` (`PersonalityUsable` relates
them), `loaded` tells whether the
module jraid5 is inserted, `orphans` counts threads no `conf` points to. `left`,
`err`, `count` are locals of `jmd_update_sb`; `pending`, `inflight`, `sent`
describe its writes.

| Action | Code |
|---|---|
| `AddStore` | `add_store` up to the call of `pers->run`: `set_array_info`, `add_new_disk`, `jmd_import_device`, `bind_rdev_to_array`, `sync_sbs`, `analyze_sbs`, `do_jmd_run` |
| `AddClaimed` | the same command for a disk that is claimed: an error pointer is dereferenced |
| `AddOverrun` | the same command with a number behind the last descriptor: nothing compares `<total>` with `MD_SB_DISKS` |
| `AddNoInfo` | an early allocation fails; the claim on the disk is not given back |
| `jraid5_run` | with each abort path; `RunUnloaded`: the module has gone in between |
| `BeginRound`, `WriteNoMemory`, `WriteSkipped`, `SubmitSb`, `CountWrite`, `EndRound` | `jmd_update_sb` and `write_disk_sb` |
| `super_written` | completion of a superblock write |
| `RequestBug` | `jmd_make_request` while `pers` is set and `conf` is not usable |
| `jraid5_init`, `jraid5_exit`, `jmd_exit` | insertion and removal of the modules |
| `Resize` | a member disk changes its size (environment) |

*Granularity and abstraction.* Commands come one after the other; `add_store`
takes no lock, and two commands at the same time are not modelled. The atomic increment of `pending_writes` comes after
`submit_bio` and is a step of its own. `bug` records a use of an error pointer
(`claimed`), of a personality without `conf` (`null_conf`), of a module that is
gone or of what it freed (`unloaded`), a second free (`double_free`), a
completion after `jmd_exit` (`freed_jmddev`), and a descriptor or a slot behind
the end of its table (`overrun`). Left out are uuid, checksum and
contents of the media, and the counters of active, working, spare and failed
disks, which decide nothing. As the contents of the media are left out, so is
the branch in which `jmd_import_device` finds a superblock on a disk: it needs
`alloc_array_sb` to have failed and a superblock at sector 0, and this driver
writes one there only on a disk of 64 to 128 KiB, whose `calc_dev_size` is 0 and
whose array is never started.

*What the properties do not claim.* The attempt to prove stronger forms showed
where the code does not guarantee them, and the statements say so.

* `StartUsesAllMembers` claims that *every* member gets a slot only if nothing
  has failed since jmd was loaded. A failed import leaves its descriptor: with
  `add d1 5 3` failing and then `add d1 2 0`, `add d2 2 0`, `set_this_disk` gives
  d1 the number 3, d2 has number 0, `analyze_sbs` accepts the array of two, and
  `jraid5_run` starts it degraded and without d1. If the number left behind is
  `raid_disks` itself the comparison at `jraid5.c:1305` lets the disk through; it
  counts as a working disk, and the array may start with two empty slots. What
  holds always is that each member whose number is a slot of the array is in that
  slot.
* `FailedStartLeavesNothing` does not say that no thread is left: `jraid5d` stays
  when an allocation after its registration fails. `PersonalityUsable` does not
  cover the run itself (`do_jmd_run` publishes the personality first) nor the time
  after `jraid5_exit`, which leaves both pointers; requests that come then are
  `RequestBug`.
* `StartFits` bounds the capacity if the array has at least two disks and there
  are no more members than disks; the latter is shown when nothing has failed.
  With `<total>` 1 an array of one disk and no data disk starts.
* `UpdateComplete` is claimed for at most `ENOMEM` disks: the sum of the results
  of `write_disk_sb`, -12 for a failure and 1 for a skipped disk, can be 0 with
  12 skipped disks.

### 2.4 KThread

A behaviour follows one thread, whose kind is chosen in `Init`, and its owner.
`Enter`, `Top`, `Flush`, `Wait`, `Clear`, `Check`, `Call` are the lines of the
loop; `Start`, `StartFails`, `Setup` the three ways a thread comes into being;
`WakeSet` and `WakeQueue` are the two steps of `jmd_wakeup_thread` and of
`shutdown_event`, which set the flag and then wake the queue, `wakers` counting
those between the two; `BeginExit`, `SendSig`,
`StopThread`, `Join`, `ExitAfterFailure` are `jmd_unregister_thread`,
`jmd_cache_mem_exit` and `PDP_main_exit`. The semantics of
`wait_event_interruptible`, `kthread_run`, `kthread_stop` and signals is the
kernel's. `owed` is a history variable: a wake-up came and its work has not
begun. `bug` records a call through `run` after it was set to NULL
(`null_run`), use of a wait queue before its initialisation (`raw_queue`), use
of a thread's structure after `kfree` (`freed`), and the exit of the memory
manager after a failed start (`double_destroy`, `err_ptr`); `BugWindows` says
when each of these can happen, and so that it cannot at any other time. A stripe
may be released, and wake its daemon, at any time; `power_down_message` can be
called only while the module PDP is in and its caller holds it there, and nobody
wakes the memory manager. What `jraid5d` does when it runs is in `StripeCache`.

### 2.5 RadixDemo

`Submit` is one segment of a bio in `simp_make_request`; `Lookup`, `Insert`,
`Link` and `AllocFails` are `dev_insert_page`, which looks up and inserts under
two holds of `tree_lock`; `Use` is a turn of the copy loop of `blk_dev_write` or
`blk_dev_read` with `set_blk_dirty` and `set_blk_tsync`; `FindTagged` and
`FreeBatch` are one turn of the loops of `find_tag_blks` and `free_all_blks` in
`radix_block_exit`. A task that loses the race of `dev_insert_page` goes on with
a block that is not in the tree and that nobody frees; a task that finds a
block before its `ddev` is filled in stops the machine (`null_ddev`), and so
does a request before `blk_dev` is allocated (`null_dev`). `UnlinkedHasOwner`
confines the first to the time in which the inserting task has not yet reached
`blk->ddev = ddev`. Bytes are not
modelled, because the copies never touch the pages of the tree. The two tags
are set under two holds of the lock and in one step here: nobody reads them
before the exit. The comment at `radix_demo.c:196` ("if already dirty, return
0, else dirty it and return 1") does not describe the function, which always
returns 1; its result only feeds a counter that is printed, so that the counter
is left out.

## 3. Runs

Bounds are constants of the configurations: `MaxBios` bios per task (in
`RadixDemo` segments in all), `MaxIo` submissions of one request, `MaxAdds`, `MaxFaults`, `MaxLoads` and `MaxWakes`
for commands, failures, insertions of the module and wake-ups.

| Run | Instance | Shows |
|---|---|---|
| `stripe_shared` | 2 tasks with 2 bios each, 1 stripe, 3 disks, `MaxIo` 2 | `TypeOK`, `CountIsRefs`, `OneHome`: every reference is counted and every stripe has one place, with double submission of one request, reads completed as writes, unlocked completions |
| `stripe_recycle` | 3 tasks, 3 sectors, 2 stripes, 2 disks | `IInv`, `HashUnique`, `NoLostWakeup`, `SectorStable`, `RefinesPool`: misses, sleeps, wake-ups, recycling; the cache implements `StripePool` |
| `stripe_degraded` | 2 tasks, 2 sectors, 2 stripes, 1 of 3 disks absent, fairness | `ActiveIsBusy`, `HandleListed`, `AssertionsHold`, `StripeHandled`: the handle list, the daemon against requesters |
| `stripe_live` | 2 tasks, 2 sectors, 1 stripe, 3 disks, fairness | `RequestReturns`, `StripeFreed` |
| `array_assembly` | 3 disks of sizes 4, 6 and 0, 4 commands, totals 0, 1, 2, 3, 5, numbers 0, 1, 3, 4, 4 descriptors, 1 fault, 2 rounds of the update, jraid5 inserted twice, fairness | `IInv`, `PersonalityUsable`, `FailedStartLeavesNothing`, `PendingAccounted`, `UpdateComplete`, `StartUsesAllMembers`, `StartFits`, `StartEnds`, `WritesSettle` |
| `kthreads` | each kind of thread, 4 wake-ups, fairness | `IInv`, `SleepsOnlyIdle`, `WakeupKept`, `BugWindows`, `WakeupHandled`, `StopReturns` |
| `radix_block` | 2 tasks, 2 segments, 3 pages of 2 sectors, batches of 2, 1 fault, fairness | `IInv`, `WrittenIsTagged`, `FindCountsTags`, `ExitFreesTree`, `UnlinkedHasOwner`, `RequestEnds` |
| `sb_descriptor` | as `array_assembly`, totals 2 and 3, 3 rounds, 1 insertion | *violated*: `DescNrIndexesMember` |
| `stripe_init_bug` | 2 tasks, 2 sectors, 1 stripe | *violated*: `RecycledIsClean` |
| `stripe_lru_bug` | 2 tasks, 1 sector, 1 stripe | *violated*: `UnreferencedIsListed` |
| `stripe_want_bug` | 2 tasks, 1 sector, 1 stripe | *violated*: `WantIsInternal` |
| `raid5_map` | 1, 2 and 3 disks, six sizes in every order, both levels, four layouts, every pair of bios | `IInv`, `NoSharedBlock`, `ParityOfStripe`, `RoundTrip`, `BelowSuperblock` |

Why these bounds. Two tasks on one stripe are enough for every pair of steps of
different actors; a second bio per task brings stale list heads and a request
that is submitted while it is in flight. Three tasks with three sectors and two
stripe heads are the least with which two tasks use heads of their own, share
one or fill both, while the third misses and sleeps. What the woken task then
does is limited by the code and not by the bounds: a stripe that has served a bio
is not recycled, because the `BUG()` of `__init_stripe` comes first
(`RecycledIsClean`), so that the sleeper meets this `BUG()` and never finds its
sector brought in by another task. The case of `get_active_stripe` that looks up
the sector again after the sleep is in the model, as it is in the code, and is
not reached. One absent disk is the only source of `STRIPE_HANDLE`; with three
disks the others of the stripe still have requests in flight when it is marked.
In `raid5_map` one disk (5) has no room for a superblock and wraps around, one
(11) has room and is below one chunk, and the largest exceeds the modulus of the
narrow integers, so the wrap-around, the rejection and the truncation all happen.
Tasks are symmetric, and the runs `stripe_shared` and `stripe_recycle` use that;
the liveness runs use no symmetry. In `array_assembly` four commands allow
a failed one before a complete array, a total that is lowered in a later
command leaves one slot empty (a degraded start), a total of 5 admits a number
behind the four descriptors and one (3) behind the slots of the array that is
started, totals 0 and 1 are the ends of what `add_store` lets through, the disk of size 0 makes `device_size_calculation`
refuse the array, and one fault falls on each place in turn; a second
insertion of jraid5 lets it be removed with a `conf` that was freed before. The
interesting distances of `kthreads` are between one wake-up and the next and
the stop, which four wake-ups exhaust. In `radix_block` a segment may cross a
page, two tasks may race for one block, and three pages are more than one batch.
The runs of `ArrayAssembly`, `KThread` and `RadixDemo` check no deadlock: their
commands are bounded, and their kernel modules may be removed for good. Safety
for other sizes is what the proofs are for.

Fairness. Weak fairness of each task's step, of the daemon, of each disk and of
each completion handler: the kernel schedules runnable tasks, a disk ends every
request it accepts, and an interrupt handler runs to its end. No fairness is
assumed of `Request`: a task need not submit anything. In `ArrayAssembly` a
command that has begun runs on and each disk ends its writes; in `KThread` the
thread is scheduled when it can run, a waker that has set the flag goes on to
the queue and an exit that has begun goes on, while
wake-ups and the exit itself are not forced; in `RadixDemo` a task in the driver
runs on, and submissions, loading and removal are not forced. `RequestReturns` and
`StripeFreed` are claimed for arrays with all disks present. With a disk absent
`STRIPE_HANDLE` is set and never cleared: `jraid5d` handles the stripe, as
`StripeHandled` says, and then over and over, and never frees it. `StopReturns` names the one case
in which stopping a thread need not return: `memory_management_fn` may flush the
signal of `jmd_cache_mem_exit` before the stop flag is set, and its condition
does not look at the flag. All liveness is claimed up to a `bug`.

### What the violated runs show

* **`RecycledIsClean`**, `__init_stripe` (`jraid5.c:491-497`). The code that
  cleared `toread`/`towrite` is commented out. A stripe that served a bio
  still points to it when it is recycled for another sector: `BUG()`. A
  consequence for the other results: a stripe that has served a bio is never
  recycled successfully, the machine stops first.
* **`UnreferencedIsListed`**, `get_active_stripe` (`jraid5.c:539-540`).
  `raid5_end_write_request` releases without `device_lock`. A requester of the
  same sector that comes between the decrement and the list insertion finds a
  stripe with count 0 on no list: `BUG()`.
* **`WantIsInternal`**, `jraid5.h:49`. With a read and a write pending on one
  device `handle_stripe` submits the write only, and `R5_Wantread` stays set
  after it returns.

* **`DescNrIndexesMember`**, `jmd_k.h:194` calls `desc_nr` the "descriptor index
  in the superblock". `add_new_disk` writes the descriptor
  (`jmd.c:777-788`) before the import that may fail and does not take it back.
  A disk that failed under number 0 and is added again under the number 1 of
  another member is then named by both descriptors; `set_this_disk`
  (`jmd.c:663-669`) takes the first, so that no two members have one number and
  `analyze_sbs` accepts the array. It starts, and the superblocks it writes have
  no descriptor of the other member.

## 4. Proofs

`tlapm` on `StripeCache_proofs.tla`, `StripePool_proofs.tla`,
`ArrayAssembly_proofs.tla`, `KThread_proofs.tla`, `RadixDemo_proofs.tla` and
`Raid5Map_proofs.tla` checks them. They
hold for every value of the constants that satisfies the modules' assumptions:
for `StripeCache`, finite sets of tasks and stripe heads, any sectors, at least
two disks, any of them absent, any bounds; for `KThread`, any of the kinds of
thread and any number of wake-ups; for `ArrayAssembly`, any finite set of disks
of any sizes, any totals that fit the counter and any numbers, any number of
commands, failures and rounds; for `RadixDemo`, any finite set of tasks, any
size of a page, of the device and of a batch; for `Raid5Map`, the relations
between chunk, page and integer widths, and at most as many disks as a chunk has
sectors (27 and 64 in the code); disks of any size that a sector number can hold.

| Theorem | States |
|---|---|
| `StripeCache_proofs!IInvHolds` | the inductive invariant |
| `TypeCorrect`, `CountCorrect`, `HomeCorrect`, `ActiveCorrect`, `HashCorrect`, `AssertionsCorrect`, `WakeupCorrect`, `HandleListCorrect` | `[]TypeOK`, `[]CountIsRefs`, `[]OneHome`, `[]ActiveIsBusy`, `[]HashUnique`, `[]AssertionsHold`, `[]NoLostWakeup`, `[]HandleListed` |
| `SectorStableHolds` | the action property `SectorStable` |
| `StripePool_proofs!PoolRefinement` | `StripeCache` implements `StripePool` |
| `ArrayAssembly_proofs!IInvHolds`, `TypeCorrect` | the inductive invariant and the type invariant |
| `PersonalityUsableHolds`, `FailedStartLeavesNothingHolds`, `PendingAccountedHolds`, `UpdateCompleteHolds` | `[]PersonalityUsable`, `[]FailedStartLeavesNothing`, `[]PendingAccounted`, `[]UpdateComplete` |
| `StartUsesAllMembersHolds`, `StartFitsHolds` | the two action properties of the start |
| `RadixDemo_proofs!IInvHolds` | the inductive invariant |
| `PartsInPage`, `WrittenIsTaggedHolds`, `FindCountsTagsHolds`, `ExitFreesTreeHolds`, `UnlinkedHasOwnerHolds` | no part of a request leaves its page; `[]WrittenIsTagged`, `[]FindCountsTags`, `[]ExitFreesTree`, `[]UnlinkedHasOwner` |
| `KThread_proofs!IInvHolds`, `SleepsOnlyIdleHolds`, `WakeupKeptHolds`, `BugWindowsHolds` | the inductive invariant; no thread sleeps on a condition that holds unless its waker is still to come; no wake-up is forgotten; accidents happen in their windows only |
| `Raid5Map_proofs!IInvHolds`, `TypeCorrect` | the inductive invariant and the type invariant |
| `NoSharedBlockHolds`, `ParityOfStripeHolds`, `RoundTripHolds`, `BelowSuperblockHolds` | the four properties of the mapping |

*StripeCache.* None of the safety properties is inductive alone. A release
keeps the count right only if it was the number of owners; it puts a stripe on
a list that does not hold it only by `OneHome`; a hit takes the right stripe
off only because a stripe with count 0 is on one list or in `limbo`; recycling
leaves no owner behind because count 0 means no owner; and the accounting of
`active_stripes` needs that the handle list holds just the marked stripes
(`ListsByFlag`; with `OneHome` it gives `HandleListed`). `IInv` adds `Control` (what a control point says about an
actor's locals) and `HandledIsHashed` (the daemon can find the parity disk of
what it handles). The proof has first lemmas on the lists (append, tail,
delete), then on the three sets of owners gaining or losing one member, then
one lemma per action, and combines them in `NextIInv`. `ActiveIsBusy`, `OneHome`
and the rest are claimed up to the first `BUG()`.

*StripePool.* `CountIsRefs` of the proved invariant makes the abstract `refs`
equal to `count`, so that each action is matched through its effect on `count`
and `sector` only: a hit, a list entry taken by the daemon and a submission are
`Share`, a miss is `Recycle` (nobody uses the head because its count is 0, no
other head has the sector because the look-up failed), every release is
`Leave`, the head dropped before the `BUG()` of `__init_stripe` is `Drop`, and
the rest stutters.

*ArrayAssembly.* `IInv` has a part for each thing a later step relies on.
`SbFollowed`: a descriptor in use carries its index (`DescsNumbered`), so that
`set_this_disk` returns an index, and the copies of the members agree with the
superblock in size, events and `raid_disks`, so that `analyze_sbs`, which stores
a copy back, changes none of them. `SizeKept`: `add_new_disk` takes a size of 0
for "not known", so `sb->size` bounds all members only if none of them is too
small; `device_size_calculation` asks for just that before a start.
`NoLeftovers`: as long as nothing has failed, descriptors in use and members
correspond by number, hence `sync_sbs` renumbers nobody and `analyze_sbs` removes
nothing. `CommandOK`: what `do_jmd_run` has tested is still so when `jraid5_run`
begins, although the module jraid5 may be removed in between. `RoundOK` and
`InflightOK`: `left` is the rest of the list of members; `err` is either the
number of skipped disks (0 only if all so far were sent the superblock) or so far
below 0 that skips cannot bring it back to 0; a write in flight with the current
event number belongs to a member the round has passed, so that `submit_bio` never
repeats one and `inflight` can be a set. The proof has lemmas on the list, the
superblock operations and the slots, then one per action, the largest for
`AddStore` along its intermediate superblocks. The action properties follow from
`IInv` before the step, with an injection of the members into the numbers and a
bijection of slots and members to count them. The first descriptor of
`set_this_disk` and the first member of a slot are least elements, taken from
the well-foundedness of the naturals.

`PersonalityUsable` is proved by an induction of its own on top of `IInv`, with
the number of insertions of jraid5; `MembersHeld` (a member stays opened until
`jmd_exit`) and the bookkeeping of `TypeOK` are parts of `IInv` only.

*RadixDemo.* `IInv` follows a request through its parts (`RequestOK`: the part
lies in one page and the parts left end with the segment; `RequestKept`: the
parts behind it are tagged), the tree (`TreeOwnsBlocks`), and the exit: the
blocks allocated and freed (`BlocksAccounted`), the tagged blocks counted behind
`index` (`TagsCounted`), and that no request is under way then (`Quiet`). A turn
of `find_tag_blks` counts the least `VecSize` tagged pages from `index` on;
`BatchLemma` and `CountLemma` say that nothing is skipped or counted twice.
`UnlinkedHasOwner` is inductive on top of `IInv`: a block is new when it is
inserted, so that no other task has it yet.

*KThread.* `IInv` adds where the owner can be while the thread is at a point of
its loop (`Progress`), which queues are initialised then (`Queues`) and who may
be between the two steps of a wake-up (`Wakers`); the proof goes through the
actions one by one. What carries it is the order of the code: the flag is set in
one step and the queue woken in a later one, so that a thread asleep with the
flag set has a waker still to come (with the order reversed `SleepsOnlyIdle`
fails, which is one of the mutants); and the flag is cleared before the stop flag
is read and the work begins, never between the work and the next sleep.

*Raid5Map.* Integer division lemmas lead to: the parity and the data disk of a
chunk are disks and differ, the mapping is injective (`MapInjective`) and
`compute_blocknr` inverts it (`MapInverse`), which needs that a chunk number
below the capacity fits an `int`. `BelowSuperblock` is a matter of several
steps: `IInv` carries that `sb->size` is known and at most the size of each
disk added so far (`Sized`) and what holds when the array starts (`Started`).

*Model-checked only:* the liveness properties `RequestReturns`, `StripeHandled`,
`StripeFreed`, `StartEnds`, `WritesSettle`, `WakeupHandled`, `StopReturns` and
`RequestEnds` (fairness is outside the prover's reach), and the violated claims.
Every invariant and every action property of the passing runs is proved.

## 5. Not modelled, and the plan

Not modelled: resync (never started; its thread only prints), the stubs of
jrcpp, the sockets of rosock, the command line of jradm, the xor engine (never
called), the contents of blocks (`handle_stripe` moves no data), and the tables
of the RAID-6 demonstration (a stand-alone program over GF(16) with no state).

Open, in the order of their worth:

1. Two `add` commands at the same time, and the lists emptied by
   `shrink_stripes` when jraid5 is removed under load.
2. Several bios on one `current->bio_list` below a stacked driver, and the links
   of the stripe lists.
3. `Galois`: the arithmetic of `algorithm/raid6_pq` against a reference
   definition, by TLC.
