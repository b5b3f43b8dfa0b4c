------------------------------ MODULE KThread ------------------------------
(***************************************************************************)
(* The kernel threads of the repository and how they are started, woken    *)
(* and stopped:                                                            *)
(*   "jmd"  jmd_thread of src/src/jmd.c, which runs jraid5d, jraid5syncd   *)
(*          and jmd_do_recovery;                                           *)
(*   "mem"  memory_management_fn of src/src/jmd_mem.c;                     *)
(*   "pdp"  power_down_thread of src/attach/jrcpp/PDP_func.c.              *)
(* A behaviour is about one thread; its kind is chosen in Init.  The three *)
(* loops have the same steps and differ in the condition they sleep on, in *)
(* whether they flush signals, and in who initialises the wait queue.      *)
(*                                                                         *)
(* The kernel's part: wait_event_interruptible tests its condition after   *)
(* the task is on the queue, and again after every wake-up; it returns     *)
(* when the condition holds or a signal is pending.  kthread_stop sets the *)
(* flag that kthread_should_stop reads, wakes the task, waits for its end. *)
(***************************************************************************)
EXTENDS Integers

CONSTANTS
    Kinds,      \* the kinds of thread, subset of {"jmd", "mem", "pdp"}
    MaxWakes    \* bound: wake-ups given

ASSUME KThreadConstants ==
    Kinds \subseteq {"jmd", "mem", "pdp"} /\ MaxWakes \in Nat

VARIABLES
    kind,
    t,          \* where the thread is
    flag,       \* THREAD_WAKEUP, power_down
    signal,     \* signal_pending
    stop,       \* kthread_should_stop
    run,        \* thread->run # NULL
    wq,         \* the wait queue head is initialised
    slab,       \* cache_blk: never created, in use, or destroyed
    c,          \* where the owner of the thread is
    owed,       \* a wake-up came, and the work it asks for has not been begun
    flushed,    \* flush_signals took the signal of the exit function
    wakers,     \* wakers that have set the flag and not yet woken the queue
    wakes, bug

vars == <<kind, t, flag, signal, stop, run, wq, slab, c, owed, flushed, wakers,
          wakes, bug>>

ThreadPcs == {"none", "new", "top", "flush", "wait", "asleep", "clear",
              "check", "call", "done"}
OwnerPcs == {"init", "setup", "active", "exit", "stop", "join", "failed",
             "gone"}

FlagsOK ==
    /\ flag \in BOOLEAN /\ signal \in BOOLEAN /\ stop \in BOOLEAN
    /\ run \in BOOLEAN /\ wq \in BOOLEAN
    /\ owed \in BOOLEAN /\ flushed \in BOOLEAN

TypeOK ==
    /\ kind \in {"jmd", "mem", "pdp"}
    /\ t \in ThreadPcs /\ c \in OwnerPcs
    /\ slab \in {"none", "live", "destroyed"}
    /\ wakes \in 0..MaxWakes /\ wakers \in 0..MaxWakes
    /\ bug \in {"none", "null_run", "raw_queue", "freed",
              "double_destroy", "err_ptr"}
    /\ FlagsOK

Init ==
    /\ kind \in Kinds
    /\ t = "none" /\ flag = FALSE /\ signal = FALSE /\ stop = FALSE
    /\ run = FALSE /\ wq = FALSE /\ slab = "none" /\ c = "init"
    /\ owed = FALSE /\ flushed = FALSE /\ wakers = 0 /\ wakes = 0 /\ bug = "none"

\* 100 * free_blks / total_blks < release_start_line: a percentage is never less
\* than 0, the value release_start_line keeps.
need_release == FALSE

\* Mutant: the stop flag is not part of the condition of jmd_thread.
ConditionNoStop ==
    \/ kind \in {"jmd", "pdp"} /\ flag
    \/ kind = "mem" /\ need_release

\* What the thread sleeps on.
Condition ==
    \/ kind \in {"jmd", "pdp"} /\ flag
    \/ kind = "jmd" /\ stop
    \/ kind = "mem" /\ need_release

\* A task that is asleep is put back on the processor, and tests again.
Awake(pc) == IF pc = "asleep" THEN "wait" ELSE pc

-----------------------------------------------------------------------------
(* The thread *)

\* kthread_run has created it: a thread that is stopped before it first runs
\* never enters its function.  power_down_thread initialises its queue.
Enter ==
    /\ t = "new"
    /\ t' = IF stop THEN "done" ELSE "top"
    /\ wq' = (wq \/ (kind = "pdp" /\ ~stop))
    /\ UNCHANGED <<kind, flag, signal, stop, run, slab, c, owed, flushed,
                   wakers, wakes, bug>>

\* Mutant: the wake-up flag is cleared before the wait instead of after it.
TopClears ==
    /\ t = "top"
    /\ t' = IF stop THEN "done" ELSE IF kind = "pdp" THEN "wait" ELSE "flush"
    /\ flag' = FALSE
    /\ UNCHANGED <<kind, signal, stop, run, wq, slab, c, owed, flushed,
                   wakers, wakes, bug>>

\* while (!kthread_should_stop())
Top ==
    /\ t = "top"
    /\ t' = IF stop THEN "done" ELSE IF kind = "pdp" THEN "wait" ELSE "flush"
    /\ UNCHANGED <<kind, flag, signal, stop, run, wq, slab, c, owed, flushed,
                   wakers, wakes, bug>>

\* if (signal_pending(current)) flush_signals(current)
Flush ==
    /\ t = "flush"
    /\ t' = "wait" /\ signal' = FALSE
    /\ flushed' = (flushed \/ signal)
    /\ UNCHANGED <<kind, flag, stop, run, wq, slab, c, owed, wakers, wakes,
                   bug>>

\* One pass of wait_event_interruptible; going to sleep needs the queue.
Wait ==
    /\ t = "wait"
    /\ LET through == Condition \/ signal
       IN  /\ t' = IF through THEN "clear" ELSE IF wq THEN "asleep" ELSE t
           /\ bug' = IF through \/ wq THEN bug ELSE "raw_queue"
    /\ UNCHANGED <<kind, flag, signal, stop, run, wq, slab, c, owed, flushed,
                   wakers, wakes>>

\* clear_bit(THREAD_WAKEUP), power_down = 0.
Clear ==
    /\ t = "clear" /\ t' = "check" /\ flag' = FALSE
    /\ UNCHANGED <<kind, signal, stop, run, wq, slab, c, owed, flushed,
                   wakers, wakes, bug>>

\* if (!kthread_should_stop()); the work of power_down_thread is a message.
Check ==
    /\ t = "check"
    /\ t' = IF ~stop /\ kind = "jmd" THEN "call" ELSE "top"
    /\ owed' = IF ~stop /\ kind # "jmd" THEN FALSE ELSE owed
    /\ UNCHANGED <<kind, flag, signal, stop, run, wq, slab, c, flushed,
                   wakers, wakes, bug>>

\* thread->run(thread): jraid5d looks at its lists from here on.
Call ==
    /\ t = "call"
    /\ IF run THEN t' = "top" /\ owed' = FALSE /\ UNCHANGED <<flag, bug>>
       ELSE bug' = "null_run" /\ UNCHANGED <<t, owed, flag>>
    /\ UNCHANGED <<kind, signal, stop, run, wq, slab, c, flushed, wakers,
                   wakes>>

ThreadStep == Enter \/ Top \/ Flush \/ Wait \/ Clear \/ Check \/ Call

-----------------------------------------------------------------------------
(* The owner: start *)

\* Mutant: jmd_register_thread does not initialise the queue.
StartRaw ==
    /\ c = "init"
    /\ t' = "new" /\ run' = (kind = "jmd") /\ wq' = FALSE
    /\ slab' = IF kind = "mem" THEN "live" ELSE slab
    /\ c' = IF kind = "jmd" THEN "active" ELSE "setup"
    /\ UNCHANGED <<kind, flag, signal, stop, owed, flushed, wakers, wakes, bug>>

\* jmd_register_thread, the end of jmd_cache_mem_init, PDP_main_init: the
\* thread exists.  Only jmd_register_thread has initialised the queue.
Start ==
    /\ c = "init"
    /\ t' = "new" /\ run' = (kind = "jmd") /\ wq' = (kind = "jmd")
    /\ slab' = IF kind = "mem" THEN "live" ELSE slab
    /\ c' = IF kind = "jmd" THEN "active" ELSE "setup"
    /\ UNCHANGED <<kind, flag, signal, stop, owed, flushed, wakers, wakes,
                   bug>>

\* No memory for the structure, or kthread_run failed: NULL is returned; the
\* memory manager has destroyed its slab, or has not created it, and jmd_init
\* does not look at the result; the module PDP is not loaded.
StartFails ==
    /\ c = "init"
    /\ slab' \in IF kind = "mem" THEN {"none", "destroyed"} ELSE {slab}
    /\ c' = IF kind = "mem" THEN "failed" ELSE "gone"
    /\ UNCHANGED <<kind, t, flag, signal, stop, run, wq, owed, flushed,
                   wakers, wakes, bug>>

\* init_waitqueue_head(&memory_management_wq), register_power_notifier; without
\* memory for pfunc_to_pdp PDP_main_init stops its thread again.
Setup ==
    /\ c = "setup"
    /\ wq' = (wq \/ kind = "mem")
    /\ c' \in {"active"} \cup (IF kind = "pdp" THEN {"exit"} ELSE {})
    /\ UNCHANGED <<kind, t, flag, signal, stop, run, slab, owed, flushed,
                   wakers, wakes, bug>>

-----------------------------------------------------------------------------
(* Wake-ups *)

\* __release_stripe may wake jraid5d until conf->thread is freed and after it:
\* nothing waits for the requests in flight.  power_down_message can be linked
\* when PDP_main_init has succeeded, and PDP stays while its caller is loaded.
\* Nobody wakes memory_management_wq.
MayWake ==
    /\ wakes < MaxWakes
    /\ \/ kind = "jmd" /\ c \in {"active", "stop", "join"}
       \/ kind = "jmd" /\ c = "gone" /\ t = "done"
       \/ kind = "pdp" /\ c = "active"

\* conf->thread points to a structure that jmd_interrupt_thread has freed.
Dangling == kind = "jmd" /\ c = "gone"

\* Mutant: the queue is woken and the flag is never set.
WakeNoFlag ==
    /\ MayWake /\ ~Dangling
    /\ wakes' = wakes + 1 /\ wakers' = wakers + 1 /\ owed' = TRUE
    /\ UNCHANGED <<kind, t, flag, signal, stop, run, wq, slab, c, flushed, bug>>

\* set_bit(THREAD_WAKEUP, &thread->flags), power_down = 1.
WakeSet ==
    /\ MayWake
    /\ wakes' = wakes + 1
    /\ IF Dangling THEN bug' = "freed" /\ UNCHANGED <<flag, owed, wakers>>
       ELSE /\ flag' = TRUE /\ owed' = TRUE /\ wakers' = wakers + 1
            /\ UNCHANGED bug
    /\ UNCHANGED <<kind, t, signal, stop, run, wq, slab, c, flushed>>

\* wake_up(&thread->wqueue), wake_up(&power_down_wqh).
WakeQueue ==
    /\ wakers > 0
    /\ wakers' = wakers - 1
    /\ IF wq /\ ~Dangling THEN t' = Awake(t) /\ UNCHANGED bug
       ELSE bug' = (IF wq THEN "freed" ELSE "raw_queue") /\ UNCHANGED t
    /\ UNCHANGED <<kind, flag, signal, stop, run, wq, slab, c, owed, flushed,
                   wakes>>

\* Mutant: the queue is woken first and the flag is set after it.
WakeSwapped ==
    \/ /\ MayWake /\ wq /\ ~Dangling
       /\ wakes' = wakes + 1 /\ wakers' = wakers + 1 /\ t' = Awake(t)
       /\ UNCHANGED <<kind, flag, signal, stop, run, wq, slab, c, owed,
                      flushed, bug>>
    \/ /\ wakers > 0 /\ ~Dangling
       /\ wakers' = wakers - 1 /\ flag' = TRUE /\ owed' = TRUE
       /\ UNCHANGED <<kind, t, signal, stop, run, wq, slab, c, flushed, wakes,
                      bug>>

\* jmd_wakeup_thread and shutdown_event: two steps, the flag before the queue.
WakeStep == WakeSet \/ WakeQueue

-----------------------------------------------------------------------------
(* The owner: stop *)

\* jmd_unregister_thread begins with run = NULL; PDP_main_exit runs when no
\* module that calls power_down_message is loaded, and takes the notifier off
\* the chain; jmd_cache_mem_exit finds cache_blk set.
BeginExit ==
    /\ c = "active"
    /\ kind = "pdp" => wakers = 0
    /\ run' = FALSE
    /\ c' = IF kind = "jmd" THEN "stop" ELSE "exit"
    /\ UNCHANGED <<kind, t, flag, signal, stop, wq, slab, owed, flushed,
                   wakers, wakes, bug>>

\* send_sig(SIGINT, tsk, 1)
SendSig ==
    /\ c = "exit"
    /\ signal' = TRUE /\ t' = Awake(t) /\ c' = "stop"
    /\ UNCHANGED <<kind, flag, stop, run, wq, slab, owed, flushed, wakers,
                   wakes, bug>>

\* The first half of kthread_stop.
StopThread ==
    /\ c = "stop"
    /\ stop' = TRUE /\ t' = Awake(t) /\ c' = "join"
    /\ UNCHANGED <<kind, flag, signal, run, wq, slab, owed, flushed, wakers,
                   wakes, bug>>

\* kthread_stop returns; the structure, the blocks and the slab are freed.
Join ==
    /\ c = "join" /\ t = "done"
    /\ c' = "gone"
    /\ slab' = IF kind = "mem" THEN "destroyed" ELSE slab
    /\ UNCHANGED <<kind, t, flag, signal, stop, run, wq, owed, flushed,
                   wakers, wakes, bug>>

\* jmd_cache_mem_exit after a failed jmd_cache_mem_init: cache_blk still points
\* to the slab, memory_management_tsk is NULL or an error code.
ExitAfterFailure ==
    /\ c = "failed"
    /\ c' = "gone"
    /\ bug' \in IF slab = "none" THEN {bug} ELSE {"double_destroy", "err_ptr"}
    /\ UNCHANGED <<kind, t, flag, signal, stop, run, wq, slab, owed, flushed,
                   wakers, wakes>>

OwnerStep == SendSig \/ StopThread \/ Join

Next ==
    /\ bug = "none"
    /\ \/ ThreadStep \/ OwnerStep
       \/ Start \/ StartFails \/ Setup \/ WakeStep \/ BeginExit \/ ExitAfterFailure

Spec == Init /\ [][Next]_vars

\* The thread is scheduled when it can run, a waker that has set the flag goes
\* on to the queue, and an exit that has begun goes on.
FairSpec ==
    /\ Spec
    /\ WF_vars(bug = "none" /\ ThreadStep)
    /\ WF_vars(bug = "none" /\ WakeQueue)
    /\ WF_vars(bug = "none" /\ OwnerStep)

-----------------------------------------------------------------------------
(* Properties *)

\* A thread does not sleep through its work: when its condition holds while it
\* sleeps, a waker that has set the flag is still to wake the queue, and neither
\* a signal nor the stop of jmd_thread finds it asleep.
SleepsOnlyIdle ==
    t = "asleep" => ~signal /\ (Condition => wakers > 0 /\ ~stop)

\* A wake-up is never forgotten: as long as the work it asks for has not begun
\* its flag is set, or the thread has cleared it and is on its way to the work.
WakeupKept ==
    owed => \/ flag
            \/ t \in {"check", "call"}
            \/ stop

\* The accidents the code is open to, and no other: jmd_thread calls NULL only
\* between run = NULL of jmd_unregister_thread and the end of kthread_stop; the
\* queue of the memory manager is raw only until jmd_cache_mem_init has gone on,
\* that of power_down_thread only until the thread has first run; a thread
\* structure is used after kfree only by a release of a stripe that jraid5_exit
\* has not waited for; the slab is destroyed twice, or an error code used as a
\* task, only if no thread was ever started.
BugWindows ==
    /\ bug = "null_run" => kind = "jmd" /\ c \in {"stop", "join"}
    /\ bug = "raw_queue" => \/ kind = "mem" /\ c = "setup"
                            \/ kind = "pdp" /\ t = "new"
    /\ bug = "freed" => kind = "jmd" /\ c = "gone" /\ t = "done"
    /\ bug \in {"double_destroy", "err_ptr"} => kind = "mem" /\ t = "none"

\* What the proofs use besides: what each kind of thread has when it gets to a
\* point of its loop, and where the owner is meanwhile.
Progress ==
    /\ c = "init" => t = "none" /\ ~owed /\ wakers = 0
    /\ c = "failed" => kind = "mem" /\ t = "none"
    /\ c \in {"setup", "exit"} => kind # "jmd"
    /\ t = "flush" => kind # "pdp"
    /\ c \in {"setup", "active", "exit", "stop", "join"} => t # "none"
    /\ t = "done" => stop
    /\ stop => c \in {"join", "gone"}
    /\ c = "gone" => t \in {"none", "done"}
    /\ kind = "pdp" /\ c \in {"stop", "join"} => signal

Queues ==
    /\ kind = "jmd" /\ t # "none" => wq
    /\ kind = "mem" /\ c \notin {"init", "setup"} /\ t # "none" => wq
    /\ kind = "pdp" /\ t \notin {"none", "new", "done"} => wq
    /\ t = "asleep" => wq

Wakers ==
    /\ wakers <= wakes
    /\ wakers > 0 => \/ kind = "jmd" /\ t # "none"
                     \/ kind = "pdp" /\ c = "active"
    /\ t = "call" => kind = "jmd"
    /\ kind = "jmd" /\ c = "active" => run

IInv ==
    /\ TypeOK
    /\ Progress /\ Queues /\ Wakers
    /\ SleepsOnlyIdle
    /\ WakeupKept
    /\ BugWindows

\* A wake-up is followed by the work, or the thread is being stopped.
WakeupHandled == owed ~> (~owed \/ stop \/ bug # "none")

\* Stopping a thread returns, except that memory_management_fn may have
\* flushed the signal of jmd_cache_mem_exit before the stop flag was set: its
\* condition does not look at the flag and it sleeps on.
StopReturns ==
    c = "join" ~> (c = "gone" \/ bug # "none" \/ (kind = "mem" /\ flushed))
=============================================================================
