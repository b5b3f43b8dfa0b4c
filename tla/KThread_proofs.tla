-------------------------- MODULE KThread_proofs --------------------------
(***************************************************************************)
(* Proofs about KThread: for any number of wake-ups, a thread does not     *)
(* sleep through its work, no wake-up is forgotten, and each accident the  *)
(* code is open to is confined to its window.                              *)
(***************************************************************************)
EXTENDS KThread, TLAPS

USE DEF ThreadPcs, OwnerPcs

\* The kinds of the run are kinds of the module.
LEMMA InitIInv == Init => IInv
<1> SUFFICES ASSUME Init PROVE IInv
  OBVIOUS
<1> USE DEF Init
<1>0. FlagsOK
  BY Zenon DEF FlagsOK
<1>1. TypeOK
  BY <1>0, KThreadConstants DEF TypeOK
<1>2. Progress /\ Queues /\ Wakers
  BY KThreadConstants DEF Progress, Queues, Wakers
<1>3. SleepsOnlyIdle /\ WakeupKept /\ BugWindows
  BY DEF SleepsOnlyIdle, WakeupKept, BugWindows
<1> QED
  BY <1>1, <1>2, <1>3 DEF IInv

\* Every step of a thread keeps the invariant.
LEMMA ThreadStepIInv ==
  ASSUME IInv, bug = "none", ThreadStep
  PROVE  IInv'
<1> USE DEF IInv, TypeOK
<1>1. CASE Enter
  <2> USE <1>1 DEF Enter
  <2>0. FlagsOK'
    BY Zenon DEF FlagsOK
  <2>1. TypeOK'
    BY <2>0, KThreadConstants DEF Wakers
  <2>2. Progress'
    BY DEF Progress, Wakers, SleepsOnlyIdle
  <2>3. Queues'
    BY DEF Progress, Queues
  <2>4. Wakers'
    BY DEF Progress, Wakers
  <2>5. SleepsOnlyIdle'
    BY DEF Progress, Queues, SleepsOnlyIdle, Condition, need_release
  <2>6. WakeupKept'
    BY DEF Progress, WakeupKept
  <2>7. BugWindows'
    BY DEF Progress, Queues, Wakers, BugWindows
  <2> QED
    BY <2>1, <2>2, <2>3, <2>4, <2>5, <2>6, <2>7
<1>2. CASE Top
  <2> USE <1>2 DEF Top
  <2>0. FlagsOK'
    BY Zenon DEF FlagsOK
  <2>1. TypeOK'
    BY <2>0, KThreadConstants DEF Wakers
  <2>2. Progress'
    BY DEF Progress, Wakers, SleepsOnlyIdle
  <2>3. Queues'
    BY DEF Progress, Queues
  <2>4. Wakers'
    BY DEF Progress, Wakers
  <2>5. SleepsOnlyIdle'
    BY DEF Progress, Queues, SleepsOnlyIdle, Condition, need_release
  <2>6. WakeupKept'
    BY DEF Progress, WakeupKept
  <2>7. BugWindows'
    BY DEF Progress, Queues, Wakers, BugWindows
  <2> QED
    BY <2>1, <2>2, <2>3, <2>4, <2>5, <2>6, <2>7
<1>3. CASE Flush
  <2> USE <1>3 DEF Flush
  <2>0. FlagsOK'
    BY Zenon DEF FlagsOK
  <2>1. TypeOK'
    BY <2>0, KThreadConstants DEF Wakers
  <2>2. Progress'
    BY DEF Progress, Wakers, SleepsOnlyIdle
  <2>3. Queues'
    BY DEF Progress, Queues
  <2>4. Wakers'
    BY DEF Progress, Wakers
  <2>5. SleepsOnlyIdle'
    BY DEF Progress, Queues, SleepsOnlyIdle, Condition, need_release
  <2>6. WakeupKept'
    BY DEF Progress, WakeupKept
  <2>7. BugWindows'
    BY DEF Progress, Queues, Wakers, BugWindows
  <2> QED
    BY <2>1, <2>2, <2>3, <2>4, <2>5, <2>6, <2>7
<1>4. CASE Wait
  <2> USE <1>4 DEF Wait, Condition, need_release
  <2>0. FlagsOK'
    BY Zenon DEF FlagsOK
  <2>1. TypeOK'
    BY <2>0, KThreadConstants DEF Wakers
  <2>2. Progress'
    BY DEF Progress, Wakers, SleepsOnlyIdle
  <2>3. Queues'
    BY DEF Progress, Queues
  <2>4. Wakers'
    BY DEF Progress, Wakers
  <2>5. SleepsOnlyIdle'
    BY DEF Progress, Queues, SleepsOnlyIdle, Condition, need_release
  <2>6. WakeupKept'
    BY DEF Progress, WakeupKept
  <2>7. BugWindows'
    BY DEF Progress, Queues, Wakers, BugWindows
  <2> QED
    BY <2>1, <2>2, <2>3, <2>4, <2>5, <2>6, <2>7
<1>5. CASE Clear
  <2> USE <1>5 DEF Clear
  <2>0. FlagsOK'
    BY Zenon DEF FlagsOK
  <2>1. TypeOK'
    BY <2>0, KThreadConstants DEF Wakers
  <2>2. Progress'
    BY DEF Progress, Wakers, SleepsOnlyIdle
  <2>3. Queues'
    BY DEF Progress, Queues
  <2>4. Wakers'
    BY DEF Progress, Wakers
  <2>5. SleepsOnlyIdle'
    BY DEF Progress, Queues, SleepsOnlyIdle, Condition, need_release
  <2>6. WakeupKept'
    BY DEF Progress, WakeupKept
  <2>7. BugWindows'
    BY DEF Progress, Queues, Wakers, BugWindows
  <2> QED
    BY <2>1, <2>2, <2>3, <2>4, <2>5, <2>6, <2>7
<1>6. CASE Check
  <2> USE <1>6 DEF Check
  <2>0. FlagsOK'
    BY Zenon DEF FlagsOK
  <2>1. TypeOK'
    BY <2>0, KThreadConstants DEF Wakers
  <2>2. Progress'
    BY DEF Progress, Wakers, SleepsOnlyIdle
  <2>3. Queues'
    BY DEF Progress, Queues
  <2>4. Wakers'
    BY DEF Progress, Wakers
  <2>5. SleepsOnlyIdle'
    BY DEF Progress, Queues, SleepsOnlyIdle, Condition, need_release
  <2>6. WakeupKept'
    BY DEF Progress, WakeupKept
  <2>7. BugWindows'
    BY DEF Progress, Queues, Wakers, BugWindows
  <2> QED
    BY <2>1, <2>2, <2>3, <2>4, <2>5, <2>6, <2>7
<1>7. CASE Call
  <2> USE <1>7 DEF Call
  <2>0. FlagsOK'
    BY Zenon DEF FlagsOK
  <2>1. TypeOK'
    BY <2>0, KThreadConstants DEF Wakers
  <2>2. Progress'
    BY DEF Progress, Wakers, SleepsOnlyIdle
  <2>3. Queues'
    BY DEF Progress, Queues
  <2>4. Wakers'
    BY DEF Progress, Wakers
  <2>5. SleepsOnlyIdle'
    BY DEF Progress, Queues, SleepsOnlyIdle, Condition, need_release
  <2>6. WakeupKept'
    BY DEF Progress, WakeupKept
  <2>7. BugWindows'
    BY DEF Progress, Queues, Wakers, BugWindows
  <2> QED
    BY <2>1, <2>2, <2>3, <2>4, <2>5, <2>6, <2>7
<1> QED
  BY <1>1, <1>2, <1>3, <1>4, <1>5, <1>6, <1>7 DEF ThreadStep

\* Both steps of a wake-up keep the invariant: in between the waker is counted.
LEMMA WakeStepIInv ==
  ASSUME IInv, bug = "none", WakeStep
  PROVE  IInv'
<1> USE DEF IInv, TypeOK
<1>1. CASE WakeSet
  <2> USE <1>1 DEF WakeSet, MayWake, Dangling
  <2>0. FlagsOK'
    BY Zenon DEF FlagsOK
  <2>1. TypeOK'
    BY <2>0, KThreadConstants DEF Wakers
  <2>2. Progress'
    BY DEF Progress, Wakers, SleepsOnlyIdle
  <2>3. Queues'
    BY DEF Progress, Queues
  <2>4. Wakers'
    BY DEF Progress, Wakers
  <2>5. SleepsOnlyIdle'
    BY DEF Progress, Queues, SleepsOnlyIdle, Condition, need_release
  <2>6. WakeupKept'
    BY DEF Progress, WakeupKept
  <2>7. BugWindows'
    BY DEF Progress, Queues, Wakers, BugWindows
  <2> QED
    BY <2>1, <2>2, <2>3, <2>4, <2>5, <2>6, <2>7
<1>2. CASE WakeQueue
  <2> USE <1>2 DEF WakeQueue, Dangling, Awake
  <2>0. FlagsOK'
    BY Zenon DEF FlagsOK
  <2>1. TypeOK'
    BY <2>0, KThreadConstants DEF Wakers
  <2>2. Progress'
    BY DEF Progress, Wakers, SleepsOnlyIdle
  <2>3. Queues'
    BY DEF Progress, Queues
  <2>4. Wakers'
    BY DEF Progress, Wakers
  <2>5. SleepsOnlyIdle'
    BY DEF Progress, Queues, SleepsOnlyIdle, Condition, need_release
  <2>6. WakeupKept'
    BY DEF Progress, WakeupKept
  <2>7. BugWindows'
    BY DEF Progress, Queues, Wakers, BugWindows
  <2> QED
    BY <2>1, <2>2, <2>3, <2>4, <2>5, <2>6, <2>7
<1> QED
  BY <1>1, <1>2 DEF WakeStep

\* Every step of the owner that stops the thread keeps the invariant.
LEMMA OwnerStepIInv ==
  ASSUME IInv, bug = "none", OwnerStep
  PROVE  IInv'
<1> USE DEF IInv, TypeOK
<1>1. CASE SendSig
  <2> USE <1>1 DEF SendSig, Awake
  <2>0. FlagsOK'
    BY Zenon DEF FlagsOK
  <2>1. TypeOK'
    BY <2>0, KThreadConstants DEF Wakers
  <2>2. Progress'
    BY DEF Progress, Wakers, SleepsOnlyIdle
  <2>3. Queues'
    BY DEF Progress, Queues
  <2>4. Wakers'
    BY DEF Progress, Wakers
  <2>5. SleepsOnlyIdle'
    BY DEF Progress, Queues, SleepsOnlyIdle, Condition, need_release
  <2>6. WakeupKept'
    BY DEF Progress, WakeupKept
  <2>7. BugWindows'
    BY DEF Progress, Queues, Wakers, BugWindows
  <2> QED
    BY <2>1, <2>2, <2>3, <2>4, <2>5, <2>6, <2>7
<1>2. CASE StopThread
  <2> USE <1>2 DEF StopThread, Awake
  <2>0. FlagsOK'
    BY Zenon DEF FlagsOK
  <2>1. TypeOK'
    BY <2>0, KThreadConstants DEF Wakers
  <2>2. Progress'
    BY DEF Progress, Wakers, SleepsOnlyIdle
  <2>3. Queues'
    BY DEF Progress, Queues
  <2>4. Wakers'
    BY DEF Progress, Wakers
  <2>5. SleepsOnlyIdle'
    BY DEF Progress, Queues, SleepsOnlyIdle, Condition, need_release
  <2>6. WakeupKept'
    BY DEF Progress, WakeupKept
  <2>7. BugWindows'
    BY DEF Progress, Queues, Wakers, BugWindows
  <2> QED
    BY <2>1, <2>2, <2>3, <2>4, <2>5, <2>6, <2>7
<1>3. CASE Join
  <2> USE <1>3 DEF Join
  <2>0. FlagsOK'
    BY Zenon DEF FlagsOK
  <2>1. TypeOK'
    BY <2>0, KThreadConstants DEF Wakers
  <2>2. Progress'
    BY DEF Progress, Wakers, SleepsOnlyIdle
  <2>3. Queues'
    BY DEF Progress, Queues
  <2>4. Wakers'
    BY DEF Progress, Wakers
  <2>5. SleepsOnlyIdle'
    BY DEF Progress, Queues, SleepsOnlyIdle, Condition, need_release
  <2>6. WakeupKept'
    BY DEF Progress, WakeupKept
  <2>7. BugWindows'
    BY DEF Progress, Queues, Wakers, BugWindows
  <2> QED
    BY <2>1, <2>2, <2>3, <2>4, <2>5, <2>6, <2>7
<1> QED
  BY <1>1, <1>2, <1>3 DEF OwnerStep

\* Every step keeps the invariant.
LEMMA NextIInv ==
  ASSUME IInv, [Next]_vars
  PROVE  IInv'
<1>1. CASE UNCHANGED vars
  BY <1>1 DEF vars, IInv, TypeOK, FlagsOK, Progress, Queues, Wakers,
     SleepsOnlyIdle, Condition, need_release, WakeupKept, BugWindows
<1> SUFFICES ASSUME Next PROVE IInv'
  BY <1>1
<1>2. bug = "none"
  BY DEF Next
<1>3. CASE ThreadStep \/ WakeStep \/ OwnerStep
  BY <1>2, <1>3, ThreadStepIInv, WakeStepIInv, OwnerStepIInv
<1> USE <1>2 DEF IInv, TypeOK
<1>4. CASE Start
  <2> USE <1>4 DEF Start
  <2>0. FlagsOK'
    BY Zenon DEF FlagsOK
  <2>1. TypeOK'
    BY <2>0, KThreadConstants DEF Wakers
  <2>2. Progress'
    BY DEF Progress, Wakers, SleepsOnlyIdle
  <2>3. Queues'
    BY DEF Progress, Queues
  <2>4. Wakers'
    BY DEF Progress, Wakers
  <2>5. SleepsOnlyIdle'
    BY DEF Progress, Queues, SleepsOnlyIdle, Condition, need_release
  <2>6. WakeupKept'
    BY DEF Progress, WakeupKept
  <2>7. BugWindows'
    BY DEF Progress, Queues, Wakers, BugWindows
  <2> QED
    BY <2>1, <2>2, <2>3, <2>4, <2>5, <2>6, <2>7
<1>5. CASE StartFails
  <2> USE <1>5 DEF StartFails
  <2>0. FlagsOK'
    BY Zenon DEF FlagsOK
  <2>1. TypeOK'
    BY <2>0, KThreadConstants DEF Wakers
  <2>2. Progress'
    BY DEF Progress, Wakers, SleepsOnlyIdle
  <2>3. Queues'
    BY DEF Progress, Queues
  <2>4. Wakers'
    BY DEF Progress, Wakers
  <2>5. SleepsOnlyIdle'
    BY DEF Progress, Queues, SleepsOnlyIdle, Condition, need_release
  <2>6. WakeupKept'
    BY DEF Progress, WakeupKept
  <2>7. BugWindows'
    BY DEF Progress, Queues, Wakers, BugWindows
  <2> QED
    BY <2>1, <2>2, <2>3, <2>4, <2>5, <2>6, <2>7
<1>6. CASE Setup
  <2> USE <1>6 DEF Setup
  <2>0. FlagsOK'
    BY Zenon DEF FlagsOK
  <2>1. TypeOK'
    BY <2>0, KThreadConstants DEF Wakers
  <2>2. Progress'
    BY DEF Progress, Wakers, SleepsOnlyIdle
  <2>3. Queues'
    BY DEF Progress, Queues
  <2>4. Wakers'
    BY DEF Progress, Wakers
  <2>5. SleepsOnlyIdle'
    BY DEF Progress, Queues, SleepsOnlyIdle, Condition, need_release
  <2>6. WakeupKept'
    BY DEF Progress, WakeupKept
  <2>7. BugWindows'
    BY DEF Progress, Queues, Wakers, BugWindows
  <2> QED
    BY <2>1, <2>2, <2>3, <2>4, <2>5, <2>6, <2>7
<1>7. CASE BeginExit
  <2> USE <1>7 DEF BeginExit
  <2>0. FlagsOK'
    BY Zenon DEF FlagsOK
  <2>1. TypeOK'
    BY <2>0, KThreadConstants DEF Wakers
  <2>2. Progress'
    BY DEF Progress, Wakers, SleepsOnlyIdle
  <2>3. Queues'
    BY DEF Progress, Queues
  <2>4. Wakers'
    BY DEF Progress, Wakers
  <2>5. SleepsOnlyIdle'
    BY DEF Progress, Queues, SleepsOnlyIdle, Condition, need_release
  <2>6. WakeupKept'
    BY DEF Progress, WakeupKept
  <2>7. BugWindows'
    BY DEF Progress, Queues, Wakers, BugWindows
  <2> QED
    BY <2>1, <2>2, <2>3, <2>4, <2>5, <2>6, <2>7
<1>8. CASE ExitAfterFailure
  <2> USE <1>8 DEF ExitAfterFailure
  <2>0. FlagsOK'
    BY Zenon DEF FlagsOK
  <2>1. TypeOK'
    BY <2>0, KThreadConstants DEF Wakers
  <2>2. Progress'
    BY DEF Progress, Wakers, SleepsOnlyIdle
  <2>3. Queues'
    BY DEF Progress, Queues
  <2>4. Wakers'
    BY DEF Progress, Wakers
  <2>5. SleepsOnlyIdle'
    BY DEF Progress, Queues, SleepsOnlyIdle, Condition, need_release
  <2>6. WakeupKept'
    BY DEF Progress, WakeupKept
  <2>7. BugWindows'
    BY DEF Progress, Queues, Wakers, BugWindows
  <2> QED
    BY <2>1, <2>2, <2>3, <2>4, <2>5, <2>6, <2>7
<1> QED
  BY <1>3, <1>4, <1>5, <1>6, <1>7, <1>8 DEF Next

\* The invariant of the proofs holds for every number of wake-ups.
THEOREM IInvHolds == Spec => []IInv
  BY InitIInv, NextIInv, PTL DEF Spec

\* No thread of the repository sleeps while its condition holds, except between
\* the two steps of a wake-up, or while a signal is pending, whatever the order
\* of wake-ups, stops and steps of the loop.
THEOREM SleepsOnlyIdleHolds == Spec => []SleepsOnlyIdle
<1>1. IInv => SleepsOnlyIdle
  BY DEF IInv
<1> QED
  BY <1>1, IInvHolds, PTL

\* A wake-up whose work has not begun is still recorded, unless the thread is
\* being stopped.
THEOREM WakeupKeptHolds == Spec => []WakeupKept
<1>1. IInv => WakeupKept
  BY DEF IInv
<1> QED
  BY <1>1, IInvHolds, PTL

\* A call of a NULL run, a use of a raw queue or of a freed thread, and a failed
\* start undone twice happen only in the windows that BugWindows names.
THEOREM BugWindowsHolds == Spec => []BugWindows
<1>1. IInv => BugWindows
  BY DEF IInv
<1> QED
  BY <1>1, IInvHolds, PTL
=============================================================================
