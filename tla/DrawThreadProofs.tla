-------------------------- MODULE DrawThreadProofs --------------------------
(***************************************************************************)
(* Theorems about DrawThread.tla for every bound on the nesting.  The      *)
(* argument is WorkerThreadProofs' one; what is new is that the flag the   *)
(* thread obeys and the counter the client keeps never disagree, so that   *)
(* an inner Resume() leaves the flag alone.                                *)
(***************************************************************************)
EXTENDS DrawThread, TLAPS

FlagsOK == BaseTypeOK(Places, Sites) /\ pending \in BOOLEAN

CountOK == suspend_count \in Nat /\ CountMatchesFlag

Handshake ==
  /\ suspended <=> pc = "command_wait"
  /\ stop_received <=> client \in {"stopping", "joined"}
  /\ pc = "new" => client = "free"
  /\ pc \notin {"timed", "timed_wait"}
  /\ client = "held" => suspend_received /\ pc = "command_wait"
  /\ client \in {"entering", "waiting", "woken"} => suspend_received
  /\ pc = "return" => ~AskedToPause

IInv == FlagsOK /\ Handshake /\ NoLostWakeup /\ CountOK

USE DEF base, CommandWaits, BasePlaces, BaseUnlocked, ClientPlaces, AtRest,
        Places, Sites, Unlocked, Locked, AllWaits

LEMMA InitIInv == Init => IInv
<1> SUFFICES ASSUME Init PROVE IInv
  OBVIOUS
<1> USE DEF Init, BaseInit
<1>1. FlagsOK
  BY DEF FlagsOK, BaseTypeOK
<1>2. Handshake /\ NoLostWakeup
  BY DEF Handshake, NoLostWakeup, AskedToPause
<1>3. CountOK
  BY DEF CountOK, CountMatchesFlag
<1> QED
  BY <1>1, <1>2, <1>3 DEF IInv

(* The part of the invariant without arithmetic, one action at a time. *)
LEMMA StepFlags == IInv /\ [Next]_vars => (FlagsOK /\ Handshake /\ NoLostWakeup)'
<1> SUFFICES ASSUME FlagsOK, Handshake, NoLostWakeup, [Next]_vars
             PROVE  (FlagsOK /\ Handshake /\ NoLostWakeup)'
  BY DEF IInv
<1> DEFINE Kept == FlagsOK /\ Handshake /\ NoLostWakeup
<1> USE DEF FlagsOK, BaseTypeOK, Handshake, NoLostWakeup, AskedToPause
<1>1. CASE Client
  <2>1. ASSUME NEW s \in BOOLEAN, StartDraw(s) PROVE Kept'
    BY <2>1 DEF StartDraw, Start
  <2>2. CASE TriggerRedraw
    BY <2>2 DEF TriggerRedraw, NotifyThread
  <2>3. ASSUME ~Locked, BeginSuspend(AllWaits, client), UNCHANGED pending PROVE Kept'
    BY <2>3 DEF BeginSuspend, NotifyThread
  <2>4. ASSUME ~Locked, BeginSuspend(AllWaits, "entering"), UNCHANGED pending
        PROVE  Kept'
    BY <2>4 DEF BeginSuspend, NotifyThread
  <2>5. CASE WaitUntilSuspendedDraw
    BY <2>5 DEF WaitUntilSuspendedDraw, WaitUntilSuspended, TestSuspended
  <2>6. CASE ClientWakesDraw
    BY <2>6 DEF ClientWakesDraw, ClientWakes, TestSuspended
  <2>7. ASSUME ~Locked, Resume(AllWaits), UNCHANGED pending PROVE Kept'
    BY <2>7 DEF Resume, NotifyThread
  <2>8. CASE BeginStopDraw
    BY <2>8 DEF BeginStopDraw, BeginStop, NotifyThread
  <2>9. CASE JoinDraw
    BY <2>9 DEF JoinDraw, Join
  <2>10. ASSUME UNCHANGED <<base, pending>> PROVE Kept'
    BY <2>10
  <2>11. CASE BeginSuspendDraw
    BY <2>3, <2>10, <2>11 DEF BeginSuspendDraw
  <2>12. CASE SuspendDraw
    BY <2>4, <2>12 DEF SuspendDraw
  <2>13. CASE ResumeDraw
    BY <2>7, <2>10, <2>13 DEF ResumeDraw
  <2> QED
    BY <1>1, <2>1, <2>2, <2>5, <2>6, <2>8, <2>9, <2>11, <2>12, <2>13 DEF Client
<1>2. CASE Drawer
  <2>1. CASE LockDraw
    BY <2>1 DEF LockDraw
  <2>2. CASE RedrawWakes
    BY <2>2 DEF RedrawWakes
  <2>3. CASE LoopReturns
    BY <2>3 DEF LoopReturns, SleepAt
  <2>4. CASE Check /\ UNCHANGED <<pending, suspend_count>>
    BY <2>4 DEF Check, SleepAt, NotifyClient
  <2>5. CASE CommandWakes /\ UNCHANGED <<pending, suspend_count>>
    BY <2>5 DEF CommandWakes
  <2> QED
    BY <1>2, <2>1, <2>2, <2>3, <2>4, <2>5 DEF Drawer
<1>3. CASE Spurious
  <2>1. CASE ThreadSpurious(AllWaits) /\ UNCHANGED <<pending, suspend_count>>
    BY <2>1 DEF ThreadSpurious
  <2>2. CASE ClientSpurious /\ UNCHANGED <<pending, suspend_count>>
    BY <2>2 DEF ClientSpurious
  <2> QED
    BY <1>3, <2>1, <2>2 DEF Spurious
<1>4. CASE UNCHANGED vars
  BY <1>4 DEF vars
<1> QED
  BY <1>1, <1>2, <1>3, <1>4 DEF Next

(* The counter and the flag: only the actions that touch one of them count.*)
LEMMA StepCount == IInv /\ [Next]_vars => CountOK'
<1> SUFFICES ASSUME FlagsOK, CountOK, [Next]_vars
             PROVE  CountOK'
  BY DEF IInv
<1> USE DEF CountOK, CountMatchesFlag
<1>1. ASSUME NEW s \in BOOLEAN, StartDraw(s) PROVE CountOK'
  BY <1>1 DEF StartDraw, Start
<1>2. CASE BeginSuspendDraw
  BY <1>2 DEF BeginSuspendDraw, BeginSuspend
<1>3. CASE SuspendDraw
  BY <1>3 DEF SuspendDraw, BeginSuspend
<1>4. CASE ResumeDraw
  BY <1>4 DEF ResumeDraw, Resume
<1>5. ASSUME UNCHANGED <<suspend_count, suspend_received>>, pc = "new" <=> pc' = "new"
      PROVE  CountOK'
  BY <1>5
<1>6. ASSUME TriggerRedraw \/ WaitUntilSuspendedDraw \/ ClientWakesDraw
             \/ BeginStopDraw \/ JoinDraw \/ Drawer \/ Spurious \/ UNCHANGED vars
      PROVE  UNCHANGED <<suspend_count, suspend_received>> /\ (pc = "new" <=> pc' = "new")
  <2>1. CASE TriggerRedraw \/ WaitUntilSuspendedDraw \/ ClientWakesDraw
             \/ BeginStopDraw \/ JoinDraw
    BY <2>1 DEF TriggerRedraw, WaitUntilSuspendedDraw, WaitUntilSuspended,
                ClientWakesDraw, ClientWakes, BeginStopDraw, BeginStop, JoinDraw, Join
  <2>2. CASE Drawer
    BY <2>2 DEF Drawer, LockDraw, RedrawWakes, LoopReturns, SleepAt, Check, CommandWakes
  <2>3. CASE Spurious \/ UNCHANGED vars
    BY <2>3 DEF Spurious, ThreadSpurious, ClientSpurious, vars
  <2> QED
    BY <1>6, <2>1, <2>2, <2>3
<1> QED
  BY <1>1, <1>2, <1>3, <1>4, <1>5, <1>6 DEF Next, Client

LEMMA StepIInv == IInv /\ [Next]_vars => IInv'
  BY StepFlags, StepCount DEF IInv

LEMMA AlwaysIInv == Spec => []IInv
  BY InitIInv, StepIInv, PTL DEF Spec

(* The counter is a natural number and the thread stays on the positions   *)
(* of Run().                                                               *)
THEOREM TypeCorrect == Spec => []TypeOK
<1>1. IInv => TypeOK
  BY DEF IInv, FlagsOK, CountOK, TypeOK
<1> QED
  BY <1>1, AlwaysIInv, PTL

(* Nested suspensions are counted: no picture is painted before the        *)
(* outermost Resume().                                                     *)
THEOREM SuspendExcludesDrawing == Spec => []NoDrawWhileHeld
<1>1. IInv => NoDrawWhileHeld
  BY DEF IInv, Handshake, CountOK, CountMatchesFlag, NoDrawWhileHeld
<1> QED
  BY <1>1, AlwaysIInv, PTL

(* Only LoopReturns leads into a picture, and "return" is not reached with *)
(* a request to pause, which the counter stands for.                       *)
LEMMA StepBegins ==
  ASSUME IInv, [Next]_vars, pc # "draw", pc' = "draw"
  PROVE  suspend_count = 0
<1>1. LoopReturns
  <2>1. ~(Client \/ Spurious \/ UNCHANGED vars)
    <3>1. CASE Client
      BY <3>1 DEF Client, StartDraw, Start, TriggerRedraw, BeginSuspendDraw, SuspendDraw,
                  BeginSuspend, WaitUntilSuspendedDraw, WaitUntilSuspended,
                  ClientWakesDraw, ClientWakes, ResumeDraw, Resume,
                  BeginStopDraw, BeginStop, JoinDraw, Join
    <3>2. CASE Spurious \/ UNCHANGED vars
      BY <3>2 DEF Spurious, ThreadSpurious, ClientSpurious, vars
    <3> QED
      BY <3>1, <3>2
  <2>2. ASSUME LockDraw \/ RedrawWakes \/ Check \/ CommandWakes PROVE FALSE
    BY <2>2 DEF LockDraw, RedrawWakes, Check, CommandWakes, SleepAt
  <2> QED
    BY <2>1, <2>2 DEF Next, Drawer
<1>2. pc = "return" /\ ~stop_received
  BY <1>1 DEF LoopReturns
<1>3. ~suspend_received
  BY <1>2 DEF IInv, Handshake, AskedToPause
<1>4. suspend_count \in Nat /\ (suspend_received <=> suspend_count > 0)
  BY <1>2 DEF IInv, CountOK, CountMatchesFlag
<1> QED
  BY <1>3, <1>4

(* Whatever the nesting, and whether or not anybody waits for the thread,  *)
(* it begins no picture while a suspension is open.                        *)
THEOREM SuspendedBeginsNothing == Spec => NoDrawBegins
<1>1. IInv /\ [Next]_vars => [pc # "draw" /\ pc' = "draw" => suspend_count = 0]_vars
  BY StepBegins
<1> QED
  BY <1>1, AlwaysIInv, PTL DEF Spec, NoDrawBegins

(* The counter outside the mutex and the flag inside it agree. *)
THEOREM CounterAgrees == Spec => []CountMatchesFlag
  BY AlwaysIInv, PTL DEF IInv, CountOK

(* No redraw, suspension or stop is slept through. *)
THEOREM WakeupsArrive == Spec => []NoLostWakeup
  BY AlwaysIInv, PTL DEF IInv

-----------------------------------------------------------------------------
(* What the rest of the program sees of the draw thread is a step of       *)
(* SuspendableWork, or nothing.  A nested BeginSuspend() or Resume() leaves *)
(* the request as it is: only the outermost ones ask and release.          *)

LEMMA InitPromise == Init => Promise!Init
  BY DEF Init, BaseInit, Promise!Init, Promise!InitialRequest

LEMMA StepPromise == IInv /\ [Next]_vars => [Promise!Next]_(Promise!vars)
<1> SUFFICES ASSUME IInv, [Next]_vars
             PROVE  Promise!Next \/ UNCHANGED Promise!vars
  OBVIOUS
<1> USE DEF IInv, FlagsOK, BaseTypeOK, Handshake, AskedToPause, Promise!vars
<1>1. CASE Client
  <2>1. ASSUME NEW s \in BOOLEAN, StartDraw(s) PROVE Promise!Ask \/ Promise!Release
    <3>1. CASE s
      BY <2>1, <3>1 DEF StartDraw, Start, Promise!Ask
    <3>2. CASE ~s
      BY <2>1, <3>2 DEF StartDraw, Start, Promise!Release
    <3> QED
      BY <3>1, <3>2
  <2>2. ASSUME TriggerRedraw PROVE Promise!Request
    BY <2>2 DEF TriggerRedraw, NotifyThread, Promise!Request
  <2>3. ASSUME BeginSuspendDraw PROVE Promise!Ask \/ UNCHANGED Promise!vars
    BY <2>3 DEF BeginSuspendDraw, BeginSuspend, Promise!Ask
  <2>4. ASSUME SuspendDraw PROVE Promise!Ask
    BY <2>4 DEF SuspendDraw, BeginSuspend, Promise!Ask
  <2>5. ASSUME WaitUntilSuspendedDraw \/ ClientWakesDraw
        PROVE  Promise!Grant \/ UNCHANGED Promise!vars
    BY <2>5 DEF WaitUntilSuspendedDraw, WaitUntilSuspended, ClientWakesDraw, ClientWakes,
                TestSuspended, Promise!Grant
  <2>6. ASSUME ResumeDraw PROVE Promise!Release \/ UNCHANGED Promise!vars
    BY <2>6 DEF ResumeDraw, Resume, Promise!Release
  <2>7. ASSUME BeginStopDraw PROVE Promise!End
    BY <2>7 DEF BeginStopDraw, BeginStop, Promise!End
  <2>8. ASSUME JoinDraw PROVE UNCHANGED Promise!vars
    BY <2>8 DEF JoinDraw, Join
  <2> QED
    BY <1>1, <2>1, <2>2, <2>3, <2>4, <2>5, <2>6, <2>7, <2>8 DEF Client, Promise!Next
<1>2. CASE Drawer
  <2>1. ASSUME LockDraw PROVE Promise!Finish \/ UNCHANGED Promise!vars
    BY <2>1 DEF LockDraw, Promise!Finish
  <2>2. ASSUME LoopReturns PROVE Promise!Begin \/ Promise!Exit \/ UNCHANGED Promise!vars
    BY <2>2 DEF LoopReturns, SleepAt, Promise!Begin, Promise!Exit
  <2>3. ASSUME RedrawWakes PROVE UNCHANGED Promise!vars
    BY <2>3 DEF RedrawWakes
  <2>4. ASSUME (Check \/ CommandWakes) /\ UNCHANGED <<pending, suspend_count>>
        PROVE  UNCHANGED Promise!vars
    BY <2>4 DEF Check, CommandWakes, SleepAt, NotifyClient
  <2> QED
    BY <1>2, <2>1, <2>2, <2>3, <2>4 DEF Drawer, Promise!Next
<1>3. ASSUME Spurious PROVE UNCHANGED Promise!vars
  BY <1>3 DEF Spurious, ThreadSpurious, ClientSpurious
<1>4. ASSUME UNCHANGED vars PROVE UNCHANGED Promise!vars
  BY <1>4 DEF vars
<1> QED
  BY <1>1, <1>2, <1>3, <1>4 DEF Next, Promise!Next

(* The draw thread keeps the safety part of its promise: no picture that   *)
(* was not asked for, none that begins after a request to pause or stop,   *)
(* and a pause granted only between two pictures, although suspensions     *)
(* nest.                                                                   *)
THEOREM KeepsPromise == Spec => Promise!SafeSpec
  BY InitPromise, StepPromise, AlwaysIInv, PTL DEF Spec, Promise!SafeSpec

=============================================================================
