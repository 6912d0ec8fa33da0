------------------------- MODULE WorkerThreadProofs -------------------------
(***************************************************************************)
(* Theorems about WorkerThread.tla for every delay and idle time.          *)
(*                                                                         *)
(* NoTickWhileHeld is not inductive: nothing in it says why a thread that  *)
(* is not in Tick() now will not enter it.  Handshake adds the reason: the *)
(* thread announces itself as suspended exactly while it sleeps on         *)
(* command_trigger, a client that was let through keeps its request up,    *)
(* and no sleep of the thread ends in "return" with the request up.        *)
(***************************************************************************)
EXTENDS WorkerThread, TLAPS

Handshake ==
  /\ suspended <=> (pc \in CommandWaits)
  /\ stop_received <=> (client \in {"stopping", "joined"})
  /\ pc = "new" => client = "free"
  /\ client = "held" => suspend_received /\ pc \in CommandWaits
  /\ client \in {"waiting", "woken"} => suspend_received
  /\ client # "entering"
  /\ pc = "return" => ~AskedToPause

IInv == TypeOK /\ Handshake /\ NoLostWakeup

USE DEF base, CommandWaits, BasePlaces, BaseUnlocked, ClientPlaces, AtRest,
        Places, Sites, Unlocked, Locked, AllWaits

LEMMA InitIInv == Init => IInv
  BY DEF Init, BaseInit, IInv, TypeOK, BaseTypeOK, Handshake, NoLostWakeup,
         AskedToPause

LEMMA StepIInv == IInv /\ [Next]_vars => IInv'
<1> SUFFICES ASSUME IInv, [Next]_vars
             PROVE  IInv'
  OBVIOUS
<1> USE DEF IInv, TypeOK, BaseTypeOK, Handshake, NoLostWakeup, AskedToPause
<1>1. CASE Client
  <2>1. ASSUME NEW s \in BOOLEAN, StartWorker(s) PROVE IInv'
    BY <2>1 DEF StartWorker, Start
  <2>2. CASE BeginSuspendWorker
    BY <2>2 DEF BeginSuspendWorker, BeginSuspend, NotifyThread
  <2>3. CASE SuspendWorker
    BY <2>3 DEF SuspendWorker, NotifyThread, TestSuspended
  <2>4. CASE WaitUntilSuspendedWorker
    BY <2>4 DEF WaitUntilSuspendedWorker, WaitUntilSuspended, TestSuspended
  <2>5. CASE ClientWakesWorker
    BY <2>5 DEF ClientWakesWorker, ClientWakes, TestSuspended
  <2>6. CASE ResumeWorker
    BY <2>6 DEF ResumeWorker, Resume, NotifyThread
  <2>7. CASE BeginStopWorker
    BY <2>7 DEF BeginStopWorker, BeginStop, NotifyThread
  <2>8. CASE JoinWorker
    BY <2>8 DEF JoinWorker, Join
  <2> QED
    BY <1>1, <2>1, <2>2, <2>3, <2>4, <2>5, <2>6, <2>7, <2>8 DEF Client
<1>2. CASE Trigger
  BY <1>2 DEF Trigger, NotifyThread
<1>3. CASE Worker
  <2>1. CASE Lock
    BY <2>1 DEF Lock
  <2>2. CASE Top
    BY <2>2 DEF Top
  <2>3. CASE TopReturns
    BY <2>3 DEF TopReturns, SleepAt
  <2>4. CASE TriggerWakes
    BY <2>4 DEF TriggerWakes
  <2>5. CASE Gate
    BY <2>5 DEF Gate
  <2>6. CASE GateReturns
    BY <2>6 DEF GateReturns
  <2>7. CASE TickReturns
    BY <2>7 DEF TickReturns
  <2>8. CASE IdleReturns
    BY <2>8 DEF IdleReturns
  <2>9. CASE Check /\ UNCHANGED trigger_flag
    BY <2>9 DEF Check, SleepAt, NotifyClient
  <2>10. CASE CommandWakes /\ UNCHANGED trigger_flag
    BY <2>10 DEF CommandWakes
  <2>11. CASE TimedWait /\ UNCHANGED trigger_flag
    BY <2>11 DEF TimedWait, SleepAt
  <2>12. CASE TimedWakes /\ UNCHANGED trigger_flag
    BY <2>12 DEF TimedWakes, NotifyClient
  <2> QED
    BY <1>3, <2>1, <2>2, <2>3, <2>4, <2>5, <2>6, <2>7, <2>8, <2>9, <2>10,
       <2>11, <2>12 DEF Worker
<1>4. CASE Spurious
  <2>1. CASE ThreadSpurious(AllWaits) /\ UNCHANGED trigger_flag
    BY <2>1 DEF ThreadSpurious
  <2>2. CASE ClientSpurious /\ UNCHANGED trigger_flag
    BY <2>2 DEF ClientSpurious
  <2> QED
    BY <1>4, <2>1, <2>2 DEF Spurious
<1>5. CASE UNCHANGED vars
  BY <1>5 DEF vars
<1> QED
  BY <1>1, <1>2, <1>3, <1>4, <1>5 DEF Next

LEMMA AlwaysIInv == Spec => []IInv
  BY InitIInv, StepIInv, PTL DEF Spec

(* The flags keep their types and the thread stays on the positions of     *)
(* Run(), for every delay and idle time.                                   *)
THEOREM TypeCorrect == Spec => []TypeOK
  BY AlwaysIInv, PTL DEF IInv

(* The caller of Suspend() has the data to itself until it calls Resume(). *)
THEOREM SuspendExcludesTick == Spec => []NoTickWhileHeld
<1>1. IInv => NoTickWhileHeld
  BY DEF IInv, Handshake, NoTickWhileHeld
<1> QED
  BY <1>1, AlwaysIInv, PTL

(* No Trigger(), BeginSuspend(), Resume() or BeginStop() is slept through. *)
THEOREM WakeupsArrive == Spec => []NoLostWakeup
  BY AlwaysIInv, PTL DEF IInv

(* The assert()s of SuspensibleThread.cpp about its flags never fail. *)
THEOREM AssertionsNeverFail == Spec => []AssertionsHold
<1>1. IInv => AssertionsHold
  BY DEF IInv, Handshake, AssertionsHold
<1> QED
  BY <1>1, AlwaysIInv, PTL

-----------------------------------------------------------------------------
(* Every step of the thread and of its client is a step of SuspendableWork *)
(* or changes nothing there.                                               *)

LEMMA InitPromise == Init => Promise!Init
  BY DEF Init, BaseInit, Promise!Init, Promise!InitialRequest

LEMMA StepPromise == IInv /\ [Next]_vars => [Promise!Next]_(Promise!vars)
<1> SUFFICES ASSUME IInv, [Next]_vars
             PROVE  Promise!Next \/ UNCHANGED Promise!vars
  OBVIOUS
<1> USE DEF IInv, TypeOK, BaseTypeOK, Handshake, AskedToPause, Promise!vars
<1>1. CASE Client
  <2>1. ASSUME NEW s \in BOOLEAN, StartWorker(s) PROVE Promise!Next \/ UNCHANGED Promise!vars
    <3>1. CASE s
      <4>1. Promise!Ask
        BY <2>1, <3>1 DEF StartWorker, Start, Promise!Ask
      <4> QED
        BY <4>1 DEF Promise!Next
    <3>2. CASE ~s
      <4>1. Promise!Release
        BY <2>1, <3>2 DEF StartWorker, Start, Promise!Release
      <4> QED
        BY <4>1 DEF Promise!Next
    <3> QED
      BY <3>1, <3>2
  <2>2. ASSUME BeginSuspendWorker PROVE Promise!Ask
    BY <2>2 DEF BeginSuspendWorker, BeginSuspend, NotifyThread, Promise!Ask
  <2>3. ASSUME SuspendWorker PROVE Promise!Ask
    BY <2>3 DEF SuspendWorker, NotifyThread, TestSuspended, Promise!Ask
  <2>4. ASSUME WaitUntilSuspendedWorker PROVE Promise!Grant \/ UNCHANGED Promise!vars
    BY <2>4 DEF WaitUntilSuspendedWorker, WaitUntilSuspended, TestSuspended, Promise!Grant
  <2>5. ASSUME ClientWakesWorker PROVE Promise!Grant \/ UNCHANGED Promise!vars
    BY <2>5 DEF ClientWakesWorker, ClientWakes, TestSuspended, Promise!Grant
  <2>6. ASSUME ResumeWorker PROVE Promise!Release
    BY <2>6 DEF ResumeWorker, Resume, NotifyThread, Promise!Release
  <2>7. ASSUME BeginStopWorker PROVE Promise!End
    BY <2>7 DEF BeginStopWorker, BeginStop, NotifyThread, Promise!End
  <2>8. ASSUME JoinWorker PROVE UNCHANGED Promise!vars
    BY <2>8 DEF JoinWorker, Join
  <2> QED
    BY <1>1, <2>1, <2>2, <2>3, <2>4, <2>5, <2>6, <2>7, <2>8 DEF Client, Promise!Next
<1>2. ASSUME Trigger PROVE Promise!Request
  BY <1>2 DEF Trigger, NotifyThread, Promise!Request
<1>3. CASE Worker
  <2>1. ASSUME TopReturns PROVE Promise!Exit \/ UNCHANGED Promise!vars
    BY <2>1 DEF TopReturns, SleepAt, Promise!Exit
  <2>2. ASSUME GateReturns PROVE Promise!Begin \/ Promise!Exit \/ UNCHANGED Promise!vars
    BY <2>2 DEF GateReturns, Promise!Begin, Promise!Exit
  <2>3. ASSUME TickReturns PROVE Promise!Finish
    BY <2>3 DEF TickReturns, Promise!Finish
  <2>4. ASSUME IdleReturns PROVE Promise!Exit \/ UNCHANGED Promise!vars
    BY <2>4 DEF IdleReturns, Promise!Exit
  <2>5. ASSUME Lock \/ Top \/ TriggerWakes \/ Gate PROVE UNCHANGED Promise!vars
    BY <2>5 DEF Lock, Top, TriggerWakes, Gate
  <2>6. ASSUME (Check \/ CommandWakes \/ TimedWait \/ TimedWakes) /\ UNCHANGED trigger_flag
        PROVE  UNCHANGED Promise!vars
    BY <2>6 DEF Check, CommandWakes, TimedWait, TimedWakes, SleepAt, NotifyClient
  <2> QED
    BY <1>3, <2>1, <2>2, <2>3, <2>4, <2>5, <2>6 DEF Worker, Promise!Next
<1>4. ASSUME Spurious PROVE UNCHANGED Promise!vars
  BY <1>4 DEF Spurious, ThreadSpurious, ClientSpurious
<1>5. ASSUME UNCHANGED vars PROVE UNCHANGED Promise!vars
  BY <1>5 DEF vars
<1> QED
  BY <1>1, <1>2, <1>3, <1>4, <1>5 DEF Next, Promise!Next

(* The worker thread keeps the safety part of its promise: no Tick() that  *)
(* was not triggered, none that starts after a request to pause or stop,   *)
(* and a pause granted only between two Tick()s.                           *)
THEOREM KeepsPromise == Spec => Promise!SafeSpec
  BY InitPromise, StepPromise, AlwaysIInv, PTL DEF Spec, Promise!SafeSpec

=============================================================================
