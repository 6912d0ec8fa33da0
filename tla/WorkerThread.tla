---------------------------- MODULE WorkerThread ----------------------------
(***************************************************************************)
(* src/src/thread/WorkerThread.{hpp,cpp}: the thread that MergeThread and  *)
(* CalculationThread derive from.  Any thread may Trigger() it; it calls   *)
(* Tick() at a limited rate, with the mutex released, and the UI thread    *)
(* suspends it around every change to the data that Tick() reads           *)
(* unprotected.                                                            *)
(***************************************************************************)
EXTENDS SuspensibleThread

CONSTANTS
  DelayChoices, \* the values delay.count() > 0 may have, see Gate
  IdleChoices   \* the values idle.count() > 0 can take after a Tick()

ASSUME WorkerAssumption ==
  /\ DelayChoices \subseteq BOOLEAN /\ DelayChoices # {}
  /\ IdleChoices \subseteq BOOLEAN /\ IdleChoices # {}

VARIABLE trigger_flag

vars == <<base, trigger_flag>>

Places == BasePlaces \cup {"top", "gate", "trigger_wait", "tick"}
Sites == {"top", "gate", "idle"}
Unlocked == BaseUnlocked \cup {"trigger_wait", "tick"}

Locked == pc \notin Unlocked

(* Seeded fault: the base class methods are not overridden. *)
AllWaits_Base == CommandWaits

(* WorkerThread's own BeginSuspend() and BeginStop() signal trigger_cond   *)
(* as well; Resume() is inherited and does not.                            *)
AllWaits == CommandWaits \cup {"trigger_wait"}

TypeOK == BaseTypeOK(Places, Sites) /\ trigger_flag \in BOOLEAN

Init == BaseInit("top") /\ trigger_flag = FALSE

-----------------------------------------------------------------------------
(* Calls from other threads. *)

Trigger ==
  /\ ~Locked
  /\ client # "joined"
  /\ trigger_flag' = TRUE
  /\ IF trigger_flag THEN UNCHANGED notified ELSE NotifyThread({"trigger_wait"})
  /\ UNCHANGED <<stop_received, suspend_received, suspended, pc, site, client>>

StartWorker(_suspended) == Start(_suspended) /\ UNCHANGED trigger_flag

BeginSuspendWorker == ~Locked /\ BeginSuspend(AllWaits, client) /\ UNCHANGED trigger_flag

(* Suspend() is one critical section up to its first sleep.  The predicate *)
(* is already true when the thread is in a timed wait, and the call then   *)
(* returns at once.                                                        *)
SuspendWorker ==
  /\ ~Locked
  /\ client \in AtRest
  /\ pc # "new"
  /\ suspend_received' = TRUE
  /\ NotifyThread(AllWaits)
  /\ TestSuspended
  /\ UNCHANGED <<stop_received, suspended, pc, site, trigger_flag>>

WaitUntilSuspendedWorker ==
  ~Locked /\ WaitUntilSuspended /\ UNCHANGED trigger_flag

ClientWakesWorker == ~Locked /\ ClientWakes /\ UNCHANGED trigger_flag

ResumeWorker == ~Locked /\ Resume(CommandWaits) /\ UNCHANGED trigger_flag

BeginStopWorker == ~Locked /\ BeginStop(AllWaits) /\ UNCHANGED trigger_flag

JoinWorker == Join /\ UNCHANGED trigger_flag

Client ==
  \/ \E s \in BOOLEAN : StartWorker(s)
  \/ BeginSuspendWorker
  \/ SuspendWorker
  \/ WaitUntilSuspendedWorker
  \/ ClientWakesWorker
  \/ ResumeWorker
  \/ BeginStopWorker
  \/ JoinWorker

-----------------------------------------------------------------------------
(* Run(). *)

Lock ==
  /\ pc = "start"
  /\ pc' = "top"
  /\ UNCHANGED <<stop_received, suspend_received, suspended, site, notified, client, trigger_flag>>

Top ==
  /\ pc = "top"
  /\ IF trigger_flag
       THEN pc' = "gate" /\ UNCHANGED site
       ELSE pc' = "check" /\ site' = "top"
  /\ UNCHANGED <<stop_received, suspend_received, suspended, notified, client, trigger_flag>>

(* The flag is tested again after the check, which may have released the   *)
(* mutex.                                                                  *)
TopReturns ==
  /\ pc = "return" /\ site = "top"
  /\ IF stop_received
       THEN pc' = "done" /\ UNCHANGED notified
       ELSE IF trigger_flag
              THEN pc' = "gate" /\ UNCHANGED notified
              ELSE SleepAt("trigger_wait")
  /\ UNCHANGED <<stop_received, suspend_received, suspended, site, client, trigger_flag>>

TriggerWakes ==
  /\ pc = "trigger_wait"
  /\ notified
  /\ pc' = "gate"
  /\ notified' = FALSE
  /\ UNCHANGED <<stop_received, suspend_received, suspended, site, client, trigger_flag>>

(* delay is a constant of each thread.  A choice that is made anew every   *)
(* time has the behaviours of a thread with a delay, of one without, and   *)
(* more.                                                                   *)
Gate ==
  /\ pc = "gate"
  /\ \E delay \in DelayChoices : pc' = IF delay THEN "timed" ELSE "check"
  /\ site' = "gate"
  /\ UNCHANGED <<stop_received, suspend_received, suspended, notified, client, trigger_flag>>

(* Seeded fault: the result of the wait is ignored. *)
GateReturns_NoStop ==
  /\ pc = "return" /\ site = "gate"
  /\ pc' = IF trigger_flag THEN "tick" ELSE "top"
  /\ trigger_flag' = FALSE
  /\ UNCHANGED <<stop_received, suspend_received, suspended, site, notified, client>>

(* Only here is the flag consumed, in the critical section that leads to   *)
(* Tick().                                                                 *)
GateReturns ==
  /\ pc = "return" /\ site = "gate"
  /\ pc' = IF stop_received THEN "done" ELSE IF trigger_flag THEN "tick" ELSE "top"
  /\ trigger_flag' = (stop_received /\ trigger_flag)
  /\ UNCHANGED <<stop_received, suspend_received, suspended, site, notified, client>>

TickReturns ==
  /\ pc = "tick"
  /\ \E idle \in IdleChoices :
       IF idle THEN pc' = "timed" /\ site' = "idle" ELSE pc' = "top" /\ UNCHANGED site
  /\ UNCHANGED <<stop_received, suspend_received, suspended, notified, client, trigger_flag>>

IdleReturns ==
  /\ pc = "return" /\ site = "idle"
  /\ pc' = IF stop_received THEN "done" ELSE "top"
  /\ UNCHANGED <<stop_received, suspend_received, suspended, site, notified, client, trigger_flag>>

Worker ==
  \/ Lock \/ Top \/ TopReturns \/ TriggerWakes \/ Gate \/ GateReturns
  \/ TickReturns \/ IdleReturns
  \/ (Check \/ CommandWakes \/ TimedWait \/ TimedWakes) /\ UNCHANGED trigger_flag

Spurious == (ThreadSpurious(AllWaits) \/ ClientSpurious) /\ UNCHANGED trigger_flag

Next == Client \/ Trigger \/ Worker \/ Spurious

(* The operating system runs a thread that can run, Tick() returns, a      *)
(* timed wait ends, and a woken client gets the mutex, which the worker    *)
(* releases whenever it sleeps or works.  Startup() does start the thread, *)
(* and Shutdown() joins it.  Nothing makes anyone trigger, suspend, resume *)
(* or stop it.                                                             *)
Fairness ==
  /\ WF_vars(\E s \in BOOLEAN : StartWorker(s))
  /\ WF_vars(Worker)
  /\ WF_vars(ClientWakesWorker)
  /\ WF_vars(JoinWorker)

Spec == Init /\ [][Next]_vars
FairSpec == Spec /\ Fairness

-----------------------------------------------------------------------------
(* What a user of the class may rely on, as a specification of its own. *)
Promise == INSTANCE SuspendableWork WITH
  wanted <- trigger_flag,
  working <- pc = "tick",
  asked <- suspend_received,
  held <- client = "held",
  ending <- stop_received,
  ended <- pc = "done"

ImplementsPromise == Promise!Spec

-----------------------------------------------------------------------------
(* Between the return of Suspend() and the call of Resume(), Tick() is not *)
(* running: what SuspendAllThreads() promises to code that changes shared  *)
(* data.  The thread may be in any of its waits when Suspend() is called,  *)
(* and Suspend() does not wait at all if it is in a timed one.             *)
NoTickWhileHeld == client = "held" => pc # "tick"

(* No lost wakeup: a thread that sleeps without a signal on its way has    *)
(* nothing to do, and a client that sleeps has a request the thread has    *)
(* not yet answered, or only with a timed wait that will end.              *)
NoLostWakeup ==
  /\ pc = "trigger_wait" /\ ~notified =>
       ~trigger_flag /\ ~stop_received /\ ~suspend_received
  /\ pc = "command_wait" /\ ~notified => AskedToPause
  /\ client = "waiting" =>
       AskedToPause /\ (suspended => pc = "timed_wait")

(* What the code asserts: _CheckStoppedOrSuspended() and _WaitForStopped() *)
(* are entered with suspended clear, _WaitUntilSuspended() keeps its        *)
(* request while it waits.                                                 *)
AssertionsHold ==
  /\ pc \in {"check", "timed"} => ~suspended
  /\ client \in {"waiting", "woken"} => suspend_received

(* Suspend() returns: the UI thread is never stuck in it. *)
SuspendReturns == client \in {"waiting", "woken"} ~> client = "held"

=============================================================================
