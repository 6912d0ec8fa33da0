------------------------- MODULE SuspensibleThread -------------------------
(***************************************************************************)
(* The suspend/stop handshake of src/src/thread/SuspensibleThread.cpp,     *)
(* shared by WorkerThread.tla and DrawThread.tla the way the C++ base      *)
(* class is shared by the two thread classes.                              *)
(*                                                                         *)
(* One thread and one client (the UI thread: every Start, Suspend, Resume, *)
(* BeginStop and Join in the program is called from there) share a mutex   *)
(* and two condition variables, command_trigger and client_trigger.  Every *)
(* critical section of the client is one action.  The thread holds the     *)
(* mutex over several actions; where it does is a function of pc, so the   *)
(* mutex needs no variable of its own: see Locked.                         *)
(***************************************************************************)
EXTENDS Naturals

VARIABLES
  stop_received,     \* the client asked the thread to end
  suspend_received,  \* the client asked the thread to pause
  suspended,         \* the thread says that it is paused
  pc,                \* where the thread is
  site,              \* the call site a check or a timed wait returns to
  notified,          \* the condition variable the thread sleeps on was signalled
  client             \* where the client is

base == <<stop_received, suspend_received, suspended, pc, site, notified, client>>

(***************************************************************************)
(* Thread positions.  "new": Start() not called; "start": created, mutex   *)
(* not taken; "command_wait" and "timed_wait": sleeping on command_trigger;*)
(* "check", "timed": about to enter _CheckStoppedOrSuspended() or          *)
(* _WaitForStopped(); "return": about to leave either; "done": Run() has   *)
(* returned.  Subclasses add their own.                                    *)
(***************************************************************************)
CommandWaits == {"command_wait", "timed_wait"}
BasePlaces == CommandWaits \cup {"new", "start", "check", "timed", "return", "done"}
BaseUnlocked == CommandWaits \cup {"new", "start", "done"}

(***************************************************************************)
(* Client positions.  "free": not inside a call; "entering": between the   *)
(* two critical sections of SuspensibleThread::Suspend(); "waiting":       *)
(* asleep on client_trigger; "woken": signalled, not yet back in the       *)
(* mutex; "held": a Suspend() has returned and Resume() was not called     *)
(* since; "stopping": BeginStop() was called; "joined": Join() returned.   *)
(***************************************************************************)
ClientPlaces == {"free", "entering", "waiting", "woken", "held", "stopping", "joined"}
AtRest == {"free", "held"}

BaseTypeOK(places, sites) ==
  /\ stop_received \in BOOLEAN
  /\ suspend_received \in BOOLEAN
  /\ suspended \in BOOLEAN
  /\ pc \in places
  /\ site \in sites
  /\ notified \in BOOLEAN
  /\ client \in ClientPlaces

(* The members are only given a value by Start(): before it they hold what *)
(* the constructor leaves, which nobody reads.                             *)
BaseInit(callsite) ==
  /\ stop_received = FALSE
  /\ suspend_received = FALSE
  /\ suspended = FALSE
  /\ pc = "new"
  /\ site = callsite
  /\ notified = FALSE
  /\ client = "free"

-----------------------------------------------------------------------------
(* Condition variables.  notify_one() wakes the only possible sleeper, if  *)
(* it is asleep; the signal is not remembered otherwise.                   *)
NotifyThread(waits) == notified' = (notified \/ pc \in waits)

NotifyClient == client' = IF client = "waiting" THEN "woken" ELSE client

SleepAt(place) == pc' = place /\ notified' = FALSE

AskedToPause == ~stop_received /\ suspend_received

-----------------------------------------------------------------------------
(* The client's side.  waits is the set of positions at which the thread   *)
(* hears the notify_one() calls of the operation.                          *)

Start(_suspended) ==
  /\ client \in AtRest
  /\ pc = "new"
  /\ stop_received' = FALSE
  /\ suspend_received' = _suspended
  /\ suspended' = FALSE
  /\ pc' = "start"
  /\ UNCHANGED <<site, notified, client>>

(* BeginSuspend() leaves the client where it was; Suspend() goes on to wait *)
(* in a second critical section, from "entering".                          *)
BeginSuspend(waits, place) ==
  /\ client \in AtRest
  /\ pc # "new"
  /\ suspend_received' = TRUE
  /\ NotifyThread(waits)
  /\ client' = place
  /\ UNCHANGED <<stop_received, suspended, pc, site>>

(* The loop of _WaitUntilSuspended(): the predicate is read under the      *)
(* mutex, by a client that just took it or was just woken.                 *)
TestSuspended == client' = IF suspended THEN "held" ELSE "waiting"

(* WaitUntilSuspended() asserts suspend_received: the client that called   *)
(* BeginSuspend() waits for the answer.                                    *)
WaitUntilSuspended ==
  /\ client \in {"free", "entering"}
  /\ pc # "new"
  /\ suspend_received
  /\ TestSuspended
  /\ UNCHANGED <<stop_received, suspend_received, suspended, pc, site, notified>>

ClientWakes ==
  /\ client = "woken"
  /\ TestSuspended
  /\ UNCHANGED <<stop_received, suspend_received, suspended, pc, site, notified>>

(* A condition variable may wake its sleeper unasked. *)
ClientSpurious ==
  /\ client = "waiting"
  /\ client' = "woken"
  /\ UNCHANGED <<stop_received, suspend_received, suspended, pc, site, notified>>

Resume(waits) ==
  /\ client \in AtRest
  /\ pc # "new"
  /\ suspend_received' = FALSE
  /\ NotifyThread(waits)
  /\ client' = "free"
  /\ UNCHANGED <<stop_received, suspended, pc, site>>

BeginStop(waits) ==
  /\ client \in AtRest
  /\ pc # "new"
  /\ stop_received' = TRUE
  /\ NotifyThread(waits)
  /\ client' = "stopping"
  /\ UNCHANGED <<suspend_received, suspended, pc, site>>

Join ==
  /\ client = "stopping"
  /\ pc = "done"
  /\ client' = "joined"
  /\ UNCHANGED <<stop_received, suspend_received, suspended, pc, site, notified>>

-----------------------------------------------------------------------------
(* The thread's side: _CheckStoppedOrSuspended() and _WaitForStopped(),    *)
(* entered at "check" and "timed" with the mutex held.  At "return" the    *)
(* result is stop_received, the mutex still held.                          *)

(* Seeded fault: the client is not told. *)
Check_Silent ==
  /\ pc = "check"
  /\ IF AskedToPause
       THEN suspended' = TRUE /\ SleepAt("command_wait")
       ELSE pc' = "return" /\ UNCHANGED <<suspended, notified>>
  /\ UNCHANGED <<stop_received, suspend_received, site, client>>

Check ==
  /\ pc = "check"
  /\ IF AskedToPause
       THEN suspended' = TRUE /\ NotifyClient /\ SleepAt("command_wait")
       ELSE pc' = "return" /\ UNCHANGED <<suspended, client, notified>>
  /\ UNCHANGED <<stop_received, suspend_received, site>>

(* Seeded fault: the wait is not repeated when the condition variable      *)
(* wakes early.                                                            *)
CommandWakes_Once ==
  /\ pc = "command_wait"
  /\ notified
  /\ notified' = FALSE
  /\ pc' = "return" /\ suspended' = FALSE
  /\ UNCHANGED <<stop_received, suspend_received, site, client>>

CommandWakes ==
  /\ pc = "command_wait"
  /\ notified
  /\ notified' = FALSE
  /\ IF AskedToPause
       THEN UNCHANGED <<pc, suspended>>
       ELSE pc' = "return" /\ suspended' = FALSE
  /\ UNCHANGED <<stop_received, suspend_received, site, client>>

TimedWait ==
  /\ pc = "timed"
  /\ IF stop_received
       THEN pc' = "return" /\ UNCHANGED <<suspended, notified>>
       ELSE suspended' = TRUE /\ SleepAt("timed_wait")
  /\ UNCHANGED <<stop_received, suspend_received, site, client>>

(* Seeded fault: a client that waits already is not told. *)
TimedWakes_Silent ==
  /\ pc = "timed_wait"
  /\ notified' = FALSE
  /\ IF AskedToPause
       THEN pc' = "command_wait" /\ UNCHANGED suspended
       ELSE pc' = "return" /\ suspended' = FALSE
  /\ UNCHANGED <<stop_received, suspend_received, site, client>>

(* wait_for() returns on a signal or when the time is over, and the code   *)
(* does not tell the two apart.                                            *)
TimedWakes ==
  /\ pc = "timed_wait"
  /\ notified' = FALSE
  /\ IF AskedToPause
       THEN pc' = "command_wait" /\ NotifyClient /\ UNCHANGED suspended
       ELSE pc' = "return" /\ suspended' = FALSE /\ UNCHANGED client
  /\ UNCHANGED <<stop_received, suspend_received, site>>

ThreadSpurious(waits) ==
  /\ pc \in waits
  /\ ~notified
  /\ notified' = TRUE
  /\ UNCHANGED <<stop_received, suspend_received, suspended, pc, site, client>>

=============================================================================
