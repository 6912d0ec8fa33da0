--------------------------- MODULE StandbyThread ---------------------------
(***************************************************************************)
(* src/src/thread/StandbyThread.cpp: a thread that is started by its first *)
(* job, sleeps between jobs and ends when it is stopped.  TerrainThread    *)
(* and SkySightDecode extend this module the way the classes do, and add   *)
(* what Tick() does.                                                       *)
(*                                                                         *)
(* Trigger(), WaitDone() and Stop() are only called by the main thread.    *)
(* The mutex is released while the thread sleeps and in the positions of a *)
(* Tick() that unlock it; an action does all that happens under one hold.  *)
(***************************************************************************)
EXTENDS Naturals

VARIABLES
  alive,      \* the members of StandbyThread; work is its "pending"
  work,
  busy,
  stop,
  th,         \* where the thread is
  signalled   \* the condition variable was signalled since the thread slept

standby == <<alive, work, busy, stop, th, signalled>>

(***************************************************************************)
(* "none": not IsDefined(); "start": created, mutex not taken yet;         *)
(* "sleep": waiting for a command; "exit": has left Run().  Subclasses add *)
(* the positions of their Tick().                                          *)
(***************************************************************************)
StandbyPlaces == {"none", "start", "sleep", "exit"}

(* ticking: the positions inside Tick().  The flags tell where the thread  *)
(* is, as Run() and the destructor assert.                                 *)
StandbyTypeOK(ticking) ==
  /\ alive \in BOOLEAN
  /\ work \in BOOLEAN
  /\ busy \in BOOLEAN
  /\ stop \in BOOLEAN
  /\ th \in StandbyPlaces \cup ticking
  /\ signalled \in BOOLEAN
  /\ alive <=> th \notin {"none", "exit"}
  /\ busy <=> th \in ticking

StandbyInit ==
  /\ alive = FALSE
  /\ work = FALSE
  /\ busy = FALSE
  /\ stop = FALSE
  /\ th = "none"
  /\ signalled = FALSE

IsWorking == work \/ busy

-----------------------------------------------------------------------------
(* The main thread's calls, each under the mutex. *)

(* Seeded fault: the sleeper is not signalled. *)
TriggerCommand_Silent == UNCHANGED signalled

TriggerCommand == signalled' = (signalled \/ th = "sleep")

Trigger ==
  /\ stop' = FALSE
  /\ work' = TRUE
  /\ UNCHANGED busy
  /\ IF alive
     THEN TriggerCommand /\ UNCHANGED <<alive, th>>
     ELSE alive' = TRUE /\ th' = "start" /\ UNCHANGED signalled

(* Thread::Start() throws: the flags are set, but there is no thread. *)
TriggerThrows ==
  /\ ~alive
  /\ stop' = FALSE
  /\ work' = TRUE
  /\ UNCHANGED <<alive, busy, th, signalled>>

StopAsync ==
  /\ stop' = TRUE
  /\ work' = FALSE
  /\ TriggerCommand
  /\ UNCHANGED <<alive, busy, th>>

(* WaitStopped() returns at once if there is no thread. *)
Stopped == th \in {"none", "exit"}

JoinThread == th' = "none" /\ UNCHANGED <<alive, work, busy, stop, signalled>>

-----------------------------------------------------------------------------
(***************************************************************************)
(* The loop of Run(), from where the thread has the mutex until it gives   *)
(* it back: asleep, at the end, or in Tick() at the position first, having *)
(* done what Tick() does before that.  A thread that just woke up looks    *)
(* for work before it looks at stop.                                       *)
(***************************************************************************)
BeginsTick(first, TickPart) ==
  /\ work
  /\ th = "sleep" \/ ~stop
  /\ work' = FALSE
  /\ busy' = TRUE
  /\ th' = first
  /\ TickPart
  /\ UNCHANGED <<alive, stop, signalled>>

Ends ==
  /\ stop
  /\ th = "sleep" => ~work
  /\ alive' = FALSE
  /\ busy' = FALSE
  /\ th' = "exit"
  /\ UNCHANGED <<work, stop, signalled>>

Sleeps ==
  /\ ~stop
  /\ ~work
  /\ busy' = FALSE
  /\ th' = "sleep"
  /\ signalled' = FALSE
  /\ UNCHANGED <<alive, work, stop>>

(* The thread gets the mutex for the first time, or is woken: by a signal, *)
(* or unasked.                                                             *)
Enters == th \in {"start", "sleep"}
=============================================================================
