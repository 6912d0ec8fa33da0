------------------------------ MODULE AsyncJob ------------------------------
(***************************************************************************)
(* A job in a thread of its own whose end is announced to the main thread: *)
(* AsyncJobRunner (src/src/Job/Async.cpp) with its Notify.  Modules that   *)
(* own a runner extend this one and add the job's own steps, from "begin"  *)
(* to "ran".                                                               *)
(*                                                                         *)
(* The main thread's calls are cut where the job thread can come between:  *)
(* at every lock the queue takes and at every access of the atomic flag.   *)
(***************************************************************************)
EXTENDS Notify

VARIABLES
  job,        \* where the job thread is
  cancelled,  \* ThreadedOperationEnvironment::cancel_flag
  ui          \* where the main thread is

async == <<job, cancelled, pending, queued, ui>>

(***************************************************************************)
(* "none": no thread; "begin": the thread was created; "ran": Job::Run()   *)
(* has returned; "notify", "inject": inside SendNotification(), before the *)
(* exchange and before InjectCall(); "exit": can be joined.                *)
(***************************************************************************)
RunnerPlaces == {"none", "begin", "ran", "notify", "inject", "exit"}

(***************************************************************************)
(* "idle": in the event loop, or in a handler that does not touch the      *)
(* runner; "purging", "clearing": inside ClearNotification(), called by    *)
(* Cancel(); "joining": in the Wait() after that; "collecting": in the     *)
(* Wait() of the notification handler.                                     *)
(***************************************************************************)
UIPlaces == {"idle", "purging", "clearing", "joining", "collecting"}

AsyncTypeOK(jobs) ==
  /\ job \in jobs
  /\ cancelled \in BOOLEAN
  /\ NotifyTypeOK(2)
  /\ ui \in UIPlaces

AsyncInit ==
  /\ job = "none"
  /\ cancelled = FALSE
  /\ NotifyInit
  /\ ui = "idle"

IsBusy == job # "none"

-----------------------------------------------------------------------------
(* Cancel() first sets the flag; what follows are the steps below. *)
CancelEnv ==
  /\ cancelled' = TRUE
  /\ ui' = "purging"
  /\ UNCHANGED <<job, pending, queued>>

(* Seeded fault: the flag is cleared before the queue is purged. *)
ClearNotification_FlagFirst ==
  /\ \/ ui = "purging" /\ ResetPending /\ ui' = "clearing"
     \/ ui = "clearing" /\ PurgeCalls /\ ui' = "joining"
  /\ UNCHANGED <<job, cancelled>>

(* Purge() holds the queue's mutex; the flag is cleared after it. *)
ClearNotification ==
  /\ \/ ui = "purging" /\ PurgeCalls /\ ui' = "clearing"
     \/ ui = "clearing" /\ ResetPending /\ ui' = "joining"
  /\ UNCHANGED <<job, cancelled>>

-----------------------------------------------------------------------------
(* The job thread, after Job::Run() has returned. *)

TestCancelled ==
  /\ job = "ran"
  /\ job' = IF cancelled THEN "exit" ELSE "notify"
  /\ UNCHANGED <<cancelled, pending, queued, ui>>

(* SendNotification() leaves early if a notification is already pending. *)
SendNotification ==
  /\ \/ job = "notify" /\ ExchangePending /\ job' = IF pending THEN "exit" ELSE "inject"
     \/ job = "inject" /\ InjectCall /\ job' = "exit"
  /\ UNCHANGED <<cancelled, ui>>

RunnerStep == TestCancelled \/ SendNotification
=============================================================================
