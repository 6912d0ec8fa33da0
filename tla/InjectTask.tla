---------------------------- MODULE InjectTask ----------------------------
(***************************************************************************)
(* src/src/co/InjectTask.cxx: a coroutine that is started from any thread, *)
(* runs in the thread of an EventLoop, and can be cancelled from another.  *)
(* Modules that own a task extend this one, start it, and say what its     *)
(* callback does.  The loop is what InjectQueue.tla says of it.            *)
(*                                                                         *)
(* Only the calls of Cancel() from the main thread are cut into steps: it  *)
(* reads and writes the atomic members without a mutex.                    *)
(***************************************************************************)
EXTENDS InjectQueue

CONSTANTS
  Items,  \* what there is to do: a coroutine is known by its item
  None    \* no coroutine

ASSUME TaskAssumption == /\ {"task", "call"} \subseteq Events
                         /\ None \notin Items

VARIABLES
  alive,      \* the members of InjectTask
  task,
  begun,      \* the coroutine was resumed
  restarted,  \* generation was incremented since Cancel() read it
  callback,   \* the coroutine that ended, while its callback runs
  caller      \* where the main thread is in Cancel()

taskVars == <<alive, task, begun, restarted, callback, caller>>

(***************************************************************************)
(* "test": at the first look at alive; "uninject": at inject_event's       *)
(* Cancel(); "load": about to read generation; "post": about to inject the *)
(* BlockingCall(); "waiting": in it; "finish": back; "out": not in it.     *)
(***************************************************************************)
CallerPlaces == {"out", "test", "uninject", "load", "post", "waiting", "finish"}

TaskTypeOK ==
  /\ QueueTypeOK
  /\ alive \in BOOLEAN
  /\ task \in Items \cup {None}
  /\ begun \in BOOLEAN
  /\ restarted \in BOOLEAN
  /\ callback \in Items \cup {None}
  /\ caller \in CallerPlaces

TaskInit ==
  /\ QueueInit
  /\ alive = FALSE
  /\ task = None
  /\ begun = FALSE
  /\ restarted = FALSE
  /\ callback = None
  /\ caller = "out"

-----------------------------------------------------------------------------
(* Start(), from any thread; inject_event.Schedule() comes last. *)
Start(item) ==
  /\ alive' = TRUE
  /\ task' = item
  /\ begun' = FALSE
  /\ restarted' = TRUE
  /\ inject' = Scheduled("task")

(* Nothing is started. *)
NotStarted == UNCHANGED <<alive, task, begun, restarted, inject>>

-----------------------------------------------------------------------------
(* Cancel(). *)

rest == <<running, breaking, ended>>

CancelTask == caller' = "test"

TestAlive ==
  /\ caller = "test"
  /\ caller' = IF alive THEN "uninject" ELSE "out"
  /\ UNCHANGED <<queueVars, alive, task, begun, restarted, callback>>

Uninject ==
  /\ caller = "uninject"
  /\ inject' = Cancelled("task")
  /\ caller' = "load"
  /\ UNCHANGED <<rest, alive, task, begun, restarted, callback>>

LoadGeneration ==
  /\ caller = "load"
  /\ restarted' = FALSE
  /\ caller' = "post"
  /\ UNCHANGED <<queueVars, alive, task, begun, callback>>

PostCall ==
  /\ caller = "post"
  /\ inject' = Scheduled("call")
  /\ caller' = "waiting"
  /\ UNCHANGED <<rest, alive, task, begun, restarted, callback>>

(* Nobody starts a task that is alive: what it finds is what it leaves. *)
CancelFinishes ==
  /\ caller = "finish"
  /\ alive' = (alive /\ restarted)
  /\ caller' = "out"
  /\ UNCHANGED <<queueVars, task, begun, restarted, callback>>

CancelStep ==
  TestAlive \/ Uninject \/ LoadGeneration \/ PostCall \/ CancelFinishes

-----------------------------------------------------------------------------
(* The loop's thread. *)

LoopIsFree == running = Nobody /\ callback = None

TakeEvent ==
  /\ LoopIsFree
  /\ TakeFirst
  /\ UNCHANGED <<breaking, ended, taskVars>>

OnInject ==
  /\ running = "task"
  /\ begun' = (alive /\ task # None)
  /\ running' = Nobody
  /\ UNCHANGED <<inject, breaking, ended, alive, task, restarted, callback, caller>>

(* Seeded fault: the coroutine is disposed of whichever it is. *)
Dispose_Any ==
  /\ running = "call"
  /\ task' = None /\ begun' = FALSE
  /\ running' = Nobody
  /\ caller' = "finish"
  /\ UNCHANGED <<inject, breaking, ended, alive, restarted, callback>>

(* The BlockingCall() of Cancel(). *)
Dispose ==
  /\ running = "call"
  /\ IF restarted
     THEN UNCHANGED <<task, begun>>
     ELSE task' = None /\ begun' = FALSE
  /\ running' = Nobody
  /\ caller' = "finish"
  /\ UNCHANGED <<inject, breaking, ended, alive, restarted, callback>>

(* The coroutine ends: its handle is released, and OnCompletion() clears   *)
(* alive before it invokes the callback.                                   *)
CoroutineEnds ==
  /\ LoopIsFree
  /\ begun
  /\ task' = None
  /\ begun' = FALSE
  /\ alive' = FALSE
  /\ callback' = IF alive THEN task ELSE None
  /\ UNCHANGED <<queueVars, restarted, caller>>

TaskStep == TakeEvent \/ OnInject \/ Dispose \/ CoroutineEnds
=============================================================================
