-------------------------- MODULE DownloadManager --------------------------
(***************************************************************************)
(* src/src/net/http/DownloadManager.cpp: a queue of files, of which the    *)
(* first is downloaded by a coroutine in the I/O thread.  The main thread  *)
(* (dialogs, RepositoryAutoUpdate, shutdown) enqueues and cancels; the     *)
(* I/O thread takes the next file when a download has ended.               *)
(*                                                                         *)
(* A file is known by its path.  A critical section is one action, except  *)
(* for the main thread's that starts a download: it has two, and the mutex *)
(* is held in between.                                                     *)
(***************************************************************************)
EXTENDS InjectTask

VARIABLES
  queue,          \* the members of DownloadManagerThread
  started,        \* current_position # -1
  shutting_down,
  main,           \* where the main thread is
  path,           \* the argument of Cancel()
  told,           \* the path that OnCompletion() has taken from the queue
  aborted,        \* an assertion has failed
  raced           \* what Cancel() or BeginShutdown() found was no longer so

managerVars == <<queue, started, shutting_down, main, path, told, aborted, raced>>
vars == <<queueVars, taskVars, managerVars>>

(***************************************************************************)
(* "starting": about to call Start(), with the mutex.  In Cancel():        *)
(* "test": about to look at task; "recheck"; "cancel": in task.Cancel() or *)
(* back from it.  In BeginShutdown(): "stop": in task.Cancel() or back;    *)
(* "clear": about to clear the queue; "down": returned.                    *)
(***************************************************************************)
MainPlaces == {"idle", "starting", "test", "recheck", "cancel", "stop", "clear", "down"}

TypeOK ==
  /\ TaskTypeOK
  /\ queue \in Seq(Items)
  /\ IsInjective(queue)
  /\ started \in BOOLEAN
  /\ shutting_down \in BOOLEAN
  /\ main \in MainPlaces
  /\ path \in Items \cup {None}
  /\ told \in Items \cup {None}
  /\ aborted \in BOOLEAN
  /\ raced \in BOOLEAN

Init ==
  /\ TaskInit
  /\ queue = <<>>
  /\ started = FALSE
  /\ shutting_down = FALSE
  /\ main = "idle"
  /\ path = None
  /\ told = None
  /\ aborted = FALSE
  /\ raced = FALSE

-----------------------------------------------------------------------------
InQueue(p) == \E i \in DOMAIN queue : queue[i] = p

(* OnCompletion() was called and has not got the mutex yet. *)
InFlight == callback # None /\ told = None

(* Seeded fault: task.Cancel() is called with the mutex held. *)
MutexIsFree_Cancel == main \notin {"starting", "cancel"}

MutexIsFree == main # "starting"

MainAt(place) == ~aborted /\ main = place

(* Start() in the I/O thread or the main thread; shutting_down ends it. *)
StartFirst(q) ==
  IF shutting_down
  THEN NotStarted /\ started' = FALSE
  ELSE Start(Head(q)) /\ started' = TRUE

(* Seeded fault: BeginShutdown() is not heeded. *)
StartNext_Always(q) ==
  IF q # <<>> /\ ~alive
  THEN Start(Head(q)) /\ started' = TRUE
  ELSE NotStarted /\ started' = FALSE

(* What OnCompletion() does when the queue is q. *)
StartNext(q) ==
  IF q # <<>> /\ ~alive
  THEN StartFirst(q)
  ELSE NotStarted /\ started' = FALSE

-----------------------------------------------------------------------------
(* The main thread. *)

others == <<queueVars, taskVars, told, aborted>>

(* Seeded fault: an idle task is taken for an idle manager. *)
IsIdle_Task == ~alive

IsIdle == ~alive /\ ~started

(* Enqueue() skips a file that is in the queue. *)
Enqueue(p) ==
  /\ MainAt("idle")
  /\ ~shutting_down
  /\ ~InQueue(p)
  /\ queue' = Append(queue, p)
  /\ main' = IF IsIdle THEN "starting" ELSE "idle"
  /\ UNCHANGED <<others, started, shutting_down, path, raced>>

MainStarts ==
  /\ MainAt("starting")
  /\ StartFirst(queue)
  /\ main' = "idle"
  /\ UNCHANGED <<rest, callback, caller, queue, shutting_down, path, told, aborted, raced>>

(* Cancel() of a file that waits, and of the one that is downloaded. *)
Cancel_(p) ==
  /\ MainAt("idle")
  /\ InQueue(p)
  /\ IF p # Head(queue)
     THEN queue' = Without(queue, p) /\ UNCHANGED <<main, path>>
     ELSE main' = "test" /\ path' = p /\ UNCHANGED queue
  /\ UNCHANGED <<others, started, shutting_down, raced>>

TestTask ==
  /\ MainAt("test")
  /\ main' = IF alive THEN "recheck" ELSE "idle"
  /\ UNCHANGED <<others, queue, started, shutting_down, path, raced>>

IsFirst == queue # <<>> /\ Head(queue) = path

(* Is it still the first?  If it is, the mutex is given up, and the task   *)
(* is cancelled, whichever it is by then.                                  *)
Recheck ==
  /\ MainAt("recheck")
  /\ IF IsFirst
     THEN main' = "cancel" /\ CancelTask /\ UNCHANGED queue
     ELSE main' = "idle" /\ queue' = Without(queue, path) /\ UNCHANGED caller
  /\ UNCHANGED <<queueVars, alive, task, begun, restarted, callback,
                 started, shutting_down, path, told, aborted, raced>>

(* Seeded fault: the next download is left to OnCompletion(), which a      *)
(* cancelled coroutine never calls.                                        *)
Erase_NoStart ==
  /\ MainAt("cancel")
  /\ caller = "out"
  /\ queue' = Without(queue, path)
  /\ started' = (started /\ ~InQueue(path))
  /\ raced' = (raced \/ (InFlight /\ InQueue(path)))
  /\ main' = "idle"
  /\ UNCHANGED <<others, shutting_down, path>>

(* After task.Cancel(): if the file is still there, it is removed and the  *)
(* next one started.                                                       *)
Erase ==
  /\ MainAt("cancel")
  /\ caller = "out"
  /\ queue' = Without(queue, path)
  /\ started' = (started /\ ~InQueue(path))
  /\ raced' = (raced \/ (InFlight /\ InQueue(path)))
  /\ main' = IF InQueue(path) /\ queue' # <<>> /\ ~alive THEN "starting" ELSE "idle"
  /\ UNCHANGED <<others, shutting_down, path>>

BeginShutdown ==
  /\ MainAt("idle")
  /\ shutting_down' = TRUE
  /\ IF alive
     THEN main' = "stop" /\ CancelTask
     ELSE main' = "clear" /\ UNCHANGED caller
  /\ UNCHANGED <<queueVars, alive, task, begun, restarted, callback,
                 queue, started, path, told, aborted, raced>>

Stopped ==
  /\ MainAt("stop")
  /\ caller = "out"
  /\ main' = "clear"
  /\ UNCHANGED <<others, queue, started, shutting_down, path, raced>>

ClearQueue ==
  /\ MainAt("clear")
  /\ queue' = <<>>
  /\ started' = FALSE
  /\ raced' = (raced \/ InFlight)
  /\ main' = "down"
  /\ UNCHANGED <<others, shutting_down, path>>

-----------------------------------------------------------------------------
(* The I/O thread. *)

(* OnCompletion(), with the mutex: assert(!queue.empty()), then the first  *)
(* file is taken and the next download started.                            *)
OnCompletion ==
  /\ ~aborted
  /\ InFlight
  /\ MutexIsFree
  /\ IF queue = <<>>
     THEN aborted' = TRUE /\ UNCHANGED <<queue, told, started>> /\ NotStarted
     ELSE /\ told' = Head(queue)
          /\ queue' = Tail(queue)
          /\ StartNext(Tail(queue))
          /\ UNCHANGED aborted
  /\ UNCHANGED <<rest, callback, caller, shutting_down, main, path, raced>>

(* The listeners were told. *)
CallbackReturns ==
  /\ ~aborted
  /\ told # None
  /\ callback' = None
  /\ told' = None
  /\ UNCHANGED <<queueVars, alive, task, begun, restarted, caller,
                 queue, started, shutting_down, main, path, aborted, raced>>

(* A Cancel() that disposes of another file's coroutine. *)
KillsAnother == running = "call" /\ ~restarted /\ task \notin {path, None} /\ main = "cancel"

TaskRuns ==
  /\ ~aborted
  /\ TaskStep \/ CancelStep
  /\ raced' = (raced \/ KillsAnother)
  /\ UNCHANGED <<queue, started, shutting_down, main, path, told, aborted>>

-----------------------------------------------------------------------------
MainGoesOn == MainStarts \/ TestTask \/ Recheck \/ Erase \/ Stopped \/ ClearQueue

UserActs == BeginShutdown \/ \E p \in Items : Enqueue(p) \/ Cancel_(p)

Next == MainGoesOn \/ UserActs \/ TaskRuns \/ OnCompletion \/ CallbackReturns

Spec == Init /\ [][Next]_vars

(***************************************************************************)
(* Fairness.  Both threads run, the event loop calls what is injected (see *)
(* EventLoop.tla), and a download ends, well or not: CURL has timeouts.    *)
(***************************************************************************)
FairSpec ==
  /\ Spec
  /\ WF_vars(MainGoesOn)
  /\ WF_vars(OnCompletion)
  /\ WF_vars(CallbackReturns)
  /\ WF_vars(TaskRuns /\ CancelStep)
  /\ SF_vars(TaskRuns /\ (TakeEvent \/ OnInject \/ Dispose))
  /\ SF_vars(TaskRuns /\ CoroutineEnds)

-----------------------------------------------------------------------------
(* The assertions of Start(), and the caller's: no download is running or  *)
(* about to be taken from the queue when the main thread starts one.       *)
StartAssertionsHold ==
  main = "starting" => /\ queue # <<>>
                       /\ ~alive /\ task = None
                       /\ ~started

(* A task that is alive is driven by somebody: its event is in the loop's  *)
(* queue, its coroutine runs, or it is being cancelled.  No interleaving   *)
(* of Start() and Cancel() leaves one that is never resumed, reported as   *)
(* running for ever.                                                       *)
AliveIsDriven ==
  alive => \/ IsPending("task") \/ running = "task" \/ begun
           \/ caller \notin {"out", "test"}

(* When BeginShutdown() has returned, nothing is downloaded any more, and  *)
(* a completion that comes late starts nothing.                            *)
ShutdownIsFinal ==
  main = "down" => ~alive /\ task = None /\ queue = <<>>

(* Cancel() and BeginShutdown() return: the main thread does not wait for  *)
(* an I/O thread that waits for the main thread's mutex.                   *)
CallsReturn == main \in {"cancel", "stop"} ~> main \notin {"cancel", "stop"} \/ aborted

(* Each file leaves the queue some day, whatever is enqueued and cancelled *)
(* meanwhile, unless a Cancel() met a completion.                          *)
EveryDownloadEnds ==
  \A p \in Items : InQueue(p) ~> ~InQueue(p) \/ raced \/ aborted

(* OnCompletion() asserts that the file whose download has ended is still  *)
(* in the queue.                                                           *)
CompletionFindsItsFile == ~aborted

(* InjectTask.hxx of Cancel(): "After returning, the coroutine is          *)
(* guaranteed to be destroyed and its code (including the completion       *)
(* callback) is not running anymore."                                      *)
CancelIsFinal ==
  main \in {"cancel", "stop"} /\ caller = "out" => callback = None
=============================================================================
