-------------------------- MODULE DeviceDescriptor --------------------------
(***************************************************************************)
(* The life of one external device: src/src/Device/Descriptor.cpp.  Three  *)
(* threads meet in it.  The main thread opens, closes, lends and reopens   *)
(* it; a job thread does the slow part of opening; the port's thread       *)
(* reports errors.                                                         *)
(*                                                                         *)
(* The main thread runs one handler at a time, and a handler is one action *)
(* unless it waits for the job thread: Close() then leaves the rest of its *)
(* caller's work in goal and ends in CloseReturns.  A failed assertion or  *)
(* an exception nobody catches ends the program: see aborted.              *)
(***************************************************************************)
EXTENDS AsyncJob

VARIABLES
  dev,       \* the members of DeviceDescriptor
  goal,      \* what the main thread does when Close() returns
  borrower,  \* progress of the dialog that borrowed the device
  aborted    \* the assertion that failed, if one did

vars == <<job, cancelled, pending, queued, ui, dev, goal, borrower, aborted>>

(***************************************************************************)
(* Job positions inside DoOpen(): "connecting": in Port::WaitConnected();  *)
(* "creating": before CreateOnPort(); "enabling": in EnableNMEA().         *)
(***************************************************************************)
JobPlaces == RunnerPlaces \cup {"connecting", "creating", "enabling"}

Ports == {"none", "ready", "failed"}

Goals == {"none", "reopen", "slow_reopen", "restart"}

(* ExternalLogger::DownloadFlightFrom() may close the port it borrowed. *)
Borrowers == {"none", "using", "closed", "rescheduled"}

Aborts == {"none", "Open", "open_job", "Return", "DoOpen", "OpenOnPort", "driver",
           "OnJobFinished", "terminate"}

(***************************************************************************)
(* ticker is the phase of OnSysTicker(); waiting is waiting_to_call_open   *)
(* and timer whether reopen_timer is scheduled; available stands for       *)
(* config.IsAvailable(), and for driver # nullptr, which goes with it.     *)
(***************************************************************************)
Descriptors ==
  [port : Ports, device : BOOLEAN, open_job : BOOLEAN, has_failed : BOOLEAN,
   ticker : BOOLEAN, borrowed : BOOLEAN, waiting : BOOLEAN, timer : BOOLEAN,
   available : BOOLEAN]

(* Type correctness of the members and of the runner: in particular no     *)
(* more than two calls of job_finished_notify are ever queued.             *)
TypeOK ==
  /\ AsyncTypeOK(JobPlaces)
  /\ dev \in Descriptors
  /\ goal \in Goals
  /\ borrower \in Borrowers
  /\ aborted \in Aborts

Init ==
  /\ AsyncInit
  /\ dev \in [port : {"none"}, device : {FALSE}, open_job : {FALSE},
              has_failed : {FALSE}, ticker : {FALSE}, borrowed : {FALSE},
              waiting : {FALSE}, timer : {FALSE}, available : BOOLEAN]
  /\ goal = "none"
  /\ borrower = "none"
  /\ aborted = "none"

-----------------------------------------------------------------------------
(* Where the main thread and the job thread can go on. *)
Idle == aborted = "none" /\ ui = "idle"

Joins(place) == aborted = "none" /\ ui = place /\ job = "exit"

At(place) == aborted = "none" /\ job = place

(* Seeded fault: the borrower does not count. *)
IsOccupied_Busy == IsBusy

IsOccupied == dev.borrowed \/ IsBusy

(* GetState(), as far as CanBorrow() asks. *)
IsReady == ~dev.has_failed /\ ~dev.open_job /\ ~dev.waiting /\ dev.port = "ready"

CanBorrow == dev.device /\ IsReady /\ ~IsOccupied

(* What Open() asserts, before and after it tested the configuration. *)
OpenRequires(d) ==
  d.port = "none" /\ ~d.device /\ ~d.has_failed /\ ~d.ticker /\ ~d.borrowed

OpenAborts(d) ==
  IF ~OpenRequires(d) THEN "Open"
  ELSE IF d.available /\ d.open_job THEN "open_job" ELSE "none"

(***************************************************************************)
(* Open() on a descriptor d whose runner is idle.  Thread::Start() throws  *)
(* if the system refuses a thread; open_job is not reset then, and only    *)
(* OnReopenTimer() catches the exception.                                  *)
(***************************************************************************)
Open(d, caught) ==
  /\ ui' = "idle"
  /\ goal' = "none"
  /\ UNCHANGED <<pending, queued, borrower>>
  /\ \/ /\ ~d.available \/ OpenAborts(d) # "none"
        /\ dev' = d
        /\ job' = "none"
        /\ aborted' = OpenAborts(d)
        /\ UNCHANGED cancelled
     \/ /\ d.available /\ OpenAborts(d) = "none"
        /\ dev' = [d EXCEPT !.open_job = TRUE]
        /\ \/ /\ job' = "begin"
              /\ cancelled' = FALSE
              /\ UNCHANGED aborted
           \/ /\ job' = "none"
              /\ aborted' = IF caught THEN "none" ELSE "terminate"
              /\ UNCHANGED cancelled

(* What the callers of Close() do after it. *)
AfterClose(d, g) ==
  CASE g = "reopen"      -> Open(d, FALSE)
    [] g = "slow_reopen" -> /\ dev' = [d EXCEPT !.waiting = TRUE, !.timer = TRUE]
                            /\ job' = "none"
                            /\ ui' = "idle"
                            /\ goal' = "none"
                            /\ UNCHANGED <<cancelled, pending, queued, borrower, aborted>>
    [] g = "restart"     -> \E available \in BOOLEAN :
                              Open([d EXCEPT !.available = available], FALSE)

(* Seeded fault: a SlowReopen() before this Close() is not called off. *)
CancelReopen_Forgotten(d) == d

CancelReopen(d) == [d EXCEPT !.waiting = FALSE, !.timer = FALSE]

Closed(d) ==
  [CancelReopen(d) EXCEPT !.device = FALSE, !.port = "none",
                          !.has_failed = FALSE, !.ticker = FALSE]

(***************************************************************************)
(* Close() and then g, on behalf of a handler that found or made the       *)
(* descriptor d.  CancelAsync() gives up early if no job is running.       *)
(***************************************************************************)
Close(d, g) ==
  \/ /\ ~IsBusy
     /\ AfterClose(Closed(d), g)
  \/ /\ IsBusy
     /\ dev' = CancelReopen(d)
     /\ goal' = g
     /\ CancelEnv
     /\ UNCHANGED <<borrower, aborted>>

(* The rest of Cancel(), then Wait() and the rest of Close(). *)
CloseCancels ==
  aborted = "none" /\ ClearNotification /\ UNCHANGED <<dev, goal, borrower, aborted>>

CloseReturns ==
  /\ Joins("joining")
  /\ AfterClose(Closed([dev EXCEPT !.open_job = FALSE]), goal)

-----------------------------------------------------------------------------
(* The job thread.  DoOpen() asserts that the device is configured. *)

UIUnchanged == UNCHANGED <<cancelled, pending, queued, ui, goal, borrower>>

DoOpen ==
  /\ At("begin")
  /\ job' \in {"connecting", "ran"}
  /\ aborted' = IF dev.available THEN "none" ELSE "DoOpen"
  /\ UNCHANGED dev
  /\ UIUnchanged

(* Seeded fault: WaitConnected() is not told that it was cancelled. *)
ConnectFails_Deaf ==
  /\ At("connecting")
  /\ ~cancelled
  /\ job' = "ran"
  /\ UNCHANGED <<dev, aborted>>
  /\ UIUnchanged

(* WaitConnected() gives up, on an error or because it was cancelled. *)
ConnectFails ==
  /\ At("connecting")
  /\ job' = "ran"
  /\ UNCHANGED <<dev, aborted>>
  /\ UIUnchanged

(* It succeeds, and OpenOnPort() takes the port over. *)
OpenOnPort ==
  /\ At("connecting")
  /\ job' = "creating"
  /\ aborted' = IF dev.port # "none" \/ dev.device \/ dev.ticker \/ dev.borrowed
                THEN "OpenOnPort"
                ELSE IF ~dev.available THEN "driver" ELSE "none"
  /\ dev' = [dev EXCEPT !.port = "ready"]
  /\ UIUnchanged

(***************************************************************************)
(* CreateOnPort() makes a Device unless the driver only reads NMEA; if it  *)
(* throws, the port is given up, but a cancellation leaves it to Close().  *)
(***************************************************************************)
CreateOnPort ==
  /\ At("creating")
  /\ \/ /\ job' = "enabling"
        /\ \E device \in BOOLEAN : dev' = [dev EXCEPT !.device = device]
     \/ /\ job' = "ran"
        /\ dev' = [dev EXCEPT !.port = "none"]
     \/ /\ cancelled
        /\ job' = "ran"
        /\ UNCHANGED dev
  /\ UNCHANGED aborted
  /\ UIUnchanged

EnableNMEA ==
  /\ At("enabling")
  /\ job' = "ran"
  /\ UNCHANGED <<dev, aborted>>
  /\ UIUnchanged

JobEnds ==
  aborted = "none" /\ RunnerStep /\ UNCHANGED <<dev, goal, borrower, aborted>>

(***************************************************************************)
(* The port fails.  Its thread may call PortError(); the port that         *)
(* WaitConnected() waits for is not a member yet.                          *)
(***************************************************************************)
PortFails ==
  /\ aborted = "none"
  /\ \/ /\ dev.port = "ready"
        /\ \E told \in BOOLEAN :
             dev' = [dev EXCEPT !.port = "failed",
                                !.has_failed = @ \/ told]
     \/ /\ job = "connecting"
        /\ dev' = [dev EXCEPT !.has_failed = TRUE]
  /\ UNCHANGED <<job, aborted>>
  /\ UIUnchanged

-----------------------------------------------------------------------------
(* Handlers of the main thread. *)

(***************************************************************************)
(* The event loop pops a call of job_finished_notify.  RunNotification()   *)
(* drops it if the flag was cleared meanwhile; else OnJobFinished() waits  *)
(* for the job and deletes it, in Collect.                                 *)
(***************************************************************************)
RunNotification ==
  /\ Idle
  /\ PopCall
  /\ ui' = IF Delivers /\ dev.open_job /\ IsBusy THEN "collecting" ELSE "idle"
  /\ aborted' = IF Delivers /\ ~(dev.open_job /\ IsBusy) THEN "OnJobFinished" ELSE "none"
  /\ UNCHANGED <<job, cancelled, dev, goal, borrower>>

Collect ==
  /\ Joins("collecting")
  /\ job' = "none"
  /\ dev' = [dev EXCEPT !.open_job = FALSE]
  /\ ui' = "idle"
  /\ UNCHANGED <<cancelled, pending, queued, goal, borrower, aborted>>

(* Seeded fault: the timer is not scheduled again. *)
Postpone_Drop(d) == [d EXCEPT !.timer = FALSE]

Postpone(d) == [d EXCEPT !.timer = TRUE]

OnReopenTimer ==
  /\ Idle
  /\ dev.timer
  /\ \/ /\ ~dev.waiting \/ IsOccupied
        /\ dev' = IF dev.waiting THEN Postpone(dev) ELSE [dev EXCEPT !.timer = FALSE]
        /\ UNCHANGED <<async, goal, borrower, aborted>>
     \/ /\ dev.waiting /\ ~IsOccupied
        /\ Open([dev EXCEPT !.waiting = FALSE, !.timer = FALSE], TRUE)

(* Seeded fault: the driver is ticked, but a failure is not acted upon. *)
OnSysTicker_Lazy ==
  /\ Idle
  /\ \E alive \in BOOLEAN :
       dev' = [dev EXCEPT !.has_failed = @ \/ dev.port = "failed",
                          !.ticker = IF dev.device /\ (alive \/ dev.borrowed) THEN ~@ ELSE @]
  /\ UNCHANGED <<async, goal, borrower, aborted>>

(***************************************************************************)
(* Twice a second from ProcessTimer().  A failed device is closed, and     *)
(* then has no driver to tick.  Whether data was parsed lately (alive) is  *)
(* not modelled.                                                           *)
(***************************************************************************)
OnSysTicker ==
  /\ Idle
  /\ LET d == [dev EXCEPT !.has_failed = @ \/ dev.port = "failed"]
     IN IF d.has_failed /\ ~IsOccupied
        THEN dev' = Closed(d)
        ELSE \E alive \in BOOLEAN :
               dev' = [d EXCEPT !.ticker = IF d.device /\ (alive \/ d.borrowed)
                                           THEN ~@ ELSE @]
  /\ UNCHANGED <<async, goal, borrower, aborted>>

(* Also from ProcessTimer(); the clock and the timeout are not modelled. *)
AutoReopen ==
  /\ Idle
  /\ ~IsOccupied
  /\ dev.available
  /\ Close(dev, "reopen")

(* The "Reconnect" buttons of the device list and of the port monitor. *)
Reconnect ==
  /\ Idle
  /\ ~dev.borrowed
  /\ \E g \in {"reopen", "slow_reopen"} : Close(dev, g)

(* The device list's "Edit" and the like give the descriptor its new       *)
(* configuration and then call Reopen().                                   *)
EditCurrent ==
  /\ Idle
  /\ ~dev.borrowed
  /\ \E available \in BOOLEAN :
       Close([dev EXCEPT !.available = available], "reopen")

(* devRestart() closes first.  The dialogs that borrow a device are modal, *)
(* so neither of these two can happen while it is borrowed.                *)
Restart ==
  /\ Idle
  /\ ~dev.borrowed
  /\ Close(dev, "restart")

-----------------------------------------------------------------------------
(* A dialog borrows the device, and returns it when it is done. *)

Borrow ==
  /\ Idle
  /\ CanBorrow
  /\ dev' = [dev EXCEPT !.borrowed = TRUE]
  /\ borrower' = "using"
  /\ UNCHANGED <<async, goal, aborted>>

(* A borrowed device has no job, see BorrowIsExclusive: Close() returns at *)
(* once in these two.                                                      *)
CloseBorrowed ==
  /\ Idle
  /\ borrower = "using"
  /\ dev' = Closed(dev)
  /\ borrower' = "closed"
  /\ UNCHANGED <<async, goal, aborted>>

ScheduleReopenBorrowed ==
  /\ Idle
  /\ borrower = "closed"
  /\ dev' = [Closed(dev) EXCEPT !.waiting = TRUE, !.timer = TRUE]
  /\ borrower' = "rescheduled"
  /\ UNCHANGED <<async, goal, aborted>>

Return ==
  /\ Idle
  /\ borrower \in {"using", "rescheduled"}
  /\ dev' = [dev EXCEPT !.borrowed = FALSE]
  /\ borrower' = "none"
  /\ aborted' = IF IsBusy THEN "Return" ELSE "none"
  /\ UNCHANGED <<async, goal>>

-----------------------------------------------------------------------------
JobStep ==
  DoOpen \/ ConnectFails \/ OpenOnPort \/ CreateOnPort \/ EnableNMEA \/ JobEnds

Handler ==
  \/ RunNotification \/ OnReopenTimer \/ OnSysTicker \/ AutoReopen
  \/ Reconnect \/ EditCurrent \/ Restart
  \/ Borrow \/ CloseBorrowed \/ ScheduleReopenBorrowed \/ Return

Next ==
  \/ Handler
  \/ CloseCancels \/ CloseReturns \/ Collect
  \/ JobStep
  \/ PortFails

Spec == Init /\ [][Next]_vars

(***************************************************************************)
(* Fairness.  A thread that can go on does; but WaitConnected() waits for  *)
(* the other side for as long as its port is neither up, failed nor        *)
(* cancelled.  The event loop gets to every call, timer and periodic       *)
(* handler however often something else comes first (strong fairness: the  *)
(* main thread is busy in between).  A dialog is closed some day.  Nothing *)
(* is assumed of the user's other handlers, of AutoReopen() or the port.   *)
(***************************************************************************)
JobMoves == DoOpen \/ CreateOnPort \/ EnableNMEA \/ JobEnds

BorrowerMoves == CloseBorrowed \/ ScheduleReopenBorrowed \/ Return

FairSpec ==
  /\ Spec
  /\ WF_vars(JobMoves)
  /\ WF_vars(ConnectFails /\ (cancelled \/ dev.has_failed))
  /\ WF_vars(CloseCancels \/ CloseReturns \/ Collect)
  /\ SF_vars(RunNotification)
  /\ SF_vars(OnReopenTimer)
  /\ SF_vars(OnSysTicker)
  /\ SF_vars(BorrowerMoves)

-----------------------------------------------------------------------------
Closing == {"purging", "clearing", "joining"}

(* While a dialog has borrowed the device, no job touches it, and the      *)
(* driver it is talking to is not deleted under it (Borrow() gives         *)
(* "exclusive access").                                                    *)
BorrowIsExclusive ==
  /\ dev.borrowed => ~IsBusy
  /\ borrower = "using" => dev.device /\ dev.borrowed

(* Open(), OpenOnPort() and Return() find the descriptor as they assert    *)
(* it: no handler, timer or job comes at the wrong moment.                 *)
StateAssertionsHold == aborted \notin {"Open", "OpenOnPort", "Return"}

(* A device that waits to be opened again is closed, and the timer that    *)
(* will open it is scheduled.                                              *)
WaitingIsArmed ==
  dev.waiting => /\ dev.timer
                 /\ dev.port = "none" /\ ~dev.device /\ ~dev.has_failed /\ ~IsBusy

(* Notify::pending is only left set while a call is in the queue or on its *)
(* way there; otherwise every later notification would be dropped.         *)
NoLostNotification == pending => queued > 0 \/ job = "inject" \/ ui = "clearing"

(* A failure is acted upon: the device is closed, for AutoReopen() to try  *)
(* again.                                                                  *)
FailureIsHandled == dev.has_failed ~> ~dev.has_failed \/ aborted # "none"

(* SlowReopen() keeps its promise, even if the device is borrowed for long.*)
WaitingEnds == dev.waiting ~> ~dev.waiting \/ aborted # "none"

(* Close() gets the job to stop, whatever it is doing.                      *)
CloseEnds == ui \in Closing ~> ui \notin Closing \/ aborted # "none"

-----------------------------------------------------------------------------
(* Async.hpp says of Cancel(): "after this method returns, no notification *)
(* will be delivered".  The job thread may already have read the flag.     *)
CancelSuppresses == ui = "idle" /\ ~IsBusy => ~(pending /\ queued > 0)

(* DoOpen() asserts that its configuration is available, OpenOnPort() that *)
(* there is a driver: nobody takes them away while the job runs.           *)
JobIsConfigured == aborted \notin {"DoOpen", "driver"}

(* Open() asserts that there is no open_job left over.                     *)
OpenJobIsFresh == aborted # "open_job"
=============================================================================
