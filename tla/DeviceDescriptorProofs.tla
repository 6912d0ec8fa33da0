----------------------- MODULE DeviceDescriptorProofs -----------------------
(***************************************************************************)
(* Theorems about DeviceDescriptor.tla.  First: the end of an opening job  *)
(* is never lost between the Notify's flag and the queue.  Then: the state *)
(* assertions hold, a borrower is alone with the device, and a device that *)
(* waits will be opened.  Last: how many calls the queue can hold, and     *)
(* that the end of a job is announced by one.                              *)
(***************************************************************************)
EXTENDS DeviceDescriptor, TLAPS

(* NoLostNotification is inductive once the length of the queue is known   *)
(* to be a number: the thread that sets the flag goes on to "inject", and  *)
(* the purge that empties the queue is followed by clearing the flag.      *)
Announced == queued \in Nat /\ NoLostNotification

(* What most steps do: the Notify is left alone, and neither the job       *)
(* thread nor the main thread leaves a place that Announced speaks of.     *)
Quiet ==
  /\ UNCHANGED <<pending, queued>>
  /\ job = "inject" => job' = "inject"
  /\ ui # "clearing"

LEMMA QuietStep == Announced /\ (Quiet \/ UNCHANGED <<pending, queued, job, ui>>) => Announced'
BY DEF Announced, NoLostNotification, Quiet

(* Steps of the job before its end leave the main thread where it is. *)
LEMMA JobStepQuiet ==
  ASSUME Announced, UNCHANGED <<pending, queued, ui>>, job # "inject"
  PROVE  Announced'
BY DEF Announced, NoLostNotification

LEMMA AfterCloseQuiet ==
  ASSUME NEW d, NEW g, AfterClose(d, g), g \in Goals \ {"none"}
  PROVE  UNCHANGED <<pending, queued>>
<1>1. CASE g = "reopen"
      BY <1>1 DEF AfterClose, Open
<1>2. CASE g = "slow_reopen"
      BY <1>2 DEF AfterClose
<1>3. CASE g = "restart"
      BY <1>3 DEF AfterClose, Open
<1>4. QED
      BY <1>1, <1>2, <1>3 DEF Goals

LEMMA CloseQuiet ==
  ASSUME NEW d, NEW g, Close(d, g), g \in Goals \ {"none"}, ui = "idle"
  PROVE  Quiet
<1>1. CASE ~IsBusy /\ AfterClose(Closed(d), g)
      BY <1>1, AfterCloseQuiet DEF Quiet, IsBusy
<1>2. CASE IsBusy /\ CancelEnv
      BY <1>2 DEF Quiet, CancelEnv
<1>3. QED
      BY <1>1, <1>2 DEF Close

-----------------------------------------------------------------------------
LEMMA InitAnnounced == Init => Announced
BY DEF Init, AsyncInit, NotifyInit, Announced, NoLostNotification

(* The goal that CloseReturns goes on with was put there by Close().       *)
GoalOK == goal \in Goals /\ (ui \in Closing => goal # "none")

LEMMA InitGoal == Init => GoalOK
BY DEF Init, AsyncInit, GoalOK, Goals, Closing

LEMMA OpenGoal ==
  ASSUME NEW d, NEW c, Open(d, c)
  PROVE  GoalOK'
BY DEF Open, GoalOK, Goals, Closing

LEMMA AfterCloseGoal ==
  ASSUME NEW d, NEW g, AfterClose(d, g), g \in Goals \ {"none"}
  PROVE  GoalOK'
<1>1. CASE g = "reopen"
      BY <1>1, OpenGoal DEF AfterClose
<1>2. CASE g = "slow_reopen"
      BY <1>2 DEF AfterClose, GoalOK, Goals, Closing
<1>3. CASE g = "restart"
  <2>1. PICK available \in BOOLEAN : Open([d EXCEPT !.available = available], FALSE)
        BY <1>3 DEF AfterClose
  <2>2. QED
        BY <2>1, OpenGoal
<1>4. QED
      BY <1>1, <1>2, <1>3 DEF Goals

LEMMA CloseGoal ==
  ASSUME NEW d, NEW g, Close(d, g), g \in Goals \ {"none"}
  PROVE  GoalOK'
<1>1. CASE AfterClose(Closed(d), g)
      BY <1>1, AfterCloseGoal
<1>2. CASE goal' = g /\ CancelEnv
      BY <1>2 DEF CancelEnv, GoalOK, Closing
<1>3. QED
      BY <1>1, <1>2 DEF Close

LEMMA StepGoal == GoalOK /\ [Next]_vars => GoalOK'
<1> SUFFICES ASSUME GoalOK, [Next]_vars PROVE GoalOK'
    OBVIOUS
<1> USE DEF Idle
<1>1. CASE RunNotification
      BY <1>1 DEF RunNotification, GoalOK, Closing
<1>2. CASE OnReopenTimer
  <2>1. CASE UNCHANGED <<async, goal, borrower, aborted>>
        BY <2>1 DEF async, GoalOK
  <2>2. CASE Open([dev EXCEPT !.waiting = FALSE, !.timer = FALSE], TRUE)
        BY <2>2, OpenGoal
  <2>3. QED
        BY <1>2, <2>1, <2>2 DEF OnReopenTimer
<1>3. CASE AutoReopen
      BY <1>3, CloseGoal DEF AutoReopen, Goals
<1>4. CASE Reconnect
      BY <1>4, CloseGoal DEF Reconnect, Goals
<1>5. CASE EditCurrent
  <2>1. PICK available \in BOOLEAN : Close([dev EXCEPT !.available = available], "reopen")
        BY <1>5 DEF EditCurrent
  <2>2. QED
        BY <2>1, CloseGoal DEF Goals
<1>6. CASE Restart
      BY <1>6, CloseGoal DEF Restart, Goals
<1>7. CASE OnSysTicker \/ Borrow \/ CloseBorrowed \/ ScheduleReopenBorrowed \/ Return
      BY <1>7 DEF OnSysTicker, Borrow, CloseBorrowed, ScheduleReopenBorrowed, Return,
                  async, GoalOK
<1>8. CASE CloseCancels
      BY <1>8 DEF CloseCancels, ClearNotification, GoalOK, Closing
<1>9. CASE CloseReturns
      BY <1>9, AfterCloseGoal DEF CloseReturns, Joins, GoalOK, Closing
<1>10. CASE Collect
      BY <1>10 DEF Collect, GoalOK, Closing
<1>11. CASE JobStep \/ PortFails
      BY <1>11 DEF JobStep, DoOpen, ConnectFails, OpenOnPort, CreateOnPort, EnableNMEA,
                   JobEnds, RunnerStep, TestCancelled, SendNotification, PortFails,
                   UIUnchanged, GoalOK
<1>12. CASE UNCHANGED vars
      BY <1>12 DEF vars, GoalOK
<1>13. QED
      BY <1>1, <1>2, <1>3, <1>4, <1>5, <1>6, <1>7, <1>8, <1>9, <1>10, <1>11, <1>12
      DEF Next, Handler

LEMMA StepAnnounced == Announced /\ GoalOK /\ [Next]_vars => Announced'
<1> SUFFICES ASSUME Announced, GoalOK, [Next]_vars PROVE Announced'
    OBVIOUS
<1> USE DEF Idle
<1>1. CASE RunNotification
      BY <1>1 DEF RunNotification, PopCall, Announced, NoLostNotification
<1>2. CASE OnReopenTimer
  <2>1. CASE UNCHANGED <<async, goal, borrower, aborted>>
        BY <2>1, QuietStep DEF async
  <2>2. CASE ~IsOccupied /\ Open([dev EXCEPT !.waiting = FALSE, !.timer = FALSE], TRUE)
        BY <1>2, <2>2, QuietStep DEF OnReopenTimer, Open, IsOccupied, IsBusy, Quiet
  <2>3. QED
        BY <1>2, <2>1, <2>2 DEF OnReopenTimer
<1>3. CASE AutoReopen
      BY <1>3, CloseQuiet, QuietStep DEF AutoReopen, Goals
<1>4. CASE Reconnect
      BY <1>4, CloseQuiet, QuietStep DEF Reconnect, Goals
<1>5. CASE EditCurrent
  <2>1. PICK available \in BOOLEAN : Close([dev EXCEPT !.available = available], "reopen")
        BY <1>5 DEF EditCurrent
  <2>2. QED
        BY <1>5, <2>1, CloseQuiet, QuietStep DEF EditCurrent, Goals
<1>6. CASE Restart
      BY <1>6, CloseQuiet, QuietStep DEF Restart, Goals
<1>7. CASE OnSysTicker \/ Borrow \/ CloseBorrowed \/ ScheduleReopenBorrowed \/ Return
      BY <1>7, QuietStep DEF OnSysTicker, Borrow, CloseBorrowed, ScheduleReopenBorrowed,
                             Return, async
<1>8. CASE CloseCancels
      BY <1>8 DEF CloseCancels, ClearNotification, PurgeCalls, ResetPending,
                  Announced, NoLostNotification
<1>9. CASE CloseReturns
  <2>1. UNCHANGED <<pending, queued>>
        BY <1>9, AfterCloseQuiet DEF CloseReturns, Joins, GoalOK, Closing
  <2>2. QED
        BY <1>9, <2>1, QuietStep DEF CloseReturns, Joins, Quiet
<1>10. CASE Collect
      BY <1>10, QuietStep DEF Collect, Joins, Quiet
<1>11. CASE DoOpen \/ ConnectFails \/ OpenOnPort \/ CreateOnPort \/ EnableNMEA
      BY <1>11, JobStepQuiet DEF DoOpen, ConnectFails, OpenOnPort, CreateOnPort, EnableNMEA,
                                 At, UIUnchanged
<1>12. CASE JobEnds
  <2>1. CASE TestCancelled
        BY <2>1, JobStepQuiet DEF TestCancelled
  <2>2. CASE SendNotification
        BY <2>2 DEF SendNotification, ExchangePending, InjectCall,
                    Announced, NoLostNotification
  <2>3. QED
        BY <1>12, <2>1, <2>2 DEF JobEnds, RunnerStep
<1>13. CASE PortFails
      BY <1>13, QuietStep DEF PortFails, UIUnchanged
<1>14. CASE UNCHANGED vars
      BY <1>14, QuietStep DEF vars
<1>15. QED
      BY <1>1, <1>2, <1>3, <1>4, <1>5, <1>6, <1>7, <1>8, <1>9, <1>10, <1>11, <1>12,
         <1>13, <1>14 DEF Next, Handler, JobStep

(* A notification that is flagged as pending is in the event queue, or on  *)
(* its way there, or being cleared: whatever the job thread does between   *)
(* the steps of ClearNotification(), the flag is never left set for good   *)
(* (it would make SendNotification() drop every later one).                *)
THEOREM NotificationsArrive == Spec => []NoLostNotification
<1>1. Announced => NoLostNotification
      BY DEF Announced
<1>2. QED
      BY <1>1, InitAnnounced, InitGoal, StepAnnounced, StepGoal, PTL DEF Spec

-----------------------------------------------------------------------------
(***************************************************************************)
(* The members of the descriptor.  A device that waits is shut, and a job  *)
(* that has not taken its port over yet has nothing to take over; while    *)
(* the main thread waits for the job thread there is one, and no borrower. *)
(***************************************************************************)
Shut(d) == d.port = "none" /\ ~d.device /\ ~d.has_failed /\ ~d.ticker

MembersOK ==
  /\ dev \in Descriptors
  /\ borrower \in Borrowers
  /\ dev.borrowed <=> borrower # "none"
  /\ borrower = "using" => dev.device
  /\ dev.waiting => dev.timer /\ Shut(dev)

BusyOK ==
  /\ ui # "idle" => IsBusy
  /\ IsBusy => ~dev.borrowed /\ ~dev.waiting
  /\ job \in {"begin", "connecting"} => dev.port = "none" /\ ~dev.device /\ ~dev.ticker

DevOK == MembersOK /\ BusyOK /\ StateAssertionsHold

LEMMA InitDev == Init => DevOK
<1> SUFFICES ASSUME Init PROVE DevOK
    OBVIOUS
<1>1. /\ dev \in Descriptors /\ ~dev.borrowed /\ ~dev.waiting
      /\ borrower = "none" /\ ui = "idle" /\ job = "none" /\ aborted = "none"
      BY DEF Init, AsyncInit, Descriptors, Ports
<1>2. QED
      BY <1>1 DEF DevOK, MembersOK, BusyOK, StateAssertionsHold, IsBusy, Borrowers

(* Closed() makes of any descriptor one that Open() accepts.               *)
LEMMA ClosedIsShut ==
  ASSUME NEW d \in Descriptors
  PROVE  /\ Closed(d) \in Descriptors
         /\ Shut(Closed(d)) /\ ~Closed(d).waiting
         /\ Closed(d).borrowed = d.borrowed
BY DEF Closed, CancelReopen, Descriptors, Shut, Ports

(* Open() on a descriptor that is shut: its assertions hold, and the job   *)
(* finds what OpenOnPort() asserts.                                        *)
LEMMA OpenDev ==
  ASSUME NEW d \in Descriptors, NEW caught, Open(d, caught),
         Shut(d), ~d.borrowed, ~d.waiting, borrower = "none",
         aborted = "none"
  PROVE  DevOK'
<1>1. OpenAborts(d) \in {"none", "open_job"}
      BY DEF OpenAborts, OpenRequires, Shut
<1>2. ui' = "idle" /\ borrower' = "none"
      BY DEF Open
<1>3. \/ dev' = d /\ job' = "none" /\ aborted' \in {"none", "open_job"}
      \/ dev' = [d EXCEPT !.open_job = TRUE] /\ aborted' \in {"none", "terminate"}
      BY <1>1 DEF Open
<1>4. /\ dev' \in Descriptors
      /\ Shut(dev') /\ ~dev'.borrowed /\ ~dev'.waiting
      BY <1>3 DEF Shut, Descriptors
<1>5. aborted' \notin {"Open", "OpenOnPort", "Return"}
      BY <1>3
<1>6. QED
      BY <1>2, <1>4, <1>5
      DEF DevOK, MembersOK, BusyOK, StateAssertionsHold, Borrowers, Shut

LEMMA AfterCloseDev ==
  ASSUME NEW d \in Descriptors, NEW g \in Goals \ {"none"}, AfterClose(d, g),
         Shut(d), ~d.borrowed, ~d.waiting, borrower = "none",
         aborted = "none"
  PROVE  DevOK'
<1>1. CASE g = "reopen"
      BY <1>1, OpenDev DEF AfterClose
<1>2. CASE g = "slow_reopen"
  <2>1. /\ dev' = [d EXCEPT !.waiting = TRUE, !.timer = TRUE]
        /\ job' = "none" /\ ui' = "idle" /\ borrower' = "none" /\ aborted' = "none"
        BY <1>2 DEF AfterClose
  <2>2. /\ dev' \in Descriptors
        /\ Shut(dev') /\ ~dev'.borrowed /\ dev'.timer
        BY <2>1 DEF Shut, Descriptors
  <2>3. QED
        BY <2>1, <2>2 DEF DevOK, MembersOK, BusyOK, StateAssertionsHold, IsBusy, Borrowers
<1>3. CASE g = "restart"
  <2>1. PICK available \in BOOLEAN : Open([d EXCEPT !.available = available], FALSE)
        BY <1>3 DEF AfterClose
  <2> DEFINE e == [d EXCEPT !.available = available]
  <2>2. e \in Descriptors /\ Shut(e) /\ ~e.borrowed /\ ~e.waiting
        BY DEF Shut, Descriptors
  <2> HIDE DEF e
  <2>3. QED
        BY <2>1, <2>2, OpenDev DEF e
<1>4. QED
      BY <1>1, <1>2, <1>3 DEF Goals

(* Close() of a descriptor that nobody has borrowed. *)
LEMMA CloseDev ==
  ASSUME DevOK, aborted = "none", ui = "idle", ~dev.borrowed,
         NEW d \in Descriptors, d = [dev EXCEPT !.available = d.available],
         NEW g \in Goals \ {"none"}, Close(d, g)
  PROVE  DevOK'
<1>1. borrower = "none" /\ ~d.borrowed
      BY DEF DevOK, MembersOK, Descriptors
<1>2. CASE ~IsBusy /\ AfterClose(Closed(d), g)
  <2>1. /\ Closed(d) \in Descriptors
        /\ Shut(Closed(d)) /\ ~Closed(d).waiting /\ ~Closed(d).borrowed
        BY <1>1, ClosedIsShut
  <2>2. QED
        BY <1>1, <1>2, <2>1, AfterCloseDev
<1>3. CASE IsBusy /\ dev' = CancelReopen(d) /\ CancelEnv /\ UNCHANGED <<borrower, aborted>>
  <2>1. /\ dev' \in Descriptors
        /\ ~dev'.borrowed /\ ~dev'.waiting
        /\ dev'.port = dev.port /\ dev'.device = dev.device /\ dev'.ticker = dev.ticker
        BY <1>1, <1>3 DEF CancelReopen, Descriptors, DevOK, MembersOK
  <2>2. job' = job /\ IsBusy' /\ borrower' = "none" /\ aborted' = "none"
        BY <1>1, <1>3 DEF CancelEnv, IsBusy
  <2>3. QED
        BY <2>1, <2>2 DEF DevOK, MembersOK, BusyOK, StateAssertionsHold, Borrowers
<1>4. QED
      BY <1>2, <1>3 DEF Close


(* A step of the main thread that leaves the job thread and aborted alone. *)
LEMMA HandlerDev ==
  ASSUME DevOK, MembersOK', UNCHANGED <<job, ui, aborted>>,
         IsBusy => ~dev'.borrowed /\ ~dev'.waiting
                   /\ dev'.port = dev.port /\ dev'.device = dev.device
                   /\ (dev'.ticker = dev.ticker \/ dev.device)
  PROVE  DevOK'
<1>1. BusyOK'
  <2>1. ui' # "idle" => IsBusy'
        BY DEF DevOK, BusyOK, IsBusy
  <2>2. IsBusy' => ~dev'.borrowed /\ ~dev'.waiting
        BY DEF IsBusy
  <2>3. ASSUME job' \in {"begin", "connecting"}
        PROVE  dev'.port = "none" /\ ~dev'.device /\ ~dev'.ticker
        BY <2>3 DEF DevOK, BusyOK, IsBusy
  <2>4. QED
        BY <2>1, <2>2, <2>3 DEF BusyOK
<1>2. QED
      BY <1>1 DEF DevOK, StateAssertionsHold

LEMMA StepBorrow ==
  ASSUME DevOK, Borrow \/ CloseBorrowed \/ ScheduleReopenBorrowed
  PROVE  DevOK'
<1> USE DEF async, IsBusy, Borrowers
<1>1. CASE Borrow
  <2>1. /\ dev' \in Descriptors
        /\ dev'.borrowed /\ dev'.device /\ ~dev'.waiting /\ borrower' = "using"
        BY <1>1 DEF Borrow, CanBorrow, IsReady, Descriptors, DevOK, MembersOK
  <2>2. job = "none" /\ UNCHANGED <<job, ui, aborted>>
        BY <1>1 DEF Borrow, CanBorrow, IsOccupied
  <2>3. MembersOK'
        BY <2>1 DEF MembersOK
  <2>4. QED
        BY <2>2, <2>3, HandlerDev
<1>2. CASE CloseBorrowed
  <2>1. dev \in Descriptors /\ dev.borrowed
        BY <1>2 DEF CloseBorrowed, DevOK, MembersOK
  <2>2. /\ dev' \in Descriptors
        /\ dev'.borrowed /\ ~dev'.waiting /\ borrower' = "closed"
        BY <1>2, <2>1, ClosedIsShut DEF CloseBorrowed
  <2>3. job = "none" /\ UNCHANGED <<job, ui, aborted>>
        BY <1>2, <2>1 DEF CloseBorrowed, DevOK, BusyOK
  <2>4. MembersOK'
        BY <2>2 DEF MembersOK
  <2>5. QED
        BY <2>3, <2>4, HandlerDev
<1>3. CASE ScheduleReopenBorrowed
  <2>1. dev \in Descriptors /\ dev.borrowed
        BY <1>3 DEF ScheduleReopenBorrowed, DevOK, MembersOK
  <2> DEFINE d == Closed(dev)
  <2>2. d \in Descriptors /\ Shut(d) /\ d.borrowed
        BY <2>1, ClosedIsShut
  <2>3. dev' = [d EXCEPT !.waiting = TRUE, !.timer = TRUE] /\ borrower' = "rescheduled"
        BY <1>3 DEF ScheduleReopenBorrowed
  <2> HIDE DEF d
  <2>4. /\ dev' \in Descriptors
        /\ Shut(dev') /\ dev'.borrowed /\ dev'.timer
        BY <2>2, <2>3 DEF Shut, Descriptors
  <2>5. job = "none" /\ UNCHANGED <<job, ui, aborted>>
        BY <1>3, <2>1 DEF ScheduleReopenBorrowed, DevOK, BusyOK
  <2>6. MembersOK'
        BY <2>3, <2>4 DEF MembersOK
  <2>7. QED
        BY <2>5, <2>6, HandlerDev
<1>4. QED
      BY <1>1, <1>2, <1>3

(* Return() is called with the device still borrowed: no job is running.   *)
LEMMA StepReturn ==
  ASSUME DevOK, Return
  PROVE  DevOK'
<1>1. dev \in Descriptors /\ dev.borrowed /\ job = "none"
      BY DEF Return, DevOK, MembersOK, BusyOK, IsBusy
<1>2. /\ dev' \in Descriptors /\ ~dev'.borrowed /\ borrower' = "none"
      /\ dev'.waiting = dev.waiting /\ dev'.timer = dev.timer
      /\ Shut(dev') <=> Shut(dev)
      BY <1>1 DEF Return, Descriptors, Shut
<1>3. UNCHANGED <<job, ui>> /\ aborted' = "none" /\ aborted = "none"
      BY <1>1 DEF Return, Idle, IsBusy, async
<1>4. MembersOK'
      BY <1>2 DEF MembersOK, DevOK, Borrowers
<1>5. QED
      BY <1>1, <1>3, <1>4, HandlerDev DEF IsBusy

LEMMA StepTicker ==
  ASSUME DevOK, OnSysTicker
  PROVE  DevOK'
<1> DEFINE d == [dev EXCEPT !.has_failed = @ \/ dev.port = "failed"]
<1>1. /\ d \in Descriptors /\ d.borrowed = dev.borrowed /\ d.waiting = dev.waiting
      /\ d.timer = dev.timer /\ d.port = dev.port /\ d.device = dev.device
      /\ d.ticker = dev.ticker /\ (dev.port = "none" => d.has_failed = dev.has_failed)
      BY DEF DevOK, MembersOK, Descriptors
<1>2. UNCHANGED <<job, ui, aborted, borrower>>
      BY DEF OnSysTicker, async
<1>3. CASE d.has_failed /\ ~IsOccupied
  <2>1. dev' = Closed(d)
        BY <1>3 DEF OnSysTicker
  <2> HIDE DEF d
  <2>2. /\ dev' \in Descriptors /\ ~dev'.waiting
        /\ ~dev'.borrowed /\ ~dev.borrowed
        BY <1>1, <1>3, <2>1, ClosedIsShut DEF IsOccupied
  <2>3. borrower = "none"
        BY <2>2 DEF DevOK, MembersOK
  <2>4. MembersOK'
        BY <1>2, <2>2, <2>3 DEF MembersOK, Borrowers
  <2>5. QED
        BY <1>2, <1>3, <2>4, HandlerDev DEF IsOccupied
<1>4. CASE ~(d.has_failed /\ ~IsOccupied)
  <2>1. PICK alive \in BOOLEAN :
          dev' = [d EXCEPT !.ticker = IF d.device /\ (alive \/ d.borrowed) THEN ~@ ELSE @]
        BY <1>4 DEF OnSysTicker
  <2> HIDE DEF d
  <2>2. /\ dev' \in Descriptors /\ dev'.borrowed = dev.borrowed /\ dev'.waiting = dev.waiting
        /\ dev'.timer = dev.timer /\ dev'.port = dev.port /\ dev'.device = dev.device
        /\ dev'.ticker = dev.ticker \/ dev.device
        /\ dev.port = "none" => dev'.has_failed = dev.has_failed
        BY <1>1, <2>1 DEF Descriptors
  <2>3. MembersOK'
        BY <1>2, <2>2 DEF MembersOK, DevOK, Shut
  <2>4. IsBusy => ~dev'.borrowed /\ ~dev'.waiting
        BY <2>2 DEF DevOK, BusyOK
  <2>5. QED
        BY <1>2, <2>2, <2>3, <2>4, HandlerDev
<1>5. QED
      BY <1>3, <1>4

LEMMA StepTimer ==
  ASSUME DevOK, OnReopenTimer
  PROVE  DevOK'
<1>1. CASE ~dev.waiting \/ IsOccupied
  <2> SUFFICES ASSUME UNCHANGED <<async, goal, borrower, aborted>>,
                      dev' = IF dev.waiting THEN Postpone(dev) ELSE [dev EXCEPT !.timer = FALSE]
               PROVE  DevOK'
      BY <1>1 DEF OnReopenTimer
  <2>1. /\ dev' \in Descriptors /\ dev'.borrowed = dev.borrowed /\ dev'.waiting = dev.waiting
        /\ dev'.port = dev.port /\ dev'.device = dev.device /\ dev'.ticker = dev.ticker
        /\ dev'.has_failed = dev.has_failed
        /\ dev.waiting => dev'.timer
        BY DEF Postpone, Descriptors, DevOK, MembersOK
  <2>2. MembersOK'
        BY <2>1 DEF MembersOK, DevOK, Shut
  <2>3. IsBusy => ~dev'.borrowed /\ ~dev'.waiting
        BY <2>1 DEF DevOK, BusyOK
  <2>4. QED
        BY <2>1, <2>2, <2>3, HandlerDev DEF async
<1>2. CASE dev.waiting /\ ~IsOccupied
  <2> DEFINE d == [dev EXCEPT !.waiting = FALSE, !.timer = FALSE]
  <2>1. Open(d, TRUE) /\ aborted = "none"
        BY <1>2 DEF OnReopenTimer, Idle
  <2>2. d \in Descriptors /\ Shut(d) /\ ~d.borrowed /\ ~d.waiting
        BY <1>2 DEF Shut, Descriptors, DevOK, MembersOK, IsOccupied
  <2>3. borrower = "none"
        BY <1>2 DEF DevOK, MembersOK, IsOccupied
  <2> HIDE DEF d
  <2>4. QED
        BY <2>1, <2>2, <2>3, OpenDev
<1>3. QED
      BY <1>1, <1>2


(* The job thread's own steps: OpenOnPort() finds what it asserts.         *)
LEMMA StepJob ==
  ASSUME DevOK, JobStep
  PROVE  DevOK'
<1>0. IsBusy /\ ~dev.borrowed /\ ~dev.waiting /\ dev \in Descriptors
      BY DEF JobStep, DoOpen, ConnectFails, OpenOnPort, CreateOnPort, EnableNMEA, JobEnds,
             RunnerStep, TestCancelled, SendNotification, At, DevOK, MembersOK, BusyOK, IsBusy
<1>1. borrower = "none"
      BY <1>0 DEF DevOK, MembersOK
<1>2. /\ dev' \in Descriptors
      /\ ~dev'.borrowed /\ ~dev'.waiting
  <2>1. CASE UNCHANGED dev
        BY <1>0, <2>1
  <2>2. CASE dev' = [dev EXCEPT !.port = "ready"]
        BY <1>0, <2>2 DEF Descriptors, Ports
  <2>3. CASE dev' = [dev EXCEPT !.port = "none"]
        BY <1>0, <2>3 DEF Descriptors, Ports
  <2>4. CASE \E device \in BOOLEAN : dev' = [dev EXCEPT !.device = device]
        BY <1>0, <2>4 DEF Descriptors
  <2>5. QED
        BY <2>1, <2>2, <2>3, <2>4
        DEF JobStep, DoOpen, ConnectFails, OpenOnPort, CreateOnPort, EnableNMEA, JobEnds
<1>3. MembersOK'
  <2>1. borrower' = "none"
        BY <1>1 DEF JobStep, DoOpen, ConnectFails, OpenOnPort, CreateOnPort, EnableNMEA,
                    JobEnds, UIUnchanged
  <2>2. QED
        BY <1>2, <2>1 DEF MembersOK, Borrowers
<1>4. job' # "none" /\ (job' = "connecting" => job = "begin" /\ UNCHANGED dev) /\ job' # "begin"
  <2>1. CASE DoOpen
        BY <2>1 DEF DoOpen, At
  <2>2. CASE ConnectFails \/ OpenOnPort \/ CreateOnPort \/ EnableNMEA
        BY <2>2 DEF ConnectFails, OpenOnPort, CreateOnPort, EnableNMEA
  <2>3. CASE JobEnds
        BY <2>3 DEF JobEnds, RunnerStep, TestCancelled, SendNotification
  <2>4. QED
        BY <2>1, <2>2, <2>3 DEF JobStep
<1>5. BusyOK'
      BY <1>2, <1>4 DEF BusyOK, DevOK, IsBusy
<1>6. aborted' \notin {"Open", "OpenOnPort", "Return"}
  <2>1. CASE OpenOnPort
        BY <1>0, <2>1 DEF OpenOnPort, At, DevOK, BusyOK
  <2>2. CASE DoOpen
        BY <2>2 DEF DoOpen
  <2>3. CASE ConnectFails \/ CreateOnPort \/ EnableNMEA \/ JobEnds
        BY <2>3 DEF ConnectFails, CreateOnPort, EnableNMEA, JobEnds, At
  <2>4. QED
        BY <2>1, <2>2, <2>3 DEF JobStep
<1>7. QED
      BY <1>3, <1>5, <1>6 DEF DevOK, StateAssertionsHold

(* A port that fails is a member, or a job is connecting.                  *)
LEMMA StepPort ==
  ASSUME DevOK, PortFails
  PROVE  DevOK'
<1>1. dev \in Descriptors /\ ~dev.waiting
      BY DEF PortFails, DevOK, MembersOK, BusyOK, Shut, IsBusy
<1>2. UNCHANGED <<job, ui, aborted, borrower>>
      BY DEF PortFails, UIUnchanged
<1>3. CASE dev.port = "ready"
           /\ \E told \in BOOLEAN :
                dev' = [dev EXCEPT !.port = "failed", !.has_failed = @ \/ told]
  <2>1. /\ dev' \in Descriptors /\ dev'.borrowed = dev.borrowed /\ ~dev'.waiting
        /\ dev'.device = dev.device
        BY <1>1, <1>3 DEF Descriptors, Ports
  <2>2. MembersOK'
        BY <1>2, <2>1 DEF MembersOK, DevOK
  <2>3. BusyOK'
        BY <1>2, <1>3, <2>1 DEF BusyOK, DevOK, IsBusy
  <2>4. QED
        BY <1>2, <2>2, <2>3 DEF DevOK, StateAssertionsHold
<1>4. CASE job = "connecting" /\ dev' = [dev EXCEPT !.has_failed = TRUE]
  <2>1. /\ dev' \in Descriptors /\ dev'.borrowed = dev.borrowed /\ ~dev'.waiting
        /\ dev'.device = dev.device /\ dev'.port = dev.port /\ dev'.ticker = dev.ticker
        BY <1>1, <1>4 DEF Descriptors
  <2>2. MembersOK'
        BY <1>2, <2>1 DEF MembersOK, DevOK
  <2>3. BusyOK'
        BY <1>2, <2>1 DEF BusyOK, DevOK, IsBusy
  <2>4. QED
        BY <1>2, <2>2, <2>3 DEF DevOK, StateAssertionsHold
<1>5. QED
      BY <1>3, <1>4 DEF PortFails

(* The main thread's waits for the job thread. *)
LEMMA StepWaits ==
  ASSUME DevOK, GoalOK, RunNotification \/ Collect \/ CloseCancels \/ CloseReturns
  PROVE  DevOK'
<1>1. CASE RunNotification
  <2>1. UNCHANGED <<job, dev, borrower>> /\ aborted' \in {"none", "OnJobFinished"}
        BY <1>1 DEF RunNotification
  <2>2. ui' # "idle" => IsBusy
        BY <1>1 DEF RunNotification
  <2>3. QED
        BY <2>1, <2>2 DEF DevOK, MembersOK, BusyOK, StateAssertionsHold, IsBusy
<1>2. CASE Collect
  <2>1. /\ dev' = [dev EXCEPT !.open_job = FALSE] /\ job' = "none" /\ ui' = "idle"
        /\ UNCHANGED <<borrower, aborted>> /\ IsBusy
        BY <1>2 DEF Collect, Joins, IsBusy
  <2>2. /\ dev' \in Descriptors /\ dev'.borrowed = dev.borrowed
        /\ dev'.waiting = dev.waiting /\ dev'.device = dev.device
        BY <2>1 DEF DevOK, MembersOK, Descriptors
  <2>3. ~dev.borrowed /\ ~dev.waiting
        BY <2>1 DEF DevOK, BusyOK
  <2>4. QED
        BY <2>1, <2>2, <2>3 DEF DevOK, MembersOK, BusyOK, StateAssertionsHold, IsBusy
<1>3. CASE CloseCancels
      BY <1>3 DEF CloseCancels, ClearNotification, DevOK, MembersOK, BusyOK,
                  StateAssertionsHold, IsBusy
<1>4. CASE CloseReturns
  <2> DEFINE d == [dev EXCEPT !.open_job = FALSE]
  <2>1. AfterClose(Closed(d), goal) /\ aborted = "none" /\ IsBusy
        BY <1>4 DEF CloseReturns, Joins, IsBusy
  <2>2. d \in Descriptors /\ ~d.borrowed /\ borrower = "none"
        BY <2>1 DEF DevOK, MembersOK, BusyOK, Descriptors
  <2>3. goal \in Goals \ {"none"}
        BY <1>4 DEF CloseReturns, Joins, GoalOK, Closing
  <2> HIDE DEF d
  <2>4. /\ Closed(d) \in Descriptors
        /\ Shut(Closed(d)) /\ ~Closed(d).waiting /\ ~Closed(d).borrowed
        BY <2>2, ClosedIsShut
  <2>5. QED
        BY <2>1, <2>2, <2>3, <2>4, AfterCloseDev
<1>5. QED
      BY <1>1, <1>2, <1>3, <1>4

(* The handlers that close the device. *)
LEMMA StepClose ==
  ASSUME DevOK, AutoReopen \/ Reconnect \/ EditCurrent \/ Restart
  PROVE  DevOK'
<1>1. /\ aborted = "none" /\ ui = "idle"
      /\ ~dev.borrowed /\ dev \in Descriptors
      BY DEF AutoReopen, Reconnect, EditCurrent, Restart, Idle, IsOccupied, DevOK, MembersOK
<1>2. PICK g \in Goals \ {"none"}, available \in BOOLEAN :
        Close(dev, g) \/ Close([dev EXCEPT !.available = available], g)
      BY DEF AutoReopen, Reconnect, EditCurrent, Restart, Goals
<1>3. CASE Close(dev, g)
  <2>1. dev = [dev EXCEPT !.available = dev.available]
        BY <1>1 DEF Descriptors
  <2>2. QED
        BY <1>1, <1>3, <2>1, CloseDev
<1>4. CASE Close([dev EXCEPT !.available = available], g)
  <2> DEFINE d == [dev EXCEPT !.available = available]
  <2>1. d \in Descriptors /\ d = [dev EXCEPT !.available = d.available]
        BY <1>1 DEF Descriptors
  <2> HIDE DEF d
  <2>2. Close(d, g)
        BY <1>4 DEF d
  <2>3. QED
        BY <1>1, <2>1, <2>2, CloseDev
<1>5. QED
      BY <1>2, <1>3, <1>4

LEMMA StepDev == DevOK /\ GoalOK /\ [Next]_vars => DevOK'
<1> SUFFICES ASSUME DevOK, GoalOK, [Next]_vars PROVE DevOK'
    OBVIOUS
<1>1. CASE UNCHANGED vars
      BY <1>1 DEF vars, DevOK, MembersOK, BusyOK, StateAssertionsHold, IsBusy
<1>2. QED
      BY <1>1, StepBorrow, StepReturn, StepTicker, StepTimer, StepJob, StepPort, StepWaits,
         StepClose
      DEF Next, Handler

-----------------------------------------------------------------------------
(* Whoever has borrowed the device has it alone: no job runs, and neither  *)
(* the ticker, the timer nor AutoReopen() deletes the driver it talks to.  *)
THEOREM BorrowersAreAlone == Spec => []BorrowIsExclusive
<1>1. DevOK => BorrowIsExclusive
      BY DEF DevOK, MembersOK, BusyOK, BorrowIsExclusive
<1>2. QED
      BY <1>1, InitDev, InitGoal, StepDev, StepGoal, PTL DEF Spec

(* The assertions of Open(), OpenOnPort() and Return() about the state of  *)
(* the descriptor hold in every order of handlers, timers and job steps.   *)
THEOREM StateIsAsAsserted == Spec => []StateAssertionsHold
<1>1. DevOK => StateAssertionsHold
      BY DEF DevOK
<1>2. QED
      BY <1>1, InitDev, InitGoal, StepDev, StepGoal, PTL DEF Spec

(* A device that waits for SlowReopen() is shut and its timer is running.  *)
THEOREM WaitersAreArmed == Spec => []WaitingIsArmed
<1>1. DevOK => WaitingIsArmed
      BY DEF DevOK, MembersOK, BusyOK, Shut, WaitingIsArmed
<1>2. QED
      BY <1>1, InitDev, InitGoal, StepDev, StepGoal, PTL DEF Spec

-----------------------------------------------------------------------------
(***************************************************************************)
(* The runner.  A job thread sends once at most, so that a call left over  *)
(* from a job that was cancelled and one more are all there can be in the  *)
(* queue; and a job that was not cancelled cannot end without the flag.    *)
(***************************************************************************)
PlacesOK ==
  /\ job \in JobPlaces
  /\ cancelled \in BOOLEAN
  /\ pending \in BOOLEAN
  /\ ui \in UIPlaces
  /\ aborted \in Aborts

QueueOK ==
  /\ queued \in {0, 1, 2}
  /\ ~pending => queued # 2
  /\ job = "inject" => queued # 2 /\ (~pending => queued = 0)
  /\ ui = "clearing" => queued # 2 /\ (job # "exit" => queued = 0)

EndOK ==
  /\ IsBusy => dev.open_job
  /\ ui = "idle" /\ IsBusy => ~cancelled
  /\ ui = "idle" /\ job \in {"inject", "exit"} => pending

RunnerOK == PlacesOK /\ QueueOK /\ EndOK

LEMMA InitRunner == Init => RunnerOK
<1> SUFFICES ASSUME Init PROVE RunnerOK
    OBVIOUS
<1>1. job = "none" /\ ~cancelled /\ ~pending /\ queued = 0 /\ ui = "idle" /\ aborted = "none"
      BY DEF Init, AsyncInit, NotifyInit
<1>2. cancelled \in BOOLEAN /\ pending \in BOOLEAN
      BY DEF Init, AsyncInit, NotifyInit
<1>3. PlacesOK
      BY <1>1, <1>2 DEF PlacesOK, JobPlaces, RunnerPlaces, UIPlaces, Aborts
<1>4. QED
      BY <1>1, <1>3 DEF RunnerOK, QueueOK, EndOK, IsBusy

LEMMA OpenRunner ==
  ASSUME RunnerOK, NEW d \in Descriptors, NEW caught, Open(d, caught)
  PROVE  RunnerOK'
<1>1. ui' = "idle" /\ UNCHANGED <<pending, queued>>
      BY DEF Open
<1>2. \/ job' = "none" /\ UNCHANGED cancelled
      \/ job' = "begin" /\ cancelled' = FALSE /\ dev' = [d EXCEPT !.open_job = TRUE]
      BY DEF Open
<1>3. aborted' \in Aborts
      BY DEF Open, OpenAborts, RunnerOK, PlacesOK, Aborts
<1>4. PlacesOK'
      BY <1>1, <1>2, <1>3 DEF RunnerOK, PlacesOK, JobPlaces, RunnerPlaces, UIPlaces
<1>5. QueueOK'
      BY <1>1, <1>2 DEF RunnerOK, QueueOK
<1>6. job' = "begin" => dev'.open_job
      BY <1>2 DEF Descriptors
<1>7. EndOK'
      BY <1>1, <1>2, <1>6 DEF EndOK, IsBusy
<1>8. QED
      BY <1>4, <1>5, <1>7 DEF RunnerOK

LEMMA AfterCloseRunner ==
  ASSUME RunnerOK, NEW d \in Descriptors, NEW g \in Goals \ {"none"}, AfterClose(d, g)
  PROVE  RunnerOK'
<1>1. CASE g = "reopen"
      BY <1>1, OpenRunner DEF AfterClose
<1>2. CASE g = "slow_reopen"
  <2>1. job' = "none" /\ ui' = "idle" /\ UNCHANGED <<cancelled, pending, queued, aborted>>
        BY <1>2 DEF AfterClose
  <2>2. QED
        BY <2>1 DEF RunnerOK, PlacesOK, QueueOK, EndOK, IsBusy, JobPlaces, RunnerPlaces, UIPlaces
<1>3. CASE g = "restart"
  <2>1. PICK available \in BOOLEAN : Open([d EXCEPT !.available = available], FALSE)
        BY <1>3 DEF AfterClose
  <2>2. [d EXCEPT !.available = available] \in Descriptors
        BY DEF Descriptors
  <2>3. QED
        BY <2>1, <2>2, OpenRunner
<1>4. QED
      BY <1>1, <1>2, <1>3 DEF Goals

LEMMA CloseRunner ==
  ASSUME RunnerOK, ui = "idle",
         NEW d \in Descriptors, d.open_job = dev.open_job,
         NEW g \in Goals \ {"none"}, Close(d, g)
  PROVE  RunnerOK'
<1>1. CASE ~IsBusy /\ AfterClose(Closed(d), g)
      BY <1>1, ClosedIsShut, AfterCloseRunner
<1>2. CASE IsBusy /\ dev' = CancelReopen(d) /\ CancelEnv /\ UNCHANGED aborted
  <2>1. /\ cancelled' = TRUE /\ ui' = "purging"
        /\ UNCHANGED <<job, pending, queued, aborted>>
        BY <1>2 DEF CancelEnv
  <2>2. dev'.open_job
        BY <1>2 DEF CancelReopen, Descriptors, RunnerOK, EndOK
  <2>3. PlacesOK'
        BY <2>1 DEF RunnerOK, PlacesOK, UIPlaces
  <2>4. QueueOK'
        BY <2>1 DEF RunnerOK, QueueOK
  <2>5. QED
        BY <2>1, <2>2, <2>3, <2>4 DEF RunnerOK, EndOK
<1>3. QED
      BY <1>1, <1>2 DEF Close

(* A step of the main thread that leaves the runner alone. *)
LEMMA HandlerRunner ==
  ASSUME RunnerOK, UNCHANGED <<job, cancelled, pending, queued, ui>>,
         aborted' \in Aborts, dev'.open_job = dev.open_job
  PROVE  RunnerOK'
BY DEF RunnerOK, PlacesOK, QueueOK, EndOK, IsBusy

LEMMA HandlersRunner ==
  ASSUME RunnerOK, DevOK, Handler
  PROVE  RunnerOK'
<1>0. dev \in Descriptors /\ aborted \in Aborts /\ {"none", "Return", "OnJobFinished"} \subseteq Aborts
      BY DEF DevOK, MembersOK, RunnerOK, PlacesOK, Aborts
<1>1. CASE RunNotification
  <2>1. UNCHANGED <<job, cancelled, dev>> /\ pending' = FALSE /\ ui = "idle"
        BY <1>1 DEF RunNotification, PopCall, Idle
  <2>2. queued' = queued - 1 /\ queued \in {1, 2}
        BY <1>1 DEF RunNotification, PopCall, RunnerOK, QueueOK
  <2>3. queued' \in {0, 1} /\ (queued = 1 => queued' = 0)
        BY <2>2
  <2>4. ui' = IF pending /\ dev.open_job /\ IsBusy THEN "collecting" ELSE "idle"
        BY <1>1 DEF RunNotification, Delivers
  <2>5. PlacesOK'
        BY <1>0, <1>1, <2>1, <2>4 DEF RunnerOK, PlacesOK, RunNotification, UIPlaces
  <2>6. QueueOK'
        BY <2>1, <2>2, <2>3, <2>4 DEF RunnerOK, QueueOK
  <2>7. EndOK'
        BY <2>1, <2>4 DEF RunnerOK, EndOK, IsBusy
  <2>8. QED
        BY <2>5, <2>6, <2>7 DEF RunnerOK
<1>2. CASE OnReopenTimer
  <2>1. CASE UNCHANGED <<async, aborted>>
             /\ dev' = IF dev.waiting THEN Postpone(dev) ELSE [dev EXCEPT !.timer = FALSE]
    <3>1. dev'.open_job = dev.open_job
          BY <1>0, <2>1 DEF Postpone, Descriptors
    <3>2. QED
          BY <1>0, <2>1, <3>1, HandlerRunner DEF async
  <2>2. CASE Open([dev EXCEPT !.waiting = FALSE, !.timer = FALSE], TRUE)
    <3>1. [dev EXCEPT !.waiting = FALSE, !.timer = FALSE] \in Descriptors
          BY <1>0 DEF Descriptors
    <3>2. QED
          BY <2>2, <3>1, OpenRunner
  <2>3. QED
        BY <1>2, <2>1, <2>2 DEF OnReopenTimer
<1>3. CASE OnSysTicker
  <2> DEFINE d == [dev EXCEPT !.has_failed = @ \/ dev.port = "failed"]
  <2>1. d \in Descriptors /\ d.open_job = dev.open_job
        BY <1>0 DEF Descriptors
  <2>2. dev' = Closed(d)
        \/ \E alive \in BOOLEAN :
             dev' = [d EXCEPT !.ticker = IF d.device /\ (alive \/ d.borrowed) THEN ~@ ELSE @]
        BY <1>3 DEF OnSysTicker
  <2> HIDE DEF d
  <2>3. dev'.open_job = dev.open_job
        BY <2>1, <2>2 DEF Closed, CancelReopen, Descriptors
  <2>4. QED
        BY <1>0, <1>3, <2>3, HandlerRunner DEF OnSysTicker, async
<1>4. CASE AutoReopen \/ Reconnect \/ EditCurrent \/ Restart
  <2>1. PICK g \in Goals \ {"none"}, available \in BOOLEAN :
          Close(dev, g) \/ Close([dev EXCEPT !.available = available], g)
        BY <1>4 DEF AutoReopen, Reconnect, EditCurrent, Restart, Goals
  <2>2. ui = "idle"
        BY <1>4 DEF AutoReopen, Reconnect, EditCurrent, Restart, Idle
  <2>3. /\ [dev EXCEPT !.available = available] \in Descriptors
        /\ [dev EXCEPT !.available = available].open_job = dev.open_job
        BY <1>0 DEF Descriptors
  <2>4. QED
        BY <1>0, <2>1, <2>2, <2>3, CloseRunner
<1>5. CASE Borrow \/ CloseBorrowed \/ ScheduleReopenBorrowed \/ Return
  <2>1. dev'.open_job = dev.open_job
        BY <1>0, <1>5 DEF Borrow, CloseBorrowed, ScheduleReopenBorrowed, Return, Closed,
                          CancelReopen, Descriptors
  <2>2. UNCHANGED async /\ aborted' \in Aborts
        BY <1>0, <1>5 DEF Borrow, CloseBorrowed, ScheduleReopenBorrowed, Return
  <2>3. QED
        BY <2>1, <2>2, HandlerRunner DEF async
<1>6. QED
      BY <1>1, <1>2, <1>3, <1>4, <1>5 DEF Handler

LEMMA JobRunner ==
  ASSUME RunnerOK, DevOK, JobStep \/ PortFails
  PROVE  RunnerOK'
<1>1. CASE PortFails \/ DoOpen \/ ConnectFails \/ OpenOnPort \/ CreateOnPort \/ EnableNMEA
  <2>1. UNCHANGED <<cancelled, pending, queued, ui>>
        BY <1>1 DEF PortFails, DoOpen, ConnectFails, OpenOnPort, CreateOnPort, EnableNMEA,
                    UIUnchanged
  <2>2. \/ job' = job
        \/ /\ job' \in {"connecting", "creating", "enabling", "ran"}
           /\ job \in {"begin", "connecting", "creating", "enabling"}
        BY <1>1 DEF PortFails, DoOpen, ConnectFails, OpenOnPort, CreateOnPort, EnableNMEA, At
  <2>3. aborted' \in Aborts
        BY <1>1 DEF PortFails, DoOpen, ConnectFails, OpenOnPort, CreateOnPort, EnableNMEA,
                    RunnerOK, PlacesOK, Aborts
  <2>4. dev'.open_job = dev.open_job
    <3>1. dev \in Descriptors
          BY DEF DevOK, MembersOK
    <3>2. QED
          BY <1>1, <3>1 DEF PortFails, DoOpen, ConnectFails, OpenOnPort, CreateOnPort,
                            EnableNMEA, Descriptors
  <2>5. QED
        BY <2>1, <2>2, <2>3, <2>4
        DEF RunnerOK, PlacesOK, QueueOK, EndOK, IsBusy, JobPlaces, RunnerPlaces
<1>2. CASE JobEnds
  <2>1. UNCHANGED <<dev, aborted, cancelled, ui>>
        BY <1>2 DEF JobEnds, RunnerStep, TestCancelled, SendNotification
  <2>2. CASE TestCancelled
    <3>1. job = "ran" /\ UNCHANGED <<pending, queued>>
          BY <2>2 DEF TestCancelled
    <3>2. job' = IF cancelled THEN "exit" ELSE "notify"
          BY <2>2 DEF TestCancelled
    <3>3. QED
          BY <2>1, <3>1, <3>2
          DEF RunnerOK, PlacesOK, QueueOK, EndOK, IsBusy, JobPlaces, RunnerPlaces
  <2>3. CASE job = "notify" /\ ExchangePending /\ job' = IF pending THEN "exit" ELSE "inject"
    <3>1. pending' = TRUE /\ queued' = queued
          BY <2>3 DEF ExchangePending
    <3>2. PlacesOK'
          BY <2>1, <2>3, <3>1 DEF RunnerOK, PlacesOK, JobPlaces, RunnerPlaces
    <3>3. QueueOK'
          BY <2>1, <2>3, <3>1 DEF RunnerOK, QueueOK
    <3>4. EndOK'
          BY <2>1, <2>3, <3>1 DEF RunnerOK, EndOK, IsBusy
    <3>5. QED
          BY <3>2, <3>3, <3>4 DEF RunnerOK
  <2>4. CASE job = "inject" /\ InjectCall /\ job' = "exit"
    <3>1. pending' = pending /\ queued' = queued + 1
          BY <2>4 DEF InjectCall
    <3>2. queued \in {0, 1} /\ (~pending \/ ui = "clearing" => queued = 0)
          BY <2>4 DEF RunnerOK, QueueOK
    <3>3. queued' \in {1, 2} /\ (queued = 0 => queued' = 1)
          BY <3>1, <3>2
    <3>4. PlacesOK'
          BY <2>1, <2>4, <3>1 DEF RunnerOK, PlacesOK, JobPlaces, RunnerPlaces
    <3>5. QueueOK'
          BY <2>1, <2>4, <3>1, <3>2, <3>3 DEF QueueOK
    <3>6. EndOK'
          BY <2>1, <2>4, <3>1 DEF RunnerOK, EndOK, IsBusy
    <3>7. QED
          BY <3>4, <3>5, <3>6 DEF RunnerOK
  <2>5. QED
        BY <1>2, <2>2, <2>3, <2>4 DEF JobEnds, RunnerStep, SendNotification
<1>3. QED
      BY <1>1, <1>2 DEF JobStep

LEMMA WaitsRunner ==
  ASSUME RunnerOK, DevOK, GoalOK, Collect \/ CloseCancels \/ CloseReturns
  PROVE  RunnerOK'
<1>0. dev \in Descriptors
      BY DEF DevOK, MembersOK
<1>1. CASE Collect
  <2>1. job' = "none" /\ ui' = "idle" /\ UNCHANGED <<cancelled, pending, queued, aborted>>
        BY <1>1 DEF Collect
  <2>2. QED
        BY <2>1 DEF RunnerOK, PlacesOK, QueueOK, EndOK, IsBusy, JobPlaces, RunnerPlaces, UIPlaces
<1>2. CASE CloseCancels
  <2>1. UNCHANGED <<job, cancelled, dev, aborted>>
        BY <1>2 DEF CloseCancels, ClearNotification
  <2>2. \/ queued' = 0 /\ pending' = pending /\ ui' = "clearing"
        \/ ui = "clearing" /\ pending' = FALSE /\ queued' = queued /\ ui' = "joining"
        BY <1>2 DEF CloseCancels, ClearNotification, PurgeCalls, ResetPending
  <2>3. PlacesOK'
        BY <2>1, <2>2 DEF RunnerOK, PlacesOK, UIPlaces
  <2>4. QueueOK'
        BY <2>1, <2>2 DEF RunnerOK, QueueOK
  <2>5. EndOK'
        BY <2>1, <2>2 DEF RunnerOK, EndOK, IsBusy
  <2>6. QED
        BY <2>3, <2>4, <2>5 DEF RunnerOK
<1>3. CASE CloseReturns
  <2> DEFINE d == [dev EXCEPT !.open_job = FALSE]
  <2>1. AfterClose(Closed(d), goal) /\ goal \in Goals \ {"none"}
        BY <1>3 DEF CloseReturns, Joins, GoalOK, Closing
  <2>2. d \in Descriptors
        BY <1>0 DEF Descriptors
  <2> HIDE DEF d
  <2>3. QED
        BY <2>1, <2>2, ClosedIsShut, AfterCloseRunner
<1>4. QED
      BY <1>1, <1>2, <1>3

LEMMA StepRunner == RunnerOK /\ DevOK /\ GoalOK /\ [Next]_vars => RunnerOK'
<1> SUFFICES ASSUME RunnerOK, DevOK, GoalOK, [Next]_vars PROVE RunnerOK'
    OBVIOUS
<1>1. CASE UNCHANGED vars
      BY <1>1 DEF vars, RunnerOK, PlacesOK, QueueOK, EndOK, IsBusy
<1>2. QED
      BY <1>1, HandlersRunner, JobRunner, WaitsRunner DEF Next

(* The members, the places and the goal are what they should be; no more   *)
(* than two calls of the Notify are ever in the event queue, one of them   *)
(* left over from a job that was cancelled too late.                       *)
THEOREM TypeCorrect == Spec => []TypeOK
<1>1. RunnerOK /\ DevOK /\ GoalOK => TypeOK
  <2> SUFFICES ASSUME RunnerOK, DevOK, GoalOK PROVE TypeOK
      OBVIOUS
  <2>1. queued \in 0..2
        BY DEF RunnerOK, QueueOK
  <2>2. QED
        BY <2>1 DEF RunnerOK, PlacesOK, DevOK, MembersOK, GoalOK, TypeOK, AsyncTypeOK,
                    NotifyTypeOK
<1>2. QED
      BY <1>1, InitRunner, InitDev, InitGoal, StepRunner, StepDev, StepGoal, PTL DEF Spec

(* A job that has ended while the main thread goes about its business is   *)
(* going to be collected: a call is queued, it will not be dropped, and    *)
(* OnJobFinished() finds the job it is told of.  Calls left over from      *)
(* cancelled jobs, which make later ones leave early, do not change that.  *)
EndIsAnnounced == ui = "idle" /\ job = "exit" => queued > 0 /\ pending /\ dev.open_job

THEOREM EndsAreAnnounced == Spec => []EndIsAnnounced
<1>1. Announced /\ RunnerOK => EndIsAnnounced
      BY DEF Announced, NoLostNotification, RunnerOK, EndOK, IsBusy, EndIsAnnounced
<1>2. QED
      BY <1>1, InitAnnounced, InitRunner, InitDev, InitGoal, StepAnnounced, StepRunner, StepDev,
         StepGoal, PTL DEF Spec
=============================================================================
