----------------------------- MODULE Protection -----------------------------
(***************************************************************************)
(* src/src/Protection.cpp: the UI thread suspends the draw thread and the  *)
(* calculation thread before it writes to the data they read unprotected   *)
(* (waypoints, airspaces, terrain, tasks), and resumes them afterwards.    *)
(* The module composes DrawThread.tla and WorkerThread.tla with the UI     *)
(* thread's program: startup, the settings dialog, widgets that hide the   *)
(* map, ScopeSuspendAllThreads and shutdown.                               *)
(***************************************************************************)
EXTENDS Naturals

CONSTANTS
  MaxDepth,  \* bound of the ScopeSuspendAllThreads open at one time
  MaxDialog  \* bound of the SettingsEnter() calls not yet followed by their end

ASSUME ProtectionAssumption == MaxDepth \in Nat \ {0} /\ MaxDialog \in Nat

VARIABLES
  d_stop, d_suspend, d_suspended, d_pc, d_site, d_notified, d_client,
  d_pending, d_count,
  c_stop, c_suspend, c_suspended, c_pc, c_site, c_notified, c_client,
  c_trigger,
  ui,             \* where the UI thread is
  depth,          \* ScopeSuspendAllThreads that are open
  dialogs,        \* SettingsEnter() calls that hold the draw thread
  started,        \* FinishStartup() let the draw thread go
  draw_suspended  \* MainWindow::draw_suspended, a widget hides the map

drawVars == <<d_stop, d_suspend, d_suspended, d_pc, d_site, d_notified, d_client,
              d_pending, d_count>>
calcVars == <<c_stop, c_suspend, c_suspended, c_pc, c_site, c_notified, c_client,
              c_trigger>>
scopes == <<depth, dialogs, started, draw_suspended>>
vars == <<drawVars, calcVars, ui, scopes>>

Draw == INSTANCE DrawThread WITH
  stop_received <- d_stop, suspend_received <- d_suspend, suspended <- d_suspended,
  pc <- d_pc, site <- d_site, notified <- d_notified, client <- d_client,
  pending <- d_pending, suspend_count <- d_count,
  MaxSuspend <- MaxDepth + MaxDialog + 2

(* The parameters CalculationThread passes to WorkerThread; a replay on a  *)
(* fast host drops the period, never the delay or the idle time.           *)
Calc == INSTANCE WorkerThread WITH
  stop_received <- c_stop, suspend_received <- c_suspend, suspended <- c_suspended,
  pc <- c_pc, site <- c_site, notified <- c_notified, client <- c_client,
  trigger_flag <- c_trigger, DelayChoices <- {TRUE}, IdleChoices <- {TRUE}

UIPlaces == {"boot", "booted", "run", "dialog", "suspend_draw",
             "suspend_calc", "resume_draw", "stop_calc", "join_calc",
             "join_draw", "down"}

TypeOK ==
  /\ Draw!TypeOK
  /\ Calc!TypeOK
  /\ ui \in UIPlaces
  /\ depth \in 0..MaxDepth
  /\ dialogs \in 0..MaxDialog
  /\ started \in BOOLEAN
  /\ draw_suspended \in BOOLEAN

Init ==
  /\ Draw!Init
  /\ Calc!Init
  /\ ui = "boot"
  /\ depth = 0 /\ dialogs = 0
  /\ started = FALSE /\ draw_suspended = FALSE

-----------------------------------------------------------------------------
Go(from, to) == ui = from /\ ui' = to

(* Startup(): the draw thread is started suspended, the calculation thread *)
(* before AfterStartup() suspends it, and FinishStartup() lets the draw    *)
(* thread go.                                                              *)
StartDrawThread ==
  Go("boot", "booted") /\ Draw!StartDraw(TRUE) /\ UNCHANGED <<calcVars, scopes>>

StartCalculationThread ==
  Go("booted", "run") /\ Calc!StartWorker(FALSE) /\ UNCHANGED <<drawVars, scopes>>

FinishStartup ==
  /\ ui = "run" /\ ~started /\ depth = 0
  /\ Draw!ResumeDraw
  /\ started' = TRUE
  /\ UNCHANGED <<calcVars, ui, depth, dialogs, draw_suspended>>

(* SuspendAllThreads(): two calls that wait, the draw thread first. *)
SuspendAllThreads ==
  /\ depth < MaxDepth
  /\ Go("run", "suspend_draw")
  /\ Draw!SuspendDraw
  /\ UNCHANGED <<calcVars, scopes>>

(* Seeded fault: SuspendAllThreads() asks the calculation thread to pause  *)
(* without waiting for it, as it does with a widget and the draw thread.   *)
SuspendCalculation_Async ==
  /\ ui = "suspend_draw" /\ ui' = "run"
  /\ d_client = "held"
  /\ Calc!BeginSuspendWorker
  /\ depth' = depth + 1
  /\ UNCHANGED <<drawVars, dialogs, started, draw_suspended>>

SuspendCalculation ==
  /\ Go("suspend_draw", "suspend_calc")
  /\ d_client = "held"
  /\ Calc!SuspendWorker
  /\ UNCHANGED <<drawVars, scopes>>

AllSuspended ==
  /\ Go("suspend_calc", "run")
  /\ c_client = "held"
  /\ depth' = depth + 1
  /\ UNCHANGED <<drawVars, calcVars, dialogs, started, draw_suspended>>

ResumeAllThreads ==
  /\ depth > 0
  /\ Go("run", "resume_draw")
  /\ Calc!ResumeWorker
  /\ depth' = depth - 1
  /\ UNCHANGED <<drawVars, dialogs, started, draw_suspended>>

ResumeDrawing ==
  Go("resume_draw", "run") /\ Draw!ResumeDraw /\ UNCHANGED <<calcVars, scopes>>

(* SettingsEnter() suspends the draw thread alone and SettingsLeave()      *)
(* resumes it, after its own SuspendAllThreads().                          *)
SettingsEnter ==
  /\ started /\ dialogs < MaxDialog
  /\ Go("run", "dialog")
  /\ Draw!SuspendDraw
  /\ UNCHANGED <<calcVars, scopes>>

SettingsEntered ==
  /\ Go("dialog", "run")
  /\ d_client = "held"
  /\ dialogs' = dialogs + 1
  /\ UNCHANGED <<drawVars, calcVars, depth, started, draw_suspended>>

SettingsLeft ==
  /\ dialogs > 0
  /\ Go("run", "run")
  /\ Draw!ResumeDraw
  /\ dialogs' = dialogs - 1
  /\ UNCHANGED <<calcVars, depth, started, draw_suspended>>

(* MainWindow::SetWidget() and ActivateMap(): draw_suspended keeps the two *)
(* balanced.                                                               *)
ShowWidget ==
  /\ ui = "run" /\ ~draw_suspended
  /\ Draw!BeginSuspendDraw
  /\ draw_suspended' = TRUE
  /\ UNCHANGED <<calcVars, ui, depth, dialogs, started>>

(* Seeded fault: the flag is not looked at. *)
ShowMap_Unbalanced ==
  /\ ui = "run"
  /\ Draw!ResumeDraw
  /\ draw_suspended' = FALSE
  /\ UNCHANGED <<calcVars, ui, depth, dialogs, started>>

ShowMap ==
  /\ ui = "run" /\ draw_suspended
  /\ Draw!ResumeDraw
  /\ draw_suspended' = FALSE
  /\ UNCHANGED <<calcVars, ui, depth, dialogs, started>>

Redraw == ui = "run" /\ Draw!TriggerRedraw /\ UNCHANGED <<calcVars, ui, scopes>>

(* The waits inside the two Suspend() calls. *)
UIWaits ==
  \/ (Draw!WaitUntilSuspendedDraw \/ Draw!ClientWakesDraw) /\ UNCHANGED <<calcVars, ui, scopes>>
  \/ Calc!ClientWakesWorker /\ UNCHANGED <<drawVars, ui, scopes>>

(* Shutdown(), with no scope open. *)
Shutdown ==
  /\ started /\ depth = 0 /\ dialogs = 0
  /\ Go("run", "stop_calc")
  /\ Draw!BeginStopDraw
  /\ UNCHANGED <<calcVars, scopes>>

StopCalculation ==
  Go("stop_calc", "join_calc") /\ Calc!BeginStopWorker /\ UNCHANGED <<drawVars, scopes>>

JoinCalculation ==
  Go("join_calc", "join_draw") /\ Calc!JoinWorker /\ UNCHANGED <<drawVars, scopes>>

JoinDrawing ==
  Go("join_draw", "down") /\ Draw!JoinDraw /\ UNCHANGED <<calcVars, scopes>>

(* What the UI thread does without being asked by the user. *)
UIGoesOn ==
  \/ StartDrawThread \/ StartCalculationThread
  \/ UIWaits
  \/ SuspendCalculation \/ AllSuspended \/ ResumeDrawing \/ SettingsEntered
  \/ StopCalculation \/ JoinCalculation \/ JoinDrawing

UserActs ==
  \/ FinishStartup \/ SuspendAllThreads \/ ResumeAllThreads \/ SettingsEnter \/ SettingsLeft
  \/ ShowWidget \/ ShowMap \/ Redraw \/ Shutdown

DrawRuns == (Draw!Drawer \/ Draw!Spurious) /\ UNCHANGED <<calcVars, ui, scopes>>
CalcRuns == (Calc!Worker \/ Calc!Spurious) /\ UNCHANGED <<drawVars, ui, scopes>>

(* MergeThread triggers a calculation until it is joined, before the       *)
(* calculation thread is.                                                  *)
TriggerGPSUpdate == Calc!Trigger /\ UNCHANGED <<drawVars, ui, scopes>>

Next == UIGoesOn \/ UserActs \/ DrawRuns \/ CalcRuns \/ TriggerGPSUpdate

(* The threads run as in the modules they come from.  The UI thread gets   *)
(* the mutex of a thread that takes it again and again: each turn of Run() *)
(* releases it for the length of a Tick(), an idle time or a picture, so   *)
(* fairness is strong.  Opening scopes is up to the user.                  *)
Fairness ==
  /\ SF_vars(UIGoesOn)
  /\ WF_vars(Draw!Drawer /\ UNCHANGED <<calcVars, ui, scopes>>)
  /\ WF_vars(Calc!Worker /\ UNCHANGED <<drawVars, ui, scopes>>)

Spec == Init /\ [][Next]_vars
FairSpec == Spec /\ Fairness

-----------------------------------------------------------------------------
(* While a ScopeSuspendAllThreads is open, neither thread is in its        *)
(* unprotected part: the code in the scope has the shared data to itself.  *)
DataIsOurs == depth > 0 => c_pc # "tick" /\ d_pc # "draw"

(* The same of the innermost scope the bound allows: it was entered last,   *)
(* no scope inside it has been left, and both threads are held.            *)
InnermostIsOurs == depth = MaxDepth => c_pc # "tick" /\ d_pc # "draw"

(* The draw thread alone, which is also held by the settings dialog,       *)
(* whatever the nesting.                                                   *)
DrawingIsHeld == depth + dialogs > 0 => d_pc # "draw"

(* The draw thread's count of suspensions is the number of scopes, dialogs *)
(* and hiding widgets, and one more until startup is over: it is never     *)
(* resumed early, or left suspended.                                       *)
CountIsBalanced ==
  ui = "run" =>
    d_count = depth + dialogs + (IF draw_suspended THEN 1 ELSE 0)
                              + (IF started THEN 0 ELSE 1)

(* Opening a scope never hangs the UI thread, and neither does shutdown:   *)
(* it is never left waiting for a thread that waits for it.                *)
UIReturns == ui # "run" ~> ui \in {"run", "down"}

=============================================================================
