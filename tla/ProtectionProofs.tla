-------------------------- MODULE ProtectionProofs --------------------------
(***************************************************************************)
(* Theorems about Protection.tla for every depth of scopes and dialogs.    *)
(*                                                                         *)
(* The UI thread of Protection is one of the clients that DrawThread and   *)
(* WorkerThread allow, so what is proved about either thread holds here:   *)
(* SameDraw and SameCalc bring in the invariants of DrawThreadProofs and   *)
(* WorkerThreadProofs.  What they cannot know is who suspended the thread  *)
(* and how often: that is Balanced.  What DrawCalled and CalcCalled add,   *)
(* in which call the UI thread is, makes the composition an implementation *)
(* of both threads' specifications.                                        *)
(***************************************************************************)
EXTENDS Protection, TLAPS

DrawProofs == INSTANCE DrawThreadProofs WITH
  stop_received <- d_stop, suspend_received <- d_suspend, suspended <- d_suspended,
  pc <- d_pc, site <- d_site, notified <- d_notified, client <- d_client,
  pending <- d_pending, suspend_count <- d_count,
  MaxSuspend <- MaxDepth + MaxDialog + 2

CalcProofs == INSTANCE WorkerThreadProofs WITH
  stop_received <- c_stop, suspend_received <- c_suspend, suspended <- c_suspended,
  pc <- c_pc, site <- c_site, notified <- c_notified, client <- c_client,
  trigger_flag <- c_trigger, DelayChoices <- {TRUE}, IdleChoices <- {TRUE}

(***************************************************************************)
(* The inductive invariant.  Balanced is CountIsBalanced at every place of *)
(* the UI thread: inside SuspendAllThreads(), SettingsEnter() and          *)
(* ResumeAllThreads() one suspension is counted that is no scope yet, or   *)
(* no longer.  Because of it, a Resume() inside a scope is never the       *)
(* outermost one, and the draw thread stays where the first Suspend()      *)
(* found it.                                                               *)
(***************************************************************************)
One(holds) == IF holds THEN 1 ELSE 0

Between == {"suspend_draw", "suspend_calc", "dialog", "resume_draw"}
Ending == {"stop_calc", "join_calc", "join_draw", "down"}

ScopesOK ==
  /\ ui \in UIPlaces
  /\ depth \in 0..MaxDepth
  /\ dialogs \in 0..MaxDialog
  /\ started \in BOOLEAN
  /\ draw_suspended \in BOOLEAN
  /\ ui \in {"suspend_draw", "suspend_calc"} => depth < MaxDepth
  /\ ui = "dialog" => dialogs < MaxDialog
  /\ ui \in {"boot", "booted"} \cup Ending => depth = 0 /\ dialogs = 0
  /\ ui \in {"boot", "booted"} => ~started /\ ~draw_suspended

Balanced ==
  /\ d_count \in Nat
  /\ ui = "boot" => d_count = 0
  /\ ui # "boot" =>
       d_count = depth + dialogs + One(draw_suspended) + One(~started) + One(ui \in Between)

DrawingHeld ==
  /\ ui = "suspend_calc" => d_client = "held"
  /\ depth + dialogs > 0 => d_pc = "command_wait" /\ d_suspend /\ ~d_stop

CalcHeld == depth = MaxDepth => c_client = "held"

Held == ScopesOK /\ Balanced /\ DrawingHeld /\ CalcHeld

IInv == DrawProofs!IInv /\ CalcProofs!IInv /\ Held

-----------------------------------------------------------------------------
(* The two instances of each thread module are one and the same.           *)
LEMMA SameDraw == [Draw!Next]_(Draw!vars) => [DrawProofs!Next]_(DrawProofs!vars)
<1>1. ASSUME Draw!Client PROVE DrawProofs!Client
  BY <1>1 DEF
        Draw!Client, Draw!StartDraw, Draw!Start, Draw!TriggerRedraw,
        Draw!BeginSuspendDraw, Draw!SuspendDraw, Draw!BeginSuspend,
        Draw!WaitUntilSuspendedDraw, Draw!WaitUntilSuspended,
        Draw!ClientWakesDraw, Draw!ClientWakes, Draw!ResumeDraw, Draw!Resume,
        Draw!BeginStopDraw, Draw!BeginStop, Draw!JoinDraw, Draw!Join,
        Draw!NotifyThread, Draw!TestSuspended, Draw!Locked, Draw!Unlocked,
        Draw!BaseUnlocked, Draw!CommandWaits, Draw!AllWaits, Draw!AtRest,
        Draw!base, DrawProofs!Client, DrawProofs!StartDraw, DrawProofs!Start,
        DrawProofs!TriggerRedraw, DrawProofs!BeginSuspendDraw,
        DrawProofs!SuspendDraw, DrawProofs!BeginSuspend,
        DrawProofs!WaitUntilSuspendedDraw, DrawProofs!WaitUntilSuspended,
        DrawProofs!ClientWakesDraw, DrawProofs!ClientWakes,
        DrawProofs!ResumeDraw, DrawProofs!Resume, DrawProofs!BeginStopDraw,
        DrawProofs!BeginStop, DrawProofs!JoinDraw, DrawProofs!Join,
        DrawProofs!NotifyThread, DrawProofs!TestSuspended, DrawProofs!Locked,
        DrawProofs!Unlocked, DrawProofs!BaseUnlocked, DrawProofs!CommandWaits,
        DrawProofs!AllWaits, DrawProofs!AtRest, DrawProofs!base
<1>2. ASSUME Draw!Drawer \/ Draw!Spurious PROVE DrawProofs!Drawer \/ DrawProofs!Spurious
  BY <1>2 DEF
        Draw!Drawer, Draw!LockDraw, Draw!RedrawWakes, Draw!LoopReturns,
        Draw!SleepAt, Draw!Check, Draw!CommandWakes, Draw!NotifyClient,
        Draw!AskedToPause, Draw!Spurious, Draw!ThreadSpurious,
        Draw!ClientSpurious, Draw!AllWaits, Draw!CommandWaits,
        DrawProofs!Drawer, DrawProofs!LockDraw, DrawProofs!RedrawWakes,
        DrawProofs!LoopReturns, DrawProofs!SleepAt, DrawProofs!Check,
        DrawProofs!CommandWakes, DrawProofs!NotifyClient,
        DrawProofs!AskedToPause, DrawProofs!Spurious,
        DrawProofs!ThreadSpurious, DrawProofs!ClientSpurious,
        DrawProofs!AllWaits, DrawProofs!CommandWaits
<1>3. ASSUME UNCHANGED Draw!vars PROVE UNCHANGED DrawProofs!vars
  BY <1>3 DEF Draw!vars, DrawProofs!vars, Draw!base, DrawProofs!base
<1> QED
  BY <1>1, <1>2, <1>3 DEF Draw!Next, DrawProofs!Next

LEMMA SameCalc == [Calc!Next]_(Calc!vars) => [CalcProofs!Next]_(CalcProofs!vars)
<1>1. ASSUME Calc!Client \/ Calc!Trigger PROVE CalcProofs!Client \/ CalcProofs!Trigger
  BY <1>1 DEF
        Calc!Client, Calc!StartWorker, Calc!Start, Calc!BeginSuspendWorker,
        Calc!SuspendWorker, Calc!BeginSuspend, Calc!WaitUntilSuspendedWorker,
        Calc!WaitUntilSuspended, Calc!ClientWakesWorker, Calc!ClientWakes,
        Calc!ResumeWorker, Calc!Resume, Calc!BeginStopWorker, Calc!BeginStop,
        Calc!JoinWorker, Calc!Join, Calc!Trigger, Calc!NotifyThread,
        Calc!TestSuspended, Calc!Locked, Calc!Unlocked, Calc!BaseUnlocked,
        Calc!CommandWaits, Calc!AllWaits, Calc!AtRest, Calc!base,
        CalcProofs!Client, CalcProofs!StartWorker, CalcProofs!Start,
        CalcProofs!BeginSuspendWorker, CalcProofs!SuspendWorker,
        CalcProofs!BeginSuspend, CalcProofs!WaitUntilSuspendedWorker,
        CalcProofs!WaitUntilSuspended, CalcProofs!ClientWakesWorker,
        CalcProofs!ClientWakes, CalcProofs!ResumeWorker, CalcProofs!Resume,
        CalcProofs!BeginStopWorker, CalcProofs!BeginStop,
        CalcProofs!JoinWorker, CalcProofs!Join, CalcProofs!Trigger,
        CalcProofs!NotifyThread, CalcProofs!TestSuspended, CalcProofs!Locked,
        CalcProofs!Unlocked, CalcProofs!BaseUnlocked, CalcProofs!CommandWaits,
        CalcProofs!AllWaits, CalcProofs!AtRest, CalcProofs!base
<1>2. ASSUME Calc!Worker \/ Calc!Spurious PROVE CalcProofs!Worker \/ CalcProofs!Spurious
  BY <1>2 DEF
        Calc!Worker, Calc!Lock, Calc!Top, Calc!TopReturns, Calc!TriggerWakes,
        Calc!Gate, Calc!GateReturns, Calc!TickReturns, Calc!IdleReturns,
        Calc!SleepAt, Calc!Check, Calc!CommandWakes, Calc!TimedWait,
        Calc!TimedWakes, Calc!NotifyClient, Calc!AskedToPause, Calc!Spurious,
        Calc!ThreadSpurious, Calc!ClientSpurious, Calc!AllWaits,
        Calc!CommandWaits, CalcProofs!Worker, CalcProofs!Lock, CalcProofs!Top,
        CalcProofs!TopReturns, CalcProofs!TriggerWakes, CalcProofs!Gate,
        CalcProofs!GateReturns, CalcProofs!TickReturns, CalcProofs!IdleReturns,
        CalcProofs!SleepAt, CalcProofs!Check, CalcProofs!CommandWakes,
        CalcProofs!TimedWait, CalcProofs!TimedWakes, CalcProofs!NotifyClient,
        CalcProofs!AskedToPause, CalcProofs!Spurious,
        CalcProofs!ThreadSpurious, CalcProofs!ClientSpurious,
        CalcProofs!AllWaits, CalcProofs!CommandWaits
<1>3. ASSUME UNCHANGED Calc!vars PROVE UNCHANGED CalcProofs!vars
  BY <1>3 DEF Calc!vars, CalcProofs!vars, Calc!base, CalcProofs!base
<1> QED
  BY <1>1, <1>2, <1>3 DEF Calc!Next, CalcProofs!Next

-----------------------------------------------------------------------------
(* The UI thread is one client of each thread.                             *)
LEMMA DrawStep == [Next]_vars => [Draw!Next]_(Draw!vars)
<1> SUFFICES ASSUME [Next]_vars PROVE Draw!Next \/ UNCHANGED Draw!vars
  OBVIOUS
<1> USE DEF Draw!Next, Draw!Client, Draw!vars, Draw!base, drawVars
<1>1. CASE UIGoesOn
  BY <1>1 DEF UIGoesOn, StartDrawThread, StartCalculationThread, UIWaits, SuspendCalculation,
              AllSuspended, ResumeDrawing, SettingsEntered, StopCalculation, JoinCalculation,
              JoinDrawing
<1>2. CASE UserActs
  BY <1>2 DEF UserActs, FinishStartup, SuspendAllThreads, ResumeAllThreads, SettingsEnter,
              SettingsLeft, ShowWidget, ShowMap, Redraw, Shutdown
<1>3. CASE DrawRuns
  BY <1>3 DEF DrawRuns
<1>4. CASE CalcRuns \/ TriggerGPSUpdate \/ UNCHANGED vars
  BY <1>4 DEF CalcRuns, TriggerGPSUpdate, vars
<1> QED
  BY <1>1, <1>2, <1>3, <1>4 DEF Next

LEMMA CalcStep == [Next]_vars => [Calc!Next]_(Calc!vars)
<1> SUFFICES ASSUME [Next]_vars PROVE Calc!Next \/ UNCHANGED Calc!vars
  OBVIOUS
<1> USE DEF Calc!Next, Calc!Client, Calc!vars, Calc!base, calcVars
<1>1. CASE UIGoesOn
  BY <1>1 DEF UIGoesOn, StartDrawThread, StartCalculationThread, UIWaits, SuspendCalculation,
              AllSuspended, ResumeDrawing, SettingsEntered, StopCalculation, JoinCalculation,
              JoinDrawing
<1>2. CASE UserActs
  BY <1>2 DEF UserActs, FinishStartup, SuspendAllThreads, ResumeAllThreads, SettingsEnter,
              SettingsLeft, ShowWidget, ShowMap, Redraw, Shutdown
<1>3. CASE CalcRuns \/ TriggerGPSUpdate
  BY <1>3 DEF CalcRuns, TriggerGPSUpdate
<1>4. CASE DrawRuns \/ UNCHANGED vars
  BY <1>4 DEF DrawRuns, vars
<1> QED
  BY <1>1, <1>2, <1>3, <1>4 DEF Next

(* So both keep the invariants proved of them.                             *)
LEMMA ThreadsStep ==
  ASSUME DrawProofs!IInv, CalcProofs!IInv, [Next]_vars
  PROVE  DrawProofs!IInv' /\ CalcProofs!IInv'
<1>1. DrawProofs!IInv'
  BY DrawStep, SameDraw, DrawProofs!StepIInv, ProtectionAssumption DEF DrawProofs!DrawAssumption
<1>2. CalcProofs!IInv'
  BY CalcStep, SameCalc, CalcProofs!StepIInv DEF CalcProofs!WorkerAssumption
<1> QED
  BY <1>1, <1>2

-----------------------------------------------------------------------------
(* What the calls and the threads do to what Held looks at.                *)
LEMMA DrawCalls ==
  /\ Draw!StartDraw(TRUE) => d_count' = 1
  /\ Draw!TriggerRedraw => UNCHANGED <<d_count, d_pc, d_suspend, d_stop>>
  /\ Draw!SuspendDraw \/ Draw!BeginSuspendDraw =>
       d_count' = d_count + 1 /\ UNCHANGED <<d_pc, d_stop>> /\ (d_suspend => d_suspend')
  /\ Draw!ResumeDraw =>
       /\ d_count > 0 /\ d_count' = d_count - 1
       /\ UNCHANGED <<d_pc, d_stop>>
       /\ d_count # 1 => UNCHANGED d_suspend
  /\ Draw!WaitUntilSuspendedDraw \/ Draw!ClientWakesDraw =>
       UNCHANGED <<d_count, d_pc, d_suspend, d_stop>> /\ d_client # "held"
  /\ Draw!BeginStopDraw \/ Draw!JoinDraw => UNCHANGED d_count
<1>1. Draw!StartDraw(TRUE) => d_count' = 1
  BY DEF Draw!StartDraw
<1>2. Draw!TriggerRedraw => UNCHANGED <<d_count, d_pc, d_suspend, d_stop>>
  BY DEF Draw!TriggerRedraw
<1>3. Draw!SuspendDraw \/ Draw!BeginSuspendDraw =>
        d_count' = d_count + 1 /\ UNCHANGED <<d_pc, d_stop>> /\ (d_suspend => d_suspend')
  BY DEF Draw!SuspendDraw, Draw!BeginSuspendDraw, Draw!BeginSuspend, Draw!base
<1>4. Draw!ResumeDraw =>
        /\ d_count > 0 /\ d_count' = d_count - 1
        /\ UNCHANGED <<d_pc, d_stop>>
        /\ d_count # 1 => UNCHANGED d_suspend
  BY DEF Draw!ResumeDraw, Draw!Resume, Draw!base
<1>5. Draw!WaitUntilSuspendedDraw \/ Draw!ClientWakesDraw =>
        UNCHANGED <<d_count, d_pc, d_suspend, d_stop>> /\ d_client # "held"
  BY DEF Draw!WaitUntilSuspendedDraw, Draw!WaitUntilSuspended, Draw!ClientWakesDraw,
         Draw!ClientWakes
<1>6. Draw!BeginStopDraw \/ Draw!JoinDraw => UNCHANGED d_count
  BY DEF Draw!BeginStopDraw, Draw!JoinDraw
<1> QED
  BY <1>1, <1>2, <1>3, <1>4, <1>5, <1>6

(* The draw thread itself leaves its wait only when nobody asks for it.    *)
LEMMA DrawerStays ==
  ASSUME Draw!Drawer \/ Draw!Spurious
  PROVE  /\ UNCHANGED <<d_count, d_suspend, d_stop>>
         /\ d_client = "held" => d_client' = "held"
         /\ d_pc = "command_wait" /\ d_suspend /\ ~d_stop => d_pc' = d_pc
<1>1. CASE Draw!Drawer
  BY <1>1 DEF Draw!Drawer, Draw!LockDraw, Draw!RedrawWakes, Draw!LoopReturns, Draw!SleepAt,
              Draw!Check, Draw!CommandWakes, Draw!NotifyClient, Draw!AskedToPause
<1>2. CASE Draw!Spurious
  BY <1>2 DEF Draw!Spurious, Draw!ThreadSpurious, Draw!ClientSpurious
<1> QED
  BY <1>1, <1>2

(* Nobody but ResumeAllThreads() and the shutdown takes the calculation    *)
(* thread away from a client that holds it.                                *)
LEMMA CalcStays ==
  ASSUME c_client = "held",
         Calc!Trigger \/ Calc!ClientWakesWorker \/ Calc!Worker \/ Calc!Spurious
         \/ Calc!StartWorker(FALSE)
  PROVE  c_client' = "held"
<1>1. CASE Calc!Trigger \/ Calc!ClientWakesWorker \/ Calc!StartWorker(FALSE)
  BY <1>1 DEF Calc!Trigger, Calc!ClientWakesWorker, Calc!ClientWakes, Calc!StartWorker, Calc!Start
<1>2. CASE Calc!Worker
  BY <1>2 DEF Calc!Worker, Calc!Lock, Calc!Top, Calc!TopReturns, Calc!TriggerWakes, Calc!Gate,
              Calc!GateReturns, Calc!TickReturns, Calc!IdleReturns, Calc!Check,
              Calc!CommandWakes, Calc!TimedWait, Calc!TimedWakes, Calc!NotifyClient
<1>3. CASE Calc!Spurious
  BY <1>3 DEF Calc!Spurious, Calc!ThreadSpurious, Calc!ClientSpurious
<1> QED
  BY <1>1, <1>2, <1>3

-----------------------------------------------------------------------------
LEMMA StepScopes == ScopesOK /\ [Next]_vars => ScopesOK'
<1> SUFFICES ASSUME ScopesOK, [Next]_vars PROVE ScopesOK'
  OBVIOUS
<1> USE ProtectionAssumption DEF ScopesOK, UIPlaces, Ending, scopes, Go
<1>1. CASE UIGoesOn
  <2>1. CASE StartDrawThread
    BY <2>1 DEF StartDrawThread
  <2>2. CASE StartCalculationThread
    BY <2>2 DEF StartCalculationThread
  <2>3. CASE UIWaits \/ SuspendCalculation \/ AllSuspended \/ ResumeDrawing \/ SettingsEntered
    BY <2>3 DEF UIWaits, SuspendCalculation, AllSuspended, ResumeDrawing, SettingsEntered
  <2>4. CASE StopCalculation \/ JoinCalculation \/ JoinDrawing
    BY <2>4 DEF StopCalculation, JoinCalculation, JoinDrawing
  <2> QED
    BY <1>1, <2>1, <2>2, <2>3, <2>4 DEF UIGoesOn
<1>2. CASE UserActs
  <2>1. CASE FinishStartup
    BY <2>1 DEF FinishStartup
  <2>2. CASE SuspendAllThreads
    BY <2>2 DEF SuspendAllThreads
  <2>3. CASE ResumeAllThreads
    BY <2>3 DEF ResumeAllThreads
  <2>4. CASE SettingsEnter \/ SettingsLeft
    BY <2>4 DEF SettingsEnter, SettingsLeft
  <2>5. CASE ShowWidget \/ ShowMap \/ Redraw \/ Shutdown
    BY <2>5 DEF ShowWidget, ShowMap, Redraw, Shutdown
  <2> QED
    BY <1>2, <2>1, <2>2, <2>3, <2>4, <2>5 DEF UserActs
<1>3. CASE DrawRuns \/ CalcRuns \/ TriggerGPSUpdate \/ UNCHANGED vars
  BY <1>3 DEF DrawRuns, CalcRuns, TriggerGPSUpdate, vars
<1> QED
  BY <1>1, <1>2, <1>3 DEF Next

(* Every suspension of the draw thread is paid back.                       *)
LEMMA StepBalanced == ScopesOK /\ Balanced /\ [Next]_vars => Balanced'
<1> SUFFICES ASSUME ScopesOK, Balanced, [Next]_vars PROVE Balanced'
  OBVIOUS
<1> USE ProtectionAssumption DEF Balanced, ScopesOK, One, Between, Ending, UIPlaces, scopes, Go
<1>1. CASE UIGoesOn
  <2>1. CASE StartDrawThread
    BY <2>1, DrawCalls DEF StartDrawThread
  <2>2. CASE StartCalculationThread \/ SuspendCalculation
    BY <2>2 DEF StartCalculationThread, Calc!StartWorker, Calc!Start, SuspendCalculation,
                drawVars
  <2>3. CASE UIWaits
    BY <2>3, DrawCalls DEF UIWaits, drawVars
  <2>4. CASE AllSuspended \/ SettingsEntered
    BY <2>4 DEF AllSuspended, SettingsEntered, drawVars
  <2>5. CASE ResumeDrawing
    BY <2>5, DrawCalls DEF ResumeDrawing
  <2>6. CASE StopCalculation \/ JoinCalculation \/ JoinDrawing
    BY <2>6, DrawCalls DEF StopCalculation, JoinCalculation, JoinDrawing, drawVars
  <2> QED
    BY <1>1, <2>1, <2>2, <2>3, <2>4, <2>5, <2>6 DEF UIGoesOn
<1>2. CASE UserActs
  <2>1. CASE FinishStartup
    BY <2>1, DrawCalls DEF FinishStartup
  <2>2. CASE SuspendAllThreads \/ SettingsEnter
    BY <2>2, DrawCalls DEF SuspendAllThreads, SettingsEnter
  <2>3. CASE ResumeAllThreads
    BY <2>3 DEF ResumeAllThreads, drawVars
  <2>4. CASE SettingsLeft
    BY <2>4, DrawCalls DEF SettingsLeft
  <2>5. CASE ShowWidget
    BY <2>5, DrawCalls DEF ShowWidget
  <2>6. CASE ShowMap
    BY <2>6, DrawCalls DEF ShowMap
  <2>7. CASE Redraw \/ Shutdown
    BY <2>7, DrawCalls DEF Redraw, Shutdown
  <2> QED
    BY <1>2, <2>1, <2>2, <2>3, <2>4, <2>5, <2>6, <2>7 DEF UserActs
<1>3. CASE DrawRuns
  BY <1>3, DrawerStays DEF DrawRuns
<1>4. CASE CalcRuns \/ TriggerGPSUpdate \/ UNCHANGED vars
  BY <1>4 DEF CalcRuns, TriggerGPSUpdate, vars, drawVars
<1> QED
  BY <1>1, <1>2, <1>3, <1>4 DEF Next

(* Whoever holds the draw thread keeps it where it is.  The invariant of   *)
(* DrawThreadProofs is needed twice: a client that was let through finds   *)
(* the thread asleep with the request up, and not told to end.             *)
LEMMA StepDrawing ==
  ASSUME DrawProofs!IInv, ScopesOK, Balanced, DrawingHeld, [Next]_vars
  PROVE  DrawingHeld'
<1>1. d_client = "held" => d_pc = "command_wait" /\ d_suspend /\ ~d_stop
  BY DEF DrawProofs!IInv, DrawProofs!Handshake, DrawProofs!FlagsOK, DrawProofs!BaseTypeOK
<1> USE ProtectionAssumption
    DEF DrawingHeld, Balanced, ScopesOK, One, Between, Ending, UIPlaces, scopes, Go
<1>2. CASE UIGoesOn
  <2>1. CASE StartDrawThread
    BY <2>1 DEF StartDrawThread
  <2>2. CASE StartCalculationThread \/ SuspendCalculation
    BY <2>2 DEF StartCalculationThread, Calc!StartWorker, Calc!Start, SuspendCalculation,
                drawVars
  <2>3. CASE UIWaits
    BY <2>3, DrawCalls DEF UIWaits, drawVars
  <2>4. CASE AllSuspended \/ SettingsEntered
    BY <1>1, <2>4 DEF AllSuspended, SettingsEntered, drawVars
  <2>5. CASE ResumeDrawing
    BY <2>5, DrawCalls DEF ResumeDrawing
  <2>6. CASE StopCalculation \/ JoinCalculation \/ JoinDrawing
    BY <2>6 DEF StopCalculation, JoinCalculation, JoinDrawing
  <2> QED
    BY <1>2, <2>1, <2>2, <2>3, <2>4, <2>5, <2>6 DEF UIGoesOn
<1>3. CASE UserActs
  <2>1. CASE FinishStartup
    BY <2>1, DrawCalls DEF FinishStartup
  <2>2. CASE SuspendAllThreads \/ SettingsEnter
    BY <2>2, DrawCalls DEF SuspendAllThreads, SettingsEnter
  <2>3. CASE ResumeAllThreads
    BY <2>3 DEF ResumeAllThreads, drawVars
  <2>4. CASE SettingsLeft
    BY <2>4, DrawCalls DEF SettingsLeft
  <2>5. CASE ShowWidget
    BY <2>5, DrawCalls DEF ShowWidget
  <2>6. CASE ShowMap
    BY <2>6, DrawCalls DEF ShowMap
  <2>7. CASE Redraw \/ Shutdown
    BY <2>7, DrawCalls DEF Redraw, Shutdown
  <2> QED
    BY <1>3, <2>1, <2>2, <2>3, <2>4, <2>5, <2>6, <2>7 DEF UserActs
<1>4. CASE DrawRuns
  BY <1>4, DrawerStays DEF DrawRuns
<1>5. CASE CalcRuns \/ TriggerGPSUpdate \/ UNCHANGED vars
  BY <1>5 DEF CalcRuns, TriggerGPSUpdate, vars, drawVars
<1> QED
  BY <1>2, <1>3, <1>4, <1>5 DEF Next

(* The calculation thread does not count: only the scope at MaxDepth, the  *)
(* last one opened, is known to hold it.                                   *)
LEMMA StepCalc == ScopesOK /\ CalcHeld /\ [Next]_vars => CalcHeld'
<1> SUFFICES ASSUME ScopesOK, CalcHeld, [Next]_vars PROVE CalcHeld'
  OBVIOUS
<1> USE ProtectionAssumption DEF CalcHeld, ScopesOK, Ending, scopes, Go
<1>1. CASE UIGoesOn
  <2>1. CASE StartDrawThread \/ ResumeDrawing \/ SettingsEntered \/ JoinDrawing
    BY <2>1 DEF StartDrawThread, ResumeDrawing, SettingsEntered, JoinDrawing, calcVars
  <2>2. CASE StartCalculationThread \/ SuspendCalculation \/ StopCalculation \/ JoinCalculation
    BY <2>2 DEF StartCalculationThread, Calc!StartWorker, Calc!Start, SuspendCalculation,
                StopCalculation, JoinCalculation
  <2>3. CASE UIWaits
    BY <2>3, CalcStays DEF UIWaits, calcVars
  <2>4. CASE AllSuspended
    BY <2>4 DEF AllSuspended, calcVars
  <2> QED
    BY <1>1, <2>1, <2>2, <2>3, <2>4 DEF UIGoesOn
<1>2. CASE UserActs
  <2>1. CASE ResumeAllThreads
    BY <2>1 DEF ResumeAllThreads
  <2>2. CASE FinishStartup \/ SuspendAllThreads \/ SettingsEnter \/ SettingsLeft
             \/ ShowWidget \/ ShowMap \/ Redraw \/ Shutdown
    BY <2>2 DEF FinishStartup, SuspendAllThreads, SettingsEnter, SettingsLeft, ShowWidget,
                ShowMap, Redraw, Shutdown, calcVars
  <2> QED
    BY <1>2, <2>1, <2>2 DEF UserActs
<1>3. CASE CalcRuns \/ TriggerGPSUpdate
  BY <1>3, CalcStays DEF CalcRuns, TriggerGPSUpdate
<1>4. CASE DrawRuns \/ UNCHANGED vars
  BY <1>4 DEF DrawRuns, vars, calcVars
<1> QED
  BY <1>1, <1>2, <1>3, <1>4 DEF Next

-----------------------------------------------------------------------------
LEMMA InitIInv == Init => IInv
<1> SUFFICES ASSUME Init PROVE IInv
  OBVIOUS
<1>1. DrawProofs!IInv
  <2>1. DrawProofs!Init
    BY DEF Init, Draw!Init, Draw!BaseInit, DrawProofs!Init, DrawProofs!BaseInit
  <2> QED
    BY <2>1, DrawProofs!InitIInv, ProtectionAssumption DEF DrawProofs!DrawAssumption
<1>2. CalcProofs!IInv
  <2>1. CalcProofs!Init
    BY DEF Init, Calc!Init, Calc!BaseInit, CalcProofs!Init, CalcProofs!BaseInit
  <2> QED
    BY <2>1, CalcProofs!InitIInv DEF CalcProofs!WorkerAssumption
<1>3. Held
  <2>1. ui = "boot" /\ depth = 0 /\ dialogs = 0 /\ ~started /\ ~draw_suspended /\ d_count = 0
    BY DEF Init, Draw!Init
  <2>2. started \in BOOLEAN /\ draw_suspended \in BOOLEAN
    BY DEF Init
  <2> QED
    BY <2>1, <2>2, ProtectionAssumption
       DEF Held, ScopesOK, Balanced, DrawingHeld, CalcHeld, UIPlaces, Ending
<1> QED
  BY <1>1, <1>2, <1>3 DEF IInv

LEMMA StepIInv == IInv /\ [Next]_vars => IInv'
  BY ThreadsStep, StepScopes, StepBalanced, StepDrawing, StepCalc DEF IInv, Held

LEMMA AlwaysIInv == Spec => []IInv
  BY InitIInv, StepIInv, PTL DEF Spec

-----------------------------------------------------------------------------
(***************************************************************************)
(* What the UI thread does with the two threads.  The guards of the calls  *)
(* are what the code asserts or takes for granted: they would hide a call  *)
(* that comes at the wrong time.  Called says that there is none.          *)
(***************************************************************************)
AtRest == {"free", "held"}
Waiting == {"waiting", "woken", "held"}

DrawCalled ==
  /\ ui = "boot" => d_pc = "new" /\ d_client = "free"
  /\ ui # "boot" => d_pc # "new"
  /\ ui = "booted" => d_client = "free"
  /\ ui \in {"run", "resume_draw"} => d_client \in AtRest
  /\ ui \in {"suspend_draw", "dialog"} => d_client \in Waiting \cup {"entering"}
  /\ ui = "suspend_calc" => d_client = "held"
  /\ ui \in {"stop_calc", "join_calc", "join_draw"} => d_client = "stopping"
  /\ ui = "down" => d_client = "joined"
  /\ d_pc = "done" => d_stop

CalcCalled ==
  /\ ui \in {"boot", "booted"} => c_pc = "new" /\ c_client = "free"
  /\ ui \notin {"boot", "booted"} => c_pc # "new"
  /\ ui \in {"run", "dialog", "suspend_draw", "resume_draw", "stop_calc"} => c_client \in AtRest
  /\ ui = "suspend_calc" => c_client \in Waiting
  /\ ui = "join_calc" => c_client = "stopping"
  /\ ui \in {"join_draw", "down"} => c_client = "joined"
  /\ c_pc = "done" => c_stop

LEMMA StepDrawCalled ==
  ASSUME DrawCalled, [Next]_vars
  PROVE  DrawCalled'
<1> USE DEF DrawCalled, AtRest, Waiting, Go
<1>1. CASE UIGoesOn
  <2>1. CASE StartDrawThread
    BY <2>1 DEF StartDrawThread, Draw!StartDraw, Draw!Start
  <2>2. CASE StartCalculationThread \/ SuspendCalculation \/ AllSuspended \/ SettingsEntered
             \/ StopCalculation \/ JoinCalculation
    BY <2>2 DEF StartCalculationThread, SuspendCalculation, AllSuspended, SettingsEntered,
                StopCalculation, JoinCalculation, drawVars
  <2>3. CASE UIWaits
    BY <2>3 DEF UIWaits, drawVars, Draw!WaitUntilSuspendedDraw, Draw!WaitUntilSuspended,
                Draw!ClientWakesDraw, Draw!ClientWakes, Draw!TestSuspended
  <2>4. CASE ResumeDrawing
    BY <2>4 DEF ResumeDrawing, Draw!ResumeDraw, Draw!Resume, Draw!base, Draw!AtRest
  <2>5. CASE JoinDrawing
    BY <2>5 DEF JoinDrawing, Draw!JoinDraw, Draw!Join
  <2> QED
    BY <1>1, <2>1, <2>2, <2>3, <2>4, <2>5 DEF UIGoesOn
<1>2. CASE UserActs
  <2>1. ASSUME Draw!ResumeDraw, UNCHANGED ui, ui = "run" PROVE DrawCalled'
    BY <2>1 DEF Draw!ResumeDraw, Draw!Resume, Draw!base, Draw!AtRest
  <2>2. CASE FinishStartup \/ SettingsLeft \/ ShowMap
    BY <2>1, <2>2 DEF FinishStartup, SettingsLeft, ShowMap
  <2>3. CASE SuspendAllThreads \/ SettingsEnter
    BY <2>3 DEF SuspendAllThreads, SettingsEnter, Draw!SuspendDraw, Draw!BeginSuspend
  <2>4. CASE ResumeAllThreads
    BY <2>4 DEF ResumeAllThreads, drawVars
  <2>5. CASE ShowWidget
    BY <2>5 DEF ShowWidget, Draw!BeginSuspendDraw, Draw!BeginSuspend, Draw!base, Draw!AtRest
  <2>6. CASE Redraw
    BY <2>6 DEF Redraw, Draw!TriggerRedraw
  <2>7. CASE Shutdown
    BY <2>7 DEF Shutdown, Draw!BeginStopDraw, Draw!BeginStop
  <2> QED
    BY <1>2, <2>2, <2>3, <2>4, <2>5, <2>6, <2>7 DEF UserActs
<1>3. CASE DrawRuns
  <2>1. CASE Draw!Drawer
    BY <1>3, <2>1 DEF DrawRuns, Draw!Drawer, Draw!LockDraw, Draw!RedrawWakes, Draw!LoopReturns,
                      Draw!SleepAt, Draw!Check, Draw!CommandWakes, Draw!NotifyClient
  <2>2. CASE Draw!Spurious
    BY <1>3, <2>2 DEF DrawRuns, Draw!Spurious, Draw!ThreadSpurious, Draw!ClientSpurious
  <2> QED
    BY <1>3, <2>1, <2>2 DEF DrawRuns
<1>4. CASE CalcRuns \/ TriggerGPSUpdate \/ UNCHANGED vars
  BY <1>4 DEF CalcRuns, TriggerGPSUpdate, vars, drawVars
<1> QED
  BY <1>1, <1>2, <1>3, <1>4 DEF Next

LEMMA StepCalcCalled ==
  ASSUME CalcCalled, [Next]_vars
  PROVE  CalcCalled'
<1> USE DEF CalcCalled, AtRest, Waiting, Go
<1>1. CASE UIGoesOn
  <2>1. CASE StartCalculationThread
    BY <2>1 DEF StartCalculationThread, Calc!StartWorker, Calc!Start
  <2>2. CASE StartDrawThread \/ AllSuspended \/ ResumeDrawing \/ SettingsEntered \/ JoinDrawing
    BY <2>2 DEF StartDrawThread, AllSuspended, ResumeDrawing, SettingsEntered, JoinDrawing,
                calcVars
  <2>3. CASE UIWaits
    BY <2>3 DEF UIWaits, calcVars, Calc!ClientWakesWorker, Calc!ClientWakes, Calc!TestSuspended
  <2>4. CASE SuspendCalculation
    BY <2>4 DEF SuspendCalculation, Calc!SuspendWorker, Calc!TestSuspended
  <2>5. CASE StopCalculation \/ JoinCalculation
    BY <2>5 DEF StopCalculation, JoinCalculation, Calc!BeginStopWorker, Calc!BeginStop,
                Calc!JoinWorker, Calc!Join
  <2> QED
    BY <1>1, <2>1, <2>2, <2>3, <2>4, <2>5 DEF UIGoesOn
<1>2. CASE UserActs
  <2>1. CASE ResumeAllThreads
    BY <2>1 DEF ResumeAllThreads, Calc!ResumeWorker, Calc!Resume
  <2>2. CASE FinishStartup \/ SuspendAllThreads \/ SettingsEnter \/ SettingsLeft
             \/ ShowWidget \/ ShowMap \/ Redraw \/ Shutdown
    BY <2>2 DEF FinishStartup, SuspendAllThreads, SettingsEnter, SettingsLeft, ShowWidget,
                ShowMap, Redraw, Shutdown, calcVars
  <2> QED
    BY <1>2, <2>1, <2>2 DEF UserActs
<1>3. CASE CalcRuns
  <2>1. CASE Calc!Worker
    BY <1>3, <2>1
       DEF CalcRuns, Calc!Worker, Calc!Lock, Calc!Top, Calc!TopReturns, Calc!TriggerWakes,
           Calc!Gate, Calc!GateReturns, Calc!TickReturns, Calc!IdleReturns, Calc!SleepAt,
           Calc!Check, Calc!CommandWakes, Calc!TimedWait, Calc!TimedWakes, Calc!NotifyClient
  <2>2. CASE Calc!Spurious
    BY <1>3, <2>2 DEF CalcRuns, Calc!Spurious, Calc!ThreadSpurious, Calc!ClientSpurious
  <2> QED
    BY <1>3, <2>1, <2>2 DEF CalcRuns
<1>4. CASE TriggerGPSUpdate
  BY <1>4 DEF TriggerGPSUpdate, Calc!Trigger
<1>5. CASE DrawRuns \/ UNCHANGED vars
  BY <1>5 DEF DrawRuns, vars, calcVars
<1> QED
  BY <1>1, <1>2, <1>3, <1>4, <1>5 DEF Next

LEMMA AlwaysCalled == Spec => [](IInv /\ DrawCalled /\ CalcCalled)
<1>1. Init => DrawCalled /\ CalcCalled
  BY DEF Init, Draw!Init, Draw!BaseInit, Calc!Init, Calc!BaseInit, DrawCalled, CalcCalled
<1>2. DrawCalled /\ CalcCalled /\ [Next]_vars => DrawCalled' /\ CalcCalled'
  BY StepDrawCalled, StepCalcCalled
<1> QED
  BY <1>1, <1>2, AlwaysIInv, PTL DEF Spec

(* No picture is painted while a scope or a settings dialog holds the draw *)
(* thread, however deep they are nested, whatever widgets and redraws come *)
(* in between.                                                             *)
THEOREM DrawingStaysHeld == Spec => []DrawingIsHeld
<1>1. IInv => DrawingIsHeld
  BY DEF IInv, Held, DrawingHeld, DrawingIsHeld
<1> QED
  BY <1>1, AlwaysIInv, PTL

(* The draw thread is suspended as often as somebody wants it to be: when  *)
(* the last scope, dialog and widget is gone, it draws again.              *)
THEOREM SuspensionsBalance == Spec => []CountIsBalanced
<1>1. IInv => CountIsBalanced
  BY DEF IInv, Held, ScopesOK, Balanced, CountIsBalanced, One, Between
<1> QED
  BY <1>1, AlwaysIInv, PTL

(* The innermost scope has the shared data to itself: neither thread is in *)
(* its unprotected part.  (An outer one has not: it may have lost the      *)
(* calculation thread to the end of an inner one.)                         *)
THEOREM InnermostScopeIsExclusive == Spec => []InnermostIsOurs
<1>1. IInv => InnermostIsOurs
  <2> SUFFICES ASSUME IInv, depth = MaxDepth PROVE c_pc # "tick" /\ d_pc # "draw"
    BY DEF InnermostIsOurs
  <2>1. c_client = "held"
    BY DEF IInv, Held, CalcHeld
  <2>2. c_pc # "tick"
    BY <2>1 DEF IInv, CalcProofs!IInv, CalcProofs!Handshake, CalcProofs!CommandWaits
  <2>3. d_pc = "command_wait"
    BY ProtectionAssumption DEF IInv, Held, ScopesOK, DrawingHeld
  <2> QED
    BY <2>2, <2>3
<1> QED
  BY <1>1, AlwaysIInv, PTL

(* All three threads stay on the places of their programs.                 *)
THEOREM TypeCorrect == Spec => []TypeOK
<1>1. IInv => TypeOK
  <2> SUFFICES ASSUME IInv PROVE TypeOK
    OBVIOUS
  <2>1. Draw!TypeOK
    BY DEF IInv, DrawProofs!IInv, DrawProofs!FlagsOK, DrawProofs!CountOK, DrawProofs!BaseTypeOK,
           DrawProofs!Places, DrawProofs!Sites, DrawProofs!BasePlaces, DrawProofs!CommandWaits,
           DrawProofs!ClientPlaces, Draw!TypeOK, Draw!BaseTypeOK, Draw!Places, Draw!Sites,
           Draw!BasePlaces, Draw!CommandWaits, Draw!ClientPlaces
  <2>2. Calc!TypeOK
    BY DEF IInv, CalcProofs!IInv, CalcProofs!TypeOK, CalcProofs!BaseTypeOK,
           CalcProofs!Places, CalcProofs!Sites, CalcProofs!BasePlaces, CalcProofs!CommandWaits,
           CalcProofs!ClientPlaces, Calc!TypeOK, Calc!BaseTypeOK, Calc!Places, Calc!Sites,
           Calc!BasePlaces, Calc!CommandWaits, Calc!ClientPlaces
  <2> QED
    BY <2>1, <2>2 DEF IInv, Held, ScopesOK, TypeOK
<1> QED
  BY <1>1, AlwaysIInv, PTL

-----------------------------------------------------------------------------
(* If scopes were never opened inside scopes, every one of them would have *)
(* the shared data to itself, as Protection.hpp promises: nesting, which   *)
(* SettingsLeave() does through LoadTerrain(), is all that is wrong.       *)
THEOREM FlatScopesAreExclusive ==
  ASSUME MaxDepth = 1
  PROVE  Spec => []DataIsOurs
<1>1. IInv /\ InnermostIsOurs => DataIsOurs
  BY DEF IInv, Held, ScopesOK, InnermostIsOurs, DataIsOurs
<1> QED
  BY <1>1, AlwaysIInv, InnermostScopeIsExclusive, PTL

(* Whenever the UI thread is inside a call that waits, the thread it waits *)
(* for runs, has the request, and is not asleep without a signal on its    *)
(* way unless it has answered.  With fairness this is why UIReturns holds. *)
UIIsAnswered ==
  /\ d_client \in {"entering", "waiting", "woken"} =>
       d_pc \notin {"new", "done"} /\ d_suspend /\ ~d_stop
  /\ c_client \in {"waiting", "woken"} =>
       c_pc \notin {"new", "done"} /\ c_suspend /\ ~c_stop
  /\ d_client = "stopping" => d_pc # "new" /\ d_stop
  /\ c_client = "stopping" => c_pc # "new" /\ c_stop
  /\ Draw!NoLostWakeup /\ Calc!NoLostWakeup

THEOREM UIIsNeverStranded == Spec => []UIIsAnswered
<1>1. IInv /\ DrawCalled /\ CalcCalled => UIIsAnswered
  <2> SUFFICES ASSUME IInv, DrawCalled, CalcCalled PROVE UIIsAnswered
    OBVIOUS
  <2>1. Draw!NoLostWakeup /\ Calc!NoLostWakeup
    BY DEF IInv, DrawProofs!IInv, DrawProofs!NoLostWakeup, DrawProofs!AskedToPause,
           Draw!NoLostWakeup, Draw!AskedToPause, CalcProofs!IInv, CalcProofs!NoLostWakeup,
           CalcProofs!AskedToPause, Calc!NoLostWakeup, Calc!AskedToPause
  <2>2. /\ d_client \in {"entering", "waiting", "woken"} => d_suspend /\ ~d_stop
        /\ d_client = "stopping" => d_stop
    BY DEF IInv, DrawProofs!IInv, DrawProofs!Handshake
  <2>3. /\ c_client \in {"waiting", "woken"} => c_suspend /\ ~c_stop
        /\ c_client = "stopping" => c_stop
    BY DEF IInv, CalcProofs!IInv, CalcProofs!Handshake
  <2>4. /\ d_client \notin {"free", "held"} => d_pc # "new"
        /\ c_client \notin {"free", "held"} => c_pc # "new"
    BY DEF DrawCalled, CalcCalled
  <2> QED
    BY <2>1, <2>2, <2>3, <2>4 DEF UIIsAnswered, DrawCalled, CalcCalled
<1> QED
  BY <1>1, AlwaysCalled, PTL

(* The calls come when they may: Suspend(), Resume() and BeginStop() never *)
(* to a thread that was not started or from inside another call, no        *)
(* Resume() without a suspension to undo, and the bound on the nesting of  *)
(* suspensions, which the code has not, never holds up the UI thread.      *)
CallsAreLegal ==
  /\ ui = "run" =>
       /\ d_pc # "new" /\ c_pc # "new"
       /\ d_client \in AtRest /\ c_client \in AtRest
       /\ depth > 0 \/ dialogs > 0 \/ draw_suspended \/ ~started => d_count > 0
       /\ depth < MaxDepth \/ dialogs < MaxDialog \/ ~draw_suspended =>
            d_count < MaxDepth + MaxDialog + 2
  /\ ui = "resume_draw" => d_client \in AtRest /\ d_count > 0
  /\ ui = "suspend_draw" => c_client \in AtRest /\ c_pc # "new"
  /\ ui = "stop_calc" => c_client \in AtRest

THEOREM UICallsAreLegal == Spec => []CallsAreLegal
<1>1. IInv /\ DrawCalled /\ CalcCalled => CallsAreLegal
  <2> SUFFICES ASSUME IInv, DrawCalled, CalcCalled PROVE CallsAreLegal
    OBVIOUS
  <2>1. ui = "run" =>
          /\ depth > 0 \/ dialogs > 0 \/ draw_suspended \/ ~started => d_count > 0
          /\ depth < MaxDepth \/ dialogs < MaxDialog \/ ~draw_suspended =>
               d_count < MaxDepth + MaxDialog + 2
    BY ProtectionAssumption DEF IInv, Held, ScopesOK, Balanced, One, Between
  <2>2. ui = "resume_draw" => d_count > 0
    BY ProtectionAssumption DEF IInv, Held, ScopesOK, Balanced, One, Between
  <2> QED
    BY <2>1, <2>2 DEF CallsAreLegal, DrawCalled, CalcCalled
<1> QED
  BY <1>1, AlwaysCalled, PTL

-----------------------------------------------------------------------------
(* The composition implements the specification of each thread: whatever   *)
(* is true of a draw thread, or of a worker thread, with any client, is    *)
(* true of these.                                                          *)
THEOREM ThreadsAreTheirSpecs == Spec => DrawProofs!Spec /\ CalcProofs!Spec
<1>1. Init => DrawProofs!Init /\ CalcProofs!Init
  BY DEF Init, Draw!Init, Draw!BaseInit, DrawProofs!Init, DrawProofs!BaseInit,
         Calc!Init, Calc!BaseInit, CalcProofs!Init, CalcProofs!BaseInit
<1>2. [Next]_vars => [DrawProofs!Next]_(DrawProofs!vars)
  BY DrawStep, SameDraw
<1>3. [Next]_vars => [CalcProofs!Next]_(CalcProofs!vars)
  BY CalcStep, SameCalc
<1> QED
  BY <1>1, <1>2, <1>3, PTL DEF Spec, DrawProofs!Spec, CalcProofs!Spec

(* So, in the program as a whole, both keep what SuspendableWork promises, *)
(* although one of them counts its suspensions and the other does not.     *)
THEOREM ThreadsKeepTheirPromises ==
  Spec => DrawProofs!Promise!SafeSpec /\ CalcProofs!Promise!SafeSpec
<1>1. DrawProofs!Spec => DrawProofs!Promise!SafeSpec
  BY DrawProofs!KeepsPromise, ProtectionAssumption DEF DrawProofs!DrawAssumption
<1>2. CalcProofs!Spec => CalcProofs!Promise!SafeSpec
  BY CalcProofs!KeepsPromise DEF CalcProofs!WorkerAssumption
<1> QED
  BY <1>1, <1>2, ThreadsAreTheirSpecs
=============================================================================
