----------------------------- MODULE DrawThread -----------------------------
(***************************************************************************)
(* src/src/DrawThread.{hpp,cpp} on src/src/thread/RecursivelySuspensible-  *)
(* Thread.cpp: the thread that paints the map in builds without OpenGL.    *)
(* TriggerRedraw() asks for a picture; suspensions nest, and only the      *)
(* outermost Resume() lets the thread go on.                               *)
(***************************************************************************)
EXTENDS SuspensibleThread

CONSTANT MaxSuspend  \* bound of suspend_count, the code has none

ASSUME DrawAssumption == MaxSuspend \in Nat \ {0}

VARIABLES
  pending,       \* a redraw is wanted
  suspend_count  \* suspensions not yet undone; only the client uses it

vars == <<base, pending, suspend_count>>

Places == BasePlaces \cup {"redraw_wait", "draw"}
Sites == {"loop"}
Unlocked == BaseUnlocked \cup {"redraw_wait", "draw"}

Locked == pc \notin Unlocked

(* The wait for a redraw and the wait for Resume() use the same condition  *)
(* variable.                                                               *)
AllWaits == CommandWaits \cup {"redraw_wait"}

TypeOK ==
  /\ BaseTypeOK(Places, Sites)
  /\ pending \in BOOLEAN
  /\ suspend_count \in Nat

Init == BaseInit("loop") /\ pending = TRUE /\ suspend_count = 0

-----------------------------------------------------------------------------
(* Seeded fault: the thread is not told. *)
TriggerRedraw_Silent ==
  /\ ~Locked
  /\ client \in AtRest
  /\ pending' = TRUE
  /\ UNCHANGED <<base, suspend_count>>

TriggerRedraw ==
  /\ ~Locked
  /\ client \in AtRest
  /\ pending' = TRUE
  /\ NotifyThread(AllWaits)
  /\ UNCHANGED <<stop_received, suspend_received, suspended, pc, site, client, suspend_count>>

StartDraw(_suspended) ==
  /\ Start(_suspended)
  /\ suspend_count' = IF _suspended THEN 1 ELSE 0
  /\ UNCHANGED pending

(* Without waiting, and only the first of nested calls tells the thread. *)
BeginSuspendDraw ==
  /\ ~Locked
  /\ suspend_count < MaxSuspend
  /\ suspend_count' = suspend_count + 1
  /\ IF suspend_count = 0
       THEN BeginSuspend(AllWaits, client)
       ELSE client \in AtRest /\ UNCHANGED base
  /\ UNCHANGED pending

(* Suspend() tells the thread in any case: an outer BeginSuspend() may not *)
(* have been answered yet.                                                 *)
SuspendDraw ==
  /\ ~Locked
  /\ suspend_count < MaxSuspend
  /\ suspend_count' = suspend_count + 1
  /\ BeginSuspend(AllWaits, "entering")
  /\ UNCHANGED pending

WaitUntilSuspendedDraw ==
  /\ ~Locked
  /\ client = "entering"
  /\ WaitUntilSuspended
  /\ UNCHANGED <<pending, suspend_count>>

ClientWakesDraw == ~Locked /\ ClientWakes /\ UNCHANGED <<pending, suspend_count>>

(* Seeded fault: suspensions do not nest. *)
ResumeDraw_Flat ==
  /\ ~Locked
  /\ suspend_count > 0
  /\ suspend_count' = suspend_count - 1
  /\ Resume(AllWaits)
  /\ UNCHANGED pending

ResumeDraw ==
  /\ ~Locked
  /\ suspend_count > 0
  /\ suspend_count' = suspend_count - 1
  /\ IF suspend_count = 1
       THEN Resume(AllWaits)
       ELSE client \in AtRest /\ UNCHANGED base
  /\ UNCHANGED pending

BeginStopDraw ==
  ~Locked /\ BeginStop(AllWaits) /\ UNCHANGED <<pending, suspend_count>>

JoinDraw == Join /\ UNCHANGED <<pending, suspend_count>>

Client ==
  \/ \E s \in BOOLEAN : StartDraw(s)
  \/ TriggerRedraw
  \/ BeginSuspendDraw
  \/ SuspendDraw
  \/ WaitUntilSuspendedDraw
  \/ ClientWakesDraw
  \/ ResumeDraw
  \/ BeginStopDraw
  \/ JoinDraw

-----------------------------------------------------------------------------
(* Run(): every turn begins with the check, and a turn that finds nothing  *)
(* to draw ends with a wait.                                               *)

LockDraw ==
  /\ pc \in {"start", "draw"}
  /\ pc' = "check"
  /\ UNCHANGED <<stop_received, suspend_received, suspended, site, notified, client,
                 pending, suspend_count>>

RedrawWakes ==
  /\ pc = "redraw_wait"
  /\ notified
  /\ notified' = FALSE
  /\ pc' = "check"
  /\ UNCHANGED <<stop_received, suspend_received, suspended, site, client,
                 pending, suspend_count>>

(* Seeded fault: the request is not dropped. *)
LoopReturns_Keep ==
  /\ pc = "return"
  /\ IF stop_received
       THEN pc' = "done" /\ UNCHANGED notified
       ELSE IF pending
              THEN pc' = "draw" /\ UNCHANGED notified
              ELSE SleepAt("redraw_wait")
  /\ UNCHANGED <<stop_received, suspend_received, suspended, site, client,
                 pending, suspend_count>>

LoopReturns ==
  /\ pc = "return"
  /\ IF stop_received
       THEN pc' = "done" /\ UNCHANGED notified
       ELSE IF pending
              THEN pc' = "draw" /\ UNCHANGED notified
              ELSE SleepAt("redraw_wait")
  /\ pending' = (stop_received /\ pending)
  /\ UNCHANGED <<stop_received, suspend_received, suspended, site, client, suspend_count>>

Drawer ==
  \/ LockDraw \/ RedrawWakes \/ LoopReturns
  \/ (Check \/ CommandWakes) /\ UNCHANGED <<pending, suspend_count>>

Spurious ==
  (ThreadSpurious(AllWaits) \/ ClientSpurious) /\ UNCHANGED <<pending, suspend_count>>

Next == Client \/ Drawer \/ Spurious

(* As for WorkerThread; the client is inside Suspend() between its two     *)
(* critical sections and goes on.                                          *)
Fairness ==
  /\ WF_vars(\E s \in BOOLEAN : StartDraw(s))
  /\ WF_vars(Drawer)
  /\ WF_vars(WaitUntilSuspendedDraw \/ ClientWakesDraw)
  /\ WF_vars(JoinDraw)

Spec == Init /\ [][Next]_vars
FairSpec == Spec /\ Fairness

-----------------------------------------------------------------------------
Promise == INSTANCE SuspendableWork WITH
  wanted <- pending,
  working <- pc = "draw",
  asked <- suspend_received,
  held <- client = "held",
  ending <- stop_received,
  ended <- pc = "done"

ImplementsPromise == Promise!Spec

(* No picture is painted from the return of a Suspend() to the Resume()    *)
(* that undoes the outermost suspension, whatever is nested in between.    *)
NoDrawWhileHeld == client = "held" => suspend_count > 0 /\ pc # "draw"

(* No picture is begun while any suspension is open, be it asked for with  *)
(* or without waiting: an inner Resume() does not let the thread go on.    *)
NoDrawBegins == [][pc # "draw" /\ pc' = "draw" => suspend_count = 0]_vars

(* The flag the thread reads under the mutex agrees with the counter the   *)
(* client keeps outside it.                                                *)
CountMatchesFlag == pc # "new" => (suspend_received <=> suspend_count > 0)

(* Nobody sleeps through a request. *)
NoLostWakeup ==
  /\ pc = "redraw_wait" /\ ~notified => ~pending /\ ~stop_received /\ ~suspend_received
  /\ pc = "command_wait" /\ ~notified => AskedToPause
  /\ client = "waiting" => AskedToPause /\ ~suspended

SuspendReturns == client \in {"entering", "waiting", "woken"} ~> client = "held"

=============================================================================
