---------------------------- MODULE InjectQueue ----------------------------
(***************************************************************************)
(* What users of an EventLoop rely on (src/src/event/InjectEvent.hxx): an  *)
(* InjectEvent may be scheduled from any thread, is in the loop's queue at *)
(* most once, and the loop's thread calls it, one event at a time and in   *)
(* the order they were scheduled, unless it is cancelled before or the     *)
(* loop is told to stop.  EventLoop.tla implements this with a mutex, a    *)
(* flag and a file descriptor; modules that use a loop extend it.          *)
(***************************************************************************)
EXTENDS SequencesExt

CONSTANTS
  Events,  \* the InjectEvents
  Nobody   \* no event

ASSUME QueueAssumption == Nobody \notin Events

VARIABLES
  inject,   \* the scheduled events
  running,  \* the event whose callback runs
  breaking, \* the loop was told to stop
  ended     \* it has stopped

queueVars == <<inject, running, breaking, ended>>

QueueTypeOK ==
  /\ inject \in Seq(Events)
  /\ IsInjective(inject)
  /\ running \in Events \cup {Nobody}
  /\ breaking \in BOOLEAN
  /\ ended \in BOOLEAN

QueueInit ==
  /\ inject = <<>>
  /\ running = Nobody
  /\ breaking = FALSE
  /\ ended = FALSE

-----------------------------------------------------------------------------
IsPending(e) == \E i \in DOMAIN inject : inject[i] = e

(* Schedule() of an event that is scheduled already does nothing. *)
Scheduled(e) == IF IsPending(e) THEN inject ELSE Append(inject, e)

(* A sequence in which e is at most once, without it. *)
Without(s, e) ==
  IF \E i \in DOMAIN s : s[i] = e
  THEN RemoveAt(s, CHOOSE i \in DOMAIN s : s[i] = e)
  ELSE s

Cancelled(e) == Without(inject, e)

(* The loop takes the first event and calls it. *)
TakeFirst ==
  /\ running = Nobody
  /\ inject # <<>>
  /\ running' = Head(inject)
  /\ inject' = Tail(inject)

-----------------------------------------------------------------------------
Schedule(e) == inject' = Scheduled(e) /\ UNCHANGED <<running, breaking, ended>>

Cancel(e) == inject' = Cancelled(e) /\ UNCHANGED <<running, breaking, ended>>

Take == ~ended /\ TakeFirst /\ UNCHANGED <<breaking, ended>>

(* A callback may schedule events itself, on its way out or before. *)
Return ==
  /\ running # Nobody
  /\ running' = Nobody
  /\ inject' = inject \/ \E e \in Events : inject' = Scheduled(e)
  /\ UNCHANGED <<breaking, ended>>

Break == breaking' = TRUE /\ UNCHANGED <<inject, running, ended>>

End ==
  /\ breaking
  /\ running = Nobody
  /\ ended' = TRUE
  /\ UNCHANGED <<inject, running, breaking>>

QueueNext ==
  \/ \E e \in Events : Schedule(e) \/ Cancel(e)
  \/ Take \/ Return \/ Break \/ End

QueueSafe == QueueInit /\ [][QueueNext]_queueVars

(* What was scheduled gets called, and a callback that was called returns. *)
QueueSpec ==
  /\ QueueSafe
  /\ WF_queueVars(Take)
  /\ WF_queueVars(Return)
=============================================================================
