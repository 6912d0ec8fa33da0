------------------------------- MODULE Notify -------------------------------
(***************************************************************************)
(* UI::Notify, src/src/ui/event/Notify.cpp, with the calls it has in the   *)
(* UI::EventQueue, src/src/ui/event/poll/Queue.cpp: how another thread     *)
(* makes the main thread call a function.  The flag is atomic and the      *)
(* queue has a mutex, but nothing spans the two: each operator below is    *)
(* one access, and the modules that extend this one let other threads run  *)
(* in between.                                                             *)
(***************************************************************************)
EXTENDS Naturals

VARIABLES
  pending,  \* Notify::pending
  queued    \* how many calls of this Notify are in the event queue

note == <<pending, queued>>

NotifyTypeOK(limit) == pending \in BOOLEAN /\ queued \in 0..limit

NotifyInit == pending = FALSE /\ queued = 0

(* SendNotification(): first the exchange, which yields the old value;     *)
(* then, if that was FALSE, the call is queued.                            *)
ExchangePending == pending' = TRUE /\ UNCHANGED queued

InjectCall == queued' = queued + 1 /\ UNCHANGED pending

(* ClearNotification(): first the purge, then the flag. *)
PurgeCalls == queued' = 0 /\ UNCHANGED pending

ResetPending == pending' = FALSE /\ UNCHANGED queued

(* The event loop pops a call and RunNotification() exchanges the flag; it *)
(* runs the callback if the flag was set.                                  *)
PopCall == queued > 0 /\ queued' = queued - 1 /\ pending' = FALSE

Delivers == pending
=============================================================================
