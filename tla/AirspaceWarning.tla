-------------------------- MODULE AirspaceWarning --------------------------
(***************************************************************************)
(* src/src/Engine/Airspace/AirspaceWarning.cpp: what the warning manager   *)
(* remembers of one airspace, and how acknowledgements silence it.  The    *)
(* three kinds of prediction, task, filter and glide, differ only in how   *)
(* they are computed and are one state here; clearances, which another     *)
(* pilot action grants, are left out.                                      *)
(***************************************************************************)
EXTENDS Naturals

CONSTANT AckTime  \* AirspaceWarningConfig::acknowledgement_time

ASSUME AckTimeAssumption == AckTime \in Nat

Clear == 0
Near == 1
Inside == 2
States == {Clear, Near, Inside}

(* null_acktime, the largest duration: an acknowledgement the manager has  *)
(* not given its time yet.                                                 *)
Forever == AckTime + 1

Entries == [state : States, warning : 0..Forever, inside : 0..Forever,
            day : BOOLEAN, expired : BOOLEAN]

NewEntry ==
  [state |-> Clear, warning |-> 0, inside |-> 0, day |-> FALSE, expired |-> TRUE]

IsAckExpired(w) ==
  /\ ~w.day
  /\ w.state = Near => w.warning = 0
  /\ w.state = Inside => w.inside = 0

IsActive(w) == w.state # Clear /\ IsAckExpired(w)

Noted(w) == [w EXCEPT !.expired = IsAckExpired(w)]

AckWarning(w, set) == Noted([w EXCEPT !.warning = IF set THEN Forever ELSE 0])
AckInside(w, set) == Noted([w EXCEPT !.inside = IF set THEN Forever ELSE 0])
AckDay(w, set) == Noted([w EXCEPT !.day = set])

(* AirspaceWarning::Acknowledge(): the level the aircraft is at. *)
AckLevel(w) ==
  CASE w.state = Inside -> AckInside(w, TRUE)
    [] w.state = Near   -> AckWarning(w, TRUE)
    [] OTHER            -> w

-----------------------------------------------------------------------------
Granted(time) == IF time = Forever THEN AckTime ELSE time
Left(time, dt) == IF time > dt THEN time - dt ELSE 0
Longer(s, t) == IF s > t THEN s ELSE t

(* Seeded fault: leaving the airspace does not carry the acknowledgement   *)
(* of being inside over to the warning of being near.                      *)
Live_NoCarry(w, last, dt) ==
  Noted([w EXCEPT !.warning = Left(Granted(w.warning), dt),
                  !.inside = Left(Granted(w.inside), dt)])

(* WarningLive(): time passes for the acknowledgements, and who            *)
(* acknowledged being inside need not acknowledge being near on the way    *)
(* out.  `last' is the state before this cycle.                            *)
Live(w, last, dt) ==
  LET leaves == w.state = Near /\ last = Inside
      inside == Granted(w.inside)
      warning == IF leaves THEN Longer(Granted(w.warning), inside) ELSE Granted(w.warning)
  IN Noted([w EXCEPT !.warning = Left(warning, dt), !.inside = Left(inside, dt)])

(* What WarningLive() returns. *)
IsLive(w) == w.state = Clear => ~w.expired

(* Seeded fault: an acknowledgement that runs out is not a change. *)
ChangedState_Entered(w, before) == before.state < w.state /\ IsAckExpired(w)

(* ChangedState(): the warning starts, becomes more urgent, or is          *)
(* acknowledged no longer.                                                 *)
ChangedState(w, before) ==
  \/ w.expired # before.expired
  \/ before.state < w.state /\ IsAckExpired(w)

=============================================================================
