-------------------------- MODULE SuspendableWork --------------------------
(***************************************************************************)
(* What a worker thread promises to the rest of the program, without       *)
(* mutex, condition variables or waits: requests are merged, a piece of    *)
(* work takes the requests made before it starts, none starts once a pause *)
(* or the end is asked for, and the pause is granted only between two      *)
(* pieces of work.  WorkerThread.tla and DrawThread.tla implement it.      *)
(***************************************************************************)
VARIABLES
  wanted,   \* work was requested and no piece of work has started since
  working,  \* a piece of work is going on
  asked,    \* a pause is asked for
  held,     \* the pause was granted to the caller that asked for it
  ending,   \* the end is asked for
  ended     \* no more work, ever

vars == <<wanted, working, asked, held, ending, ended>>

InitialRequest == wanted \in BOOLEAN

Init ==
  /\ InitialRequest
  /\ ~working /\ ~asked /\ ~held /\ ~ending /\ ~ended

Request ==
  /\ wanted' = TRUE
  /\ UNCHANGED <<working, asked, held, ending, ended>>

Begin ==
  /\ wanted /\ ~working /\ ~asked /\ ~ending /\ ~ended
  /\ wanted' = FALSE
  /\ working' = TRUE
  /\ UNCHANGED <<asked, held, ending, ended>>

Finish ==
  /\ working
  /\ working' = FALSE
  /\ UNCHANGED <<wanted, asked, held, ending, ended>>

(* A pause asked for is granted at once, later, or never if the end is     *)
(* asked for first.  A caller that asks again waits for the grant again.   *)
Ask ==
  /\ asked' = TRUE
  /\ held' \in {FALSE, ~working}
  /\ UNCHANGED <<wanted, working, ending, ended>>

Grant ==
  /\ asked /\ ~working
  /\ held' = TRUE
  /\ UNCHANGED <<wanted, working, asked, ending, ended>>

(* The promise ends with the call of Resume(), not when the thread hears   *)
(* of it.                                                                  *)
Release ==
  /\ asked' = FALSE
  /\ held' = FALSE
  /\ UNCHANGED <<wanted, working, ending, ended>>

End ==
  /\ ending' = TRUE
  /\ held' = FALSE
  /\ UNCHANGED <<wanted, working, asked, ended>>

Exit ==
  /\ ending /\ ~working
  /\ ended' = TRUE
  /\ UNCHANGED <<wanted, working, asked, held, ending>>

Next == Request \/ Begin \/ Finish \/ Ask \/ Grant \/ Release \/ End \/ Exit

Fairness == WF_vars(Begin) /\ WF_vars(Finish) /\ WF_vars(Exit)

Spec == Init /\ [][Next]_vars /\ Fairness

(* The safety part alone, for the proofs. *)
SafeSpec == Init /\ [][Next]_vars

=============================================================================
