-------------------------- MODULE TopographyThread --------------------------
(***************************************************************************)
(* src/src/Topography/Thread.cpp: loads the shapes around the part of the  *)
(* map that is shown, file by file, in a StandbyThread.  GlueMapWindow     *)
(* triggers it whenever the visible area is updated, and replaces it with  *)
(* the TopographyStore.                                                    *)
(*                                                                         *)
(* The map has one dimension here: a screen at scale s reaches 10 * s to   *)
(* both sides.  A file is known by its scale_threshold.  Labels have       *)
(* thresholds too, which only cause more scans; they are left out.         *)
(***************************************************************************)
EXTENDS StandbyThread, Integers, FiniteSetsExt

CONSTANTS
  Screens,  \* the projections: records with a place, at, and a scale
  Files,    \* the files of the store
  None      \* no projection

(* GlueMapWindow, which instantiates this module, assumes it. *)
TopographyAssumption ==
  /\ Screens \subseteq [at: Int, scale: Nat \ {0}]
  /\ Files \subseteq Nat
  /\ None \notin Screens
  \* At the very scale of a threshold, Trigger() and Update() disagree.
  /\ \A p \in Screens : p.scale \notin Files

VARIABLES
  view,      \* visible_projection
  next,      \* next_projection
  last,      \* the projection that last_bounds and scale_threshold are from
  scanning,  \* the projection that ScanVisibility() works on
  cache,     \* for each file, the projection that its cache_bounds are from
  unseen,    \* shapes were loaded since the map was last told to redraw
  main       \* where the main thread is

vars == <<alive, work, busy, stop, th, signalled,
          view, next, last, scanning, cache, unseen, main>>

(* "scan": in ScanVisibility(); "callback": in the callback at the end of  *)
(* Tick(), which redraws the map.  Both without the mutex.                 *)
Ticking == {"scan", "callback"}

TypeOK ==
  /\ StandbyTypeOK(Ticking)
  /\ view \in Screens
  /\ {next, last, scanning} \subseteq Screens \cup {None}
  /\ cache \in [Files -> Screens \cup {None}]
  /\ unseen \in BOOLEAN
  /\ main \in {"idle", "joining"}

Init ==
  /\ StandbyInit
  /\ view \in Screens
  /\ next = None
  /\ last = None
  /\ scanning = None
  /\ cache = [f \in Files |-> None]
  /\ unseen = FALSE
  /\ main = "idle"

-----------------------------------------------------------------------------
(* Projections and files. *)

(* The screen p is inside the bounds of q, scaled by tenths / 10. *)
IsInside(p, q, tenths) ==
  /\ q # None
  /\ q.at - tenths * q.scale <= p.at - 10 * p.scale
  /\ p.at + 10 * p.scale <= q.at + tenths * q.scale

IsVisible(f, p) == p.scale <= f

(* GetNextScaleThreshold(): what is reached next by zooming in, or -1. *)
NextScaleThreshold(p) == Max({f \in Files : ~IsVisible(f, p)} \cup {-1})

(* The file has in its cache what the screen p shows of it. *)
IsCached(f, p) == IsInside(p, cache[f], 20)

VisibleFiles(p) == {f \in Files : IsVisible(f, p)}

-----------------------------------------------------------------------------
(* The main thread. *)

(* Seeded fault: files that zooming in makes visible are not thought of. *)
IsFresh_Bounds == last # None /\ IsInside(view, last, 11)

(* What makes Trigger() return early. *)
IsFresh ==
  /\ last # None
  /\ IsInside(view, last, 11)
  /\ NextScaleThreshold(last) < 0 \/ view.scale >= NextScaleThreshold(last)

TriggerTopography ==
  /\ main = "idle"
  /\ ~IsFresh
  /\ last' = view
  /\ next' = view
  /\ Trigger
  /\ UNCHANGED <<view, scanning, cache, unseen, main>>

(* SetTopography(): LockStop(), and a new store. *)
SetTopography ==
  /\ main = "idle"
  /\ StopAsync
  /\ main' = "joining"
  /\ UNCHANGED <<view, next, last, scanning, cache, unseen>>

SetTopographyReturns ==
  /\ main = "joining"
  /\ Stopped
  /\ main' = "idle"
  /\ alive' = FALSE /\ work' = FALSE /\ busy' = FALSE
  /\ stop' = FALSE /\ th' = "none" /\ signalled' = FALSE
  /\ next' = None /\ last' = None /\ scanning' = None
  /\ cache' = [f \in Files |-> None]
  /\ unseen' = FALSE
  /\ UNCHANGED view

-----------------------------------------------------------------------------
(* The thread. *)

(* Seeded fault: a request that came during Tick() is taken for done. *)
GoesRound_Forgets ==
  \/ th # "callback" /\ BeginsTick("scan", scanning' = next)
  \/ th # "callback" /\ (Ends \/ Sleeps) /\ UNCHANGED scanning
  \/ /\ th = "callback"
     /\ work' = FALSE /\ busy' = FALSE /\ th' = "sleep" /\ signalled' = FALSE
     /\ UNCHANGED <<alive, stop, scanning>>

(* A Tick() begins, or there is none to do. *)
GoesRound ==
  \/ BeginsTick("scan", scanning' = next)
  \/ (Ends \/ Sleeps) /\ UNCHANGED scanning

Run ==
  /\ Enters
  /\ GoesRound
  /\ UNCHANGED <<view, next, last, cache, unseen, main>>

StaleFiles == {f \in VisibleFiles(scanning) : ~IsCached(f, scanning)}

Remembers(files) == cache' = [f \in Files |-> IF f \in files THEN scanning ELSE cache[f]]

(***************************************************************************)
(* ScanVisibility() goes through the files until it has updated one.  It   *)
(* passes over those that turn out to have nothing in the new bounds or    *)
(* cannot be read: their cache_bounds are set nevertheless.                *)
(***************************************************************************)
Scanned(again) ==
  /\ th = "scan"
  /\ \E passed \in SUBSET StaleFiles :
       IF again
       THEN \E f \in StaleFiles \ passed : Remembers(passed \cup {f})
       ELSE passed = StaleFiles /\ Remembers(passed)
  /\ unseen' = (unseen \/ again)
  /\ IF again /\ ~stop
     THEN scanning' = next /\ UNCHANGED th
     ELSE th' = "callback" /\ UNCHANGED scanning
  /\ UNCHANGED <<alive, work, busy, stop, signalled, view, next, last, main>>

(* The map is redrawn; Tick() returns to the loop of Run(). *)
CallbackReturns ==
  /\ th = "callback"
  /\ unseen' = FALSE
  /\ GoesRound
  /\ UNCHANGED <<view, next, last, cache, main>>

-----------------------------------------------------------------------------
Pan ==
  /\ main = "idle"
  /\ view' \in Screens \ {view}
  /\ UNCHANGED <<standby, next, last, scanning, cache, unseen, main>>

MainStep == TriggerTopography \/ SetTopography \/ SetTopographyReturns

ThreadStep == Run \/ CallbackReturns \/ \E again \in BOOLEAN : Scanned(again)

Next == Pan \/ MainStep \/ ThreadStep

Spec == Init /\ [][Next]_vars

(* The thread does not stop, and asleep it waits for its signal. *)
Woken == Run /\ (th = "sleep" => signalled)

ThreadFairness ==
  /\ WF_vars(Woken)
  /\ WF_vars(CallbackReturns)
  /\ WF_vars(\E again \in BOOLEAN : Scanned(again))

-----------------------------------------------------------------------------
IsIdle == th = "sleep" /\ ~work /\ ~stop

(* When the thread has nothing to do, every file that is visible at the    *)
(* projection it was triggered with last has that screen in its cache, and *)
(* the map was redrawn with it, though projections changed during Tick().  *)
IdleMeansScanned ==
  IsIdle => /\ next # None
            /\ \A f \in VisibleFiles(next) : IsCached(f, next)
            /\ ~unseen

(* The files that are visible at p, those included that zooming in made   *)
(* visible, are loaded for a screen that differs from it by a twentieth of *)
(* its width at most.                                                      *)
Scans(p) == IsIdle /\ IsInside(p, next, 11) /\ \A f \in VisibleFiles(p) : IsCached(f, next)

(* Trigger() says of a screen inside last_bounds "the cache is still       *)
(* fresh" (Topography/Thread.cpp:31).                                      *)
StillFresh ==
  IsIdle /\ IsFresh => \A f \in VisibleFiles(view) : IsCached(f, view)
=============================================================================
