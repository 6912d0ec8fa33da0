--------------------------- MODULE TerrainThread ---------------------------
(***************************************************************************)
(* src/src/Terrain/Thread.cpp: loads the terrain around the part of the    *)
(* map that is shown, in a StandbyThread.  GlueMapWindow triggers it       *)
(* whenever the visible area is updated and replaces it when another       *)
(* terrain file is opened.                                                 *)
(*                                                                         *)
(* An area stands for a centre and a radius.  Loading one makes it         *)
(* unnecessary to load another whose centre is less than a kilometre away  *)
(* and whose radius is not larger.                                         *)
(***************************************************************************)
EXTENDS StandbyThread

CONSTANTS
  Areas,  \* what the map can show
  Near,   \* for each area, those that need not be loaded after it
  None    \* GeoPoint::Invalid()

ASSUME TerrainAssumption ==
  /\ None \notin Areas
  /\ Near \in [Areas -> SUBSET Areas]
  /\ \A a \in Areas : a \in Near[a]

VARIABLES
  view,     \* what the map shows
  next,     \* next_center and next_radius
  last,     \* last_center and last_radius
  loading,  \* the area that UpdateTiles() is working on, or that it finished
  loaded,   \* UpdateTiles() has said that loading needs no further call
  unseen,   \* tiles were loaded since the map was last told to redraw
  main      \* where the main thread is

vars == <<alive, work, busy, stop, th, signalled,
          view, next, last, loading, loaded, unseen, main>>

(* "update": in UpdateTiles(); "callback": in the callback at the end of   *)
(* Tick(), which redraws the map.  Both without the mutex.                 *)
Ticking == {"update", "callback"}

TypeOK ==
  /\ StandbyTypeOK(Ticking)
  /\ view \in Areas
  /\ {next, last, loading} \subseteq Areas \cup {None}
  /\ loaded \in BOOLEAN
  /\ unseen \in BOOLEAN
  /\ main \in {"idle", "joining"}

Fresh ==
  /\ next = None
  /\ last = None
  /\ loading = None
  /\ loaded = FALSE
  /\ unseen = FALSE

Init ==
  /\ StandbyInit
  /\ view \in Areas
  /\ Fresh
  /\ main = "idle"

-----------------------------------------------------------------------------
(* The main thread. *)

Pan ==
  /\ main = "idle"
  /\ view' \in Areas \ {view}
  /\ UNCHANGED <<standby, next, last, loading, loaded, unseen, main>>

IsCached == last # None /\ view \in Near[last]

(* UpdateScreenBounds(); it returns early if the area is loaded already. *)
UpdateScreenBounds ==
  /\ main = "idle"
  /\ ~IsCached
  /\ next' = view
  /\ Trigger
  /\ UNCHANGED <<view, last, loading, loaded, unseen, main>>

(* SetTerrain(): LockStop() and "delete". *)
SetTerrain ==
  /\ main = "idle"
  /\ StopAsync
  /\ main' = "joining"
  /\ UNCHANGED <<view, next, last, loading, loaded, unseen>>

SetTerrainReturns ==
  /\ main = "joining"
  /\ Stopped
  /\ main' = "idle"
  /\ alive' = FALSE /\ work' = FALSE /\ busy' = FALSE
  /\ stop' = FALSE /\ th' = "none" /\ signalled' = FALSE
  /\ next' = None /\ last' = None /\ loading' = None
  /\ loaded' = FALSE /\ unseen' = FALSE
  /\ UNCHANGED view

-----------------------------------------------------------------------------
(* The thread. *)

(* Tick() picks up the area that is asked for now. *)
PickNext == loading' = next /\ loaded' = FALSE

TickEnds == Ends \/ Sleeps

Run ==
  /\ Enters
  /\ \/ BeginsTick("update", PickNext)
     \/ TickEnds /\ UNCHANGED <<loading, loaded>>
  /\ UNCHANGED <<view, next, last, unseen, main>>

(* Seeded fault: one call of UpdateTiles() per Tick(). *)
GoesOn_Once(again) == FALSE

GoesOn(again) == again /\ ~stop

(***************************************************************************)
(* UpdateTiles() returns whether it has to be called again; the mutex is   *)
(* taken, what was loaded is remembered, and the loop goes on with the     *)
(* area that is asked for then.                                            *)
(***************************************************************************)
TilesUpdated ==
  /\ th = "update"
  /\ last' = loading
  /\ unseen' = TRUE
  /\ \E again \in BOOLEAN :
       IF GoesOn(again)
       THEN th' = "update" /\ loading' = next /\ loaded' = FALSE
       ELSE th' = "callback" /\ loaded' = ~again /\ UNCHANGED loading
  /\ UNCHANGED <<alive, work, busy, stop, signalled, view, next, main>>

(* Seeded fault: a request that came during Tick() is taken for done. *)
CallbackReturns_Forgets ==
  /\ th = "callback"
  /\ unseen' = FALSE
  /\ work' = FALSE
  /\ busy' = FALSE
  /\ th' = "sleep"
  /\ signalled' = FALSE
  /\ UNCHANGED <<alive, stop, view, next, last, loading, loaded, main>>

(* The map is redrawn; Tick() returns to the loop of Run(). *)
CallbackReturns ==
  /\ th = "callback"
  /\ unseen' = FALSE
  /\ \/ BeginsTick("update", PickNext)
     \/ TickEnds /\ UNCHANGED <<loading, loaded>>
  /\ UNCHANGED <<view, next, last, main>>

-----------------------------------------------------------------------------
Next ==
  \/ Pan \/ UpdateScreenBounds \/ SetTerrain \/ SetTerrainReturns
  \/ Run \/ TilesUpdated \/ CallbackReturns

Spec == Init /\ [][Next]_vars

(***************************************************************************)
(* Fairness.  The thread does not stop, and asleep it waits for its        *)
(* signal; a terrain file has finitely many tiles, so UpdateTiles() says   *)
(* some day that there is nothing left to load.                            *)
(***************************************************************************)
AllTilesUpdated == TilesUpdated /\ th' = "callback"

Woken == Run /\ (th = "sleep" => signalled)

ThreadFairness ==
  /\ WF_vars(Woken)
  /\ WF_vars(AllTilesUpdated)
  /\ WF_vars(CallbackReturns)

-----------------------------------------------------------------------------
(* When the thread has nothing to do and was not told to end, the area it  *)
(* was asked for last is the one it remembers, it is loaded to the end,    *)
(* and the map has been redrawn with it: no request is lost while another  *)
(* is worked on.                                                           *)
IdleMeansLoaded ==
  th = "sleep" /\ ~work /\ ~stop => last = next /\ loaded /\ ~unseen

(* What the map shows is loaded and drawn. *)
Settled(a) == view = a /\ IsCached /\ last = next /\ loaded /\ ~unseen
=============================================================================
