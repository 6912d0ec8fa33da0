---------------------------- MODULE GlueMapWindow ----------------------------
(***************************************************************************)
(* The two loaders of src/src/MapWindow/GlueMapWindow.cpp together: the    *)
(* map triggers its TerrainThread and its TopographyThread with the same   *)
(* projection, in the same call, and waits for one of them while it        *)
(* replaces what it loads.                                                 *)
(***************************************************************************)
EXTENDS TerrainThread, Integers

CONSTANT Files  \* see TopographyThread

VARIABLES
  topo_alive, topo_work, topo_busy, topo_stop, topo_th, topo_signalled,
  topo_next, topo_last, topo_scanning, topo_cache, topo_unseen, topo_main

Topo == INSTANCE TopographyThread WITH
  Screens <- Areas, alive <- topo_alive, work <- topo_work, busy <- topo_busy,
  stop <- topo_stop, th <- topo_th, signalled <- topo_signalled,
  next <- topo_next, last <- topo_last, scanning <- topo_scanning,
  cache <- topo_cache, unseen <- topo_unseen, main <- topo_main

ASSUME MapAssumption == Topo!TopographyAssumption

topography == <<topo_alive, topo_work, topo_busy, topo_stop, topo_th, topo_signalled,
                topo_next, topo_last, topo_scanning, topo_cache, topo_unseen, topo_main>>
mapVars == <<vars, topography>>

(* A map that is zoomed out, and two places to zoom in to that are in its  *)
(* sight; for TerrainThread they are a kilometre apart or more.            *)
Views == {[at |-> 0, scale |-> 4], [at |-> 0, scale |-> 2], [at |-> 20, scale |-> 2]}

(* A map that is moved, far and then by a small step. *)
MovedViews == [at: {0, 20, 21}, scale: {2}]

NearOf(views) ==
  [v \in views |-> {w \in views : w.at = v.at /\ w.scale <= v.scale}]

NearViews == NearOf(Views)
NearMovedViews == NearOf(MovedViews)

MapInit == Init /\ Topo!Init

-----------------------------------------------------------------------------
MainIsIdle == main = "idle" /\ topo_main = "idle"

UnchangedTopography == UNCHANGED topography
UnchangedTerrain == UNCHANGED <<standby, next, last, loading, loaded, unseen, main>>

PanMap == topo_main = "idle" /\ Pan /\ UnchangedTopography

(* GlueMapWindow::UpdateScreenBounds(): either Trigger() may return early. *)
TriggerBoth ==
  /\ Topo!TriggerTopography \/ (Topo!IsFresh /\ UnchangedTopography)
  /\ UpdateScreenBounds \/ (IsCached /\ UnchangedTerrain)

MapUpdates == MainIsIdle /\ TriggerBoth /\ UNCHANGED view

ReplacesTerrain ==
  /\ topo_main = "idle"
  /\ SetTerrain \/ SetTerrainReturns
  /\ UnchangedTopography

ReplacesTopography ==
  /\ main = "idle"
  /\ Topo!SetTopography \/ Topo!SetTopographyReturns
  /\ UnchangedTerrain

TerrainRuns == (Run \/ TilesUpdated \/ CallbackReturns) /\ UnchangedTopography

TopographyRuns == Topo!ThreadStep /\ UnchangedTerrain

MapNext ==
  \/ PanMap \/ MapUpdates \/ ReplacesTerrain \/ ReplacesTopography
  \/ TerrainRuns \/ TopographyRuns

(***************************************************************************)
(* Fairness.  The visible area is updated with every GPS fix, the main     *)
(* thread returns from Join() when the thread has ended.  The user may pan *)
(* or open other files for ever, or not.                                   *)
(***************************************************************************)
MapSpec ==
  /\ MapInit
  /\ [][MapNext]_mapVars
  /\ WF_mapVars(MapUpdates)
  /\ WF_mapVars(topo_main = "idle" /\ SetTerrainReturns /\ UnchangedTopography)
  /\ WF_mapVars(main = "idle" /\ Topo!SetTopographyReturns /\ UnchangedTerrain)
  /\ ThreadFairness
  /\ Topo!ThreadFairness

-----------------------------------------------------------------------------
(* Nothing the map was asked to load is lost: see TopographyThread.        *)
IdleMeansScanned == Topo!IdleMeansScanned
StillFresh == Topo!StillFresh

(* If the user keeps the view and the files, the terrain gets loaded, and  *)
(* the shapes of the files that are visible there, and the map is redrawn  *)
(* with them, whatever was asked for before.                               *)
KeepsView(v) == <>[](view = v /\ MainIsIdle)

ViewGetsLoaded == \A v \in Areas : KeepsView(v) => <>[]Settled(v)

ViewGetsScanned ==
  \A v \in Areas : KeepsView(v) => <>[](Topo!Scans(v) /\ ~topo_unseen)

(* Neither replacement hangs, while the other thread loads.                *)
ReplacementEnds == ~MainIsIdle ~> MainIsIdle
=============================================================================
