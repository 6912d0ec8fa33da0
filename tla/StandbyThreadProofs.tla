------------------------ MODULE StandbyThreadProofs ------------------------
(***************************************************************************)
(* The users of StandbyThread, for any set of areas, of files and of       *)
(* layers.  The terrain thread on its own comes first (Spec is             *)
(* TerrainThread's), then the two loaders behind the map (MapSpec), which  *)
(* keep what either of them promises, then the SkySight decoder            *)
(* (DecodeSpec).                                                           *)
(*                                                                         *)
(* TerrainThread and SkySightDecode both extend StandbyThread, so alive,   *)
(* work, ... are the members of the thread that a theorem is about.        *)
(***************************************************************************)
EXTENDS GlueMapWindow, SkySightDecode, TLAPS

(* What the operations of StandbyThread do to its flags, whatever the      *)
(* positions of the Tick() are.                                            *)
LEMMA TriggerKeeps ==
  ASSUME NEW ticking, ticking \cap StandbyPlaces = {}, StandbyTypeOK(ticking), Trigger
  PROVE  /\ StandbyTypeOK(ticking)'
         /\ work' = TRUE /\ stop' = FALSE
         /\ th' = (IF alive THEN th ELSE "start")
BY DEF StandbyTypeOK, StandbyPlaces, Trigger, TriggerCommand

LEMMA TriggerThrowsKeeps ==
  ASSUME NEW ticking, StandbyTypeOK(ticking), TriggerThrows
  PROVE  /\ StandbyTypeOK(ticking)'
         /\ work' = TRUE /\ stop' = FALSE /\ th' = th
BY DEF StandbyTypeOK, TriggerThrows

LEMMA StopAsyncKeeps ==
  ASSUME NEW ticking, StandbyTypeOK(ticking), StopAsync
  PROVE  /\ StandbyTypeOK(ticking)'
         /\ work' = FALSE /\ stop' = TRUE /\ th' = th
BY DEF StandbyTypeOK, StopAsync, TriggerCommand

LEMMA JoinThreadKeeps ==
  ASSUME NEW ticking, ticking \cap StandbyPlaces = {}, StandbyTypeOK(ticking),
         Stopped, JoinThread
  PROVE  /\ StandbyTypeOK(ticking)'
         /\ th' = "none" /\ UNCHANGED <<work, stop>>
BY DEF StandbyTypeOK, StandbyPlaces, Stopped, JoinThread

LEMMA BeginsTickKeeps ==
  ASSUME NEW ticking, NEW first \in ticking, NEW ACTION Part,
         ticking \cap StandbyPlaces = {}, StandbyTypeOK(ticking),
         th \in {"start", "sleep"} \cup ticking, BeginsTick(first, Part)
  PROVE  /\ StandbyTypeOK(ticking)'
         /\ work = TRUE /\ work' = FALSE
         /\ th' = first /\ UNCHANGED stop
BY DEF StandbyTypeOK, StandbyPlaces, BeginsTick

LEMMA EndsKeeps ==
  ASSUME NEW ticking, ticking \cap StandbyPlaces = {}, StandbyTypeOK(ticking), Ends
  PROVE  /\ StandbyTypeOK(ticking)'
         /\ stop = TRUE /\ th' = "exit" /\ UNCHANGED <<work, stop>>
BY DEF StandbyTypeOK, StandbyPlaces, Ends

LEMMA SleepsKeeps ==
  ASSUME NEW ticking, ticking \cap StandbyPlaces = {}, StandbyTypeOK(ticking),
         th \in {"start", "sleep"} \cup ticking, Sleeps
  PROVE  /\ StandbyTypeOK(ticking)'
         /\ stop = FALSE /\ work = FALSE /\ th' = "sleep" /\ UNCHANGED <<work, stop>>
BY DEF StandbyTypeOK, StandbyPlaces, Sleeps

(* Nobody is asleep with something to do, unless a signal is on its way.   *)
Awake == th = "sleep" /\ (work \/ stop) => signalled

(* Whoever changes work or stop signals a sleeper in the same critical     *)
(* section, and the thread looks at both before it sleeps.                 *)
LEMMA CallsWake ==
  ASSUME NEW ticking, ticking \cap StandbyPlaces = {}, StandbyTypeOK(ticking),
         Trigger \/ TriggerThrows \/ StopAsync \/ JoinThread
  PROVE  Awake'
BY DEF Awake, StandbyTypeOK, StandbyPlaces, Trigger, TriggerThrows, StopAsync, TriggerCommand,
       JoinThread

LEMMA TurnsWake ==
  ASSUME NEW ticking, NEW first \in ticking, NEW ACTION Part,
         ticking \cap StandbyPlaces = {},
         BeginsTick(first, Part) \/ Ends \/ Sleeps
  PROVE  Awake'
BY DEF Awake, StandbyPlaces, BeginsTick, Ends, Sleeps

-----------------------------------------------------------------------------
(***************************************************************************)
(* The inductive invariant of the terrain thread.  No request is lost      *)
(* because the thread is always either behind and knows it (work), or      *)
(* working on the area that was asked for last; a thread that was told to  *)
(* end owes nothing.                                                       *)
(***************************************************************************)
Owing == work \/ stop

Current ==
  /\ th = "start" => Owing
  /\ th = "update" => Owing \/ loading = next
  /\ th = "callback" => Owing \/ (loading = next /\ last = next /\ loaded)
  /\ th = "sleep" => Owing \/ (last = next /\ loaded /\ ~unseen)

(* The areas alone: they are only ever copied from one another.            *)
AreasOK ==
  /\ view \in Areas
  /\ next \in Areas \cup {None}
  /\ last \in Areas \cup {None}
  /\ loading \in Areas \cup {None}

(* The thread's flags and its position agree. *)
FlagsOK ==
  /\ StandbyTypeOK(Ticking)
  /\ loaded \in BOOLEAN
  /\ unseen \in BOOLEAN
  /\ main \in {"idle", "joining"}

-----------------------------------------------------------------------------
LEMMA InitOK == Init => AreasOK /\ FlagsOK /\ Current
BY DEF Init, StandbyInit, Fresh, AreasOK, FlagsOK, Current, StandbyTypeOK,
       StandbyPlaces, Ticking

LEMMA StepAreas == AreasOK /\ [Next]_vars => AreasOK'
<1> SUFFICES ASSUME AreasOK, [Next]_vars PROVE AreasOK'
    OBVIOUS
<1> USE DEF AreasOK
<1>1. CASE Pan
      BY <1>1 DEF Pan
<1>2. CASE UpdateScreenBounds
      BY <1>2 DEF UpdateScreenBounds
<1>3. CASE SetTerrain
      BY <1>3 DEF SetTerrain
<1>4. CASE SetTerrainReturns
      BY <1>4 DEF SetTerrainReturns
<1>5. CASE Run
      BY <1>5 DEF Run, BeginsTick, PickNext
<1>6. CASE TilesUpdated
      BY <1>6 DEF TilesUpdated
<1>7. CASE CallbackReturns
      BY <1>7 DEF CallbackReturns, BeginsTick, PickNext
<1>8. CASE UNCHANGED vars
      BY <1>8 DEF vars
<1>9. QED
      BY <1>1, <1>2, <1>3, <1>4, <1>5, <1>6, <1>7, <1>8 DEF Next

LEMMA StepFlags == FlagsOK /\ [Next]_vars => FlagsOK'
<1> SUFFICES ASSUME FlagsOK, [Next]_vars PROVE FlagsOK'
    OBVIOUS
<1> USE DEF FlagsOK
<1>0. Ticking \cap StandbyPlaces = {} /\ "update" \in Ticking
      BY DEF Ticking, StandbyPlaces
<1>1. CASE Pan
      BY <1>1 DEF Pan, standby, StandbyTypeOK
<1>2. CASE UpdateScreenBounds
      BY <1>0, <1>2, TriggerKeeps DEF UpdateScreenBounds
<1>3. CASE SetTerrain
      BY <1>3, StopAsyncKeeps DEF SetTerrain
<1>4. CASE SetTerrainReturns
      BY <1>0, <1>4 DEF SetTerrainReturns, StandbyTypeOK, StandbyPlaces
<1>5. CASE Run \/ CallbackReturns
  <2>1. th \in {"start", "sleep"} \cup Ticking
        BY <1>5 DEF Run, CallbackReturns, Enters, Ticking
  <2>2. StandbyTypeOK(Ticking)'
        BY <1>0, <1>5, <2>1, BeginsTickKeeps, EndsKeeps, SleepsKeeps
        DEF Run, CallbackReturns, TickEnds
  <2>3. UNCHANGED main /\ loaded' \in BOOLEAN /\ unseen' \in BOOLEAN
        BY <1>5 DEF Run, CallbackReturns, BeginsTick, PickNext
  <2>4. QED
        BY <2>2, <2>3
<1>6. CASE TilesUpdated
      BY <1>6 DEF TilesUpdated, GoesOn, StandbyTypeOK, StandbyPlaces, Ticking
<1>7. CASE UNCHANGED vars
      BY <1>7 DEF vars, StandbyTypeOK
<1>8. QED
      BY <1>1, <1>2, <1>3, <1>4, <1>5, <1>6, <1>7 DEF Next

LEMMA StepCurrent == FlagsOK /\ Current /\ [Next]_vars => Current'
<1> SUFFICES ASSUME FlagsOK, Current, [Next]_vars PROVE Current'
    OBVIOUS
<1> USE DEF Current, Owing
<1>1. CASE Pan
      BY <1>1 DEF Pan, standby
<1>2. CASE UpdateScreenBounds
      BY <1>2 DEF UpdateScreenBounds, Trigger
<1>3. CASE SetTerrain
      BY <1>3 DEF SetTerrain, StopAsync
<1>4. CASE SetTerrainReturns
      BY <1>4 DEF SetTerrainReturns
<1>5. CASE Run
  <2>1. CASE BeginsTick("update", PickNext)
        BY <1>5, <2>1 DEF Run, BeginsTick, PickNext
  <2>2. CASE TickEnds /\ UNCHANGED <<loading, loaded>>
        BY <1>5, <2>2 DEF Run, TickEnds, Ends, Sleeps, Enters
  <2>3. QED
        BY <1>5, <2>1, <2>2 DEF Run
<1>6. CASE TilesUpdated
  <2>1. PICK again \in BOOLEAN :
          IF GoesOn(again)
          THEN th' = "update" /\ loading' = next /\ loaded' = FALSE
          ELSE th' = "callback" /\ loaded' = ~again /\ UNCHANGED loading
        BY <1>6 DEF TilesUpdated
  <2>2. CASE GoesOn(again)
        BY <1>6, <2>1, <2>2 DEF TilesUpdated
  <2>3. CASE ~GoesOn(again)
        BY <1>6, <2>1, <2>3 DEF TilesUpdated, GoesOn
  <2>4. QED
        BY <2>2, <2>3
<1>7. CASE CallbackReturns
  <2>1. CASE BeginsTick("update", PickNext)
        BY <1>7, <2>1 DEF CallbackReturns, BeginsTick, PickNext
  <2>2. CASE TickEnds /\ UNCHANGED <<loading, loaded>>
        BY <1>7, <2>2 DEF CallbackReturns, TickEnds, Ends, Sleeps
  <2>3. QED
        BY <1>7, <2>1, <2>2 DEF CallbackReturns
<1>8. CASE UNCHANGED vars
      BY <1>8 DEF vars
<1>9. QED
      BY <1>1, <1>2, <1>3, <1>4, <1>5, <1>6, <1>7, <1>8 DEF Next

-----------------------------------------------------------------------------
(* The members keep their types, and the flags of StandbyThread always say *)
(* where its thread is (the assertions of Run() and of the destructor).    *)
THEOREM TerrainTypeCorrect == Spec => []TypeOK
<1>1. AreasOK /\ FlagsOK => TypeOK
      BY DEF AreasOK, FlagsOK, TypeOK
<1>2. QED
      BY <1>1, InitOK, StepAreas, StepFlags, PTL DEF Spec

(* A thread with nothing to do has loaded the area it was asked for last,  *)
(* to the end, and has had the map redrawn: requests that come while it    *)
(* works (Trigger() in the middle of Tick()) are not lost.                 *)
THEOREM RequestsAreServed == Spec => []IdleMeansLoaded
<1>1. Current => IdleMeansLoaded
      BY DEF Current, Owing, IdleMeansLoaded
<1>2. QED
      BY <1>1, InitOK, StepFlags, StepCurrent, PTL DEF Spec

(* Stop() has told the thread to end, and nobody triggers it any more.     *)
Joins == main = "joining" => stop /\ ~work

LEMMA StepAwake == FlagsOK /\ Awake /\ Joins /\ [Next]_vars => Awake' /\ Joins'
<1> SUFFICES ASSUME FlagsOK, Awake, Joins, [Next]_vars PROVE Awake' /\ Joins'
    OBVIOUS
<1>0. /\ Ticking \cap StandbyPlaces = {} /\ "update" \in Ticking
      /\ StandbyTypeOK(Ticking)
      BY DEF Ticking, StandbyPlaces, FlagsOK
<1>1. CASE Pan \/ UNCHANGED vars
      BY <1>1 DEF Pan, standby, vars, Awake, Joins
<1>2. CASE UpdateScreenBounds
      BY <1>0, <1>2, CallsWake DEF UpdateScreenBounds, Joins
<1>3. CASE SetTerrain
  <2>1. Awake'
        BY <1>0, <1>3, CallsWake DEF SetTerrain
  <2>2. QED
        BY <1>3, <2>1 DEF SetTerrain, StopAsync, Joins
<1>4. CASE SetTerrainReturns
      BY <1>4 DEF SetTerrainReturns, Awake, Joins
<1>5. CASE Run \/ CallbackReturns
  <2>1. BeginsTick("update", PickNext) \/ Ends \/ Sleeps
        BY <1>5 DEF Run, CallbackReturns, TickEnds
  <2>2. Awake'
        BY <1>0, <2>1, TurnsWake
  <2>3. UNCHANGED main /\ UNCHANGED stop /\ (work' => work)
        BY <1>5, <2>1 DEF Run, CallbackReturns, BeginsTick, Ends, Sleeps
  <2>4. QED
        BY <2>2, <2>3 DEF Joins
<1>6. CASE TilesUpdated
      BY <1>6 DEF TilesUpdated, Awake, Joins
<1>7. QED
      BY <1>1, <1>2, <1>3, <1>4, <1>5, <1>6 DEF Next

-----------------------------------------------------------------------------
(* For the terrain thread, the map is a main thread like any other.        *)
LEMMA TerrainStep == [MapNext]_mapVars => [Next]_vars
<1> SUFFICES ASSUME [MapNext]_mapVars PROVE [Next]_vars
    OBVIOUS
<1> USE DEF Next
<1>1. CASE PanMap
      BY <1>1 DEF PanMap
<1>2. CASE MapUpdates
      BY <1>2 DEF MapUpdates, TriggerBoth, UnchangedTerrain, standby, vars
<1>3. CASE ReplacesTerrain
      BY <1>3 DEF ReplacesTerrain
<1>4. CASE ReplacesTopography
      BY <1>4 DEF ReplacesTopography, UnchangedTerrain, standby, vars,
                  Topo!SetTopography, Topo!SetTopographyReturns
<1>5. CASE TerrainRuns
      BY <1>5 DEF TerrainRuns
<1>6. CASE TopographyRuns
      BY <1>6 DEF TopographyRuns, UnchangedTerrain, standby, vars,
                  Topo!ThreadStep, Topo!Run, Topo!CallbackReturns, Topo!Scanned
<1>7. CASE UNCHANGED mapVars
      BY <1>7 DEF mapVars
<1>8. QED
      BY <1>1, <1>2, <1>3, <1>4, <1>5, <1>6, <1>7 DEF MapNext

(* A terrain thread with nothing to do has loaded what it was asked for    *)
(* last, whatever the topography thread does meanwhile.                    *)
THEOREM TerrainIsLoaded == MapSpec => []IdleMeansLoaded
<1>1. MapSpec => Spec
      BY TerrainStep, PTL DEF MapSpec, MapInit, Spec
<1>2. QED
      BY <1>1, RequestsAreServed

(* The terrain thread never sleeps through a request or through Stop(),    *)
(* and a map that waits in Stop() waits for a thread that was told to end: *)
(* what ReplacementEnds and ViewGetsLoaded rest on.                        *)
THEOREM TerrainWakesUp ==
  MapSpec => []( /\ th = "sleep" /\ (work \/ stop) => signalled
                 /\ main = "joining" => stop /\ ~work )
<1>1. MapSpec => Spec
      BY TerrainStep, PTL DEF MapSpec, MapInit, Spec
<1>2. Init => Awake /\ Joins
      BY DEF Init, StandbyInit, Awake, Joins
<1>3. Awake /\ Joins => /\ th = "sleep" /\ (work \/ stop) => signalled
                        /\ main = "joining" => stop /\ ~work
      BY DEF Awake, Joins
<1>4. QED
      BY <1>1, <1>2, <1>3, InitOK, StepFlags, StepAwake, PTL DEF Spec

-----------------------------------------------------------------------------
(* For the topography thread, the map is a main thread like any other.     *)
LEMMA TopographyStep == [MapNext]_mapVars => [Topo!Next]_(Topo!vars)
<1> SUFFICES ASSUME [MapNext]_mapVars PROVE [Topo!Next]_(Topo!vars)
    OBVIOUS
<1> USE DEF Topo!Next, Topo!MainStep, topography
<1>1. CASE PanMap
      BY <1>1 DEF PanMap, Pan, UnchangedTopography, Topo!Pan, Topo!standby
<1>2. CASE MapUpdates
      BY <1>2 DEF MapUpdates, TriggerBoth, UnchangedTopography, Topo!vars
<1>3. CASE ReplacesTerrain
      BY <1>3 DEF ReplacesTerrain, SetTerrain, SetTerrainReturns,
                  UnchangedTopography, Topo!vars
<1>4. CASE ReplacesTopography
      BY <1>4 DEF ReplacesTopography
<1>5. CASE TerrainRuns
      BY <1>5 DEF TerrainRuns, Run, TilesUpdated, CallbackReturns,
                  UnchangedTopography, Topo!vars
<1>6. CASE TopographyRuns
      BY <1>6 DEF TopographyRuns
<1>7. CASE UNCHANGED mapVars
      BY <1>7 DEF mapVars, vars, Topo!vars
<1>8. QED
      BY <1>1, <1>2, <1>3, <1>4, <1>5, <1>6, <1>7 DEF MapNext

(***************************************************************************)
(* The inductive invariant.  The thread is behind and knows it (work), or  *)
(* works on the projection it was asked for last; when it leaves           *)
(* ScanVisibility() for a reason other than Stop(), no file was left over. *)
(***************************************************************************)
TopoOwing == topo_work \/ topo_stop

AllCached == \A f \in Topo!VisibleFiles(topo_next) : Topo!IsCached(f, topo_next)

TopoCurrent ==
  /\ topo_th = "start" => TopoOwing
  /\ topo_th = "scan" => TopoOwing \/ topo_scanning = topo_next
  /\ topo_th = "callback" => TopoOwing \/ (topo_scanning = topo_next /\ AllCached)
  /\ topo_th = "sleep" => TopoOwing \/ (AllCached /\ ~topo_unseen)

(* A thread that exists was asked for something, and Tick() took it up.    *)
ScreensOK ==
  /\ view \in Areas
  /\ topo_next \in Areas \cup {None}
  /\ topo_last \in Areas \cup {None}
  /\ topo_scanning \in Areas \cup {None}
  /\ topo_cache \in [Files -> Areas \cup {None}]
  /\ topo_th # "none" => topo_next \in Areas
  /\ topo_th \in Topo!Ticking => topo_scanning \in Areas

(* The thread's flags and its position agree. *)
TopoFlagsOK ==
  /\ Topo!StandbyTypeOK(Topo!Ticking)
  /\ topo_alive => topo_th # "none"
  /\ topo_unseen \in BOOLEAN
  /\ topo_main \in {"idle", "joining"}

-----------------------------------------------------------------------------
(* What was loaded for a screen reaches beyond that screen.                *)
LEMMA InsideItself ==
  ASSUME Topo!TopographyAssumption, NEW p \in Areas
  PROVE  Topo!IsInside(p, p, 20)
<1>1. p # None /\ p.at \in Int /\ p.scale \in Nat \ {0}
      BY DEF Topo!TopographyAssumption
<1>2. p.at - 20 * p.scale <= p.at - 10 * p.scale
      BY <1>1
<1>3. p.at + 10 * p.scale <= p.at + 20 * p.scale
      BY <1>1
<1>4. QED
      BY <1>1, <1>2, <1>3 DEF Topo!IsInside

LEMMA TopoInitOK == Topo!Init => ScreensOK /\ TopoFlagsOK /\ TopoCurrent
<1>1. Topo!Init => ScreensOK
      BY DEF Topo!Init, Topo!StandbyInit, ScreensOK, Topo!Ticking
<1>2. Topo!Init => TopoFlagsOK
      BY DEF Topo!Init, Topo!StandbyInit, TopoFlagsOK, Topo!StandbyTypeOK, Topo!StandbyPlaces, Topo!Ticking
<1>3. Topo!Init => TopoCurrent
      BY DEF Topo!Init, Topo!StandbyInit, TopoCurrent
<1>4. QED
      BY <1>1, <1>2, <1>3

LEMMA TopoStepFlags == TopoFlagsOK /\ [Topo!Next]_(Topo!vars) => TopoFlagsOK'
<1> SUFFICES ASSUME TopoFlagsOK, [Topo!Next]_(Topo!vars) PROVE TopoFlagsOK'
    OBVIOUS
<1> USE DEF TopoFlagsOK, Topo!StandbyTypeOK, Topo!StandbyPlaces, Topo!Ticking
<1>1. CASE Topo!Pan
      BY <1>1 DEF Topo!Pan, Topo!standby
<1>2. CASE Topo!TriggerTopography
      BY <1>2 DEF Topo!TriggerTopography, Topo!Trigger, Topo!TriggerCommand
<1>3. CASE Topo!SetTopography
      BY <1>3 DEF Topo!SetTopography, Topo!StopAsync, Topo!TriggerCommand
<1>4. CASE Topo!SetTopographyReturns
      BY <1>4 DEF Topo!SetTopographyReturns
<1>5. CASE Topo!Run
  <2>1. CASE Topo!BeginsTick("scan", topo_scanning' = topo_next)
        BY <1>5, <2>1 DEF Topo!Run, Topo!BeginsTick, Topo!Enters
  <2>2. CASE Topo!Ends
        BY <1>5, <2>2 DEF Topo!Run, Topo!Ends, Topo!Enters
  <2>3. CASE Topo!Sleeps
        BY <1>5, <2>3 DEF Topo!Run, Topo!Sleeps, Topo!Enters
  <2>4. QED
        BY <1>5, <2>1, <2>2, <2>3 DEF Topo!Run, Topo!GoesRound
<1>6. CASE Topo!CallbackReturns
  <2>1. CASE Topo!BeginsTick("scan", topo_scanning' = topo_next)
        BY <1>6, <2>1 DEF Topo!CallbackReturns, Topo!BeginsTick
  <2>2. CASE Topo!Ends
        BY <1>6, <2>2 DEF Topo!CallbackReturns, Topo!Ends
  <2>3. CASE Topo!Sleeps
        BY <1>6, <2>3 DEF Topo!CallbackReturns, Topo!Sleeps
  <2>4. QED
        BY <1>6, <2>1, <2>2, <2>3 DEF Topo!CallbackReturns, Topo!GoesRound
<1>7. ASSUME NEW again \in BOOLEAN, Topo!Scanned(again) PROVE TopoFlagsOK'
      BY <1>7 DEF Topo!Scanned
<1>8. CASE UNCHANGED Topo!vars
      BY <1>8 DEF Topo!vars
<1>9. QED
      BY <1>1, <1>2, <1>3, <1>4, <1>5, <1>6, <1>7, <1>8
      DEF Topo!Next, Topo!MainStep, Topo!ThreadStep

-----------------------------------------------------------------------------
(* ScanVisibility() changes the cache_bounds of files to its projection.   *)
LEMMA ScannedCache ==
  ASSUME Topo!TopographyAssumption, ScreensOK, NEW again \in BOOLEAN, Topo!Scanned(again)
  PROVE  /\ topo_cache' \in [Files -> Areas \cup {None}]
         /\ ~again => \A f \in Topo!VisibleFiles(topo_scanning) : Topo!IsCached(f, topo_scanning)'
<1>0. /\ topo_scanning \in Areas
      /\ topo_cache \in [Files -> Areas \cup {None}]
      BY DEF Topo!Scanned, ScreensOK, Topo!Ticking
<1>1. \A stale : Topo!Remembers(stale) => topo_cache' \in [Files -> Areas \cup {None}]
      BY <1>0 DEF Topo!Remembers
<1>2. topo_cache' \in [Files -> Areas \cup {None}]
      BY <1>1 DEF Topo!Scanned
<1>3. ASSUME ~again, NEW f \in Topo!VisibleFiles(topo_scanning)
      PROVE  Topo!IsInside(topo_scanning, topo_cache'[f], 20)
  <2>1. Topo!Remembers(Topo!StaleFiles)
        BY <1>3 DEF Topo!Scanned
  <2>2. f \in Files
        BY <1>3 DEF Topo!VisibleFiles
  <2>3. CASE f \in Topo!StaleFiles
        BY <1>0, <2>1, <2>2, <2>3, InsideItself DEF Topo!Remembers
  <2>4. CASE f \notin Topo!StaleFiles
    <3>1. topo_cache'[f] = topo_cache[f]
          BY <2>1, <2>2, <2>4 DEF Topo!Remembers
    <3>2. Topo!IsInside(topo_scanning, topo_cache[f], 20)
          BY <1>3, <2>4 DEF Topo!StaleFiles, Topo!IsCached
    <3>3. QED
          BY <3>1, <3>2
  <2>5. QED
        BY <2>3, <2>4
<1>4. ASSUME ~again PROVE topo_scanning' = topo_scanning
      BY <1>4 DEF Topo!Scanned
<1>5. QED
      BY <1>2, <1>3, <1>4 DEF Topo!IsCached, Topo!VisibleFiles

LEMMA TopoStepScreens ==
  ASSUME Topo!TopographyAssumption
  PROVE  ScreensOK /\ TopoFlagsOK /\ [Topo!Next]_(Topo!vars) => ScreensOK'
<1> SUFFICES ASSUME ScreensOK, TopoFlagsOK, [Topo!Next]_(Topo!vars) PROVE ScreensOK'
    OBVIOUS
<1> USE DEF ScreensOK, Topo!Ticking
<1>1. CASE Topo!Pan
      BY <1>1 DEF Topo!Pan, Topo!standby
<1>2. CASE Topo!TriggerTopography
      BY <1>2 DEF Topo!TriggerTopography, Topo!Trigger, TopoFlagsOK
<1>3. CASE Topo!SetTopography
      BY <1>3 DEF Topo!SetTopography, Topo!StopAsync
<1>4. CASE Topo!SetTopographyReturns
      BY <1>4 DEF Topo!SetTopographyReturns
<1>5. CASE Topo!Run
      BY <1>5 DEF Topo!Run, Topo!Enters, Topo!GoesRound, Topo!BeginsTick, Topo!Ends, Topo!Sleeps
<1>6. CASE Topo!CallbackReturns
      BY <1>6 DEF Topo!CallbackReturns, Topo!GoesRound, Topo!BeginsTick, Topo!Ends, Topo!Sleeps
<1>7. ASSUME NEW again \in BOOLEAN, Topo!Scanned(again) PROVE ScreensOK'
  <2>1. topo_cache' \in [Files -> Areas \cup {None}]
        BY <1>7, ScannedCache
  <2>2. QED
        BY <1>7, <2>1 DEF Topo!Scanned
<1>8. CASE UNCHANGED Topo!vars
      BY <1>8 DEF Topo!vars
<1>9. QED
      BY <1>1, <1>2, <1>3, <1>4, <1>5, <1>6, <1>7, <1>8
      DEF Topo!Next, Topo!MainStep, Topo!ThreadStep

(* AllCached depends on two variables. *)
LEMMA CachedStays == UNCHANGED <<topo_next, topo_cache>> => AllCached' = AllCached
BY DEF AllCached, Topo!VisibleFiles, Topo!IsCached

LEMMA TopoStepCurrent ==
  ASSUME Topo!TopographyAssumption
  PROVE  ScreensOK /\ TopoFlagsOK /\ TopoCurrent /\ [Topo!Next]_(Topo!vars) => TopoCurrent'
<1> SUFFICES ASSUME ScreensOK, TopoFlagsOK, TopoCurrent, [Topo!Next]_(Topo!vars) PROVE TopoCurrent'
    OBVIOUS
<1> USE DEF TopoCurrent, TopoOwing
<1>1. CASE Topo!Pan
      BY <1>1, CachedStays DEF Topo!Pan, Topo!standby
<1>2. CASE Topo!TriggerTopography
      BY <1>2 DEF Topo!TriggerTopography, Topo!Trigger
<1>3. CASE Topo!SetTopography
      BY <1>3 DEF Topo!SetTopography, Topo!StopAsync
<1>4. CASE Topo!SetTopographyReturns
      BY <1>4 DEF Topo!SetTopographyReturns
<1>5. CASE Topo!Run
      BY <1>5, CachedStays DEF Topo!Run, Topo!Enters, Topo!GoesRound, Topo!BeginsTick, Topo!Ends, Topo!Sleeps
<1>6. CASE Topo!CallbackReturns
      BY <1>6, CachedStays DEF Topo!CallbackReturns, Topo!GoesRound, Topo!BeginsTick, Topo!Ends, Topo!Sleeps
<1>7. ASSUME NEW again \in BOOLEAN, Topo!Scanned(again) PROVE TopoCurrent'
  <2>1. topo_th = "scan" /\ UNCHANGED <<topo_work, topo_stop, topo_next>>
        BY <1>7 DEF Topo!Scanned
  <2>2. CASE again /\ ~topo_stop
        BY <1>7, <2>1, <2>2 DEF Topo!Scanned
  <2>3. CASE topo_stop
        BY <2>1, <2>3
  <2>4. CASE ~again
    <3>1. topo_th' = "callback" /\ topo_scanning' = topo_scanning
          BY <1>7, <2>4 DEF Topo!Scanned
    <3>2. CASE TopoOwing
          BY <2>1, <3>2
    <3>3. CASE topo_scanning = topo_next
      <4>1. \A f \in Topo!VisibleFiles(topo_next) : Topo!IsInside(topo_next, topo_cache'[f], 20)
            BY <1>7, <2>4, <3>1, <3>3, ScannedCache DEF Topo!IsCached
      <4>2. AllCached'
            BY <2>1, <4>1 DEF AllCached, Topo!VisibleFiles, Topo!IsCached
      <4>3. QED
            BY <2>1, <3>1, <3>3, <4>2
    <3>4. QED
          BY <2>1, <3>2, <3>3
  <2>5. QED
        BY <2>2, <2>3, <2>4
<1>8. CASE UNCHANGED Topo!vars
      BY <1>8, CachedStays DEF Topo!vars
<1>9. QED
      BY <1>1, <1>2, <1>3, <1>4, <1>5, <1>6, <1>7, <1>8
      DEF Topo!Next, Topo!MainStep, Topo!ThreadStep

-----------------------------------------------------------------------------
(* The members of the topography thread keep their types as well, and its  *)
(* flags say where it is.                                                  *)
THEOREM TopographyTypeCorrect == MapSpec => []Topo!TypeOK
<1>1. ScreensOK /\ TopoFlagsOK => Topo!TypeOK
      BY DEF ScreensOK, TopoFlagsOK, Topo!TypeOK
<1>2. QED
      BY <1>1, MapAssumption, TopographyStep, TopoInitOK, TopoStepScreens, TopoStepFlags,
         PTL DEF MapSpec, MapInit

(* A topography thread with nothing to do has scanned every file that is   *)
(* visible at the projection it was triggered with last, and the map was   *)
(* redrawn since: neither a projection that comes in the middle of Tick()  *)
(* nor a file that is passed over is forgotten.                            *)
THEOREM TopographyIsScanned == MapSpec => []IdleMeansScanned
<1>1. ScreensOK /\ TopoCurrent => IdleMeansScanned
  <2> SUFFICES ASSUME ScreensOK, TopoCurrent, Topo!IsIdle
               PROVE  topo_next # None /\ AllCached /\ ~topo_unseen
      BY DEF IdleMeansScanned, Topo!IdleMeansScanned, AllCached
  <2>1. AllCached /\ ~topo_unseen
        BY DEF TopoCurrent, TopoOwing, Topo!IsIdle
  <2>2. topo_next # None
        BY MapAssumption DEF Topo!TopographyAssumption, ScreensOK, Topo!IsIdle
  <2>3. QED
        BY <2>1, <2>2
<1>2. QED
      BY <1>1, MapAssumption, TopographyStep, TopoInitOK, TopoStepScreens, TopoStepFlags,
         TopoStepCurrent, PTL DEF MapSpec, MapInit

(* The same of the topography thread. *)
TopoAwake ==
  /\ topo_th = "sleep" /\ (topo_work \/ topo_stop) => topo_signalled
  /\ topo_main = "joining" => topo_stop /\ ~topo_work

LEMMA TopoStepAwake == TopoFlagsOK /\ TopoAwake /\ [Topo!Next]_(Topo!vars) => TopoAwake'
<1> SUFFICES ASSUME TopoFlagsOK, TopoAwake, [Topo!Next]_(Topo!vars) PROVE TopoAwake'
    OBVIOUS
<1> USE DEF TopoAwake
<1>1. CASE Topo!Pan \/ UNCHANGED Topo!vars
      BY <1>1 DEF Topo!Pan, Topo!standby, Topo!vars
<1>2. CASE Topo!TriggerTopography
      BY <1>2 DEF Topo!TriggerTopography, Topo!Trigger, Topo!TriggerCommand
<1>3. CASE Topo!SetTopography
      BY <1>3 DEF Topo!SetTopography, Topo!StopAsync, Topo!TriggerCommand
<1>4. CASE Topo!SetTopographyReturns
      BY <1>4 DEF Topo!SetTopographyReturns
<1>5. CASE Topo!Run \/ Topo!CallbackReturns
  <2>1. Topo!GoesRound /\ UNCHANGED topo_main
        BY <1>5 DEF Topo!Run, Topo!CallbackReturns
  <2>2. CASE Topo!BeginsTick("scan", topo_scanning' = topo_next)
        BY <2>1, <2>2 DEF Topo!BeginsTick
  <2>3. CASE Topo!Ends
        BY <2>1, <2>3 DEF Topo!Ends
  <2>4. CASE Topo!Sleeps
        BY <2>1, <2>4 DEF Topo!Sleeps
  <2>5. QED
        BY <2>1, <2>2, <2>3, <2>4 DEF Topo!GoesRound
<1>6. ASSUME NEW again \in BOOLEAN, Topo!Scanned(again) PROVE TopoAwake'
      BY <1>6 DEF Topo!Scanned
<1>7. QED
      BY <1>1, <1>2, <1>3, <1>4, <1>5, <1>6 DEF Topo!Next, Topo!MainStep, Topo!ThreadStep

THEOREM TopographyWakesUp ==
  MapSpec => []( /\ topo_th = "sleep" /\ (topo_work \/ topo_stop) => topo_signalled
                 /\ topo_main = "joining" => topo_stop /\ ~topo_work )
<1>1. Topo!Init => TopoAwake
      BY DEF Topo!Init, Topo!StandbyInit, TopoAwake
<1>2. TopoAwake => /\ topo_th = "sleep" /\ (topo_work \/ topo_stop) => topo_signalled
                   /\ topo_main = "joining" => topo_stop /\ ~topo_work
      BY DEF TopoAwake
<1>3. QED
      BY <1>1, <1>2, TopographyStep, TopoInitOK, TopoStepFlags, TopoStepAwake, PTL
      DEF MapSpec, MapInit

-----------------------------------------------------------------------------
(* Cancel() is under way. *)
Cancelling ==
  api \in {"purge_stop", "reset_stop", "stop", "join", "purge_forget", "reset_forget", "forget"}

(* Start() is under way: the file has left the queue already. *)
Starting == api \in {"purge_start", "reset_start", "start"}

(* A job that has been asked for and has not queued its notification yet.  *)
Unsent == work \/ th \in {"decode", "lock", "notify", "inject"}

(* The thread takes up nothing new before it has finished, and a thread    *)
(* that was told to end is not heard of again when Cancel() has returned.  *)
DecoderFlagsOK ==
  /\ StandbyTypeOK(DecodeTicking)
  /\ pending \in BOOLEAN /\ queued \in {0, 1}
  /\ api \in MainPlaces
  /\ th \in DecodeTicking => ~work
  /\ Unsent => queued = 0
  /\ ~Cancelling => th # "exit" /\ (th # "none" => ~stop)

(* What Cancel() has undone by the time it gets to each of its places.     *)
CancelOK ==
  /\ api \in {"join", "purge_forget", "reset_forget", "forget"} => stop /\ ~work
  /\ api \in {"purge_forget", "reset_forget", "forget"} => th = "none"
  /\ api \in {"reset_forget", "forget"} => queued = 0
  /\ api = "forget" => ~pending

(* The members alone. *)
MembersOK ==
  /\ status \in {"Idle", "Busy", "Complete", "Error"}
  /\ prepared \in Layers \cup {NoLayer} /\ expects \in Layers \cup {NoLayer}
  /\ result \in Results
  /\ cancel \in BOOLEAN
  /\ file \in Layers \cup {NoLayer, "error"}
  /\ files \in Seq(Layers)
  /\ decoding \subseteq Layers
  /\ delivered \in [to : Layers \cup {NoLayer}, what : Results]
  /\ downloads \in 0..MaxDownloads

(* A job that is about to start has a file, and Tick() works on a copy.    *)
FileOK ==
  /\ Starting \/ work => prepared \in Layers
  /\ th \in {"decode", "lock"} => file \in Layers \cup {"error"}

IdleOK ==
  status = "Idle" =>
    /\ expects = NoLayer
    /\ th \in {"none", "sleep"}
    /\ ~work /\ ~pending /\ queued = 0

BusyOK ==
  status = "Busy" =>
    /\ prepared = expects /\ expects \in Layers
    /\ ~pending /\ queued = 0
    /\ work => th \in {"none", "start", "sleep"}
    /\ ~work => th \in {"decode", "lock"}
    /\ th = "decode" => file = expects
    /\ th = "lock" => file \in {expects, "error"}

DoneOK ==
  status \in {"Complete", "Error"} =>
    /\ expects \in Layers /\ result \in {expects, "error"}
    /\ ~work
    /\ th \in {"notify", "inject", "sent", "sleep"}
    /\ th = "notify" => ~pending
    /\ th = "inject" => pending
    /\ th \in {"sent", "sleep"} => (pending /\ queued = 1) \/ api = "notified"

NotifiedOK ==
  api = "notified" =>
    /\ status \in {"Complete", "Error"}
    /\ ~pending /\ queued = 0 /\ th \in {"sent", "sleep"}

(* Unless it is being cancelled, the job is where its status says, and     *)
(* what it works on and what it has got is the file it will report on.     *)
JobOK ==
  ~Cancelling =>
    /\ IdleOK /\ BusyOK /\ DoneOK /\ NotifiedOK
    /\ Starting => status = "Idle"

(* A file waits in the queue. *)
Waits(l, queue) == \E i \in DOMAIN queue : queue[i] = l

(* The file that the decoder has, or is about to get. *)
InDecoder == IF Starting THEN prepared ELSE expects

QueueOK == \A l \in decoding : Waits(l, files) \/ l = InDecoder

(***************************************************************************)
(* The inductive invariant of the decoder.  What the main thread does next *)
(* it decides by status, which the thread changes too; JobOK says what a   *)
(* status lets it conclude about the thread, the file and the notification *)
(* on its way.  Cancel() breaks that off in the middle, and CancelOK says  *)
(* how much of it is left.                                                 *)
(***************************************************************************)
DecoderInv == MembersOK /\ FileOK /\ DecoderFlagsOK /\ CancelOK /\ JobOK

(* None of the positions of the decoder's Tick() is one of StandbyThread's. *)
LEMMA TickingApart == DecodeTicking \cap StandbyPlaces = {} /\ "decode" \in DecodeTicking
BY DEF DecodeTicking, StandbyPlaces

-----------------------------------------------------------------------------
(* ClearNotification() moves the main thread on by one place.              *)
LEMMA ClearingMoves ==
  ASSUME ClearNotification
  PROVE  \/ /\ UNCHANGED pending /\ queued' = 0
            /\ \/ api = "purge_start" /\ api' = "reset_start"
               \/ api = "purge_stop" /\ api' = "reset_stop"
               \/ api = "purge_forget" /\ api' = "reset_forget"
         \/ /\ UNCHANGED queued /\ pending' = FALSE
            /\ \/ api = "reset_start" /\ api' = "start"
               \/ api = "reset_stop" /\ api' = "stop"
               \/ api = "reset_forget" /\ api' = "forget"
<1>1. CASE api \in Purging /\ PurgeCalls /\ api' = AfterPurge[api]
      BY <1>1 DEF Purging, PurgeCalls, AfterPurge
<1>2. CASE api \in Resetting /\ ResetPending /\ api' = AfterReset[api]
      BY <1>2 DEF Resetting, ResetPending, AfterReset
<1>3. QED
      BY <1>1, <1>2 DEF ClearNotification

(* StartNextDecodeJob() starts a job if the decoder is idle, or leaves the *)
(* main thread where it can be called again.                               *)
LEMMA StartNextKeeps ==
  ASSUME NEW stat, NEW queue \in Seq(Layers), NEW layers \in SUBSET Layers,
         prepared \in Layers \cup {NoLayer}, StartNext(stat, queue, layers)
  PROVE  /\ files' \in Seq(Layers)
         /\ decoding' \subseteq Layers
         /\ \/ api' = "purge_start" /\ stat = "Idle" /\ prepared' \in Layers
            \/ api' = "idle" /\ UNCHANGED prepared
<1>1. CASE MayStart(stat, queue)
  <2>1. queue # <<>> /\ Head(queue) \in Layers /\ Tail(queue) \in Seq(Layers)
        BY <1>1 DEF MayStart
  <2>2. QED
        BY <1>1, <2>1 DEF StartNext, MayStart
<1>2. CASE ~MayStart(stat, queue)
      BY <1>2 DEF StartNext
<1>3. QED
      BY <1>1, <1>2

LEMMA StepMembers == MembersOK /\ FileOK /\ [DecodeNext]_decodeVars => MembersOK'
<1> SUFFICES ASSUME MembersOK, FileOK, [DecodeNext]_decodeVars PROVE MembersOK'
    OBVIOUS
<1> USE DEF MembersOK
<1>1. CASE OnDatafileDownloaded
  <2>1. PICK l \in Layers : StartNext(status, Append(files, l), decoding \cup {l})
        BY <1>1 DEF OnDatafileDownloaded
  <2>2. Append(files, l) \in Seq(Layers) /\ decoding \cup {l} \in SUBSET Layers
        OBVIOUS
  <2>3. files' \in Seq(Layers) /\ decoding' \subseteq Layers /\ prepared' \in Layers \cup {NoLayer}
        BY <2>1, <2>2, StartNextKeeps
  <2>4. downloads' \in 0..MaxDownloads
        BY <1>1, SkySightAssumption DEF OnDatafileDownloaded
  <2>5. QED
        BY <1>1, <2>3, <2>4 DEF OnDatafileDownloaded
<1>2. CASE Start
  <2>1. files' \in Seq(Layers) /\ decoding' \subseteq Layers /\ prepared' \in Layers \cup {NoLayer}
    <3>1. CASE UNCHANGED <<files, decoding, prepared>>
          BY <3>1
    <3>2. CASE StartNext("Busy", files, decoding \ {prepared})
          BY <3>2, StartNextKeeps
    <3>3. QED
          BY <1>2, <3>1, <3>2 DEF Start, DatafileError
  <2>2. QED
        BY <1>2, <2>1 DEF Start, Results
<1>3. CASE OnNotification
  <2>1. CASE expects # NoLayer
    <3>1. StartNext("Idle", files, decoding \ {expects})
          BY <1>3, <2>1 DEF OnNotification, Deliver
    <3>2. files' \in Seq(Layers) /\ decoding' \subseteq Layers /\ prepared' \in Layers \cup {NoLayer}
          BY <3>1, StartNextKeeps
    <3>3. QED
          BY <1>3, <2>1, <3>2 DEF OnNotification, Deliver, Results
  <2>2. CASE expects = NoLayer
        BY <1>3, <2>2 DEF OnNotification, Results
  <2>3. QED
        BY <2>1, <2>2
<1>4. CASE ClearNotification
      BY <1>4 DEF ClearNotification, job
<1>5. CASE Cancel
      BY <1>5 DEF Cancel, job
<1>6. CASE LockStop
      BY <1>6 DEF LockStop, job
<1>7. CASE StopReturns
      BY <1>7 DEF StopReturns, job
<1>8. CASE Forget
      BY <1>8 DEF Forget, Results
<1>9. CASE RunNotification
      BY <1>9 DEF RunNotification, job
<1>10. CASE DecoderRuns
       BY <1>10 DEF DecoderRuns, RunLoop, BeginsTick, CopyPrepared, MainUnchanged
<1>11. CASE Decode
       BY <1>11 DEF Decode, MainUnchanged
<1>12. CASE Publish
       BY <1>12 DEF Publish, MainUnchanged, FileOK, Results
<1>13. CASE SendNotification
       BY <1>13 DEF SendNotification, MainUnchanged
<1>14. CASE TickReturns
       BY <1>14 DEF TickReturns, RunLoop, BeginsTick, CopyPrepared, MainUnchanged
<1>15. CASE UNCHANGED decodeVars
       BY <1>15 DEF decodeVars, job
<1>16. QED
       BY <1>1, <1>2, <1>3, <1>4, <1>5, <1>6, <1>7, <1>8, <1>9, <1>10, <1>11, <1>12,
          <1>13, <1>14, <1>15 DEF DecodeNext, MainStep, ThreadStep

(* What a turn of Run()'s loop can be, at each place where it comes round. *)
LEMMA RunLoopIs ==
  ASSUME StandbyTypeOK(DecodeTicking), th \in {"start", "sleep", "sent"}, RunLoop
  PROVE  /\ StandbyTypeOK(DecodeTicking)'
         /\ UNCHANGED stop
         /\ \/ /\ work = TRUE /\ work' = FALSE /\ th' = "decode"
               /\ status' = "Busy" /\ file' = prepared
            \/ /\ stop = TRUE /\ th' = "exit" /\ UNCHANGED <<work, status, file>>
            \/ /\ stop = FALSE /\ work = FALSE /\ th' = "sleep"
               /\ UNCHANGED <<work, status, file>>
<1>0. th \in {"start", "sleep"} \cup DecodeTicking
      BY DEF DecodeTicking
<1>1. CASE BeginsTick("decode", CopyPrepared)
  <2>1. status' = "Busy" /\ file' = prepared
        BY <1>1 DEF BeginsTick, CopyPrepared
  <2>2. QED
        BY <1>0, <1>1, <2>1, TickingApart, BeginsTickKeeps
<1>2. CASE Ends /\ UNCHANGED <<status, file>>
      BY <1>2, TickingApart, EndsKeeps
<1>3. CASE Sleeps /\ UNCHANGED <<status, file>>
      BY <1>0, <1>3, TickingApart, SleepsKeeps
<1>4. QED
      BY <1>1, <1>2, <1>3 DEF RunLoop

LEMMA StepFile ==
  MembersOK /\ FileOK /\ DecoderFlagsOK /\ [DecodeNext]_decodeVars => FileOK'
<1> SUFFICES ASSUME MembersOK, FileOK, DecoderFlagsOK, [DecodeNext]_decodeVars PROVE FileOK'
    OBVIOUS
<1> USE DEF FileOK, Starting
<1>0. StandbyTypeOK(DecodeTicking)
      BY DEF DecoderFlagsOK
<1>1. CASE OnDatafileDownloaded
  <2>1. PICK l \in Layers : StartNext(status, Append(files, l), decoding \cup {l})
        BY <1>1 DEF OnDatafileDownloaded
  <2>2. Append(files, l) \in Seq(Layers) /\ decoding \cup {l} \in SUBSET Layers
        BY DEF MembersOK
  <2>3. \/ prepared' \in Layers
        \/ api' = "idle" /\ UNCHANGED prepared
        BY <2>1, <2>2, StartNextKeeps DEF MembersOK
  <2>4. QED
        BY <1>1, <2>3 DEF OnDatafileDownloaded, standby
<1>2. CASE Start
  <2>1. CASE Trigger /\ api' = "idle" /\ UNCHANGED <<files, decoding, prepared>>
        BY <1>0, <1>2, <2>1, TickingApart, TriggerKeeps DEF Start
  <2>2. CASE TriggerThrows /\ StartNext("Busy", files, decoding \ {prepared})
    <3>1. api' = "idle" /\ UNCHANGED prepared
          BY <2>2, StartNextKeeps DEF MembersOK
    <3>2. QED
          BY <1>0, <1>2, <2>2, <3>1, TriggerThrowsKeeps DEF Start
  <2>3. QED
        BY <1>2, <2>1, <2>2 DEF Start, DatafileError
<1>3. CASE OnNotification
  <2>1. CASE expects # NoLayer
    <3>1. StartNext("Idle", files, decoding \ {expects})
          BY <1>3, <2>1 DEF OnNotification, Deliver
    <3>2. \/ prepared' \in Layers
          \/ api' = "idle" /\ UNCHANGED prepared
          BY <3>1, StartNextKeeps DEF MembersOK
    <3>3. QED
          BY <1>3, <3>2 DEF OnNotification, standby
  <2>2. CASE expects = NoLayer
        BY <1>3, <2>2 DEF OnNotification, standby
  <2>3. QED
        BY <2>1, <2>2
<1>4. CASE ClearNotification
  <2>1. UNCHANGED <<work, th, prepared, file>>
        BY <1>4 DEF ClearNotification, standby, job
  <2>2. QED
        BY <1>4, <2>1, ClearingMoves
<1>5. CASE Cancel
      BY <1>5 DEF Cancel, standby, job
<1>6. CASE LockStop
      BY <1>0, <1>6, StopAsyncKeeps DEF LockStop, job
<1>7. CASE StopReturns
      BY <1>7 DEF StopReturns, AfterJoin, JoinThread, job
<1>8. CASE Forget
      BY <1>8 DEF Forget, standby
<1>9. CASE RunNotification
      BY <1>9 DEF RunNotification, standby, job
<1>10. CASE DecoderRuns
  <2>1. th \in {"start", "sleep", "sent"} /\ RunLoop /\ UNCHANGED <<prepared, api>>
        BY <1>10 DEF DecoderRuns, Enters, MainUnchanged
  <2>2. \/ work = TRUE /\ work' = FALSE /\ th' = "decode" /\ file' = prepared
        \/ th' = "exit" /\ UNCHANGED <<work, file>>
        \/ th' = "sleep" /\ UNCHANGED <<work, file>>
        BY <1>0, <2>1, RunLoopIs
  <2>3. QED
        BY <2>1, <2>2
<1>11. CASE Decode
       BY <1>11 DEF Decode, MainUnchanged
<1>12. CASE Publish
       BY <1>12 DEF Publish, MainUnchanged
<1>13. CASE SendNotification
       BY <1>13 DEF SendNotification, MainUnchanged
<1>14. CASE TickReturns
  <2>1. th \in {"start", "sleep", "sent"} /\ RunLoop /\ UNCHANGED <<prepared, api>>
        BY <1>14 DEF TickReturns, MainUnchanged
  <2>2. \/ work = TRUE /\ work' = FALSE /\ th' = "decode" /\ file' = prepared
        \/ th' = "exit" /\ UNCHANGED <<work, file>>
        \/ th' = "sleep" /\ UNCHANGED <<work, file>>
        BY <1>0, <2>1, RunLoopIs
  <2>3. QED
        BY <2>1, <2>2
<1>15. CASE UNCHANGED decodeVars
       BY <1>15 DEF decodeVars, standby, job
<1>16. QED
       BY <1>1, <1>2, <1>3, <1>4, <1>5, <1>6, <1>7, <1>8, <1>9, <1>10, <1>11, <1>12,
          <1>13, <1>14, <1>15 DEF DecodeNext, MainStep, ThreadStep

-----------------------------------------------------------------------------
LEMMA StepDecoderFlags == DecoderInv /\ [DecodeNext]_decodeVars => DecoderFlagsOK'
<1> SUFFICES ASSUME DecoderInv, [DecodeNext]_decodeVars PROVE DecoderFlagsOK'
    OBVIOUS
<1> USE DEF DecoderFlagsOK, Unsent, Cancelling, DecodeTicking
<1>0. /\ StandbyTypeOK(DecodeTicking)
      /\ MembersOK /\ FileOK /\ DecoderFlagsOK /\ CancelOK /\ JobOK
      BY DEF DecoderInv
<1>1. CASE OnDatafileDownloaded
  <2>1. PICK l \in Layers : StartNext(status, Append(files, l), decoding \cup {l})
        BY <1>1 DEF OnDatafileDownloaded
  <2>2. api' \in {"purge_start", "idle"}
        BY <2>1 DEF StartNext
  <2>3. QED
        BY <1>0, <1>1, <2>2
        DEF OnDatafileDownloaded, standby, note, StandbyTypeOK, MainPlaces, Purging
<1>2. CASE Start
  <2>1. th \in {"none", "sleep"} /\ queued = 0 /\ UNCHANGED <<pending, queued>>
        BY <1>0, <1>2 DEF Start, JobOK, IdleOK, Starting, note
  <2>2. CASE Trigger /\ api' = "idle"
    <3>1. /\ StandbyTypeOK(DecodeTicking)'
          /\ work' = TRUE /\ stop' = FALSE /\ th' \in {"start", "sleep", "none"}
          BY <1>0, <2>1, <2>2, TickingApart, TriggerKeeps
    <3>2. QED
          BY <1>0, <2>1, <2>2, <3>1 DEF MainPlaces
  <2>3. CASE TriggerThrows /\ StartNext("Busy", files, decoding \ {prepared})
    <3>1. /\ StandbyTypeOK(DecodeTicking)'
          /\ work' = TRUE /\ stop' = FALSE /\ th' = th
          BY <1>0, <2>3, TriggerThrowsKeeps
    <3>2. api' = "idle"
          BY <2>3 DEF StartNext, MayStart
    <3>3. QED
          BY <1>0, <2>1, <3>1, <3>2 DEF MainPlaces
  <2>4. QED
        BY <1>2, <2>2, <2>3 DEF Start, DatafileError
<1>3. CASE OnNotification
  <2>1. api' \in {"purge_start", "idle"}
        BY <1>3 DEF OnNotification, Deliver, StartNext
  <2>2. QED
        BY <1>0, <1>3, <2>1
        DEF OnNotification, standby, note, StandbyTypeOK, MainPlaces, Purging
<1>4. CASE ClearNotification
  <2>1. UNCHANGED <<alive, work, busy, stop, th, signalled>>
        BY <1>4 DEF ClearNotification, standby
  <2>2. api' \in MainPlaces
        BY <1>4, ClearingMoves DEF MainPlaces, Resetting
  <2>3. /\ pending' \in BOOLEAN /\ queued' \in {0, queued}
        /\ Cancelling' <=> Cancelling
        BY <1>0, <1>4, ClearingMoves
  <2>4. QED
        BY <1>0, <2>1, <2>2, <2>3 DEF StandbyTypeOK
<1>5. CASE Cancel
      BY <1>0, <1>5 DEF Cancel, standby, note, StandbyTypeOK, MainPlaces, Purging
<1>6. CASE LockStop
  <2>1. /\ StandbyTypeOK(DecodeTicking)'
        /\ work' = FALSE /\ stop' = TRUE /\ th' = th
        BY <1>0, <1>6, StopAsyncKeeps DEF LockStop
  <2>2. QED
        BY <1>0, <1>6, <2>1 DEF LockStop, note, MainPlaces
<1>7. CASE StopReturns
  <2>1. /\ StandbyTypeOK(DecodeTicking)'
        /\ th' = "none" /\ UNCHANGED <<work, stop>>
        BY <1>0, <1>7, TickingApart, JoinThreadKeeps DEF StopReturns
  <2>2. api = "join" /\ api' = "purge_forget" /\ UNCHANGED <<pending, queued>>
        BY <1>7 DEF StopReturns, AfterJoin, note
  <2>3. QED
        BY <1>0, <2>1, <2>2 DEF MainPlaces, Purging, CancelOK
<1>8. CASE Forget
  <2>1. th = "none"
        BY <1>0, <1>8 DEF Forget, CancelOK
  <2>2. QED
        BY <1>0, <1>8, <2>1 DEF Forget, standby, note, StandbyTypeOK, MainPlaces
<1>9. CASE RunNotification
  <2>1. api = "idle" /\ queued' = queued - 1 /\ queued > 0 /\ pending' = FALSE
        BY <1>9 DEF RunNotification, PopCall
  <2>2. api' \in {"idle", "notified"}
        BY <1>9 DEF RunNotification
  <2>3. queued' = 0
        BY <1>0, <2>1
  <2>4. UNCHANGED <<alive, work, busy, stop, th, signalled>>
        BY <1>9 DEF RunNotification, standby
  <2>5. StandbyTypeOK(DecodeTicking)'
        BY <1>0, <2>4 DEF StandbyTypeOK
  <2>6. QED
        BY <1>0, <2>1, <2>2, <2>3, <2>4, <2>5 DEF MainPlaces
<1>10. CASE DecoderRuns \/ TickReturns
  <2>1. th \in {"start", "sleep", "sent"} /\ RunLoop /\ UNCHANGED <<pending, queued, api>>
        BY <1>10 DEF DecoderRuns, TickReturns, Enters, MainUnchanged, note
  <2>2. /\ StandbyTypeOK(DecodeTicking)'
        /\ UNCHANGED stop
        /\ \/ work = TRUE /\ work' = FALSE /\ th' = "decode"
           \/ stop = TRUE /\ th' = "exit" /\ UNCHANGED work
           \/ stop = FALSE /\ th' = "sleep" /\ UNCHANGED work
        BY <1>0, <2>1, RunLoopIs
  <2>3. QED
        BY <1>0, <2>1, <2>2
<1>11. CASE Decode
       BY <1>0, <1>11 DEF Decode, MainUnchanged, note, StandbyTypeOK
<1>12. CASE Publish
       BY <1>0, <1>12 DEF Publish, MainUnchanged, note, StandbyTypeOK
<1>13. CASE SendNotification
  <2>1. /\ UNCHANGED <<alive, work, busy, stop, signalled, api>>
        /\ th \in {"notify", "inject"} /\ th' \in {"inject", "sent"}
        /\ th = "notify" => UNCHANGED queued
        /\ th = "inject" => queued' = queued + 1 /\ th' = "sent"
        /\ pending' \in {TRUE, pending}
        BY <1>13 DEF SendNotification, MainUnchanged, ExchangePending, InjectCall
  <2>2. StandbyTypeOK(DecodeTicking)'
        BY <1>0, <2>1 DEF StandbyTypeOK
  <2>3. pending' \in BOOLEAN
        BY <1>0, <2>1
  <2>4. queued' \in {0, 1} /\ (Unsent' => queued' = 0)
        BY <1>0, <2>1
  <2>5. QED
        BY <1>0, <2>1, <2>2, <2>3, <2>4
<1>14. CASE UNCHANGED decodeVars
       BY <1>0, <1>14 DEF decodeVars, standby, note, StandbyTypeOK
<1>15. QED
       BY <1>1, <1>2, <1>3, <1>4, <1>5, <1>6, <1>7, <1>8, <1>9, <1>10, <1>11, <1>12,
          <1>13, <1>14 DEF DecodeNext, MainStep, ThreadStep

LEMMA StepCancel == DecoderInv /\ [DecodeNext]_decodeVars => CancelOK'
<1> SUFFICES ASSUME DecoderInv, [DecodeNext]_decodeVars PROVE CancelOK'
    OBVIOUS
<1> USE DEF CancelOK
<1>0. /\ StandbyTypeOK(DecodeTicking)
      /\ CancelOK /\ DecoderFlagsOK
      BY DEF DecoderInv, DecoderFlagsOK
<1>1. CASE OnDatafileDownloaded \/ OnNotification \/ Start
      BY <1>1 DEF OnDatafileDownloaded, OnNotification, Start, Deliver, StartNext
<1>2. CASE ClearNotification
  <2>1. UNCHANGED <<work, stop, th>>
        BY <1>2 DEF ClearNotification, standby
  <2>2. QED
        BY <1>0, <1>2, <2>1, ClearingMoves
<1>3. CASE Cancel
      BY <1>3 DEF Cancel
<1>4. CASE LockStop
      BY <1>0, <1>4, StopAsyncKeeps DEF LockStop
<1>5. CASE StopReturns
      BY <1>0, <1>5 DEF StopReturns, AfterJoin, JoinThread
<1>6. CASE Forget
      BY <1>6 DEF Forget
<1>7. CASE RunNotification
      BY <1>7 DEF RunNotification
<1>8. CASE DecoderRuns \/ TickReturns
  <2>1. th \in {"start", "sleep", "sent"} /\ RunLoop /\ UNCHANGED <<pending, queued, api>>
        BY <1>8 DEF DecoderRuns, TickReturns, Enters, MainUnchanged, note
  <2>2. UNCHANGED stop /\ (work' = work \/ work' = FALSE)
        BY <1>0, <2>1, RunLoopIs
  <2>3. QED
        BY <1>0, <2>1, <2>2
<1>9. CASE Decode \/ Publish
      BY <1>0, <1>9 DEF Decode, Publish, MainUnchanged, note
<1>10. CASE SendNotification
       BY <1>0, <1>10 DEF SendNotification, MainUnchanged, ExchangePending, InjectCall
<1>11. CASE UNCHANGED decodeVars
       BY <1>0, <1>11 DEF decodeVars, standby, note
<1>12. QED
       BY <1>1, <1>2, <1>3, <1>4, <1>5, <1>6, <1>7, <1>8, <1>9, <1>10, <1>11
       DEF DecodeNext, MainStep, ThreadStep

LEMMA StepJob == DecoderInv /\ [DecodeNext]_decodeVars => JobOK'
<1> SUFFICES ASSUME DecoderInv, [DecodeNext]_decodeVars, ~Cancelling' PROVE JobOK'
    BY DEF JobOK
<1> USE DEF JobOK, IdleOK, BusyOK, DoneOK, NotifiedOK, Cancelling, Starting
<1>0. /\ StandbyTypeOK(DecodeTicking)
      /\ MembersOK /\ FileOK /\ DecoderFlagsOK /\ CancelOK /\ JobOK
      BY DEF DecoderInv, DecoderFlagsOK
<1>1. CASE OnDatafileDownloaded
  <2>1. PICK l \in Layers : StartNext(status, Append(files, l), decoding \cup {l})
        BY <1>1 DEF OnDatafileDownloaded
  <2>2. Append(files, l) \in Seq(Layers) /\ decoding \cup {l} \in SUBSET Layers
        BY <1>0 DEF MembersOK
  <2>3. \/ api' = "purge_start" /\ status = "Idle"
        \/ api' = "idle" /\ UNCHANGED prepared
        BY <1>0, <2>1, <2>2, StartNextKeeps DEF MembersOK
  <2>4. api = "idle" /\ UNCHANGED <<status, expects, result, file, work, th, pending, queued>>
        BY <1>1 DEF OnDatafileDownloaded, standby, note
  <2>5. QED
        BY <1>0, <2>3, <2>4
<1>2. CASE Start
  <2>1. th \in {"none", "sleep"} /\ ~work /\ ~pending /\ queued = 0 /\ prepared \in Layers
        BY <1>0, <1>2 DEF Start, FileOK
  <2>2. status' = "Busy" /\ expects' = prepared /\ UNCHANGED <<pending, queued, file>>
        BY <1>2 DEF Start, note
  <2>3. work' = TRUE /\ th' \in {"none", "start", "sleep"} /\ api' = "idle" /\ UNCHANGED prepared
    <3>1. CASE Trigger /\ api' = "idle" /\ UNCHANGED <<files, decoding, prepared>>
          BY <2>1, <3>1 DEF Trigger
    <3>2. CASE TriggerThrows /\ StartNext("Busy", files, decoding \ {prepared})
          BY <2>1, <3>2 DEF TriggerThrows, StartNext, MayStart
    <3>3. QED
          BY <1>2, <3>1, <3>2 DEF Start, DatafileError
  <2>4. QED
        BY <2>1, <2>2, <2>3
<1>3. CASE OnNotification
  <2>1. /\ api = "notified" /\ th = "sleep" /\ expects \in Layers
        /\ ~work /\ ~pending /\ queued = 0
        BY <1>0, <1>3 DEF OnNotification, Locked
  <2>2. status' = "Idle" /\ expects' = NoLayer /\ UNCHANGED <<th, work, pending, queued>>
        BY <1>3 DEF OnNotification, standby, note
  <2>3. api' \in {"purge_start", "idle"}
        BY <1>3 DEF OnNotification, Deliver, StartNext
  <2>4. QED
        BY <2>1, <2>2, <2>3
<1>4. CASE ClearNotification
  <2>1. UNCHANGED <<status, expects, work, th>>
        BY <1>4 DEF ClearNotification, job, standby
  <2>2. Starting /\ Starting'
        BY <1>4, ClearingMoves
  <2>3. pending' \in {pending, FALSE} /\ queued' \in {queued, 0} /\ api' # "notified"
        BY <1>4, ClearingMoves
  <2>4. QED
        BY <1>0, <2>1, <2>2, <2>3
<1>5. CASE Cancel \/ LockStop \/ StopReturns
      BY <1>5 DEF Cancel, LockStop, StopReturns, AfterJoin
<1>6. CASE Forget
  <2>1. th = "none" /\ ~work /\ ~pending /\ queued = 0
        BY <1>0, <1>6 DEF Forget, CancelOK
  <2>2. QED
        BY <1>6, <2>1 DEF Forget, standby, note
<1>7. CASE RunNotification
  <2>1. api = "idle" /\ queued > 0 /\ queued' = queued - 1 /\ pending' = FALSE
        BY <1>7 DEF RunNotification, PopCall
  <2>2. queued = 1 /\ queued' = 0
        BY <1>0, <2>1 DEF DecoderFlagsOK
  <2>3. status \in {"Complete", "Error"} /\ th \in {"sent", "sleep"} /\ pending
        BY <1>0, <2>1, <2>2 DEF MembersOK, DecoderFlagsOK, Unsent
  <2>4. api' = "notified"
        BY <1>7, <2>3 DEF RunNotification, Delivers
  <2>5. UNCHANGED <<status, expects, result, work, th>>
        BY <1>7 DEF RunNotification, job, standby
  <2>6. QED
        BY <1>0, <2>1, <2>2, <2>3, <2>4, <2>5
<1>8. CASE DecoderRuns \/ TickReturns
  <2>1. /\ th \in {"start", "sleep", "sent"} /\ RunLoop
        /\ UNCHANGED <<prepared, expects, result, pending, queued, api>>
        BY <1>8 DEF DecoderRuns, TickReturns, Enters, MainUnchanged, note
  <2>2. stop = FALSE
        BY <1>0, <2>1 DEF DecoderFlagsOK
  <2>3. \/ /\ work = TRUE /\ work' = FALSE /\ th' = "decode"
           /\ status' = "Busy" /\ file' = prepared
        \/ work = FALSE /\ th' = "sleep" /\ UNCHANGED <<work, status, file>>
        BY <1>0, <2>1, <2>2, RunLoopIs
  <2>4. QED
        BY <1>0, <2>1, <2>3 DEF MembersOK
<1>9. CASE Decode
  <2>1. /\ th = "decode" /\ th' = "lock" /\ file' \in {file, "error"}
        /\ UNCHANGED <<prepared, expects, result, status, pending, queued, api, work>>
        BY <1>9 DEF Decode, MainUnchanged, note
  <2>2. QED
        BY <1>0, <2>1 DEF MembersOK
<1>10. CASE Publish
  <2>1. /\ th = "lock" /\ th' = "notify" /\ result' = file
        /\ status' \in {"Error", "Complete"}
        /\ UNCHANGED <<prepared, expects, pending, queued, api, work>>
        BY <1>10 DEF Publish, MainUnchanged, note
  <2>2. status = "Busy" /\ ~work /\ file \in {expects, "error"} /\ expects \in Layers /\ ~pending
        BY <1>0, <2>1 DEF MembersOK
  <2>3. api # "notified" /\ ~Starting
        BY <1>0, <2>1, <2>2
  <2>4. QED
        BY <2>1, <2>2, <2>3
<1>11. CASE SendNotification
  <2>1. /\ UNCHANGED <<expects, result, status, api, work>>
        /\ \/ th = "notify" /\ pending' = TRUE /\ UNCHANGED queued
              /\ th' = (IF pending THEN "sent" ELSE "inject")
           \/ th = "inject" /\ queued' = queued + 1 /\ UNCHANGED pending /\ th' = "sent"
        BY <1>11 DEF SendNotification, MainUnchanged, ExchangePending, InjectCall
  <2>2. /\ status \in {"Complete", "Error"} /\ queued = 0
        /\ th = "notify" => ~pending
        /\ th = "inject" => pending
        BY <1>0, <2>1 DEF MembersOK, DecoderFlagsOK, Unsent
  <2>3. api # "notified" /\ ~Starting
        BY <1>0, <2>1
  <2>4. QED
        BY <1>0, <2>1, <2>2, <2>3
<1>12. CASE UNCHANGED decodeVars
       BY <1>0, <1>12 DEF decodeVars, standby, note, job
<1>13. QED
       BY <1>1, <1>2, <1>3, <1>4, <1>5, <1>6, <1>7, <1>8, <1>9, <1>10, <1>11, <1>12
       DEF DecodeNext, MainStep, ThreadStep

-----------------------------------------------------------------------------
(* A file that is appended to the queue waits there, and so do the others. *)
LEMMA AppendWaits ==
  ASSUME NEW queue \in Seq(Layers), NEW l \in Layers, NEW m, Waits(m, queue) \/ m = l
  PROVE  Waits(m, Append(queue, l))
<1> DEFINE longer == Append(queue, l)
<1>1. /\ Len(queue) \in Nat
      /\ DOMAIN queue = 1..Len(queue) /\ DOMAIN longer = 1..(Len(queue) + 1)
      /\ longer[Len(queue) + 1] = l
      /\ \A i \in DOMAIN queue : longer[i] = queue[i]
      OBVIOUS
<1>2. QED
      BY <1>1 DEF Waits

(* When the first file leaves the queue, the others go on waiting.         *)
LEMMA TailWaits ==
  ASSUME NEW queue \in Seq(Layers), queue # <<>>, NEW m, Waits(m, queue)
  PROVE  m = Head(queue) \/ Waits(m, Tail(queue))
<1>1. PICK i \in DOMAIN queue : queue[i] = m
      BY DEF Waits
<1>2. /\ DOMAIN queue = 1..Len(queue) /\ DOMAIN Tail(queue) = 1..(Len(queue) - 1)
      /\ Len(queue) \in Nat \ {0}
      /\ Head(queue) = queue[1]
      /\ \A j \in DOMAIN Tail(queue) : Tail(queue)[j] = queue[j + 1]
      OBVIOUS
<1>3. CASE i = 1
      BY <1>1, <1>2, <1>3
<1>4. CASE i # 1
  <2>1. i - 1 \in DOMAIN Tail(queue) /\ Tail(queue)[i - 1] = m
        BY <1>1, <1>2, <1>4
  <2>2. QED
        BY <2>1 DEF Waits
<1>5. QED
      BY <1>3, <1>4

(* StartNextDecodeJob() takes no file out of the queue that the decoder    *)
(* does not get.                                                           *)
LEMMA StartNextWaits ==
  ASSUME NEW stat, NEW queue \in Seq(Layers), NEW layers, StartNext(stat, queue, layers),
         NEW m \in decoding'
  PROVE  \/ Waits(m, files')
         \/ api' = "purge_start" /\ m = prepared'
         \/ m \in layers /\ ~Waits(m, queue)
<1>1. CASE MayStart(stat, queue)
  <2>1. /\ queue # <<>> /\ files' = Tail(queue) /\ decoding' = layers \cup {Head(queue)}
        /\ prepared' = Head(queue) /\ api' = "purge_start"
        BY <1>1 DEF StartNext, MayStart
  <2>2. QED
        BY <2>1, TailWaits
<1>2. CASE ~MayStart(stat, queue)
      BY <1>2 DEF StartNext
<1>3. QED
      BY <1>1, <1>2

LEMMA StepQueue == DecoderInv /\ QueueOK /\ [DecodeNext]_decodeVars => QueueOK'
<1> SUFFICES ASSUME DecoderInv, QueueOK, [DecodeNext]_decodeVars,
                    NEW m \in decoding'
             PROVE  Waits(m, files') \/ m = InDecoder'
    BY DEF QueueOK
<1> USE DEF InDecoder, Starting
<1>0. MembersOK /\ JobOK
      BY DEF DecoderInv
<1>1. CASE OnDatafileDownloaded
  <2>1. PICK l \in Layers : StartNext(status, Append(files, l), decoding \cup {l})
        BY <1>1 DEF OnDatafileDownloaded
  <2>2. Append(files, l) \in Seq(Layers) /\ decoding \cup {l} \in SUBSET Layers
        BY <1>0 DEF MembersOK
  <2>3. api = "idle" /\ expects' = expects
        BY <1>1 DEF OnDatafileDownloaded
  <2>4. m \in decoding \cup {l} => Waits(m, Append(files, l)) \/ m = expects
        BY <1>0, <2>3, AppendWaits DEF QueueOK, MembersOK
  <2>5. \/ Waits(m, files')
        \/ api' = "purge_start" /\ m = prepared'
        \/ m = expects
        BY <2>1, <2>2, <2>4, StartNextWaits
  <2>6. CASE api' = "purge_start"
    <3>1. status = "Idle" /\ expects \notin Layers
          BY <1>0, <2>1, <2>2, <2>3, <2>6, StartNextKeeps, SkySightAssumption
          DEF MembersOK, JobOK, IdleOK, Cancelling
    <3>2. m \in Layers
          BY <1>0, <2>1, <2>2, StartNextKeeps DEF MembersOK
    <3>3. QED
          BY <2>5, <2>6, <3>1, <3>2
  <2>7. CASE api' = "idle"
        BY <2>3, <2>5, <2>7
  <2>8. QED
        BY <1>0, <2>1, <2>2, <2>6, <2>7, StartNextKeeps DEF MembersOK
<1>2. CASE Start
  <2>1. api = "start" /\ expects' = prepared
        BY <1>2 DEF Start
  <2>2. /\ api' = "idle"
        /\ files' = files /\ decoding' \subseteq decoding
        BY <1>2 DEF Start, DatafileError, StartNext, MayStart
  <2>3. QED
        BY <2>1, <2>2 DEF QueueOK
<1>3. CASE OnNotification
  <2>1. api = "notified" /\ expects \in Layers /\ expects' = NoLayer
        BY <1>0, <1>3 DEF OnNotification, JobOK, NotifiedOK, DoneOK, Cancelling
  <2>2. StartNext("Idle", files, decoding \ {expects})
        BY <1>3, <2>1, SkySightAssumption DEF OnNotification, Deliver
  <2>3. m \in decoding \ {expects} => Waits(m, files)
        BY <2>1 DEF QueueOK
  <2>4. QED
        BY <1>0, <2>2, <2>3, StartNextWaits DEF MembersOK
<1>4. CASE ClearNotification
  <2>1. UNCHANGED <<decoding, files, prepared, expects>>
        BY <1>4 DEF ClearNotification, job
  <2>2. Starting' <=> Starting
        BY <1>4, ClearingMoves
  <2>3. QED
        BY <2>1, <2>2 DEF QueueOK
<1>5. CASE Forget
      BY <1>5 DEF Forget
<1>6. CASE Cancel \/ LockStop \/ StopReturns \/ RunNotification
  <2>1. UNCHANGED <<decoding, files, prepared, expects>>
        BY <1>6 DEF Cancel, LockStop, StopReturns, RunNotification, job
  <2>2. ~Starting /\ ~Starting'
        BY <1>6 DEF Cancel, LockStop, StopReturns, AfterJoin, RunNotification
  <2>3. QED
        BY <2>1, <2>2 DEF QueueOK
<1>7. CASE DecoderRuns \/ ThreadStep
      BY <1>7 DEF DecoderRuns, ThreadStep, Decode, Publish, SendNotification, TickReturns,
                  MainUnchanged, QueueOK
<1>8. CASE UNCHANGED decodeVars
      BY <1>8 DEF decodeVars, job, QueueOK
<1>9. QED
      BY <1>1, <1>2, <1>3, <1>4, <1>5, <1>6, <1>7, <1>8 DEF DecodeNext, MainStep

LEMMA StepResults == DecoderInv /\ ResultsMatch /\ [DecodeNext]_decodeVars => ResultsMatch'
<1> SUFFICES ASSUME DecoderInv, ResultsMatch, [DecodeNext]_decodeVars PROVE ResultsMatch'
    OBVIOUS
<1>1. CASE OnNotification
  <2>1. expects \in Layers /\ result \in {expects, "error"}
        BY <1>1 DEF OnNotification, DecoderInv, JobOK, NotifiedOK, DoneOK, Cancelling
  <2>2. delivered' = [to |-> expects, what |-> result]
        BY <1>1, <2>1, SkySightAssumption DEF OnNotification, Deliver
  <2>3. QED
        BY <2>1, <2>2 DEF ResultsMatch
<1>2. CASE ~OnNotification
  <2>1. UNCHANGED delivered
        BY <1>2
        DEF DecodeNext, MainStep, ThreadStep, OnDatafileDownloaded, Start, ClearNotification,
            Cancel, LockStop, StopReturns, Forget, RunNotification, DecoderRuns, Decode,
            Publish, SendNotification, TickReturns, MainUnchanged, decodeVars
  <2>2. QED
        BY <2>1 DEF ResultsMatch
<1>3. QED
      BY <1>1, <1>2

-----------------------------------------------------------------------------
LEMMA DecodeInitOK == DecodeInit => DecoderInv /\ QueueOK /\ ResultsMatch
<1> SUFFICES ASSUME DecodeInit PROVE DecoderInv /\ QueueOK /\ ResultsMatch
    OBVIOUS
<1> USE DEF DecodeInit, StandbyInit, NotifyInit
<1>1. MembersOK
  <2>1. downloads \in 0..MaxDownloads
        BY SkySightAssumption
  <2>2. files \in Seq(Layers) /\ decoding \subseteq Layers
        OBVIOUS
  <2>3. delivered \in [to : Layers \cup {NoLayer}, what : Results]
        BY DEF Results
  <2>4. QED
        BY <2>1, <2>2, <2>3 DEF MembersOK, Results
<1>2. FileOK /\ CancelOK /\ JobOK
      BY DEF FileOK, CancelOK, JobOK, IdleOK, BusyOK, DoneOK, NotifiedOK, Starting
<1>3. DecoderFlagsOK
      BY DEF DecoderFlagsOK, StandbyTypeOK, StandbyPlaces, DecodeTicking, Unsent, MainPlaces
<1>4. QED
      BY <1>1, <1>2, <1>3 DEF DecoderInv, QueueOK, ResultsMatch

LEMMA StepDecoderInv == DecoderInv /\ [DecodeNext]_decodeVars => DecoderInv'
BY StepMembers, StepFile, StepDecoderFlags, StepCancel, StepJob DEF DecoderInv

(* Type correctness of the decoder, for any layers, any number of          *)
(* downloads, and whether or not threads can be created.  It includes that *)
(* never more than one call of its Notify is in the event queue.           *)
THEOREM DecoderTypeCorrect == DecodeSpec => []DecodeTypeOK
<1>1. DecoderInv => DecodeTypeOK
  <2> SUFFICES ASSUME DecoderInv PROVE DecodeTypeOK
      OBVIOUS
  <2>1. NotifyTypeOK(1)
    <3>1. pending \in BOOLEAN /\ queued \in {0, 1}
          BY DEF DecoderInv, DecoderFlagsOK
    <3>2. queued \in 0..1
          BY <3>1
    <3>3. QED
          BY <3>1, <3>2 DEF NotifyTypeOK
  <2>2. QED
        BY <2>1 DEF DecoderInv, MembersOK, DecoderFlagsOK, DecodeTypeOK
<1>2. QED
      BY <1>1, DecodeInitOK, StepDecoderInv, PTL DEF DecodeSpec

(* Each callback gets what was made of its own file, although Start()      *)
(* clears the notifications before it waits for the thread.                *)
THEOREM ResultsAreTheirs == DecodeSpec => []ResultsMatch
BY DecodeInitOK, StepDecoderInv, StepResults, PTL DEF DecodeSpec

(* When Cancel() has returned, no notification of the job is under way.    *)
THEOREM CancelIsComplete == DecodeSpec => []CancelSuppresses
<1>1. DecoderInv => CancelSuppresses
      BY DEF DecoderInv, MembersOK, JobOK, IdleOK, BusyOK, DoneOK, Cancelling, CancelSuppresses
<1>2. QED
      BY <1>1, DecodeInitOK, StepDecoderInv, PTL DEF DecodeSpec

(* WaitDone() in Start() never makes the main thread wait: a decoder that  *)
(* is idle has no thread at work.                                          *)
THEOREM StartNeverWaits == DecodeSpec => [](api = "start" => ~IsWorking)
<1>1. DecoderInv => (api = "start" => ~IsWorking)
      BY DEF DecoderInv, DecoderFlagsOK, JobOK, IdleOK, Starting, Cancelling, IsWorking,
             StandbyTypeOK, DecodeTicking
<1>2. QED
      BY <1>1, DecodeInitOK, StepDecoderInv, PTL DEF DecodeSpec

-----------------------------------------------------------------------------
(* A thread that was told to end was asked for nothing since, and a job    *)
(* that was asked for has a thread, if threads can be created.             *)
Spawned ==
  /\ stop => ~work
  /\ ~StartMayFail /\ work => alive

LEMMA StepSpawned ==
  DecoderInv /\ Awake /\ Spawned /\ [DecodeNext]_decodeVars => Awake' /\ Spawned'
<1> SUFFICES ASSUME DecoderInv, Awake, Spawned, [DecodeNext]_decodeVars
             PROVE  Awake' /\ Spawned'
    OBVIOUS
<1>0. StandbyTypeOK(DecodeTicking)
      BY DEF DecoderInv, DecoderFlagsOK
<1>1. CASE Start
  <2>1. Trigger \/ (TriggerThrows /\ StartMayFail)
        BY <1>1 DEF Start
  <2>2. Awake'
        BY <1>0, <2>1, TickingApart, CallsWake
  <2>3. Spawned'
        BY <2>1 DEF Trigger, TriggerThrows, Spawned
  <2>4. QED
        BY <2>2, <2>3
<1>2. CASE LockStop \/ StopReturns
  <2>1. StopAsync \/ JoinThread
        BY <1>2 DEF LockStop, StopReturns
  <2>2. Awake'
        BY <1>0, <2>1, TickingApart, CallsWake
  <2>3. Spawned'
        BY <2>1 DEF StopAsync, JoinThread, Spawned
  <2>4. QED
        BY <2>2, <2>3
<1>3. CASE DecoderRuns \/ TickReturns
  <2>1. BeginsTick("decode", CopyPrepared) \/ Ends \/ Sleeps
        BY <1>3 DEF DecoderRuns, TickReturns, RunLoop
  <2>2. Awake'
        BY <1>0, <2>1, TickingApart, TurnsWake
  <2>3. Spawned'
        BY <2>1 DEF BeginsTick, Ends, Sleeps, Spawned
  <2>4. QED
        BY <2>2, <2>3
<1>4. CASE Decode \/ Publish \/ SendNotification
  <2>1. UNCHANGED <<alive, work, stop>> /\ th' # "sleep"
        BY <1>4 DEF Decode, Publish, SendNotification
  <2>2. QED
        BY <2>1 DEF Awake, Spawned
<1>5. CASE OnDatafileDownloaded \/ OnNotification \/ ClearNotification \/ Cancel
           \/ Forget \/ RunNotification \/ UNCHANGED decodeVars
  <2>1. UNCHANGED standby
        BY <1>5 DEF OnDatafileDownloaded, OnNotification, ClearNotification, Cancel, Forget,
           RunNotification, decodeVars
  <2>2. QED
        BY <2>1 DEF standby, Awake, Spawned
<1>6. QED
      BY <1>1, <1>2, <1>3, <1>4, <1>5 DEF DecodeNext, MainStep, ThreadStep

(* Files are only left in the queue while the decoder has one.             *)
QueueIsServed == api = "idle" /\ files # <<>> => status # "Idle"

LEMMA StepServed ==
  DecoderInv /\ QueueIsServed /\ [DecodeNext]_decodeVars => QueueIsServed'
<1> SUFFICES ASSUME DecoderInv, QueueIsServed, [DecodeNext]_decodeVars,
                    api' = "idle", files' # <<>>, status' = "Idle"
             PROVE  FALSE
    BY DEF QueueIsServed
<1>1. CASE OnDatafileDownloaded
  <2>1. PICK l \in Layers : StartNext(status, Append(files, l), decoding \cup {l})
        BY <1>1 DEF OnDatafileDownloaded
  <2>2. Append(files, l) # <<>> /\ status = "Idle"
        BY <1>1 DEF OnDatafileDownloaded, DecoderInv, MembersOK
  <2>3. QED
        BY <2>1, <2>2 DEF StartNext, MayStart
<1>2. CASE OnNotification
  <2>1. api = "notified" /\ expects \in Layers
        BY <1>2 DEF OnNotification, DecoderInv, JobOK, NotifiedOK, DoneOK, Cancelling
  <2>2. StartNext("Idle", files, decoding \ {expects})
        BY <1>2, <2>1, SkySightAssumption DEF OnNotification, Deliver
  <2>3. QED
        BY <2>2 DEF StartNext, MayStart
<1>3. CASE Start
      BY <1>3 DEF Start
<1>4. CASE ClearNotification
      BY <1>4, ClearingMoves
<1>5. CASE Cancel \/ LockStop \/ StopReturns \/ Forget
      BY <1>5 DEF Cancel, LockStop, StopReturns, AfterJoin, Forget
<1>6. CASE RunNotification \/ UNCHANGED decodeVars
      BY <1>6 DEF RunNotification, decodeVars, job, QueueIsServed
<1>7. CASE DecoderRuns \/ TickReturns
  <2>1. UNCHANGED <<api, files>> /\ status' \in {status, "Busy"}
        BY <1>7 DEF DecoderRuns, TickReturns, RunLoop, BeginsTick, CopyPrepared, MainUnchanged
  <2>2. QED
        BY <2>1 DEF QueueIsServed
<1>8. CASE Decode \/ Publish \/ SendNotification
  <2>1. UNCHANGED <<api, files>> /\ status' \in {status, "Error", "Complete"}
        BY <1>8 DEF Decode, Publish, SendNotification, MainUnchanged
  <2>2. QED
        BY <2>1 DEF QueueIsServed
<1>9. QED
      BY <1>1, <1>2, <1>3, <1>4, <1>5, <1>6, <1>7, <1>8 DEF DecodeNext, MainStep, ThreadStep

LEMMA DecodeInitServed == DecodeInit => Awake /\ Spawned /\ QueueIsServed
BY DEF DecodeInit, StandbyInit, Awake, Spawned, QueueIsServed

(* Of a decoder that the system has refused a thread, the layer that asked *)
(* for it was told: all that say they are being decoded are still waiting. *)
RefusedOK == Stuck => \A l \in decoding : Waits(l, files)

LEMMA StepRefused ==
  DecoderInv /\ QueueOK /\ Spawned /\ RefusedOK /\ [DecodeNext]_decodeVars => RefusedOK'
<1> SUFFICES ASSUME DecoderInv, QueueOK, Spawned, RefusedOK, [DecodeNext]_decodeVars, Stuck',
                    NEW m \in decoding'
             PROVE  Waits(m, files')
    BY DEF RefusedOK
<1>0. MembersOK /\ JobOK /\ CancelOK /\ StandbyTypeOK(DecodeTicking)
      BY DEF DecoderInv, DecoderFlagsOK
<1>1. CASE Start
  <2>1. TriggerThrows /\ StartNext("Busy", files, decoding \ {prepared}) /\ api = "start"
        BY <1>1 DEF Start, DatafileError, Trigger, Stuck
  <2>2. files' = files /\ m \in decoding /\ m # prepared
        BY <2>1 DEF StartNext, MayStart
  <2>3. QED
        BY <2>1, <2>2 DEF QueueOK, InDecoder, Starting
<1>2. CASE OnDatafileDownloaded
  <2>1. PICK l \in Layers : StartNext(status, Append(files, l), decoding \cup {l})
        BY <1>2 DEF OnDatafileDownloaded
  <2>2. Stuck /\ api = "idle"
        BY <1>2 DEF OnDatafileDownloaded, standby, Stuck
  <2>3. status # "Idle"
        BY <1>0, <2>2 DEF JobOK, IdleOK, Cancelling, Stuck
  <2>4. files' = Append(files, l) /\ m \in decoding \cup {l}
        BY <2>1, <2>3 DEF StartNext, MayStart
  <2>5. Waits(m, files) \/ m = l
        BY <2>2, <2>4 DEF RefusedOK
  <2>6. Waits(m, Append(files, l))
        BY <1>0, <2>5, AppendWaits DEF MembersOK
  <2>7. QED
        BY <2>4, <2>6
<1>3. CASE OnNotification
      BY <1>0, <1>3 DEF OnNotification, standby, Stuck, JobOK, NotifiedOK, DoneOK, Cancelling
<1>4. CASE Forget
      BY <1>4 DEF Forget
<1>5. CASE LockStop \/ StopReturns
      BY <1>0, <1>5 DEF LockStop, StopAsync, StopReturns, JoinThread, CancelOK, Stuck
<1>6. CASE DecoderRuns \/ TickReturns
      BY <1>0, <1>6 DEF DecoderRuns, TickReturns, RunLoop, BeginsTick, Ends, Sleeps, Enters,
         Spawned, Stuck, StandbyTypeOK, DecodeTicking
<1>7. CASE ClearNotification \/ Cancel \/ RunNotification \/ UNCHANGED decodeVars
  <2>1. UNCHANGED <<standby, decoding, files>>
        BY <1>7 DEF ClearNotification, Cancel, RunNotification, decodeVars
  <2>2. QED
        BY <2>1 DEF standby, Stuck, RefusedOK
<1>8. CASE Decode \/ Publish \/ SendNotification
  <2>1. UNCHANGED <<alive, work, decoding, files>>
        BY <1>8 DEF Decode, Publish, SendNotification, MainUnchanged
  <2>2. QED
        BY <2>1 DEF Stuck, RefusedOK
<1>9. QED
      BY <1>1, <1>2, <1>3, <1>4, <1>5, <1>6, <1>7, <1>8 DEF DecodeNext, MainStep, ThreadStep

(* A layer that says it is being decoded has its file in the queue or in a *)
(* decoder that is not stuck with it.                                      *)
THEOREM DecodingIsReal == DecodeSpec => []DecodingIsTrue
<1>1. QueueOK /\ RefusedOK => DecodingIsTrue
      BY DEF QueueOK, RefusedOK, InDecoder, Starting, Waits, DecodingIsTrue
<1>2. DecodeInit => RefusedOK
      BY DEF DecodeInit, StandbyInit, RefusedOK, Stuck
<1>3. QED
      BY <1>1, <1>2, DecodeInitOK, DecodeInitServed, StepDecoderInv, StepQueue, StepSpawned,
         StepRefused, PTL DEF DecodeSpec

(* The decoder never sleeps through a job or through Stop().               *)
THEOREM DecoderWakesUp == DecodeSpec => [](th = "sleep" /\ (work \/ stop) => signalled)
<1>1. Awake => (th = "sleep" /\ (work \/ stop) => signalled)
      BY DEF Awake
<1>2. QED
      BY <1>1, DecodeInitOK, DecodeInitServed, StepDecoderInv, StepSpawned, PTL DEF DecodeSpec

(* Whoever has to act next for the files that are left to decode. *)
Driven ==
  \/ work /\ (th = "start" \/ (th = "sleep" /\ signalled))
  \/ th \in {"decode", "lock", "notify", "inject"}
  \/ pending /\ queued = 1

(* Between two calls of the main thread, as long as there are files to     *)
(* decode or layers that wait for one, the thread is at work or about to   *)
(* be, or its notification is in the event queue: what DecodingEnds rests  *)
(* on.  The exception is a thread that the system has refused.             *)
THEOREM DecodingGoesOn ==
  DecodeSpec => [](api = "idle" /\ (files # <<>> \/ decoding # {}) => Driven \/ Stuck)
<1>1. DecoderInv /\ QueueOK /\ Awake /\ QueueIsServed =>
        (api = "idle" /\ (files # <<>> \/ decoding # {}) => Driven \/ Stuck)
  <2> SUFFICES ASSUME DecoderInv, QueueOK, Awake, QueueIsServed,
                      api = "idle", files # <<>> \/ decoding # {}
               PROVE  Driven \/ Stuck
      OBVIOUS
  <2>1. MembersOK /\ StandbyTypeOK(DecodeTicking) /\ IdleOK /\ BusyOK /\ DoneOK
        BY DEF DecoderInv, DecoderFlagsOK, JobOK, Cancelling
  <2>2. files # <<>> \/ expects \in Layers
    <3>1. ASSUME NEW m \in decoding PROVE files # <<>> \/ m = expects
          BY <3>1 DEF QueueOK, Waits, InDecoder, Starting
    <3>2. QED
          BY <2>1, <3>1 DEF MembersOK
  <2>3. status # "Idle"
        BY <2>2, SkySightAssumption DEF QueueIsServed, IdleOK, DecoderInv, JobOK, Cancelling
  <2>4. CASE status = "Busy" /\ work /\ alive
    <3>1. th \in {"start", "sleep"}
          BY <2>1, <2>4 DEF BusyOK, StandbyTypeOK
    <3>2. QED
          BY <2>4, <3>1 DEF Awake, Driven
  <2>5. CASE status = "Busy" /\ ~work
        BY <2>1, <2>5 DEF BusyOK, Driven
  <2>6. CASE status \in {"Complete", "Error"}
        BY <2>1, <2>6 DEF DoneOK, Driven
  <2>7. QED
        BY <2>1, <2>3, <2>4, <2>5, <2>6 DEF MembersOK, Stuck
<1>2. QED
      BY <1>1, DecodeInitOK, DecodeInitServed, StepDecoderInv, StepQueue, StepSpawned,
         StepServed, PTL DEF DecodeSpec

(* Nothing but such a refusal gets the decoder stuck.                      *)
THEOREM OnlyRefusalsStick ==
  ASSUME ~StartMayFail
  PROVE  DecodeSpec => []~Stuck
<1>1. Spawned => ~Stuck
      BY DEF Spawned, Stuck
<1>2. QED
      BY <1>1, DecodeInitOK, DecodeInitServed, StepDecoderInv, StepSpawned, PTL DEF DecodeSpec
=============================================================================
