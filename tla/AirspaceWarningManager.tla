----------------------- MODULE AirspaceWarningManager -----------------------
(***************************************************************************)
(* src/src/Engine/Airspace/AirspaceWarningManager.cpp with the computer    *)
(* that drives it, src/src/Computer/WarningComputer.cpp.  The calculation  *)
(* thread updates the list of warnings at each fix; the dialogs of the UI  *)
(* thread acknowledge them in between, each call under the manager's       *)
(* mutex.  An airspace is the address of its object, as it is in           *)
(* ack_day_airspaces: refreshing the NOTAMs replaces all their objects     *)
(* (src/src/NOTAM/AirspaceSync.cpp), which the station name outlives.      *)
(* Where the aircraft is, and which airspaces surround another, is chosen  *)
(* freely.                                                                 *)
(***************************************************************************)
EXTENDS AirspaceWarning, FiniteSets

CONSTANTS
  Airspaces,  \* addresses of airspace objects
  Stations,   \* names of NOTAMs
  Steps,      \* seconds between two fixes, rounded
  None

ASSUME ManagerAssumption == None \notin Stations /\ Steps \subseteq Nat \ {0}

VARIABLES
  listed,             \* the airspaces of the database
  key,                \* NotamDayAckKey() of each object
  warnings,           \* the list: an entry for each airspace, or None
  ack_day_airspaces,
  notam_day_ack,      \* notam_day_ack_by_station
  initialised,        \* WarningComputer::initialised
  step                \* history: what the last step was

vars == <<listed, key, warnings, ack_day_airspaces, notam_day_ack, initialised, step>>
remembered == <<ack_day_airspaces, notam_day_ack>>
database == <<listed, key>>

Present(p) == warnings[p] # None
IsAlert(p) == Present(p) /\ IsActive(warnings[p])
Alerts == {p \in Airspaces : IsAlert(p)}

(* The polygons of one NOTAM. *)
Siblings(p) == IF key[p] = None THEN {p} ELSE {q \in Airspaces : key[q] = key[p]}

KeyIsAcked(p) == key[p] # None /\ key[p] \in notam_day_ack

GetAckDay(p) ==
  \/ KeyIsAcked(p)
  \/ p \in ack_day_airspaces
  \/ Present(p) /\ warnings[p].day

TypeOK ==
  /\ listed \subseteq Airspaces
  /\ key \in [Airspaces -> Stations \union {None}]
  /\ warnings \in [Airspaces -> Entries \union {None}]
  /\ ack_day_airspaces \subseteq Airspaces
  /\ notam_day_ack \subseteq Stations
  /\ initialised \in BOOLEAN
  /\ step \in {"silent", "reported", "forgotten", "pilot", "other"}

Init ==
  /\ listed \in SUBSET Airspaces
  /\ key \in [Airspaces -> Stations \union {None}]
  /\ warnings = [p \in Airspaces |-> None]
  /\ ack_day_airspaces = {} /\ notam_day_ack = {}
  /\ initialised = FALSE /\ step = "other"

-----------------------------------------------------------------------------
(* Seeded fault: a new entry does not look for its airspace among those    *)
(* acknowledged for the day.                                               *)
Fresh_KeyOnly(p) == IF KeyIsAcked(p) THEN AckDay(NewEntry, TRUE) ELSE NewEntry

(* GetNewWarningPtr(): a new entry, with what is remembered of the day.    *)
Fresh(p) ==
  IF KeyIsAcked(p) \/ p \in ack_day_airspaces THEN AckDay(NewEntry, TRUE) ELSE NewEntry

(* SaveState(), the Update functions and WarningLive() for an airspace the *)
(* aircraft finds itself at this level of; `old' is its entry, or None.    *)
Cycle(p, old, level, dt) ==
  LET before == IF old = None THEN Fresh(p) ELSE old
  IN Live([before EXCEPT !.state = level], before.state, dt)

(* A new entry has not been saved: its change is from an empty one. *)
Saved(old) == IF old = None THEN NewEntry ELSE old

Empty == [p \in Airspaces |-> None]

(* AirspaceWarningManager::Update() on a list of warnings, with what it    *)
(* returns.  Only the airspaces of the database are looked for.            *)
UpdateList(list, levels, dt, changed) ==
  LET cycled == {p \in Airspaces : list[p] # None \/ levels[p] # Clear}
      next == [p \in cycled |-> Cycle(p, list[p], levels[p], dt)]
  IN /\ \A p \in Airspaces \ listed : levels[p] = Clear
     /\ warnings' = [p \in Airspaces |->
          IF p \in cycled /\ IsLive(next[p]) THEN next[p] ELSE None]
     /\ changed = \E p \in cycled : ChangedState(next[p], Saved(list[p])) \/ ~IsLive(next[p])
     /\ UNCHANGED remembered

(* Without any airspace the memory of objects goes, as their addresses may *)
(* come back.                                                              *)
UpdateEmpty(list, changed) ==
  /\ changed = (ack_day_airspaces # {} \/ list # Empty)
  /\ warnings' = Empty
  /\ ack_day_airspaces' = {}
  /\ UNCHANGED notam_day_ack

(* WarningComputer::Update() with a fix.  The first one, or the first      *)
(* after a time warp, empties the list before, and keeps what was          *)
(* acknowledged for the day.                                               *)
Update(changed) ==
  LET list == IF initialised THEN warnings ELSE Empty
  IN /\ initialised' = TRUE
     /\ \/ listed = {} /\ UpdateEmpty(list, changed)
        \/ /\ listed # {}
           /\ \E levels \in [Airspaces -> States], dt \in Steps :
                UpdateList(list, levels, dt, changed)
     /\ UNCHANGED database

(* WarningComputer::Reset(), after a time warp. *)
TimeWarp ==
  /\ initialised
  /\ initialised' = FALSE
  /\ UNCHANGED <<database, warnings, remembered>>

ForgetAll ==
  /\ warnings' = Empty
  /\ ack_day_airspaces' = {}
  /\ notam_day_ack' = {}

(* Without a position or an altitude, or with warnings disabled. *)
LoseFix ==
  /\ initialised
  /\ initialised' = FALSE
  /\ ForgetAll
  /\ UNCHANGED database

-----------------------------------------------------------------------------
(* The database changes while all threads are suspended.  NOTAMs get new   *)
(* objects while the old ones still exist; an address is free when nothing *)
(* refers to its object.                                                   *)
Rebuild ==
  \E fresh \in SUBSET {p \in Airspaces : p \notin listed /\ ~Present(p)} :
    \E station \in [fresh -> Stations] :
      /\ listed' = {p \in listed : key[p] = None} \union fresh
      /\ key' = [p \in Airspaces |-> IF p \in fresh THEN station[p] ELSE key[p]]
      /\ UNCHANGED <<warnings, remembered, initialised>>

(* SettingsLeave() reads the airspace files again. *)
ReadAirspace ==
  \E fresh \in SUBSET {p \in Airspaces : (key[p] = None \/ p \notin listed)} :
    /\ listed' = {p \in listed : key[p] # None} \union fresh
    /\ key' = [p \in Airspaces |-> IF p \in fresh THEN None ELSE key[p]]
    /\ ForgetAll
    /\ UNCHANGED initialised

-----------------------------------------------------------------------------
Put(p, w) == warnings' = [warnings EXCEPT ![p] = w]

(* GetWarning() creates the entry it does not find. *)
GetWarning(p) == IF Present(p) THEN warnings[p] ELSE Fresh(p)

(* The ACK button of the list. *)
Acknowledge(p) ==
  /\ IsAlert(p)
  /\ Put(p, AckLevel(warnings[p]))
  /\ UNCHANGED <<database, remembered, initialised>>

AcknowledgeWarning(p, set) ==
  /\ IF set \/ Present(p) THEN Put(p, AckWarning(GetWarning(p), set)) ELSE UNCHANGED warnings
  /\ UNCHANGED <<database, remembered, initialised>>

AcknowledgeInside(p, set) ==
  /\ IF set \/ Present(p) THEN Put(p, AckInside(GetWarning(p), set)) ELSE UNCHANGED warnings
  /\ UNCHANGED <<database, remembered, initialised>>

AcknowledgeAll ==
  /\ Alerts # {}
  /\ warnings' = [p \in Airspaces |->
       IF IsAlert(p) THEN AckInside(AckWarning(warnings[p], TRUE), TRUE) ELSE warnings[p]]
  /\ UNCHANGED <<database, remembered, initialised>>

(* AckOutsideAirspaces() picks its airspaces among these; which of them    *)
(* surround the one acknowledged is a matter of geometry.                  *)
MaySurround(p, list) ==
  {q \in Airspaces \ {p} : list[q] # None /\ ~list[q].day /\ list[q].state # Clear}

(* AcknowledgeDay(true): the airspace, its siblings in the list and        *)
(* whatever surrounds it.                                                  *)
AckDaySet(p) ==
  LET list == [q \in Airspaces |->
        IF q = p \/ (q \in Siblings(p) /\ Present(q)) THEN AckDay(GetWarning(q), TRUE)
        ELSE warnings[q]]
  IN \E outside \in SUBSET MaySurround(p, list) :
       /\ warnings' = [q \in Airspaces |->
            IF q \in outside THEN AckDay(list[q], TRUE) ELSE list[q]]
       /\ ack_day_airspaces' = ack_day_airspaces \union {p} \union outside
            \union {q \in Siblings(p) : Present(q)}
       /\ notam_day_ack' = notam_day_ack \union ({key[p]} \ {None})

(* AcknowledgeDay(false).  An airspace with a station name, and neither an *)
(* entry nor a remembered station, is left as it is.                       *)
AckDayReset(p) ==
  LET inList == {q \in Siblings(p) : Present(q)}
      finds == inList # {} \/ key[p] = None \/ KeyIsAcked(p)
  IN IF ~finds THEN UNCHANGED <<warnings, remembered>>
     ELSE /\ warnings' = [q \in Airspaces |->
                IF q \in inList THEN AckDay(warnings[q], FALSE) ELSE warnings[q]]
          /\ ack_day_airspaces' = ack_day_airspaces \ ({p} \union inList)
          /\ notam_day_ack' = notam_day_ack \ {key[p]}

AcknowledgeDay(p, set) ==
  /\ IF set THEN AckDaySet(p) ELSE AckDayReset(p)
  /\ UNCHANGED <<database, initialised>>

-----------------------------------------------------------------------------
ComputerUpdates ==
  \E changed \in BOOLEAN :
    Update(changed) /\ step' = IF changed THEN "reported" ELSE "silent"

Other == (TimeWarp \/ Rebuild \/ ReadAirspace) /\ step' = "other"

Forgets == LoseFix /\ step' = "forgotten"

(* What a dialog may show: an airspace of the database or the list, or a   *)
(* NOTAM that a refresh has replaced since, whose object the dialog keeps. *)
Shown == {p \in Airspaces : p \in listed \/ Present(p) \/ key[p] # None}

(* The banner acknowledges the level it showed last, the list the level    *)
(* there is, and the details of an airspace the whole day.                 *)
Acks ==
  \/ AcknowledgeAll
  \/ \E p \in Shown :
       \/ Acknowledge(p) \/ AcknowledgeWarning(p, TRUE) \/ AcknowledgeInside(p, TRUE)
       \/ AcknowledgeDay(p, TRUE)

(* Enable() of the list makes these calls one after the other, each under  *)
(* the mutex of its own; the details make the first one only.              *)
Enables ==
  \E p \in Shown :
    \/ AcknowledgeDay(p, FALSE)
    \/ AcknowledgeInside(p, FALSE) \/ AcknowledgeWarning(p, FALSE)

PilotActs == (Acks \/ Enables) /\ step' = "pilot"

Next == ComputerUpdates \/ Other \/ Forgets \/ PilotActs

Spec == Init /\ [][Next]_vars

-----------------------------------------------------------------------------
(* Every entry of the list agrees with the memory that outlives it: an     *)
(* airspace is silent for the day exactly when its NOTAM's station or its  *)
(* address is remembered.  Whether the address was remembered for this     *)
(* object is another question: see NewAirspaceIsHeard.                     *)
FlagMatchesMemory ==
  \A p \in Airspaces :
    Present(p) => (warnings[p].day <=> KeyIsAcked(p) \/ p \in ack_day_airspaces)

(* An acknowledgement holds for its time: while more than this cycle is    *)
(* left of it, a warning that goes on does not alert unless it becomes     *)
(* more urgent, and being inside, once acknowledged, covers being near.    *)
Remaining(w) == IF w.day THEN Forever ELSE IF w.state = Inside THEN w.inside ELSE w.warning

AckHolds ==
  step' \in {"silent", "reported"} /\ initialised =>
    \A p \in Airspaces :
      /\ Present(p) /\ warnings'[p] # None
      /\ warnings'[p].state \in Near..warnings[p].state
      /\ \A dt \in Steps : Granted(Remaining(warnings[p])) > dt
      => ~IsActive(warnings'[p])

NoEarlyAlert == [][AckHolds]_vars

(* No alert begins unannounced: when a cycle makes a warning alert that    *)
(* did not before, whatever the dialogs have done in between, Update()     *)
(* says so, and the monitor of the UI thread looks.                        *)
AlertIsReported == [][step' = "silent" => Alerts' \subseteq Alerts]_vars

(* The manual, doc/manual/en/ch07_airspace_and_flarm.tex:201: ACK Day is   *)
(* for the rest of the flight, until XCSoar is restarted.  But losing the  *)
(* GPS position forgets it.                                                *)
DayAckIsForTheFlight ==
  [][step' \in {"silent", "reported", "forgotten"} =>
       \A p \in listed : GetAckDay(p) => GetAckDay(p)']_vars

-----------------------------------------------------------------------------
(* AirspaceWarningManager.cpp:208: "A new airspace can reuse an old        *)
(* address."  So nothing that comes into the database may find its address *)
(* among those acknowledged for the day: it is only silent if its station  *)
(* is remembered.  The code empties the memory where the database is empty *)
(* or read again, but not where the NOTAMs are replaced.                   *)
NewAirspaceIsHeard ==
  [][\A p \in listed' \ listed : GetAckDay(p)' => KeyIsAcked(p)']_vars
=============================================================================
