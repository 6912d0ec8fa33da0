-------------------- MODULE AirspaceWarningManagerProofs --------------------
(***************************************************************************)
(* Theorems about AirspaceWarningManager.tla, for any airspaces, stations, *)
(* acknowledgement time and periods between the fixes.                     *)
(***************************************************************************)
EXTENDS AirspaceWarningManager, TLAPS

(* The flag that WarningLive() and the acknowledgements leave behind says  *)
(* what IsAckExpired() would say now.                                      *)
IsKept(w) == w.expired <=> IsAckExpired(w)

(* What outlives an entry. *)
Remembered(p) == KeyIsAcked(p) \/ p \in ack_day_airspaces

MemoryOK ==
  /\ listed \subseteq Airspaces
  /\ key \in [Airspaces -> Stations \union {None}]
  /\ ack_day_airspaces \subseteq Airspaces
  /\ notam_day_ack \subseteq Stations
  /\ initialised \in BOOLEAN

WarningsOK ==
  /\ warnings \in [Airspaces -> Entries \union {None}]
  /\ \A p \in Airspaces : Present(p) =>
       /\ IsKept(warnings[p])
       /\ warnings[p].day <=> Remembered(p)

StepOK == step \in {"silent", "reported", "forgotten", "pilot", "other"}

(* The inductive invariant. *)
IInv == MemoryOK /\ WarningsOK /\ StepOK

-----------------------------------------------------------------------------
(* What the operations of AirspaceWarning do to an entry. *)

LEMMA NotedKeeps ==
  ASSUME NEW w \in Entries
  PROVE  /\ Noted(w) \in Entries
         /\ IsKept(Noted(w))
         /\ Noted(w).day = w.day
         /\ Noted(w).state = w.state
         /\ Noted(w).warning = w.warning
         /\ Noted(w).inside = w.inside
  BY DEF Noted, Entries, IsKept, IsAckExpired

LEMMA NewEntryIsKept ==
  /\ NewEntry \in Entries
  /\ IsKept(NewEntry)
  /\ ~NewEntry.day
  /\ NewEntry.state = Clear
  BY AckTimeAssumption
  DEF NewEntry, Entries, IsKept, IsAckExpired, Forever, States, Clear, Near, Inside

LEMMA AckDayKeeps ==
  ASSUME NEW w \in Entries, NEW set \in BOOLEAN
  PROVE  /\ AckDay(w, set) \in Entries
         /\ IsKept(AckDay(w, set))
         /\ AckDay(w, set).day = set
         /\ AckDay(w, set).state = w.state
  <1>1. [w EXCEPT !.day = set] \in Entries
    BY DEF Entries
  <1>2. [w EXCEPT !.day = set].day = set /\ [w EXCEPT !.day = set].state = w.state
    BY DEF Entries
  <1> QED
    BY <1>1, <1>2, NotedKeeps DEF AckDay

LEMMA AckWarningKeeps ==
  ASSUME NEW w \in Entries, NEW set \in BOOLEAN
  PROVE  /\ AckWarning(w, set) \in Entries
         /\ IsKept(AckWarning(w, set))
         /\ AckWarning(w, set).day = w.day
  <1> DEFINE time == IF set THEN Forever ELSE 0
  <1>1. time \in 0..Forever
    BY AckTimeAssumption DEF Forever
  <1> HIDE DEF time
  <1>2. [w EXCEPT !.warning = time] \in Entries /\ [w EXCEPT !.warning = time].day = w.day
    BY <1>1 DEF Entries
  <1> QED
    BY <1>2, NotedKeeps DEF AckWarning, time

LEMMA AckInsideKeeps ==
  ASSUME NEW w \in Entries, NEW set \in BOOLEAN
  PROVE  /\ AckInside(w, set) \in Entries
         /\ IsKept(AckInside(w, set))
         /\ AckInside(w, set).day = w.day
  <1> DEFINE time == IF set THEN Forever ELSE 0
  <1>1. time \in 0..Forever
    BY AckTimeAssumption DEF Forever
  <1> HIDE DEF time
  <1>2. [w EXCEPT !.inside = time] \in Entries /\ [w EXCEPT !.inside = time].day = w.day
    BY <1>1 DEF Entries
  <1> QED
    BY <1>2, NotedKeeps DEF AckInside, time

LEMMA AckLevelKeeps ==
  ASSUME NEW w \in Entries, IsKept(w)
  PROVE  /\ AckLevel(w) \in Entries
         /\ IsKept(AckLevel(w))
         /\ AckLevel(w).day = w.day
  BY AckWarningKeeps, AckInsideKeeps DEF AckLevel, Near, Inside

LEMMA LeftIsTime ==
  ASSUME NEW time \in 0..Forever, NEW dt \in Nat
  PROVE  /\ Granted(time) \in 0..Forever
         /\ Left(time, dt) \in 0..Forever
         /\ time > dt => Left(time, dt) > 0
  BY AckTimeAssumption DEF Granted, Left, Forever

LEMMA LongerIsTime ==
  ASSUME NEW s \in 0..Forever, NEW t \in 0..Forever
  PROVE  /\ Longer(s, t) \in 0..Forever
         /\ Longer(s, t) >= s /\ Longer(s, t) >= t
  BY AckTimeAssumption DEF Longer, Forever

LEMMA LiveKeeps ==
  ASSUME NEW w \in Entries, NEW last \in States, NEW dt \in Nat
  PROVE  LET live == Live(w, last, dt)
         IN /\ live \in Entries
            /\ IsKept(live)
            /\ live.day = w.day
            /\ live.state = w.state
            /\ Granted(w.inside) > dt => live.inside > 0
            /\ Granted(w.warning) > dt => live.warning > 0
            /\ w.state = Near /\ last = Inside /\ Granted(w.inside) > dt => live.warning > 0
  <1> DEFINE inside == Granted(w.inside)
             own == Granted(w.warning)
             leaves == w.state = Near /\ last = Inside
             warning == IF leaves THEN Longer(own, inside) ELSE own
             aged == [w EXCEPT !.warning = Left(warning, dt), !.inside = Left(inside, dt)]
  <1>1. w.warning \in 0..Forever /\ w.inside \in 0..Forever
    BY DEF Entries
  <1>2. inside \in 0..Forever /\ own \in 0..Forever
    BY <1>1, LeftIsTime
  <1> HIDE DEF inside, own
  <1>3. /\ warning \in 0..Forever
        /\ warning >= own
        /\ leaves => warning >= inside
    BY <1>2, LongerIsTime, AckTimeAssumption DEF Forever
  <1> HIDE DEF warning, leaves
  <1>4. /\ Left(warning, dt) \in 0..Forever
        /\ Left(inside, dt) \in 0..Forever
        /\ warning > dt => Left(warning, dt) > 0
        /\ inside > dt => Left(inside, dt) > 0
    BY <1>2, <1>3, LeftIsTime
  <1>5. /\ aged \in Entries
        /\ aged.day = w.day
        /\ aged.state = w.state
        /\ aged.warning = Left(warning, dt)
        /\ aged.inside = Left(inside, dt)
    BY <1>4 DEF Entries
  <1>6. Live(w, last, dt) = Noted(aged)
    BY DEF Live, inside, own, warning, leaves
  <1> HIDE DEF aged
  <1>7. /\ Noted(aged) \in Entries
        /\ IsKept(Noted(aged))
        /\ Noted(aged).day = w.day
        /\ Noted(aged).state = w.state
        /\ Noted(aged).warning = Left(warning, dt)
        /\ Noted(aged).inside = Left(inside, dt)
    BY <1>5, NotedKeeps
  <1>8. /\ own > dt => warning > dt
        /\ leaves /\ inside > dt => warning > dt
    BY <1>2, <1>3, AckTimeAssumption DEF Forever
  <1> QED
    BY <1>4, <1>6, <1>7, <1>8 DEF inside, own, leaves

(* An acknowledgement that outlasts the cycle silences a warning that      *)
(* does not become more urgent.                                            *)
LEMMA LiveSilences ==
  ASSUME NEW w \in Entries, NEW last \in {Near, Inside}, NEW dt \in Nat,
         w.state \in {Near, last},
         Granted(Remaining([w EXCEPT !.state = last])) > dt
  PROVE  ~IsActive(Live(w, last, dt))
  <1> DEFINE live == Live(w, last, dt)
             old == [w EXCEPT !.state = last]
  <1> SUFFICES ~IsActive(live)
    OBVIOUS
  <1>1. last \in States
    BY DEF States, Near, Inside
  <1>2. /\ live \in Entries
        /\ live.day = w.day
        /\ live.state = w.state
        /\ Granted(w.inside) > dt => live.inside > 0
        /\ Granted(w.warning) > dt => live.warning > 0
        /\ w.state = Near /\ last = Inside /\ Granted(w.inside) > dt => live.warning > 0
    BY <1>1, LiveKeeps
  <1>3. /\ old.day = w.day
        /\ old.state = last
        /\ old.warning = w.warning
        /\ old.inside = w.inside
    BY DEF Entries
  <1> HIDE DEF live
  <1>4. CASE w.day
    BY <1>2, <1>4 DEF IsActive, IsAckExpired
  <1>5. CASE ~w.day /\ last = Inside
    <2>1. Granted(w.inside) > dt
      BY <1>3, <1>5 DEF Remaining, Inside
    <2>2. CASE w.state = Inside
      BY <1>2, <2>1, <2>2 DEF IsActive, IsAckExpired, Near, Inside
    <2>3. CASE w.state = Near
      BY <1>2, <1>5, <2>1, <2>3 DEF IsActive, IsAckExpired, Near, Inside
    <2> QED
      BY <1>5, <2>2, <2>3
  <1>6. CASE ~w.day /\ last = Near
    <2>1. Granted(w.warning) > dt
      BY <1>3, <1>6 DEF Remaining, Inside, Near
    <2> QED
      BY <1>2, <1>6, <2>1 DEF IsActive, IsAckExpired, Near, Inside
  <1> QED
    BY <1>4, <1>5, <1>6

-----------------------------------------------------------------------------
(* What an entry starts with, and what a cycle makes of it. *)

LEMMA FreshIsKept ==
  ASSUME NEW p \in Airspaces
  PROVE  /\ Fresh(p) \in Entries
         /\ IsKept(Fresh(p))
         /\ Fresh(p).day <=> Remembered(p)
         /\ Fresh(p).state = Clear
  <1>1. CASE Remembered(p)
    BY <1>1, NewEntryIsKept, AckDayKeeps DEF Fresh, Remembered
  <1>2. CASE ~Remembered(p)
    BY <1>2, NewEntryIsKept DEF Fresh, Remembered
  <1> QED
    BY <1>1, <1>2

LEMMA CycleKeeps ==
  ASSUME NEW p \in Airspaces, NEW old \in Entries \union {None},
         NEW level \in States, NEW dt \in Nat
  PROVE  LET next == Cycle(p, old, level, dt)
         IN /\ next \in Entries
            /\ IsKept(next)
            /\ next.state = level
            /\ old = None => (next.day <=> Remembered(p))
            /\ old # None => next.day = old.day
  <1> DEFINE before == IF old = None THEN Fresh(p) ELSE old
             placed == [before EXCEPT !.state = level]
  <1>1. /\ before \in Entries
        /\ old = None => (before.day <=> Remembered(p))
        /\ old # None => before.day = old.day
    BY FreshIsKept
  <1>2. Cycle(p, old, level, dt) = Live(placed, before.state, dt)
    BY DEF Cycle
  <1> HIDE DEF before
  <1>3. placed \in Entries /\ placed.day = before.day /\ placed.state = level
    BY <1>1 DEF Entries
  <1>4. before.state \in States
    BY <1>1 DEF Entries
  <1> HIDE DEF placed
  <1> QED
    BY <1>1, <1>2, <1>3, <1>4, LiveKeeps

-----------------------------------------------------------------------------
(* Every action keeps the invariant. *)

LEMMA EmptyIsOK == ASSUME warnings' = Empty PROVE WarningsOK'
  BY DEF WarningsOK, Empty, Present

LEMMA UpdateListKeeps ==
  ASSUME MemoryOK, UNCHANGED <<database, remembered>>,
         NEW list \in [Airspaces -> Entries \union {None}],
         \A p \in Airspaces : list[p] # None => (list[p].day <=> Remembered(p)),
         NEW levels \in [Airspaces -> States], NEW dt \in Steps,
         NEW changed, UpdateList(list, levels, dt, changed)
  PROVE  WarningsOK'
  <1>1. dt \in Nat
    BY ManagerAssumption
  <1> DEFINE next(p) == Cycle(p, list[p], levels[p], dt)
  <1>2. ASSUME NEW p \in Airspaces
        PROVE  next(p) \in Entries /\ IsKept(next(p)) /\ (next(p).day <=> Remembered(p))
    <2> DEFINE old == list[p]
               level == levels[p]
    <2>1. old \in Entries \union {None} /\ level \in States
      OBVIOUS
    <2> HIDE DEF old, level
    <2>2. /\ next(p) \in Entries
          /\ IsKept(next(p))
          /\ old = None => (next(p).day <=> Remembered(p))
          /\ old # None => next(p).day = old.day
      <3>1. next(p) = Cycle(p, old, level, dt)
        BY DEF old, level
      <3>2. /\ Cycle(p, old, level, dt) \in Entries
            /\ IsKept(Cycle(p, old, level, dt))
            /\ old = None => (Cycle(p, old, level, dt).day <=> Remembered(p))
            /\ old # None => Cycle(p, old, level, dt).day = old.day
        BY <1>1, <2>1, CycleKeeps
      <3> HIDE DEF next
      <3> QED
        BY <3>1, <3>2
    <2> HIDE DEF next
    <2> QED
      BY <2>2 DEF old
  <1>3. ASSUME NEW p \in Airspaces
        PROVE  warnings'[p] \in {next(p), None}
    BY DEF UpdateList
  <1>4. warnings' = [p \in Airspaces |-> warnings'[p]]
    BY DEF UpdateList
  <1>5. ASSUME NEW p \in Airspaces PROVE Remembered(p)' <=> Remembered(p)
    BY DEF Remembered, KeyIsAcked, remembered, database
  <1> HIDE DEF next
  <1>6. warnings' \in [Airspaces -> Entries \union {None}]
    BY <1>2, <1>3, <1>4
  <1> QED
    BY <1>2, <1>3, <1>5, <1>6 DEF WarningsOK, Present

LEMMA UpdateKeeps ==
  ASSUME MemoryOK, WarningsOK, NEW changed, Update(changed)
  PROVE  MemoryOK' /\ WarningsOK'
  <1> DEFINE list == IF initialised THEN warnings ELSE Empty
  <1>1. /\ list \in [Airspaces -> Entries \union {None}]
        /\ \A p \in Airspaces : list[p] # None => (list[p].day <=> Remembered(p))
    BY DEF Empty, WarningsOK, Present
  <1>2. UNCHANGED database /\ initialised' = TRUE
    BY DEF Update
  <1> HIDE DEF list
  <1>3. CASE listed = {} /\ UpdateEmpty(list, changed)
    BY <1>2, <1>3, EmptyIsOK DEF UpdateEmpty, MemoryOK, database
  <1>4. CASE \E levels \in [Airspaces -> States], dt \in Steps :
               UpdateList(list, levels, dt, changed)
    <2>1. PICK levels \in [Airspaces -> States], dt \in Steps :
            UpdateList(list, levels, dt, changed)
      BY <1>4
    <2>2. UNCHANGED remembered
      BY <2>1 DEF UpdateList
    <2>3. WarningsOK'
      BY <1>1, <1>2, <2>1, <2>2, UpdateListKeeps
    <2> QED
      BY <1>2, <2>2, <2>3 DEF MemoryOK, database, remembered
  <1> QED
    BY <1>3, <1>4 DEF Update, list

LEMMA OtherKeeps ==
  ASSUME MemoryOK, WarningsOK, TimeWarp \/ Rebuild \/ ReadAirspace \/ LoseFix
  PROVE  MemoryOK' /\ WarningsOK'
  <1>1. CASE TimeWarp
    BY <1>1 DEF TimeWarp, MemoryOK, WarningsOK, Present, Remembered, KeyIsAcked,
                database, remembered
  <1>2. CASE LoseFix
    BY <1>2, EmptyIsOK DEF LoseFix, ForgetAll, MemoryOK, database
  <1>3. CASE Rebuild
    <2>0. PICK fresh \in SUBSET {p \in Airspaces : p \notin listed /\ ~Present(p)} :
            \E station \in [fresh -> Stations] :
              /\ listed' = {p \in listed : key[p] = None} \union fresh
              /\ key' = [p \in Airspaces |-> IF p \in fresh THEN station[p] ELSE key[p]]
              /\ UNCHANGED <<warnings, remembered, initialised>>
      BY <1>3 DEF Rebuild
    <2>1. PICK station \in [fresh -> Stations] :
            /\ listed' = {p \in listed : key[p] = None} \union fresh
            /\ key' = [p \in Airspaces |-> IF p \in fresh THEN station[p] ELSE key[p]]
            /\ UNCHANGED <<warnings, remembered, initialised>>
      BY <2>0
    <2>2. MemoryOK'
      BY <2>1 DEF MemoryOK, remembered
    <2>3. ASSUME NEW p \in Airspaces, Present(p)
          PROVE  Remembered(p)' <=> Remembered(p)
      BY <2>1, <2>3 DEF Remembered, KeyIsAcked, remembered
    <2> QED
      BY <2>1, <2>2, <2>3 DEF WarningsOK, Present
  <1>4. CASE ReadAirspace
    <2>1. MemoryOK'
      BY <1>4 DEF ReadAirspace, ForgetAll, MemoryOK
    <2> QED
      BY <1>4, <2>1, EmptyIsOK DEF ReadAirspace, ForgetAll
  <1> QED
    BY <1>1, <1>2, <1>3, <1>4

LEMMA PutKeeps ==
  ASSUME MemoryOK, WarningsOK, UNCHANGED <<database, remembered, initialised>>,
         NEW p \in Airspaces, NEW w \in Entries,
         IsKept(w), w.day <=> Remembered(p), Put(p, w)
  PROVE  MemoryOK' /\ WarningsOK'
  <1>1. MemoryOK'
    BY DEF MemoryOK, database, remembered
  <1>2. warnings' \in [Airspaces -> Entries \union {None}]
    BY DEF Put, WarningsOK
  <1>3. ASSUME NEW q \in Airspaces PROVE Remembered(q)' <=> Remembered(q)
    BY DEF Remembered, KeyIsAcked, remembered, database
  <1>4. ASSUME NEW q \in Airspaces
        PROVE  warnings'[q] = IF q = p THEN w ELSE warnings[q]
    BY DEF Put, WarningsOK
  <1> QED
    BY <1>1, <1>2, <1>3, <1>4 DEF WarningsOK, Present

LEMMA FoundIsKept ==
  ASSUME WarningsOK, NEW p \in Airspaces
  PROVE  /\ GetWarning(p) \in Entries
         /\ IsKept(GetWarning(p))
         /\ GetWarning(p).day <=> Remembered(p)
  <1>1. CASE Present(p)
    BY <1>1 DEF GetWarning, WarningsOK, Present
  <1>2. CASE ~Present(p)
    BY <1>2, FreshIsKept DEF GetWarning
  <1> QED
    BY <1>1, <1>2

LEMMA LevelAcksKeep ==
  ASSUME MemoryOK, WarningsOK, NEW p \in Airspaces, NEW set \in BOOLEAN,
         Acknowledge(p) \/ AcknowledgeWarning(p, set) \/ AcknowledgeInside(p, set)
  PROVE  MemoryOK' /\ WarningsOK'
  <1> DEFINE w == GetWarning(p)
  <1>1. w \in Entries /\ IsKept(w) /\ (w.day <=> Remembered(p))
    BY FoundIsKept
  <1>2. Present(p) => w = warnings[p]
    BY DEF GetWarning
  <1> HIDE DEF w
  <1>3. UNCHANGED <<database, remembered, initialised>>
    BY DEF Acknowledge, AcknowledgeWarning, AcknowledgeInside
  <1>4. CASE Acknowledge(p)
    <2>1. AckLevel(w) \in Entries /\ IsKept(AckLevel(w)) /\ AckLevel(w).day = w.day
      BY <1>1, AckLevelKeeps
    <2>2. Put(p, AckLevel(w))
      BY <1>2, <1>4 DEF Acknowledge, IsAlert
    <2> QED
      BY <1>1, <1>3, <2>1, <2>2, PutKeeps
  <1>5. CASE UNCHANGED warnings
    BY <1>3, <1>5 DEF MemoryOK, WarningsOK, Present, Remembered, KeyIsAcked,
                      database, remembered
  <1>6. CASE AcknowledgeWarning(p, set) /\ ~UNCHANGED warnings
    <2>1. AckWarning(w, set) \in Entries /\ IsKept(AckWarning(w, set))
            /\ AckWarning(w, set).day = w.day
      BY <1>1, AckWarningKeeps
    <2>2. Put(p, AckWarning(w, set))
      BY <1>6 DEF AcknowledgeWarning, w
    <2> QED
      BY <1>1, <1>3, <2>1, <2>2, PutKeeps
  <1>7. CASE AcknowledgeInside(p, set) /\ ~UNCHANGED warnings
    <2>1. AckInside(w, set) \in Entries /\ IsKept(AckInside(w, set))
            /\ AckInside(w, set).day = w.day
      BY <1>1, AckInsideKeeps
    <2>2. Put(p, AckInside(w, set))
      BY <1>7 DEF AcknowledgeInside, w
    <2> QED
      BY <1>1, <1>3, <2>1, <2>2, PutKeeps
  <1> QED
    BY <1>4, <1>5, <1>6, <1>7

LEMMA AckAllKeeps ==
  ASSUME MemoryOK, WarningsOK, AcknowledgeAll
  PROVE  MemoryOK' /\ WarningsOK'
  <1> DEFINE acked(p) == AckInside(AckWarning(warnings[p], TRUE), TRUE)
  <1>1. MemoryOK'
    BY DEF AcknowledgeAll, MemoryOK, database, remembered
  <1>2. ASSUME NEW p \in Airspaces, Present(p)
        PROVE  acked(p) \in Entries /\ IsKept(acked(p)) /\ acked(p).day = warnings[p].day
    <2>1. warnings[p] \in Entries
      BY <1>2 DEF WarningsOK, Present
    <2>2. AckWarning(warnings[p], TRUE) \in Entries
            /\ AckWarning(warnings[p], TRUE).day = warnings[p].day
      BY <2>1, AckWarningKeeps
    <2> QED
      BY <2>2, AckInsideKeeps
  <1>3. ASSUME NEW p \in Airspaces
        PROVE  warnings'[p] = IF IsAlert(p) THEN acked(p) ELSE warnings[p]
    BY DEF AcknowledgeAll
  <1>4. warnings' = [p \in Airspaces |-> warnings'[p]]
    BY DEF AcknowledgeAll
  <1>5. ASSUME NEW p \in Airspaces PROVE Remembered(p)' <=> Remembered(p)
    BY DEF AcknowledgeAll, Remembered, KeyIsAcked, remembered, database
  <1> HIDE DEF acked
  <1>6. warnings' \in [Airspaces -> Entries \union {None}]
    BY <1>2, <1>3, <1>4 DEF WarningsOK, IsAlert
  <1> QED
    BY <1>1, <1>2, <1>3, <1>5, <1>6 DEF WarningsOK, Present, IsAlert

(* A day flag set or taken away in the list and in the memory alike. *)
LEMMA DayKeeps ==
  ASSUME MemoryOK, WarningsOK, UNCHANGED database, UNCHANGED initialised,
         NEW marked \in SUBSET Airspaces, NEW set \in BOOLEAN,
         NEW from \in [Airspaces -> Entries \union {None}],
         \A q \in marked : from[q] \in Entries,
         \A q \in Airspaces \ marked : from[q] = warnings[q],
         warnings' = [q \in Airspaces |->
                        IF q \in marked THEN AckDay(from[q], set) ELSE from[q]],
         ack_day_airspaces' \subseteq Airspaces,
         notam_day_ack' \subseteq Stations,
         \A q \in marked : Remembered(q)' <=> set,
         \A q \in Airspaces \ marked : Present(q) => (Remembered(q)' <=> Remembered(q))
  PROVE  MemoryOK' /\ WarningsOK'
  <1>1. MemoryOK'
    BY DEF MemoryOK, database
  <1>2. ASSUME NEW q \in marked
        PROVE  /\ warnings'[q] \in Entries
               /\ IsKept(warnings'[q])
               /\ warnings'[q].day <=> Remembered(q)'
    <2>1. warnings'[q] = AckDay(from[q], set)
      OBVIOUS
    <2>2. /\ AckDay(from[q], set) \in Entries
          /\ IsKept(AckDay(from[q], set))
          /\ AckDay(from[q], set).day = set
      BY AckDayKeeps
    <2> QED
      BY <2>1, <2>2
  <1>3. ASSUME NEW q \in Airspaces \ marked
        PROVE  warnings'[q] = warnings[q]
    OBVIOUS
  <1>4. warnings' = [q \in Airspaces |-> warnings'[q]]
    OBVIOUS
  <1>5. warnings' \in [Airspaces -> Entries \union {None}]
    BY <1>2, <1>3, <1>4 DEF WarningsOK
  <1> QED
    BY <1>1, <1>2, <1>3, <1>5 DEF WarningsOK, Present

LEMMA AckDaySetKeeps ==
  ASSUME MemoryOK, WarningsOK, NEW p \in Airspaces, AckDaySet(p),
         UNCHANGED database, UNCHANGED initialised
  PROVE  MemoryOK' /\ WarningsOK'
  <1> DEFINE own == {p} \union {q \in Siblings(p) : Present(q)}
             list == [q \in Airspaces |->
               IF q = p \/ (q \in Siblings(p) /\ Present(q)) THEN AckDay(GetWarning(q), TRUE)
               ELSE warnings[q]]
  <1>1. PICK outside \in SUBSET MaySurround(p, list) :
          /\ warnings' = [q \in Airspaces |->
               IF q \in outside THEN AckDay(list[q], TRUE) ELSE list[q]]
          /\ ack_day_airspaces' = ack_day_airspaces \union {p} \union outside
               \union {q \in Siblings(p) : Present(q)}
          /\ notam_day_ack' = notam_day_ack \union ({key[p]} \ {None})
    BY DEF AckDaySet
  <1>2. own \subseteq Airspaces
    BY DEF Siblings
  <1> DEFINE marked == own \union outside
             from == [q \in Airspaces |-> IF q \in own THEN GetWarning(q) ELSE warnings[q]]
  <1>3. ASSUME NEW q \in outside
        PROVE  q \in Airspaces /\ q \notin own /\ Present(q) /\ list[q] = warnings[q]
    <2>1. q \in Airspaces /\ list[q] # None /\ ~list[q].day /\ q # p
      BY DEF MaySurround
    <2>2. q \notin own
      <3>1. SUFFICES ASSUME q \in own PROVE FALSE
        OBVIOUS
      <3>2. list[q] = AckDay(GetWarning(q), TRUE)
        BY <2>1, <3>1
      <3>3. AckDay(GetWarning(q), TRUE).day = TRUE
        BY <2>1, FoundIsKept, AckDayKeeps
      <3> HIDE DEF list
      <3> QED
        BY <2>1, <3>2, <3>3
    <2>3. list[q] = warnings[q]
      BY <2>1, <2>2
    <2> QED
      BY <2>1, <2>2, <2>3 DEF Present
  <1>4. marked \in SUBSET Airspaces
    BY <1>2, <1>3
  <1>5. from \in [Airspaces -> Entries \union {None}]
    BY <1>2, FoundIsKept DEF WarningsOK
  <1>6. \A q \in marked : from[q] \in Entries
    BY <1>2, <1>3, FoundIsKept DEF WarningsOK, Present
  <1>7. \A q \in Airspaces \ marked : from[q] = warnings[q]
    OBVIOUS
  <1>8. warnings' = [q \in Airspaces |->
                       IF q \in marked THEN AckDay(from[q], TRUE) ELSE from[q]]
    <2>1. ASSUME NEW q \in Airspaces
          PROVE  (IF q \in outside THEN AckDay(list[q], TRUE) ELSE list[q])
                 = IF q \in marked THEN AckDay(from[q], TRUE) ELSE from[q]
      BY <1>3
    <2> QED
      BY <1>1, <2>1
  <1>9. ack_day_airspaces' = ack_day_airspaces \union marked
    BY <1>1
  <1>10. ack_day_airspaces' \subseteq Airspaces /\ notam_day_ack' \subseteq Stations
    BY <1>1, <1>4, <1>9 DEF MemoryOK
  <1> HIDE DEF list, from
  <1>11. \A q \in marked : Remembered(q)' <=> TRUE
    BY <1>9 DEF Remembered
  <1>12. ASSUME NEW q \in Airspaces \ marked, Present(q)
         PROVE  Remembered(q)' <=> Remembered(q)
    <2>1. q \notin Siblings(p)
      BY <1>12
    <2>2. key[p] = None \/ key[q] # key[p]
      BY <2>1 DEF Siblings
    <2>3. KeyIsAcked(q)' <=> KeyIsAcked(q)
      BY <1>1, <2>2 DEF KeyIsAcked, database
    <2> QED
      BY <1>9, <1>12, <2>3 DEF Remembered
  <1> HIDE DEF marked
  <1> QED
    BY <1>4, <1>5, <1>6, <1>7, <1>8, <1>10, <1>11, <1>12, DayKeeps

LEMMA AckDayResetKeeps ==
  ASSUME MemoryOK, WarningsOK, NEW p \in Airspaces, AckDayReset(p),
         UNCHANGED database, UNCHANGED initialised
  PROVE  MemoryOK' /\ WarningsOK'
  <1> DEFINE inList == {q \in Siblings(p) : Present(q)}
  <1>1. CASE UNCHANGED <<warnings, remembered>>
    BY <1>1 DEF MemoryOK, WarningsOK, Present, Remembered, KeyIsAcked, database, remembered
  <1>2. CASE /\ warnings' = [q \in Airspaces |->
                  IF q \in inList THEN AckDay(warnings[q], FALSE) ELSE warnings[q]]
             /\ ack_day_airspaces' = ack_day_airspaces \ ({p} \union inList)
             /\ notam_day_ack' = notam_day_ack \ {key[p]}
    <2>1. inList \in SUBSET Airspaces
      BY DEF Siblings
    <2>2. warnings \in [Airspaces -> Entries \union {None}]
            /\ \A q \in inList : warnings[q] \in Entries
      BY <2>1 DEF WarningsOK, Present
    <2>3. ack_day_airspaces' \subseteq Airspaces /\ notam_day_ack' \subseteq Stations
      BY <1>2 DEF MemoryOK
    <2>4. ASSUME NEW q \in inList PROVE Remembered(q)' <=> FALSE
      <3>1. key[q] = key[p]
        BY DEF Siblings
      <3> QED
        BY <1>2, <3>1 DEF Remembered, KeyIsAcked, database
    <2>5. ASSUME NEW q \in Airspaces \ inList, Present(q)
          PROVE  Remembered(q)' <=> Remembered(q)
      <3>1. q # p /\ (key[p] = None \/ key[q] # key[p])
        BY <2>5 DEF Siblings
      <3>2. KeyIsAcked(q)' <=> KeyIsAcked(q)
        BY <1>2, <3>1 DEF KeyIsAcked, database
      <3> QED
        BY <1>2, <2>5, <3>1, <3>2 DEF Remembered
    <2> HIDE DEF inList
    <2> QED
      BY <1>2, <2>1, <2>2, <2>3, <2>4, <2>5, DayKeeps
  <1> QED
    BY <1>1, <1>2 DEF AckDayReset

LEMMA PilotKeeps ==
  ASSUME MemoryOK, WarningsOK, Acks \/ Enables
  PROVE  MemoryOK' /\ WarningsOK'
  <1>1. CASE AcknowledgeAll
    BY <1>1, AckAllKeeps
  <1>2. ASSUME NEW p \in Airspaces, NEW set \in BOOLEAN, AcknowledgeDay(p, set)
        PROVE  MemoryOK' /\ WarningsOK'
    BY <1>2, AckDaySetKeeps, AckDayResetKeeps DEF AcknowledgeDay
  <1>3. CASE \E p \in Airspaces, set \in BOOLEAN :
               \/ Acknowledge(p) \/ AcknowledgeWarning(p, set) \/ AcknowledgeInside(p, set)
               \/ AcknowledgeDay(p, set)
    BY <1>2, <1>3, LevelAcksKeep
  <1> QED
    BY <1>1, <1>3 DEF Acks, Enables, Shown

LEMMA InitIsSafe == Init => IInv
  BY DEF Init, IInv, MemoryOK, WarningsOK, StepOK, Present

LEMMA NextKeeps == IInv /\ [Next]_vars => IInv'
  <1> SUFFICES ASSUME MemoryOK, WarningsOK, StepOK, [Next]_vars
               PROVE  MemoryOK' /\ WarningsOK' /\ StepOK'
    BY DEF IInv
  <1>1. CASE ComputerUpdates
    BY <1>1, UpdateKeeps DEF ComputerUpdates, StepOK
  <1>2. CASE Other \/ Forgets
    BY <1>2, OtherKeeps DEF Other, Forgets, StepOK
  <1>3. CASE PilotActs
    BY <1>3, PilotKeeps DEF PilotActs, StepOK
  <1>4. CASE UNCHANGED vars
    BY <1>4 DEF vars, database, remembered, MemoryOK, WarningsOK, StepOK,
                Present, Remembered, KeyIsAcked
  <1> QED
    BY <1>1, <1>2, <1>3, <1>4 DEF Next

LEMMA Invariance == Spec => []IInv
  BY InitIsSafe, NextKeeps, PTL DEF Spec

(* Type correctness of the manager's list and its memory. *)
THEOREM TypeCorrect == Spec => []TypeOK
  <1>1. IInv => TypeOK
    BY DEF IInv, MemoryOK, WarningsOK, StepOK, TypeOK
  <1> QED
    BY <1>1, Invariance, PTL

(* AcknowledgeDay() sets and takes away the flag of every entry together   *)
(* with the memory that outlives it, and a new entry finds it there,       *)
(* however the database changes in between.                                *)
THEOREM FlagAgrees == Spec => []FlagMatchesMemory
  <1>1. IInv => FlagMatchesMemory
    BY DEF IInv, WarningsOK, FlagMatchesMemory, Remembered
  <1> QED
    BY <1>1, Invariance, PTL

-----------------------------------------------------------------------------
(* What a cycle of the computer does to the alerts. *)

LEMMA CycleHoldsAck ==
  ASSUME NEW p \in Airspaces, NEW old \in Entries, old # None,
         NEW level \in Near..old.state, NEW dt \in Nat,
         Granted(Remaining(old)) > dt
  PROVE  ~IsActive(Cycle(p, old, level, dt))
  <1> DEFINE w == [old EXCEPT !.state = level]
  <1>1. old.state \in {Clear, Near, Inside}
    BY DEF Entries, States
  <1>2. old.state \in {Near, Inside} /\ level \in {Near, old.state} /\ level \in States
    BY <1>1 DEF Clear, Near, Inside, States
  <1>3. w \in Entries /\ w.state = level
    BY <1>2 DEF Entries
  <1>4. [w EXCEPT !.state = old.state] = old
    BY DEF Entries
  <1>5. Cycle(p, old, level, dt) = Live(w, old.state, dt)
    BY DEF Cycle
  <1> HIDE DEF w
  <1> QED
    BY <1>2, <1>3, <1>4, <1>5, LiveSilences

LEMMA UpdateHoldsAck ==
  ASSUME IInv, NEW changed, Update(changed), initialised,
         NEW p \in Airspaces, Present(p), warnings'[p] # None,
         warnings'[p].state \in Near..warnings[p].state,
         \A dt \in Steps : Granted(Remaining(warnings[p])) > dt
  PROVE  ~IsActive(warnings'[p])
  <1>1. PICK levels \in [Airspaces -> States], dt \in Steps :
          UpdateList(warnings, levels, dt, changed)
    BY DEF Update, UpdateEmpty, Empty
  <1>2. dt \in Nat
    BY ManagerAssumption
  <1> DEFINE old == warnings[p]
             level == levels[p]
  <1>3. old \in Entries /\ old # None /\ level \in States
    BY DEF IInv, WarningsOK, Present
  <1>4. warnings'[p] = Cycle(p, old, level, dt)
    BY <1>1 DEF UpdateList
  <1>5. Granted(Remaining(old)) > dt
    OBVIOUS
  <1>6. Cycle(p, old, level, dt).state \in Near..old.state
    BY <1>4
  <1> HIDE DEF old, level
  <1>7. level \in Near..old.state
    BY <1>2, <1>3, <1>6, CycleKeeps
  <1> QED
    BY <1>2, <1>3, <1>4, <1>5, <1>7, CycleHoldsAck

(* An acknowledgement that outlasts a cycle keeps the warning silent       *)
(* through it, unless the warning becomes more urgent or a dialog takes    *)
(* the acknowledgement away.                                               *)
THEOREM AcksHold == Spec => NoEarlyAlert
  <1>1. IInv /\ [Next]_vars => [AckHolds]_vars
    <2> SUFFICES ASSUME IInv, Next, step' \in {"silent", "reported"}, initialised
                 PROVE  AckHolds
      BY DEF AckHolds
    <2>1. PICK changed \in BOOLEAN : Update(changed)
      BY DEF Next, ComputerUpdates, Other, Forgets, PilotActs
    <2> QED
      BY <2>1, UpdateHoldsAck DEF AckHolds
  <1> QED
    BY <1>1, Invariance, PTL DEF Spec, NoEarlyAlert

LEMMA SilentMeansActive ==
  ASSUME NEW old \in Entries \union {None}, old # None => IsKept(old),
         NEW next \in Entries, IsKept(next), IsActive(next),
         ~ChangedState(next, Saved(old))
  PROVE  old # None /\ IsActive(old)
  <1>1. next.state \in {Near, Inside} /\ next.expired
    BY DEF IsKept, IsActive, Entries, States
  <1>2. Saved(old).expired /\ ~(Saved(old).state < next.state)
    BY <1>1 DEF ChangedState, IsActive
  <1>3. old # None
    BY <1>1, <1>2 DEF Saved, NewEntry, Clear, Near, Inside
  <1>4. old \in Entries /\ old.expired /\ ~(old.state < next.state)
    BY <1>2, <1>3 DEF Saved
  <1>5. old.state # Clear
    BY <1>1, <1>4 DEF Entries, States, Clear, Near, Inside
  <1> QED
    BY <1>3, <1>4, <1>5 DEF IsActive, IsKept

LEMMA SilentUpdate ==
  ASSUME IInv, Update(FALSE)
  PROVE  Alerts' \subseteq Alerts
  <1> DEFINE list == IF initialised THEN warnings ELSE Empty
  <1>1. CASE listed = {} /\ UpdateEmpty(list, FALSE)
    BY <1>1 DEF UpdateEmpty, Empty, Alerts, IsAlert, Present
  <1>2. CASE \E levels \in [Airspaces -> States], dt \in Steps :
               UpdateList(list, levels, dt, FALSE)
    <2>1. PICK levels \in [Airspaces -> States], dt \in Steps :
            UpdateList(list, levels, dt, FALSE)
      BY <1>2
    <2> SUFFICES ASSUME NEW p \in Airspaces, IsAlert(p)'
                 PROVE  IsAlert(p)
      BY DEF Alerts
    <2> DEFINE old == list[p]
               level == levels[p]
               next == Cycle(p, old, level, dt)
    <2>2. dt \in Nat
      BY ManagerAssumption
    <2>3. old \in Entries \union {None} /\ (old # None => IsKept(old) /\ old = warnings[p])
      BY DEF IInv, WarningsOK, Present, Empty
    <2>4. warnings'[p] = next /\ IsActive(next)
      BY <2>1 DEF UpdateList, IsAlert, Present
    <2>5. ~ChangedState(next, Saved(old))
      BY <2>1, <2>4 DEF UpdateList, IsAlert, Present
    <2>6. level \in States
      OBVIOUS
    <2> HIDE DEF old, level, list
    <2>7. next \in Entries /\ IsKept(next)
      BY <2>2, <2>3, <2>6, CycleKeeps
    <2> HIDE DEF next
    <2>8. old # None /\ IsActive(old)
      BY <2>3, <2>4, <2>5, <2>7, SilentMeansActive
    <2> QED
      BY <2>3, <2>8 DEF IsAlert, Present
  <1> QED
    BY <1>1, <1>2 DEF Update

(* When a cycle makes a warning alert that did not before, Update() says   *)
(* so, whatever the dialogs have acknowledged or re-enabled in between.    *)
THEOREM AlertsAreReported == Spec => AlertIsReported
  <1>1. IInv /\ [Next]_vars => [step' = "silent" => Alerts' \subseteq Alerts]_vars
    <2> SUFFICES ASSUME IInv, Next, step' = "silent"
                 PROVE  Alerts' \subseteq Alerts
      OBVIOUS
    <2>1. Update(FALSE)
      BY DEF Next, ComputerUpdates, Other, Forgets, PilotActs
    <2> QED
      BY <2>1, SilentUpdate
  <1> QED
    BY <1>1, Invariance, PTL DEF Spec, AlertIsReported

=============================================================================
