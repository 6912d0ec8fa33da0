# XCSoar: a verification project

TLA+ models of the concurrent core of XCSoar (the sources are those of this
repository; all paths below are relative to its root, where the C++ code is in
`src/src/`), their TLC configurations, and proofs that TLAPS checks. Each
definition is translated from the C++ code; `PROJECT.json` names the lines.

- [1. The system](#1-the-system)
- [2. The modules](#2-the-modules)
- [3. What TLC checks](#3-what-tlc-checks)
- [4. Fairness](#4-fairness)
- [5. What is proved](#5-what-is-proved)
- [6. Where code and documentation disagree](#6-where-code-and-documentation-disagree)
- [7. What is not modelled](#7-what-is-not-modelled)
- [8. The plan](#8-the-plan)

## 1. The system

XCSoar is a glide computer. One process has a main (UI) thread with an event
loop, and a number of threads around it: a merge thread and a calculation
thread that turn sensor data into flight information, a draw thread in builds
without OpenGL, one job thread per device that is being opened, the threads of
its ports, a terrain and a topography loader, an I/O thread with the network
clients, and decoders.

What makes the program hard to get right is not in the calculations, which are
sequential and have unit tests, but in the few protocols between these threads.
They are small, they are hand written with a mutex and a condition variable
each, and no test exercises their interleavings. Most of the project is about
them. One part, the airspace warnings, is here for its long sequences of legal
calls rather than for its threads.

### Components that are modelled

| component | state | operations | interacts with | what is hard | what must hold |
|---|---|---|---|---|---|
| `SuspensibleThread`, `WorkerThread` (`thread/`) | `stop_received`, `suspend_received`, `suspended`, `trigger_flag`, two condition variables (three in `WorkerThread`) | `Trigger`, `Start`, `BeginSuspend`, `Suspend`, `WaitUntilSuspended`, `Resume`, `BeginStop`, `Join`, and five waits in `Run` | any thread triggers, the UI thread does the rest | a suspension meets the thread in any of its waits; the flag is set during timed waits nobody asked for; spurious wakeups | no `Tick()` while suspended, no lost wakeup, `Suspend()` and `Join()` return, the assertions hold |
| `DrawThread`, `RecursivelySuspensibleThread` | the above, `pending`, `suspend_count` | `TriggerRedraw`, nested `BeginSuspend`/`Suspend`/`Resume` | UI thread | the flag under the mutex and the counter outside it | no painting while any suspension is open |
| `Protection`, with its users in `UtilsSettings`, `Startup`, `MainWindow`, `GlueMapWindow` | which scopes are open | `SuspendAllThreads`, `ResumeAllThreads`, `ScopeSuspendAllThreads`, `SettingsEnter`/`Leave`, widgets over the map, startup, shutdown | both threads above | scopes nest, and only one of the two threads counts | the code in a scope has the data to itself; balanced resumes; no deadlock |
| `UI::Notify` and the event queue | an atomic flag, a queue with a mutex | `SendNotification`, `ClearNotification`, `RunNotification`, `Inject`, `Purge`, `Pop` | a sender thread, the main thread | nothing spans the flag and the queue | a notification is not lost for ever; none is delivered after `ClearNotification` |
| `AsyncJobRunner` (`Job/Async`) | the thread, the cancel flag, `Notify` | `Start`, `Cancel`, `Wait`, `Run` | its owner on the main thread | the job ends while it is being cancelled | the end of a job is announced once, or not at all if cancelled |
| `DeviceDescriptor` (`Device/Descriptor`) | `port`, `device`, `open_job`, `has_failed`, `ticker`, `borrowed`, `waiting_to_call_open`, `reopen_timer`, `config` | `Open`, `Close`, `Reopen`, `SlowReopen`, `AutoReopen`, `OnSysTicker`, `OnReopenTimer`, `OnJobFinished`, `Borrow`, `Return`, `SetConfig`, `PortError` | main, job and port threads; dialogs; `ProcessTimer` | timers, the ticker, dialogs and the job meet in every order; creating a thread may fail | borrowing is exclusive, the assertions hold, failures are acted upon, promises to reopen are kept, closing ends |
| `StandbyThread` (`thread/`) | `alive`, `pending`, `busy`, `stop`, one condition variable | `Trigger`, `StopAsync`, `WaitDone`, `WaitStopped`, `Run` | its owner | one condition variable for the command and its completion; created lazily | flags agree with the thread's position; stopping ends |
| `TerrainThread`, `TopographyThread`, and `GlueMapWindow`, which owns both | what was asked for last and, for the topography, which bounds it had; what each file has in its cache | `Trigger`, `Tick`, `ScanVisibility`, `Update`, `SetTerrain`, `SetTopography` | the map's projection, one main thread for both | the request changes in the middle of `Tick()`; bounds are remembered before anything is loaded; files appear by zooming in | an idle thread has loaded what was asked for last; the view gets loaded; replacing ends |
| `SkySightFileDecodeJob` and its queue in `SkySightAPI` | `status`, callbacks, result, `cancel_requested`, `pending_decode_jobs`, the layers' `decoding` flag | `Start`, `Cancel`, `Tick`, `OnNotification`, `StartNextDecodeJob`, `OnDatafileDownloaded`, `OnDatafileError` | download callbacks, cancellation at any time | a notification of a cancelled job, a thread that cannot be created | each layer gets its own file; the queue empties, unless a refused thread has left the decoder busy (section 6, item 7); the UI does not block |

| `EventLoop` of the I/O thread (`event/`), with `InjectEvent` and `BlockingCall` | `inject`, `again`, `busy`, `quit_injected`, the wake descriptor, deferred and idle events | `AddInject`, `RemoveInject`, `HandleInject`, `Run`, `InjectBreak`, `BlockingCall` | any thread injects and waits | only the first of several threads wakes the loop, and none while it is busy | no sleep on work; calls return; stopping ends; it is a queue |
| `InjectTask` (`co/`) and `DownloadManagerThread` (`net/http/`) | `alive`, `task`, `generation`; `queue`, `current_position`, `shutting_down` | `Start`, `Cancel`, `OnInject`, `OnCompletion`; `Enqueue`, `Cancel`, `BeginShutdown` | UI thread and I/O thread, through the event loop | cancelling without the mutex while the completion is in flight and the next task starts | one transfer at a time, none after shutdown, no task forgotten, no deadlock, each file leaves the queue |
| `AirspaceWarning`, `AirspaceWarningManager`, `WarningComputer` | the list of warnings with two acknowledgement times and a flag each; `ack_day_airspaces`, `notam_day_ack_by_station`; `initialised` | `Update`, `Acknowledge*`, `AcknowledgeDay`, `Clear`, `Reset`, rebuilding the database | calculation thread (each fix), dialogs, NOTAM updates | entries expire and come back, siblings of a NOTAM, dialogs between two fixes, addresses that a new airspace reuses | silent exactly as long as its address or its station is acknowledged, which is not the same once an address is reused (section 6, item 9); no alert begins unannounced |

### Components that are not modelled yet, or not at all

`PROJECT.json` lists all of them with the reason. In short: the blackboard and
the data path through merge and calculation thread, the asynchronous terrain
loader, job environments, the logger, the flight state machines and task advance
are planned (section 8); drivers, ports, network clients, renderers, dialogs,
file formats and platform shells are I/O or layout; the contest, route and
glide solvers are sequential floating point algorithms that TLC cannot
enumerate in a useful way.

### Hazards

`PROJECT.json` has the list of what is hard to test, each at its line, with the
properties that guard it. The hazards that no property covers say why: the
exceptional exits of `SettingsLeave()`, driver calls from two threads, line
forwarding between devices, the unlocked reads of `port`, a scale that is
exactly a file's threshold, and the ones the code gets wrong (section 6).

## 2. The modules

```
SuspensibleThread              Notify               StandbyThread
   |         |                 |     \             /       |      \
WorkerThread  DrawThread   AsyncJob  SkySightDecode  TerrainThread  TopographyThread
   |  \       /   |            |                           |       / (INSTANCE)
   |  Protection  |     DeviceDescriptor              GlueMapWindow
   |      |       |            |                           |
   |      |  DrawThreadProofs  DeviceDescriptorProofs  StandbyThreadProofs
   |      |   /
   |  ProtectionProofs (INSTANCE of both)
   |   /
WorkerThreadProofs

        InjectQueue                         AirspaceWarning
        |         |                               |
   EventLoop   InjectTask               AirspaceWarningManager
        |         |                               |
        |    DownloadManager         AirspaceWarningManagerProofs
        |         |
EventLoopProofs  DownloadManagerProofs

StandbyThreadProofs extends SkySightDecode too
SuspendableWork: what WorkerThread and DrawThread implement
InjectQueue: what EventLoop implements, and what InjectTask relies on
```

Base classes are base modules: they declare the variables of the C++ base class
and define its operations as operators that the derived module completes with
what happens to its own variables. `Protection` composes two threads, and
`GlueMapWindow` two loaders, with `INSTANCE ... WITH`.

**Layers.** `EventLoop` is shown to implement the small specification
`InjectQueue`: events that are scheduled from any thread run once, in order.
`InjectTask` and `DownloadManager` are then built on that specification instead
of the loop with its sleeping and waking, which keeps both state spaces small.

**Mutexes.** A critical section of a caller is one action. A thread that keeps
its mutex over several steps (from one condition wait to the next) has several
actions, and callers wait for it: `Locked` says at which positions the thread
holds the mutex. No mutex needs a variable of its own. Atomics and the event
queue, which has its own lock, are accessed one action at a time.

**Condition variables.** `notified` (`signalled`) is set by a `notify_one()`
that finds the thread asleep and is forgotten otherwise. Waking is an action of
the sleeper, which has to take the mutex first, so others may come before it.
Spurious wakeups are actions (`Spurious`, and any wakeup of a `StandbyThread`).
A wait with a timeout may end at any time: the code does not distinguish.

**Failure.** A failed `assert()` or an exception nobody catches sets `aborted`
in `DeviceDescriptor` to the name of the place; no action is possible after it.

| module | models | notes |
|---|---|---|
| `SuspensibleThread` | `thread/SuspensibleThread.cpp` | operators only. `pc` is the thread, `client` the UI thread's position in the handshake, `site` the call site that `_CheckStoppedOrSuspended()` or `_WaitForStopped()` returns to |
| `SuspendableWork` | no code: what users of the two classes rely on | requests, work, pauses and the end, with no mutex and no waits |
| `WorkerThread` | `thread/WorkerThread.{hpp,cpp}` | `DelayChoices` and `IdleChoices` stand for `delay`, `period_min` and `idle_min`: only whether a wait happens matters |
| `DrawThread` | `DrawThread.{hpp,cpp}`, `thread/RecursivelySuspensibleThread.cpp` | `MaxSuspend` bounds the nesting |
| `Protection` | `Protection.cpp` and its callers | `depth`, `dialogs`, `draw_suspended` and `started` say which suspensions are open |
| `Notify` | `ui/event/Notify.cpp`, `ui/event/poll/Queue.cpp` | one access per operator |
| `AsyncJob` | `Job/Async.cpp` | the runner; the job's own steps come from the extending module |
| `DeviceDescriptor` | `Device/Descriptor.cpp` and the dialogs that call it | a handler that has to wait for the job leaves its rest in `goal` |
| `StandbyThread` | `thread/StandbyThread.cpp` | operators only |
| `TerrainThread` | `Terrain/Thread.cpp` | an area stands for a centre and radius, `Near` for the areas `Trigger()` does not load again |
| `TopographyThread` | `Topography/Thread.cpp`, `TopographyStore.cpp`, `TopographyFile.cpp` | screens on a line with a scale; a file is its `scale_threshold`; bounds are computed as in the code, in tenths |
| `GlueMapWindow` | `MapWindow/GlueMapWindow.cpp` | both loaders under one view; a view is both threads' idea of it |
| `SkySightDecode` | `Weather/SkySight/SkySightFileDecoder.cpp`, parts of `SkySightAPI.cpp` | a file is known by its layer |
| `InjectQueue` | what users of `InjectEvent` rely on; `AddInject()`, `RemoveInject()` | also the queue's operators, which `EventLoop` and `InjectTask` share |
| `EventLoop` | `event/Loop.cxx`, `Loop.hxx`, `Call.cxx` | a thread has one `InjectEvent` and is named by it; timers and sockets: anything may happen between two turns |
| `InjectTask` | `co/InjectTask.cxx` | `Cancel()` cut into its steps, everything else one step each |
| `DownloadManager` | `net/http/DownloadManager.cpp` | a file is known by its path; `raced` is a history of what the program cannot see |
| `AirspaceWarning` | `Engine/Airspace/AirspaceWarning.cpp` | operators on one entry; the three predicted levels are one, `Near` |
| `AirspaceWarningManager` | `AirspaceWarningManager.cpp`, `Computer/WarningComputer.cpp`, the dialogs | an airspace is the address of its object; a dialog may hold a NOTAM that a refresh has replaced (`Shown`); the level it is at, and what surrounds it, is chosen freely; `step` is a history |
| `*Proofs` | theorems | section 5 |

Definitions named `X_Fault` directly before `X` are *seeded faults*: what a
plausible mistake in the code would make of `X`. They are never used by the
specifications; replacing `X` by one of them makes a run fail, which shows that
the property the run checks depends on this line of the code. `PROJECT.json`
names one for each property of each run.

## 3. What TLC checks

| run | config | distinct states | what it shows |
|---|---|---|---|
| `worker` | `WorkerThread.cfg` | 270 | with a delay and without, idle time or not: `NoTickWhileHeld`, `NoLostWakeup`; `SuspendReturns`; the thread implements `SuspendableWork` including its liveness |
| `draw` | `DrawThread.cfg` | 205 | nesting up to three, synchronous or not, in any order: `NoDrawWhileHeld`, `NoLostWakeup`; `SuspendReturns`; it implements `SuspendableWork` |
| `protection` | `Protection.cfg` | 19 898 | two threads and the UI thread from startup to shutdown, scopes inside scopes: `InnermostIsOurs`, `DrawingIsHeld`, `CountIsBalanced`; `UIReturns` |
| `protection_nested_calc` | `Protection_nested_calc.cfg` | counterexample | `DataIsOurs` fails when scopes nest |
| `device` | `DeviceDescriptor.cfg` | 2 462 | `BorrowIsExclusive`, `StateAssertionsHold`, `WaitingIsArmed`, `NoLostNotification`; `FailureIsHandled`, `WaitingEnds`, `CloseEnds` |
| `map` | `GlueMapWindow.cfg` | 267 006 | both loaders, a user who pans and zooms, files that are replaced: `IdleMeansLoaded`, `IdleMeansScanned`; `ViewGetsLoaded`, `ViewGetsScanned`, `ReplacementEnds` |
| `map_fresh` | `GlueMapWindow_fresh.cfg` | counterexample | `StillFresh` fails when the map is moved a little after it was moved far |
| `skysight` | `SkySightDecode.cfg` | 9 282 | `ResultsMatch`, `CancelSuppresses`, `DecodingIsTrue`; `DecodingEnds` |
| `eventloop` | `EventLoop.cfg` | 14 133 | two threads inject, wait and cancel, one stops the loop: `NoSleepOnWork`; the loop implements `InjectQueue` including its liveness; `CallsReturn`, `StopEnds` |
| `download` | `DownloadManager.cfg` | 3 931 | `StartAssertionsHold`, `AliveIsDriven`, `ShutdownIsFinal`; `EveryDownloadEnds`, `CallsReturn` |
| `airspace` | `AirspaceWarningManager.cfg` | 416 799 | `FlagMatchesMemory`; the action properties `NoEarlyAlert`, `AlertIsReported` |
| `airspace_day` | `AirspaceWarningManager_day.cfg` | counterexample | `DayAckIsForTheFlight` fails when the position is lost |

Each property is stated in words above its definition.

Properties that need a remark:

- `ImplementsPromise` is `SuspendableWork`'s whole specification under the
  mapping *wanted* = the request flag, *working* = inside `Tick()` or
  `Repaint()`, *asked* = `suspend_received`, *held* = a `Suspend()` has
  returned, *ending* = `stop_received`, *ended* = `Run()` has returned. Its
  weak fairness of `Begin` and `Exit` is where "a trigger is served" and "the
  thread ends" are checked. Its `Begin` requires that no pause or end is asked
  for: a `Tick()` may not start on the strength of an older decision.
- `InnermostIsOurs` is the part of `DataIsOurs` that the code keeps: the two
  threads stand still in the scope entered last. `DataIsOurs` itself says it of
  every open scope.
- `StateAssertionsHold` are the assertions at the start of `Open()` and
  `OpenOnPort()` and in `Return()`. Those that can fail are `JobIsConfigured`
  and `OpenJobIsFresh` (section 6). The three liveness properties of `device`
  have "or aborted": a run of the program that ended in one of those assertions
  (or in a thread that cannot be created, which `MultipleDevices::Open()
  noexcept` does not survive) is not counted against them.
- `IdleMeansScanned` is about the screen the thread was *triggered* with, and
  `ViewGetsScanned` about the view: after a rest, the visible files are loaded
  for a screen that differs from the view by a twentieth of its width at most,
  which is what the tolerance of `Trigger()` costs by itself. `StillFresh` asks
  for what the comment there says, and does not hold (section 6).
- `ImplementsQueue` is `InjectQueue`'s whole specification: order, at most one
  call for each time an event was scheduled, and that the call comes unless the
  event is cancelled or the loop stopped.
- `AliveIsDriven` would fail if `Start()` and `Cancel()` could leave a task that
  says it is alive and that no event, call or coroutine will ever move.
- `EveryDownloadEnds` excludes the runs in which a `Cancel()` met a completion
  (`raced`); what can happen there is in section 6.
- `NoEarlyAlert` compares two consecutive states of an entry.
  `AlertIsReported` compares the alerts before and after an `Update()` with what
  `Update()` returned, whatever the dialogs did since the one before.
- `DecodingIsTrue` is about the *decoding* flag of `Layers.hpp`; two files of
  one layer in the queue share it, and the property allows for that. When the
  system refuses the decoder its thread, the layer must have been told. The
  files that come later wait for a `Cancel()` then: `DecodingEnds` excepts a
  decoder that is `Stuck`, and section 6, item 7, shows why.
- `FlagMatchesMemory` knows an airspace by its address, as the code does: it says
  that an entry is silent for the day exactly when its object's address or its
  station is remembered, not that somebody has acknowledged this airspace.

### Bounds

- `MaxSuspend = 3`: a widget that hides the map, the settings dialog and
  `SuspendAllThreads()`, the deepest nesting the program has at one time
  without nested scopes. Three distinguishes "outermost" from "first" and from
  "last but one"; the theorems are for any bound.
- `MaxDepth = 2`: scopes nest as `SettingsLeave()` does through `LoadTerrain()`.
  No code nests three. `MaxDialog = 1`: the settings dialog is modal.
- `DelayChoices`, `IdleChoices` = both: the classes' whole range.
- `Views` (`map`): a map that is zoomed out and two places to zoom in to, each
  outside the bounds that `Trigger()` remembers of the other and inside the cache
  of its file; `Files = {3}` becomes visible by zooming in. So a trigger meets
  bounds that cover it, that do not, and that do but for the scale. `MovedViews` (`map_fresh`): a far move and a
  small one, at one scale. `TopographyAssumption` excludes scales that are
  exactly a file's threshold, where `Trigger()` and `Update()` compare
  differently. The theorems are for any screens and files.
- `Events = {e1, e2}` (`eventloop`): the second thread finds the queue empty or
  not, and the loop awake, asleep, or woken by the first. The theorems are for
  any set of threads.
- `Items = {a, b}` (`download`): one file is downloaded while one waits; a file
  that has left the queue may be enqueued again. `Events` are the task's event
  and the call of `Cancel()`, all there are.
- `Airspaces = {p, q}`, `Stations = {n}`, `AckTime = 3`, `Steps = {1}`
  (`airspace`): two polygons may be siblings of one NOTAM, unrelated, or one
  inside the other; three cycles of an acknowledgement have a first one, one in
  between and a last one. The theorems are for any of these.
- `Layers = {wind, rain}`, `MaxDownloads = 3`, `StartMayFail = TRUE`: threads
  are created or refused; two layers show a mix-up; three
  files let one be decoded, one wait, and one come after a cancellation, or two
  of one layer meet.
- Calls of a `Notify` in the queue: at most one for the decoder
  (`DecodeTypeOK`) and two for the device (`TypeOK`). These are no bounds of the
  models but results, and proved: a decoding job that has not sent its
  notification finds none in the queue, while the device may have one left from
  an earlier job.

Nothing else is unbounded. `CHECK_DEADLOCK FALSE` is set where the program may
stop: after `Join()`, at the end of `Shutdown()` or `BeginShutdown()`, after an
abort. The other passing runs (`map`, `skysight`, `airspace`) check deadlock.

## 4. Fairness

- *Threads run.* Weak fairness on every step of a thread that is not waiting
  (`Worker`, `Drawer`, `JobMoves`, `ThreadStep`, `Woken`, ...): the operating
  system schedules it. Sleeping in a condition variable counts as waiting until
  it is signalled: nothing relies on a spurious wakeup. A timed wait does end.
- *`Tick()`, `Repaint()`, `UpdateTiles()` and decoding end.* They are finite
  computations. For the terrain this says that one call of `UpdateTiles()`
  eventually finds nothing more to load (`AllTilesUpdated`), because a file has
  finitely many tiles.
- *Opening a device need not end.* `Port::WaitConnected()` waits for the other
  side: it is only fair once the job is cancelled or the port has failed, which
  is what `ConnectFails /\ (cancelled \/ dev.has_failed)` says.
- *The main thread gets the mutex* of a thread that takes it again and again:
  strong fairness of `UIGoesOn` in `Protection`. Each turn of `Run()` gives the
  mutex up for at least a delay, an idle time or a picture, and
  the mutexes of the platforms wake a waiter then. The single-thread modules
  only need weak fairness of `Worker`, `ClientWakesWorker` and the like.
- *The event loop is not starved*: strong fairness of each timer, periodic
  handler and queued call. The main thread handles them in turn, but may be
  busy in between (hence strong).
- *Dialogs are closed some day* (`BorrowerMoves`).
- *The visible area is updated again and again* (`MapUpdates`): with each GPS
  fix. Nothing says when the user stops to pan; the properties are about users
  who do.
- *A download ends*, well or not: CURL has timeouts (`CoroutineEnds`, strong,
  because a `Cancel()` may come in between).
- *Callbacks of the I/O loop do not defer an event in every turn*, and no timer
  is due in every turn (`Quietly`): an idle event that schedules itself for ever
  would keep `Run()` from its queue, because `RunOneIdle()` comes first.
- *Nothing* in the airspace warnings: their properties are safety properties.
- *Nothing* is assumed of the user, of triggers, downloads, failures of ports,
  `AutoReopen()` or cancellations: properties hold whether or not they happen.

## 5. What is proved

TLC shows a property on one instance, TLAPS for every value of the constants.

| module | theorems | for all |
|---|---|---|
| `WorkerThreadProofs` | `TypeCorrect`, `SuspendExcludesTick`, `WakeupsArrive`, `AssertionsNeverFail`, `KeepsPromise` | delays and idle times (`WorkerAssumption`) |
| `DrawThreadProofs` | `TypeCorrect`, `SuspendExcludesDrawing`, `SuspendedBeginsNothing`, `CounterAgrees`, `WakeupsArrive`, `KeepsPromise` | bounds of the nesting (`DrawAssumption`) |
| `ProtectionProofs` | `TypeCorrect`, `DrawingStaysHeld`, `SuspensionsBalance`, `InnermostScopeIsExclusive`, `UIIsNeverStranded`, `UICallsAreLegal`, `ThreadsAreTheirSpecs`, `ThreadsKeepTheirPromises`; for a depth of one, `FlatScopesAreExclusive` | depths of scopes and dialogs (`ProtectionAssumption`) |
| `StandbyThreadProofs` | `TerrainTypeCorrect`, `RequestsAreServed`, `TerrainIsLoaded`, `TerrainWakesUp`, `TopographyTypeCorrect`, `TopographyIsScanned`, `TopographyWakesUp` | sets of areas, which are the screens, and of files (`TerrainAssumption`, `MapAssumption`) |
| | `DecoderTypeCorrect`, `ResultsAreTheirs`, `CancelIsComplete`, `StartNeverWaits`, `DecodingIsReal`, `DecoderWakesUp`, `DecodingGoesOn`; where threads can be created, `OnlyRefusalsStick` | layers, numbers of downloads, and whether or not threads can be created (`SkySightAssumption`) |
| `DeviceDescriptorProofs` | `NotificationsArrive`, `BorrowersAreAlone`, `StateIsAsAsserted`, `WaitersAreArmed`, `TypeCorrect`, `EndsAreAnnounced` | (the module has no constants) |
| `EventLoopProofs` | `NoLostWakeup`, `LoopIsQueue`, `NobodyIsLeftWaiting` | sets of threads (`QueueAssumption`) |
| `DownloadManagerProofs` | `StartsAreAsAsserted`, `NoTaskIsForgotten`, `NothingAfterShutdown`, `OnlyRacesFail`, `CompletesItsFile`, `QueueMovesOn`, `TypeCorrect`, `UsesTheLoop`, `QueueTypeCorrect` | sets of files (`TaskAssumption`) |
| `AirspaceWarningManagerProofs` | `TypeCorrect`, `FlagAgrees`, `AcksHold`, `AlertsAreReported` | airspaces, stations, acknowledgement times, periods of the fixes (`ManagerAssumption`, `AckTimeAssumption`) |

All are about safety. In `StandbyThreadProofs`, the first two are about the
terrain thread on its own, the next five about `MapSpec`, whose fairness they
do not use, and the last about `DecodeSpec`. The arguments:

- **Worker.** `NoTickWhileHeld` is not inductive: in a state where the client
  is `"held"` and the thread at `"return"`, one step leads into `Tick()`.
  `Handshake` excludes such states: `suspended` is set exactly while the thread
  is in a wait on `command_trigger`; a client that was let through keeps
  `suspend_received` up and found the thread in such a wait; and "return" is
  never reached with a request up. `IInv == TypeOK /\ Handshake /\
  NoLostWakeup` is inductive (`InitIInv`, `StepIInv`), and implies the others.
  `KeepsPromise` goes through the actions once more and names, for each, the
  step of `SuspendableWork` it is, or none. It covers the safety part
  (`SafeSpec`); the fairness of the promise is left to TLC.
- **Draw.** The same invariant, and `CountOK`: flag and counter agree. The
  proof is split in two lemmas, `StepFlags` for the flags and `StepCount` for
  the arithmetic, because no prover does both well. The action property
  `NoDrawBegins` follows: only `LoopReturns` leads into a picture (`StepBegins`).
  `KeepsPromise` is the same theorem as the worker's; an inner `BeginSuspend()`
  or `Resume()` is no step of the promise.
- **Both threads and the UI.** Each step of `Protection` is a step of
  `DrawThread` or leaves its variables alone (`DrawStep`), so `StepIInv` of
  `DrawThreadProofs`, instantiated, carries its invariant over; `CalcStep` is the
  same for the calculation thread. `Balanced` is `CountIsBalanced` at every
  place of the UI thread: inside `SuspendAllThreads()`, `SettingsEnter()` and
  `ResumeAllThreads()` there is one suspension that is no scope yet or no longer.
  It makes the inner `Resume()`s harmless, and `DrawingHeld` inductive. For the
  calculation thread no such count exists: all that survives is `CalcHeld`, about
  the scope at the bound of the nesting, which has no scope inside it. With a
  depth of one that is every scope, so nesting is all that is wrong
  (`FlatScopesAreExclusive`).

  `DrawCalled` and `CalcCalled` say, for each place of the UI thread, which call
  to either thread it is in. `UICallsAreLegal` follows: a guard in `DrawThread`
  or `WorkerThread` that stands for an assertion of the code never hides a call
  that comes at a wrong time, nor does the bound of the nesting. So does
  `UIIsNeverStranded`: a thread that the UI waits for is alive, has the request
  and is not asleep without a signal. `ThreadsAreTheirSpecs` is the refinement:
  the composition implements either thread's specification, and with it the
  safety part of `SuspendableWork`, twice.
- **Terrain.** `Current` says at each position of the thread why no request is
  lost: either there is one it has yet to see (`work`), or it was told to end,
  or what it is working on is what was asked for last; at the callback and in
  its sleep the area is loaded to the end, and in its sleep also shown.
  `TerrainWakesUp` is what the mutex of a `StandbyThread` is for: whoever sets
  `work` or `stop` signals in the same critical section (`CallsWake`), and the
  thread looks at both before it sleeps.
- **Map.** Each step of the composition is a step of `TerrainThread` or leaves
  its variables alone (`TerrainStep`), so the invariant proved there carries
  over; `TopographyStep` is the same for the other thread. `TopoCurrent` needs
  arithmetic: what was scanned for a screen is in the cache (`ScannedCache`,
  `InsideItself`), and a request that arrives during a scan leaves `work` set
  or a projection that the next turn compares.
- **SkySight.** `ResultsMatch` is about one variable that one step assigns;
  what makes it true is that `expects`, `prepared`, `file` and `result` speak of
  the same file by then, although `Start()` replaces two of them before it has
  waited for the thread. `JobOK` says, for each status, where the thread can be,
  whose file it has and whether the notification is still to come, queued or
  delivered. A `Cancel()` breaks all of this off in the middle, so `JobOK` is
  only claimed outside of it, and `CancelOK` counts up what is undone at each of
  its places until `Forget` may claim `IdleOK` again. This is also why
  `ClearNotification()` is called twice: after the first call the thread may
  still send, after the second there is none. `QueueOK` follows the file from
  the queue through `prepared` into `expects`. What `Trigger()`, `StopAsync()`
  and `Run()` do to the flags of a `StandbyThread` is said in lemmas of their
  own, for all three subclasses.

  `DecodingGoesOn` adds that files are only left in the queue while the decoder
  has one (`QueueIsServed`), and that a job that was asked for has a thread
  (`Spawned`) unless the system has refused it one (`Stuck`). `RefusedOK` says
  that the layers that are "decoding" then are those of files in the queue, so
  not the layer of the refused file, which `DecodingIsReal` needs.
  `OnlyRefusalsStick` shows that nothing else leads there.
- **Device.** The flag of a `Notify` left set with nothing queued would
  suppress every later notification. The proof shows that each of the many
  handlers leaves flag and queue alone, or passes through "inject" or
  "clearing". It needs two more facts: the queue's length is a number, and a
  `Close()` that waits knows what to do afterwards (`GoalOK`).

  The state assertions need `DevOK`: a device that waits is shut and its timer
  scheduled, a job that is about to use a port finds none, and as long as the
  main thread waits for a job, there is one and no borrower. The proof has one
  lemma per handler; `Close()`, which they all share, is `ClosedIsShut` and
  `CloseDev`.

  Nothing in the model bounds the queue. `QueueOK` shows that two calls are the
  most there can be: one left over from a job that was cancelled after it had
  sent, and that of the next job; hence `TypeCorrect`. `EndOK` says that a job
  the main thread has not cancelled cannot end without the flag, and that
  `open_job` is set for as long (`EndsAreAnnounced`): what `FailureIsHandled`
  rests on.
- **Event loop.** `NoSleepOnWork` speaks of the sleeping loop; what makes it
  true is decided earlier. `DeferredOK`: work that is deferred again after the
  loop has looked has set `again`. `InjectOK`: the first thread that finds the
  loop not busy writes. `BreakOK`: an order to stop is in the descriptor, about
  to be, or about to be read. `QueueStep` then names, for each step of the loop,
  the step of `InjectQueue` it is, or none. `CallsOK` follows a `BlockingCall()`
  through a queue that others schedule to and cancel from; `StopOK` keeps it
  apart from an order to stop (`NobodyIsLeftWaiting`).
- **Downloads.** `alive` and the coroutine agree but for the moment between the
  disposal and the end of `Cancel()` (`AliveOK`); a task that was restarted under
  the hands of a `Cancel()` is driven like any other (`Respects`, `DrivenOK`);
  `MainOK` says what each place of the main thread may rely on. The lemmas
  `AppendHas`, `TailHas`, `WithoutHas` say what queues without duplicates do.

  The manager does not remember which file it downloads: `OnCompletion()` takes
  the head of the queue for it. Until a `Cancel()` or `BeginShutdown()` has met a
  completion (`raced`, section 6, item 8) that is right: the task's file is the
  head (`HeadOK`), a `Cancel()` that has given up the mutex finds it there or gone
  (`ErasureOK`), and whoever leaves a file in the queue leaves it to somebody
  (`WaitingOK`). Hence `OnlyRacesFail`, `CompletesItsFile` and `QueueMovesOn`.
  `UsesTheLoop` shows that manager and task use the queue as `InjectQueue`
  allows, and `LoopIsQueue` that `EventLoop` provides it: the abstract queue is
  all that the two modules share.
- **Airspaces.** The stored `expired` flag says what the entry says (`IsKept`),
  and an entry is acknowledged for the day exactly when its object or its
  station is remembered (`WarningsOK`). Each operation on an entry has a lemma
  (`AckDayKeeps`, `LiveKeeps`, ...); `LiveSilences` is the arithmetic of the two
  times, `SilentMeansActive` the case analysis of `ChangedState()`.

Only model-checked: all liveness properties and the fairness parts of
`ImplementsPromise` and `ImplementsQueue` (liveness under fairness and `ENABLED`
are out of the prover's reach).
Induction over data structures and `RECURSIVE` operators are out of its reach
too; no module uses either.

## 6. Where code and documentation disagree

Each of the first three is a run whose property quotes the documentation and
which TLC violates.

1. **Nested `SuspendAllThreads()`** (`protection_nested_calc`).
   `SettingsLeave()` opens a scope by hand and calls `LoadTerrain()`, which
   opens another; `WorkerThread` does not count, so the end of the inner scope
   resumes the calculation thread while the outer one still writes waypoints
   and airspaces. `Protection.hpp` promises to suspend "all threads which have
   unprotected access to shared data".
2. **A strip of the map without shapes** (`map_fresh`).
   `TopographyThread::Trigger()` enlarges `last_bounds` by a tenth with every
   request, but a file whose cache still covers the screen keeps its older
   bounds. A move to the edge of that cache and a small one beyond it are taken
   for "the cache is still fresh" (`Topography/Thread.cpp:31`); the strip
   appears with the next larger move.
3. **ACK Day ends with the GPS fix** (`airspace_day`). The manual says "for the
   rest of the flight (specifically, until XCSoar is restarted)";
   `WarningComputer::Update()` clears everything at the first fix without a
   position or an altitude.

The following were met as well. Their properties are in the modules, in a part of
their own at the end; to see the counterexample, add the property to the run's
configuration.

4. **A notification after `Cancel()`** (`DeviceDescriptor.CancelSuppresses`, an
   invariant of `Spec`). The job thread tests the cancel flag and then sends;
   `Cancel()` fits in between. `Job/Async.hpp` says that "after this method
   returns, no notification will be delivered". In `DeviceDescriptor` the stray
   call then finds the next job and joins it on the main thread, although the
   job runner is there "to make it non-blocking".
5. **Configuration replaced under a running job**
   (`DeviceDescriptor.JobIsConfigured`). The device list calls `SetConfig()`
   before `Reopen()` closes the device; the job's own assertions
   `config.IsAvailable()` and `driver != nullptr` can fail. `devRestart()` closes
   first.
6. **`open_job` left over** (`DeviceDescriptor.OpenJobIsFresh`) when the system
   refuses to create the job's thread in `OnReopenTimer()`, which catches the
   exception: the next `Open()` runs into `assert(open_job == nullptr)`.
7. **SkySight decoder busy for ever** (`SkySightDecode.DecodingAlwaysEnds`; the
   run checks `DecodingEnds`, which excepts this). When its thread cannot be
   created, `Start()` has set `Busy` before `Trigger()` throws. The layer of this
   file is told, but every later file stays in the queue, its layer "decoding",
   until somebody calls `Cancel()`.
8. **A completion that meets a `Cancel()`** (`DownloadManager`).
   `InjectTask.hxx:52-55` says that after `Cancel()` the coroutine's "code
   (including the completion callback) is not running anymore"; but
   `OnCompletion()` clears `alive` before it invokes the callback, and `Cancel()`
   returns at once when `alive` is not set (`CancelIsFinal` fails). The download
   manager relies on it: `Cancel()` or `BeginShutdown()` removes the file from the
   queue, and the callback, which was waiting for the mutex, runs into
   `assert(!queue.empty())` (`CompletionFindsItsFile` fails), or takes the next
   file for the one that has ended. The other way round, when the completion
   has started the next file before `task.Cancel()` begins, it is that one which
   is cancelled; it stays at the head of the queue until somebody enqueues
   another. `raced` marks all of these.
9. **A new airspace that nobody has acknowledged is silent**
   (`AirspaceWarningManager.NewAirspaceIsHeard`). `ack_day_airspaces` holds the
   addresses of objects. `AirspaceWarningManager.cpp:208` says "A new airspace
   can reuse an old address" and empties it when the database is empty, but
   when the NOTAMs alone are replaced, the addresses of the old ones stay. A
   NOTAM is acknowledged for the day, a time warp drops its entry, its station
   is taken back through another NOTAM, and one that comes later at the same
   address is silent.

## 7. What is not modelled

Inside the modelled components: the length of delays and periods; what
`Repaint()`, `Tick()` of the two worker threads and the decoder compute; the
sensors inside the phone, the "wait for the first GPS fix" and the clock of
`AutoReopen()`; NMEA parsing, forwarding and the `Put*()` settings of a device;
the content of terrain tiles and shape files, and labels, whose thresholds only
cause more scans; SkySight downloads, metadata, cache and preloading; timers,
sockets, `Finish()` and io_uring of the event loop; the listeners and the
progress of downloads; clearances, predictions and the order of airspace
warnings, and the monitor that shows them. `OnSysTicker()` takes a device to be
alive or not as it likes. Data races on plain members are not looked for: `dev`
is read and written as one value (the hazard list names two races this hides).

Start, Suspend, Resume and Stop of `SuspensibleThread` are called from one
thread, as everywhere in the program; so are `Cancel()` and `BeginShutdown()` of
the download manager.

Whole components, with the reason for each in `PROJECT.json`. Most of the
program is user interface, drivers, file formats and numeric code: sequential,
on one thread, with few states that a step could get wrong. The shape file and
JPEG 2000 libraries under `Topography/shapelib` and `Terrain/jasper` are third
party code.

## 8. The plan

Done: sections 2, 3, 5. What is left, in this order:

1. **Task advance**: `OrderedTask::CheckTransitions()` and `SmartTaskAdvance`,
   which turn points are taken, armed and skipped; sequential, with long
   histories.
2. **Blackboard**: `DeviceBlackboard`, `MergeThread`, `CalculationThread` and
   `GlideComputerBlackboard` on top of `WorkerThread`: which data of which fix
   a calculation sees, `ForceAll`, replay (`ProcessReplayFix`), settings. Abstract
   specification: a calculation sees a consistent, monotonic snapshot.
3. **Job environments**: `ThreadedOperationEnvironment`, `JobThread`,
   `IgcMetaCache` and the asynchronous terrain loader, on `Notify`; merging of
   progress messages. `SafeList` with the listeners of the download manager.
4. **Clearances** of airspaces, which cover others, in
   `AirspaceWarningManager`, and the monitor that shows its warnings.
5. **Device settings**: the `Put*` protocol (`settings_sent`), forwarding
   between devices, driver calls from two threads.
6. **Flight state machines**: take-off and landing in `FlyingComputer`,
   `CirclingComputer`, the logger's buffer before take-off.
7. **Pure algorithms** against reference definitions, where small: ring
   buffers, trace thinning, the time stamps of merged NMEA data.

Every safety invariant and action property of the passing runs has its theorem.
New modules should come with theirs: of the blackboard, that a calculation sees
one consistent snapshot; of the task, that the active turn point only moves as
`SmartTaskAdvance` says.
