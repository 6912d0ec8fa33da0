\* Three nested suspensions: a widget that hides the map, the settings
\* dialog and SuspendAllThreads().
CONSTANT MaxSuspend = 3
SPECIFICATION FairSpec
INVARIANTS
  NoDrawWhileHeld
  NoLostWakeup
PROPERTIES
  SuspendReturns
  ImplementsPromise
\* After Join() nothing is left to do.
CHECK_DEADLOCK FALSE
