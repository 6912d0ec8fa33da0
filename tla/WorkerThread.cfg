\* MergeThread and CalculationThread have a delay and idle times; by default
\* there is no delay, and an idle time only when the period asks for one.
CONSTANTS
  DelayChoices = {TRUE, FALSE}
  IdleChoices = {TRUE, FALSE}
SPECIFICATION FairSpec
INVARIANTS
  NoTickWhileHeld
  NoLostWakeup
PROPERTIES
  SuspendReturns
  ImplementsPromise
\* After Join() nothing is left to do.
CHECK_DEADLOCK FALSE
