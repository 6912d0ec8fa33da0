CONSTANTS
  Items = {a, b}
  None = None
  Events = {"task", "call"}
  Nobody = Nobody
SPECIFICATION FairSpec
INVARIANTS StartAssertionsHold AliveIsDriven ShutdownIsFinal
PROPERTIES CallsReturn EveryDownloadEnds
\* The manager is shut down.
CHECK_DEADLOCK FALSE
