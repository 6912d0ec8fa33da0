CONSTANTS
  Events = {e1, e2}
  Nobody = Nobody
SPECIFICATION FairSpec
INVARIANT NoSleepOnWork
PROPERTIES ImplementsQueue CallsReturn StopEnds
\* The loop ends.
CHECK_DEADLOCK FALSE
