CONSTANTS
  AckTime = 3
  Airspaces = {p, q}
  Stations = {n}
  Steps = {1}
  None = None
SPECIFICATION Spec
INVARIANT FlagMatchesMemory
PROPERTIES NoEarlyAlert AlertIsReported
