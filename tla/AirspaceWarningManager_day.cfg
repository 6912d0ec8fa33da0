CONSTANTS
  AckTime = 2
  Airspaces = {p, q}
  Stations = {n}
  Steps = {1}
  None = None
SPECIFICATION Spec
PROPERTY DayAckIsForTheFlight
