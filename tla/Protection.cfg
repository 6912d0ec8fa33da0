\* Scopes inside scopes, as SettingsLeave() opens them through LoadTerrain(),
\* with the settings dialog and a widget around them.
CONSTANTS
  MaxDepth = 2
  MaxDialog = 1
SPECIFICATION FairSpec
INVARIANTS
  InnermostIsOurs
  DrawingIsHeld
  CountIsBalanced
PROPERTY UIReturns
\* The program ends.
CHECK_DEADLOCK FALSE
