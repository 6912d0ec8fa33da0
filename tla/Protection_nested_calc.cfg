\* Scopes inside scopes: the calculation thread does not count them.
CONSTANTS
  MaxDepth = 2
  MaxDialog = 1
SPECIFICATION Spec
INVARIANT DataIsOurs
\* The program ends.
CHECK_DEADLOCK FALSE
