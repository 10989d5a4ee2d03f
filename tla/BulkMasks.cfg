CONSTANTS
  G = 2
  Lanes128 = 2
  MaxElements = 6
  MaxGroups = 3
SPECIFICATION Spec
CHECK_DEADLOCK FALSE
INVARIANTS
  ComparesItsElements
  ReducesByPosition
  ExpandsByPosition
