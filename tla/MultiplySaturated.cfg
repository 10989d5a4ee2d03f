\* Lanes of 3 bits and, to be split into halves, of 4: every pair of values in
\* lane 0, patterns in the others.
SPECIFICATION Spec
CONSTANTS
  W8 = 3
  W16 = 3
  W32 = 3
  W64 = 4
  Precision = 3
  LhsStrides <- MCLhsStrides
  RhsStrides <- MCRhsStrides
INVARIANTS
  SaturatesAsDocumented
CHECK_DEADLOCK FALSE
