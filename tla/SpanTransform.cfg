CONSTANTS
  Size = 7
  Lanes128 = 2
  Padding <- MCPadding
  Initial <- MCInitial
  F <- MCF
SPECIFICATION SpanSpec
CHECK_DEADLOCK FALSE
INVARIANTS
  MapsTheOriginal
  WritesItsSpanOnly
  ScalarParity
