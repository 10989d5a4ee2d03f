CONSTANTS
  W = 6
  IndexBits = 4
SPECIFICATION Spec
CHECK_DEADLOCK FALSE
INVARIANT BzhiAsDocumented
