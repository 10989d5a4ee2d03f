CONSTANTS
  H = 3
  IndexBits = 4
SPECIFICATION Spec
INVARIANTS
  TypeOK
PROPERTIES
  ImplementsWideInteger
