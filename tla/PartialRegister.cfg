SPECIFICATION Spec
CONSTANTS
  Registers = {v, w}
  Shapes <- MCShapes
  LaneOp <- MCLaneOp
INVARIANTS TypeOK ZeroSuffix CanonicalMask ObserversSeeActiveLanes NoZeroDivisor ResultsFitTheirType
