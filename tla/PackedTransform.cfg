SPECIFICATION Spec
CONSTANT Shapes <- ScaledShapes
INVARIANTS TypeOK StreamPrefix PackedExact
PROPERTIES StoredOnce Returns
CHECK_DEADLOCK FALSE
