SPECIFICATION Spec
CONSTANTS
  gcc13 = gcc13
  gcc14 = gcc14
  clang22 = clang22
  CellArtifacts <- MCCellArtifacts
  MaxParallel = 2
  CancelAfter = TRUE
  MaxFaults = 2
INVARIANTS TypeOK BoundedConcurrency OutcomeIsHonest NothingOutlivesTheScript FailuresReportedOnce
PROPERTIES DeadlineEndsTheScript EndsWithItsChildren
CHECK_DEADLOCK FALSE
