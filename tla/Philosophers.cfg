CONSTANTS
  N = 4
  Rounds = 3
  Nobody = Nobody
SPECIFICATION Spec
\* eat deadlocks by design, the others end: see StuckOnlyInCircle
CHECK_DEADLOCK FALSE
INVARIANTS
  WaitsOnlyForEaters
  StuckOnlyInCircle
  DestroyedUnused
PROPERTIES
  ImplementsDining
  ProgramReturns
