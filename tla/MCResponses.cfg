CONSTANTS
  N = 3
  MaxDue = 6
  Second = 5
  Period = 2
  MaxTime = 12
  MaxSets = 1
SPECIFICATION AllSpec
INVARIANTS
  LostOnlyIfLate
  NoPhantomResponse
  InTime
  KeepsPace
PROPERTIES
  EdgesAnswered
  SignalsAnswered
\* the clock of ex6 ends at its bound
CHECK_DEADLOCK FALSE
