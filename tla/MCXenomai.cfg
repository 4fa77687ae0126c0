SPECIFICATION Spec
INVARIANTS
  LocksSound
  NoInversion
  StuckOnlyInCircle
  BlocksOnlyAfterInnerUnlock
PROPERTY
  ExitsWithWorkDone
