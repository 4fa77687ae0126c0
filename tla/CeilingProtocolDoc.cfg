SPECIFICATION Spec
INVARIANT
  LockNeverBlocks
