CONSTANTS
  None = None
  t1 = t1
  t2 = t2
  Task = {t1, t2}
  Scenes <- MCHalts
  Size = 2
  CtrlSize = 2
  ControlRequests <- MCRequests
  Frames = 3
  Chunk = 3
  Banks = 1
  MaxBytes = 3
SPECIFICATION AllSpec
ACTION_CONSTRAINT
  Focus
INVARIANT
  NeverFails
\* tasks that have made their calls may stop, and the host with them
CHECK_DEADLOCK FALSE
