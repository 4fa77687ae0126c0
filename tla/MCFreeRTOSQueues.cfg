CONSTANTS
  t1 = t1
  t2 = t2
  idle = idle
  Task = {t1, t2, idle}
  Idle = idle
  None = none
  EventList = {"send", "receive"}
  Priorities = 3
  Ticks = 4
  Overflows = 2
  Periodic = {}
  MaxMissed = 1
  Item = {a, b}
  Length = 2
  MaxLocked = 1
  MaxDepth = 2
  Programs <- AllPrograms
SPECIFICATION QueuesSpec
\* users that have made their calls may stop
CHECK_DEADLOCK FALSE
SYMMETRY Symmetry
INVARIANTS
  NoStrandedWaiter
  Inheritance
  WaitsForTheRest
PROPERTIES
  ImplementsChannel
  NeverGivesUpEarly
