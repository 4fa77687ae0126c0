CONSTANTS
  Task = {t1, t2, idle}
  Idle = idle
  None = none
  EventList = {}
  Priorities = 3
  Ticks = 4
  Overflows = 1
  Periodic = {t1}
  MaxMissed = 2
SPECIFICATION Spec
INVARIANTS ListsConsistent RunsHighest
PROPERTIES Punctual ImplementsAlarm TakesTurns
