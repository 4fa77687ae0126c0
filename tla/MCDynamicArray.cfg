CONSTANTS
  Values = {x, y}
  Undef = Undef
  Factors <- MCFactors
  Capacities <- MCCapacities
  MaxCapacity = 4
  MaxBack = 5
SPECIFICATION Spec
INVARIANTS
  OverflowOnlyWhenShifted
  SavedReadable
PROPERTY
  ImplementsDeque
