CONSTANTS
  Users = {u1, u2, u3}
  Null = Null
  Members = 3
SPECIFICATION Spec
INVARIANTS
  StaleOnlyOnEarlyFastPath
PROPERTIES
  ImplementsOnce
