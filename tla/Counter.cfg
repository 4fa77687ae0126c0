CONSTANT
  Iterations = 5
SPECIFICATION Spec
INVARIANTS
  AtLeastTwo
PROPERTIES
  ImplementsSharedCounter
