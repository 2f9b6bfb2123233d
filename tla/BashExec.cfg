SPECIFICATION Spec
CONSTANTS
  OutputCap = 2
  PipeCap = 2
  MaxWrites = 4
INVARIANTS
  TypeOK
  JoinIsSafe
  ResultHonest
PROPERTIES
  ExecutionEnds
CHECK_DEADLOCK FALSE
