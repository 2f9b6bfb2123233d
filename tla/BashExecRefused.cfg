SPECIFICATION Spec
CONSTANTS
  OutputCap = 2
  PipeCap = 2
  MaxWrites = 4
PROPERTIES
  CancelFiresDone
CHECK_DEADLOCK FALSE
