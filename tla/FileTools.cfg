SPECIFICATION Spec
CONSTANTS
  Calls <- MCCalls
  Files <- MCFiles
  Others <- MCOthers
  MaxFile = 5
  ReturnCap = 3
  ScanCap = 4
  Chunk = 3
  EditCap = 3
  EintrMax = 1
  Unlimited = 9
INVARIANTS
  TypeOK
  ReadExact
  RewriteExact
PROPERTIES
  CallEnds
CHECK_DEADLOCK FALSE
