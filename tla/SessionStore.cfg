SPECIFICATION Spec
CONSTANTS
  Proc = {p1}
  MaxMessages = 4
  MaxAppends = 6
  Faults = {"short", "kill", "oscrash"}
  InitialFiles <- MCInitialFiles
INVARIANTS
  TypeOK
  LoadableUnlessHealed
PROPERTIES
  DiskAppendOnly
  ImplementsMessageLog
CHECK_DEADLOCK FALSE
