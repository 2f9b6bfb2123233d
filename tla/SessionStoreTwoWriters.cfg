SPECIFICATION Spec
CONSTANTS
  Proc = {p1, p2, p3}
  MaxMessages = 2
  MaxAppends = 7
  Faults = {"kill"}
  InitialFiles <- MCSharedFiles
INVARIANTS
  EveryWriterDurable
  OpenFileLoadable
CHECK_DEADLOCK FALSE
