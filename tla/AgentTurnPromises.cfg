SPECIFICATION Spec
CONSTANTS
  CallId = {a, b}
  NoId = NoId
  MaxCalls = 2
  StepCap = 3
  ContextLength = 2
  ContextPct = 100
  ContextWarnPct = 50
  Usage = {0, 1, 2}
  MaxMessages = 6
  MaxTurns = 2
  MaxSigints = 2
  Faults = {"oversize"}
INVARIANTS
  SomeSessionPromiseKept
CHECK_DEADLOCK FALSE
