SPECIFICATION CancelSpec
CONSTANTS
  CallId = {a, b}
  NoId = NoId
  MaxCalls = 2
  StepCap = 3
  ContextLength = 2
  ContextPct = 100
  ContextWarnPct = 50
  Usage = {0, 1, 2}
  MaxMessages = 9
  MaxTurns = 3
  MaxSigints = 2
  Faults = {"torn", "kill", "oscrash"}
INVARIANTS
  RequestWellFormed
  OpenRoundOnlyIfSealed
  WaitsOrQuiet
  OutcomeMatchesRecord
  StopsAtLimits
PROPERTIES
  NothingStartsAfterCancel
  TurnFinishes
CHECK_DEADLOCK FALSE
