SPECIFICATION Spec
CONSTANTS
  Modes <- MCModes
  Models = {"m1", "m2", "m3"}
  NoModel = "none"
  DefaultModel = "m3"
  Window <- MCWindow
  EnvWindow = 50
  Args <- AllArgs
  Tables <- MCTables
  Shown <- LuaArgs
  Captured <- CaptureToolPreArgs
  IsObject <- MCIsObject
  IsTable <- MCIsTable
  NoValue = NoValue
  Failed = NoValue
  MarshalDepthCap = 2
  Scalars = {1, 2, 9}
  Names = {"a", "b"}
  ToolNames = {"t"}
  MaxAutocmds = 2
  MaxTools = 1
  MaxEffects = 3
  MaxPrompts = 2
  MaxCalls = 1
INVARIANTS
  TypeOK
  OnlyDecidedCallsRun
  RefsOwned
  WindowMatchesModel
  EchoKeepsArgs
CHECK_DEADLOCK FALSE
