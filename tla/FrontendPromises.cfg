SPECIFICATION Spec
CONSTANTS
  Modes <- Interactive
  Models = {"m1", "m2"}
  NoModel = "none"
  DefaultModel = "m1"
  Window <- MCWindow
  EnvWindow = 50
  Args <- DeepArgs
  Tables <- MCTables
  Shown <- LuaArgs
  Captured <- CaptureToolPreArgs
  IsObject <- MCIsObject
  IsTable <- MCIsTable
  NoValue = NoValue
  Failed = NoValue
  MarshalDepthCap = 2
  Scalars = {1, 2, 9}
  Names = {"a", "b"}
  ToolNames = {"t"}
  MaxAutocmds = 3
  MaxTools = 1
  MaxEffects = 5
  MaxPrompts = 1
  MaxCalls = 1
INVARIANTS
  SomeTurnPromiseKept
CHECK_DEADLOCK FALSE
