SPECIFICATION Spec
CONSTANTS
  Scripts <- MCScripts
  MaxMessage = 3
  ReadChunk = 3
  VarMax = 2
  StepCaps = {1, 2}
  Default = 1
  MarshalDepthCap = 3
  Deepest = 4
  Objects <- MCObjects
  Inputs <- MCInputs
  Tails <- MCTails
  Cuts <- MCCuts
  Message <- MCMessage
  Garbage <- MCGarbage
INVARIANTS
  TypeOK
  ServesInOrder
  ReturnsDetached
  CodecExact
PROPERTIES
  ServeEnds
