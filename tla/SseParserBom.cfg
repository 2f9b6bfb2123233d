SPECIFICATION Spec
CONSTANTS
  MaxSegments = 4
  Bodies <- MCBodies
  AbortAt = {0, 1, 2}
  MaxLine = 4
  MaxData = 4
  MaxType = 1
  MaxId = 1
INVARIANTS
  TruncatedMeansCut
