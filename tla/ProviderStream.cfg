SPECIFICATION Spec
CONSTANTS
  MaxAttempts = 3
  Index = {0, 1}
  MaxEvents = 3
  RenderLineMax = 6
  Char <- MCChar
  Texts <- MCTexts
  Piece <- MCPiece
INVARIANTS
  TypeOK
  OwnedUntilDestroyed
  ResponseExact
  TerminalExact
PROPERTIES
  KeepsContract
  StreamEnds
CHECK_DEADLOCK FALSE
