SPECIFICATION Spec
CONSTANTS
  Missing = Missing
  Unreadable = Unreadable
  NoAnswer = NoAnswer
  NotGiven = NotGiven
  Char <- MCChar
  Letter = {"a", "b", "k"}
  Keyword <- MCKeyword
  File <- MCFile
  Piece <- MCPiece
  Placeholder <- MCPlaceholder
  Special <- MCSpecial
  Value <- MCValue
  MaxSwaps = 1
  MaxLength = 5
INVARIANTS
  PromptsRender
  ParametersStayApart
CHECK_DEADLOCK FALSE
