CONSTANTS
  MaxNeed = 2
  MaxPieces = 2
  Callers = {"eager"}
SPECIFICATION Spec
PROPERTY AssertWrBlock
