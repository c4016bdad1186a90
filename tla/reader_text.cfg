CONSTANTS
  Len7 = 3
  Len16 = 4
  U64Max = 5
  Readers <- MCAsyncReader
SPECIFICATION Spec
INVARIANT TextIsValid
CHECK_DEADLOCK FALSE
