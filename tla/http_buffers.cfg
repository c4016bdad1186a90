CONSTANTS
  Streams <- MCTwoGets
  Callers <- MCUnlimited
  Radix = 2
  NoLength = 7
  ReadSizes = {1, 3, 8}
  FirstSizes = {10, 11}
  EndsEarly = TRUE
  EmptyCall = FALSE
SPECIFICATION Spec
INVARIANT OneMessage
CHECK_DEADLOCK FALSE
