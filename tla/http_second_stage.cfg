CONSTANTS
  Streams <- MCOnePost
  Callers <- MCUnlimited
  Radix = 2
  NoLength = 7
  ReadSizes = {1, 3, 8}
  FirstSizes = {1}
  EndsEarly = FALSE
  EmptyCall = TRUE
SPECIFICATION Spec
INVARIANT BodyIsRead
CHECK_DEADLOCK FALSE
