CONSTANTS
  Streams <- MCStreams
  Callers <- MCCallers
  Radix = 2
  NoLength = 7
  ReadSizes = {1, 3, 8}
  FirstSizes = {1}
  EndsEarly = FALSE
  EmptyCall = FALSE
SPECIFICATION Spec
INVARIANT OneMessage
INVARIANT ErrorIsJust
INVARIANT KeepAliveAgrees
INVARIANT AssertsHold
CHECK_DEADLOCK FALSE
PROPERTY ParseReturns
