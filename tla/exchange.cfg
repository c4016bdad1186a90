CONSTANTS
  MaxBody = 3
  BufLen = 2
  Peers = {p1, p2}
  MaxTries = 2
  MaxFrames = 2
  MaxPieces = 2
  MaxEmpty = 1
  MaxBack = 1
SPECIFICATION Spec
INVARIANT WireIsMessage
INVARIANT SuspendedIsOwned
INVARIANT ServerOutlivesPeers
INVARIANT OpenIsAgreed
INVARIANT OpenIsFresh
INVARIANT ReadIsMessage
INVARIANT TeardownIsClean
PROPERTY ClientIsServed
PROPERTY ShutdownEnds
PROPERTY CallsEnd
CHECK_DEADLOCK FALSE
