CONSTANTS
  MaxNeed = 2
  MaxPieces = 2
  Callers = {"deferred", "any"}
SPECIFICATION FairSpec
INVARIANT WriteExclusive
INVARIANT ParkedReadHasWaker
INVARIANT ParkedWriteHasWaker
INVARIANT ClosedIsAgreed
PROPERTY WireSpec
PROPERTY FramesInTurn
PROPERTY ParkedReadResumes
