CONSTANTS
  Len7 = 3
  Len16 = 4
  U64Max = 5
  Readers <- MCReaders
SPECIFICATION Spec
INVARIANT EndIsComplete
INVARIANT ReadIsBounded
INVARIANT OwnFramesAccepted
INVARIANT TextIsJudged
CHECK_DEADLOCK FALSE
