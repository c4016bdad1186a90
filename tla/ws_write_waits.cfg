CONSTANTS
  MaxNeed = 2
  MaxPieces = 2
  Callers = {"deferred"}
SPECIFICATION FairSpec
PROPERTY ParkedWriteResumes
