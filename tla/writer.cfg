CONSTANTS
  BufSizes = {2, 3}
  MaxBytes = 5
  AnyParts = FALSE
SPECIFICATION FairSpec
INVARIANT BufferFits
PROPERTY FrameBounded
PROPERTY MsgSpec
PROPERTY CallReturns
