CONSTANTS
  BufSizes = {2, 3}
  MaxBytes = 3
  AnyParts = TRUE
SPECIFICATION FairSpec
PROPERTY MsgSpec
