CONSTANTS
  AllocSizes = {0, 1, 3}
  StaticSizes = {3}
  Shapes <- MCShapes
  LowRead = 2
  MaxArg = 3
  MaxBytes = 3
  Capacities = {0, 2}
  Wants = {0, 2}
  MaxText = 7
  MaxJunk = 1
  MaxElems = 3
  Chars = {1, 2}
  Limits <- MCLimits
  BlockBytes = 4
  LengthBytes = 2
  KeyBytes = {4, 8}
  Pieces = {0, 1, 3, 5, 9}
  MaxHash = 14
  MaxOctets = 4
  Suites <- MCSuites
  Patterns = {"s1", "s2", "m1", "l1"}
  Threads = {t1}
  MaxSteps = 3
  Scripts <- MCScripts
  Text <- MCText
  Limit = 7
SPECIFICATION ToolkitSpec
INVARIANT ReadIsNext
INVARIANT StorageIsExact
 
INVARIANT ViewsAreExact
 
INVARIANT HeadersAgree
INVARIANT StringIsText
INVARIANT CodecsAreExact
 
INVARIANT SweepIsWhole
CHECK_DEADLOCK FALSE
