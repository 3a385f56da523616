CONSTANTS
  NumBuckets = 2
  BucketDepth = 2
  MaxEvictions = 2
  ID = {0, 1, 2, 3, 4, 5, 6}
  Data = {0, 1, 2, 3, 4, 5, 6}
  ZeroData = 0
  NoItem = NoItem
  WindowSize = 3
  RemoveStep = 1
  Readers = {}
  Closers = {}
  Placements <- MCPlacements
  MaxWrites = 6
  MaxEpochs = 1
  MaxReads = 0
  Torn = Torn
SPECIFICATION Spec
INVARIANTS
  NoLostItem
CHECK_DEADLOCK FALSE
