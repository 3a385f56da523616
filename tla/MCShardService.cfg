CONSTANTS
  NumBuckets = 2
  BucketDepth = 1
  MaxEvictions = 2
  ID = {0, 1, 2, 3, 4, 5, 6}
  Data = {0, 1, 2, 3, 4, 5, 6}
  ZeroData = 0
  NoItem = NoItem
  WindowSize = 1
  RemoveStep = 1
  Readers = {r1, r2}
  Closers = {c1, c2}
  Placements <- ValidPlacements
  MaxWrites = 3
  MaxEpochs = 0
  MaxReads = 2
  Torn = Torn
SPECIFICATION FairSpec
INVARIANTS
  RepliesRouted
  SyncUnambiguous
PROPERTIES
  ReadsAnswered
  CloseReturns
CHECK_DEADLOCK FALSE
