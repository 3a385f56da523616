CONSTANTS
  NumBuckets = 2
  BucketDepth = 2
  MaxEvictions = 2
  ID = {0, 1}
  Data = {"zero", "p"}
  ZeroData = "zero"
  NoItem = NoItem
  Request <- MCRequest
SPECIFICATION Spec
INVARIANTS
  TypeOK
  OwnBucket
  NeverFatal
PROPERTIES
  StoreSpec
