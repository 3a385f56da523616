CONSTANTS
  NumServers = 3
  NumBuckets = 3
  BucketBytes = 4
  ByteSize = 3
  WordSize = 2
  ReadBatch = 2
  Batches <- MCBatches
  Backends <- MCBackends
  GroupSize <- MCGroupSize
  Versions = 2
  Changed <- MCChanged
SPECIFICATION FairSpec
INVARIANTS
  ViewHidesBucket
  
  NeverWrongBucket
  AnswerIsBucket

  
CHECK_DEADLOCK FALSE
