CONSTANTS
  NumReplicas = 2
  ReadBatch = 2
  WindowSize = 1
  FlipLimit = 1
  Writers = {w1}
  Readers = {r1, r2}
  MaxWrites = 1
  MaxEpochs = 0
  MaxReads = 2
  MaxFaults = 1
SPECIFICATION FairSpec
INVARIANTS
  RequestHeldOnce
  RangeCoversAcked
PROPERTIES
  ReadsAnswered
CHECK_DEADLOCK FALSE
