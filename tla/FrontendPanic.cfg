CONSTANTS
  NumReplicas = 2
  ReadBatch = 3
  WindowSize = 2
  FlipLimit = 1
  Writers = {w1, w2}
  Readers = {r1, r2, r3}
  MaxWrites = 0
  MaxEpochs = 0
  MaxReads = 3
  MaxFaults = 0
SPECIFICATION Spec
INVARIANTS
  NoPanic
CHECK_DEADLOCK FALSE
