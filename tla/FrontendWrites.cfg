CONSTANTS
  NumReplicas = 2
  ReadBatch = 2
  WindowSize = 2
  FlipLimit = 0
  Writers = {w1, w2}
  Readers = {}
  MaxWrites = 2
  MaxEpochs = 1
  MaxReads = 0
  MaxFaults = 1
SPECIFICATION FairSpec
INVARIANTS
  AckedEverywhere
  
PROPERTIES
  CloseStopsLoops
CHECK_DEADLOCK FALSE
