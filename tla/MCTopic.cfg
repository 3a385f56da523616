CONSTANTS
  Publisher = {p1}
  Reader = {r1}
  BucketsAt <- MCBuckets
  Denom = 2
  Zero = Zero
  Cover = Cover
  Lengths = {1, 3}
  Window = 2
  MaxMessages = 2
  MaxCovers = 1
  MaxFaults = 1
  MaxSessions = 2
SPECIFICATION FairSpec
INVARIANTS
  BehindTopic

  
  
CHECK_DEADLOCK FALSE
