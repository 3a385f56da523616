CONSTANTS
  NumBuckets = 2
  BucketDepth = 1
  MaxEvictions = 2
  ID = {0, 1, 2, 3}
  Data = {0, 1, 2, 3}
  ZeroData = 0
  NoItem = NoItem
  WindowSize = 1
  SnapshotThreshold = 2
  NumBits = 4
  NumHash = 2
  IDSize = 10
  Commits <- MCCommits
  Committers = {c1, c2}
  Fetchers = {f1}
  Servers = {s1}
  FirstServers = {s1}
  MaxCommits = 2
  MaxForced = 0
  MaxFetches = 1
SPECIFICATION FairSpec
INVARIANTS
  IntVecOfSnapshot
  
PROPERTIES
  CommitsSnapshotted
  
CHECK_DEADLOCK FALSE
