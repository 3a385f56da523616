CONSTANTS
  NumBuckets = 2
  BucketDepth = 2
  MaxEvictions = 2
  ID = {0, 1, 2, 3}
  Data = {0, 1, 2, 3}
  ZeroData = 0
  NoItem = NoItem
  WindowSize = 3
  SnapshotThreshold = 2
  NumBits = 4
  NumHash = 2
  IDSize = 10
  Commits <- MCCommits
  Committers = {c1, c2}
  Fetchers = {}
  Servers = {s1}
  FirstServers = {}
  MaxCommits = 4
  MaxForced = 0
  MaxFetches = 0
SPECIFICATION Spec
INVARIANTS
  TableIsLog
  ThresholdKept
CHECK_DEADLOCK FALSE
