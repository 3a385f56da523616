CONSTANTS
  App = {a1, a2}
  Handle = {h1, h2}
  NoHandle = NoHandle
  ChanCap = 1
  Workloads <- MCWorkloads
  Cover = Cover
SPECIFICATION FairSpec
INVARIANTS
  
  LockedSendHasRoom
  HandlesAreSubscribed
  NoLostWakeup
CHECK_DEADLOCK FALSE
PROPERTIES
  
  
  KillReturns
  NewsPolled
