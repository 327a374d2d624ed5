SPECIFICATION LockFairSpec
CONSTANTS
  Runs = {1, 2, 3}
  Crashed = {3}
  NoRun = 0
  TTL = 3
  Observe = 3
  RenewEvery = 1
  Skew <- CloseClocks
  Faults = {"readError", "writeError", "lostAnswer", "shortWrite"}
  MaxRepeats = 2
  MaxAge = 4
INVARIANTS
  AloneUnlessOvertaken
PROPERTIES
  ImplementsExclusiveState
  RenewsOwnOnly
  AcquireEnds
CHECK_DEADLOCK FALSE
