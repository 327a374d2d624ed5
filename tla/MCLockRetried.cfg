SPECIFICATION LockSpec
CONSTANTS
  Runs = {1, 2}
  Crashed = {}
  NoRun = 0
  TTL = 3
  Observe = 3
  RenewEvery = 1
  Skew <- SameClock
  Faults = {"lostAnswer"}
  MaxRepeats = 1
  MaxAge = 4
INVARIANTS
  LostMeansTaken
CHECK_DEADLOCK FALSE
