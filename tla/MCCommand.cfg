SPECIFICATION FairSpec
CONSTANTS
  Instances = {a, b}
  References = 2
  ProviderFaults = {"missing", "spawn", "rejects", "refuses", "crashes", "hangs"}
  MaxAttempts = 4
  BackoffBase = 1000
INVARIANTS
  RootIsReal
  NothingLeft
  ExitTellsTheTruth
  LockCoversTheRun
PROPERTIES
  RetriedForACause
  EndsOrStuck
