SPECIFICATION FairSpec
CONSTANTS
  MaxFiles = 2
  MaxRestarts = 0
  Unranged = {}
  Faults = {"hangs"}
  Blocks = 2
  FileBlocks = 1
  Interval = 1
  MaxAttempts = 2
  CoreFaults = {"dstDies", "signal", "grows"}
PROPERTIES
  RunEnds
