SPECIFICATION Spec
CONSTANTS
  MaxFiles = 2
  MaxRestarts = 1
  Unranged = {1, 2}
  Faults = {}
  Blocks = 2
  FileBlocks = 1
  Interval = 0
  MaxAttempts = 2
  CoreFaults = {"fails"}
INVARIANTS
  NoGap
