SPECIFICATION Spec
CONSTANTS
  MaxFiles = 2
  MaxRestarts = 1
  Unranged = {}
  Faults = {"dies"}
  Blocks = 3
  FileBlocks = 2
  Interval = 1
  MaxAttempts = 2
  CoreFaults = {"fails", "dstDies", "crash", "orphan", "persistError", "signal", "grows", "startsOver"}
INVARIANTS
  NoGap
PROPERTIES
  RecordedFilesKept
