SPECIFICATION Spec
CONSTANTS
  MaxFiles = 2
  MaxRestarts = 0
  Unranged = {}
  Faults = {}
  Blocks = 3
  FileBlocks = 2
  Interval = 1
  MaxAttempts = 2
  CoreFaults = {"crash", "orphan", "lateOrphan"}
PROPERTIES
  RecordedFilesKept
