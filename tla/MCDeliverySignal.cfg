SPECIFICATION SlowSinkSpec
CONSTANTS
  MaxFiles = 2
  MaxRestarts = 1
  Unranged = {}
  Faults = {}
  Blocks = 2
  FileBlocks = 1
  Interval = 0
  MaxAttempts = 1
  CoreFaults = {"signal"}
PROPERTIES
  SignalStops
