SPECIFICATION SupFairSpec
CONSTANTS
  MaxFiles = 2
  MaxRestarts = 1
  Unranged = {}
  Faults = {"hangsAtEnd"}
PROPERTIES
  StageEnds
