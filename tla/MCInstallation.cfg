SPECIFICATION Spec
CONSTANTS
  Commands = {c, d}
  Packages = {1, 2}
  Kinds = {source, destination}
  Doubtful = {1}
  Installed = {2}
  Suffixed = {2}
  MaxRedirects = 2
  MaxRunning = 1
  Faults = {"crash", "diskFull", "garbled", "refused"}
INVARIANTS
  OnlyVerified
PROPERTIES
  ReportIsTrue
  LeavesOthersAlone
SYMMETRY Symmetry
CHECK_DEADLOCK FALSE
