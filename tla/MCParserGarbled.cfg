SPECIFICATION Spec
CONSTANTS
  Files = 2
  StdinRoom = 2
  PipeRoom = 1
  Garbles = 1
  Limits = {}
  Faults = {}
INVARIANTS
  NoFileLost
