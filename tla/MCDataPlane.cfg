SPECIFICATION PlaneSpec
CONSTANTS
  Batches = 3
  PipeRoom = 2
  Limits = {"finish", "finalize", "stall"}
  Faults = {"srcFails", "srcCrashes", "srcHangs", "srcLies", "dstFails", "dstCrashes", "dstHangs", "signal"}
  MaxInflight = 3
  Budget = 4
  Sizes = {1, 2, 5}
  Fetches = 6
  PipeDepth = 2
  ReadAhead = TRUE
  Garbles = 2
  Aborts = TRUE
INVARIANTS
  BlamesTheGuilty
  WithinBudget
PROPERTIES
  ImplementsAtomicLoad
  ImplementsBoundedBuffer
  PhaseEnds
  SourceNeverStarves
CHECK_DEADLOCK FALSE
