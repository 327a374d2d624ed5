SPECIFICATION FairSpec
CONSTANTS
  Files = 2
  StdinRoom = 1
  PipeRoom = 1
  Garbles = 1
  Limits = {"start", "finish", "stall"}
  Faults = {"rawFails", "rawCrashes", "rawHangs", "rawRepeats", "parserFails", "parserCrashes", "parserHangs", "parserQuits", "dstFails", "signal"}
INVARIANTS
  NothingTwice
  CommitsEveryFile
  BlamesTheGuilty
  NoEndAfterFailure
PROPERTIES
  StageEnds
