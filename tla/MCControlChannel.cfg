SPECIFICATION FairSpec
CONSTANTS
  Garbles = 3
  Limits = {"handshake", "configure", "start", "work"}
  Faults = {"foreign", "rejects", "fails", "crashes", "hangs", "elsewhere"}
INVARIANTS
  InStep
  RepairsOne
  UndoneBeforeSaid
PROPERTIES
  ConversationEnds
