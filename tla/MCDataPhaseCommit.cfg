SPECIFICATION Spec
CONSTANTS
  Batches = 2
  PipeRoom = 1
  Limits = {"finish", "finalize"}
  Faults = {"signal"}
PROPERTIES
  NoCleanEndAfterAbort
