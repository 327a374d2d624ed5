SPECIFICATION FairSpec
CONSTANTS
  Spans = 2
  Logs = 2
  Points = 2
  Records = 3
  Instruments = {h, g}
  Histograms = {h}
  MaxReplay = 1
  MaxSeries = 1
  MaxPending = 1
  Budget = 1
  MaxHeld = 1
  Shaky = {"logs"}
  Modes = {"drain", "hold"}
  Faults = {"killed", "talkFails", "exportFails", "exporterHangs", "burst"}
INVARIANTS
  AccountsForAll
  HangsOnNearest
  MaskedWhenShown
PROPERTIES
  TelemetryEnds
CHECK_DEADLOCK FALSE
