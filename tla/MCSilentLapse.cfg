SPECIFICATION Spec
CONSTANTS
  Top = 1000
  Later = 100
  None = None
  Instrument = "traded"
  Instruments = {"traded", "other"}
  Keep = 2
  Boosted = 4
  MaxOrder = 3
  MaxExposure = 5
  MaxSnapshotAge = 1
  StaleAfter = 2
  Day = 2
  Starts <- SilentStarts
INVARIANT WithheldLapses
CHECK_DEADLOCK FALSE
