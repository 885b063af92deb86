SPECIFICATION Spec
CONSTANTS
  None = None
  Config <- MCStopLimit
  NPeriod = 2
  StrengthLookbackBars = 1
  DollarVolumeWindow = 1
  Month <- MCMonth
  RebasingLabel <- MCRebasingLabel
  Instruments = {1, 2}
  NewID = 3
  Shapes <- MCReversals
  WarmUp <- MCQuiet
  WarmUpSessions = 2
  MaxSessions = 3
  MaxEvents = 0
  Movements <- MCMovements
  OpeningCash = 800
INVARIANT
  HeadroomFreedNextBar
