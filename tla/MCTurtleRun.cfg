SPECIFICATION Spec
CONSTANTS
  None = None
  Config <- MCStopLimit
  NPeriod = 2
  StrengthLookbackBars = 1
  DollarVolumeWindow = 1
  Month <- MCMonth
  RebasingLabel <- MCRebasingLabel
  Instruments = {1, 2}
  NewID = 3
  Shapes <- MCShapes
  WarmUp <- MCQuiet
  WarmUpSessions = 2
  MaxSessions = 4
  MaxEvents = 1
  Movements <- MCMovements
  OpeningCash = 300
INVARIANTS
  TypeOK
  BothSidesAgree
  HoldsMatchProposals
  StandingBuysAreFunded
  UnitsInsideCaps
  BookMirrorsReducer
  MoneyConserved
  NoOrderOutlivesItsBar
