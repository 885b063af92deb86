CONSTANTS
    a = a
    b = b
    h = h
    None = None
    Ours = {a}
    Hands = {h}
    Start = 3
    HandSizes = {1, 3}
    Top = 3
    ListsTotal = TRUE
    SlowRead = FALSE
    Later = 3
    MaxClock = 2
    MaxReads = 2
    MaxRestarts = 1
SPECIFICATION Spec
CHECK_DEADLOCK FALSE
INVARIANTS
    TypeOK
    RemainsWithinTruth
    SettledFreesAll
PROPERTY
    ReportsNeverRaise
