CONSTANTS
    a = a
    b = b
    h = h
    None = None
    Ours = {a}
    Hands = {}
    Start = 2
    HandSizes = {1, 3}
    Top = 3
    ListsTotal = TRUE
    SlowRead = TRUE
    Later = 4
    MaxClock = 3
    MaxReads = 2
    MaxRestarts = 0
SPECIFICATION Spec
CHECK_DEADLOCK FALSE
INVARIANTS
    RemainsWithinTruth
