CONSTANTS
    Inputs = {i1, i2}
    Records = {}
    Misdated = {}
    Starts = {s1, s2}
    None = None
    MaxFaults = 3
SPECIFICATION LiveSpec
CHECK_DEADLOCK FALSE
PROPERTY
    WaitingIsSettled
