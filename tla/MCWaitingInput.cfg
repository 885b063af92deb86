CONSTANTS
    Inputs = {i1}
    Records = {r1}
    Misdated = {}
    Starts = {s1, s2}
    None = None
    MaxFaults = 1
SPECIFICATION Spec
CHECK_DEADLOCK FALSE
INVARIANT
    UncommittedAppliedAsNew
