CONSTANTS
    Inputs = {i1, i2}
    Records = {r1, r2}
    Misdated = {r2}
    Starts = {s1, s2}
    None = None
    MaxFaults = 3
SPECIFICATION Spec
CHECK_DEADLOCK FALSE
SYMMETRY Symmetry
INVARIANTS
    TypeOK
    JournalBeforeSend
    OneReplyPerInput
    LogContiguous
    ReleasedSurvivesResume
    RecordDeliveredOnce
    NeverTakenForAnother
    RefusedOnlyBehindRecord
PROPERTY
    KeepsPromise
