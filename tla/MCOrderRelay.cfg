CONSTANTS
    i1 = i1
    i2 = i2
    o1 = o1
    o2 = o2
    None = None
    Inputs = {i1, i2}
    Orders = {o1, o2}
    OrdersOf <- TwoReplies
    Unsendable = {o2}
    Foreign = {o1, o2}
    OwnerChecks = TRUE
    MaxDay = 2
    MaxFaults = 3
SPECIFICATION Spec
CHECK_DEADLOCK FALSE
INVARIANTS
    TypeOK
    PlacedOnce
    RetiredNeverPlaced
    NoOrderForgotten
    RetiredAfterItsInput
    FoundNeverRetired
