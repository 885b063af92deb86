CONSTANTS
    i1 = i1
    i2 = i2
    o1 = o1
    o2 = o2
    None = None
    Inputs = {i1}
    Orders = {o1, o2}
    OrdersOf <- OneReply
    Unsendable = {o2}
    Foreign = {}
    OwnerChecks = FALSE
    MaxDay = 2
    MaxFaults = 2
SPECIFICATION LiveSpec
CHECK_DEADLOCK FALSE
INVARIANTS
    PlacedByPermission
PROPERTY
    AwaitingIsSettled
