CONSTANTS
    i1 = i1
    i2 = i2
    o1 = o1
    o2 = o2
    None = None
    Inputs = {i1}
    Orders = {o1, o2}
    OrdersOf <- OneReply
    Unsendable = {}
    Foreign = {o1}
    OwnerChecks = TRUE
    MaxDay = 2
    MaxFaults = 1
SPECIFICATION Spec
CHECK_DEADLOCK FALSE
PROPERTY
    MarkedNotDeliverable
