SPECIFICATION ServiceSpec
CONSTANTS
    o1 = o1
    o2 = o2
    Orders <- MCOrders
    Keys = {k1, k2}
    Requests = {r1}
    Inbound <- MCInbound
    Consumers = {c1, c2}
    Sessions = {s1, s2}
    MaxCrashes = 1
INVARIANTS
    RetriesGetTheOriginalOrder
    OneOutcomeAnnounced
CHECK_DEADLOCK FALSE
SYMMETRY Symmetry
