SPECIFICATION FairSpec
CONSTANTS
    o1 = o1
    o2 = o2
    Orders <- MCOrders
    Keys = {k1}
    Requests = {r1}
    Inbound <- MCInbound
    Consumers = {c1}
    Sessions = {s1, s2}
    MaxCrashes = 1
INVARIANTS
    ServiceTypeOK
    AnnouncedMatchesStatus
PROPERTIES
    StatusIsMonotonic
    ImplementsLifecycle
    OutcomeIsReached
CHECK_DEADLOCK FALSE
