SPECIFICATION ServiceSpec
CONSTANTS
    o1 = o1
    o2 = o2
    Orders <- MCOrders
    Keys = {k1}
    Requests = {r1}
    Inbound <- MCInbound
    Consumers = {c1, c2}
    Sessions = {s1}
    MaxCrashes = 0
PROPERTIES
    TerminalIsFinal
CHECK_DEADLOCK FALSE
