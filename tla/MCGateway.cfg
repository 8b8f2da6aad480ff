SPECIFICATION GatewaySpec
CONSTANTS
    o1 = o1
    o2 = o2
    k1 = k1
    r1 = r1
    r2 = r2
    ann = ann
    bob = bob
    cem = cem
    None = None
    Orders <- MCOrders
    Keys <- MCKeys
    Requests = {r1, r2}
    Inbound <- MCInbound
    Consumers = {c1}
    Sessions = {s1, s2}
    MaxCrashes = 1
    Clients <- MCClients
    KeyOf <- MCKeyOf
    RequestOf <- MCRequestOf
    MaxAttempts <- MCMaxAttempts
INVARIANTS
    OneOrderPerCheckout
    ToldOrderWasAskedFor
    ShownOutcomeStays
CHECK_DEADLOCK FALSE
SYMMETRY Symmetry
VIEW View
