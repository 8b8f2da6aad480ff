SPECIFICATION ServiceSpec
CONSTANTS
    o1 = o1
    o2 = o2
    ann = ann
    bob = bob
    Orders <- MCOrders
    Customers <- MCCustomers
    FailingCustomers <- MCFailingCustomers
    Inbound <- MCInbound
    Consumers = {c1, c2, c3}
    MaxCrashes = 2
INVARIANTS
    OneOutcomePerPayment
PROPERTIES
    ImplementsLedger
CHECK_DEADLOCK FALSE
