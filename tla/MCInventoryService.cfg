SPECIFICATION FairSpec
CONSTANTS
    o1 = o1
    o2 = o2
    chair = chair
    Orders <- MCOrders
    Items <- MCItems
    StockLevels <- MCStockLevels
    Inbound <- MCInbound
    Consumers = {c1, c2}
    Setters = {s1}
    SeedItem = chair
    SeedLevel = 2
    MaxRequests = 2
    MaxCrashes = 1
INVARIANTS
    OneVerdictPerOrder
    DeadlocksArePairs
PROPERTIES
    ImplementsLedger
    TransactionsEnd
CHECK_DEADLOCK FALSE
