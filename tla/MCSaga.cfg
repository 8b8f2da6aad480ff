SPECIFICATION FairSpec
CONSTANTS
    chair = chair
    ann = ann
    bob = bob
    Orders = {o1, o2}
    Requests <- MCRequests
    Items <- MCItems
    StockLevels <- MCStockLevels
    Customers <- MCCustomers
    FailingCustomers <- MCFailingCustomers
    MaxResets = 2
    MaxParked = 1
INVARIANTS
    ServicesAgree
    PaidUnitsAreKept
    StockAddsUp
    NoNeedlessRejection
    NothingIsLost
PROPERTIES
    FinishedForGood
    CheckoutsFinish
CHECK_DEADLOCK FALSE
