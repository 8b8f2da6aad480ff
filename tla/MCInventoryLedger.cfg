SPECIFICATION Spec
CONSTANTS
    o1 = o1
    o2 = o2
    o3 = o3
    chair = chair
    desk = desk
    Orders <- MCOrders
    Items <- MCItems
    StockLevels <- MCStockLevels
    Inbound <- MCInbound
INVARIANTS
    TypeOK
    CountersMatchReservations
    NoOverselling
PROPERTIES
    UnitsAreConserved
    SettledIsFinal
