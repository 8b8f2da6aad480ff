--------------------------- MODULE MCInventoryLedger ---------------------------
(* A small instance of InventoryLedger: three orders of one or two units for  *)
(* two items, each order's three events, and order.created under two ids.     *)
EXTENDS InventoryLedger

CONSTANTS o1, o2, o3, chair, desk

MCOrders == {o1, o2, o3}
MCItems == {chair, desk}
MCStockLevels == {2}

Request(o) == [item     |-> IF o = o3 THEN desk ELSE chair,
               quantity |-> IF o = o2 THEN 2 ELSE 1,
               customer |-> o]

MCInbound ==
    {[type |-> t, order |-> o, n |-> 1, payload |-> Request(o)] :
        t \in {"order.created"} \cup InventoryCommands, o \in {o1, o2}}
    \cup {[type |-> t, order |-> o3, n |-> 1, payload |-> Request(o3)] :
        t \in {"order.created", "inventory.release"}}
    \cup {[type |-> "order.created", order |-> o1, n |-> 2, payload |-> Request(o1)]}

================================================================================
