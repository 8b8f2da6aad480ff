-------------------------- MODULE MCInventoryService ---------------------------
(* Two consumers and one set_stock thread over one item and two orders that   *)
(* together want more units than the seeded stock: one order is paid for, the *)
(* other is declined.                                                         *)
EXTENDS InventoryService

CONSTANTS o1, o2, chair

MCOrders == {o1, o2}
MCItems == {chair}
MCStockLevels == {2}

Body(o) == [item |-> chair, quantity |-> IF o = o1 THEN 1 ELSE 2, customer |-> o]

Event(t, o) == [type |-> t, order |-> o, n |-> 1, payload |-> Body(o)]

MCInbound ==
    {Event("order.created", o1), Event("inventory.commit", o1),
     Event("order.created", o2), Event("inventory.release", o2)}
================================================================================
