--------------------------- MODULE MCPaymentService ----------------------------
(* Two orders, one of a failing customer; the reservation of o1 is announced  *)
(* under two event ids, with another amount the second time.                  *)
EXTENDS PaymentService

CONSTANTS o1, o2, ann, bob

MCOrders == {o1, o2}
MCCustomers == {ann, bob}
MCFailingCustomers == {bob}

Reserved(o, n, customer, amount) ==
    [type |-> "inventory.reserved", order |-> o, n |-> n,
     payload |-> [customer |-> customer, amount |-> amount]]

MCInbound == {Reserved(o1, 1, ann, 5), Reserved(o1, 2, ann, 0), Reserved(o2, 1, bob, 5)}

================================================================================
