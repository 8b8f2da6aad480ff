-------------------------------- MODULE MCSaga ---------------------------------
(* Checkouts of one item: of two units by a customer who can pay, of one unit  *)
(* by one who cannot. One of each fit into the stock, two of the first do not. *)
EXTENDS Saga

CONSTANTS chair, ann, bob

MCItems == {chair}
MCStockLevels == {3}
MCCustomers == {ann, bob}
MCFailingCustomers == {bob}

Request(customer, quantity) ==
    [item |-> chair, quantity |-> quantity, customer |-> customer, amount |-> 1]

MCRequests == {Request(ann, 2), Request(bob, 1)}

================================================================================
