---------------------------- MODULE MCOrderService -----------------------------
(* Two clients share a key, two order ids are free, and the environment may   *)
(* give every answer to every order.                                          *)
EXTENDS OrderService, TLC

CONSTANTS o1, o2

MCOrders == {o1, o2}

MCInbound ==
    {[type |-> t, order |-> o, n |-> 1, payload |-> << >>] :
        t \in InventoryVerdicts \cup PaymentOutcomes, o \in MCOrders}

\* Order ids, keys, consumers and sessions are interchangeable (used without
\* temporal properties only).
Symmetry == UNION {Permutations(S) : S \in {Orders, Keys, Consumers, Sessions}}

================================================================================
