----------------------------- MODULE Notifications -----------------------------
(*****************************************************************************)
(* The notification service: one row per outcome event, keyed by the id of   *)
(* the event, so that a redelivered event notifies nobody twice.             *)
(*****************************************************************************)
EXTENDS Events

CONSTANT Orders   \* the order ids events can name

VARIABLE notifications   \* table notifications: event id -> order, kind

Init == notifications = << >>

Kind(type) == IF type = "order.completed" THEN "ORDER_CONFIRMED" ELSE "ORDER_FAILED"

\* Look up and insert, in one step: the primary key rejects the second of two
\* handlers of one event, and its retry finds the row.
Notify(e) ==
    /\ Id(e) \notin DOMAIN notifications
    /\ notifications' = Put(notifications, Id(e), [order |-> e.order, kind |-> Kind(e.type)])

\* The notifications about an order.
About(o) == {id \in DOMAIN notifications : notifications[id].order = o}

================================================================================
