-------------------------------- MODULE Events --------------------------------
(*****************************************************************************)
(* The event envelope every service writes to its outbox and every consumer  *)
(* reads from its queue (app/common/events.py), the routing table formed by  *)
(* the consumers' bindings, and two helpers on tables.                       *)
(*                                                                           *)
(* An envelope is abstracted to                                              *)
(*   type     event_type, which is also the routing key of its outbox row;   *)
(*   order    aggregate_id, which every payload repeats as order_id;         *)
(*   n        with type and order, the event_id: uuid4 never repeats, so the *)
(*            k-th event of a type a service writes for an order has n = k;  *)
(*   payload  the payload fields a consumer reads.                           *)
(* Timestamps, correlation ids and trace contexts are left out: no handler   *)
(* decides anything from them.                                               *)
(*****************************************************************************)
EXTENDS Integers, FiniteSets

OrderOutcomes     == {"order.completed", "order.failed"}
InventoryCommands == {"inventory.release", "inventory.commit"}
InventoryVerdicts == {"inventory.reserved", "inventory.rejected"}
InventoryReceipts == {"inventory.released", "inventory.committed"}
PaymentOutcomes   == {"payment.succeeded", "payment.failed"}

\* The event_id consumers deduplicate by.
Id(e) == <<e.type, e.order, e.n>>

\* The event a handler writes to the outbox rows, with an id no row carries yet.
NewEvent(rows, type, order, payload) ==
    [type    |-> type,
     order   |-> order,
     n       |-> Cardinality({r \in rows : r.type = type /\ r.order = order}) + 1,
     payload |-> payload]

\* A table: some of the keys, each with one row.
IsTable(table, Keys, Rows) ==
    /\ table = [k \in DOMAIN table |-> table[k]]
    /\ DOMAIN table \subseteq Keys
    /\ \A k \in DOMAIN table : table[k] \in Rows

\* INSERT or UPDATE of one row of a table.
Put(table, key, row) ==
    [k \in DOMAIN table \cup {key} |-> IF k = key THEN row ELSE table[k]]

\* DELETE of the rows with the given keys.
Delete(table, keys) == [k \in DOMAIN table \ keys |-> table[k]]

===============================================================================
