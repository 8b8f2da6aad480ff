---------------------------- MODULE OrderLifecycle -----------------------------
(*****************************************************************************)
(* What the order service promises: an order is created once per idempotency *)
(* key, every answer of the inventory and payment services takes effect in   *)
(* one atomic step and at most once, and each transition announces itself    *)
(* with the right events in the same step.                                   *)
(*                                                                           *)
(* The environment is open: any of the four answers may arrive for any order *)
(* in any order, also answers that contradict each other. OrderService (two  *)
(* statements per handler, no row lock) implements this module as long as    *)
(* one consumer thread reads the queue.                                      *)
(*****************************************************************************)
EXTENDS Events

CONSTANTS
    Orders,     \* order ids, what uuid4 returns
    Keys,       \* idempotency keys, stripped
    Requests,   \* bodies of POST /orders
    Inbound     \* the events bound to the queue order-service-events

ASSUME AnswersAssumption ==
    \A e \in Inbound : /\ e.type \in InventoryVerdicts \cup PaymentOutcomes
                       /\ e.order \in Orders

VARIABLES
    orders,      \* table orders: order id -> key, request, status
    processed,   \* table processed_events
    outbox       \* table outbox_events

vars == <<orders, processed, outbox>>

Init ==
    /\ orders = << >>
    /\ processed = {}
    /\ outbox = {}

--------------------------------------------------------------------------------
(* The state machine *)

TERMINAL_STATUSES == {"COMPLETED", "REJECTED", "PAYMENT_FAILED"}
Statuses == {"PENDING", "INVENTORY_RESERVED"} \cup TERMINAL_STATUSES

EVENT_TO_STATUS ==
    [type \in InventoryVerdicts \cup PaymentOutcomes |->
        CASE type = "inventory.reserved" -> "INVENTORY_RESERVED"
          [] type = "inventory.rejected" -> "REJECTED"
          [] type = "payment.succeeded"  -> "COMPLETED"
          [] type = "payment.failed"     -> "PAYMENT_FAILED"]

\* Mutant: an order has to pass through INVENTORY_RESERVED.
ALLOWED_TRANSITIONS_NoSkip ==
    [status \in Statuses |->
        CASE status = "PENDING"            -> {"INVENTORY_RESERVED", "REJECTED"}
          [] status = "INVENTORY_RESERVED" -> {"COMPLETED", "PAYMENT_FAILED"}
          [] OTHER                         -> {}]

ALLOWED_TRANSITIONS ==
    [status \in Statuses |->
        CASE status = "PENDING"            -> Statuses \ {"PENDING"}
          [] status = "INVENTORY_RESERVED" -> {"COMPLETED", "PAYMENT_FAILED"}
          [] OTHER                         -> {}]

\* Mutant: the transition table is not consulted.
next_status_Unchecked(current, type) == EVENT_TO_STATUS[type]

next_status(current, type) ==
    IF EVENT_TO_STATUS[type] \in ALLOWED_TRANSITIONS[current]
    THEN EVENT_TO_STATUS[type]
    ELSE current

--------------------------------------------------------------------------------

\* Mutant: orders.idempotency_key has no unique index, and nobody looks for it.
KeyTaken_Never(key) == FALSE

KeyTaken(key) == \E o \in DOMAIN orders : orders[o].key = key

\* The order row and its order.created are committed together.
CreateOrder(key, request, order) ==
    /\ order \notin DOMAIN orders
    /\ ~KeyTaken(key)
    /\ orders' = Put(orders, order, [key |-> key, request |-> request, status |-> "PENDING"])
    /\ outbox' = outbox \cup {NewEvent(outbox, "order.created", order, request)}
    /\ UNCHANGED processed

\* Mutant: a declined payment announces the receipt instead of the command.
Announced_Receipt(type) ==
    CASE type = "payment.succeeded"  -> {"inventory.commit", "order.completed"}
      [] type = "payment.failed"     -> {"inventory.released", "order.failed"}
      [] type = "inventory.rejected" -> {"order.failed"}
      [] type = "inventory.reserved" -> {}

\* The event types a transition caused by an event announces.
Announced(type) ==
    CASE type = "payment.succeeded"  -> {"inventory.commit", "order.completed"}
      [] type = "payment.failed"     -> {"inventory.release", "order.failed"}
      [] type = "inventory.rejected" -> {"order.failed"}
      [] type = "inventory.reserved" -> {}

\* What the handler of e writes if it found the order in status current.
WriteTransition(e, current) ==
    IF next_status(current, e.type) = current
    THEN UNCHANGED <<orders, outbox>>
    ELSE /\ orders' = Put(orders, e.order,
                          [orders[e.order] EXCEPT !.status = next_status(current, e.type)])
         /\ outbox' = outbox \cup {NewEvent(outbox, t, e.order, orders[e.order].request) :
                                      t \in Announced(e.type)}

HandleAnswer(e) ==
    /\ e.order \in DOMAIN orders
    /\ Id(e) \notin processed
    /\ WriteTransition(e, orders[e.order].status)
    /\ processed' = processed \cup {Id(e)}

Next ==
    \/ \E key \in Keys, request \in Requests, order \in Orders :
           CreateOrder(key, request, order)
    \/ \E e \in Inbound : HandleAnswer(e)

Spec == Init /\ [][Next]_vars

--------------------------------------------------------------------------------

TypeOK ==
    /\ IsTable(orders, Orders, [key : Keys, request : Requests, status : Statuses])
    /\ processed \subseteq {Id(e) : e \in Inbound}
    /\ \A r \in outbox :
           /\ r.type \in {"order.created"} \cup InventoryCommands \cup OrderOutcomes
           /\ r.order \in Orders

\* The types of the events the outbox holds for an order.
Announcements(o) == {r.type : r \in {x \in outbox : x.order = o}}

\* What an order in a given status has announced since it was created.
Due(status) ==
    CASE status = "COMPLETED"      -> {"inventory.commit", "order.completed"}
      [] status = "PAYMENT_FAILED" -> {"inventory.release", "order.failed"}
      [] status = "REJECTED"       -> {"order.failed"}
      [] OTHER                     -> {}

\* Status and outbox agree, for every interleaving of contradicting, repeated
\* and reordered answers: an order has announced exactly the events its status
\* calls for, each of them once. In particular no order is announced both
\* completed and failed, and none has its stock both committed and released.
AnnouncedMatchesStatus ==
    /\ \A o \in DOMAIN orders :
           Announcements(o) = {"order.created"} \cup Due(orders[o].status)
    /\ \A r \in outbox : r.order \in DOMAIN orders /\ r.n = 1

Monotonic ==
    \A o \in DOMAIN orders :
        /\ o \in DOMAIN orders'
        /\ orders'[o].key = orders[o].key /\ orders'[o].request = orders[o].request
        /\ orders[o].status \in TERMINAL_STATUSES => orders'[o].status = orders[o].status
        /\ orders'[o].status = "PENDING" => orders[o].status = "PENDING"

\* "State transitions are monotonic and terminal states do not move backward"
\* (docs/architecture.md): no step takes an order out of a terminal status or
\* back to PENDING, or changes what was ordered or under which key.
StatusIsMonotonic == [][Monotonic]_vars

================================================================================
