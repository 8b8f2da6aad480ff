--------------------------------- MODULE Saga ----------------------------------
(*****************************************************************************)
(* The choreographed checkout: the four services with their own databases,   *)
(* joined only by the events in their outboxes and the bindings of their     *)
(* queues. Each service is its atomic specification (OrderLifecycle,         *)
(* InventoryLedger, PaymentLedger, Notifications), and delivery is the       *)
(* DeliveryContract: an event in an outbox is handled by the queues bound to *)
(* it, each in its own time and in any order, or it is parked there for good.*)
(*                                                                           *)
(* The order service runs one consumer thread: with more, OrderService does  *)
(* not implement OrderLifecycle.                                             *)
(*****************************************************************************)
EXTENDS Events

CONSTANTS
    Orders, Requests,               \* as in OrderLifecycle; a request is a record
                                    \* of item, quantity, customer and amount
    Items, StockLevels,             \* as in InventoryLedger
    Customers, FailingCustomers,    \* as in PaymentLedger
    MaxResets,                      \* bound: calls of PUT /stock
    MaxParked                       \* bound: messages in dead-letter queues

ASSUME BoundsAssumption == MaxResets \in Nat /\ MaxParked \in Nat

ASSUME ServicesAssumption == StockLevels \subseteq Nat /\ FailingCustomers \subseteq Customers

ASSUME RequestsAssumption ==
    \A r \in Requests : /\ r.item \in Items /\ r.quantity \in Nat \ {0}
                        /\ r.customer \in Customers /\ r.amount \in Nat \ {0}

VARIABLES
    orders, orderProcessed, orderOutbox,                     \* database of the order service
    stock, reservations, stockProcessed, stockOutbox, unknown,   \* of the inventory service
    payments, paymentProcessed, paymentOutbox,               \* of the payment service
    notifications,                                           \* of the notification service
    parked,     \* the dead-letter queues: pairs of a queue and an event
    resets,     \* calls of PUT /stock so far
    dropped,    \* history: the orders whose reservation a reset has deleted
    early       \* history: the orders placed before the last reset of their item

orderVars == <<orders, orderProcessed, orderOutbox>>
stockVars == <<stock, reservations, stockProcessed, stockOutbox, unknown>>
paymentVars == <<payments, paymentProcessed, paymentOutbox>>
history == <<resets, dropped, early>>
vars == <<orderVars, stockVars, paymentVars, notifications, parked, history>>

--------------------------------------------------------------------------------
(* Queues *)

Queues == {"order", "inventory", "payment", "notification"}

\* Mutant: payment does not wait for the reservation.
Bindings_PayFirst ==
    [order        |-> InventoryVerdicts \cup PaymentOutcomes,
     inventory    |-> {"order.created"} \cup InventoryCommands,
     payment      |-> {"order.created", "inventory.reserved"},
     notification |-> OrderOutcomes]

\* Mutant: the compensation has no consumer.
Bindings_NoRelease ==
    [order        |-> InventoryVerdicts \cup PaymentOutcomes,
     inventory    |-> {"order.created", "inventory.commit"},
     payment      |-> {"inventory.reserved"},
     notification |-> OrderOutcomes]

\* Mutant: the order service does not hear of declined payments.
Bindings_NoDecline ==
    [order        |-> InventoryVerdicts \cup {"payment.succeeded"},
     inventory    |-> {"order.created"} \cup InventoryCommands,
     payment      |-> {"inventory.reserved"},
     notification |-> OrderOutcomes]

\* The routing keys each service binds its queue to.
Bindings ==
    [order        |-> InventoryVerdicts \cup PaymentOutcomes,
     inventory    |-> {"order.created"} \cup InventoryCommands,
     payment      |-> {"inventory.reserved"},
     notification |-> OrderOutcomes]

\* Every event a queue can be sent. No handler writes a second event of one type
\* for one order, so all have n = 1 (AnnouncedMatchesStatus, OneVerdictPerOrder
\* and OneOutcomePerPayment of the services).
Messages(queue) ==
    [type : Bindings[queue], order : Orders, n : {1}, payload : Requests]

\* The committed events that are bound to a queue.
Routed(queue) ==
    {e \in orderOutbox \cup stockOutbox \cup paymentOutbox : e.type \in Bindings[queue]}

\* The events of a queue of which no message has been parked.
Deliverable(queue) == {e \in Routed(queue) : <<queue, e>> \notin parked}

--------------------------------------------------------------------------------
(* Services *)

Order == INSTANCE OrderLifecycle
             WITH processed <- orderProcessed, outbox <- orderOutbox,
                  Keys <- Orders, Inbound <- Messages("order")

Inventory == INSTANCE InventoryLedger
                 WITH processed <- stockProcessed, outbox <- stockOutbox,
                      Inbound <- Messages("inventory")

Payment == INSTANCE PaymentLedger
               WITH processed <- paymentProcessed, outbox <- paymentOutbox,
                    Inbound <- Messages("payment")

Notification == INSTANCE Notifications

Init ==
    /\ Order!Init
    /\ Inventory!Init
    /\ Payment!Init
    /\ Notification!Init
    /\ parked = {}
    /\ resets = 0
    /\ dropped = {}
    /\ early = {}

\* Every checkout has a key of its own, here its order's id. What requests with
\* one key do to each other is the subject of OrderService.
PlaceOrder ==
    /\ \E request \in Requests, order \in Orders :
           Order!CreateOrder(order, request, order)
    /\ UNCHANGED <<stockVars, paymentVars, notifications, parked, history>>

\* The consumers handle what was parked too: a copy of the message may be left, or an
\* operator may replay the dead-letter queue.
OrderConsumes ==
    /\ \E e \in Routed("order") : Order!HandleAnswer(e)
    /\ UNCHANGED <<stockVars, paymentVars, notifications, parked, history>>

InventoryConsumes ==
    /\ \E e \in Routed("inventory") :
           \/ Inventory!FindNoItem(e)
           \/ Inventory!HandleOrderCreated(e)
           \/ Inventory!HandleSettlement(e)
    /\ UNCHANGED <<orderVars, paymentVars, notifications, parked, history>>

PaymentConsumes ==
    /\ \E e \in Routed("payment") : Payment!HandleReserved(e)
    /\ UNCHANGED <<orderVars, stockVars, notifications, parked, history>>

NotificationConsumes ==
    /\ \E e \in Routed("notification") : Notification!Notify(e)
    /\ UNCHANGED <<orderVars, stockVars, paymentVars, parked, history>>

\* PUT /stock/{item_id}, also while orders for the item are on their way.
ResetStock ==
    /\ resets < MaxResets
    /\ \E item \in Items, quantity \in StockLevels :
          /\ Inventory!SetStock(item, quantity)
          /\ early' = early \cup {o \in DOMAIN orders : orders[o].request.item = item}
    /\ dropped' = dropped \cup (DOMAIN reservations \ DOMAIN reservations')
    /\ resets' = resets + 1
    /\ UNCHANGED <<orderVars, paymentVars, notifications, parked>>

\* The retries of a message are used up, before or after it took effect.
Park(queue) ==
    /\ Cardinality(parked) < MaxParked
    /\ \E e \in Deliverable(queue) : parked' = parked \cup {<<queue, e>>}
    /\ UNCHANGED <<orderVars, stockVars, paymentVars, notifications, history>>

Consume ==
    \/ OrderConsumes
    \/ InventoryConsumes
    \/ PaymentConsumes
    \/ NotificationConsumes

Next ==
    \/ PlaceOrder
    \/ Consume
    \/ ResetStock
    \/ \E queue \in Queues : Park(queue)

\* Nothing is left to deliver, but for what was parked.
Quiescent ==
    /\ \A e \in Deliverable("order") : Id(e) \in orderProcessed
    /\ \A e \in Deliverable("inventory") : Id(e) \in stockProcessed
    /\ \A e \in Deliverable("payment") : Id(e) \in paymentProcessed
    /\ \A e \in Deliverable("notification") : Id(e) \in DOMAIN notifications

\* As long as an event waits in some queue, some consumer goes on. Queues are sent
\* finitely many events and handle each of them once, so every event is handled or
\* parked in the end, which is what DeliveryContract promises.
Fairness == WF_vars(~Quiescent /\ Consume)

Spec == Init /\ [][Next]_vars
FairSpec == Spec /\ Fairness

--------------------------------------------------------------------------------
(* Properties *)

Paid(o) == o \in DOMAIN payments /\ payments[o].status = "SUCCEEDED"
Declined(o) == o \in DOMAIN payments /\ payments[o].status = "FAILED"
Holds(o, statuses) == o \in DOMAIN reservations /\ reservations[o].status \in statuses

\* The notification kind a status of an order calls for.
KindDue(status) == IF status = "COMPLETED" THEN "ORDER_CONFIRMED" ELSE "ORDER_FAILED"

\* The four databases never contradict each other, at no point of a checkout and
\* whatever is late, reordered or parked: a completed order is paid for, a failed
\* one was declined, a rejected one is neither charged nor holds stock, stock is
\* sold only to completed orders and given back only by failed ones, and the
\* customer is told nothing else than the order's own outcome, and that once.
ServicesAgree ==
    \A o \in Orders :
        LET Is(status) == o \in DOMAIN orders /\ orders[o].status = status
        IN  /\ Is("COMPLETED") => Paid(o)
            /\ Is("PAYMENT_FAILED") => Declined(o)
            /\ Is("REJECTED") => o \notin DOMAIN payments \cup DOMAIN reservations
            /\ Holds(o, {"COMMITTED"}) => Is("COMPLETED")
            /\ Holds(o, {"RELEASED"}) => Is("PAYMENT_FAILED")
            /\ Cardinality(Notification!About(o)) <= 1
            /\ \A id \in Notification!About(o) :
                  /\ orders[o].status \in Order!TERMINAL_STATUSES
                  /\ notifications[id].kind = KindDue(orders[o].status)

\* The units of an order that is paid for are never given to somebody else: the
\* reservation stays held until it is committed, unless a reset of the item
\* dropped it.
PaidUnitsAreKept ==
    \A o \in Orders : Paid(o) => Holds(o, {"RESERVED", "COMMITTED"}) \/ o \in dropped

\* The units of an item that completed orders have bought since its last reset, one
\* pair per unit.
Bought(item) ==
    LET buyers == {o \in DOMAIN orders \ dropped : /\ orders[o].status = "COMPLETED"
                                                   /\ orders[o].request.item = item}
    IN  UNION {{o} \X (1..orders[o].request.quantity) : o \in buyers}

\* "Paid reservations become sold stock" (docs/failure-scenarios.md), as a client
\* of GET /stock can tell (scripts/contention_test.py waits for reserved = 0):
\* whenever no unit is reserved, the units sold are those of the completed orders,
\* whatever is still on its way or parked, and once every event has been handled,
\* no unit is left reserved.
StockAddsUp ==
    \A item \in DOMAIN stock :
        /\ stock[item].reserved = 0 => stock[item].sold = Cardinality(Bought(item))
        /\ Quiescent /\ parked = {} => stock[item].reserved = 0

\* The units of an item that declined orders have given back since its last reset.
Returned(item) == Inventory!Units(reservations, item, "RELEASED")

\* As many orders complete as there is stock (scripts/contention_test.py counts
\* them): an order placed after the last reset of its item is turned down only
\* if the units were not there, those aside that declined orders have returned.
NoNeedlessRejection ==
    \A o \in DOMAIN orders \ early :
        LET wanted == orders[o].request
        IN  orders[o].status = "REJECTED" /\ wanted.item \in DOMAIN stock =>
                stock[wanted.item].available - Cardinality(Returned(wanted.item)) < wanted.quantity

\* A checkout that is over: the order has its outcome, its stock is settled
\* accordingly, and the customer has been told.
Finished(o) ==
    /\ o \in DOMAIN orders
    /\ orders[o].status \in Order!TERMINAL_STATUSES
    /\ Notification!About(o) # {}
    /\ orders[o].status = "COMPLETED" => Holds(o, {"COMMITTED"}) \/ o \in dropped
    /\ orders[o].status = "PAYMENT_FAILED" => Holds(o, {"RELEASED"}) \/ o \in dropped

\* The ids of the events a service has handled.
Handled(queue) ==
    CASE queue = "order"        -> orderProcessed
      [] queue = "inventory"    -> stockProcessed
      [] queue = "payment"      -> paymentProcessed
      [] queue = "notification" -> DOMAIN notifications

\* Some queue has not handled an event about the order, be it that the message is on
\* its way or that it was parked.
Awaited(o) ==
    \E queue \in Queues : \E e \in Routed(queue) : e.order = o /\ Id(e) \notin Handled(queue)

\* A checkout that is not over waits for an event: it never gets lost between two
\* services, by a handler that records an event and writes no answer, or by an answer
\* that comes out of turn and is recorded without effect.
NothingIsLost == \A o \in DOMAIN orders : Finished(o) \/ Awaited(o)

\* A checkout that is over stays as it is on all four services: no late or repeated
\* event changes its outcome, settles its units again or tells the customer anything
\* else. Only a reset of the item drops its reservation.
StayFinished ==
    \A o \in DOMAIN orders : Finished(o) =>
        /\ Finished(o)'
        /\ orders'[o].status = orders[o].status
        /\ Notification!About(o)' = Notification!About(o)

FinishedForGood == [][StayFinished]_vars

\* Every order that was accepted comes to its end on all four services, unless an
\* event of it was parked.
CheckoutsFinish ==
    \A o \in Orders :
        o \in DOMAIN orders ~> Finished(o) \/ \E p \in parked : p[2].order = o

================================================================================
