------------------------------- MODULE SagaProofs -------------------------------
(*****************************************************************************)
(* Proofs about Saga, for any orders, requests, items, stock levels and      *)
(* customers, and any number of resets and parked messages.                  *)
(*                                                                           *)
(* The databases of the order and inventory services take steps of           *)
(* OrderLifecycle and InventoryLedger only, so what is proved of these two   *)
(* modules is cited here through the instances Lifecycle and Ledger.         *)
(*****************************************************************************)
EXTENDS Saga, FiniteSetTheorems, TLAPS

Lifecycle == INSTANCE OrderLifecycleProofs
                 WITH processed <- orderProcessed, outbox <- orderOutbox,
                      Keys <- Orders, Inbound <- Messages("order")

Ledger == INSTANCE InventoryLedgerProofs
              WITH processed <- stockProcessed, outbox <- stockOutbox,
                   Inbound <- Messages("inventory")

--------------------------------------------------------------------------------
(* The invariant *)

\* The one event of a type that is ever written for an order.
Event(type, o) == [type |-> type, order |-> o, n |-> 1, payload |-> orders[o].request]

\* An outbox holds an event of a type for an order.
Has(outbox, type, o) == \E e \in outbox : e.type = type /\ e.order = o

\* The verdicts among the events of the inventory service.
Verdicts == {e \in stockOutbox : e.type \in InventoryVerdicts}

\* What every service writes is about an order that exists and carries its request.
EventsInv ==
    /\ \A e \in orderOutbox \cup Verdicts \cup paymentOutbox :
          e.order \in DOMAIN orders /\ e = Event(e.type, e.order)
    /\ \A e \in paymentOutbox : e.type \in PaymentOutcomes

\* The inventory service gives its verdict once, when it handles order.created,
\* and the orders it has reserved for are those with a reservation or a dropped one.
VerdictsInv ==
    /\ \A e \in Verdicts : <<"order.created", e.order, 1>> \in stockProcessed
    /\ \A e, f \in Verdicts : e.order = f.order => e.type = f.type
    /\ \A o : o \in DOMAIN reservations \cup dropped <=> Has(stockOutbox, "inventory.reserved", o)
    /\ \A o \in DOMAIN reservations :
          /\ o \notin dropped
          /\ reservations[o].item = orders[o].request.item
          /\ reservations[o].quantity = orders[o].request.quantity

\* Payments are of orders that were reserved for, and each is announced.
PaymentsInv ==
    /\ \A o \in DOMAIN payments :
          /\ payments[o].status \in {"SUCCEEDED", "FAILED"}
          /\ Has(stockOutbox, "inventory.reserved", o)
          /\ Has(paymentOutbox, Payment!OutcomeOf(payments[o].status), o)
    /\ \A e \in paymentOutbox : /\ e.order \in DOMAIN payments
                                /\ e.type = Payment!OutcomeOf(payments[e.order].status)
    /\ \A o : <<"inventory.reserved", o, 1>> \in paymentProcessed => o \in DOMAIN payments

\* A terminal status has its cause in the database of another service.
StatusInv ==
    /\ \A o \in DOMAIN orders :
          /\ orders[o].status = "REJECTED" => Has(stockOutbox, "inventory.rejected", o)
          /\ orders[o].status = "COMPLETED" => Paid(o)
          /\ orders[o].status = "PAYMENT_FAILED" => Declined(o)
    /\ \A o : \A type \in PaymentOutcomes :
          <<type, o, 1>> \in orderProcessed =>
             o \in DOMAIN orders /\ orders[o].status \in {"COMPLETED", "PAYMENT_FAILED"}

\* A settled reservation is that of an order with the status that calls for it,
\* and a command that was handled leaves no reservation held.
SettledInv ==
    /\ \A o \in DOMAIN reservations :
          /\ reservations[o].status = "COMMITTED" =>
                o \in DOMAIN orders /\ orders[o].status = "COMPLETED"
          /\ reservations[o].status = "RELEASED" =>
                o \in DOMAIN orders /\ orders[o].status = "PAYMENT_FAILED"
    /\ \A o : \A type \in InventoryCommands :
          <<type, o, 1>> \in stockProcessed =>
             /\ <<"order.created", o, 1>> \in stockProcessed
             /\ ~Holds(o, {"RESERVED"})

\* Every notification tells of an outcome event.
NotificationsInv ==
    \A id \in DOMAIN notifications :
        \E e \in orderOutbox :
            /\ e.type \in OrderOutcomes
            /\ id = Id(e)
            /\ notifications[id] = [order |-> e.order, kind |-> Notification!Kind(e.type)]

\* The units that are on the shelf of an item without having been given back.
Unreturned(item) == stock[item].available - Cardinality(Returned(item))

\* A rejected order that was placed after the last reset of its item still does not
\* find its units; one whose item had no row does not know the item's stock.
RejectionInv ==
    /\ \A e \in Verdicts :
          LET wanted == orders[e.order].request
          IN  e.type = "inventory.rejected" /\ e.order \notin early
                 /\ wanted.item \in DOMAIN stock => Unreturned(wanted.item) < wanted.quantity
    /\ \A o : <<"order.created", o, 1>> \in unknown =>
          /\ o \in DOMAIN orders
          /\ orders[o].request.item \in DOMAIN stock => o \in early

SagaInv ==
    /\ Lifecycle!TypeOK /\ Lifecycle!AnnouncedMatchesStatus
    /\ Ledger!LedgerInv
    /\ EventsInv
    /\ VerdictsInv
    /\ PaymentsInv
    /\ StatusInv
    /\ SettledInv
    /\ NotificationsInv
    /\ RejectionInv

--------------------------------------------------------------------------------
(* The instances *)

\* The queues carry what the services assume of them.
LEMMA AnswersAreInbound == Lifecycle!AnswersAssumption
  BY DEF Lifecycle!AnswersAssumption, Messages, Bindings,
         InventoryVerdicts, PaymentOutcomes,
         Lifecycle!InventoryVerdicts, Lifecycle!PaymentOutcomes

\* Stock levels are natural numbers.
LEMMA StockIsNatural == Ledger!StockLevelsAssumption
  BY ServicesAssumption DEF ServicesAssumption, Ledger!StockLevelsAssumption

\* What is sent to the inventory service asks for a stockable item.
LEMMA CommandsAreInbound == Ledger!InboundAssumption
  BY RequestsAssumption
  DEF RequestsAssumption, Ledger!InboundAssumption, Messages, Bindings,
      InventoryCommands, Ledger!InventoryCommands

\* Every instance has its own copy of the helpers, and they are the same.
LEMMA SameCardinality ==
    /\ \A S : Order!Cardinality(S) = Cardinality(S)
    /\ \A S : Lifecycle!Cardinality(S) = Cardinality(S)
    /\ \A S : Inventory!Cardinality(S) = Cardinality(S)
    /\ \A S : Ledger!Cardinality(S) = Cardinality(S)
    /\ \A S : Payment!Cardinality(S) = Cardinality(S)
  BY DEF Cardinality, Order!Cardinality, Lifecycle!Cardinality, Inventory!Cardinality,
         Ledger!Cardinality, Payment!Cardinality

\* INSERT and UPDATE are the same in every instance.
LEMMA SamePut ==
    /\ \A table, key, row : Order!Put(table, key, row) = Put(table, key, row)
    /\ \A table, key, row : Lifecycle!Put(table, key, row) = Put(table, key, row)
    /\ \A table, key, row : Inventory!Put(table, key, row) = Put(table, key, row)
    /\ \A table, key, row : Ledger!Put(table, key, row) = Put(table, key, row)
    /\ \A table, key, row : Payment!Put(table, key, row) = Put(table, key, row)
  BY DEF Put, Order!Put, Lifecycle!Put, Inventory!Put, Ledger!Put, Payment!Put

\* So is the writing of a new event.
LEMMA SameNewEvent ==
    ASSUME NEW rows, NEW type, NEW order, NEW payload
    PROVE
        /\ Order!NewEvent(rows, type, order, payload) = NewEvent(rows, type, order, payload)
        /\ Lifecycle!NewEvent(rows, type, order, payload) = NewEvent(rows, type, order, payload)
        /\ Inventory!NewEvent(rows, type, order, payload) = NewEvent(rows, type, order, payload)
        /\ Ledger!NewEvent(rows, type, order, payload) = NewEvent(rows, type, order, payload)
        /\ Payment!NewEvent(rows, type, order, payload) = NewEvent(rows, type, order, payload)
  BY SameCardinality DEF NewEvent, Order!NewEvent, Lifecycle!NewEvent, Inventory!NewEvent,
                            Ledger!NewEvent, Payment!NewEvent

\* The order service's steps are those of the lifecycle the lemmas are about.
LEMMA OrderSteps ==
    /\ Order!Init <=> Lifecycle!Init
    /\ \A key, request, order :
          Order!CreateOrder(key, request, order) <=> Lifecycle!CreateOrder(key, request, order)
    /\ \A e : Order!HandleAnswer(e) <=> Lifecycle!HandleAnswer(e)
<1>1. Order!Init <=> Lifecycle!Init
  BY DEF Order!Init, Lifecycle!Init
<1>2. ASSUME NEW key, NEW request, NEW order
      PROVE  Order!CreateOrder(key, request, order) <=> Lifecycle!CreateOrder(key, request, order)
  BY SamePut, SameNewEvent DEF Order!CreateOrder, Order!KeyTaken,
                               Lifecycle!CreateOrder, Lifecycle!KeyTaken
<1>3. ASSUME NEW e
      PROVE  Order!HandleAnswer(e) <=> Lifecycle!HandleAnswer(e)
  <2>1. \A current, type : Order!next_status(current, type) = Lifecycle!next_status(current, type)
    BY DEF Order!next_status, Order!EVENT_TO_STATUS, Order!ALLOWED_TRANSITIONS,
           Order!Statuses, Order!TERMINAL_STATUSES,
           Order!InventoryVerdicts, Order!PaymentOutcomes,
           Lifecycle!next_status, Lifecycle!EVENT_TO_STATUS, Lifecycle!ALLOWED_TRANSITIONS,
           Lifecycle!Statuses, Lifecycle!TERMINAL_STATUSES,
           Lifecycle!InventoryVerdicts, Lifecycle!PaymentOutcomes
  <2>2. \A type : Order!Announced(type) = Lifecycle!Announced(type)
    BY DEF Order!Announced, Lifecycle!Announced
  <2>3. Order!Id(e) = Lifecycle!Id(e)
    BY DEF Order!Id, Lifecycle!Id
  <2> QED BY <2>1, <2>2, <2>3, SamePut, SameNewEvent
       DEF Order!HandleAnswer, Order!WriteTransition,
           Lifecycle!HandleAnswer, Lifecycle!WriteTransition
<1> QED BY <1>1, <1>2, <1>3

\* The inventory service's steps are those of the ledger the lemmas are about.
LEMMA InventorySteps ==
    /\ Inventory!Init <=> Ledger!Init
    /\ \A item, quantity : Inventory!SetStock(item, quantity) <=> Ledger!SetStock(item, quantity)
    /\ \A e : /\ Inventory!FindNoItem(e) <=> Ledger!FindNoItem(e)
              /\ Inventory!HandleOrderCreated(e) <=> Ledger!HandleOrderCreated(e)
              /\ Inventory!HandleSettlement(e) <=> Ledger!HandleSettlement(e)
<1>1. Inventory!Init <=> Ledger!Init
  BY DEF Inventory!Init, Ledger!Init
<1>2. ASSUME NEW item, NEW quantity
      PROVE  Inventory!SetStock(item, quantity) <=> Ledger!SetStock(item, quantity)
  BY DEF Inventory!SetStock, Inventory!ReservationsFor, Inventory!Put, Inventory!Delete,
         Ledger!SetStock, Ledger!ReservationsFor, Ledger!Put, Ledger!Delete
<1>3. ASSUME NEW e
      PROVE  Inventory!FindNoItem(e) <=> Ledger!FindNoItem(e)
  BY DEF Inventory!FindNoItem, Inventory!Id, Ledger!FindNoItem, Ledger!Id
<1>4. ASSUME NEW e
      PROVE  Inventory!HandleOrderCreated(e) <=> Ledger!HandleOrderCreated(e)
  <2>1. Inventory!AlreadyReserved(e) <=> Ledger!AlreadyReserved(e)
    BY DEF Inventory!AlreadyReserved, Ledger!AlreadyReserved
  <2>2. Inventory!InStock(e.payload) <=> Ledger!InStock(e.payload)
    BY DEF Inventory!InStock, Inventory!CanReserve, Ledger!InStock, Ledger!CanReserve
  <2>3. Inventory!Reserve(e) <=> Ledger!Reserve(e)
    BY <2>2, SamePut, SameNewEvent
    DEF Inventory!Reserve, Inventory!Hold, Inventory!Emit,
        Ledger!Reserve, Ledger!Hold, Ledger!Emit
  <2>4. Inventory!Reject(e) <=> Ledger!Reject(e)
    BY <2>2, SameNewEvent
    DEF Inventory!Reject, Inventory!Id, Inventory!Emit,
        Ledger!Reject, Ledger!Id, Ledger!Emit
  <2> QED BY <2>1, <2>3, <2>4 DEF Inventory!HandleOrderCreated, Inventory!Id,
                                  Ledger!HandleOrderCreated, Ledger!Id
<1>5. ASSUME NEW e
      PROVE  Inventory!HandleSettlement(e) <=> Ledger!HandleSettlement(e)
  <2>1. Inventory!Reserved(e.order) <=> Ledger!Reserved(e.order)
    BY DEF Inventory!Reserved, Ledger!Reserved
  <2>2. \A row, r : Inventory!Settle(row, r, e.type) = Ledger!Settle(row, r, e.type)
    BY DEF Inventory!Settle, Ledger!Settle
  <2>3. Inventory!SettledStatus(e.type) = Ledger!SettledStatus(e.type)
    BY DEF Inventory!SettledStatus, Ledger!SettledStatus
  <2>4. Inventory!SettleReservation(e) <=> Ledger!SettleReservation(e)
    BY <2>1, <2>2, <2>3, SamePut, SameNewEvent
    DEF Inventory!SettleReservation, Inventory!Emit, Ledger!SettleReservation, Ledger!Emit
  <2> QED BY <2>1, <2>4
       DEF Inventory!HandleSettlement, Inventory!Id, Inventory!InventoryCommands,
           Ledger!HandleSettlement, Ledger!Id, Ledger!InventoryCommands
<1> QED BY <1>1, <1>2, <1>3, <1>4, <1>5

--------------------------------------------------------------------------------
(* What the invariant says of the outboxes and the queues *)

\* The orders and the events about them have the types of the code, and an order
\* has announced what its status calls for and nothing else.
LEMMA OrderFacts ==
    ASSUME Lifecycle!TypeOK, Lifecycle!AnnouncedMatchesStatus
    PROVE  /\ \A o \in DOMAIN orders :
                 /\ o \in Orders
                 /\ orders[o] \in [key : Orders, request : Requests, status : Lifecycle!Statuses]
           /\ \A e \in orderOutbox :
                 /\ e.type \in {"order.created"} \cup InventoryCommands \cup OrderOutcomes
                 /\ e.order \in DOMAIN orders
                 /\ e.n = 1
                 /\ e.type \in {"order.created"} \cup Lifecycle!Due(orders[e.order].status)
           /\ \A o \in DOMAIN orders :
                 \A type \in {"order.created"} \cup Lifecycle!Due(orders[o].status) :
                    Has(orderOutbox, type, o)
<1>1. \A o \in DOMAIN orders :
         /\ o \in Orders
         /\ orders[o] \in [key : Orders, request : Requests, status : Lifecycle!Statuses]
  BY DEF Lifecycle!TypeOK, Lifecycle!IsTable
<1>2. \A e \in orderOutbox :
         /\ e.type \in {"order.created"} \cup InventoryCommands \cup OrderOutcomes
         /\ e.order \in DOMAIN orders
         /\ e.n = 1
  BY DEF Lifecycle!TypeOK, Lifecycle!AnnouncedMatchesStatus, InventoryCommands, OrderOutcomes,
         Lifecycle!InventoryCommands, Lifecycle!OrderOutcomes
<1>3. ASSUME NEW o \in DOMAIN orders
      PROVE  {r.type : r \in {x \in orderOutbox : x.order = o}}
               = {"order.created"} \cup Lifecycle!Due(orders[o].status)
  BY DEF Lifecycle!AnnouncedMatchesStatus, Lifecycle!Announcements
<1>4. \A e \in orderOutbox :
         e.type \in {"order.created"} \cup Lifecycle!Due(orders[e.order].status)
  BY <1>2, <1>3
<1>5. \A o \in DOMAIN orders :
         \A type \in {"order.created"} \cup Lifecycle!Due(orders[o].status) :
            Has(orderOutbox, type, o)
  BY <1>3 DEF Has
<1> QED BY <1>1, <1>2, <1>4, <1>5

\* The inventory service writes verdicts and receipts only, on known rows.
LEMMA StockFacts ==
    ASSUME Ledger!LedgerInv
    PROVE  /\ \A e \in stockOutbox : e.type \in InventoryVerdicts \cup InventoryReceipts
           /\ \A o \in DOMAIN reservations :
                 /\ o \in Orders
                 /\ reservations[o].item \in Items \cap DOMAIN stock
                 /\ reservations[o].quantity \in Nat \ {0}
                 /\ reservations[o].status \in {"RESERVED", "RELEASED", "COMMITTED"}
           /\ \A i \in DOMAIN stock :
                 /\ i \in Items
                 /\ stock[i].available \in Nat /\ stock[i].reserved \in Int /\ stock[i].sold \in Int
                 /\ stock[i].reserved = Cardinality(Ledger!Units(reservations, i, "RESERVED"))
                 /\ stock[i].sold = Cardinality(Ledger!Units(reservations, i, "COMMITTED"))
<1>1. Ledger!TypeOK /\ Ledger!ReservedItemsAreStocked
  BY DEF Ledger!LedgerInv
<1>2. \A e \in stockOutbox : e.type \in InventoryVerdicts \cup InventoryReceipts
  BY <1>1 DEF Ledger!TypeOK, InventoryVerdicts, InventoryReceipts,
              Ledger!InventoryVerdicts, Ledger!InventoryReceipts
<1>3. \A o \in DOMAIN reservations :
         /\ o \in Orders
         /\ reservations[o].item \in Items \cap DOMAIN stock
         /\ reservations[o].quantity \in Nat \ {0}
         /\ reservations[o].status \in {"RESERVED", "RELEASED", "COMMITTED"}
  BY <1>1 DEF Ledger!TypeOK, Ledger!IsTable, Ledger!ReservationRows, Ledger!Statuses,
              Ledger!ReservedItemsAreStocked
<1>4. \A i \in DOMAIN stock :
         i \in Items /\ stock[i].available \in Nat /\ stock[i].reserved \in Int /\ stock[i].sold \in Int
  BY <1>1 DEF Ledger!TypeOK, Ledger!IsTable, Ledger!StockRows, Ledger!LedgerInv
<1>5. \A i \in DOMAIN stock :
         /\ stock[i].reserved = Cardinality(Ledger!Units(reservations, i, "RESERVED"))
         /\ stock[i].sold = Cardinality(Ledger!Units(reservations, i, "COMMITTED"))
  BY SameCardinality DEF Ledger!LedgerInv, Ledger!CountersMatchReservations
<1> QED BY <1>2, <1>3, <1>4, <1>5

\* Every event that is bound to a queue is the one event of its type for its order,
\* and comes from the outbox that its queue is meant for.
LEMMA Deliveries ==
    ASSUME SagaInv
    PROVE  /\ \A queue \in Queues : \A e \in Routed(queue) :
                 /\ e \in Messages(queue)
                 /\ e.order \in DOMAIN orders
                 /\ e = Event(e.type, e.order)
           /\ \A e \in Routed("order") :
                 \/ e \in Verdicts
                 \/ e \in paymentOutbox /\ e.type \in PaymentOutcomes
           /\ \A e \in Routed("inventory") :
                 /\ e \in orderOutbox
                 /\ e.type \in {"order.created"} \cup InventoryCommands
           /\ \A e \in Routed("payment") : e \in Verdicts /\ e.type = "inventory.reserved"
           /\ \A e \in Routed("notification") : e \in orderOutbox /\ e.type \in OrderOutcomes
<1> USE DEF InventoryVerdicts, PaymentOutcomes, InventoryCommands, OrderOutcomes, InventoryReceipts
<1>1. /\ \A e \in orderOutbox :
             e.type \in {"order.created"} \cup InventoryCommands \cup OrderOutcomes
      /\ \A e \in stockOutbox : e.type \in InventoryVerdicts \cup InventoryReceipts
      /\ \A e \in paymentOutbox : e.type \in PaymentOutcomes
  BY OrderFacts, StockFacts DEF SagaInv, EventsInv
<1>2. /\ \A e \in Routed("order") :
             \/ e \in Verdicts
             \/ e \in paymentOutbox /\ e.type \in PaymentOutcomes
      /\ \A e \in Routed("inventory") :
             e \in orderOutbox /\ e.type \in {"order.created"} \cup InventoryCommands
      /\ \A e \in Routed("payment") : e \in Verdicts /\ e.type = "inventory.reserved"
      /\ \A e \in Routed("notification") : e \in orderOutbox /\ e.type \in OrderOutcomes
  BY <1>1 DEF Routed, Bindings, Verdicts
<1>3. ASSUME NEW queue \in Queues, NEW e \in Routed(queue)
      PROVE  /\ e \in Messages(queue)
             /\ e.order \in DOMAIN orders
             /\ e = Event(e.type, e.order)
  <2>1. e \in orderOutbox \cup Verdicts \cup paymentOutbox
    BY <1>2 DEF Queues
  <2>2. e.order \in DOMAIN orders /\ e = Event(e.type, e.order)
    BY <2>1 DEF SagaInv, EventsInv
  <2>3. e.order \in Orders /\ orders[e.order].request \in Requests
    BY <2>2, OrderFacts DEF SagaInv
  <2>4. e.type \in Bindings[queue]
    BY DEF Routed
  <2> QED BY <2>2, <2>3, <2>4 DEF Messages, Event
<1> QED BY <1>2, <1>3

--------------------------------------------------------------------------------
(* What the steps of the services do *)

\* Events of a type are numbered per order, from 1.
LEMMA FirstNumber ==
    ASSUME NEW rows, NEW type, NEW o, NEW payload, ~Has(rows, type, o)
    PROVE  NewEvent(rows, type, o, payload).n = 1
<1>1. {r \in rows : r.type = type /\ r.order = o} = {}
  BY DEF Has
<1> QED BY <1>1, FS_EmptySet DEF NewEvent

\* The first event of a type for an order is the one Event names.
LEMMA FirstEvent ==
    ASSUME NEW rows, NEW type, NEW o, ~Has(rows, type, o)
    PROVE  NewEvent(rows, type, o, orders[o].request) = Event(type, o)
<1>1. NewEvent(rows, type, o, orders[o].request).n = 1
  BY FirstNumber
<1> QED BY <1>1 DEF NewEvent, Event

\* A new order is PENDING, and announces its order.created.
LEMMA PlaceEffect ==
    ASSUME SagaInv, NEW request \in Requests, NEW order \in Orders,
           Order!CreateOrder(order, request, order)
    PROVE  /\ order \notin DOMAIN orders
           /\ DOMAIN orders' = DOMAIN orders \cup {order}
           /\ orders'[order].request = request
           /\ orders'[order].status = "PENDING"
           /\ \A o \in DOMAIN orders : orders'[o] = orders[o]
           /\ orderOutbox' = orderOutbox \cup {Event("order.created", order)'}
           /\ orderProcessed' = orderProcessed
<1> DEFINE created == NewEvent(orderOutbox, "order.created", order, request)
<1>1. /\ order \notin DOMAIN orders
      /\ orders' = Put(orders, order,
                       [key |-> order, request |-> request, status |-> "PENDING"])
      /\ orderOutbox' = orderOutbox \cup {created}
      /\ orderProcessed' = orderProcessed
  BY SamePut, SameNewEvent DEF Order!CreateOrder
<1>2. /\ DOMAIN orders' = DOMAIN orders \cup {order}
      /\ orders'[order].request = request
      /\ orders'[order].status = "PENDING"
      /\ \A o \in DOMAIN orders : orders'[o] = orders[o]
  BY <1>1 DEF Put
<1>3. created.n = 1
  BY <1>1, OrderFacts, FirstNumber DEF SagaInv, Has
<1>4. created = [type |-> "order.created", order |-> order, n |-> 1, payload |-> request]
  BY <1>3 DEF NewEvent
<1>5. created = Event("order.created", order)'
  BY <1>2, <1>4 DEF Event
<1> QED BY <1>1, <1>2, <1>5

\* The status an answer asks for.
StatusFor(type) ==
    CASE type = "inventory.reserved" -> "INVENTORY_RESERVED"
      [] type = "inventory.rejected" -> "REJECTED"
      [] type = "payment.succeeded"  -> "COMPLETED"
      [] type = "payment.failed"     -> "PAYMENT_FAILED"

\* Where an answer leads from a status: a terminal status stays, a payment outcome
\* always ends a checkout that is not over, and the first answer always counts.
LEMMA StatusAfter ==
    ASSUME NEW current \in Lifecycle!Statuses, NEW type \in InventoryVerdicts \cup PaymentOutcomes
    PROVE  LET next == Lifecycle!next_status(current, type)
           IN  /\ next \in {current, StatusFor(type)}
               /\ current \in {"COMPLETED", "REJECTED", "PAYMENT_FAILED"} => next = current
               /\ type \in PaymentOutcomes /\ current \in {"PENDING", "INVENTORY_RESERVED"} =>
                     next = StatusFor(type)
               /\ current = "PENDING" => next = StatusFor(type)
<1>1. Lifecycle!EVENT_TO_STATUS[type] = StatusFor(type)
  BY DEF Lifecycle!EVENT_TO_STATUS, StatusFor, InventoryVerdicts, PaymentOutcomes,
         Lifecycle!InventoryVerdicts, Lifecycle!PaymentOutcomes
<1>2. CASE current \in {"COMPLETED", "REJECTED", "PAYMENT_FAILED"}
  <2>1. Lifecycle!ALLOWED_TRANSITIONS[current] = {}
    BY <1>2 DEF Lifecycle!ALLOWED_TRANSITIONS, Lifecycle!Statuses, Lifecycle!TERMINAL_STATUSES
  <2> QED BY <1>2, <2>1 DEF Lifecycle!next_status
<1>3. CASE current \in {"PENDING", "INVENTORY_RESERVED"}
  <2>1. {"COMPLETED", "PAYMENT_FAILED"} \subseteq Lifecycle!ALLOWED_TRANSITIONS[current]
    BY <1>3 DEF Lifecycle!ALLOWED_TRANSITIONS, Lifecycle!Statuses, Lifecycle!TERMINAL_STATUSES
  <2>2. type \in PaymentOutcomes => StatusFor(type) \in {"COMPLETED", "PAYMENT_FAILED"}
    BY DEF StatusFor, PaymentOutcomes
  <2>3. current = "PENDING" => StatusFor(type) \in Lifecycle!ALLOWED_TRANSITIONS[current]
    <3>1. StatusFor(type) \in {"INVENTORY_RESERVED", "REJECTED", "COMPLETED", "PAYMENT_FAILED"}
      BY DEF StatusFor, InventoryVerdicts, PaymentOutcomes
    <3> QED BY <3>1 DEF Lifecycle!ALLOWED_TRANSITIONS, Lifecycle!Statuses,
                        Lifecycle!TERMINAL_STATUSES
  <2> QED BY <1>1, <1>3, <2>1, <2>2, <2>3 DEF Lifecycle!next_status
<1> QED BY <1>2, <1>3 DEF Lifecycle!Statuses, Lifecycle!TERMINAL_STATUSES

\* An answer moves the status of its order to the one it asks for, or leaves it, and
\* what it announces are first events about that order.
LEMMA AnswerEffect ==
    ASSUME SagaInv, NEW e \in Routed("order"), Order!HandleAnswer(e)
    PROVE  /\ e.order \in DOMAIN orders
           /\ e.type \in InventoryVerdicts \cup PaymentOutcomes
           /\ DOMAIN orders' = DOMAIN orders
           /\ \A o \in DOMAIN orders : o # e.order => orders'[o] = orders[o]
           /\ \A o \in DOMAIN orders : orders'[o].request = orders[o].request
           /\ orders'[e.order].status \in {orders[e.order].status, StatusFor(e.type)}
           /\ orders[e.order].status \in {"COMPLETED", "REJECTED", "PAYMENT_FAILED"} =>
                 orders'[e.order].status = orders[e.order].status
           /\ e.type \in PaymentOutcomes
                 /\ orders[e.order].status \in {"PENDING", "INVENTORY_RESERVED"} =>
                    orders'[e.order].status = StatusFor(e.type)
           /\ orders[e.order].status = "PENDING" =>
                 orders'[e.order].status = StatusFor(e.type)
           /\ orderOutbox \subseteq orderOutbox'
           /\ \A f \in orderOutbox' \ orderOutbox :
                 /\ f.order = e.order /\ f = Event(f.type, f.order)
                 /\ f.type \in Lifecycle!Announced(e.type)
           /\ orderProcessed' = orderProcessed \cup {Id(e)}
<1> DEFINE o == e.order
           current == orders[o].status
           next == Lifecycle!next_status(current, e.type)
<1>1. /\ e \in Messages("order") /\ o \in DOMAIN orders
      /\ e.type \in InventoryVerdicts \cup PaymentOutcomes
  BY Deliveries DEF Queues, Messages, Bindings
<1>2. /\ orders[o] \in [key : Orders, request : Requests, status : Lifecycle!Statuses]
      /\ current \in Lifecycle!Statuses
  BY <1>1, OrderFacts DEF SagaInv
<1>3. /\ next \in {current, StatusFor(e.type)}
      /\ current \in {"COMPLETED", "REJECTED", "PAYMENT_FAILED"} => next = current
      /\ e.type \in PaymentOutcomes /\ current \in {"PENDING", "INVENTORY_RESERVED"} =>
            next = StatusFor(e.type)
      /\ current = "PENDING" => next = StatusFor(e.type)
  BY <1>1, <1>2, StatusAfter
<1>4. /\ Lifecycle!WriteTransition(e, current)
      /\ orderProcessed' = orderProcessed \cup {Id(e)}
  BY OrderSteps DEF Lifecycle!HandleAnswer, Id, Lifecycle!Id
<1>5. CASE next = current
  <2>1. UNCHANGED <<orders, orderOutbox>>
    BY <1>4, <1>5 DEF Lifecycle!WriteTransition
  <2> QED BY <1>1, <1>3, <1>4, <1>5, <2>1
<1>6. CASE next # current
  <2>1. /\ DOMAIN orders' = DOMAIN orders
        /\ \A p \in DOMAIN orders : p # o => orders'[p] = orders[p]
        /\ orders'[o].request = orders[o].request
        /\ orders'[o].status = next
    <3> HIDE DEF next
    <3>1. orders' = Put(orders, o, [orders[o] EXCEPT !.status = next])
      BY <1>4, <1>6, SamePut DEF Lifecycle!WriteTransition, next
    <3> QED BY <1>1, <1>2, <3>1 DEF Put
  <2>2. orderOutbox' = orderOutbox \cup {NewEvent(orderOutbox, t, o, orders[o].request) :
                                           t \in Lifecycle!Announced(e.type)}
    BY <1>4, <1>6, SameNewEvent DEF Lifecycle!WriteTransition
  <2>3. ASSUME NEW t \in Lifecycle!Announced(e.type)
        PROVE  NewEvent(orderOutbox, t, o, orders[o].request) = Event(t, o)
    <3>1. Lifecycle!Due(current) = {}
      BY <1>2, <1>3, <1>6
      DEF Lifecycle!Due, Lifecycle!Statuses, Lifecycle!TERMINAL_STATUSES
    <3>2. t # "order.created"
      BY <1>1 DEF Lifecycle!Announced, InventoryVerdicts, PaymentOutcomes
    <3>3. ~Has(orderOutbox, t, o)
      BY <3>1, <3>2, OrderFacts DEF SagaInv, Has
    <3> QED BY <3>3, FirstEvent
  <2>4. \A t : Event(t, o).order = o /\ Event(t, o).type = t
    BY DEF Event
  <2>5. \A f \in orderOutbox' \ orderOutbox :
           f.order = o /\ f = Event(f.type, f.order) /\ f.type \in Lifecycle!Announced(e.type)
    BY <2>2, <2>3, <2>4
  <2> QED BY <1>1, <1>3, <1>4, <2>1, <2>2, <2>5
<1> QED BY <1>5, <1>6

\* order.created is answered once: it holds the units and announces the
\* reservation, or it announces the rejection.
LEMMA VerdictEffect ==
    ASSUME SagaInv, NEW e \in Routed("inventory"), Inventory!HandleOrderCreated(e)
    PROVE  LET o == e.order
               wanted == orders[o].request
           IN  /\ o \in DOMAIN orders
               /\ e = Event("order.created", o)
               /\ Id(e) = <<"order.created", o, 1>>
               /\ Id(e) \notin stockProcessed
               /\ \A x \in Verdicts : x.order # o
               /\ stockProcessed' = stockProcessed \cup {Id(e)}
               /\ unknown' = unknown
               /\ \/ o \in DOMAIN reservations /\ UNCHANGED <<stock, reservations, stockOutbox>>
                  \/ /\ o \notin DOMAIN reservations
                     /\ wanted.item \in DOMAIN stock
                     /\ stock[wanted.item].available >= wanted.quantity
                     /\ DOMAIN stock' = DOMAIN stock
                     /\ stock'[wanted.item].available
                          = stock[wanted.item].available - wanted.quantity
                     /\ \A i \in DOMAIN stock : i # wanted.item => stock'[i] = stock[i]
                     /\ reservations' = Put(reservations, o, [item     |-> wanted.item,
                                                              quantity |-> wanted.quantity,
                                                              status   |-> "RESERVED"])
                     /\ stockOutbox' = stockOutbox \cup {Event("inventory.reserved", o)}
                  \/ /\ \/ /\ wanted.item \in DOMAIN stock
                           /\ ~(stock[wanted.item].available >= wanted.quantity)
                        \/ Id(e) \in unknown
                     /\ UNCHANGED <<stock, reservations>>
                     /\ stockOutbox' = stockOutbox \cup {Event("inventory.rejected", o)}
<1> DEFINE o == e.order
           wanted == orders[o].request
<1>1. /\ o \in DOMAIN orders
      /\ e = Event(e.type, o)
      /\ e.type = "order.created"
  BY Deliveries DEF Queues, Inventory!HandleOrderCreated
<1>2. /\ e = Event("order.created", o)
      /\ e.payload = wanted
      /\ Id(e) = <<"order.created", o, 1>>
      /\ Inventory!Id(e) = Id(e)
  BY <1>1 DEF Event, Id, Inventory!Id
<1>3. /\ wanted.item \in Items
      /\ wanted.quantity \in Nat \ {0}
  BY <1>1, OrderFacts, RequestsAssumption DEF SagaInv, RequestsAssumption
<1>4. /\ Id(e) \notin stockProcessed
      /\ stockProcessed' = stockProcessed \cup {Id(e)}
      /\ unknown' = unknown
  BY <1>2 DEF Inventory!HandleOrderCreated
<1>5. \A x \in Verdicts : x.order # o
  BY <1>2, <1>4 DEF SagaInv, VerdictsInv
<1>6. ASSUME NEW type \in InventoryVerdicts, Inventory!Emit(type, o, wanted)
      PROVE  stockOutbox' = stockOutbox \cup {Event(type, o)}
  <2>1. ~Has(stockOutbox, type, o)
    BY <1>5 DEF Has, Verdicts
  <2> QED BY <1>6, <2>1, FirstEvent, SameNewEvent DEF Inventory!Emit
<1>7. CASE Inventory!AlreadyReserved(e)
  BY <1>1, <1>2, <1>4, <1>5, <1>7 DEF Inventory!AlreadyReserved
<1>8. CASE Inventory!Reserve(e)
  <2>1. /\ o \notin DOMAIN reservations
        /\ wanted.item \in DOMAIN stock
        /\ stock[wanted.item].available >= wanted.quantity
        /\ stock' = Put(stock, wanted.item,
                        Inventory!Hold(stock[wanted.item], wanted.quantity))
        /\ reservations' = Put(reservations, o, [item     |-> wanted.item,
                                                 quantity |-> wanted.quantity,
                                                 status   |-> "RESERVED"])
        /\ Inventory!Emit("inventory.reserved", o, wanted)
    BY <1>2, <1>8, SamePut DEF Inventory!Reserve, Inventory!InStock, Inventory!CanReserve
  <2>2. /\ DOMAIN stock' = DOMAIN stock
        /\ stock'[wanted.item].available = stock[wanted.item].available - wanted.quantity
        /\ \A i \in DOMAIN stock : i # wanted.item => stock'[i] = stock[i]
    BY <2>1 DEF Put, Inventory!Hold
  <2>3. stockOutbox' = stockOutbox \cup {Event("inventory.reserved", o)}
    BY <1>6, <2>1 DEF InventoryVerdicts
  <2> QED BY <1>1, <1>2, <1>4, <1>5, <2>1, <2>2, <2>3
<1>9. CASE Inventory!Reject(e)
  <2>1. /\ UNCHANGED <<stock, reservations>>
        /\ Inventory!Emit("inventory.rejected", o, wanted)
        /\ \/ wanted.item \in DOMAIN stock /\ ~(stock[wanted.item].available >= wanted.quantity)
           \/ Id(e) \in unknown
    BY <1>2, <1>3, <1>9 DEF Inventory!Reject, Inventory!InStock, Inventory!CanReserve
  <2>2. stockOutbox' = stockOutbox \cup {Event("inventory.rejected", o)}
    BY <1>6, <2>1 DEF InventoryVerdicts
  <2> QED BY <1>1, <1>2, <1>4, <1>5, <2>1, <2>2
<1> QED BY <1>7, <1>8, <1>9 DEF Inventory!HandleOrderCreated

\* A command settles the reservation of its order, if one is held, the way the
\* status of the order calls for.
LEMMA SettlementEffect ==
    ASSUME SagaInv, NEW e \in Routed("inventory"), Inventory!HandleSettlement(e)
    PROVE  LET o == e.order
               r == reservations[o]
               released == IF e.type = "inventory.release" THEN r.quantity ELSE 0
           IN  /\ o \in DOMAIN orders
               /\ e.type \in InventoryCommands
               /\ orders[o].status
                    = IF e.type = "inventory.release" THEN "PAYMENT_FAILED" ELSE "COMPLETED"
               /\ Id(e) = <<e.type, o, 1>>
               /\ stockProcessed' = stockProcessed \cup {Id(e)}
               /\ unknown' = unknown
               /\ \/ ~Holds(o, {"RESERVED"}) /\ UNCHANGED <<stock, reservations, stockOutbox>>
                  \/ /\ Holds(o, {"RESERVED"})
                     /\ DOMAIN stock' = DOMAIN stock
                     /\ stock'[r.item].available = stock[r.item].available + released
                     /\ \A i \in DOMAIN stock : i # r.item => stock'[i] = stock[i]
                     /\ reservations'
                          = Put(reservations, o,
                                [item     |-> r.item,
                                 quantity |-> r.quantity,
                                 status   |-> IF e.type = "inventory.release"
                                              THEN "RELEASED" ELSE "COMMITTED"])
                     /\ \E receipt : /\ receipt.type \in InventoryReceipts
                                     /\ stockOutbox' = stockOutbox \cup {receipt}
<1> DEFINE o == e.order
           r == reservations[o]
           released == IF e.type = "inventory.release" THEN r.quantity ELSE 0
<1>1. /\ o \in DOMAIN orders
      /\ e \in orderOutbox
      /\ e = Event(e.type, o)
      /\ e.type \in InventoryCommands
  BY Deliveries DEF Queues, InventoryCommands, Inventory!InventoryCommands,
                    Inventory!HandleSettlement
<1>2. Id(e) = <<e.type, o, 1>> /\ Inventory!Id(e) = Id(e)
  BY <1>1 DEF Event, Id, Inventory!Id
<1>3. e.type \in Lifecycle!Due(orders[o].status) /\ orders[o].status \in Lifecycle!Statuses
  BY <1>1, OrderFacts DEF SagaInv, InventoryCommands
<1>4. orders[o].status = IF e.type = "inventory.release" THEN "PAYMENT_FAILED" ELSE "COMPLETED"
  BY <1>1, <1>3 DEF InventoryCommands, Lifecycle!Due, Lifecycle!Statuses,
                    Lifecycle!TERMINAL_STATUSES
<1>5. stockProcessed' = stockProcessed \cup {Id(e)} /\ unknown' = unknown
  BY <1>2 DEF Inventory!HandleSettlement
<1>6. Inventory!Reserved(o) <=> Holds(o, {"RESERVED"})
  BY DEF Inventory!Reserved, Holds
<1>7. CASE ~Inventory!Reserved(o) /\ UNCHANGED <<stock, reservations, stockOutbox>>
  BY <1>1, <1>2, <1>4, <1>5, <1>6, <1>7
<1>8. CASE Inventory!SettleReservation(e)
  <2>1. /\ o \in DOMAIN reservations
        /\ Inventory!Reserved(o)
        /\ r.item \in DOMAIN stock
        /\ stock' = Put(stock, r.item, Inventory!Settle(stock[r.item], r, e.type))
        /\ reservations' = Put(reservations, o,
                               [r EXCEPT !.status = Inventory!SettledStatus(e.type)])
        /\ \E type \in InventoryReceipts :
              Inventory!Emit(type, o, [item |-> r.item, quantity |-> r.quantity])
    <3>1. (IF e.type = "inventory.release" THEN "inventory.released" ELSE "inventory.committed")
             \in InventoryReceipts
      BY DEF InventoryReceipts
    <3> QED BY <1>8, <3>1, SamePut DEF Inventory!SettleReservation, Inventory!Reserved
  <2>2. /\ DOMAIN stock' = DOMAIN stock
        /\ stock'[r.item].available = stock[r.item].available + released
        /\ \A i \in DOMAIN stock : i # r.item => stock'[i] = stock[i]
    BY <2>1 DEF Put, Inventory!Settle
  <2>3. r \in [item : Items, quantity : Nat \ {0}, status : Ledger!Statuses]
    BY <2>1 DEF SagaInv, Ledger!LedgerInv, Ledger!TypeOK, Ledger!IsTable, Ledger!ReservationRows
  <2>4. [r EXCEPT !.status = Inventory!SettledStatus(e.type)]
          = [item     |-> r.item,
             quantity |-> r.quantity,
             status   |-> IF e.type = "inventory.release" THEN "RELEASED" ELSE "COMMITTED"]
    BY <2>3 DEF Inventory!SettledStatus
  <2>5. \E receipt : receipt.type \in InventoryReceipts /\ stockOutbox' = stockOutbox \cup {receipt}
    <3>1. \A rows, type, id, payload : NewEvent(rows, type, id, payload).type = type
      BY DEF NewEvent
    <3> QED BY <2>1, <3>1, SameNewEvent DEF Inventory!Emit
  <2> QED BY <1>1, <1>2, <1>4, <1>5, <1>6, <2>1, <2>2, <2>4, <2>5
<1> QED BY <1>7, <1>8 DEF Inventory!HandleSettlement

\* A reset gives the item a fresh row and drops its reservations, if it had any.
LEMMA ResetEffect ==
    ASSUME SagaInv, NEW item \in Items, NEW quantity \in StockLevels,
           Inventory!SetStock(item, quantity)
    PROVE  /\ DOMAIN stock' = DOMAIN stock \cup {item}
           /\ \A i \in DOMAIN stock : i # item => stock'[i] = stock[i]
           /\ \A o : o \in DOMAIN reservations' <=>
                        o \in DOMAIN reservations /\ reservations[o].item # item
           /\ \A o \in DOMAIN reservations' : reservations'[o] = reservations[o]
           /\ UNCHANGED <<stockProcessed, stockOutbox, unknown>>
<1>1. /\ DOMAIN stock' = DOMAIN stock \cup {item}
      /\ \A i \in DOMAIN stock : i # item => stock'[i] = stock[i]
      /\ UNCHANGED <<stockProcessed, stockOutbox, unknown>>
  BY DEF Inventory!SetStock, Inventory!Put
<1>2. CASE item \in DOMAIN stock
  BY <1>1, <1>2 DEF Inventory!SetStock, Inventory!Delete, Inventory!ReservationsFor
<1>3. CASE item \notin DOMAIN stock
  BY <1>1, <1>3, StockFacts DEF Inventory!SetStock, SagaInv
<1> QED BY <1>1, <1>2, <1>3

\* A reservation is paid for or declined, and the outcome announced, once.
LEMMA PaymentEffect ==
    ASSUME SagaInv, NEW e \in Routed("payment"), Payment!HandleReserved(e)
    PROVE  LET o == e.order
           IN  /\ o \in DOMAIN orders
               /\ e \in stockOutbox /\ e.type = "inventory.reserved"
               /\ Id(e) = <<"inventory.reserved", o, 1>>
               /\ paymentProcessed' = paymentProcessed \cup {Id(e)}
               /\ \/ o \in DOMAIN payments /\ UNCHANGED <<payments, paymentOutbox>>
                  \/ \E row : /\ o \notin DOMAIN payments
                              /\ row.status \in {"SUCCEEDED", "FAILED"}
                              /\ payments' = Put(payments, o, row)
                              /\ paymentOutbox' = paymentOutbox
                                    \cup {Event(Payment!OutcomeOf(row.status), o)}
<1> DEFINE o == e.order
<1>1. /\ o \in DOMAIN orders
      /\ e = Event(e.type, o)
      /\ e \in stockOutbox /\ e.type = "inventory.reserved"
  BY Deliveries DEF Queues, Verdicts
<1>2. /\ Id(e) = <<"inventory.reserved", o, 1>>
      /\ Payment!Id(e) = Id(e)
      /\ e.payload = orders[o].request
  BY <1>1 DEF Event, Id, Payment!Id
<1>3. paymentProcessed' = paymentProcessed \cup {Id(e)}
  BY <1>2 DEF Payment!HandleReserved
<1>4. CASE Payment!AlreadyPaid(e)
  BY <1>1, <1>2, <1>3, <1>4 DEF Payment!AlreadyPaid
<1>5. CASE Payment!Pay(e)
  <2> DEFINE row == [customer |-> e.payload.customer, amount |-> e.payload.amount,
                     status |-> Payment!Status(e.payload)]
             type == Payment!Outcome(e.payload)
  <2>1. row.status \in {"SUCCEEDED", "FAILED"} /\ type = Payment!OutcomeOf(row.status)
    BY DEF Payment!Status, Payment!Outcome, Payment!OutcomeOf
  <2>2. /\ o \notin DOMAIN payments
        /\ payments' = Put(payments, o, row)
        /\ paymentOutbox' = paymentOutbox \cup {NewEvent(paymentOutbox, type, o, orders[o].request)}
    BY <1>2, <1>5, SamePut, SameNewEvent DEF Payment!Pay
  <2>3. ~Has(paymentOutbox, type, o)
    BY <2>2 DEF SagaInv, PaymentsInv, Has
  <2>4. paymentOutbox' = paymentOutbox \cup {Event(type, o)}
    BY <2>2, <2>3, FirstEvent
  <2> HIDE DEF row, type
  <2> QED BY <1>1, <1>2, <1>3, <2>1, <2>2, <2>4
<1> QED BY <1>4, <1>5 DEF Payment!HandleReserved

--------------------------------------------------------------------------------
(* The invariant is inductive *)

\* The order service takes steps of the lifecycle only, the inventory service steps
\* of the ledger only.
LEMMA ServiceSteps ==
    ASSUME SagaInv, Next
    PROVE  [Lifecycle!Next]_(Lifecycle!vars) /\ [Ledger!Next]_(Ledger!vars)
<1>1. ASSUME UNCHANGED orderVars
      PROVE  [Lifecycle!Next]_(Lifecycle!vars)
  BY <1>1 DEF orderVars, Lifecycle!vars
<1>2. ASSUME UNCHANGED stockVars
      PROVE  [Ledger!Next]_(Ledger!vars)
  BY <1>2 DEF stockVars, Ledger!vars
<1>3. CASE PlaceOrder
  <2>1. Lifecycle!Next
    BY <1>3, OrderSteps DEF PlaceOrder, Lifecycle!Next
  <2> QED BY <1>2, <1>3, <2>1 DEF PlaceOrder
<1>4. CASE OrderConsumes
  <2>1. Lifecycle!Next
    BY <1>4, OrderSteps, Deliveries DEF OrderConsumes, Lifecycle!Next, Queues
  <2> QED BY <1>2, <1>4, <2>1 DEF OrderConsumes
<1>5. CASE InventoryConsumes
  <2>1. Ledger!Next
    BY <1>5, InventorySteps, Deliveries DEF InventoryConsumes, Ledger!Next, Queues
  <2> QED BY <1>1, <1>5, <2>1 DEF InventoryConsumes
<1>6. CASE ResetStock
  <2>1. Ledger!Next
    BY <1>6, InventorySteps DEF ResetStock, Ledger!Next
  <2> QED BY <1>1, <1>6, <2>1 DEF ResetStock
<1>7. CASE PaymentConsumes
  BY <1>1, <1>2, <1>7 DEF PaymentConsumes
<1>8. CASE NotificationConsumes
  BY <1>1, <1>2, <1>8 DEF NotificationConsumes
<1>9. ASSUME NEW queue \in Queues, Park(queue)
      PROVE  UNCHANGED orderVars /\ UNCHANGED stockVars
  BY <1>9 DEF Park
<1> QED BY <1>1, <1>2, <1>3, <1>4, <1>5, <1>6, <1>7, <1>8, <1>9 DEF Next, Consume

\* So the invariants of the two modules are kept.
LEMMA NextServices ==
    ASSUME SagaInv, Next
    PROVE  (Lifecycle!TypeOK /\ Lifecycle!AnnouncedMatchesStatus /\ Ledger!LedgerInv)'
<1>1. Lifecycle!TypeOK'
  BY ServiceSteps, AnswersAreInbound, Lifecycle!NextTypeOK DEF SagaInv
<1>2. Lifecycle!AnnouncedMatchesStatus'
  BY ServiceSteps, AnswersAreInbound, Lifecycle!NextAnnounced DEF SagaInv
<1>3. Ledger!LedgerInv'
  BY ServiceSteps, StockIsNatural, CommandsAreInbound, Ledger!NextLedgerInv DEF SagaInv
<1> QED BY <1>1, <1>2, <1>3

\* A new order changes nothing for the others, and nobody has heard of it yet.
LEMMA NextPlace ==
    ASSUME SagaInv, PlaceOrder,
           (Lifecycle!TypeOK /\ Lifecycle!AnnouncedMatchesStatus /\ Ledger!LedgerInv)'
    PROVE  SagaInv'
<1>1. PICK request \in Requests, order \in Orders : Order!CreateOrder(order, request, order)
  BY DEF PlaceOrder
<1>2. /\ order \notin DOMAIN orders
      /\ DOMAIN orders' = DOMAIN orders \cup {order}
      /\ orders'[order].request = request
      /\ orders'[order].status = "PENDING"
      /\ \A o \in DOMAIN orders : orders'[o] = orders[o]
      /\ orderOutbox' = orderOutbox \cup {Event("order.created", order)'}
      /\ orderProcessed' = orderProcessed
  BY <1>1, PlaceEffect
<1>3. UNCHANGED <<stockVars, paymentVars, notifications, history>>
  BY DEF PlaceOrder
<1> USE DEF stockVars, paymentVars, history
<1>4. Verdicts' = Verdicts
  BY <1>3 DEF Verdicts
<1>5. \A type : \A o \in DOMAIN orders : Event(type, o)' = Event(type, o)
  BY <1>2 DEF Event
<1>6. EventsInv'
  <2>1. \A e \in orderOutbox \cup Verdicts \cup paymentOutbox :
           e.order \in DOMAIN orders' /\ e = Event(e.type, e.order)'
    BY <1>2, <1>5 DEF SagaInv, EventsInv
  <2>2. /\ Event("order.created", order)'.order = order
        /\ Event("order.created", order)'.type = "order.created"
    BY DEF Event
  <2> QED BY <1>2, <1>3, <1>4, <2>1, <2>2 DEF SagaInv, EventsInv
<1>7. VerdictsInv'
  <2>1. \A o \in DOMAIN reservations : o \in DOMAIN orders
    BY DEF SagaInv, VerdictsInv, EventsInv, Has, Verdicts, InventoryVerdicts
  <2> QED BY <1>2, <1>3, <1>4, <2>1 DEF SagaInv, VerdictsInv, Has
<1>8. PaymentsInv'
  BY <1>3 DEF SagaInv, PaymentsInv, Has
<1>9. StatusInv'
  BY <1>2, <1>3 DEF SagaInv, StatusInv, Has, Paid, Declined
<1>10. SettledInv'
  BY <1>2, <1>3 DEF SagaInv, SettledInv, Holds
<1>11. NotificationsInv'
  BY <1>2, <1>3 DEF SagaInv, NotificationsInv
<1>12. RejectionInv'
  <2>1. \A item : Unreturned(item)' = Unreturned(item)
    BY <1>3 DEF Unreturned, Returned, Inventory!Units, Inventory!ReservationsOf
  <2>2. \A e \in Verdicts : e.order \in DOMAIN orders
    BY DEF SagaInv, EventsInv
  <2> QED BY <1>2, <1>3, <1>4, <2>1, <2>2 DEF SagaInv, RejectionInv
<1> QED BY <1>6, <1>7, <1>8, <1>9, <1>10, <1>11, <1>12 DEF SagaInv

\* An answer ends a checkout only if its sender's database says so.
LEMMA NextAnswer ==
    ASSUME SagaInv, OrderConsumes,
           (Lifecycle!TypeOK /\ Lifecycle!AnnouncedMatchesStatus /\ Ledger!LedgerInv)'
    PROVE  SagaInv'
<1>1. PICK e \in Routed("order") : Order!HandleAnswer(e)
  BY DEF OrderConsumes
<1> DEFINE o == e.order
<1>2. /\ o \in DOMAIN orders
      /\ e.type \in InventoryVerdicts \cup PaymentOutcomes
      /\ DOMAIN orders' = DOMAIN orders
      /\ \A p \in DOMAIN orders : p # o => orders'[p] = orders[p]
      /\ \A p \in DOMAIN orders : orders'[p].request = orders[p].request
      /\ orders'[o].status \in {orders[o].status, StatusFor(e.type)}
      /\ orders[o].status \in {"COMPLETED", "REJECTED", "PAYMENT_FAILED"} =>
            orders'[o].status = orders[o].status
      /\ e.type \in PaymentOutcomes /\ orders[o].status \in {"PENDING", "INVENTORY_RESERVED"} =>
            orders'[o].status = StatusFor(e.type)
      /\ orderOutbox \subseteq orderOutbox'
      /\ \A f \in orderOutbox' \ orderOutbox : f.order = o /\ f = Event(f.type, f.order)
      /\ orderProcessed' = orderProcessed \cup {Id(e)}
  BY <1>1, AnswerEffect
<1>3. UNCHANGED <<stockVars, paymentVars, notifications, history>>
  BY DEF OrderConsumes
<1>4. /\ Id(e) = <<e.type, o, 1>>
      /\ e \in Verdicts \/ (e \in paymentOutbox /\ e.type \in PaymentOutcomes)
  <2>1. e = Event(e.type, o)
    BY <1>1, Deliveries DEF Queues
  <2>2. Id(e) = <<e.type, o, 1>>
    BY <2>1 DEF Event, Id
  <2>3. e \in Verdicts \/ (e \in paymentOutbox /\ e.type \in PaymentOutcomes)
    BY <1>1, Deliveries
  <2> QED BY <2>2, <2>3
<1> HIDE DEF o
<1> USE DEF stockVars, paymentVars, history
<1>5. Verdicts' = Verdicts
  BY <1>3 DEF Verdicts
<1>6. \A type : \A p \in DOMAIN orders : Event(type, p)' = Event(type, p)
  BY <1>2 DEF Event
<1>7. EventsInv'
  BY <1>2, <1>3, <1>5, <1>6 DEF SagaInv, EventsInv
<1>8. VerdictsInv'
  <2>1. \A p \in DOMAIN reservations : p \in DOMAIN orders
    BY DEF SagaInv, VerdictsInv, EventsInv, Has, Verdicts, InventoryVerdicts
  <2> QED BY <1>2, <1>3, <1>5, <2>1 DEF SagaInv, VerdictsInv, Has
<1>9. PaymentsInv'
  BY <1>3 DEF SagaInv, PaymentsInv, Has
<1>10. ASSUME e.type \in PaymentOutcomes
       PROVE  /\ e \in paymentOutbox
              /\ StatusFor(e.type) \in {"COMPLETED", "PAYMENT_FAILED"}
              /\ StatusFor(e.type) = "COMPLETED" => Paid(o)
              /\ StatusFor(e.type) = "PAYMENT_FAILED" => Declined(o)
              /\ orders[o].status # "REJECTED"
  <2>1. e \in paymentOutbox
    BY <1>4, <1>10 DEF Verdicts, InventoryVerdicts, PaymentOutcomes
  <2>2. /\ o \in DOMAIN payments
        /\ payments[o].status \in {"SUCCEEDED", "FAILED"}
        /\ e.type = Payment!OutcomeOf(payments[o].status)
        /\ Has(stockOutbox, "inventory.reserved", o)
    BY <2>1 DEF SagaInv, PaymentsInv, o
  <2>3. ~Has(stockOutbox, "inventory.rejected", o)
    BY <2>2 DEF SagaInv, VerdictsInv, Has, Verdicts, InventoryVerdicts
  <2>4. orders[o].status # "REJECTED"
    BY <1>2, <2>3 DEF SagaInv, StatusInv
  <2> QED BY <1>10, <2>1, <2>2, <2>4
       DEF StatusFor, PaymentOutcomes, Payment!OutcomeOf, Paid, Declined
<1>11. ASSUME e.type \in InventoryVerdicts
       PROVE  /\ StatusFor(e.type) \in {"INVENTORY_RESERVED", "REJECTED"}
              /\ StatusFor(e.type) = "REJECTED" => Has(stockOutbox, "inventory.rejected", o)
  BY <1>4, <1>11 DEF StatusFor, InventoryVerdicts, PaymentOutcomes, Verdicts, Has, o
<1>12. orders[o].status \in {"PENDING", "INVENTORY_RESERVED", "COMPLETED", "REJECTED",
                             "PAYMENT_FAILED"}
  BY <1>2, OrderFacts DEF SagaInv, Lifecycle!Statuses, Lifecycle!TERMINAL_STATUSES
<1>13. StatusInv'
  <2>1. ASSUME NEW p \in DOMAIN orders
        PROVE  /\ orders'[p].status = "REJECTED" => Has(stockOutbox, "inventory.rejected", p)
               /\ orders'[p].status = "COMPLETED" => Paid(p)
               /\ orders'[p].status = "PAYMENT_FAILED" => Declined(p)
    BY <1>2, <1>10, <1>11 DEF SagaInv, StatusInv
  <2>2. ASSUME NEW p, NEW type \in PaymentOutcomes, <<type, p, 1>> \in orderProcessed'
        PROVE  p \in DOMAIN orders /\ orders'[p].status \in {"COMPLETED", "PAYMENT_FAILED"}
    <3>1. CASE <<type, p, 1>> \in orderProcessed
      <4>1. p \in DOMAIN orders /\ orders[p].status \in {"COMPLETED", "PAYMENT_FAILED"}
        BY <3>1 DEF SagaInv, StatusInv
      <4> QED BY <1>2, <4>1
    <3>2. CASE <<type, p, 1>> = <<e.type, o, 1>>
      BY <1>2, <1>10, <1>12, <3>2
    <3> QED BY <1>2, <1>4, <2>2, <3>1, <3>2
  <2> QED BY <1>2, <1>3, <2>1, <2>2 DEF StatusInv, Has, Paid, Declined
<1>14. SettledInv'
  BY <1>2, <1>3 DEF SagaInv, SettledInv, Holds
<1>15. NotificationsInv'
  BY <1>2, <1>3 DEF SagaInv, NotificationsInv
<1>16. RejectionInv'
  <2>1. \A item : Unreturned(item)' = Unreturned(item)
    BY <1>3 DEF Unreturned, Returned, Inventory!Units, Inventory!ReservationsOf
  <2>2. \A x \in Verdicts : x.order \in DOMAIN orders
    BY DEF SagaInv, EventsInv
  <2> QED BY <1>2, <1>3, <1>5, <2>1, <2>2 DEF SagaInv, RejectionInv
<1> QED BY <1>7, <1>8, <1>9, <1>13, <1>14, <1>15, <1>16 DEF SagaInv

\* The units that have been given back change by the released reservation only.
LEMMA SameReturned ==
    /\ \A item : Returned(item) = Ledger!Units(reservations, item, "RELEASED")
    /\ \A item : Returned(item)' = Ledger!Units(reservations', item, "RELEASED")
  BY DEF Returned, Inventory!Units, Inventory!ReservationsOf, Ledger!Units, Ledger!ReservationsOf

\* A verdict is the first one of its order, and right about the stock.
LEMMA NextVerdict ==
    ASSUME SagaInv,
           (Lifecycle!TypeOK /\ Lifecycle!AnnouncedMatchesStatus /\ Ledger!LedgerInv)',
           NEW e \in Routed("inventory"), Inventory!HandleOrderCreated(e),
           UNCHANGED <<orderVars, paymentVars, notifications, parked, history>>
    PROVE  SagaInv'
<1> DEFINE o == e.order
           wanted == orders[o].request
           Nothing == o \in DOMAIN reservations /\ UNCHANGED <<stock, reservations, stockOutbox>>
           Reserves ==
               /\ o \notin DOMAIN reservations
               /\ wanted.item \in DOMAIN stock
               /\ stock[wanted.item].available >= wanted.quantity
               /\ DOMAIN stock' = DOMAIN stock
               /\ stock'[wanted.item].available = stock[wanted.item].available - wanted.quantity
               /\ \A i \in DOMAIN stock : i # wanted.item => stock'[i] = stock[i]
               /\ reservations' = Put(reservations, o, [item     |-> wanted.item,
                                                        quantity |-> wanted.quantity,
                                                        status   |-> "RESERVED"])
               /\ stockOutbox' = stockOutbox \cup {Event("inventory.reserved", o)}
           Rejects ==
               /\ \/ /\ wanted.item \in DOMAIN stock
                     /\ ~(stock[wanted.item].available >= wanted.quantity)
                  \/ Id(e) \in unknown
               /\ UNCHANGED <<stock, reservations>>
               /\ stockOutbox' = stockOutbox \cup {Event("inventory.rejected", o)}
<1>1. /\ o \in DOMAIN orders
      /\ Id(e) = <<"order.created", o, 1>>
      /\ Id(e) \notin stockProcessed
      /\ \A x \in Verdicts : x.order # o
      /\ stockProcessed' = stockProcessed \cup {Id(e)}
      /\ unknown' = unknown
      /\ Nothing \/ Reserves \/ Rejects
  BY VerdictEffect
<1> HIDE DEF o
<1> USE DEF orderVars, paymentVars, history
<1>2. \A type, p : /\ Event(type, p)' = Event(type, p)
                   /\ Event(type, p).type = type
                   /\ Event(type, p).order = p
  BY DEF Event
<1>3. \E verdict \in {Event("inventory.reserved", o), Event("inventory.rejected", o)} :
         /\ stockOutbox' \in {stockOutbox, stockOutbox \cup {verdict}}
         /\ Verdicts' \in {Verdicts, Verdicts \cup {verdict}}
  <2>1. CASE Nothing
    BY <2>1 DEF Verdicts
  <2>2. CASE Reserves
    BY <1>2, <2>2 DEF Verdicts, InventoryVerdicts
  <2>3. CASE Rejects
    BY <1>2, <2>3 DEF Verdicts, InventoryVerdicts
  <2> QED BY <1>1, <2>1, <2>2, <2>3
<1>4. EventsInv'
  BY <1>1, <1>2, <1>3 DEF SagaInv, EventsInv
<1>5. ~Has(stockOutbox, "inventory.reserved", o) /\ o \notin DOMAIN reservations \cup dropped
  <2>1. ~Has(stockOutbox, "inventory.reserved", o)
    BY <1>1 DEF Has, Verdicts, InventoryVerdicts
  <2> QED BY <2>1 DEF SagaInv, VerdictsInv
<1>6. VerdictsInv'
  <2>0. PICK verdict : verdict.order = o /\ Verdicts' \subseteq Verdicts \cup {verdict}
    BY <1>2, <1>3
  <2>1. \A x \in Verdicts' : <<"order.created", x.order, 1>> \in stockProcessed'
    BY <1>1, <2>0 DEF SagaInv, VerdictsInv
  <2>2. \A x, y \in Verdicts' : x.order = y.order => x.type = y.type
    BY <1>1, <2>0 DEF SagaInv, VerdictsInv
  <2>3. CASE Reserves
    <3>1. /\ DOMAIN reservations' = DOMAIN reservations \cup {o}
          /\ reservations'[o].item = wanted.item
          /\ reservations'[o].quantity = wanted.quantity
          /\ \A p \in DOMAIN reservations : reservations'[p] = reservations[p]
      BY <1>5, <2>3 DEF Put
    <3>2. \A p : Has(stockOutbox', "inventory.reserved", p)
                    <=> Has(stockOutbox, "inventory.reserved", p) \/ p = o
      BY <1>2, <2>3 DEF Has
    <3> QED BY <1>5, <2>1, <2>2, <3>1, <3>2 DEF SagaInv, VerdictsInv
  <2>4. CASE Rejects
    <3>1. \A p : Has(stockOutbox', "inventory.reserved", p)
                    <=> Has(stockOutbox, "inventory.reserved", p)
      BY <1>2, <2>4 DEF Has
    <3> QED BY <2>1, <2>2, <2>4, <3>1 DEF SagaInv, VerdictsInv
  <2> QED BY <1>1, <1>5, <2>3, <2>4
<1>7. \A type, p : Has(stockOutbox, type, p) => Has(stockOutbox', type, p)
  BY <1>3 DEF Has
<1>8. PaymentsInv'
  BY <1>7 DEF SagaInv, PaymentsInv
<1>9. StatusInv'
  BY <1>7 DEF SagaInv, StatusInv, Paid, Declined
<1>10. SettledInv'
  <2>1. \A type \in InventoryCommands : <<type, o, 1>> \notin stockProcessed
    BY <1>1 DEF SagaInv, SettledInv
  <2>2. \A p : p # o => /\ p \in DOMAIN reservations' <=> p \in DOMAIN reservations
                        /\ p \in DOMAIN reservations => reservations'[p] = reservations[p]
    BY <1>1 DEF Put
  <2>3. o \in DOMAIN reservations' => reservations'[o].status = "RESERVED"
    BY <1>1, <1>5 DEF Put
  <2>4. \A p : \A type \in InventoryCommands :
           <<type, p, 1>> \in stockProcessed' => <<type, p, 1>> \in stockProcessed
    BY <1>1 DEF InventoryCommands
  <2> QED BY <1>1, <1>5, <2>1, <2>2, <2>3, <2>4 DEF SagaInv, SettledInv, Holds
<1>11. NotificationsInv'
  BY DEF SagaInv, NotificationsInv
<1>12. /\ \A i : Returned(i)' = Returned(i)
       /\ \A i \in DOMAIN stock :
             /\ Cardinality(Returned(i)) \in Nat
             /\ stock[i].available \in Nat
  <2>1. \A i : Returned(i)' = Returned(i)
    <3>1. CASE Reserves
      <4> DEFINE row == [item |-> wanted.item, quantity |-> wanted.quantity, status |-> "RESERVED"]
      <4>1. row.status = "RESERVED"
        OBVIOUS
      <4>2. reservations' = Put(reservations, o, row)
        BY <3>1
      <4> HIDE DEF row
      <4>3. ASSUME NEW i
            PROVE  Ledger!Units(Put(reservations, o, row), i, "RELEASED")
                     = Ledger!Units(reservations, i, "RELEASED")
        <5>1. Ledger!Units(Ledger!Put(reservations, o, row), i, "RELEASED")
                = Ledger!Units(reservations, i, "RELEASED")
          BY <1>5, <4>1, StockIsNatural, CommandsAreInbound, Ledger!UnitsOfNew
        <5> QED BY <5>1, SamePut
      <4> QED BY <4>2, <4>3, SameReturned
    <3>2. CASE UNCHANGED reservations
      BY <3>2, SameReturned
    <3> QED BY <1>1, <3>1, <3>2
  <2>2. ASSUME NEW i \in DOMAIN stock
        PROVE  Cardinality(Returned(i)) \in Nat /\ stock[i].available \in Nat
    <3>1. i \in Items /\ stock[i].available \in Nat
      BY StockFacts DEF SagaInv
    <3>2. IsFiniteSet(Returned(i))
      BY <3>1, SameReturned DEF SagaInv, Ledger!LedgerInv, Ledger!Statuses,
                                IsFiniteSet, Ledger!IsFiniteSet
    <3> QED BY <3>1, <3>2, FS_CardinalityType
  <2> QED BY <2>1, <2>2
<1>13. RejectionInv'
  <2>1. wanted.quantity \in Nat \ {0}
    BY <1>1, OrderFacts, RequestsAssumption DEF SagaInv, RequestsAssumption
  <2>2. /\ DOMAIN stock' = DOMAIN stock
        /\ \A i \in DOMAIN stock :
              /\ Unreturned(i) \in Int /\ Unreturned(i)' \in Int
              /\ Unreturned(i)' <= Unreturned(i)
    <3>1. CASE Reserves
      BY <1>12, <2>1, <3>1 DEF Unreturned
    <3>2. CASE UNCHANGED stock
      BY <1>12, <3>2 DEF Unreturned
    <3> QED BY <1>1, <3>1, <3>2
  <2>3. ASSUME NEW x \in Verdicts, x.type = "inventory.rejected", x.order \notin early,
               orders[x.order].request.item \in DOMAIN stock
        PROVE  Unreturned(orders[x.order].request.item)' < orders[x.order].request.quantity
    <3>1. Unreturned(orders[x.order].request.item) < orders[x.order].request.quantity
      BY <2>3 DEF SagaInv, RejectionInv
    <3>2. orders[x.order].request.quantity \in Nat
      BY OrderFacts, RequestsAssumption DEF SagaInv, EventsInv, RequestsAssumption
    <3> QED BY <2>2, <2>3, <3>1, <3>2
  <2>4. ASSUME Rejects, o \notin early, wanted.item \in DOMAIN stock
        PROVE  Unreturned(wanted.item)' < wanted.quantity
    <3>1. ~(stock[wanted.item].available >= wanted.quantity)
      BY <1>1, <2>4 DEF SagaInv, RejectionInv
    <3> QED BY <1>12, <2>1, <2>4, <3>1 DEF Unreturned
  <2>5. \A x \in Verdicts' \ Verdicts : x.type = "inventory.rejected" => Rejects /\ x.order = o
    <3>1. CASE Reserves
      BY <1>2, <3>1 DEF Verdicts
    <3>2. CASE Rejects
      BY <1>2, <3>2 DEF Verdicts
    <3> QED BY <1>1, <1>5, <3>1, <3>2
  <2>6. ASSUME NEW x \in Verdicts', x.type = "inventory.rejected", x.order \notin early,
               orders[x.order].request.item \in DOMAIN stock
        PROVE  Unreturned(orders[x.order].request.item)' < orders[x.order].request.quantity
    <3>1. CASE x \in Verdicts
      BY <2>3, <2>6, <3>1
    <3>2. CASE x \notin Verdicts
      BY <2>4, <2>5, <2>6, <3>2
    <3> QED BY <3>1, <3>2
  <2> QED BY <1>1, <2>2, <2>6 DEF SagaInv, RejectionInv
<1> QED BY <1>4, <1>6, <1>8, <1>9, <1>10, <1>11, <1>13 DEF SagaInv

\* An order whose item is not stocked yet is rejected rightly: if the item is stocked
\* before the rejection is written, the order is older than this stock.
LEMMA NextFindNoItem ==
    ASSUME SagaInv,
           (Lifecycle!TypeOK /\ Lifecycle!AnnouncedMatchesStatus /\ Ledger!LedgerInv)',
           NEW e \in Routed("inventory"), Inventory!FindNoItem(e),
           UNCHANGED <<orderVars, paymentVars, notifications, parked, history>>
    PROVE  SagaInv'
<1> USE DEF orderVars, paymentVars, history
<1>1. /\ e.order \in DOMAIN orders
      /\ e = Event("order.created", e.order)
  BY Deliveries DEF Queues, Inventory!FindNoItem
<1>2. /\ Inventory!Id(e) = <<"order.created", e.order, 1>>
      /\ e.payload = orders[e.order].request
  BY <1>1 DEF Event, Inventory!Id
<1>3. /\ UNCHANGED <<stock, reservations, stockProcessed, stockOutbox>>
      /\ unknown' = unknown \cup {<<"order.created", e.order, 1>>}
      /\ orders[e.order].request.item \notin DOMAIN stock
  BY <1>2 DEF Inventory!FindNoItem
<1>4. /\ Verdicts' = Verdicts
      /\ \A type, o : Event(type, o)' = Event(type, o)
  BY <1>3 DEF Verdicts, Event
<1>5. EventsInv' /\ VerdictsInv' /\ PaymentsInv'
  BY <1>3, <1>4 DEF SagaInv, EventsInv, VerdictsInv, PaymentsInv, Has
<1>6. StatusInv' /\ SettledInv' /\ NotificationsInv'
  BY <1>3 DEF SagaInv, StatusInv, SettledInv, NotificationsInv, Has, Holds, Paid, Declined
<1>7. RejectionInv'
  <2>1. \A item : Unreturned(item)' = Unreturned(item)
    BY <1>3 DEF Unreturned, Returned, Inventory!Units, Inventory!ReservationsOf
  <2>2. \A o : <<"order.created", o, 1>> \in unknown' =>
                 <<"order.created", o, 1>> \in unknown \/ o = e.order
    BY <1>3
  <2> QED BY <1>1, <1>3, <1>4, <2>1, <2>2 DEF SagaInv, RejectionInv
<1> QED BY <1>5, <1>6, <1>7 DEF SagaInv

\* A settlement gives a reservation the status its order has, and moves the units on
\* the shelf and the units given back together.
LEMMA NextSettlement ==
    ASSUME SagaInv,
           (Lifecycle!TypeOK /\ Lifecycle!AnnouncedMatchesStatus /\ Ledger!LedgerInv)',
           NEW e \in Routed("inventory"), Inventory!HandleSettlement(e),
           UNCHANGED <<orderVars, paymentVars, notifications, parked, history>>
    PROVE  SagaInv'
<1> USE DEF orderVars, paymentVars, history
<1> DEFINE o == e.order
           r == reservations[o]
           released == IF e.type = "inventory.release" THEN r.quantity ELSE 0
           row == [item     |-> r.item,
                   quantity |-> r.quantity,
                   status   |-> IF e.type = "inventory.release" THEN "RELEASED" ELSE "COMMITTED"]
           Nothing == ~Holds(o, {"RESERVED"}) /\ UNCHANGED <<stock, reservations, stockOutbox>>
           Settles ==
               /\ Holds(o, {"RESERVED"})
               /\ DOMAIN stock' = DOMAIN stock
               /\ stock'[r.item].available = stock[r.item].available + released
               /\ \A i \in DOMAIN stock : i # r.item => stock'[i] = stock[i]
               /\ reservations' = Put(reservations, o, row)
               /\ \E receipt : /\ receipt.type \in InventoryReceipts
                               /\ stockOutbox' = stockOutbox \cup {receipt}
<1>1. /\ o \in DOMAIN orders
      /\ e.type \in InventoryCommands
      /\ orders[o].status = IF e.type = "inventory.release" THEN "PAYMENT_FAILED" ELSE "COMPLETED"
      /\ Id(e) = <<e.type, o, 1>>
      /\ stockProcessed' = stockProcessed \cup {Id(e)}
      /\ unknown' = unknown
      /\ Nothing \/ Settles
  BY SettlementEffect
<1>2. Settles => /\ o \in DOMAIN reservations
                 /\ r.status = "RESERVED"
                 /\ DOMAIN reservations' = DOMAIN reservations
                 /\ reservations'[o] = row
                 /\ \A p \in DOMAIN reservations : p # o => reservations'[p] = reservations[p]
  BY DEF Holds, Put
<1>3. /\ row.item = r.item /\ row.quantity = r.quantity
      /\ row.status = IF e.type = "inventory.release" THEN "RELEASED" ELSE "COMMITTED"
  OBVIOUS
<1> HIDE DEF o, row
<1>4. Verdicts' = Verdicts
  BY <1>1 DEF Verdicts, InventoryReceipts, InventoryVerdicts
<1>5. /\ \A type \in InventoryVerdicts : \A p : Has(stockOutbox', type, p) <=> Has(stockOutbox, type, p)
      /\ \A type, p : Event(type, p)' = Event(type, p)
  BY <1>4 DEF Verdicts, Has, Event
<1>6. EventsInv'
  BY <1>4, <1>5 DEF SagaInv, EventsInv
<1>7. VerdictsInv'
  BY <1>1, <1>2, <1>3, <1>4, <1>5 DEF SagaInv, VerdictsInv, InventoryVerdicts
<1>8. PaymentsInv' /\ StatusInv' /\ NotificationsInv'
  BY <1>5 DEF SagaInv, PaymentsInv, StatusInv, NotificationsInv, Paid, Declined, InventoryVerdicts
<1>9. SettledInv'
  <2>1. <<"order.created", o, 1>> \in stockProcessed
    <3>1. orders[o].status \in {"COMPLETED", "PAYMENT_FAILED"}
      BY <1>1
    <3>2. Has(stockOutbox, "inventory.reserved", o)
      BY <1>1, <3>1 DEF SagaInv, StatusInv, PaymentsInv, Paid, Declined
    <3> QED BY <3>2 DEF SagaInv, VerdictsInv, Has, Verdicts, InventoryVerdicts
  <2>2. \A p : Holds(p, {"RESERVED"})' => p # o /\ Holds(p, {"RESERVED"})
    <3>1. CASE Nothing
      BY <3>1 DEF Holds
    <3>2. CASE Settles
      BY <1>2, <1>3, <3>2 DEF Holds
    <3> QED BY <1>1, <3>1, <3>2
  <2>3. \A p, type : <<type, p, 1>> \in stockProcessed' =>
                        <<type, p, 1>> \in stockProcessed \/ p = o
    BY <1>1
  <2>4. \A p : \A type \in InventoryCommands :
           <<type, p, 1>> \in stockProcessed' =>
              /\ <<"order.created", p, 1>> \in stockProcessed'
              /\ ~Holds(p, {"RESERVED"})'
    BY <1>1, <2>1, <2>2, <2>3 DEF SagaInv, SettledInv
  <2>5. \A p \in DOMAIN reservations' :
           /\ reservations'[p].status = "COMMITTED" =>
                 p \in DOMAIN orders /\ orders[p].status = "COMPLETED"
           /\ reservations'[p].status = "RELEASED" =>
                 p \in DOMAIN orders /\ orders[p].status = "PAYMENT_FAILED"
    <3>1. CASE Nothing
      BY <3>1 DEF SagaInv, SettledInv
    <3>2. CASE Settles
      BY <1>1, <1>2, <1>3, <3>2 DEF SagaInv, SettledInv
    <3> QED BY <1>1, <3>1, <3>2
  <2> QED BY <2>4, <2>5 DEF SettledInv
<1>10. RejectionInv'
  <2>1. /\ DOMAIN stock' = DOMAIN stock
        /\ \A i \in DOMAIN stock : Unreturned(i)' = Unreturned(i)
    <3>1. CASE Nothing
      BY <3>1, SameReturned DEF Unreturned
    <3>2. CASE Settles
      <4>0. PICK item, quantity : item = r.item /\ quantity = r.quantity
        OBVIOUS
      <4>1. /\ item \in Items \cap DOMAIN stock
            /\ quantity \in Nat
            /\ stock[item].available \in Nat
            /\ stock'[item].available
                 = IF e.type = "inventory.release"
                   THEN stock[item].available + quantity ELSE stock[item].available
            /\ \A i \in DOMAIN stock : i # item => stock'[i] = stock[i]
        BY <1>2, <3>2, <4>0, StockFacts DEF SagaInv
      <4>2. \A i : Returned(i)' =
               IF i = item /\ e.type = "inventory.release"
               THEN Returned(i) \cup Ledger!Block(o, quantity)
               ELSE Returned(i)
        <5> TAKE i
        <5>1. Ledger!Units(reservations', i, "RELEASED") =
                IF i = row.item /\ "RELEASED" = r.status
                THEN Ledger!Units(reservations, i, "RELEASED") \ Ledger!Block(o, row.quantity)
                ELSE IF i = row.item /\ "RELEASED" = row.status
                THEN Ledger!Units(reservations, i, "RELEASED") \cup Ledger!Block(o, row.quantity)
                ELSE Ledger!Units(reservations, i, "RELEASED")
          BY <1>2, <1>3, <3>2, StockIsNatural, CommandsAreInbound, Ledger!UnitsOfSettled
        <5> QED BY <1>2, <1>3, <3>2, <4>0, <5>1, SameReturned
      <4>3. /\ Ledger!IsFiniteSet(Returned(item))
            /\ Returned(item) \cap Ledger!Block(o, quantity) = {}
        <5>1. Ledger!IsFiniteSet(Returned(item))
          BY <4>1, SameReturned DEF SagaInv, Ledger!LedgerInv, Ledger!Statuses
        <5>2. Ledger!Units(reservations, item, "RELEASED") \cap Ledger!Block(o, quantity) = {}
          BY <1>2, <3>2, <4>0, StockIsNatural, CommandsAreInbound, Ledger!UnitsOfRow
        <5> QED BY <5>1, <5>2, SameReturned
      <4>4. /\ Cardinality(Returned(item) \cup Ledger!Block(o, quantity))
                 = Cardinality(Returned(item)) + quantity
            /\ Cardinality(Returned(item)) \in Nat
        <5>1. Ledger!Cardinality(Returned(item) \cup Ledger!Block(o, quantity))
                = Ledger!Cardinality(Returned(item)) + quantity
          BY <4>1, <4>3, StockIsNatural, CommandsAreInbound, Ledger!AddBlock
        <5>2. Cardinality(Returned(item)) \in Nat
          BY <4>3, FS_CardinalityType DEF IsFiniteSet, Ledger!IsFiniteSet
        <5> QED BY <5>1, <5>2, SameCardinality
      <4>5. Unreturned(item)' = Unreturned(item)
        <5>1. CASE e.type = "inventory.release"
          <6>1. Cardinality(Returned(item)') = Cardinality(Returned(item)) + quantity
            BY <4>2, <4>4, <5>1
          <6> QED BY <4>1, <4>4, <5>1, <6>1 DEF Unreturned
        <5>2. CASE e.type # "inventory.release"
          BY <4>1, <4>2, <5>2 DEF Unreturned
        <5> QED BY <5>1, <5>2
      <4>6. ASSUME NEW i \in DOMAIN stock, i # item
            PROVE  Unreturned(i)' = Unreturned(i)
        BY <4>1, <4>2, <4>6 DEF Unreturned
      <4> QED BY <3>2, <4>5, <4>6
    <3> QED BY <1>1, <3>1, <3>2
  <2> QED BY <1>1, <1>4, <2>1 DEF SagaInv, RejectionInv
<1> QED BY <1>6, <1>7, <1>8, <1>9, <1>10 DEF SagaInv

\* A reset drops the reservations it deletes, and makes the item's orders early.
LEMMA NextReset ==
    ASSUME SagaInv, ResetStock,
           (Lifecycle!TypeOK /\ Lifecycle!AnnouncedMatchesStatus /\ Ledger!LedgerInv)'
    PROVE  SagaInv'
<1>1. PICK item \in Items, quantity \in StockLevels :
         /\ Inventory!SetStock(item, quantity)
         /\ early' = early \cup {o \in DOMAIN orders : orders[o].request.item = item}
  BY DEF ResetStock
<1>2. /\ DOMAIN stock' = DOMAIN stock \cup {item}
      /\ \A i \in DOMAIN stock : i # item => stock'[i] = stock[i]
      /\ \A o : o \in DOMAIN reservations' <=>
                   o \in DOMAIN reservations /\ reservations[o].item # item
      /\ \A o \in DOMAIN reservations' : reservations'[o] = reservations[o]
      /\ UNCHANGED <<stockProcessed, stockOutbox, unknown>>
  BY <1>1, ResetEffect
<1>3. /\ dropped' = dropped \cup (DOMAIN reservations \ DOMAIN reservations')
      /\ UNCHANGED <<orderVars, paymentVars, notifications>>
  BY DEF ResetStock
<1> USE DEF orderVars, paymentVars
<1>4. /\ Verdicts' = Verdicts
      /\ \A type, o : Event(type, o)' = Event(type, o)
  BY <1>2, <1>3 DEF Verdicts, Event
<1>5. EventsInv' /\ VerdictsInv' /\ PaymentsInv'
  <2>1. EventsInv' /\ PaymentsInv'
    BY <1>2, <1>3, <1>4 DEF SagaInv, EventsInv, PaymentsInv, Has
  <2>2. \A o : o \in DOMAIN reservations' \cup dropped' <=>
                  o \in DOMAIN reservations \cup dropped
    BY <1>2, <1>3
  <2>3. \A o \in DOMAIN reservations' :
           /\ o \notin dropped'
           /\ reservations'[o].item = orders'[o].request.item
           /\ reservations'[o].quantity = orders'[o].request.quantity
    BY <1>2, <1>3 DEF SagaInv, VerdictsInv
  <2>4. \A type, o : Has(stockOutbox', type, o) <=> Has(stockOutbox, type, o)
    BY <1>2 DEF Has
  <2> QED BY <1>2, <1>4, <2>1, <2>2, <2>3, <2>4 DEF SagaInv, VerdictsInv
<1>6. StatusInv' /\ SettledInv' /\ NotificationsInv'
  BY <1>2, <1>3 DEF SagaInv, StatusInv, SettledInv, NotificationsInv, Has, Holds, Paid, Declined
<1>7. RejectionInv'
  <2>1. ASSUME NEW i, i # item
        PROVE  Returned(i)' = Returned(i)
    BY <1>2, <2>1 DEF Returned, Inventory!Units, Inventory!ReservationsOf
  <2>2. \A i \in DOMAIN stock' : i # item => i \in DOMAIN stock /\ Unreturned(i)' = Unreturned(i)
    BY <1>2, <2>1 DEF Unreturned
  <2>3. \A o \in DOMAIN orders : orders[o].request.item = item => o \in early'
    BY <1>1
  <2>4. early \subseteq early'
    BY <1>1
  <2>5. \A e \in Verdicts : e.order \in DOMAIN orders
    BY DEF SagaInv, EventsInv
  <2> QED BY <1>2, <1>3, <1>4, <2>2, <2>3, <2>4, <2>5 DEF SagaInv, RejectionInv
<1> QED BY <1>5, <1>6, <1>7 DEF SagaInv

\* A payment is of an order that was reserved for, and its outcome is the row's.
LEMMA NextPayment ==
    ASSUME SagaInv, PaymentConsumes,
           (Lifecycle!TypeOK /\ Lifecycle!AnnouncedMatchesStatus /\ Ledger!LedgerInv)'
    PROVE  SagaInv'
<1>1. PICK e \in Routed("payment") : Payment!HandleReserved(e)
  BY DEF PaymentConsumes
<1> DEFINE o == e.order
           Nothing == o \in DOMAIN payments /\ UNCHANGED <<payments, paymentOutbox>>
           Pays(row) == /\ o \notin DOMAIN payments
                        /\ row.status \in {"SUCCEEDED", "FAILED"}
                        /\ payments' = Put(payments, o, row)
                        /\ paymentOutbox' = paymentOutbox
                              \cup {Event(Payment!OutcomeOf(row.status), o)}
<1>2. /\ o \in DOMAIN orders
      /\ e \in stockOutbox /\ e.type = "inventory.reserved"
      /\ paymentProcessed' = paymentProcessed \cup {<<"inventory.reserved", o, 1>>}
      /\ Nothing \/ \E row : Pays(row)
  BY <1>1, PaymentEffect
<1>3. Has(stockOutbox, "inventory.reserved", o)
  BY <1>2 DEF Has
<1> HIDE DEF o
<1>4. UNCHANGED <<orderVars, stockVars, notifications, history>>
  BY DEF PaymentConsumes
<1> USE DEF orderVars, stockVars, history
<1>5. /\ Verdicts' = Verdicts
      /\ \A type, p : /\ Event(type, p)' = Event(type, p)
                      /\ Event(type, p).type = type
                      /\ Event(type, p).order = p
      /\ \A status : Payment!OutcomeOf(status) \in PaymentOutcomes
  BY <1>4 DEF Verdicts, Event, Payment!OutcomeOf, PaymentOutcomes
<1>6. EventsInv' /\ PaymentsInv'
  <2>1. CASE Nothing
    BY <1>2, <1>4, <1>5, <2>1 DEF SagaInv, EventsInv, PaymentsInv, Has
  <2>2. ASSUME NEW row, Pays(row)
        PROVE  EventsInv' /\ PaymentsInv'
    <3>1. /\ DOMAIN payments' = DOMAIN payments \cup {o}
          /\ payments'[o] = row
          /\ \A p \in DOMAIN payments : payments'[p] = payments[p]
      BY <2>2 DEF Put
    <3>2. EventsInv'
      BY <1>2, <1>4, <1>5, <2>2 DEF SagaInv, EventsInv
    <3>3. /\ \A type, p : Has(paymentOutbox, type, p) => Has(paymentOutbox', type, p)
          /\ Has(paymentOutbox', Payment!OutcomeOf(row.status), o)
      BY <1>5, <2>2 DEF Has
    <3>4. \A p \in DOMAIN payments' :
             /\ payments'[p].status \in {"SUCCEEDED", "FAILED"}
             /\ Has(stockOutbox, "inventory.reserved", p)
             /\ Has(paymentOutbox', Payment!OutcomeOf(payments'[p].status), p)
      BY <1>3, <2>2, <3>1, <3>3 DEF SagaInv, PaymentsInv
    <3>5. \A x \in paymentOutbox' : /\ x.order \in DOMAIN payments'
                                    /\ x.type = Payment!OutcomeOf(payments'[x.order].status)
      BY <1>5, <2>2, <3>1 DEF SagaInv, PaymentsInv
    <3>6. \A p : <<"inventory.reserved", p, 1>> \in paymentProcessed' => p \in DOMAIN payments'
      BY <1>2, <3>1 DEF SagaInv, PaymentsInv
    <3> QED BY <1>4, <3>2, <3>4, <3>5, <3>6 DEF PaymentsInv
  <2> QED BY <1>2, <2>1, <2>2
<1>7. \A p \in DOMAIN payments : p \in DOMAIN payments' /\ payments'[p] = payments[p]
  BY <1>2 DEF Put
<1>8. VerdictsInv' /\ SettledInv' /\ NotificationsInv'
  BY <1>4, <1>5 DEF SagaInv, VerdictsInv, SettledInv, NotificationsInv, Has, Holds
<1>9. StatusInv'
  BY <1>4, <1>7 DEF SagaInv, StatusInv, Has, Paid, Declined
<1>10. RejectionInv'
  <2>1. \A item : Unreturned(item)' = Unreturned(item)
    BY <1>4 DEF Unreturned, Returned, Inventory!Units, Inventory!ReservationsOf
  <2> QED BY <1>4, <1>5, <2>1 DEF SagaInv, RejectionInv
<1> QED BY <1>6, <1>8, <1>9, <1>10 DEF SagaInv

\* A step of the notification service, or the parking of a message, changes none of
\* the other databases.
LEMMA NextNotify ==
    ASSUME SagaInv,
           (Lifecycle!TypeOK /\ Lifecycle!AnnouncedMatchesStatus /\ Ledger!LedgerInv)',
           UNCHANGED <<orderVars, stockVars, paymentVars, history>>,
           NotificationConsumes \/ UNCHANGED notifications
    PROVE  SagaInv'
<1> USE DEF orderVars, stockVars, paymentVars, history
<1>1. /\ Verdicts' = Verdicts
      /\ \A type, o : Event(type, o)' = Event(type, o)
  BY DEF Verdicts, Event
<1>2. EventsInv' /\ VerdictsInv' /\ PaymentsInv'
  BY <1>1 DEF SagaInv, EventsInv, VerdictsInv, PaymentsInv, Has
<1>3. StatusInv' /\ SettledInv'
  BY DEF SagaInv, StatusInv, SettledInv, Has, Holds, Paid, Declined
<1>4. NotificationsInv'
  <2>1. CASE UNCHANGED notifications
    BY <2>1 DEF SagaInv, NotificationsInv
  <2>2. CASE NotificationConsumes
    <3>1. PICK e \in Routed("notification") : Notification!Notify(e)
      BY <2>2 DEF NotificationConsumes
    <3>2. e \in orderOutbox /\ e.type \in OrderOutcomes
      BY <3>1, Deliveries
    <3>3. notifications' = [id \in DOMAIN notifications \cup {Id(e)} |->
                              IF id = Id(e)
                              THEN [order |-> e.order, kind |-> Notification!Kind(e.type)]
                              ELSE notifications[id]]
      BY <3>1 DEF Notification!Notify, Notification!Put, Notification!Id, Id
    <3>4. ASSUME NEW id \in DOMAIN notifications'
          PROVE  \E x \in orderOutbox :
                    /\ x.type \in OrderOutcomes
                    /\ id = Id(x)
                    /\ notifications'[id] = [order |-> x.order, kind |-> Notification!Kind(x.type)]
      <4>1. CASE id = Id(e)
        BY <3>2, <3>3, <4>1
      <4>2. CASE id # Id(e)
        <5>1. id \in DOMAIN notifications /\ notifications'[id] = notifications[id]
          BY <3>3, <4>2
        <5> QED BY <5>1 DEF SagaInv, NotificationsInv
      <4> QED BY <4>1, <4>2
    <3> QED BY <3>4 DEF NotificationsInv
  <2> QED BY <2>1, <2>2
<1>5. RejectionInv'
  <2>1. \A item : Unreturned(item)' = Unreturned(item)
    BY DEF Unreturned, Returned, Inventory!Units, Inventory!ReservationsOf
  <2> QED BY <1>1, <2>1 DEF SagaInv, RejectionInv
<1> QED BY <1>2, <1>3, <1>4, <1>5 DEF SagaInv

\* Every step of the choreography keeps the invariant.
LEMMA NextSagaInv == SagaInv /\ [Next]_vars => SagaInv'
<1> SUFFICES ASSUME SagaInv, [Next]_vars PROVE SagaInv'
  OBVIOUS
<1>1. CASE Next
  <2>1. (Lifecycle!TypeOK /\ Lifecycle!AnnouncedMatchesStatus /\ Ledger!LedgerInv)'
    BY <1>1, NextServices
  <2>2. CASE PlaceOrder
    BY <2>1, <2>2, NextPlace
  <2>3. CASE OrderConsumes
    BY <2>1, <2>3, NextAnswer
  <2>4. CASE InventoryConsumes
    BY <2>1, <2>4, NextFindNoItem, NextVerdict, NextSettlement DEF InventoryConsumes
  <2>5. CASE PaymentConsumes
    BY <2>1, <2>5, NextPayment
  <2>6. CASE NotificationConsumes
    <3>1. UNCHANGED <<orderVars, stockVars, paymentVars, history>>
      BY <2>6 DEF NotificationConsumes
    <3> QED BY <2>1, <2>6, <3>1, NextNotify
  <2>7. CASE ResetStock
    BY <2>1, <2>7, NextReset
  <2>8. ASSUME NEW queue \in Queues, Park(queue)
        PROVE  SagaInv'
    <3>1. UNCHANGED <<orderVars, stockVars, paymentVars, history>> /\ UNCHANGED notifications
      BY <2>8 DEF Park
    <3> QED BY <2>1, <3>1, NextNotify
  <2> QED BY <1>1, <2>2, <2>3, <2>4, <2>5, <2>6, <2>7, <2>8 DEF Next, Consume
<1>2. CASE UNCHANGED vars
  <2>1. Lifecycle!TypeOK' /\ Lifecycle!AnnouncedMatchesStatus'
    <3>1. UNCHANGED Lifecycle!vars
      BY <1>2 DEF vars, orderVars, Lifecycle!vars
    <3> QED BY <3>1, AnswersAreInbound, Lifecycle!NextTypeOK, Lifecycle!NextAnnounced DEF SagaInv
  <2>2. Ledger!LedgerInv'
    <3>1. UNCHANGED Ledger!vars
      BY <1>2 DEF vars, stockVars, Ledger!vars
    <3> QED BY <3>1, StockIsNatural, CommandsAreInbound, Ledger!NextLedgerInv DEF SagaInv
  <2>3. UNCHANGED <<orderVars, stockVars, paymentVars, history>> /\ UNCHANGED notifications
    BY <1>2 DEF vars
  <2> QED BY <2>1, <2>2, <2>3, NextNotify
<1> QED BY <1>1, <1>2

\* Before the first checkout all tables are empty.
LEMMA InitSagaInv == Init => SagaInv
<1> SUFFICES ASSUME Init PROVE SagaInv
  OBVIOUS
<1>1. /\ DOMAIN orders = {} /\ orderProcessed = {} /\ orderOutbox = {}
      /\ DOMAIN stock = {} /\ DOMAIN reservations = {} /\ stockProcessed = {}
      /\ stockOutbox = {} /\ unknown = {}
      /\ DOMAIN payments = {} /\ paymentProcessed = {} /\ paymentOutbox = {}
      /\ DOMAIN notifications = {} /\ dropped = {}
  BY DEF Init, Order!Init, Inventory!Init, Payment!Init, Notification!Init
<1>2. Lifecycle!Init /\ Ledger!Init
  BY OrderSteps, InventorySteps DEF Init
<1>3. Lifecycle!TypeOK /\ Lifecycle!AnnouncedMatchesStatus
  BY <1>2, AnswersAreInbound, Lifecycle!InitTypeOK, Lifecycle!InitAnnounced
<1>4. Ledger!LedgerInv
  BY <1>2, StockIsNatural, CommandsAreInbound, Ledger!InitLedgerInv
<1>5. /\ EventsInv /\ VerdictsInv /\ PaymentsInv /\ StatusInv /\ SettledInv
      /\ NotificationsInv /\ RejectionInv
  BY <1>1 DEF EventsInv, VerdictsInv, PaymentsInv, StatusInv, SettledInv, NotificationsInv,
              RejectionInv, Has, Verdicts
<1> QED BY <1>3, <1>4, <1>5 DEF SagaInv

\* The invariant holds in every state of every behaviour.
LEMMA SagaInvariant == Spec => []SagaInv
  BY InitSagaInv, NextSagaInv, PTL DEF Spec

--------------------------------------------------------------------------------
(* The properties *)

\* An order that was rejected was not reserved for.
LEMMA OneVerdict ==
    ASSUME SagaInv, NEW o, Has(stockOutbox, "inventory.rejected", o)
    PROVE  ~Has(stockOutbox, "inventory.reserved", o)
  BY DEF SagaInv, VerdictsInv, Has, Verdicts, InventoryVerdicts

\* A notification about an order is that of the outcome its status calls for.
LEMMA NotifiedOutcome ==
    ASSUME SagaInv, NEW o, NEW id \in Notification!About(o)
    PROVE  LET type == IF orders[o].status = "COMPLETED" THEN "order.completed" ELSE "order.failed"
           IN  /\ id = <<type, o, 1>>
               /\ orders[o].status \in {"COMPLETED", "REJECTED", "PAYMENT_FAILED"}
               /\ notifications[id].kind = Notification!Kind(type)
<1> DEFINE type == IF orders[o].status = "COMPLETED" THEN "order.completed" ELSE "order.failed"
<1>1. PICK e \in orderOutbox :
         /\ e.type \in OrderOutcomes
         /\ id = Id(e)
         /\ notifications[id] = [order |-> e.order, kind |-> Notification!Kind(e.type)]
  BY DEF SagaInv, NotificationsInv, Notification!About
<1>2. e.order = o /\ notifications[id].kind = Notification!Kind(e.type)
  BY <1>1 DEF Notification!About
<1>3. /\ e.n = 1
      /\ e.type \in Lifecycle!Due(orders[o].status)
      /\ orders[o].status \in Lifecycle!Statuses
  BY <1>1, <1>2, OrderFacts DEF SagaInv, OrderOutcomes
<1>4. /\ orders[o].status \in {"COMPLETED", "REJECTED", "PAYMENT_FAILED"}
      /\ e.type = type
  BY <1>1, <1>3 DEF Lifecycle!Due, Lifecycle!Statuses, Lifecycle!TERMINAL_STATUSES, OrderOutcomes
<1> QED BY <1>1, <1>2, <1>3, <1>4 DEF Id

\* The customer is told one outcome, the order's own.
LEMMA NotifiedOnce ==
    ASSUME SagaInv, NEW o
    PROVE  /\ Cardinality(Notification!About(o)) <= 1
           /\ \A id \in Notification!About(o) :
                 /\ orders[o].status \in {"COMPLETED", "REJECTED", "PAYMENT_FAILED"}
                 /\ notifications[id].kind = KindDue(orders[o].status)
<1> DEFINE type == IF orders[o].status = "COMPLETED" THEN "order.completed" ELSE "order.failed"
<1>1. ASSUME NEW id \in Notification!About(o)
      PROVE  /\ id = <<type, o, 1>>
             /\ orders[o].status \in {"COMPLETED", "REJECTED", "PAYMENT_FAILED"}
             /\ notifications[id].kind = Notification!Kind(type)
  BY NotifiedOutcome
<1>2. Cardinality(Notification!About(o)) <= 1
  <2>1. Notification!About(o) \subseteq {<<type, o, 1>>}
    BY <1>1
  <2>2. IsFiniteSet({<<type, o, 1>>}) /\ Cardinality({<<type, o, 1>>}) = 1
    BY FS_Singleton
  <2> QED BY <2>1, <2>2, FS_Subset
<1>3. Notification!Kind(type) = KindDue(orders[o].status)
  BY DEF Notification!Kind, KindDue
<1> QED BY <1>1, <1>2, <1>3

\* The invariant makes the databases agree.
LEMMA InvImpliesAgree == SagaInv => ServicesAgree
<1> SUFFICES ASSUME SagaInv, NEW o \in Orders
             PROVE  LET Is(status) == o \in DOMAIN orders /\ orders[o].status = status
                    IN  /\ Is("COMPLETED") => Paid(o)
                        /\ Is("PAYMENT_FAILED") => Declined(o)
                        /\ Is("REJECTED") => o \notin DOMAIN payments \cup DOMAIN reservations
                        /\ Holds(o, {"COMMITTED"}) => Is("COMPLETED")
                        /\ Holds(o, {"RELEASED"}) => Is("PAYMENT_FAILED")
                        /\ Cardinality(Notification!About(o)) <= 1
                        /\ \A id \in Notification!About(o) :
                              /\ orders[o].status \in Order!TERMINAL_STATUSES
                              /\ notifications[id].kind = KindDue(orders[o].status)
  BY DEF ServicesAgree
<1>1. o \in DOMAIN orders =>
         /\ orders[o].status = "COMPLETED" => Paid(o)
         /\ orders[o].status = "PAYMENT_FAILED" => Declined(o)
  BY DEF SagaInv, StatusInv
<1>2. o \in DOMAIN orders /\ orders[o].status = "REJECTED" =>
         o \notin DOMAIN payments \cup DOMAIN reservations
  BY OneVerdict DEF SagaInv, StatusInv, PaymentsInv, VerdictsInv
<1>3. /\ Holds(o, {"COMMITTED"}) => o \in DOMAIN orders /\ orders[o].status = "COMPLETED"
      /\ Holds(o, {"RELEASED"}) => o \in DOMAIN orders /\ orders[o].status = "PAYMENT_FAILED"
  BY DEF SagaInv, SettledInv, Holds
<1>4. Order!TERMINAL_STATUSES = {"COMPLETED", "REJECTED", "PAYMENT_FAILED"}
  BY DEF Order!TERMINAL_STATUSES
<1> QED BY <1>1, <1>2, <1>3, <1>4, NotifiedOnce

\* An order that is paid for was reserved for, and a released reservation is that of
\* a declined order.
LEMMA InvImpliesKept == SagaInv => PaidUnitsAreKept
<1> SUFFICES ASSUME SagaInv, NEW o \in Orders, Paid(o), o \notin dropped
             PROVE  Holds(o, {"RESERVED", "COMMITTED"})
  BY DEF PaidUnitsAreKept
<1>1. o \in DOMAIN reservations
  BY DEF SagaInv, PaymentsInv, VerdictsInv, Paid
<1>2. reservations[o].status \in {"RESERVED", "RELEASED", "COMMITTED"}
  BY <1>1, StockFacts DEF SagaInv
<1>3. reservations[o].status # "RELEASED"
  BY <1>1 DEF SagaInv, SettledInv, StatusInv, Paid, Declined
<1> QED BY <1>1, <1>2, <1>3 DEF Holds

\* If no unit of an item is reserved, no reservation of the item is held.
LEMMA NoneHeld ==
    ASSUME SagaInv, NEW item \in DOMAIN stock
    PROVE  stock[item].reserved = 0 <=>
              \A o \in DOMAIN reservations :
                  reservations[o].item = item => reservations[o].status # "RESERVED"
<1> DEFINE held == Ledger!Units(reservations, item, "RESERVED")
<1>1. /\ stock[item].reserved = Cardinality(held)
      /\ IsFiniteSet(held)
  BY StockFacts DEF SagaInv, Ledger!LedgerInv, Ledger!Statuses, IsFiniteSet, Ledger!IsFiniteSet
<1>2. stock[item].reserved = 0 <=> held = {}
  BY <1>1, FS_EmptySet
<1>3. ASSUME NEW o \in DOMAIN reservations,
             reservations[o].item = item, reservations[o].status = "RESERVED"
      PROVE  held # {}
  <2>1. reservations[o].quantity \in Nat \ {0}
    BY StockFacts DEF SagaInv
  <2>2. <<o, 1>> \in {o} \X (1..reservations[o].quantity)
    BY <2>1
  <2>3. <<o, 1>> \in held
    BY <1>3, <2>2 DEF Ledger!Units, Ledger!ReservationsOf
  <2> QED BY <2>3
<1>4. ASSUME held # {}
      PROVE  \E o \in DOMAIN reservations :
                reservations[o].item = item /\ reservations[o].status = "RESERVED"
  BY <1>4 DEF Ledger!Units, Ledger!ReservationsOf
<1> QED BY <1>2, <1>3, <1>4

\* When nothing is left to deliver, no reservation is held: its announcement was paid
\* for, the outcome of the payment has ended the order, and the order's command has
\* settled it.
LEMMA QuietMeansSettled ==
    ASSUME SagaInv, Quiescent, parked = {}, NEW o
    PROVE  ~Holds(o, {"RESERVED"})
<1> SUFFICES ASSUME Holds(o, {"RESERVED"}) PROVE FALSE
  OBVIOUS
<1>1. o \in DOMAIN payments
  <2>1. PICK e \in stockOutbox : e.type = "inventory.reserved" /\ e.order = o
    BY DEF SagaInv, VerdictsInv, Holds, Has
  <2>2. e \in Deliverable("payment") /\ e \in Verdicts
    BY <2>1 DEF Deliverable, Routed, Bindings, Verdicts, InventoryVerdicts
  <2>3. Id(e) = <<"inventory.reserved", o, 1>>
    BY <2>1, <2>2 DEF SagaInv, EventsInv, Event, Id
  <2> QED BY <2>2, <2>3 DEF Quiescent, SagaInv, PaymentsInv
<1>2. o \in DOMAIN orders /\ orders[o].status \in {"COMPLETED", "PAYMENT_FAILED"}
  <2>1. PICK e \in paymentOutbox : e.type \in PaymentOutcomes /\ e.order = o
    BY <1>1 DEF SagaInv, PaymentsInv, EventsInv, Has
  <2>2. e \in Deliverable("order")
    BY <2>1 DEF Deliverable, Routed, Bindings
  <2>3. Id(e) = <<e.type, o, 1>>
    BY <2>1 DEF SagaInv, EventsInv, Event, Id
  <2> QED BY <2>1, <2>2, <2>3 DEF Quiescent, SagaInv, StatusInv
<1>3. \E type \in InventoryCommands : <<type, o, 1>> \in stockProcessed
  <2>1. PICK type \in InventoryCommands : Has(orderOutbox, type, o)
    <3>1. \E type \in InventoryCommands : type \in Lifecycle!Due(orders[o].status)
      BY <1>2 DEF Lifecycle!Due, InventoryCommands
    <3> QED BY <1>2, <3>1, OrderFacts DEF SagaInv
  <2>2. PICK e \in orderOutbox : e.type = type /\ e.order = o
    BY <2>1 DEF Has
  <2>3. e \in Deliverable("inventory")
    BY <2>1, <2>2 DEF Deliverable, Routed, Bindings
  <2>4. Id(e) = <<type, o, 1>>
    BY <2>2 DEF SagaInv, EventsInv, Event, Id
  <2> QED BY <2>1, <2>3, <2>4 DEF Quiescent
<1> QED BY <1>3 DEF SagaInv, SettledInv

\* The buyers of an item are the orders whose reservation of it is committed.
LEMMA InvImpliesAddsUp == SagaInv => StockAddsUp
<1> SUFFICES ASSUME SagaInv, NEW item \in DOMAIN stock
             PROVE  /\ stock[item].reserved = 0 => stock[item].sold = Cardinality(Bought(item))
                    /\ Quiescent /\ parked = {} => stock[item].reserved = 0
  BY DEF StockAddsUp
<1>1. ASSUME stock[item].reserved = 0
      PROVE  stock[item].sold = Cardinality(Bought(item))
  <2> DEFINE buyers == {o \in DOMAIN orders \ dropped : /\ orders[o].status = "COMPLETED"
                                                        /\ orders[o].request.item = item}
             committed == Ledger!ReservationsOf(reservations, item, "COMMITTED")
  <2>1. \A o \in committed : o \in buyers
    BY DEF SagaInv, VerdictsInv, SettledInv, Ledger!ReservationsOf
  <2>2. ASSUME NEW o \in buyers PROVE o \in committed
    <3>1. o \in DOMAIN reservations /\ reservations[o].item = item
      BY DEF SagaInv, StatusInv, PaymentsInv, VerdictsInv, Paid
    <3>2. reservations[o].status \in {"RESERVED", "RELEASED", "COMMITTED"}
      BY <3>1, StockFacts DEF SagaInv
    <3>3. reservations[o].status # "RESERVED"
      BY <1>1, <3>1, NoneHeld
    <3>4. reservations[o].status # "RELEASED"
      BY <3>1 DEF SagaInv, SettledInv
    <3> QED BY <3>1, <3>2, <3>3, <3>4 DEF Ledger!ReservationsOf
  <2>3. \A o \in committed : reservations[o].quantity = orders[o].request.quantity
    BY DEF SagaInv, VerdictsInv, Ledger!ReservationsOf
  <2>4. Bought(item) = UNION {{o} \X (1..orders[o].request.quantity) : o \in buyers}
    BY DEF Bought
  <2>5. Ledger!Units(reservations, item, "COMMITTED")
          = UNION {{o} \X (1..reservations[o].quantity) : o \in committed}
    BY DEF Ledger!Units
  <2> HIDE DEF buyers, committed
  <2>6. buyers = committed
    BY <2>1, <2>2
  <2>7. Bought(item) = Ledger!Units(reservations, item, "COMMITTED")
    BY <2>3, <2>4, <2>5, <2>6
  <2> QED BY <2>7, StockFacts DEF SagaInv
<1>2. ASSUME Quiescent, parked = {}
      PROVE  stock[item].reserved = 0
  BY <1>2, QuietMeansSettled, NoneHeld DEF Holds
<1> QED BY <1>1, <1>2

\* A rejection is due to the stock.
LEMMA InvImpliesNeeded == SagaInv => NoNeedlessRejection
<1> SUFFICES ASSUME SagaInv, NEW o \in DOMAIN orders \ early, orders[o].status = "REJECTED",
                    orders[o].request.item \in DOMAIN stock
             PROVE  Unreturned(orders[o].request.item) < orders[o].request.quantity
  BY DEF NoNeedlessRejection, Unreturned
<1>1. PICK e \in stockOutbox : e.type = "inventory.rejected" /\ e.order = o
  BY DEF SagaInv, StatusInv, Has
<1>2. e \in Verdicts
  BY <1>1 DEF Verdicts, InventoryVerdicts
<1> QED BY <1>1, <1>2 DEF SagaInv, RejectionInv

\* For any number of orders and resets, with answers that are late, reordered, lost to
\* a dead-letter queue or contradicted by a reset: the four databases never contradict
\* each other about an order.
THEOREM ServicesAlwaysAgree == Spec => []ServicesAgree
  BY SagaInvariant, InvImpliesAgree, PTL

\* The units of a paid order stay held until they are sold, unless a reset drops them.
THEOREM PaidUnitsKept == Spec => []PaidUnitsAreKept
  BY SagaInvariant, InvImpliesKept, PTL

\* Whenever nothing is reserved, an item has sold what completed orders have bought,
\* and nothing is reserved once every event has been handled.
THEOREM StockAlwaysAddsUp == Spec => []StockAddsUp
  BY SagaInvariant, InvImpliesAddsUp, PTL

\* An order placed after the last reset of its item is rejected only if the units are
\* not on the shelf, those aside that declined orders have given back.
THEOREM NeverNeedlesslyRejected == Spec => []NoNeedlessRejection
  BY SagaInvariant, InvImpliesNeeded, PTL

--------------------------------------------------------------------------------
(* The services within the saga *)

\* The payment service takes steps of its ledger only.
LEMMA PaymentSteps ==
    ASSUME SagaInv, Next
    PROVE  [Payment!Next]_(Payment!vars)
<1>1. ASSUME UNCHANGED paymentVars
      PROVE  [Payment!Next]_(Payment!vars)
  BY <1>1 DEF paymentVars, Payment!vars
<1>2. CASE PaymentConsumes
  BY <1>2, Deliveries DEF PaymentConsumes, Payment!Next, Queues
<1>3. CASE PlaceOrder \/ OrderConsumes \/ InventoryConsumes \/ NotificationConsumes \/ ResetStock
  BY <1>1, <1>3 DEF PlaceOrder, OrderConsumes, InventoryConsumes, NotificationConsumes, ResetStock
<1>4. ASSUME NEW queue \in Queues, Park(queue)
      PROVE  UNCHANGED paymentVars
  BY <1>4 DEF Park
<1> QED BY <1>1, <1>2, <1>3, <1>4 DEF Next, Consume

\* In a checkout each service does what its own module says, whatever the other
\* services and the delivery do: the saga implements the three atomic services.
THEOREM ServicesKeepTheirSpecs == Spec => Lifecycle!Spec /\ Ledger!Spec /\ Payment!Spec
<1>1. Init => Lifecycle!Init /\ Ledger!Init /\ Payment!Init
  BY OrderSteps, InventorySteps DEF Init
<1>2. ASSUME SagaInv, [Next]_vars
      PROVE  /\ [Lifecycle!Next]_(Lifecycle!vars)
             /\ [Ledger!Next]_(Ledger!vars)
             /\ [Payment!Next]_(Payment!vars)
  <2>1. CASE Next
    BY <1>2, <2>1, ServiceSteps, PaymentSteps
  <2>2. CASE UNCHANGED vars
    BY <2>2 DEF vars, orderVars, stockVars, paymentVars,
                Lifecycle!vars, Ledger!vars, Payment!vars
  <2> QED BY <1>2, <2>1, <2>2
<1> QED BY <1>1, <1>2, SagaInvariant, PTL
        DEF Spec, Lifecycle!Spec, Ledger!Spec, Payment!Spec

\* What the statement-level modules suppose of the other services: an order gets one
\* verdict and one outcome, the outcome after a reservation (InventoryAnswers and
\* PaymentAnswers of OrderService), and the inventory service hears of an order once
\* and is told to commit or to release once (InboundPerOrder of InventoryService).
AnsweredOnce ==
    /\ \A e, f \in Routed("order") : e.order = f.order =>
          /\ e.type \in InventoryVerdicts /\ f.type \in InventoryVerdicts => e = f
          /\ e.type \in PaymentOutcomes /\ f.type \in PaymentOutcomes => e = f
    /\ \A e \in Routed("order") : e.type \in PaymentOutcomes =>
          \E f \in Routed("order") : f.type = "inventory.reserved" /\ f.order = e.order
    /\ \A e, f \in Routed("inventory") :
          e.order = f.order /\ (e.type = "order.created" <=> f.type = "order.created") => e = f

\* The invariant gives each of the three facts from the service that writes the events.
LEMMA InvImpliesAnsweredOnce == SagaInv => AnsweredOnce
<1> SUFFICES ASSUME SagaInv PROVE AnsweredOnce
  OBVIOUS
<1>1. ASSUME NEW e \in Routed("order"), NEW f \in Routed("order"), e.order = f.order
      PROVE  /\ e.type \in InventoryVerdicts /\ f.type \in InventoryVerdicts => e = f
             /\ e.type \in PaymentOutcomes /\ f.type \in PaymentOutcomes => e = f
  <2>1. InventoryVerdicts \cap PaymentOutcomes = {}
    BY DEF InventoryVerdicts, PaymentOutcomes
  <2>2. /\ e \in Verdicts \cup paymentOutbox /\ e = Event(e.type, e.order)
        /\ f \in Verdicts \cup paymentOutbox /\ f = Event(f.type, f.order)
    BY Deliveries DEF SagaInv, EventsInv
  <2>3. e.type \in InventoryVerdicts /\ f.type \in InventoryVerdicts => e.type = f.type
    BY <1>1, <2>1, Deliveries DEF SagaInv, VerdictsInv
  <2>4. e.type \in PaymentOutcomes /\ f.type \in PaymentOutcomes => e.type = f.type
    BY <1>1, <2>1, Deliveries DEF SagaInv, PaymentsInv, Verdicts
  <2> QED BY <1>1, <2>2, <2>3, <2>4
<1>2. ASSUME NEW e \in Routed("order"), e.type \in PaymentOutcomes
      PROVE  \E f \in Routed("order") : f.type = "inventory.reserved" /\ f.order = e.order
  <2>1. e \in paymentOutbox
    BY <1>2, Deliveries DEF Verdicts, InventoryVerdicts, PaymentOutcomes
  <2>2. PICK f \in stockOutbox : f.type = "inventory.reserved" /\ f.order = e.order
    BY <2>1 DEF SagaInv, PaymentsInv, Has
  <2>3. f \in Routed("order")
    BY <2>2 DEF Routed, Bindings, InventoryVerdicts
  <2> QED BY <2>2, <2>3
<1>3. ASSUME NEW e \in Routed("inventory"), NEW f \in Routed("inventory"), e.order = f.order,
             e.type = "order.created" <=> f.type = "order.created"
      PROVE  e = f
  <2>1. /\ e = Event(e.type, e.order) /\ f = Event(f.type, f.order)
        /\ e.order \in DOMAIN orders
    BY Deliveries DEF SagaInv, EventsInv
  <2>2. \A x \in Routed("inventory") : x.order \in DOMAIN orders /\ x.type # "order.created" =>
            /\ orders[x.order].status = "PAYMENT_FAILED" => x.type = "inventory.release"
            /\ orders[x.order].status # "PAYMENT_FAILED" => x.type = "inventory.commit"
    <3> SUFFICES ASSUME NEW x \in Routed("inventory"), x.order \in DOMAIN orders,
                        x.type # "order.created"
                 PROVE  /\ orders[x.order].status = "PAYMENT_FAILED" => x.type = "inventory.release"
                        /\ orders[x.order].status # "PAYMENT_FAILED" => x.type = "inventory.commit"
      OBVIOUS
    <3>1. x \in orderOutbox /\ x.type \in InventoryCommands
      BY Deliveries
    <3>2. /\ x.type \in Lifecycle!Due(orders[x.order].status)
          /\ orders[x.order].status \in Lifecycle!Statuses
      BY <3>1, OrderFacts DEF SagaInv, InventoryCommands
    <3> QED BY <3>1, <3>2 DEF InventoryCommands, Lifecycle!Due, Lifecycle!Statuses,
                              Lifecycle!TERMINAL_STATUSES
  <2>3. e.type = f.type
    BY <1>3, <2>1, <2>2
  <2> QED BY <1>3, <2>1, <2>3
<1> QED BY <1>1, <1>2, <1>3 DEF AnsweredOnce

\* The environments that OrderService and InventoryService are checked and proved in
\* are those that the other services provide.
THEOREM EnvironmentsAreReal == Spec => []AnsweredOnce
  BY SagaInvariant, InvImpliesAnsweredOnce, PTL

--------------------------------------------------------------------------------
(* The queues of the saga keep DeliveryContract *)

\* One queue as the contract sees it.
Delivery(queue) == INSTANCE DeliveryContract WITH
    Events  <- Messages(queue),
    written <- Routed(queue),
    effects <- [e \in Messages(queue) |->
                   IF e \in Routed(queue) /\ Id(e) \in Handled(queue) THEN 1 ELSE 0],
    parked  <- {e \in Messages(queue) : <<queue, e>> \in parked}

\* The events of a queue are told apart by their ids.
RoutedInv ==
    \A queue \in Queues :
        /\ Routed(queue) \subseteq Messages(queue)
        /\ \A e, f \in Routed(queue) : Id(e) = Id(f) => e = f

\* Only what was sent is handled.
HandledInv ==
    \A queue \in Queues : \A id \in Handled(queue) : \E e \in Routed(queue) : id = Id(e)

\* What a step can do to a queue: send it an event, handle one, park one, or nothing.
Sends(queue) ==
    /\ \E e : Routed(queue)' = Routed(queue) \cup {e}
    /\ Handled(queue)' = Handled(queue) /\ parked' = parked
Handles(queue) ==
    /\ \E e \in Routed(queue) : /\ Id(e) \notin Handled(queue)
                                /\ Handled(queue)' = Handled(queue) \cup {Id(e)}
    /\ Routed(queue)' = Routed(queue) /\ parked' = parked
Parks(queue) ==
    /\ \E q \in Queues : \E e \in Routed(q) : parked' = parked \cup {<<q, e>>}
    /\ Routed(queue)' = Routed(queue) /\ Handled(queue)' = Handled(queue)
Leaves(queue) ==
    /\ Routed(queue)' = Routed(queue) /\ Handled(queue)' = Handled(queue)
    /\ parked' = parked

\* An event is the one event of its type for its order, so its id names it.
LEMMA InvImpliesRouted == SagaInv => RoutedInv
<1> SUFFICES ASSUME SagaInv, NEW queue \in Queues
             PROVE  /\ Routed(queue) \subseteq Messages(queue)
                    /\ \A e, f \in Routed(queue) : Id(e) = Id(f) => e = f
  BY DEF RoutedInv
<1>1. \A e \in Routed(queue) : e \in Messages(queue) /\ e = Event(e.type, e.order)
  BY Deliveries
<1> QED BY <1>1 DEF Id

\* A step that writes at most one event bound to a queue sends it at most that one.
LEMMA Sending ==
    ASSUME NEW queue \in Queues, NEW events,
           (orderOutbox \cup stockOutbox \cup paymentOutbox)'
              = orderOutbox \cup stockOutbox \cup paymentOutbox \cup events,
           \A e, f \in events :
              e.type \in Bindings[queue] /\ f.type \in Bindings[queue] => e = f
    PROVE  \/ Routed(queue)' = Routed(queue)
           \/ \E e : Routed(queue)' = Routed(queue) \cup {e}
<1>1. Routed(queue)' = Routed(queue) \cup {e \in events : e.type \in Bindings[queue]}
  BY DEF Routed
<1>2. CASE \E e \in events : e.type \in Bindings[queue]
  <2>1. PICK e \in events : e.type \in Bindings[queue]
    BY <1>2
  <2>2. {f \in events : f.type \in Bindings[queue]} = {e}
    BY <2>1
  <2> QED BY <1>1, <2>2
<1>3. CASE ~\E e \in events : e.type \in Bindings[queue]
  BY <1>1, <1>3
<1> QED BY <1>2, <1>3

\* What the order service handles comes from the others, and its announcements go to
\* one queue each.
LEMMA OrderQueueStep ==
    ASSUME SagaInv, OrderConsumes, NEW queue \in Queues
    PROVE  Sends(queue) \/ Handles(queue) \/ Leaves(queue)
<1>1. PICK e \in Routed("order") : Order!HandleAnswer(e)
  BY DEF OrderConsumes
<1>2. /\ e.type \in InventoryVerdicts \cup PaymentOutcomes
      /\ orderOutbox \subseteq orderOutbox'
      /\ \A f \in orderOutbox' \ orderOutbox :
            /\ f.order = e.order /\ f = Event(f.type, f.order)
            /\ f.type \in Lifecycle!Announced(e.type)
      /\ orderProcessed' = orderProcessed \cup {Id(e)}
  BY <1>1, AnswerEffect
<1>3. Id(e) \notin orderProcessed
  BY <1>1, OrderSteps DEF Lifecycle!HandleAnswer, Lifecycle!Id, Id
<1>4. UNCHANGED <<stockVars, paymentVars, notifications, parked>>
  BY DEF OrderConsumes
<1> DEFINE events == orderOutbox' \ orderOutbox
<1>5. (orderOutbox \cup stockOutbox \cup paymentOutbox)'
         = orderOutbox \cup stockOutbox \cup paymentOutbox \cup events
  BY <1>2, <1>4 DEF stockVars, paymentVars
<1>6. \A q \in Queues : \A f, g \in events :
         f.type \in Bindings[q] /\ g.type \in Bindings[q] => q # "order" /\ f.type = g.type
  <2>1. \A f \in events : f.type \in Lifecycle!Announced(e.type)
    BY <1>2
  <2>2. \A q \in Queues : \A s, t \in Lifecycle!Announced(e.type) :
           s \in Bindings[q] /\ t \in Bindings[q] => q # "order" /\ s = t
    BY <1>2 DEF Lifecycle!Announced, Bindings, Queues, InventoryVerdicts, PaymentOutcomes,
                InventoryCommands, OrderOutcomes
  <2> QED BY <2>1, <2>2
<1>7. \A f, g \in events : f.type \in Bindings[queue] /\ g.type \in Bindings[queue] => f = g
  BY <1>2, <1>6
<1> HIDE DEF events
<1>8. CASE queue = "order"
  <2>1. \A f \in events : f.type \notin Bindings["order"]
    BY <1>6 DEF Queues
  <2>2. Routed("order")' = Routed("order")
    BY <1>5, <2>1 DEF Routed
  <2> QED BY <1>1, <1>2, <1>3, <1>4, <1>8, <2>2 DEF Handles, Handled
<1>9. CASE queue # "order"
  <2>1. Handled(queue)' = Handled(queue)
    BY <1>4, <1>9 DEF Handled, Queues, stockVars, paymentVars
  <2> QED BY <1>4, <1>5, <1>7, <2>1, Sending DEF Sends, Leaves
<1> QED BY <1>8, <1>9

\* The inventory service answers an order.created with one verdict, and nobody hears
\* of its receipts.
LEMMA InventoryQueueStep ==
    ASSUME SagaInv, InventoryConsumes, NEW queue \in Queues
    PROVE  Sends(queue) \/ Handles(queue) \/ Leaves(queue)
<1>1. UNCHANGED <<orderVars, paymentVars, notifications, parked>>
  BY DEF InventoryConsumes
<1>2. PICK e \in Routed("inventory") : \/ Inventory!FindNoItem(e)
                                       \/ Inventory!HandleOrderCreated(e)
                                       \/ Inventory!HandleSettlement(e)
  BY DEF InventoryConsumes
<1>3. Id(e) = Inventory!Id(e)
  BY DEF Id, Inventory!Id
<1>4. CASE Inventory!FindNoItem(e)
  BY <1>1, <1>4 DEF Inventory!FindNoItem, Leaves, Routed, Handled, orderVars, paymentVars, Queues
<1>5. ASSUME NEW x, stockOutbox' = stockOutbox \/ stockOutbox' = stockOutbox \cup {x},
             x.type \notin Bindings["inventory"],
             Id(e) \notin stockProcessed, stockProcessed' = stockProcessed \cup {Id(e)}
      PROVE  Sends(queue) \/ Handles(queue) \/ Leaves(queue)
  <2>1. CASE queue = "inventory"
    <3>1. Routed("inventory")' = Routed("inventory")
      BY <1>1, <1>5 DEF Routed, orderVars, paymentVars
    <3> QED BY <1>1, <1>5, <2>1, <3>1 DEF Handles, Handled
  <2>2. CASE queue # "inventory"
    <3>1. Handled(queue)' = Handled(queue)
      BY <1>1, <2>2 DEF Handled, Queues, orderVars, paymentVars
    <3>2. CASE stockOutbox' = stockOutbox
      BY <1>1, <3>1, <3>2 DEF Leaves, Routed, orderVars, paymentVars
    <3>3. CASE stockOutbox' = stockOutbox \cup {x}
      <4>1. (orderOutbox \cup stockOutbox \cup paymentOutbox)'
               = orderOutbox \cup stockOutbox \cup paymentOutbox \cup {x}
        BY <1>1, <3>3 DEF orderVars, paymentVars
      <4>2. \A f, g \in {x} :
               f.type \in Bindings[queue] /\ g.type \in Bindings[queue] => f = g
        OBVIOUS
      <4> QED BY <1>1, <3>1, <4>1, <4>2, Sending DEF Sends, Leaves
    <3> QED BY <1>5, <3>2, <3>3
  <2> QED BY <2>1, <2>2
<1>6. \A type \in InventoryVerdicts \cup InventoryReceipts : type \notin Bindings["inventory"]
  BY DEF Bindings, InventoryVerdicts, InventoryReceipts, InventoryCommands
<1>7. CASE Inventory!HandleOrderCreated(e)
  <2>1. /\ Id(e) \notin stockProcessed /\ stockProcessed' = stockProcessed \cup {Id(e)}
        /\ \/ stockOutbox' = stockOutbox
           \/ stockOutbox' = stockOutbox \cup {Event("inventory.reserved", e.order)}
           \/ stockOutbox' = stockOutbox \cup {Event("inventory.rejected", e.order)}
    BY <1>7, VerdictEffect
  <2>2. /\ Event("inventory.reserved", e.order).type \in InventoryVerdicts
        /\ Event("inventory.rejected", e.order).type \in InventoryVerdicts
    BY DEF Event, InventoryVerdicts
  <2> QED BY <1>5, <1>6, <2>1, <2>2
<1>8. CASE Inventory!HandleSettlement(e)
  <2>1. Id(e) \notin stockProcessed /\ stockProcessed' = stockProcessed \cup {Id(e)}
    BY <1>3, <1>8, SettlementEffect DEF Inventory!HandleSettlement
  <2>2. \/ stockOutbox' = stockOutbox
        \/ \E x : x.type \in InventoryReceipts /\ stockOutbox' = stockOutbox \cup {x}
    BY <1>8, SettlementEffect
  <2>3. \E x : x.type \in InventoryReceipts /\ (\/ stockOutbox' = stockOutbox
                                                \/ stockOutbox' = stockOutbox \cup {x})
    <3>1. [type |-> "inventory.released"].type \in InventoryReceipts
      BY DEF InventoryReceipts
    <3> QED BY <2>2, <3>1
  <2> QED BY <1>5, <1>6, <2>1, <2>3
<1> QED BY <1>2, <1>4, <1>7, <1>8

\* A reservation is answered with one outcome.
LEMMA PaymentQueueStep ==
    ASSUME SagaInv, PaymentConsumes, NEW queue \in Queues
    PROVE  Sends(queue) \/ Handles(queue) \/ Leaves(queue)
<1>1. UNCHANGED <<orderVars, stockVars, notifications, parked>>
  BY DEF PaymentConsumes
<1>2. PICK e \in Routed("payment") : Payment!HandleReserved(e)
  BY DEF PaymentConsumes
<1>3. Id(e) \notin paymentProcessed
  BY <1>2 DEF Payment!HandleReserved, Payment!Id, Id
<1>4. PICK x : /\ x.type \in PaymentOutcomes
               /\ paymentOutbox' = paymentOutbox \/ paymentOutbox' = paymentOutbox \cup {x}
               /\ paymentProcessed' = paymentProcessed \cup {Id(e)}
  <2>1. \A status : /\ Event(Payment!OutcomeOf(status), e.order).type = Payment!OutcomeOf(status)
                    /\ Payment!OutcomeOf(status) \in PaymentOutcomes
    BY DEF Event, Payment!OutcomeOf, PaymentOutcomes
  <2> QED BY <1>2, <2>1, PaymentEffect
<1>5. x.type \notin Bindings["payment"]
  BY <1>4 DEF Bindings, PaymentOutcomes
<1>6. CASE queue = "payment"
  <2>1. Routed("payment")' = Routed("payment")
    BY <1>1, <1>4, <1>5 DEF Routed, orderVars, stockVars
  <2> QED BY <1>1, <1>3, <1>4, <1>6, <2>1 DEF Handles, Handled
<1>7. CASE queue # "payment"
  <2>1. Handled(queue)' = Handled(queue)
    BY <1>1, <1>7 DEF Handled, Queues, orderVars, stockVars
  <2>2. CASE paymentOutbox' = paymentOutbox
    BY <1>1, <2>1, <2>2 DEF Leaves, Routed, orderVars, stockVars
  <2>3. CASE paymentOutbox' = paymentOutbox \cup {x}
    <3>1. (orderOutbox \cup stockOutbox \cup paymentOutbox)'
             = orderOutbox \cup stockOutbox \cup paymentOutbox \cup {x}
      BY <1>1, <2>3 DEF orderVars, stockVars
    <3>2. \A f, g \in {x} : f.type \in Bindings[queue] /\ g.type \in Bindings[queue] => f = g
      OBVIOUS
    <3> QED BY <1>1, <2>1, <3>1, <3>2, Sending DEF Sends, Leaves
  <2> QED BY <1>4, <2>2, <2>3
<1> QED BY <1>6, <1>7

\* Every step of the saga sends a queue one event, handles one, parks one, or none.
LEMMA QueueStep ==
    ASSUME SagaInv, Next, NEW queue \in Queues
    PROVE  Sends(queue) \/ Handles(queue) \/ Parks(queue) \/ Leaves(queue)
<1>1. CASE PlaceOrder
  <2>1. UNCHANGED <<stockVars, paymentVars, notifications, parked>>
    BY <1>1 DEF PlaceOrder
  <2>2. PICK x : orderOutbox' = orderOutbox \cup {x} /\ orderProcessed' = orderProcessed
    BY <1>1 DEF PlaceOrder, Order!CreateOrder
  <2>3. Handled(queue)' = Handled(queue)
    BY <2>1, <2>2 DEF Handled, Queues, stockVars, paymentVars
  <2>4. (orderOutbox \cup stockOutbox \cup paymentOutbox)'
           = orderOutbox \cup stockOutbox \cup paymentOutbox \cup {x}
    BY <2>1, <2>2 DEF stockVars, paymentVars
  <2>5. \A f, g \in {x} : f.type \in Bindings[queue] /\ g.type \in Bindings[queue] => f = g
    OBVIOUS
  <2> QED BY <2>1, <2>3, <2>4, <2>5, Sending DEF Sends, Leaves
<1>2. CASE OrderConsumes
  BY <1>2, OrderQueueStep
<1>3. CASE InventoryConsumes
  BY <1>3, InventoryQueueStep
<1>4. CASE PaymentConsumes
  BY <1>4, PaymentQueueStep
<1>5. CASE NotificationConsumes
  <2>1. UNCHANGED <<orderVars, stockVars, paymentVars, parked>>
    BY <1>5 DEF NotificationConsumes
  <2>2. PICK e \in Routed("notification") : Notification!Notify(e)
    BY <1>5 DEF NotificationConsumes
  <2>3. Routed(queue)' = Routed(queue)
    BY <2>1 DEF Routed, orderVars, stockVars, paymentVars
  <2>4. /\ Id(e) \notin DOMAIN notifications
        /\ DOMAIN notifications' = DOMAIN notifications \cup {Id(e)}
    BY <2>2 DEF Notification!Notify, Notification!Put, Notification!Id, Id
  <2>5. CASE queue = "notification"
    BY <2>1, <2>2, <2>3, <2>4, <2>5 DEF Handles, Handled
  <2>6. CASE queue # "notification"
    BY <2>1, <2>3, <2>6 DEF Leaves, Handled, Queues, orderVars, stockVars, paymentVars
  <2> QED BY <2>5, <2>6
<1>6. CASE ResetStock
  <2>1. UNCHANGED <<orderVars, paymentVars, notifications, parked, stockProcessed, stockOutbox>>
    BY <1>6, ResetEffect DEF ResetStock
  <2> QED BY <2>1 DEF Leaves, Routed, Handled, Queues, orderVars, paymentVars
<1>7. ASSUME NEW q \in Queues, Park(q)
      PROVE  Parks(queue)
  <2>1. UNCHANGED <<orderVars, stockVars, paymentVars, notifications>>
    BY <1>7 DEF Park
  <2>2. \E e \in Routed(q) : parked' = parked \cup {<<q, e>>}
    BY <1>7 DEF Park, Deliverable
  <2> QED BY <2>1, <2>2 DEF Parks, Routed, Handled, Queues, orderVars, stockVars, paymentVars
<1> QED BY <1>1, <1>2, <1>3, <1>4, <1>5, <1>6, <1>7 DEF Next, Consume

\* No queue forgets an event it was sent, and no service handles what was not sent.
LEMMA NextHandledInv ==
    ASSUME SagaInv, HandledInv, [Next]_vars
    PROVE  HandledInv'
<1> SUFFICES ASSUME NEW queue \in Queues, NEW id \in Handled(queue)'
             PROVE  \E e \in Routed(queue)' : id = Id(e)
  BY DEF HandledInv
<1>1. \A x \in Handled(queue) : \E e \in Routed(queue) : x = Id(e)
  BY DEF HandledInv
<1>2. CASE Next
  <2>1. Sends(queue) \/ Handles(queue) \/ Parks(queue) \/ Leaves(queue)
    BY <1>2, QueueStep
  <2> QED BY <1>1, <2>1 DEF Sends, Handles, Parks, Leaves
<1>3. CASE UNCHANGED vars
  <2>1. Handled(queue)' = Handled(queue) /\ Routed(queue)' = Routed(queue)
    BY <1>3 DEF vars, orderVars, stockVars, paymentVars, Handled, Routed, Queues
  <2> QED BY <1>1, <2>1
<1> QED BY <1>2, <1>3

\* A step of a queue is a step of the contract: a new event has no effect yet, the
\* effect of a handled one is its first.
LEMMA ContractStep ==
    ASSUME SagaInv, RoutedInv, RoutedInv', HandledInv, [Next]_vars, NEW queue \in Queues
    PROVE  [Delivery(queue)!Next]_(Delivery(queue)!vars)
<1> DEFINE Effect(e) == IF e \in Routed(queue) /\ Id(e) \in Handled(queue) THEN 1 ELSE 0
           effects == [e \in Messages(queue) |-> Effect(e)]
           letters == {e \in Messages(queue) : <<queue, e>> \in parked}
<1>1. /\ Routed(queue) \subseteq Messages(queue) /\ Routed(queue)' \subseteq Messages(queue)
      /\ \A e, f \in Routed(queue) : Id(e) = Id(f) => e = f
      /\ \A e, f \in Routed(queue)' : Id(e) = Id(f) => e = f
      /\ \A id \in Handled(queue) : \E e \in Routed(queue) : id = Id(e)
  BY DEF RoutedInv, HandledInv
<1>2. CASE Routed(queue)' = Routed(queue) /\ Handled(queue)' = Handled(queue) /\ parked' = parked
  <2>1. effects' = effects /\ letters' = letters
    BY <1>2
  <2> QED BY <1>2, <2>1 DEF Delivery!vars
<1>3. CASE Sends(queue)
  <2>1. PICK e : Routed(queue)' = Routed(queue) \cup {e}
    BY <1>3 DEF Sends
  <2>2. Handled(queue)' = Handled(queue) /\ letters' = letters
    BY <1>3 DEF Sends
  <2>3. CASE e \in Routed(queue)
    BY <1>2, <1>3, <2>1, <2>3 DEF Sends
  <2>4. CASE e \notin Routed(queue)
    <3>1. e \in Messages(queue)
      BY <1>1, <2>1
    <3>2. Id(e) \notin Handled(queue)
      BY <1>1, <2>1, <2>4
    <3>3. \A f \in Messages(queue) : Effect(f)' = Effect(f)
      BY <2>1, <2>2, <3>2
    <3>4. effects' = effects
      BY <3>3
    <3>5. Delivery(queue)!Write(e)
      BY <2>1, <2>2, <2>4, <3>4 DEF Delivery!Write
    <3> QED BY <3>1, <3>5 DEF Delivery!Next
  <2> QED BY <2>3, <2>4
<1>4. CASE Handles(queue)
  <2>1. PICK e \in Routed(queue) : /\ Id(e) \notin Handled(queue)
                                   /\ Handled(queue)' = Handled(queue) \cup {Id(e)}
    BY <1>4 DEF Handles
  <2>2. Routed(queue)' = Routed(queue) /\ letters' = letters
    BY <1>4 DEF Handles
  <2>3. e \in Messages(queue)
    BY <1>1
  <2>4. \A f \in Messages(queue) : Effect(f)' = IF f = e THEN 1 ELSE Effect(f)
    BY <1>1, <2>1, <2>2
  <2>5. effects' = [effects EXCEPT ![e] = 1] /\ effects[e] = 0
    BY <2>1, <2>3, <2>4
  <2>6. Delivery(queue)!TakeEffect(e)
    BY <2>2, <2>5 DEF Delivery!TakeEffect
  <2> QED BY <2>3, <2>6 DEF Delivery!Next
<1>5. CASE Parks(queue)
  <2>1. PICK q \in Queues : \E e \in Routed(q) : parked' = parked \cup {<<q, e>>}
    BY <1>5 DEF Parks
  <2>2. PICK e \in Routed(q) : parked' = parked \cup {<<q, e>>}
    BY <2>1
  <2>3. Routed(queue)' = Routed(queue) /\ effects' = effects
    BY <1>5 DEF Parks
  <2>4. CASE q = queue
    <3>1. e \in Messages(queue) /\ letters' = letters \cup {e}
      BY <1>1, <2>2, <2>4
    <3>2. Delivery(queue)!Park(e)
      BY <2>2, <2>3, <2>4, <3>1 DEF Delivery!Park
    <3> QED BY <3>1, <3>2 DEF Delivery!Next
  <2>5. CASE q # queue
    <3>1. letters' = letters
      BY <2>2, <2>5
    <3> QED BY <2>3, <3>1 DEF Delivery!vars
  <2> QED BY <2>4, <2>5
<1>6. CASE Next
  BY <1>2, <1>3, <1>4, <1>5, <1>6, QueueStep DEF Leaves
<1>7. CASE UNCHANGED vars
  <2>1. Routed(queue)' = Routed(queue) /\ Handled(queue)' = Handled(queue) /\ parked' = parked
    BY <1>7 DEF vars, orderVars, stockVars, paymentVars, Handled, Routed, Queues
  <2> QED BY <1>2, <2>1
<1> QED BY <1>6, <1>7

\* Before the first checkout the queues are empty.
LEMMA InitContract ==
    ASSUME Init, NEW queue \in Queues
    PROVE  Delivery(queue)!Init /\ HandledInv
<1>1. \A q \in Queues : Routed(q) = {} /\ Handled(q) = {}
  BY DEF Init, Order!Init, Inventory!Init, Payment!Init, Notification!Init, Routed, Handled, Queues
<1>2. {e \in Messages(queue) : <<queue, e>> \in parked} = {}
  BY DEF Init
<1> QED BY <1>1, <1>2 DEF Delivery!Init, HandledInv

\* Each queue of the saga keeps the contract of event delivery: an event takes effect
\* at most once, and only events that were committed are delivered or parked.
THEOREM QueuesKeepContract ==
    ASSUME NEW queue \in Queues
    PROVE  Spec => Delivery(queue)!Spec
<1>1. Init => Delivery(queue)!Init /\ HandledInv
  BY InitContract
<1>2. SagaInv /\ HandledInv /\ [Next]_vars => HandledInv'
  BY NextHandledInv
<1>3. SagaInv => RoutedInv
  BY InvImpliesRouted
<1>4. SagaInv /\ RoutedInv /\ RoutedInv' /\ HandledInv /\ [Next]_vars
         => [Delivery(queue)!Next]_(Delivery(queue)!vars)
  BY ContractStep
<1> QED BY <1>1, <1>2, <1>3, <1>4, SagaInvariant, PTL DEF Spec, Delivery!Spec

--------------------------------------------------------------------------------
(* Nothing is lost, and an end is the end *)

\* What was handled has had its consequence, also when it came out of turn: an order
\* that was looked at got its verdict, and a rejection that was heard ended the
\* checkout. (A status that waits for the payment is what makes a rejection void.)
ProgressInv ==
    /\ \A o : <<"order.created", o, 1>> \in stockProcessed =>
          Has(stockOutbox, "inventory.reserved", o) \/ Has(stockOutbox, "inventory.rejected", o)
    /\ \A o : <<"inventory.rejected", o, 1>> \in orderProcessed =>
          o \in DOMAIN orders /\ orders[o].status \in {"COMPLETED", "REJECTED", "PAYMENT_FAILED"}
    /\ \A o \in DOMAIN orders :
          orders[o].status = "INVENTORY_RESERVED" => Has(stockOutbox, "inventory.reserved", o)

\* An answer that is heard ends the checkout or moves it on.
LEMMA AnswerProgress ==
    ASSUME SagaInv, ProgressInv, OrderConsumes
    PROVE  ProgressInv'
<1>1. PICK e \in Routed("order") : Order!HandleAnswer(e)
  BY DEF OrderConsumes
<1> DEFINE o == e.order
           Over(status) == status \in {"COMPLETED", "REJECTED", "PAYMENT_FAILED"}
<1>2. /\ o \in DOMAIN orders
      /\ e.type \in InventoryVerdicts \cup PaymentOutcomes
      /\ DOMAIN orders' = DOMAIN orders
      /\ \A p \in DOMAIN orders : p # o => orders'[p] = orders[p]
      /\ orders'[o].status \in {orders[o].status, StatusFor(e.type)}
      /\ Over(orders[o].status) => orders'[o].status = orders[o].status
      /\ orders[o].status = "PENDING" => orders'[o].status = StatusFor(e.type)
      /\ orderProcessed' = orderProcessed \cup {Id(e)}
  BY <1>1, AnswerEffect
<1>3. UNCHANGED <<stockProcessed, stockOutbox>>
  BY DEF OrderConsumes, stockVars
<1>4. e \in Routed("order") /\ (e.type \in InventoryVerdicts => Has(stockOutbox, e.type, o))
  BY Deliveries DEF Verdicts, Has, InventoryVerdicts, PaymentOutcomes
<1>5. orders[o].status \in {"PENDING", "INVENTORY_RESERVED", "COMPLETED", "REJECTED", "PAYMENT_FAILED"}
  BY <1>2, OrderFacts DEF SagaInv, Lifecycle!Statuses, Lifecycle!TERMINAL_STATUSES
<1>6. e.type = "inventory.rejected" => Over(orders'[o].status)
  <2> SUFFICES ASSUME e.type = "inventory.rejected" PROVE Over(orders'[o].status)
    OBVIOUS
  <2>1. StatusFor(e.type) = "REJECTED"
    BY DEF StatusFor
  <2>2. ~Has(stockOutbox, "inventory.reserved", o)
    BY <1>4, OneVerdict DEF InventoryVerdicts
  <2>3. orders[o].status # "INVENTORY_RESERVED"
    BY <1>2, <2>2 DEF ProgressInv
  <2> QED BY <1>2, <1>5, <2>1, <2>3
<1>7. orders'[o].status = "INVENTORY_RESERVED" =>
         orders[o].status = "INVENTORY_RESERVED" \/ e.type = "inventory.reserved"
  BY <1>2 DEF StatusFor, InventoryVerdicts, PaymentOutcomes
<1>8. Id(e)[1] = e.type /\ Id(e)[2] = o
  BY DEF Id
<1>9. ASSUME NEW p, <<"inventory.rejected", p, 1>> \in orderProcessed'
      PROVE  p \in DOMAIN orders' /\ Over(orders'[p].status)
  <2>1. CASE <<"inventory.rejected", p, 1>> \in orderProcessed
    BY <1>2, <2>1 DEF ProgressInv
  <2>2. CASE <<"inventory.rejected", p, 1>> = Id(e)
    BY <1>2, <1>6, <1>8, <2>2
  <2> QED BY <1>2, <1>9, <2>1, <2>2
<1>10. ASSUME NEW p \in DOMAIN orders', orders'[p].status = "INVENTORY_RESERVED"
       PROVE  Has(stockOutbox', "inventory.reserved", p)
  BY <1>2, <1>3, <1>4, <1>7, <1>10 DEF ProgressInv, InventoryVerdicts, Has
<1> QED BY <1>3, <1>9, <1>10 DEF ProgressInv, Has

\* An order that the inventory service has looked at gets a verdict, once.
LEMMA VerdictProgress ==
    ASSUME SagaInv, ProgressInv, InventoryConsumes
    PROVE  ProgressInv'
<1>1. PICK e \in Routed("inventory") : \/ Inventory!FindNoItem(e)
                                       \/ Inventory!HandleOrderCreated(e)
                                       \/ Inventory!HandleSettlement(e)
  BY DEF InventoryConsumes
<1>2. UNCHANGED <<orders, orderProcessed>>
  BY DEF InventoryConsumes, orderVars
<1>3. ASSUME stockOutbox \subseteq stockOutbox',
             \A o : <<"order.created", o, 1>> \in stockProcessed' \ stockProcessed =>
                \/ Has(stockOutbox', "inventory.reserved", o)
                \/ Has(stockOutbox', "inventory.rejected", o)
      PROVE  ProgressInv'
  <2>1. \A type, o : Has(stockOutbox, type, o) => Has(stockOutbox', type, o)
    BY <1>3 DEF Has
  <2>2. ASSUME NEW o, <<"order.created", o, 1>> \in stockProcessed'
        PROVE  \/ Has(stockOutbox', "inventory.reserved", o)
               \/ Has(stockOutbox', "inventory.rejected", o)
    BY <1>3, <2>1, <2>2 DEF ProgressInv
  <2> QED BY <1>2, <2>1, <2>2 DEF ProgressInv, Has
<1>4. CASE Inventory!FindNoItem(e)
  BY <1>3, <1>4 DEF Inventory!FindNoItem
<1>5. CASE Inventory!HandleOrderCreated(e)
  <2> DEFINE o == e.order
  <2>1. /\ Id(e) = <<"order.created", o, 1>>
        /\ stockProcessed' = stockProcessed \cup {Id(e)}
        /\ \/ o \in DOMAIN reservations /\ stockOutbox' = stockOutbox
           \/ stockOutbox' = stockOutbox \cup {Event("inventory.reserved", o)}
           \/ stockOutbox' = stockOutbox \cup {Event("inventory.rejected", o)}
    BY <1>5, VerdictEffect
  <2>2. \A type : Event(type, o).type = type /\ Event(type, o).order = o
    BY DEF Event
  <2>3. o \in DOMAIN reservations => Has(stockOutbox, "inventory.reserved", o)
    BY DEF SagaInv, VerdictsInv
  <2>4. stockOutbox \subseteq stockOutbox'
    BY <2>1
  <2>5. Has(stockOutbox', "inventory.reserved", o) \/ Has(stockOutbox', "inventory.rejected", o)
    BY <2>1, <2>2, <2>3 DEF Has
  <2>6. \A p : <<"order.created", p, 1>> \in stockProcessed' \ stockProcessed => p = o
    BY <2>1
  <2> QED BY <1>3, <2>4, <2>5, <2>6
<1>6. CASE Inventory!HandleSettlement(e)
  <2>1. /\ e.type \in InventoryCommands
        /\ Id(e) = <<e.type, e.order, 1>>
        /\ stockProcessed' = stockProcessed \cup {Id(e)}
        /\ \/ stockOutbox' = stockOutbox
           \/ \E x : stockOutbox' = stockOutbox \cup {x}
    BY <1>6, SettlementEffect
  <2>2. \A o : <<"order.created", o, 1>> \notin stockProcessed' \ stockProcessed
    BY <2>1 DEF InventoryCommands
  <2>3. stockOutbox \subseteq stockOutbox'
    BY <2>1
  <2> QED BY <1>3, <2>2, <2>3
<1> QED BY <1>1, <1>4, <1>5, <1>6

\* No other step handles an event of these two queues.
LEMMA NextProgressInv == SagaInv /\ ProgressInv /\ [Next]_vars => ProgressInv'
<1> SUFFICES ASSUME SagaInv, ProgressInv, [Next]_vars PROVE ProgressInv'
  OBVIOUS
<1>1. CASE PlaceOrder
  <2>1. PICK request \in Requests, order \in Orders : Order!CreateOrder(order, request, order)
    BY <1>1 DEF PlaceOrder
  <2>2. /\ order \notin DOMAIN orders
        /\ DOMAIN orders' = DOMAIN orders \cup {order}
        /\ orders'[order].status = "PENDING"
        /\ \A o \in DOMAIN orders : orders'[o] = orders[o]
        /\ orderProcessed' = orderProcessed
    BY <2>1, PlaceEffect
  <2>3. UNCHANGED <<stockProcessed, stockOutbox>>
    BY <1>1 DEF PlaceOrder, stockVars
  <2> QED BY <2>2, <2>3 DEF ProgressInv, Has
<1>2. CASE UNCHANGED <<orders, orderProcessed, stockProcessed, stockOutbox>>
  BY <1>2 DEF ProgressInv, Has
<1>3. CASE PaymentConsumes \/ NotificationConsumes \/ UNCHANGED vars
  BY <1>2, <1>3 DEF PaymentConsumes, NotificationConsumes, vars, orderVars, stockVars
<1>4. CASE ResetStock
  BY <1>2, <1>4, ResetEffect DEF ResetStock, orderVars
<1>5. ASSUME NEW queue \in Queues, Park(queue)
      PROVE  ProgressInv'
  BY <1>2, <1>5 DEF Park, orderVars, stockVars
<1> QED BY <1>1, <1>3, <1>4, <1>5, AnswerProgress, VerdictProgress DEF Next, Consume

\* Without a checkout nothing has been handled.
LEMMA InitProgressInv == Init => ProgressInv
  BY DEF Init, Order!Init, Inventory!Init, ProgressInv

\* An event that an order does not wait for was handled.
LEMMA HandledUnlessAwaited ==
    ASSUME SagaInv, NEW o, ~Awaited(o), NEW queue \in Queues, NEW type \in Bindings[queue],
           Has(orderOutbox \cup stockOutbox \cup paymentOutbox, type, o)
    PROVE  <<type, o, 1>> \in Handled(queue)
<1>1. PICK e \in orderOutbox \cup stockOutbox \cup paymentOutbox : e.type = type /\ e.order = o
  BY DEF Has
<1>2. e \in Routed(queue)
  BY <1>1 DEF Routed
<1>3. Id(e) = <<type, o, 1>>
  BY <1>1, <1>2, Deliveries DEF Event, Id
<1> QED BY <1>1, <1>2, <1>3 DEF Awaited

\* The same for each kind of event, on its own database.
LEMMA HandledByAll ==
    ASSUME SagaInv, NEW o, ~Awaited(o)
    PROVE  /\ \A type \in {"order.created"} \cup InventoryCommands :
                 Has(orderOutbox, type, o) => <<type, o, 1>> \in stockProcessed
           /\ \A type \in OrderOutcomes :
                 Has(orderOutbox, type, o) => <<type, o, 1>> \in DOMAIN notifications
           /\ \A type \in InventoryVerdicts :
                 Has(stockOutbox, type, o) => <<type, o, 1>> \in orderProcessed
           /\ Has(stockOutbox, "inventory.reserved", o) =>
                 <<"inventory.reserved", o, 1>> \in paymentProcessed
           /\ \A type \in PaymentOutcomes :
                 Has(paymentOutbox, type, o) => <<type, o, 1>> \in orderProcessed
<1> DEFINE Written(type) == Has(orderOutbox \cup stockOutbox \cup paymentOutbox, type, o)
<1>1. \A type : /\ Has(orderOutbox, type, o) => Written(type)
                /\ Has(stockOutbox, type, o) => Written(type)
                /\ Has(paymentOutbox, type, o) => Written(type)
  BY DEF Has
<1> HIDE DEF Written
<1>2. ASSUME NEW type \in Bindings["inventory"], Written(type)
      PROVE  <<type, o, 1>> \in stockProcessed
  <2>1. <<type, o, 1>> \in Handled("inventory")
    BY <1>2, HandledUnlessAwaited DEF Queues, Written
  <2> QED BY <2>1 DEF Handled
<1>3. ASSUME NEW type \in Bindings["notification"], Written(type)
      PROVE  <<type, o, 1>> \in DOMAIN notifications
  <2>1. <<type, o, 1>> \in Handled("notification")
    BY <1>3, HandledUnlessAwaited DEF Queues, Written
  <2> QED BY <2>1 DEF Handled
<1>4. ASSUME NEW type \in Bindings["order"], Written(type)
      PROVE  <<type, o, 1>> \in orderProcessed
  <2>1. <<type, o, 1>> \in Handled("order")
    BY <1>4, HandledUnlessAwaited DEF Queues, Written
  <2> QED BY <2>1 DEF Handled
<1>5. ASSUME NEW type \in Bindings["payment"], Written(type)
      PROVE  <<type, o, 1>> \in paymentProcessed
  <2>1. <<type, o, 1>> \in Handled("payment")
    BY <1>5, HandledUnlessAwaited DEF Queues, Written
  <2> QED BY <2>1 DEF Handled
<1>6. /\ Bindings["order"] = InventoryVerdicts \cup PaymentOutcomes
      /\ Bindings["inventory"] = {"order.created"} \cup InventoryCommands
      /\ Bindings["payment"] = {"inventory.reserved"}
      /\ Bindings["notification"] = OrderOutcomes
  BY DEF Bindings
<1> QED BY <1>1, <1>2, <1>3, <1>4, <1>5, <1>6

\* An order that waits for nothing has got its verdict, its payment if it was reserved
\* for, and with them its outcome.
LEMMA OutcomeUnlessAwaited ==
    ASSUME SagaInv, ProgressInv, NEW o \in DOMAIN orders, ~Awaited(o)
    PROVE  orders[o].status \in {"COMPLETED", "REJECTED", "PAYMENT_FAILED"}
<1>1. <<"order.created", o, 1>> \in stockProcessed
  BY OrderFacts, HandledByAll DEF SagaInv
<1>2. CASE Has(stockOutbox, "inventory.rejected", o)
  <2>1. <<"inventory.rejected", o, 1>> \in orderProcessed
    BY <1>2, HandledByAll DEF InventoryVerdicts
  <2> QED BY <2>1 DEF ProgressInv
<1>3. CASE Has(stockOutbox, "inventory.reserved", o)
  <2>1. <<"inventory.reserved", o, 1>> \in paymentProcessed
    BY <1>3, HandledByAll
  <2>2. PICK type \in PaymentOutcomes : Has(paymentOutbox, type, o)
    BY <2>1 DEF SagaInv, PaymentsInv, PaymentOutcomes, Payment!OutcomeOf
  <2>3. <<type, o, 1>> \in orderProcessed
    BY <2>2, HandledByAll
  <2> QED BY <2>3 DEF SagaInv, StatusInv
<1> QED BY <1>1, <1>2, <1>3 DEF ProgressInv

\* A reservation that is held no more is settled the way the status calls for, unless
\* a reset has dropped it.
LEMMA SettledByStatus ==
    ASSUME SagaInv, NEW o \in DOMAIN orders, ~Holds(o, {"RESERVED"})
    PROVE  /\ orders[o].status = "COMPLETED" => Holds(o, {"COMMITTED"}) \/ o \in dropped
           /\ orders[o].status = "PAYMENT_FAILED" => Holds(o, {"RELEASED"}) \/ o \in dropped
<1> SUFFICES ASSUME orders[o].status \in {"COMPLETED", "PAYMENT_FAILED"}, o \notin dropped
             PROVE  /\ orders[o].status = "COMPLETED" => Holds(o, {"COMMITTED"})
                    /\ orders[o].status = "PAYMENT_FAILED" => Holds(o, {"RELEASED"})
  OBVIOUS
<1>1. o \in DOMAIN payments
  BY DEF SagaInv, StatusInv, Paid, Declined
<1>2. o \in DOMAIN reservations
  BY <1>1 DEF SagaInv, PaymentsInv, VerdictsInv
<1>3. reservations[o].status \in {"RELEASED", "COMMITTED"}
  BY <1>2, StockFacts DEF SagaInv, Holds
<1>4. /\ reservations[o].status = "COMMITTED" => orders[o].status = "COMPLETED"
      /\ reservations[o].status = "RELEASED" => orders[o].status = "PAYMENT_FAILED"
  BY <1>2 DEF SagaInv, SettledInv
<1> QED BY <1>2, <1>3, <1>4 DEF Holds

\* So an order that waits for nothing has come to its end on all four services.
LEMMA FinishedUnlessAwaited ==
    ASSUME SagaInv, ProgressInv, NEW o \in DOMAIN orders, ~Awaited(o)
    PROVE  Finished(o)
<1> DEFINE status == orders[o].status
<1>1. status \in {"COMPLETED", "REJECTED", "PAYMENT_FAILED"}
  BY OutcomeUnlessAwaited
<1>2. Notification!About(o) # {}
  <2>1. PICK type \in OrderOutcomes : type \in Lifecycle!Due(status)
    BY <1>1 DEF Lifecycle!Due, OrderOutcomes
  <2>2. <<type, o, 1>> \in DOMAIN notifications
    BY <2>1, OrderFacts, HandledByAll DEF SagaInv
  <2>3. PICK e \in orderOutbox :
           /\ <<type, o, 1>> = Id(e)
           /\ notifications[<<type, o, 1>>] = [order |-> e.order, kind |-> Notification!Kind(e.type)]
    BY <2>2 DEF SagaInv, NotificationsInv
  <2>4. e.order = o
    BY <2>3 DEF Id
  <2> QED BY <2>2, <2>3, <2>4 DEF Notification!About
<1>3. status # "REJECTED" => ~Holds(o, {"RESERVED"})
  <2> SUFFICES ASSUME status # "REJECTED" PROVE ~Holds(o, {"RESERVED"})
    OBVIOUS
  <2>1. PICK type \in InventoryCommands : type \in Lifecycle!Due(status)
    BY <1>1 DEF Lifecycle!Due, InventoryCommands
  <2>2. <<type, o, 1>> \in stockProcessed
    BY <2>1, OrderFacts, HandledByAll DEF SagaInv
  <2> QED BY <2>2 DEF SagaInv, SettledInv
<1>4. /\ status = "COMPLETED" => Holds(o, {"COMMITTED"}) \/ o \in dropped
      /\ status = "PAYMENT_FAILED" => Holds(o, {"RELEASED"}) \/ o \in dropped
  BY <1>3, SettledByStatus
<1> QED BY <1>1, <1>2, <1>4 DEF Finished, Order!TERMINAL_STATUSES

\* The invariant holds in every state of every behaviour.
LEMMA ProgressInvariant == Spec => []ProgressInv
  BY InitProgressInv, NextProgressInv, SagaInvariant, PTL DEF Spec

\* The safety half of CheckoutsFinish, without its fairness: a checkout that is not
\* over waits for an event that one of the queues has not handled. It is never stuck in
\* between, however late, reordered or parked the events about it were, and when every
\* event has been handled every checkout is over.
THEOREM NoCheckoutIsLost == Spec => []NothingIsLost
<1>1. SagaInv /\ ProgressInv => NothingIsLost
  BY FinishedUnlessAwaited DEF NothingIsLost
<1> QED BY <1>1, SagaInvariant, ProgressInvariant, PTL

\* A settled reservation is left alone until a reset drops it.
LEMMA SettledStays ==
    ASSUME SagaInv, Next, NEW o, NEW status \in {"RELEASED", "COMMITTED"}, Holds(o, {status})
    PROVE  Holds(o, {status})' \/ o \in dropped'
<1>1. o \in DOMAIN reservations /\ reservations[o].status = status
  BY DEF Holds
<1>2. ASSUME o \in DOMAIN reservations', reservations'[o] = reservations[o]
      PROVE  Holds(o, {status})'
  BY <1>1, <1>2 DEF Holds
<1>3. CASE InventoryConsumes
  <2>1. PICK e \in Routed("inventory") : \/ Inventory!FindNoItem(e)
                                         \/ Inventory!HandleOrderCreated(e)
                                         \/ Inventory!HandleSettlement(e)
    BY <1>3 DEF InventoryConsumes
  <2>2. CASE Inventory!FindNoItem(e)
    BY <1>1, <1>2, <2>2 DEF Inventory!FindNoItem
  <2>3. ASSUME NEW k, NEW row, k # o, reservations' = Put(reservations, k, row)
        PROVE  Holds(o, {status})'
    BY <1>1, <1>2, <2>3 DEF Put
  <2>4. CASE Inventory!HandleOrderCreated(e)
    <3>1. \/ reservations' = reservations
          \/ \E row : e.order # o /\ reservations' = Put(reservations, e.order, row)
      BY <1>1, <2>4, VerdictEffect
    <3> QED BY <1>1, <1>2, <2>3, <3>1
  <2>5. CASE Inventory!HandleSettlement(e)
    <3>1. \/ reservations' = reservations
          \/ \E row : /\ Holds(e.order, {"RESERVED"})
                      /\ reservations' = Put(reservations, e.order, row)
      BY <2>5, SettlementEffect
    <3>2. ~Holds(o, {"RESERVED"})
      BY <1>1 DEF Holds
    <3> QED BY <1>1, <1>2, <2>3, <3>1, <3>2
  <2> QED BY <2>1, <2>2, <2>4, <2>5
<1>4. CASE ResetStock
  <2>1. /\ \A p \in DOMAIN reservations' : reservations'[p] = reservations[p]
        /\ dropped' = dropped \cup (DOMAIN reservations \ DOMAIN reservations')
    BY <1>4, ResetEffect DEF ResetStock
  <2> QED BY <1>1, <1>2, <2>1
<1>5. CASE UNCHANGED reservations
  BY <1>1, <1>2, <1>5
<1>6. CASE PlaceOrder \/ OrderConsumes \/ PaymentConsumes \/ NotificationConsumes
  BY <1>5, <1>6 DEF PlaceOrder, OrderConsumes, PaymentConsumes, NotificationConsumes, stockVars
<1>7. ASSUME NEW queue \in Queues, Park(queue)
      PROVE  UNCHANGED reservations
  BY <1>7 DEF Park, stockVars
<1> QED BY <1>3, <1>4, <1>5, <1>6, <1>7 DEF Next, Consume

\* What was dropped stays dropped, what was told stays told.
LEMMA HistoryStays ==
    ASSUME Next
    PROVE  /\ dropped \subseteq dropped'
           /\ \A o : Notification!About(o) \subseteq Notification!About(o)'
<1>1. CASE NotificationConsumes
  <2>1. UNCHANGED history
    BY <1>1 DEF NotificationConsumes
  <2>2. PICK e \in Routed("notification") : Notification!Notify(e)
    BY <1>1 DEF NotificationConsumes
  <2>3. \A id \in DOMAIN notifications :
           id \in DOMAIN notifications' /\ notifications'[id] = notifications[id]
    BY <2>2 DEF Notification!Notify, Notification!Put
  <2> QED BY <2>1, <2>3 DEF history, Notification!About
<1>2. CASE ResetStock
  BY <1>2 DEF ResetStock, Notification!About
<1>3. CASE UNCHANGED <<notifications, history>>
  BY <1>3 DEF history, Notification!About
<1>4. CASE PlaceOrder \/ OrderConsumes \/ InventoryConsumes \/ PaymentConsumes
  BY <1>3, <1>4 DEF PlaceOrder, OrderConsumes, InventoryConsumes, PaymentConsumes
<1>5. ASSUME NEW queue \in Queues, Park(queue)
      PROVE  UNCHANGED <<notifications, history>>
  BY <1>5 DEF Park
<1> QED BY <1>1, <1>2, <1>3, <1>4, <1>5 DEF Next, Consume

\* An order has one notification at most.
ToldOnce == \A o : \A x, y \in Notification!About(o) : x = y

LEMMA InvImpliesToldOnce == SagaInv => ToldOnce
  BY NotifiedOutcome DEF ToldOnce

\* An order that is over stays over, with its status.
LEMMA OutcomeStays ==
    ASSUME SagaInv, Next, NEW o \in DOMAIN orders,
           orders[o].status \in {"COMPLETED", "REJECTED", "PAYMENT_FAILED"}
    PROVE  o \in DOMAIN orders' /\ orders'[o].status = orders[o].status
<1>1. [Lifecycle!Monotonic]_(Lifecycle!vars)
  BY ServiceSteps, AnswersAreInbound, Lifecycle!NextMonotonic DEF SagaInv
<1>2. CASE Lifecycle!Monotonic
  BY <1>2 DEF Lifecycle!Monotonic, Lifecycle!TERMINAL_STATUSES
<1>3. CASE UNCHANGED Lifecycle!vars
  BY <1>3 DEF Lifecycle!vars
<1> QED BY <1>1, <1>2, <1>3

\* One notification has been sent and no order gets a second one.
LEMMA NextStayFinished ==
    ASSUME SagaInv, ToldOnce', Next
    PROVE  StayFinished
<1> SUFFICES ASSUME NEW o \in DOMAIN orders, Finished(o)
             PROVE  /\ Finished(o)'
                    /\ orders'[o].status = orders[o].status
                    /\ Notification!About(o)' = Notification!About(o)
  BY DEF StayFinished
<1>1. /\ orders[o].status \in {"COMPLETED", "REJECTED", "PAYMENT_FAILED"}
      /\ Notification!About(o) # {}
      /\ orders[o].status = "COMPLETED" => Holds(o, {"COMMITTED"}) \/ o \in dropped
      /\ orders[o].status = "PAYMENT_FAILED" => Holds(o, {"RELEASED"}) \/ o \in dropped
  BY DEF Finished, Order!TERMINAL_STATUSES
<1>2. o \in DOMAIN orders' /\ orders'[o].status = orders[o].status
  BY <1>1, OutcomeStays
<1>3. Notification!About(o)' = Notification!About(o)
  <2>1. Notification!About(o) \subseteq Notification!About(o)'
    BY HistoryStays
  <2>2. \A x, y \in Notification!About(o)' : x = y
    BY DEF ToldOnce
  <2> QED BY <1>1, <2>1, <2>2
<1>4. /\ orders[o].status = "COMPLETED" => Holds(o, {"COMMITTED"})' \/ o \in dropped'
      /\ orders[o].status = "PAYMENT_FAILED" => Holds(o, {"RELEASED"})' \/ o \in dropped'
  BY <1>1, SettledStays, HistoryStays
<1> QED BY <1>1, <1>2, <1>3, <1>4 DEF Finished, Order!TERMINAL_STATUSES

\* With NoCheckoutIsLost, what liveness leaves to fairness is that events are handled.
THEOREM FinishedStays == Spec => FinishedForGood
<1>1. SagaInv /\ ToldOnce' /\ [Next]_vars => [StayFinished]_vars
  BY NextStayFinished
<1> QED BY <1>1, InvImpliesToldOnce, SagaInvariant, PTL DEF Spec, FinishedForGood

================================================================================
