# ResilientCart: TLA+ models, model checking and proofs

ResilientCart is a checkout saga of five Python services over PostgreSQL and
RabbitMQ: transactional outboxes, idempotent consumers, row locks, delayed
retries, dead-letter queues. This directory holds TLA+ modules translated from
`src/app`, the TLC configurations that check them on small instances, and proofs
of their main theorems for TLAPS.

## 1. The system

```
client -> gateway -> order service --outbox--> exchange --+--> inventory-service-events
                         ^                                +--> order-service-events
                         |                                +--> payment-service-events
                   inventory, payment --outbox--> exchange+--> notification-service-events
```

Every service has its own database. A handler reads one event from the service's
queue and commits its changes, a `processed_events` row and its own events (rows
of `outbox_events`) in one transaction; a background thread publishes the rows.

| Component | State | Operations | What is hard | What makes it correct |
|---|---|---|---|---|
| Checkout saga (bindings in the four `main.py`) | the four databases, the queues | place an order, consume per queue, reset stock, park | late, reordered and parked events, resets during a checkout | services never contradict each other; paid units are kept; every checkout finishes |
| Order service (`order_service/`) | `orders`, `processed_events`, `outbox_events` | `create_order`, `handle_domain_event` | racing requests with one key, cut-off requests, contradicting and reordered answers, no row lock | one order per key; monotonic status; announcements match the status |
| Inventory service (`inventory_service/`) | `inventory_items`, `reservations`, `processed_events`, outbox | `set_stock`, seeding, `handle_domain_event` | row locks in two orders (deadlock), an unlocked missing row, resets, duplicates | counters equal reservations; no overselling; one verdict per order |
| Payment service (`payment_service/`) | `payments`, `processed_events`, outbox | `handle_domain_event` | two handlers within one provider delay, two events of an order | one payment, one outcome per order |
| Notification service (`notification_service/`) | `notifications` | `handle_domain_event` | duplicates | one notification of the right kind per order |
| Outbox publisher (`common/outbox.py`) | locked batch, open transaction, the publisher's connection | `run_forever`, `publish_batch`, `stop` | several replicas polling, a crash between publish and commit, a partial batch, `stop()` closing the connection under the thread, an idle connection the broker has closed, a rollback that raises | no committed event is lost; copies only after faults; only confirmed rows are marked; faults of one kind are survived |
| Broker connection (`common/messaging.py`) | connection, channel, topology, deliveries | `publish`, `close`, `_connect`, `_consume`, `_on_message`, `stop` | redelivery during a long handler, `x-death` counting, parking, missing queue, `stop()` while connecting | at most one effect per event, settled in the end; retry budget; the consumer comes back and can be stopped |
| Service process (`lifespan` of the four `main.py`, `common/database.py`) | tables and seeded item, two daemon threads | start-up attempts, seeding, start, shutdown, exit | databases that are not ready, another replica starting too, a stop in the middle of everything | threads find their tables; every start and every stop comes to an end |
| Gateway (`gateway/main.py`) | the calls it waits for | `checkout`, `get_order`, `set_inventory` | 10 s timeout against a late answer, retries, shared, reused and missing keys | one order per key; the order told was asked for; a shown outcome stays |
| Events (`common/events.py`) | none | `create_event` | - | fresh ids |

Observability, deployment files, scripts and load tests keep no state that the
services decide from, and are not modelled; `PROJECT.json` lists them, and lists
under "hazards" what is hard to test, at its line.

## 2. The modules

| Module | What it is |
|---|---|
| `Events` | event envelope, routing keys by group, tables (`Put`, `Delete`, `IsTable`) |
| `OrderLifecycle` | abstract order service: atomic `CreateOrder` and `HandleAnswer` |
| `OrderService` | the same, statement by statement, with request threads and consumers |
| `InventoryLedger` | abstract inventory service: atomic `SetStock`, `HandleOrderCreated`, `HandleSettlement` |
| `InventoryService` | the same, statement by statement, with row locks, deadlock detection, unique keys |
| `PaymentLedger` | abstract payment service: atomic `HandleReserved` |
| `PaymentService` | the same, statement by statement; nothing is locked, the primary keys decide |
| `Notifications` | the notification table and its idempotent insert |
| `Gateway` | clients, the gateway's waiting, and `OrderService` behind it |
| `ServiceProcess` | one replica of any of the four services from start to exit, with its two daemon threads |
| `DeliveryContract` | abstract delivery: at most one effect per event, effect or parking in the end |
| `EventDelivery` | outbox threads, exchange, main, retry and dead-letter queue, consumer threads |
| `Saga` | `OrderLifecycle`, `InventoryLedger`, `PaymentLedger`, `Notifications`, joined by bindings |
| `OrderLifecycleProofs`, `InventoryLedgerProofs` | theorems about the abstract services |
| `OrderServiceProofs` (with `Gateway`), `InventoryServiceProofs`, `PaymentServiceProofs` (with `PaymentLedger`) | theorems about the statement-level services |
| `EventDeliveryProofs`, `ServiceProcessProofs`, `SagaProofs` | theorems about delivery, the process, the whole checkout |
| `MC*` | instances for TLC |

The layers fit together like this: each statement-level service is shown to
implement its atomic specification (`ImplementsLifecycle`, `ImplementsLedger`).
`OrderService` and `PaymentService` extend the module of that specification, so
their refinement mapping is the identity on the tables and the specification's
invariants are checked of the statements directly; `Gateway` extends `OrderService`
in turn. `InventoryService` instantiates its ledger.
`EventDelivery` is shown to implement `DeliveryContract`; `Saga` composes the
atomic services with a delivery that does what the contract allows.

### How state and actions correspond to the code

- A table is a function from primary keys to rows. A committed outbox row is a
  member of `outbox`; `processed` is the table `processed_events`. Whether a row
  is published matters in `EventDelivery` only, which keeps it there.
- An event's `event_id` (a uuid4) is the triple of type, order and number `n`.
  Payloads keep the fields some handler reads. Timestamps, correlation ids, trace
  contexts, texts and provider references are left out.
- In the statement-level modules a step is one statement that other transactions
  can observe or wait for. An INSERT or UPDATE takes effect with the commit that
  flushes it; the unique keys are checked in the same step. `FOR UPDATE` is the
  wait until no other transaction holds the row (`Free`), with the read after it.
  A handler writes what it computed from the copy it read, also a stale one.
- An `IntegrityError`, a crash and a lost connection end the transaction and leave
  the tables alone (`RejectedByKey`, `Crash`); the event stays deliverable.
- `FOR UPDATE` of a missing row locks nothing. `InventoryLedger` therefore has
  `FindNoItem`: the rejection `item_not_found` may be committed after the item was
  inserted. The atomic specification would be wrong without it.
- `EventDelivery` numbers events by `created_at`. `SelectBatch` is the
  `SKIP LOCKED` query, `PublishRow` one confirmed publish, `CommitBatch` the
  commit; `AbandonBatch` is an exception or a crash before it. The steps of
  `_on_message` are `Receive`, `Skip`/`TakeEffect`/`Raise`, `Ack`, `Nack`, `Park`.
  A prefetched message nobody works on counts as queued.
- `Gateway`: `Checkout` puts a request on its way, `Begin` is a thread of the order
  service taking it up (`Lookup` of `OrderService`), `Work` its other statements,
  `Respond` the answer. `TimeOut` is the 503 after 10 s: it changes what the gateway
  waits for and nothing else, so the request is served, or taken up, later. `Poll`
  is a client's GET until `StillAsks` is over.
- `ServiceProcess` has three threads: `main` follows the lifespan (the operators
  `order_lifespan` to `notification_lifespan` say in what the four differ),
  `consumer` follows `ReliableConsumer.run_forever`, `relay` follows
  `OutboxPublisher.run_forever`. A step ends where another thread can see or change
  what the next one uses: `stop()` is four to six steps (`SetConsumerStop`,
  `CheckConnection`, `AddCallback`, `SetOutboxStop`, `CloseConnection`,
  `ClearConnection`), `_ensure_connection` three (`Connect`, `CreateChannel`,
  `DeclareExchange`). A callback that was added for an old channel is `"old"`. A
  broker connection is `"lost"` from an `Outage`, or from `LoseConnection`, until its
  next use: pika's `is_open` (`IsOpen`) does not know before. `LoseConnection` is what
  RabbitMQ does to a publisher that was idle between two batches and answered no
  heartbeats, with nothing out. `session = "lost"` is a database connection that died
  inside a transaction. Start-up of the inventory service is `FindSeed`, and if it finds
  nothing `set_stock`: `SelectSeed` looks again and goes on to `ResetSeed`, for the item
  of a faster replica, or to `InsertSeed`. `Exit` ends the daemon threads where they are.
- `Saga` has one action per service, `ResetStock` for `PUT /stock/{item_id}`, and
  `Park` for a message whose retries are used up. A parked event may still be
  handled, from another copy of its message or when an operator replays the queue.

Operators named `X_Something` just before a definition `X` are mutations of it:
plausible bugs that the properties have to notice. `PROJECT.json` says which
property has to fail under which mutation.

## 3. What is checked

| Run | Bounds | What it shows |
|---|---|---|
| `inventory_ledger` | 3 orders (one and two units), 2 items, 2 units of stock, resets at any time, `order.created` under two ids | counters equal the reservations, no overselling, units conserved, settled reservations final |
| `inventory_service` | 2 consumers, 1 `set_stock` thread, 2 orders wanting 3 of 2 units, 2 `set_stock` calls, 1 crash | refinement of the ledger; one verdict per order; every deadlock is one between a `set_stock` and a settlement, which lock in opposite orders; still every transaction ends |
| `order_single` | 1 consumer, 2 request threads, 1 key, 1 crash | refinement of the lifecycle; announcements match the status; status monotonic; every decided order reaches its outcome |
| `order_competing` | 2 consumers, 2 request threads, 2 keys, 1 crash | one order per key; one outcome announced, once |
| `order_lost_update` | 2 consumers, no crash | **violation**, see findings |
| `payment_service` | 3 consumers, one order announced under two ids, a declined one, 2 crashes | refinement of the ledger; one payment and one outcome per order |
| `event_delivery` | 2 events (one never handled), 2 publishers, 2 consumers, batches of 2, 2 retries, 2 faults | published events are kept; copies only after faults; retry budget |
| `event_delivery_contract` | the same with 1 retry, 1 fault | refinement of the contract, with its liveness |
| `event_delivery_first_boot` | 1 publisher, 1 consumer that never ran, no fault | **violation**, see findings |
| `saga` | 2 orders for one item, a failing customer's of one unit or a paying one's of two, 3 units of stock, 2 resets, 1 parked message | the databases agree, paid units are kept, stock adds up for whoever looks, nobody is turned down without need; a checkout that is not over waits for some event, one that is over stays as it is; every checkout finishes on all services or has a parked event |
| `gateway` | a keyed client posting twice, another one with the same key and another body, a keyless one posting twice; 2 request threads, 1 consumer, 2 order ids, one order answered, 1 crash | a key makes one order; the order told exists and was asked for; a shown outcome stays |
| `service_process` | a service that seeds and publishes and one that does neither, 2 starts, 2 faults (outages of database or broker, connections lost alone), 2 attempts, 1 outbox row, another replica creating tables | only confirmed rows are marked; threads find their tables; `stop()` reaches a consumer that is consuming; faults of one kind are survived; starts and stops end; the consumer and the outbox recover |

Why these bounds are enough to be interesting: the races are between two parties
(two consumers, two requests, a handler and a reset), and a second order is needed
only to compete for stock. The third consumer of `payment_service` is there for
two conflicting events plus a duplicate of one of them. One fault hits every step
of a behaviour, a second one hits its recovery. Two parked messages would add
only independent combinations. The first reset of `saga` is usually the one that
stocks the item, and the second the one that disturbs a checkout. In `gateway` the
interesting races are between a post the gateway gave up on and the next one, or
one under the same key, which takes two threads; with two order ids the third order
waits for ever, all pairs of the checkouts get theirs. In `service_process` two
attempts make a difference between a first and a last one, two faults allow the
double failure that kills the outbox thread, as well as a fault during the recovery
from another, and the second start is the one after a failed first.
Batches of more than one row, also partly sent ones, are in `event_delivery`.

Contradicting answers for one order (both verdicts, both outcomes) are not sent by
the environment of `OrderService`; that `OrderLifecycle` copes with them is proved
(section 4).

`CHECK_DEADLOCK FALSE` is set where the system may stop: all orders placed, all
events handled, all faults used up. It is not set in `inventory_ledger` (stock
can always be reset). Lock deadlocks of the inventory service are checked as
properties (`DeadlocksArePairs`, `TransactionsEnd`).

### Fairness

- `OrderService`, `InventoryService`: a thread that runs a handler or a request
  goes on (weak fairness); a message is redelivered until it is acknowledged. A
  lock that is free again and again is granted in the end (strong fairness;
  PostgreSQL queues the waiters), and a deadlock is broken after
  `deadlock_timeout`. Nobody is obliged to send a request.
- `EventDelivery`: the outbox loop, `_connect` and the callback go on, the retry
  queue has a TTL; delivery of a message is strongly fair since queues are first
  in, first out. Faults are bounded: with faults for ever nothing is promised.
- `ServiceProcess`: each thread goes on; the callback of `stop()` is called in the
  end although messages keep coming (strong fairness: pika looks at its callbacks
  between messages). Faults are bounded; an idle publisher may lose its connection
  again and again, but each time only the first batch afterwards fails. Nothing obliges anybody to start or stop the process or an
  outage to end: `ConsumerComesBack` and `RowsArePublished` are about behaviours
  that are healthy from some time on, and `RowsArePublished` excepts a dead thread.
- `Gateway`: none, its properties are safety properties.
- `Saga`: while an event that is not parked waits, some consumer goes on. Queues are sent
  finitely many events and handle each of them once, so this is what
  `DeliveryContract` promises, an effect or a parked message.

### Findings

1. *Lost update of the order status* (`order_lost_update`,
   `order_service/service.py:88`). The order is read without `FOR UPDATE`. With two
   competing consumers (`deploy/k8s/hpa.yaml` allows five replicas) one handler
   reads PENDING for `inventory.reserved`, another commits COMPLETED for
   `payment.succeeded`, and the first then writes INVENTORY_RESERVED.
   `docs/architecture.md:83` promises that terminal states do not move backward.
   The announcements are still right (`order_competing`), so customer and stock
   are served correctly; the status stays wrong. `Saga` assumes one consumer of
   the order queue.
2. *Events published before a queue exists are gone* (`event_delivery_first_boot`,
   `common/messaging.py:65`). `mandatory=False` lets the broker confirm and drop an
   event nothing is bound to, and a queue is declared only when its own service
   first runs. `docs/failure-scenarios.md:14` says that notifications wait in their
   queue while the service is unavailable.

Not counted as a finding, since `PUT /stock` is documented as a reset of demo
stock: a reset between payment and `inventory.commit` leaves a completed order for
which no unit is sold. `PaidUnitsAreKept` and `CheckoutsFinish` name the exception
(`dropped`), and show that nothing else has this effect.

## 4. What is proved

Every safety property that a run checks is also a theorem, for all values of the
constants that satisfy the ASSUMEs of the modules; so are the refinements of the
three atomic services by their statements (of the order service for one consumer)
and the safety part of the delivery contract. Each proof has the same shape: an
inductive invariant, a lemma per part of it that says what an action does to that
part, and a temporal step. The invariants were checked on instances like those of the runs
before they were proved.

### The services

- `OrderLifecycleProofs`: `TypeCorrect`, `MonotonicStatus`, `AnnouncementsCorrect`.
  `TypeOK /\ AnnouncedMatchesStatus` is inductive. The step that matters is
  `TransitionAnnounced`: a status that still allows a transition calls for no
  announcement (`NextStatus`), hence the outbox holds only the order's
  `order.created`, and the events written now are the first of their type.
- `InventoryLedgerProofs`: `TypeCorrect`, `CountersCorrect`, `NeverOversold`,
  `UnitsConserved`, `SettlementsFinal`. `CountersMatchReservations` is not
  inductive: a first `set_stock` of an item needs that no reservation names an
  unstocked item, and counting units needs finite sets. `LedgerInv` adds these,
  `TypeOK` and `available >= 0`. Sums of quantities are stated without recursion, as
  the cardinality of a set of units, so that a reservation adds a block of
  `quantity` units (`AddBlock`) and a settlement moves it (`UnitsOfSettled`,
  `RemoveBlock`).
- `PaymentServiceProofs`: of `PaymentLedger` `TypeCorrect`, `OutcomesCorrect`,
  `PaymentsFinal` (an order without a payment has been told nothing, so its first
  outcome has number 1); then `ServiceImplementsLedger`, and through it the same
  three facts of the service. The invariant this needs is `ThreadsOK`: a thread at
  `mark` can rely on the payment it found, since payments are never removed. Each
  commit is a `HandleReserved`, whose guards are the primary keys, and each other
  step stutters (`StepRefines`).
- `OrderServiceProofs`, for any number of consumers, requests and crashes:
  `ServiceTypeCorrect`; `KeysNameOneOrder` (`KeysInv` adds what a request at `reply`
  is about to say); `OutcomeAnnouncedOnce`. The last needs three invariants, since
  handlers decide from copies that may be stale: `InboxInv`, the answers of an order
  do not contradict each other; `CopiesInv`, a status or a copy of it is terminal
  only after the deciding answer was processed; and `OutcomeInv` itself. Hence the
  handler of an unprocessed deciding answer always finds a status it changes
  (`CommitWrites`), however stale. For one consumer the copy is never stale
  (`CopyIsFresh`), which gives `OneConsumerImplementsLifecycle` and, through the
  lifecycle's theorems, `OneConsumerIsMonotonic` and `OneConsumerAnnounces`.
- `InventoryServiceProofs`: `ServiceImplementsLedger`, `OneVerdict`,
  `DeadlockIsPair`, `NoConsumerDeadlock`, `ServiceNeverOversells`. `ServiceInv` says that no row has
  two holders (`LocksInv`) and that what a transaction read under a lock is what the
  table still holds (`CopiesInv`). That a step of one transaction keeps the copies of
  the others is the frame argument: a step changes only rows it holds, adds a
  reservation only for an order that was not handled before, and forgets no processed
  event (`Frame`), so what another transaction holds or relies on is untouched. A
  thread at `mark` holds no copy but relies on facts that never become false again
  (an event stays processed, a reservation that is no longer RESERVED stays so, also
  when a reset deletes it). The ledger's own invariant is carried along through the
  instance `Atomic`, one ledger step at a time (`StepOK`). Deadlocks are
  classified by what a waiting transaction can hold (`WaitersHold`): who waits for an
  item waits for a `set_stock` that is deleting reservations, and who waits for a
  reservation waits for such a `set_stock` or for a settlement that waits for its item.
  So every circle has a `set_stock` in it, and what that waits for is a settlement of a
  reservation of the same item. Handlers alone, which lock the item last, cannot
  deadlock, and there is no standstill that `deadlock_timeout` would not find.
  `AnsweredInv` gives the one verdict.

### The gateway

`CheckoutMakesOneOrder`, `ToldWhatWasAsked` and its corollary `ToldOwnRequest` (a key
that nobody else sends with another body) hold for any number of clients,
posts, timeouts, request threads and consumers; they rest on the service's `KeysInv`
and on three facts about posts: a request in flight or served is one a client
posted (`PostsInv`), an order stored under a key was asked for under that key
(`ToldInv`), and a client that waits was told nothing yet. `OutcomeShownIsFinal`
assumes one consumer of the order queue: it combines `OneConsumerIsMonotonic` with
`ShownInv`. With competing consumers it is false, by the first finding.

### Delivery of events

`EventDeliveryProofs`, for any events, outbox threads, consumers, batch sizes,
retry limits and numbers of faults, from `DeliveryInv`:

- `CopiesBounded`. A row that is neither marked nor sent by the batch that holds it
  was copied at most once per fault (`CopiesInv`). This needs that batches are
  locked: their rows are unpublished and in no other batch (`BatchesInv`).
- `RetriesBudgeted`. A message is rejected at most once per failure; failures the
  broker never heard of are paid for by faults, and the one just being dealt with
  makes the difference of one (`BudgetInv`). It needs that a message delivered to a
  consumer is the one that consumer works on (`DeliveredInv`).
- `PublishedAreKept`, under the hypothesis `QueueDeclared`: what is out has taken
  effect, is at the broker, or is dead-lettered (`KeptInv`). An acknowledged message
  is one whose event was processed or parked (`EffectsInv`). Without the hypothesis
  it is false, by the second finding.
- `DeliveryKeepsContract`, that every behaviour satisfies the safety part of
  `DeliveryContract`: each action is a step of the contract or stutters.

### The service process

`ServiceProcessProofs`, for any services, rows, attempts, starts and outages, from
`ProcessInv`: `MarksAreConfirmed` (a batch is marked when all of it was sent, and
what was sent was confirmed), `TablesBeforeThreads` (how far start-up has come says
what the database holds), `StopIsHeard` and `OneKindOfFaultDoesNotKill`. `StopIsHeard`
needs `StopInv`: the stop event is set before the connection is looked at, so a
consumer that `stop()` found with a channel cannot be on the way to another one.
`OneKindOfFaultDoesNotKill`: the database failing alone, or connections to the broker
being lost alone, never end the outbox thread. It needs where that thread can be as long
as no connection was ever lost: then nobody but `stop()` takes its connection, no
publish fails, and no rollback of a dead session happens (`OutageInv`). The broker need
not be down for the double failure: an idle connection that RabbitMQ closed makes the
next publish raise, and a database that goes away just then makes the rollback raise too.

### The whole checkout

`SagaProofs`, for any orders, requests, items, customers, resets and parked
messages: `ServicesAlwaysAgree`, `PaidUnitsKept`, `StockAlwaysAddsUp`,
`NeverNeedlesslyRejected`. What is proved of the order and inventory services is
cited here through instances (`Lifecycle`, `Ledger`); `SagaInv` adds what relates
the databases: every event carries the request of its order (`EventsInv`), verdicts,
payments and terminal statuses each have their cause in the outbox of the service
before (`VerdictsInv`, `PaymentsInv`, `StatusInv`), a reservation is settled the way
the status says (`SettledInv`). `RejectionInv` bounds what an item could still have
given to the orders it turned down. `PaidUnitsAreKept` follows since a release is
written for PAYMENT_FAILED orders only, and a reset is recorded in `dropped`.

Two theorems state what of the liveness of a checkout is a matter of safety.
`NoCheckoutIsLost`: a checkout that is not over waits for an event that some queue
has not handled, so that it is never stuck with nobody about to move it. It rests on
`ProgressInv`: what was handled had its consequence, also out of turn. An
`order.created` that was recorded has its verdict, and a rejection that was recorded
ended the order, since only a reservation, and never a rejection with it, leads to the
status in which a rejection would be void. `FinishedStays`: once a checkout is over on
all four services, it stays as it is (`FinishedForGood`), by the order's monotonic
status, the guard of a settlement (`SettledStays`) and the one id a notification can
have (`NotifiedOutcome`). What `CheckoutsFinish` adds is that waiting events are
handled, by fairness.

Three more theorems say how the modules fit together. `ServicesKeepTheirSpecs`: the
saga implements `OrderLifecycle`, `InventoryLedger` and `PaymentLedger`, that is, in
a checkout each service does what its own module says. `EnvironmentsAreReal`: what
`OrderService` and `InventoryService` suppose of the other services (one verdict and
one outcome per order, the outcome after a reservation, one command) is what these
provide. `QueuesKeepContract`: each of the four queues does what `DeliveryContract`
says, since every step of the saga sends a queue one event, handles one or parks one
(`QueueStep`), and a service handles an id once and only what was sent (`HandledInv`).

### Assumptions

- Bound events have types and payloads of their handlers; stock levels are naturals.
  Nothing is assumed of the order in which events arrive or of their number, except
  that `OrderService` is answered by two services that answer an order once, and
  `InventoryService` gets one `order.created` and one command per order
  (`InboundPerOrder`). `EnvironmentsAreReal` proves both of the saga.
- `KeysAssumption` (`Gateway`): a key the gateway makes up is used by nobody else
  (`uuid4`). `ThreadsAssumption`, `PlacesAssumption`: names of threads and places
  differ, as they do in the program.
- One consumer of the order queue in `OneConsumer*`, `OutcomeShownIsFinal` and in the
  actions of `Saga`, which take `HandleAnswer` as atomic;
  `OneConsumerImplementsLifecycle` is what justifies that.

### Only model-checked

- Liveness, which rests on fairness and ENABLED, out of TLAPS's reach:
  `TransactionsEnd` (inventory), `OutcomeIsReached` (order), the liveness of
  `ImplementsContract` (delivery), `CheckoutsFinish` (saga; its safety half is
  `NoCheckoutIsLost`), and `StartsEnd`,
  `ProcessExits`, `ConsumerComesBack`, `RowsArePublished` (process).
- The two violated properties, `TerminalIsFinal` with competing consumers and
  `PublishedIsKept` on a first boot; their counterparts under the missing hypothesis
  are proved (above).
- That the fairness of `Saga` is what `DeliveryContract` promises (section 3). The
  safety part is `QueuesKeepContract`.

No module declares a recursive operator.

## 5. Not modelled

- Replaying a dead-letter queue is an operator's action outside the program; `Saga`
  allows for it.
- Input validation, the layout of the demo page, metrics, traces, logs: no state.
  The reads of stock, payments and notifications return what the properties are
  about; `GET /orders/{id}` is modelled, since clients decide from it.
- A handler of `ServiceProcess` is only something that takes time; what it does to
  the tables and to the message is in the other modules.
- Failures that lose committed data (a database or broker losing its disk).

## 6. Plan

Done: all modules of section 2, with the runs and proofs above.

Next, in this order:

1. `Saga` with statement-level consumers of the order service, to show what the
   first finding does to a whole checkout.
2. `Gateway` in front of `Saga` instead of `OrderService` alone, to join
   `OutcomeShownIsFinal` with `FinishedStays`: an outcome a client was shown is the
   one all four databases settle on.
