--------------------------- MODULE InventoryService ----------------------------
(*****************************************************************************)
(* The inventory service statement by statement: competing consumers and     *)
(* set_stock requests whose transactions interleave on one PostgreSQL        *)
(* database at READ COMMITTED.                                               *)
(*                                                                           *)
(* A step of a process is one statement that other transactions can observe  *)
(* or delay: an unlocked read, the wait for a row lock (FOR UPDATE, DELETE)  *)
(* with the read that follows it, or the commit. The INSERTs and UPDATEs are *)
(* flushed by the commit itself, and no two of them wait for each other, so  *)
(* flush and commit are one step. A handler writes what it computed from the *)
(* copies it read: that those copies are still current is what the row locks *)
(* are for, and what the refinement of InventoryLedger checks.               *)
(*                                                                           *)
(* An event can be delivered again at any time, to any consumer, also while  *)
(* another one is handling it: the publisher may have sent it twice, or the  *)
(* broker may redeliver it after a lost connection.                          *)
(*****************************************************************************)
EXTENDS Events

CONSTANTS
    Orders, Items, StockLevels, Inbound,   \* as in InventoryLedger
    Consumers,    \* the replicas' consumer threads
    Setters,      \* the threads serving PUT /stock and startup seeding
    SeedItem,     \* SKU-CHAIR
    SeedLevel,    \* the quantity it is seeded with
    MaxRequests,  \* bound: set_stock calls in a behaviour
    MaxCrashes    \* bound: transactions cut off by a crash or a lost connection

ASSUME BoundsAssumption == MaxRequests \in Nat /\ MaxCrashes \in Nat

\* A consumer thread serves no requests.
ASSUME ThreadsAssumption == Consumers \cap Setters = {}

ASSUME StockAssumption ==
    /\ StockLevels \subseteq Nat
    /\ SeedItem \in Items /\ SeedLevel \in StockLevels

ASSUME InboundAssumption ==
    \A e \in Inbound :
        /\ e.type \in {"order.created"} \cup InventoryCommands
        /\ e.order \in Orders
        /\ e.type = "order.created" => /\ e.payload.item \in Items
                                       /\ e.payload.quantity \in Int

\* The order service writes one order.created and at most one of
\* inventory.release and inventory.commit for an order.
ASSUME InboundPerOrder ==
    \A e, f \in Inbound :
        e.order = f.order /\ (e.type = "order.created" <=> f.type = "order.created")
            => e = f

VARIABLES
    stock, reservations, processed, outbox,   \* the committed tables
    unknown,    \* history: the events for which LockItem found no row
    txn,        \* each process's open transaction
    requests,   \* set_stock calls so far
    crashes     \* crashes so far

tables == <<stock, reservations, processed, outbox, unknown>>
vars == <<tables, txn, requests, crashes>>

Ledger == INSTANCE InventoryLedger

Processes == Consumers \cup Setters

\* No transaction: the process holds no row.
Idle == [pc |-> "idle", rows |-> {}]

Init ==
    /\ Ledger!Init
    /\ txn = [p \in Processes |-> Idle]
    /\ requests = 0
    /\ crashes = 0

--------------------------------------------------------------------------------
(* Row locks *)

ItemRow(item) == <<"inventory_items", item>>
ReservationRow(order) == <<"reservations", order>>

\* Mutant: a plain SELECT takes no lock and waits for none.
Free_NoLock(p, row) == TRUE

Free(p, row) == \A q \in Processes \ {p} : row \notin txn[q].rows

At(p, pc) == txn[p].pc = pc

\* The statement of p has returned: remember what it read, go on at pc.
Step(p, pc, more) ==
    txn' = [txn EXCEPT ![p] =
              [f \in DOMAIN @ \cup DOMAIN more |->
                  IF f = "pc" THEN pc ELSE IF f \in DOMAIN more THEN more[f] ELSE @[f]]]

\* Mutant: the transaction is left open.
End_KeepsLocks(p) == txn' = [txn EXCEPT ![p] = [Idle EXCEPT !.rows = txn[p].rows]]

\* session.rollback() or the end of a commit: the locks are gone.
End(p) == txn' = [txn EXCEPT ![p] = Idle]

\* The rows p is waiting for, and the processes it waits for.
Wants(p) ==
    CASE At(p, "lock_reservation")             -> {ReservationRow(txn[p].event.order)}
      [] At(p, "lock_item") \/ At(p, "select") -> {ItemRow(txn[p].item)}
      [] At(p, "delete")                       -> {ReservationRow(o) : o \in txn[p].todo}
      [] OTHER                                 -> {}

BlockedBy(p) == {q \in Processes \ {p} : Wants(p) \cap txn[q].rows # {}}

\* Mutant: the database breaks no deadlock.
InCycle_Undetected(p) == FALSE

\* p waits for itself through others: PostgreSQL aborts one process of the cycle.
InCycle(p) ==
    \E n \in 1..Cardinality(Processes) : \E path \in [1..n -> Processes] :
        /\ path[1] = p
        /\ \A k \in 1..(n - 1) : path[k + 1] \in BlockedBy(path[k])
        /\ p \in BlockedBy(path[n])

--------------------------------------------------------------------------------
(* Consumers *)

\* The order service sends a settlement only after a payment, which follows the
\* reservation.
Deliverable(e) ==
    \/ e.type = "order.created"
    \/ \E r \in outbox : r.type = "inventory.reserved" /\ r.order = e.order

\* The callback runs and finds no ProcessedEvent. (If it finds one it returns
\* and the delivery is acknowledged: nothing changes.)
Receive(c, e) ==
    /\ At(c, "idle")
    /\ Deliverable(e)
    /\ Id(e) \notin processed
    /\ Step(c, IF e.type = "order.created" THEN "find_reservation" ELSE "lock_reservation",
            [event |-> e])
    /\ UNCHANGED <<tables, requests, crashes>>

\* session.get(Reservation, order_id), an unlocked read.
FindReservation(c) ==
    /\ At(c, "find_reservation")
    /\ LET e == txn[c].event
       IN  IF e.order \in DOMAIN reservations
           THEN Step(c, "mark", << >>)
           ELSE Step(c, "lock_item", [item |-> e.payload.item])
    /\ UNCHANGED <<tables, requests, crashes>>

\* SELECT ... FROM reservations ... FOR UPDATE of a release or commit.
LockReservation(c) ==
    LET o == txn[c].event.order
    IN  /\ At(c, "lock_reservation")
        /\ Free(c, ReservationRow(o))
        /\ \/ /\ Ledger!Reserved(o)
              /\ Step(c, "lock_item", [item        |-> reservations[o].item,
                                       reservation |-> reservations[o],
                                       rows        |-> txn[c].rows \cup {ReservationRow(o)}])
           \/ /\ ~Ledger!Reserved(o)
              /\ Step(c, "mark",
                      [rows |-> txn[c].rows \cup
                          {ReservationRow(k) : k \in DOMAIN reservations \cap {o}}])
        /\ UNCHANGED <<tables, requests, crashes>>

\* SELECT ... FROM inventory_items ... FOR UPDATE: the rows found, at most one.
LockItem(c) ==
    LET item  == txn[c].item
        found == {stock[i] : i \in DOMAIN stock \cap {item}}
    IN  /\ At(c, "lock_item")
        /\ Free(c, ItemRow(item))
        /\ Step(c, "write",
                [found |-> found,
                 rows  |-> txn[c].rows \cup {ItemRow(i) : i \in DOMAIN stock \cap {item}}])
        /\ unknown' = unknown \cup {i \in {Id(txn[c].event)} : found = {}}
        /\ UNCHANGED <<stock, reservations, processed, outbox, requests, crashes>>

\* The unique keys the commit of c inserts: its event id and, if it reserves, its order.
ReservesFrom(row, e) == Ledger!CanReserve(row.available, e.payload.quantity)

\* Mutant: processed_events has no primary key.
Conflicts_ReservationOnly(c) ==
    /\ At(c, "write")
    /\ txn[c].event.type = "order.created"
    /\ \E row \in txn[c].found : ReservesFrom(row, txn[c].event)
    /\ txn[c].event.order \in DOMAIN reservations

Conflicts(c) ==
    \/ Id(txn[c].event) \in processed
    \/ /\ At(c, "write")
       /\ txn[c].event.type = "order.created"
       /\ \E row \in txn[c].found : ReservesFrom(row, txn[c].event)
       /\ txn[c].event.order \in DOMAIN reservations

\* The columns a handler changed, computed from the copy it read under the lock.
WriteReserve(c, e, row) ==
    /\ stock' = [stock EXCEPT ![e.payload.item] =
                   [@ EXCEPT !.available = row.available - e.payload.quantity,
                             !.reserved  = row.reserved + e.payload.quantity]]
    /\ reservations' = Put(reservations, e.order,
                           [item     |-> e.payload.item,
                            quantity |-> e.payload.quantity,
                            status   |-> "RESERVED"])
    /\ Ledger!Emit("inventory.reserved", e.order, e.payload)

WriteReject(e) ==
    /\ UNCHANGED <<stock, reservations>>
    /\ Ledger!Emit("inventory.rejected", e.order, e.payload)

WriteRelease(e, r, row) ==
    /\ stock' = [stock EXCEPT ![r.item] =
                   [@ EXCEPT !.reserved  = row.reserved - r.quantity,
                             !.available = row.available + r.quantity]]
    /\ reservations' = Put(reservations, e.order, [r EXCEPT !.status = "RELEASED"])
    /\ Ledger!Emit("inventory.released", e.order, [item |-> r.item, quantity |-> r.quantity])

WriteCommit(e, r, row) ==
    /\ stock' = [stock EXCEPT ![r.item] =
                   [@ EXCEPT !.reserved = row.reserved - r.quantity,
                             !.sold     = row.sold + r.quantity]]
    /\ reservations' = Put(reservations, e.order, [r EXCEPT !.status = "COMMITTED"])
    /\ Ledger!Emit("inventory.committed", e.order, [item |-> r.item, quantity |-> r.quantity])

\* session.commit() of the handler: its rows, its outbox event, its ProcessedEvent.
Commit(c) ==
    LET e == txn[c].event
    IN  /\ At(c, "write")
        /\ ~Conflicts(c)
        /\ \/ /\ e.type = "order.created"
              /\ \E row \in txn[c].found : ReservesFrom(row, e) /\ WriteReserve(c, e, row)
           \/ /\ e.type = "order.created"
              /\ ~ \E row \in txn[c].found : ReservesFrom(row, e)
              /\ WriteReject(e)
           \/ /\ e.type = "inventory.release"
              /\ \E row \in txn[c].found : WriteRelease(e, txn[c].reservation, row)
           \/ /\ e.type = "inventory.commit"
              /\ \E row \in txn[c].found : WriteCommit(e, txn[c].reservation, row)
        /\ processed' = processed \cup {Id(e)}
        /\ End(c)
        /\ UNCHANGED <<unknown, requests, crashes>>

\* The handler had nothing to do: only the ProcessedEvent is written.
MarkProcessed(c) ==
    /\ At(c, "mark")
    /\ ~Conflicts(c)
    /\ processed' = processed \cup {Id(txn[c].event)}
    /\ End(c)
    /\ UNCHANGED <<stock, reservations, outbox, unknown, requests, crashes>>

\* IntegrityError on a unique key: rollback, and the message is retried later.
RejectedByKey(c) ==
    /\ At(c, "write") \/ At(c, "mark")
    /\ Conflicts(c)
    /\ End(c)
    /\ UNCHANGED <<tables, requests, crashes>>

--------------------------------------------------------------------------------
(* set_stock *)

Request(s, item, quantity) ==
    /\ At(s, "idle")
    /\ requests < MaxRequests
    /\ requests' = requests + 1
    /\ Step(s, "select", [item |-> item, quantity |-> quantity])
    /\ UNCHANGED <<tables, crashes>>

\* Startup: set_stock is called if the seeded item has no row yet.
Seed(s) == SeedItem \notin DOMAIN stock /\ Request(s, SeedItem, SeedLevel)

\* SELECT ... FOR UPDATE. With the item locked, its reservations stay the ones
\* the DELETE will find.
SelectItem(s) ==
    LET item == txn[s].item
    IN  /\ At(s, "select")
        /\ Free(s, ItemRow(item))
        /\ IF item \in DOMAIN stock
           THEN Step(s, "delete",
                     [rows |-> {ItemRow(item)},
                      todo |-> {o \in DOMAIN reservations : reservations[o].item = item}])
           ELSE Step(s, "insert", << >>)
        /\ UNCHANGED <<tables, requests, crashes>>

\* The DELETE locks the item's reservations one after the other.
DeleteReservation(s) ==
    /\ At(s, "delete")
    /\ \E o \in txn[s].todo :
          /\ Free(s, ReservationRow(o))
          /\ Step(s, "delete", [rows |-> txn[s].rows \cup {ReservationRow(o)},
                                todo |-> txn[s].todo \ {o}])
    /\ UNCHANGED <<tables, requests, crashes>>

CommitReset(s) ==
    /\ At(s, "delete")
    /\ txn[s].todo = {}
    /\ stock' = Put(stock, txn[s].item,
                    [available |-> txn[s].quantity, reserved |-> 0, sold |-> 0])
    /\ reservations' = Delete(reservations,
                              {o \in Orders : ReservationRow(o) \in txn[s].rows})
    /\ End(s)
    /\ UNCHANGED <<processed, outbox, unknown, requests, crashes>>

\* The INSERT of a new item row; if another call inserted it first the request
\* fails with an IntegrityError and writes nothing.
CommitInsert(s) ==
    /\ At(s, "insert")
    /\ stock' = IF txn[s].item \in DOMAIN stock
                THEN stock
                ELSE Put(stock, txn[s].item,
                         [available |-> txn[s].quantity, reserved |-> 0, sold |-> 0])
    /\ End(s)
    /\ UNCHANGED <<reservations, processed, outbox, unknown, requests, crashes>>

--------------------------------------------------------------------------------
(* Failures *)

\* The deadlock detector aborts one process of a wait cycle: the consumer's
\* message is retried, the set_stock request fails.
DeadlockAbort(p) ==
    /\ InCycle(p)
    /\ End(p)
    /\ UNCHANGED <<tables, requests, crashes>>

\* The process or its database connection dies: the transaction is rolled back
\* and the unacknowledged message will be delivered again.
Crash(p) ==
    /\ ~At(p, "idle")
    /\ crashes < MaxCrashes
    /\ crashes' = crashes + 1
    /\ End(p)
    /\ UNCHANGED <<tables, requests>>

Consume(c) ==
    \/ FindReservation(c)
    \/ LockReservation(c)
    \/ LockItem(c)
    \/ Commit(c)
    \/ MarkProcessed(c)
    \/ RejectedByKey(c)

Reset(s) ==
    \/ SelectItem(s)
    \/ DeleteReservation(s)
    \/ CommitReset(s)
    \/ CommitInsert(s)

Next ==
    \/ \E c \in Consumers, e \in Inbound : Receive(c, e)
    \/ \E c \in Consumers : Consume(c)
    \/ \E s \in Setters, item \in Items, quantity \in StockLevels : Request(s, item, quantity)
    \/ \E s \in Setters : Seed(s) \/ Reset(s)
    \/ \E p \in Processes : DeadlockAbort(p) \/ Crash(p)

\* Threads are scheduled, PostgreSQL grants a released row to a transaction that
\* is waiting for it before a later one (a victim's message comes back only after
\* the retry delay), hence strong fairness, and it breaks deadlocks after
\* deadlock_timeout. Nobody has to send a set_stock request, and nothing has to
\* be delivered or to crash.
Fairness ==
    /\ \A c \in Consumers : SF_vars(Consume(c))
    /\ \A s \in Setters : SF_vars(Reset(s))
    /\ \A p \in Processes : WF_vars(DeadlockAbort(p))

Spec == Init /\ [][Next]_vars
FairSpec == Spec /\ Fairness

--------------------------------------------------------------------------------
(* Properties *)

\* The row locks make every handler and every reset atomic: the statements of
\* concurrent transactions, redeliveries and crashes have only effects that
\* InventoryLedger's one-step handlers have.
ImplementsLedger == Ledger!Spec

\* Exactly one answer: an order whose order.created has been processed has one
\* inventory.reserved or inventory.rejected event, any other order has none,
\* however many consumers handle the event at the same time.
OneVerdictPerOrder ==
    \A e \in Inbound : e.type = "order.created" =>
        Cardinality({r \in outbox : r.type \in InventoryVerdicts /\ r.order = e.order})
            = IF Id(e) \in processed THEN 1 ELSE 0

\* Whoever waits for each other in a circle, two of them wait for one another: the
\* settlement of a reservation, which locks the reservation first, and a set_stock of
\* its item, which locks the item first. There is no other kind of deadlock, and no
\* standstill without a deadlock that the database sees and breaks.
DeadlocksArePairs ==
    \A S \in (SUBSET Processes) \ {{}} :
        (\A p \in S : BlockedBy(p) \cap S # {}) =>
            \E c \in S \cap Consumers, s \in S \cap Setters :
                s \in BlockedBy(c) /\ c \in BlockedBy(s)

\* So handlers alone never wait for each other in a circle.
ConsumersNeverDeadlock ==
    \A S \in SUBSET Consumers :
        S # {} => \E c \in S : BlockedBy(c) \cap S = {}

\* Every transaction comes to an end: no handler and no set_stock waits for a
\* row lock for ever, also when their lock orders collide.
TransactionsEnd ==
    \A p \in Processes : ~At(p, "idle") ~> At(p, "idle")

================================================================================
