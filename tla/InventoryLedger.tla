---------------------------- MODULE InventoryLedger ----------------------------
(*****************************************************************************)
(* What the inventory service promises: every call of handle_domain_event    *)
(* and of set_stock takes effect in one atomic step, on an event at most     *)
(* once, whatever number of replicas consume the queue and however often the *)
(* broker redelivers an event.                                               *)
(*                                                                           *)
(* The environment is open: any inbound event may be handled at any time, in *)
(* any order, and stock may be reset between any two of them.                *)
(* InventoryService (statement by statement, with row locks) is shown to     *)
(* implement this module.                                                    *)
(*****************************************************************************)
EXTENDS Events

CONSTANTS
    Orders,        \* the order ids events can name
    Items,         \* the item ids, stocked or not
    StockLevels,   \* the quantities set_stock may be called with
    Inbound        \* the events bound to the queue inventory-service-events

ASSUME StockLevelsAssumption == StockLevels \subseteq Nat

ASSUME InboundAssumption ==
    \A e \in Inbound :
        /\ e.type \in {"order.created"} \cup InventoryCommands
        /\ e.order \in Orders
        /\ e.type = "order.created" => /\ e.payload.item \in Items
                                       /\ e.payload.quantity \in Int

VARIABLES
    stock,          \* table inventory_items: item id -> available, reserved, sold
    reservations,   \* table reservations: order id -> item, quantity, status
    processed,      \* table processed_events
    outbox,         \* table outbox_events
    unknown         \* ids of the events whose handler found no row for their item

vars == <<stock, reservations, processed, outbox, unknown>>

\* The service starts on empty tables.
Init ==
    /\ stock = << >>
    /\ reservations = << >>
    /\ processed = {}
    /\ outbox = {}
    /\ unknown = {}

--------------------------------------------------------------------------------

\* Mutant: the stock is not compared with the request.
CanReserve_NoStockCheck(available, requested) == requested > 0

\* Mutant: the last units of an item cannot be bought.
CanReserve_KeepsOne(available, requested) == requested > 0 /\ available > requested

CanReserve(available, requested) == requested > 0 /\ available >= requested

Emit(type, order, payload) ==
    outbox' = outbox \cup {NewEvent(outbox, type, order, payload)}

\* The orders whose row in a reservations table is for an item.
ReservationsFor(table, item) == {o \in DOMAIN table : table[o].item = item}

\* Mutant: the reset keeps the item's reservations.
SetStock_KeepsReservations(item, quantity) ==
    /\ stock' = Put(stock, item,
                    [available |-> quantity, reserved |-> 0, sold |-> 0])
    /\ UNCHANGED <<reservations, processed, outbox, unknown>>

\* PUT /stock/{item_id}, and the seeding of SKU-CHAIR at startup: a first call
\* inserts the row, a later one resets it and drops the item's reservations.
SetStock(item, quantity) ==
    /\ stock' = Put(stock, item,
                    [available |-> quantity, reserved |-> 0, sold |-> 0])
    /\ reservations' =
         IF item \in DOMAIN stock
         THEN Delete(reservations, ReservationsFor(reservations, item))
         ELSE reservations
    /\ UNCHANGED <<processed, outbox, unknown>>

\* A second order.created for an order that holds a reservation does nothing.
AlreadyReserved(e) ==
    /\ e.order \in DOMAIN reservations
    /\ UNCHANGED <<stock, reservations, outbox>>

\* The item row exists and has the units the order asks for.
InStock(payload) ==
    /\ payload.item \in DOMAIN stock
    /\ CanReserve(stock[payload.item].available, payload.quantity)

\* The item row after a reservation of some units.
Hold(row, quantity) ==
    [available |-> row.available - quantity,
     reserved  |-> row.reserved + quantity,
     sold      |-> row.sold]

Reserve(e) ==
    /\ e.order \notin DOMAIN reservations
    /\ InStock(e.payload)
    /\ stock' = Put(stock, e.payload.item, Hold(stock[e.payload.item], e.payload.quantity))
    /\ reservations' = Put(reservations, e.order,
                           [item     |-> e.payload.item,
                            quantity |-> e.payload.quantity,
                            status   |-> "RESERVED"])
    /\ Emit("inventory.reserved", e.order, e.payload)

\* Mutant: an order for an item without a row is recorded, and nobody answers it.
FindNoItem_Forgets(e) ==
    /\ e.type = "order.created"
    /\ Id(e) \notin processed
    /\ e.payload.item \notin DOMAIN stock
    /\ processed' = processed \cup {Id(e)}
    /\ UNCHANGED <<stock, reservations, outbox, unknown>>

\* The SELECT ... FOR UPDATE of a row that does not exist locks nothing: the item
\* may be inserted before the rejection it leads to is committed.
FindNoItem(e) ==
    /\ e.type = "order.created"
    /\ Id(e) \notin processed \cup unknown
    /\ e.payload.item \notin DOMAIN stock
    /\ unknown' = unknown \cup {Id(e)}
    /\ UNCHANGED <<stock, reservations, processed, outbox>>

\* The two reasons, insufficient_stock and item_not_found, share one event type.
Reject(e) ==
    /\ e.order \notin DOMAIN reservations
    /\ \/ e.payload.item \in DOMAIN stock /\ ~InStock(e.payload)
       \/ Id(e) \in unknown
    /\ UNCHANGED <<stock, reservations>>
    /\ Emit("inventory.rejected", e.order, e.payload)

HandleOrderCreated(e) ==
    /\ e.type = "order.created"
    /\ Id(e) \notin processed
    /\ AlreadyReserved(e) \/ Reserve(e) \/ Reject(e)
    /\ processed' = processed \cup {Id(e)}
    /\ UNCHANGED unknown

\* Mutant: a reservation that is already settled can be settled again.
Reserved_AnyStatus(order) == order \in DOMAIN reservations

Reserved(order) ==
    order \in DOMAIN reservations /\ reservations[order].status = "RESERVED"

\* Mutant: a commit counts one unit as sold, whatever the reservation's quantity.
Settle_OneUnit(row, r, type) ==
    LET released == IF type = "inventory.release" THEN r.quantity ELSE 0
    IN  [available |-> row.available + released,
         reserved  |-> row.reserved - r.quantity,
         sold      |-> IF type = "inventory.release" THEN row.sold ELSE row.sold + 1]

\* What a settlement of reservation r does to the row of its item.
Settle(row, r, type) ==
    LET released == IF type = "inventory.release" THEN r.quantity ELSE 0
    IN  [available |-> row.available + released,
         reserved  |-> row.reserved - r.quantity,
         sold      |-> row.sold + r.quantity - released]

\* Mutant: the reservation takes the name of the event as its status.
SettledStatus_EventType(type) == type

SettledStatus(type) == IF type = "inventory.release" THEN "RELEASED" ELSE "COMMITTED"

SettleReservation(e) ==
    LET r == reservations[e.order]
    IN  /\ Reserved(e.order)
        /\ r.item \in DOMAIN stock
        /\ stock' = Put(stock, r.item, Settle(stock[r.item], r, e.type))
        /\ reservations' = Put(reservations, e.order, [r EXCEPT !.status = SettledStatus(e.type)])
        /\ Emit(IF e.type = "inventory.release"
                THEN "inventory.released" ELSE "inventory.committed",
                e.order, [item |-> r.item, quantity |-> r.quantity])

\* inventory.release and inventory.commit act on a reservation that is held and
\* ignore one that is missing or already settled.
HandleSettlement(e) ==
    /\ e.type \in InventoryCommands
    /\ Id(e) \notin processed
    /\ \/ SettleReservation(e)
       \/ ~Reserved(e.order) /\ UNCHANGED <<stock, reservations, outbox>>
    /\ processed' = processed \cup {Id(e)}
    /\ UNCHANGED unknown

Next ==
    \/ \E item \in Items, quantity \in StockLevels : SetStock(item, quantity)
    \/ \E e \in Inbound : FindNoItem(e) \/ HandleOrderCreated(e) \/ HandleSettlement(e)

Spec == Init /\ [][Next]_vars

--------------------------------------------------------------------------------

Statuses == {"RESERVED", "RELEASED", "COMMITTED"}

StockRows == [available : Int, reserved : Int, sold : Int]
ReservationRows == [item : Items, quantity : Nat \ {0}, status : Statuses]

\* The shape of the tables.
TypeOK ==
    /\ IsTable(stock, Items, StockRows)
    /\ IsTable(reservations, Orders, ReservationRows)
    /\ processed \cup unknown \subseteq {Id(e) : e \in Inbound}
    /\ \A r \in outbox : /\ r.type \in InventoryVerdicts \cup InventoryReceipts
                         /\ r.order \in Orders

\* The rows of a reservations table that hold an item in a given status.
ReservationsOf(table, item, status) ==
    {o \in DOMAIN table : table[o].item = item /\ table[o].status = status}

\* The units these rows hold, one pair per unit.
Units(table, item, status) ==
    UNION {{o} \X (1..table[o].quantity) : o \in ReservationsOf(table, item, status)}

\* The counters of an item row are the sums of its reservations: every reserved
\* unit belongs to exactly one held reservation and every sold unit to exactly
\* one committed one. Breaking it takes a reservation settled twice, settled
\* after a reset of its item, or dropped without its units.
CountersMatchReservations ==
    \A i \in DOMAIN stock :
        /\ stock[i].reserved = Cardinality(Units(reservations, i, "RESERVED"))
        /\ stock[i].sold = Cardinality(Units(reservations, i, "COMMITTED"))

\* No overselling: in no order of reservations, settlements and resets does a
\* counter of an item row go below zero (the contention test's claim).
NoOverselling ==
    \A i \in DOMAIN stock :
        stock[i].available >= 0 /\ stock[i].reserved >= 0 /\ stock[i].sold >= 0

\* A settlement finds the item row of its reservation: the scalar_one() in
\* handle_domain_event never raises.
ReservedItemsAreStocked ==
    \A o \in DOMAIN reservations : reservations[o].item \in DOMAIN stock

\* The strengthening of CountersMatchReservations and NoOverselling that every
\* step preserves: a reservation's item is stocked, so an item inserted for the
\* first time has no units, and sets of units are finite, so they can be counted.
LedgerInv ==
    /\ TypeOK
    /\ ReservedItemsAreStocked
    /\ \A i \in Items, s \in Statuses : IsFiniteSet(Units(reservations, i, s))
    /\ CountersMatchReservations
    /\ \A i \in DOMAIN stock : stock[i].available >= 0

\* The units of an item, on the shelf, held or sold.
Total(row) == row.available + row.reserved + row.sold

Conserve ==
    \A i \in DOMAIN stock :
        \/ i \in DOMAIN stock' /\ Total(stock'[i]) = Total(stock[i])
        \/ \E quantity \in StockLevels : SetStock(i, quantity)

\* Handling events moves units between the three counters and never makes or
\* loses one: only a reset through set_stock changes an item's total.
UnitsAreConserved == [][Conserve]_vars

\* A reservation is kept, with its units and with its status unless it was held.
KeepSettled ==
    \A o \in DOMAIN reservations :
        \/ /\ o \in DOMAIN reservations'
           /\ reservations'[o].quantity = reservations[o].quantity
           /\ \/ reservations'[o].status = reservations[o].status
              \/ reservations[o].status = "RESERVED"
        \/ \E quantity \in StockLevels : SetStock(reservations[o].item, quantity)

\* A settled reservation is final: until its item is reset, no event moves it to
\* another status, and the units it holds never change.
SettledIsFinal == [][KeepSettled]_vars

================================================================================
