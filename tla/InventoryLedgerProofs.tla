------------------------- MODULE InventoryLedgerProofs -------------------------
(*****************************************************************************)
(* Proofs about InventoryLedger, for any orders, items, stock levels and     *)
(* inbound events.                                                           *)
(*****************************************************************************)
EXTENDS InventoryLedger, FiniteSetTheorems, TLAPS

--------------------------------------------------------------------------------
(* Rows *)

\* Reserving units keeps a stock row a stock row and moves them to reserved.
LEMMA HoldRow ==
    ASSUME NEW row \in StockRows, NEW quantity \in Int
    PROVE  /\ Hold(row, quantity) \in StockRows
           /\ Hold(row, quantity).available = row.available - quantity
           /\ Hold(row, quantity).reserved = row.reserved + quantity
           /\ Hold(row, quantity).sold = row.sold
  BY DEF Hold, StockRows

\* Settling keeps a stock row a stock row and moves the units out of reserved.
LEMMA SettleRow ==
    ASSUME NEW row \in StockRows, NEW r, r.quantity \in Int, NEW type
    PROVE  /\ Settle(row, r, type) \in StockRows
           /\ Settle(row, r, type).reserved = row.reserved - r.quantity
           /\ type = "inventory.release" =>
                /\ Settle(row, r, type).available = row.available + r.quantity
                /\ Settle(row, r, type).sold = row.sold
           /\ type # "inventory.release" =>
                /\ Settle(row, r, type).available = row.available
                /\ Settle(row, r, type).sold = row.sold + r.quantity
  BY DEF Settle, StockRows

--------------------------------------------------------------------------------
(* Type correctness *)

\* The empty database has the shape of TypeOK.
LEMMA InitTypeOK == Init => TypeOK
  BY DEF Init, TypeOK, IsTable

\* A handler's event has a type of this service and names a known order.
LEMMA EmitTypeOK ==
    ASSUME TypeOK, NEW type \in InventoryVerdicts \cup InventoryReceipts,
           NEW order \in Orders, NEW payload, Emit(type, order, payload)
    PROVE  \A r \in outbox' : /\ r.type \in InventoryVerdicts \cup InventoryReceipts
                              /\ r.order \in Orders
  BY DEF TypeOK, Emit, NewEvent

\* Every handler and set_stock keep the shapes of the tables.
LEMMA NextTypeOK == TypeOK /\ [Next]_vars => TypeOK'
<1> SUFFICES ASSUME TypeOK, [Next]_vars PROVE TypeOK'
  OBVIOUS
<1> USE StockLevelsAssumption, InboundAssumption
<1>1. ASSUME NEW item \in Items, NEW quantity \in StockLevels, SetStock(item, quantity)
      PROVE  TypeOK'
  <2>1. [available |-> quantity, reserved |-> 0, sold |-> 0] \in StockRows
    <3>1. quantity \in Nat
      BY StockLevelsAssumption DEF StockLevelsAssumption
    <3> QED BY <3>1 DEF StockRows
  <2>2. IsTable(stock', Items, StockRows)
    BY <1>1, <2>1 DEF SetStock, TypeOK, IsTable, Put
  <2>3. IsTable(reservations', Orders, ReservationRows)
    BY <1>1 DEF SetStock, TypeOK, IsTable, Delete
  <2> QED BY <1>1, <2>2, <2>3 DEF SetStock, TypeOK
<1>2. ASSUME NEW e \in Inbound, FindNoItem(e)
      PROVE  TypeOK'
  BY <1>2 DEF FindNoItem, TypeOK
<1>3. ASSUME NEW e \in Inbound, HandleOrderCreated(e)
      PROVE  TypeOK'
  <2>1. CASE AlreadyReserved(e)
    BY <1>3, <2>1 DEF AlreadyReserved, HandleOrderCreated, TypeOK
  <2>2. CASE Reserve(e)
    <3>1. /\ e.payload.quantity \in Nat \ {0}
          /\ e.payload.item \in Items
          /\ e.order \in Orders
      BY <1>3, <2>2 DEF HandleOrderCreated, Reserve, InStock, CanReserve
    <3>2. Hold(stock[e.payload.item], e.payload.quantity) \in StockRows
      BY <2>2, <3>1, HoldRow DEF Reserve, InStock, TypeOK, IsTable
    <3>3. [item |-> e.payload.item, quantity |-> e.payload.quantity, status |-> "RESERVED"]
            \in ReservationRows
      BY <3>1 DEF ReservationRows, Statuses
    <3>4. IsTable(stock', Items, StockRows)
      BY <2>2, <3>1, <3>2 DEF Reserve, TypeOK, IsTable, Put
    <3>5. IsTable(reservations', Orders, ReservationRows)
      BY <2>2, <3>1, <3>3 DEF Reserve, TypeOK, IsTable, Put
    <3>6. \A r \in outbox' : /\ r.type \in InventoryVerdicts \cup InventoryReceipts
                             /\ r.order \in Orders
      BY <2>2, <3>1, EmitTypeOK DEF Reserve, InventoryVerdicts
    <3> QED BY <1>3, <3>4, <3>5, <3>6 DEF HandleOrderCreated, TypeOK
  <2>3. CASE Reject(e)
    <3>1. \A r \in outbox' : /\ r.type \in InventoryVerdicts \cup InventoryReceipts
                             /\ r.order \in Orders
      BY <2>3, EmitTypeOK DEF Reject, InventoryVerdicts
    <3> QED BY <1>3, <2>3, <3>1 DEF HandleOrderCreated, Reject, TypeOK
  <2> QED BY <1>3, <2>1, <2>2, <2>3 DEF HandleOrderCreated
<1>4. ASSUME NEW e \in Inbound, HandleSettlement(e)
      PROVE  TypeOK'
  <2>1. CASE SettleReservation(e)
    <3> DEFINE r == reservations[e.order]
    <3>1. e.order \in Orders /\ r \in ReservationRows /\ r.item \in Items
      BY <2>1 DEF SettleReservation, Reserved, TypeOK, IsTable, ReservationRows
    <3>2. stock[r.item] \in StockRows
      BY <2>1 DEF SettleReservation, TypeOK, IsTable
    <3>3. Settle(stock[r.item], r, e.type) \in StockRows
      BY <3>1, <3>2, SettleRow DEF ReservationRows
    <3>4. [r EXCEPT !.status = SettledStatus(e.type)] \in ReservationRows
      BY <3>1 DEF SettledStatus, ReservationRows, Statuses
    <3>5. IsTable(stock', Items, StockRows)
      BY <2>1, <3>1, <3>3 DEF SettleReservation, TypeOK, IsTable, Put
    <3>6. IsTable(reservations', Orders, ReservationRows)
      BY <2>1, <3>1, <3>4 DEF SettleReservation, TypeOK, IsTable, Put
    <3>7. \A x \in outbox' : /\ x.type \in InventoryVerdicts \cup InventoryReceipts
                             /\ x.order \in Orders
      BY <2>1, <3>1, EmitTypeOK DEF SettleReservation, InventoryReceipts
    <3> QED BY <1>4, <3>5, <3>6, <3>7 DEF HandleSettlement, TypeOK
  <2>2. CASE UNCHANGED <<stock, reservations, outbox>>
    BY <1>4, <2>2 DEF HandleSettlement, TypeOK
  <2> QED BY <1>4, <2>1, <2>2 DEF HandleSettlement
<1>5. CASE UNCHANGED vars
  BY <1>5 DEF vars, TypeOK
<1> QED BY <1>1, <1>2, <1>3, <1>4, <1>5 DEF Next

\* The tables always have the shapes TypeOK gives them.
THEOREM TypeCorrect == Spec => []TypeOK
  BY InitTypeOK, NextTypeOK, PTL DEF Spec

--------------------------------------------------------------------------------
(* Counting units *)

Block(order, quantity) == {order} \X (1..quantity)

\* A block of units is finite and as large as its quantity.
LEMMA BlockSize ==
    ASSUME NEW order, NEW quantity \in Nat
    PROVE  /\ IsFiniteSet(Block(order, quantity))
           /\ Cardinality(Block(order, quantity)) = quantity
<1>1. IsFiniteSet({order}) /\ Cardinality({order}) = 1
  BY FS_Singleton
<1>2. IsFiniteSet(1..quantity) /\ Cardinality(1..quantity) = quantity
  BY FS_Interval
<1>3. /\ IsFiniteSet({order} \X (1..quantity))
      /\ Cardinality({order} \X (1..quantity)) = Cardinality({order}) * Cardinality(1..quantity)
  BY <1>1, <1>2, FS_Product
<1>4. Cardinality({order}) * Cardinality(1..quantity) = quantity
  BY <1>1, <1>2
<1> QED BY <1>3, <1>4 DEF Block

\* Blocks of different orders have no unit in common.
LEMMA BlocksDisjoint ==
    ASSUME NEW o, NEW p, o # p, NEW m, NEW n
    PROVE  Block(o, m) \cap Block(p, n) = {}
  BY DEF Block

\* Adding a disjoint block adds its quantity.
LEMMA AddBlock ==
    ASSUME NEW S, IsFiniteSet(S), NEW order, NEW quantity \in Nat,
           S \cap Block(order, quantity) = {}
    PROVE  /\ IsFiniteSet(S \cup Block(order, quantity))
           /\ Cardinality(S \cup Block(order, quantity)) = Cardinality(S) + quantity
<1>1. /\ IsFiniteSet(Block(order, quantity))
      /\ Cardinality(Block(order, quantity)) = quantity
  BY BlockSize
<1>2. Cardinality(S) \in Nat
  BY FS_CardinalityType
<1>3. Cardinality(S \cap Block(order, quantity)) = 0
  BY FS_EmptySet
<1>4. /\ IsFiniteSet(S \cup Block(order, quantity))
      /\ Cardinality(S \cup Block(order, quantity))
           = Cardinality(S) + Cardinality(Block(order, quantity))
               - Cardinality(S \cap Block(order, quantity))
  BY <1>1, FS_Union
<1> QED BY <1>1, <1>2, <1>3, <1>4

\* Removing a block that is there takes its quantity away.
LEMMA RemoveBlock ==
    ASSUME NEW S, IsFiniteSet(S), NEW order, NEW quantity \in Nat,
           Block(order, quantity) \subseteq S
    PROVE  /\ IsFiniteSet(S \ Block(order, quantity))
           /\ Cardinality(S \ Block(order, quantity)) = Cardinality(S) - quantity
<1>1. /\ IsFiniteSet(Block(order, quantity))
      /\ Cardinality(Block(order, quantity)) = quantity
  BY BlockSize
<1>2. S \cap Block(order, quantity) = Block(order, quantity)
  OBVIOUS
<1>3. /\ IsFiniteSet(S \ Block(order, quantity))
      /\ Cardinality(S \ Block(order, quantity))
           = Cardinality(S) - Cardinality(S \cap Block(order, quantity))
  BY FS_Difference
<1> QED BY <1>1, <1>2, <1>3

\* A unit belongs to the block of one reservation of its item and status.
LEMMA UnitsMember ==
    ASSUME NEW table, NEW item, NEW status, NEW unit
    PROVE  unit \in Units(table, item, status) <=>
             \E p \in DOMAIN table : /\ table[p].item = item
                                     /\ table[p].status = status
                                     /\ unit \in Block(p, table[p].quantity)
  BY DEF Units, ReservationsOf, Block

\* A reservation that does not exist has no units.
LEMMA NoUnitsYet ==
    ASSUME NEW table, NEW o, o \notin DOMAIN table, NEW quantity, NEW item, NEW status
    PROVE  Units(table, item, status) \cap Block(o, quantity) = {}
  BY UnitsMember, BlocksDisjoint

\* A new reservation adds its block to the units of its item and status.
LEMMA UnitsOfNew ==
    ASSUME NEW table, NEW o, o \notin DOMAIN table, NEW row, NEW item, NEW status
    PROVE  Units(Put(table, o, row), item, status) =
             IF row.item = item /\ row.status = status
             THEN Units(table, item, status) \cup Block(o, row.quantity)
             ELSE Units(table, item, status)
<1> DEFINE after == Put(table, o, row)
<1>1. /\ DOMAIN after = DOMAIN table \cup {o}
      /\ after[o] = row
      /\ \A p \in DOMAIN table : after[p] = table[p]
  BY DEF Put
<1> HIDE DEF after
<1>2. ASSUME NEW unit
      PROVE  unit \in Units(after, item, status) <=>
               \/ unit \in Units(table, item, status)
               \/ row.item = item /\ row.status = status /\ unit \in Block(o, row.quantity)
  <2>1. unit \in Units(after, item, status) <=>
          \E p \in DOMAIN after : /\ after[p].item = item
                              /\ after[p].status = status
                              /\ unit \in Block(p, after[p].quantity)
    BY UnitsMember
  <2>2. unit \in Units(table, item, status) <=>
          \E p \in DOMAIN table : /\ table[p].item = item
                              /\ table[p].status = status
                              /\ unit \in Block(p, table[p].quantity)
    BY UnitsMember
  <2> QED BY <1>1, <2>1, <2>2
<1>3. Units(after, item, status) =
        IF row.item = item /\ row.status = status
        THEN Units(table, item, status) \cup Block(o, row.quantity)
        ELSE Units(table, item, status)
  BY <1>2
<1> QED BY <1>3 DEF after

\* Changing the status of a reservation moves its block.
LEMMA UnitsOfSettled ==
    ASSUME NEW table, NEW o \in DOMAIN table, NEW row,
           row.item = table[o].item, row.quantity = table[o].quantity,
           row.status # table[o].status, NEW item, NEW status,
           NEW after, DOMAIN after = DOMAIN table, after[o] = row,
           \A p \in DOMAIN table : p # o => after[p] = table[p]
    PROVE  Units(after, item, status) =
             IF item = row.item /\ status = table[o].status
             THEN Units(table, item, status) \ Block(o, row.quantity)
             ELSE IF item = row.item /\ status = row.status
             THEN Units(table, item, status) \cup Block(o, row.quantity)
             ELSE Units(table, item, status)
<1>1. ASSUME NEW unit
      PROVE  unit \in Units(after, item, status) <=>
               \/ unit \in Units(table, item, status) /\ unit \notin Block(o, row.quantity)
               \/ row.item = item /\ row.status = status /\ unit \in Block(o, row.quantity)
  <2>1. unit \in Units(after, item, status) <=>
          \E p \in DOMAIN after : /\ after[p].item = item
                              /\ after[p].status = status
                              /\ unit \in Block(p, after[p].quantity)
    BY UnitsMember
  <2>2. unit \in Units(table, item, status) <=>
          \E p \in DOMAIN table : /\ table[p].item = item
                              /\ table[p].status = status
                              /\ unit \in Block(p, table[p].quantity)
    BY UnitsMember
  <2>3. \A p \in DOMAIN table \ {o} :
           unit \in Block(p, table[p].quantity) => unit \notin Block(o, row.quantity)
    BY BlocksDisjoint
  <2> QED BY <2>1, <2>2, <2>3
<1>2. ASSUME NEW unit \in Block(o, row.quantity), unit \in Units(table, item, status)
      PROVE  item = row.item /\ status = table[o].status
  BY <1>2, UnitsMember, BlocksDisjoint
<1> QED BY <1>1, <1>2

\* The block of a reservation is among the units of its item and status, and of
\* no other status.
LEMMA UnitsOfRow ==
    ASSUME NEW table, NEW o \in DOMAIN table, NEW status
    PROVE  /\ Block(o, table[o].quantity) \subseteq Units(table, table[o].item, table[o].status)
           /\ status # table[o].status =>
                Units(table, table[o].item, status) \cap Block(o, table[o].quantity) = {}
  BY UnitsMember, BlocksDisjoint

\* An item without reservations has no units.
LEMMA NoUnits ==
    ASSUME NEW table, NEW item, NEW status, \A o \in DOMAIN table : table[o].item # item
    PROVE  Units(table, item, status) = {}
  BY UnitsMember

\* Deleting the reservations of an item keeps the units of the other items.
LEMMA UnitsOfKept ==
    ASSUME NEW table, NEW removed, NEW item, item # removed, NEW status
    PROVE  Units(Delete(table, ReservationsFor(table, removed)), item, status)
             = Units(table, item, status)
<1> DEFINE after == Delete(table, ReservationsFor(table, removed))
<1>1. /\ \A o : o \in DOMAIN after <=> o \in DOMAIN table /\ table[o].item # removed
      /\ \A p \in DOMAIN after : after[p] = table[p]
  BY DEF Delete, ReservationsFor
<1> HIDE DEF after
<1>2. ASSUME NEW unit
      PROVE  unit \in Units(after, item, status) <=> unit \in Units(table, item, status)
  <2>1. unit \in Units(after, item, status) <=>
          \E p \in DOMAIN after : /\ after[p].item = item
                              /\ after[p].status = status
                              /\ unit \in Block(p, after[p].quantity)
    BY UnitsMember
  <2>2. unit \in Units(table, item, status) <=>
          \E p \in DOMAIN table : /\ table[p].item = item
                              /\ table[p].status = status
                              /\ unit \in Block(p, table[p].quantity)
    BY UnitsMember
  <2> QED BY <1>1, <2>1, <2>2
<1>3. Units(after, item, status) = Units(table, item, status)
  BY <1>2
<1> QED BY <1>3 DEF after

--------------------------------------------------------------------------------
(* The counters and the reservations *)

\* The empty database satisfies the invariant.
LEMMA InitLedgerInv == Init => LedgerInv
<1> SUFFICES ASSUME Init PROVE LedgerInv
  OBVIOUS
<1>1. stock = << >> /\ reservations = << >>
  BY DEF Init
<1>2. \A i, s : Units(reservations, i, s) = {}
  BY <1>1 DEF Units, ReservationsOf
<1>3. DOMAIN stock = {} /\ DOMAIN reservations = {}
  BY <1>1
<1>4. \A i \in Items, s \in Statuses : IsFiniteSet(Units(reservations, i, s))
  BY <1>2, FS_EmptySet
<1> QED BY <1>3, <1>4, InitTypeOK
     DEF LedgerInv, ReservedItemsAreStocked, CountersMatchReservations

\* set_stock preserves the invariant: it starts the item again without units.
LEMMA SetStockLedgerInv ==
    ASSUME LedgerInv, TypeOK', NEW item \in Items, NEW quantity \in StockLevels,
           SetStock(item, quantity)
    PROVE  LedgerInv'
<1>1. quantity \in Nat
  BY StockLevelsAssumption DEF StockLevelsAssumption
<1>2. /\ DOMAIN stock' = DOMAIN stock \cup {item}
      /\ stock'[item] = [available |-> quantity, reserved |-> 0, sold |-> 0]
      /\ \A i \in DOMAIN stock : i # item => stock'[i] = stock[i]
  BY DEF SetStock, Put
<1>3. /\ \A o : o \in DOMAIN reservations' <=>
                 o \in DOMAIN reservations /\ reservations[o].item # item
      /\ \A o \in DOMAIN reservations' : reservations'[o] = reservations[o]
  <2>1. CASE item \in DOMAIN stock
    BY <2>1 DEF SetStock, Delete, ReservationsFor
  <2>2. CASE item \notin DOMAIN stock
    BY <2>2 DEF SetStock, LedgerInv, ReservedItemsAreStocked
  <2> QED BY <2>1, <2>2
<1>4. ASSUME NEW i, NEW s, i # item
      PROVE  Units(reservations', i, s) = Units(reservations, i, s)
  <2>1. CASE item \in DOMAIN stock
    BY <1>4, <2>1, UnitsOfKept DEF SetStock
  <2>2. CASE item \notin DOMAIN stock
    BY <2>2 DEF SetStock
  <2> QED BY <2>1, <2>2
<1>5. ASSUME NEW s PROVE Units(reservations', item, s) = {}
  <2>1. \A o \in DOMAIN reservations' : reservations'[o].item # item
    BY <1>3
  <2> QED BY <2>1, NoUnits
<1>6. ReservedItemsAreStocked'
  BY <1>2, <1>3 DEF LedgerInv, ReservedItemsAreStocked
<1>7. \A i \in Items, s \in Statuses : IsFiniteSet(Units(reservations', i, s))
  BY <1>4, <1>5, FS_EmptySet DEF LedgerInv
<1>8. CountersMatchReservations'
  BY <1>2, <1>4, <1>5, FS_EmptySet DEF LedgerInv, CountersMatchReservations
<1>9. \A i \in DOMAIN stock' : stock'[i].available >= 0
  BY <1>1, <1>2 DEF LedgerInv
<1> QED BY <1>6, <1>7, <1>8, <1>9 DEF LedgerInv

\* A reservation preserves the invariant: it adds its units to the reserved ones.
LEMMA ReserveLedgerInv ==
    ASSUME LedgerInv, TypeOK', NEW e \in Inbound, e.type = "order.created", Reserve(e)
    PROVE  LedgerInv'
<1> DEFINE item == e.payload.item
           quantity == e.payload.quantity
           row == [item |-> item, quantity |-> quantity, status |-> "RESERVED"]
<1>1. /\ item \in Items \cap DOMAIN stock /\ quantity \in Nat \ {0}
      /\ stock[item] \in StockRows /\ stock[item].available >= quantity
  BY InboundAssumption
     DEF InboundAssumption, Reserve, InStock, CanReserve, LedgerInv, TypeOK, IsTable
<1>2. /\ DOMAIN stock' = DOMAIN stock
      /\ stock'[item] = Hold(stock[item], quantity)
      /\ \A i \in DOMAIN stock : i # item => stock'[i] = stock[i]
  BY <1>1 DEF Reserve, Put
<1>3. /\ e.order \notin DOMAIN reservations
      /\ DOMAIN reservations' = DOMAIN reservations \cup {e.order}
      /\ reservations'[e.order] = row
      /\ \A o \in DOMAIN reservations : reservations'[o] = reservations[o]
  BY DEF Reserve, Put
<1>4. /\ stock'[item].available = stock[item].available - quantity
      /\ stock'[item].reserved = stock[item].reserved + quantity
      /\ stock'[item].sold = stock[item].sold
  BY <1>1, <1>2, HoldRow
<1>5. row.item = item /\ row.quantity = quantity /\ row.status = "RESERVED"
  OBVIOUS
<1>6. reservations' = Put(reservations, e.order, row)
  BY DEF Reserve
<1> HIDE DEF row
<1>7. \A i, s : Units(reservations', i, s) =
                  IF row.item = i /\ row.status = s
                  THEN Units(reservations, i, s) \cup Block(e.order, row.quantity)
                  ELSE Units(reservations, i, s)
  <2> TAKE i, s
  <2>1. e.order \notin DOMAIN reservations
    BY <1>3
  <2>2. Units(Put(reservations, e.order, row), i, s) =
          IF row.item = i /\ row.status = s
          THEN Units(reservations, i, s) \cup Block(e.order, row.quantity)
          ELSE Units(reservations, i, s)
    BY <2>1, UnitsOfNew
  <2> QED BY <1>6, <2>2
<1>8. /\ IsFiniteSet(Units(reservations', item, "RESERVED"))
      /\ Cardinality(Units(reservations', item, "RESERVED"))
           = Cardinality(Units(reservations, item, "RESERVED")) + quantity
  <2>1. Units(reservations, item, "RESERVED") \cap Block(e.order, quantity) = {}
    BY <1>3, NoUnitsYet
  <2> QED BY <1>1, <1>5, <1>7, <2>1, AddBlock DEF LedgerInv, Statuses
<1>9. ReservedItemsAreStocked'
  BY <1>1, <1>2, <1>3, <1>5 DEF LedgerInv, ReservedItemsAreStocked
<1>10. \A i \in Items, s \in Statuses : IsFiniteSet(Units(reservations', i, s))
  BY <1>5, <1>7, <1>8 DEF LedgerInv
<1>11. CountersMatchReservations'
  BY <1>1, <1>2, <1>4, <1>5, <1>7, <1>8 DEF LedgerInv, CountersMatchReservations
<1>12. \A i \in DOMAIN stock' : stock'[i].available >= 0
  BY <1>1, <1>2, <1>4 DEF LedgerInv, StockRows
<1> QED BY <1>9, <1>10, <1>11, <1>12 DEF LedgerInv

\* A settlement preserves the invariant: its units move to sold, or back to the shelf.
LEMMA SettleLedgerInv ==
    ASSUME LedgerInv, TypeOK', NEW e \in Inbound, SettleReservation(e)
    PROVE  LedgerInv'
<1> DEFINE o == e.order
           r == reservations[o]
           status == SettledStatus(e.type)
           row == [r EXCEPT !.status = status]
<1>1. /\ o \in DOMAIN reservations /\ r \in ReservationRows /\ r.status = "RESERVED"
      /\ r.item \in Items \cap DOMAIN stock /\ r.quantity \in Nat
      /\ stock[r.item] \in StockRows
  BY DEF SettleReservation, Reserved, LedgerInv, TypeOK, IsTable, ReservationRows
<1>2. /\ status = IF e.type = "inventory.release" THEN "RELEASED" ELSE "COMMITTED"
      /\ status \in Statuses
  BY DEF SettledStatus, Statuses
<1>3. row.item = r.item /\ row.quantity = r.quantity /\ row.status = status
  BY <1>1 DEF ReservationRows
<1>4. /\ DOMAIN stock' = DOMAIN stock
      /\ stock'[r.item] = Settle(stock[r.item], r, e.type)
      /\ \A i \in DOMAIN stock : i # r.item => stock'[i] = stock[i]
  BY <1>1 DEF SettleReservation, Put
<1>5. /\ DOMAIN reservations' = DOMAIN reservations
      /\ reservations'[o] = row
      /\ \A p \in DOMAIN reservations : p # o => reservations'[p] = reservations[p]
  BY <1>1 DEF SettleReservation, Put
<1> HIDE DEF row, status
<1>6. \A i, s :
         Units(reservations', i, s) =
           IF i = r.item /\ s = "RESERVED"
           THEN Units(reservations, i, s) \ Block(o, r.quantity)
           ELSE IF i = r.item /\ s = status
           THEN Units(reservations, i, s) \cup Block(o, r.quantity)
           ELSE Units(reservations, i, s)
  <2> TAKE i, s
  <2> QED BY <1>1, <1>2, <1>3, <1>5, UnitsOfSettled
<1>7. /\ Block(o, r.quantity) \subseteq Units(reservations, r.item, "RESERVED")
      /\ Units(reservations, r.item, status) \cap Block(o, r.quantity) = {}
  BY <1>1, <1>2, UnitsOfRow
<1>8. /\ IsFiniteSet(Units(reservations, r.item, "RESERVED"))
      /\ IsFiniteSet(Units(reservations, r.item, status))
  BY <1>1, <1>2 DEF LedgerInv, Statuses
<1>9. /\ IsFiniteSet(Units(reservations', r.item, "RESERVED"))
      /\ Cardinality(Units(reservations', r.item, "RESERVED"))
           = Cardinality(Units(reservations, r.item, "RESERVED")) - r.quantity
  BY <1>1, <1>6, <1>7, <1>8, RemoveBlock
<1>10. /\ IsFiniteSet(Units(reservations', r.item, status))
       /\ Cardinality(Units(reservations', r.item, status))
            = Cardinality(Units(reservations, r.item, status)) + r.quantity
  BY <1>1, <1>2, <1>6, <1>7, <1>8, AddBlock
<1>11. ReservedItemsAreStocked'
  BY <1>3, <1>4, <1>5 DEF LedgerInv, ReservedItemsAreStocked
<1>12. \A i \in Items, s \in Statuses : IsFiniteSet(Units(reservations', i, s))
  BY <1>6, <1>9, <1>10 DEF LedgerInv
<1>13. CountersMatchReservations'
  BY <1>1, <1>2, <1>4, <1>6, <1>9, <1>10, SettleRow
     DEF LedgerInv, CountersMatchReservations, StockRows
<1>14. \A i \in DOMAIN stock' : stock'[i].available >= 0
  BY <1>1, <1>4, SettleRow DEF LedgerInv, StockRows
<1> QED BY <1>11, <1>12, <1>13, <1>14 DEF LedgerInv

\* Every step preserves the invariant.
LEMMA NextLedgerInv == LedgerInv /\ [Next]_vars => LedgerInv'
<1> SUFFICES ASSUME LedgerInv, [Next]_vars PROVE LedgerInv'
  OBVIOUS
<1>1. TypeOK'
  BY NextTypeOK DEF LedgerInv
<1>2. ASSUME UNCHANGED <<stock, reservations>> PROVE LedgerInv'
  BY <1>1, <1>2 DEF LedgerInv, ReservedItemsAreStocked, CountersMatchReservations
<1>3. ASSUME NEW item \in Items, NEW quantity \in StockLevels, SetStock(item, quantity)
      PROVE  LedgerInv'
  BY <1>1, <1>3, SetStockLedgerInv
<1>4. ASSUME NEW e \in Inbound, FindNoItem(e)
      PROVE  LedgerInv'
  BY <1>2, <1>4 DEF FindNoItem
<1>5. ASSUME NEW e \in Inbound, HandleOrderCreated(e)
      PROVE  LedgerInv'
  BY <1>1, <1>2, <1>5, ReserveLedgerInv DEF HandleOrderCreated, AlreadyReserved, Reject
<1>6. ASSUME NEW e \in Inbound, HandleSettlement(e)
      PROVE  LedgerInv'
  BY <1>1, <1>2, <1>6, SettleLedgerInv DEF HandleSettlement
<1>7. CASE UNCHANGED vars
  BY <1>2, <1>7 DEF vars
<1> QED BY <1>3, <1>4, <1>5, <1>6, <1>7 DEF Next

\* The invariant gives the two properties.
LEMMA LedgerInvImplies == LedgerInv => CountersMatchReservations /\ NoOverselling
<1> SUFFICES ASSUME LedgerInv, NEW i \in DOMAIN stock
             PROVE  stock[i].reserved >= 0 /\ stock[i].sold >= 0
  BY DEF LedgerInv, NoOverselling
<1>1. i \in Items
  BY DEF LedgerInv, TypeOK, IsTable
<1>2. /\ Cardinality(Units(reservations, i, "RESERVED")) \in Nat
      /\ Cardinality(Units(reservations, i, "COMMITTED")) \in Nat
  BY <1>1, FS_CardinalityType DEF LedgerInv, Statuses
<1> QED BY <1>2 DEF LedgerInv, CountersMatchReservations

\* The reserved and sold counters of every item always are the units its held and
\* its committed reservations stand for.
THEOREM CountersCorrect == Spec => []CountersMatchReservations
<1>1. Spec => []LedgerInv
  BY InitLedgerInv, NextLedgerInv, PTL DEF Spec
<1> QED BY <1>1, LedgerInvImplies, PTL

\* No counter of an item ever goes below zero, whatever is reserved, settled,
\* redelivered and reset in whatever order.
THEOREM NeverOversold == Spec => []NoOverselling
<1>1. Spec => []LedgerInv
  BY InitLedgerInv, NextLedgerInv, PTL DEF Spec
<1> QED BY <1>1, LedgerInvImplies, PTL

--------------------------------------------------------------------------------
(* Steps *)

\* Handling events moves units between the counters of an item and never makes or
\* loses one.
THEOREM UnitsConserved == Spec => UnitsAreConserved
<1> DEFINE Conserved(i) == i \in DOMAIN stock' /\ Total(stock'[i]) = Total(stock[i])
           WasReset(i) == \E quantity \in StockLevels : SetStock(i, quantity)
<1>1. ASSUME TypeOK, [Next]_vars, NEW i \in DOMAIN stock
      PROVE  Conserved(i) \/ WasReset(i)
  <2>1. CASE UNCHANGED stock
    BY <2>1
  <2>2. ASSUME NEW item \in Items, NEW quantity \in StockLevels, SetStock(item, quantity)
        PROVE  Conserved(i) \/ WasReset(i)
    <3>1. CASE item = i
      BY <2>2, <3>1
    <3>2. CASE item # i
      BY <2>2, <3>2 DEF SetStock, Put
    <3> QED BY <3>1, <3>2
  <2>3. ASSUME NEW e \in Inbound, e.type = "order.created", Reserve(e)
        PROVE  Conserved(i)
    <3> DEFINE item == e.payload.item
               quantity == e.payload.quantity
    <3>1. /\ item \in DOMAIN stock /\ stock[item] \in StockRows /\ quantity \in Int
      BY <1>1, <2>3, InboundAssumption DEF InboundAssumption, Reserve, InStock, TypeOK, IsTable
    <3>2. /\ DOMAIN stock' = DOMAIN stock
          /\ stock'[item] = Hold(stock[item], quantity)
          /\ i # item => stock'[i] = stock[i]
      BY <2>3, <3>1 DEF Reserve, Put
    <3>3. /\ stock'[item].available = stock[item].available - quantity
          /\ stock'[item].reserved = stock[item].reserved + quantity
          /\ stock'[item].sold = stock[item].sold
      BY <3>1, <3>2, HoldRow
    <3> HIDE DEF item, quantity
    <3> QED BY <3>1, <3>2, <3>3 DEF Total, StockRows
  <2>4. ASSUME NEW e \in Inbound, SettleReservation(e)
        PROVE  Conserved(i)
    <3> DEFINE r == reservations[e.order]
    <3>1. r.item \in DOMAIN stock /\ stock[r.item] \in StockRows /\ r.quantity \in Int
      BY <1>1, <2>4 DEF SettleReservation, Reserved, TypeOK, IsTable, ReservationRows
    <3>2. /\ DOMAIN stock' = DOMAIN stock
          /\ stock'[r.item] = Settle(stock[r.item], r, e.type)
          /\ i # r.item => stock'[i] = stock[i]
      BY <2>4, <3>1 DEF SettleReservation, Put
    <3> QED BY <3>1, <3>2, SettleRow DEF Total, StockRows
  <2> QED BY <1>1, <2>1, <2>2, <2>3, <2>4
       DEF Next, vars, FindNoItem, HandleOrderCreated, AlreadyReserved, Reject, HandleSettlement
<1>2. TypeOK /\ [Next]_vars => [Conserve]_vars
  BY <1>1 DEF Conserve
<1> QED BY <1>2, TypeCorrect, PTL DEF Spec, UnitsAreConserved

\* Until its item is reset, a settled reservation keeps its status, and every
\* reservation keeps its units.
THEOREM SettlementsFinal == Spec => SettledIsFinal
<1> DEFINE Kept(o) == /\ o \in DOMAIN reservations'
                      /\ reservations'[o].quantity = reservations[o].quantity
                      /\ \/ reservations'[o].status = reservations[o].status
                         \/ reservations[o].status = "RESERVED"
           WasReset(o) == \E quantity \in StockLevels : SetStock(reservations[o].item, quantity)
<1>1. ASSUME TypeOK, [Next]_vars, NEW o \in DOMAIN reservations
      PROVE  Kept(o) \/ WasReset(o)
  <2>1. CASE UNCHANGED reservations
    BY <2>1
  <2>2. ASSUME NEW item \in Items, NEW quantity \in StockLevels, SetStock(item, quantity)
        PROVE  Kept(o) \/ WasReset(o)
    <3>1. CASE reservations[o].item = item
      BY <2>2, <3>1
    <3>2. CASE reservations[o].item # item
      BY <2>2, <3>2 DEF SetStock, Delete, ReservationsFor
    <3> QED BY <3>1, <3>2
  <2>3. ASSUME NEW e \in Inbound, Reserve(e)
        PROVE  Kept(o)
    BY <2>3 DEF Reserve, Put
  <2>4. ASSUME NEW e \in Inbound, SettleReservation(e)
        PROVE  Kept(o)
    <3>1. CASE o # e.order
      BY <2>4, <3>1 DEF SettleReservation, Put
    <3>2. CASE o = e.order
      <4>1. PICK r : r = reservations[o]
        OBVIOUS
      <4>2. r \in ReservationRows /\ r.status = "RESERVED"
        BY <1>1, <2>4, <3>2, <4>1 DEF SettleReservation, Reserved, TypeOK, IsTable
      <4>3. PICK settled : settled = [r EXCEPT !.status = SettledStatus(e.type)]
        OBVIOUS
      <4>4. settled.quantity = r.quantity
        BY <4>2, <4>3 DEF ReservationRows
      <4>5. o \in DOMAIN reservations' /\ reservations'[o] = settled
        BY <2>4, <3>2, <4>1, <4>3 DEF SettleReservation, Put
      <4> QED BY <4>1, <4>2, <4>4, <4>5
    <3> QED BY <3>1, <3>2
  <2> QED BY <1>1, <2>1, <2>2, <2>3, <2>4
       DEF Next, vars, FindNoItem, HandleOrderCreated, AlreadyReserved, Reject, HandleSettlement
<1>2. TypeOK /\ [Next]_vars => [KeepSettled]_vars
  BY <1>1 DEF KeepSettled
<1> QED BY <1>2, TypeCorrect, PTL DEF Spec, SettledIsFinal

================================================================================
