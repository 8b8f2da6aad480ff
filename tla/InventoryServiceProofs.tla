------------------------ MODULE InventoryServiceProofs -------------------------
(*****************************************************************************)
(* Proofs about InventoryService, for any number of consumers, set_stock     *)
(* threads, orders and items, and any number of requests and crashes.        *)
(*                                                                           *)
(* The row locks are what makes it implement InventoryLedger: LocksInv says  *)
(* that no row has two holders, CopiesInv that what a transaction has read   *)
(* under a lock is still what the table holds.                               *)
(*****************************************************************************)
EXTENDS InventoryService, FiniteSetTheorems, TLAPS

\* InventoryLedger with its lemmas.
Atomic == INSTANCE InventoryLedgerProofs

--------------------------------------------------------------------------------
(* The invariant *)

\* The orders whose order.created has been handled.
Answered(o) == \E e \in Inbound : /\ e.type = "order.created" /\ e.order = o
                                  /\ Id(e) \in processed

\* What happens to an order happens when its order.created is handled, which is once.
AnsweredInv ==
    /\ \A o \in DOMAIN reservations : Answered(o)
    /\ \A r \in outbox : r.type \in InventoryVerdicts => Answered(r.order)
    /\ \A e \in Inbound :
          /\ e.type = "order.created" /\ Id(e) \in processed =>
                /\ e.payload.item \notin DOMAIN stock => Id(e) \in unknown
                /\ \E r \in outbox : \A x \in outbox :
                      x.type \in InventoryVerdicts /\ x.order = e.order <=> x = r

\* No row has two holders.
LocksInv == \A p, q \in Processes : p # q => txn[p].rows \cap txn[q].rows = {}

HandlerPcs == {"find_reservation", "lock_reservation", "lock_item", "write", "mark"}
RequestPcs == {"select", "delete", "insert"}

\* An open transaction has the fields its program counter calls for.
TxnFields(p) ==
    LET t == txn[p]
    IN  /\ {"pc", "rows"} \subseteq DOMAIN t
        /\ p \in Consumers => t.pc \in {"idle"} \cup HandlerPcs
        /\ p \in Setters => t.pc \in {"idle"} \cup RequestPcs
        /\ t.pc \in HandlerPcs => "event" \in DOMAIN t /\ t.event \in Inbound
        /\ t.pc \in {"lock_item", "write"} => "item" \in DOMAIN t
        /\ t.pc \in RequestPcs =>
              /\ {"item", "quantity"} \subseteq DOMAIN t
              /\ t.item \in Items /\ t.quantity \in StockLevels

TxnInv == DOMAIN txn = Processes /\ \A p \in Processes : TxnFields(p)

\* The settlement of t's event holds its reservation, and its copy is current.
HoldsReservation(t) ==
    /\ Ledger!Reserved(t.event.order)
    /\ "reservation" \in DOMAIN t
    /\ t.reservation = reservations[t.event.order]
    /\ t.item = t.reservation.item

\* The reservations of an item, before and while they are deleted.
ReservedFor(order, item) ==
    order \in DOMAIN reservations /\ reservations[order].item = item

\* What a transaction holds, and that what it has read is still so.
CopyOK(p) ==
    LET t       == txn[p]
        created == t.event.type = "order.created"
        settles == ~created /\ Answered(t.event.order)
    IN  /\ t.pc \in {"idle", "find_reservation", "lock_reservation", "select", "insert"} =>
              t.rows = {}
        /\ t.pc = "find_reservation" => created
        /\ t.pc = "lock_reservation" => settles
        /\ t.pc = "lock_item" =>
              \/ created /\ t.item = t.event.payload.item /\ t.rows = {}
              \/ settles /\ HoldsReservation(t) /\ t.rows = {ReservationRow(t.event.order)}
        /\ t.pc = "write" =>
              \/ /\ created /\ t.item = t.event.payload.item
                 /\ t.found = {} /\ t.rows = {} /\ Id(t.event) \in unknown
              \/ /\ created /\ t.item = t.event.payload.item
                 /\ t.item \in DOMAIN stock
                 /\ t.found = {stock[t.item]} /\ t.rows = {ItemRow(t.item)}
              \/ /\ settles /\ HoldsReservation(t)
                 /\ t.item \in DOMAIN stock
                 /\ t.found = {stock[t.item]}
                 /\ t.rows = {ReservationRow(t.event.order), ItemRow(t.item)}
        /\ t.pc = "mark" =>
              \/ created /\ Id(t.event) \in processed /\ t.rows = {}
              \/ /\ settles /\ ~Ledger!Reserved(t.event.order)
                 /\ t.rows \subseteq {ReservationRow(t.event.order)}
        /\ t.pc = "delete" =>
              /\ t.item \in DOMAIN stock
              /\ ItemRow(t.item) \in t.rows
              /\ \A row \in t.rows : row = ItemRow(t.item) \/ \E o : row = ReservationRow(o)
              /\ "todo" \in DOMAIN t
              /\ \A o : o \in t.todo \/ ReservationRow(o) \in t.rows <=> ReservedFor(o, t.item)

CopiesInv == \A p \in Processes : CopyOK(p)

ServiceInv == Atomic!LedgerInv /\ AnsweredInv /\ LocksInv /\ TxnInv /\ CopiesInv

--------------------------------------------------------------------------------
(* The instances *)

\* The stock levels of the ledger's lemmas are natural numbers.
LEMMA LevelsAreNatural == Atomic!StockLevelsAssumption
  BY StockAssumption DEF StockAssumption, Atomic!StockLevelsAssumption

\* The inbound events are those of the ledger's lemmas.
LEMMA InboundIsInbound == Atomic!InboundAssumption
  BY InboundAssumption DEF InboundAssumption, InventoryCommands,
                           Atomic!InboundAssumption, Atomic!InventoryCommands

\* Writing a row that is there changes that row only.
LEMMA PutKeeps ==
    ASSUME NEW table, NEW key \in DOMAIN table, NEW row
    PROVE  /\ DOMAIN Put(table, key, row) = DOMAIN table
           /\ Put(table, key, row)[key] = row
           /\ \A k \in DOMAIN table : k # key => Put(table, key, row)[k] = table[k]
  BY DEF Put

\* It is what EXCEPT does to a table.
LEMMA PutIsExcept ==
    ASSUME NEW table, table = [k \in DOMAIN table |-> table[k]],
           NEW key \in DOMAIN table, NEW row
    PROVE  [table EXCEPT ![key] = row] = Put(table, key, row)
<1>1. DOMAIN table \cup {key} = DOMAIN table
  OBVIOUS
<1> QED BY <1>1 DEF Put

\* Every instance has its own copy of the helpers, and they are the same.
LEMMA SameHelpers ==
    /\ \A S : Ledger!Cardinality(S) = Cardinality(S) /\ Atomic!Cardinality(S) = Cardinality(S)
    /\ \A e : Ledger!Id(e) = Id(e) /\ Atomic!Id(e) = Id(e)
    /\ \A table, key, row : /\ Ledger!Put(table, key, row) = Put(table, key, row)
                            /\ Atomic!Put(table, key, row) = Put(table, key, row)
    /\ \A table, keys : /\ Ledger!Delete(table, keys) = Delete(table, keys)
                        /\ Atomic!Delete(table, keys) = Delete(table, keys)
  BY DEF Cardinality, Id, Put, Delete,
         Ledger!Cardinality, Ledger!Id, Ledger!Put, Ledger!Delete,
         Atomic!Cardinality, Atomic!Id, Atomic!Put, Atomic!Delete

\* So is the writing of a new event.
LEMMA SameEmit ==
    \A type, order, payload : Ledger!Emit(type, order, payload) <=> Atomic!Emit(type, order, payload)
  BY SameHelpers DEF Ledger!Emit, Ledger!NewEvent, Atomic!Emit, Atomic!NewEvent

\* The ledger this service implements is the one the lemmas are about.
LEMMA SameLedger ==
    /\ Ledger!Init <=> Atomic!Init
    /\ [Ledger!Next]_(Ledger!vars) <=> [Atomic!Next]_(Atomic!vars)
<1>1. Ledger!Init <=> Atomic!Init
  BY DEF Ledger!Init, Atomic!Init
<1>2. \A item, quantity : Ledger!SetStock(item, quantity) <=> Atomic!SetStock(item, quantity)
  BY SameHelpers DEF Ledger!SetStock, Ledger!ReservationsFor, Atomic!SetStock, Atomic!ReservationsFor
<1>3. \A e : Ledger!FindNoItem(e) <=> Atomic!FindNoItem(e)
  BY SameHelpers DEF Ledger!FindNoItem, Atomic!FindNoItem
<1>4. ASSUME NEW e
      PROVE  Ledger!HandleOrderCreated(e) <=> Atomic!HandleOrderCreated(e)
  <2>1. Ledger!AlreadyReserved(e) <=> Atomic!AlreadyReserved(e)
    BY DEF Ledger!AlreadyReserved, Atomic!AlreadyReserved
  <2>2. Ledger!InStock(e.payload) <=> Atomic!InStock(e.payload)
    BY DEF Ledger!InStock, Ledger!CanReserve, Atomic!InStock, Atomic!CanReserve
  <2>3. Ledger!Reserve(e) <=> Atomic!Reserve(e)
    BY <2>2, SameHelpers, SameEmit
    DEF Ledger!Reserve, Ledger!Hold, Atomic!Reserve, Atomic!Hold
  <2>4. Ledger!Reject(e) <=> Atomic!Reject(e)
    BY <2>2, SameHelpers, SameEmit DEF Ledger!Reject, Atomic!Reject
  <2> QED BY <2>1, <2>3, <2>4, SameHelpers DEF Ledger!HandleOrderCreated, Atomic!HandleOrderCreated
<1>5. ASSUME NEW e
      PROVE  Ledger!HandleSettlement(e) <=> Atomic!HandleSettlement(e)
  <2>1. Ledger!Reserved(e.order) <=> Atomic!Reserved(e.order)
    BY DEF Ledger!Reserved, Atomic!Reserved
  <2>2. \A row, r : Ledger!Settle(row, r, e.type) = Atomic!Settle(row, r, e.type)
    BY DEF Ledger!Settle, Atomic!Settle
  <2>3. Ledger!SettledStatus(e.type) = Atomic!SettledStatus(e.type)
    BY DEF Ledger!SettledStatus, Atomic!SettledStatus
  <2>4. Ledger!SettleReservation(e) <=> Atomic!SettleReservation(e)
    BY <2>1, <2>2, <2>3, SameHelpers, SameEmit
    DEF Ledger!SettleReservation, Atomic!SettleReservation
  <2> QED BY <2>1, <2>4, SameHelpers
       DEF Ledger!HandleSettlement, Ledger!InventoryCommands,
           Atomic!HandleSettlement, Atomic!InventoryCommands
<1>6. Ledger!Next <=> Atomic!Next
  BY <1>2, <1>3, <1>4, <1>5 DEF Ledger!Next, Atomic!Next
<1>7. UNCHANGED Ledger!vars <=> UNCHANGED Atomic!vars
  BY DEF Ledger!vars, Atomic!vars
<1> QED BY <1>1, <1>6, <1>7

\* What the ledger's invariant says of the tables.
LEMMA TableFacts ==
    ASSUME Atomic!LedgerInv
    PROVE  /\ stock = [i \in DOMAIN stock |-> stock[i]]
           /\ reservations = [o \in DOMAIN reservations |-> reservations[o]]
           /\ \A i \in DOMAIN stock :
                 i \in Items /\ stock[i] \in [available : Int, reserved : Int, sold : Int]
           /\ \A o \in DOMAIN reservations :
                 /\ o \in Orders
                 /\ reservations[o] \in [item : Items, quantity : Nat \ {0},
                                         status : {"RESERVED", "RELEASED", "COMMITTED"}]
                 /\ reservations[o].item \in DOMAIN stock
  BY DEF Atomic!LedgerInv, Atomic!TypeOK, Atomic!IsTable, Atomic!StockRows,
         Atomic!ReservationRows, Atomic!Statuses, Atomic!ReservedItemsAreStocked

--------------------------------------------------------------------------------
(* Transactions *)

\* What a statement leaves in its process's transaction, and in the others.
LEMMA StepFields ==
    ASSUME DOMAIN txn = Processes, NEW p \in Processes, NEW pc, NEW more, Step(p, pc, more)
    PROVE  /\ DOMAIN txn' = Processes
           /\ \A q \in Processes \ {p} : txn'[q] = txn[q]
           /\ DOMAIN txn'[p] = DOMAIN txn[p] \cup DOMAIN more
           /\ "pc" \in DOMAIN txn[p] => txn'[p].pc = pc
           /\ \A f \in DOMAIN more : f # "pc" => txn'[p][f] = more[f]
           /\ \A f \in DOMAIN txn[p] \ DOMAIN more : f # "pc" => txn'[p][f] = txn[p][f]
  BY DEF Step

\* The end of a transaction.
LEMMA EndFields ==
    ASSUME DOMAIN txn = Processes, NEW p \in Processes, End(p)
    PROVE  /\ DOMAIN txn' = Processes
           /\ \A q \in Processes \ {p} : txn'[q] = txn[q]
           /\ txn'[p].pc = "idle" /\ txn'[p].rows = {}
           /\ TxnFields(p)' /\ CopyOK(p)'
  BY DEF End, Idle, TxnFields, CopyOK, HandlerPcs, RequestPcs

--------------------------------------------------------------------------------
(* What a step may change *)

\* A step of p changes an item only if p holds its row, a reservation only if p
\* holds it and its item, and makes a reservation only of an item it holds, for an
\* order that was not handled before. What is no longer reserved stays so.
Frame(p) ==
    /\ \A i \in DOMAIN stock :
          /\ i \in DOMAIN stock'
          /\ ItemRow(i) \in txn[p].rows \/ stock'[i] = stock[i]
    /\ \A o \in DOMAIN reservations :
          \/ /\ ReservationRow(o) \in txn[p].rows
             /\ ItemRow(reservations[o].item) \in txn[p].rows
             /\ o \in DOMAIN reservations' => /\ reservations'[o].item = reservations[o].item
                                              /\ ~Ledger!Reserved(o)'
          \/ o \in DOMAIN reservations' /\ reservations'[o] = reservations[o]
    /\ \A o \in DOMAIN reservations' \ DOMAIN reservations :
          ~Answered(o) /\ ItemRow(reservations'[o].item) \in txn[p].rows
    /\ processed \subseteq processed' /\ unknown \subseteq unknown'

\* What p changes leaves the copies of the others current: the rows are theirs.
LEMMA OthersKeepCopies ==
    ASSUME ServiceInv, NEW p \in Processes, Frame(p),
           NEW q \in Processes \ {p}, txn'[q] = txn[q]
    PROVE  CopyOK(q)'
<1> DEFINE t == txn[q]
           o == t.event.order
<1>1. CopyOK(q) /\ txn[q].rows \cap txn[p].rows = {}
  BY DEF ServiceInv, CopiesInv, LocksInv
<1>2. \A k : Answered(k) => Answered(k)'
  BY DEF Answered, Frame
<1>3. HoldsReservation(t) /\ ReservationRow(o) \in t.rows => HoldsReservation(t)'
  BY <1>1 DEF Frame, HoldsReservation, Ledger!Reserved
<1>4. Answered(o) /\ ~Ledger!Reserved(o) => ~Ledger!Reserved(o)'
  BY DEF Frame, Ledger!Reserved
<1>5. \A i \in DOMAIN stock : ItemRow(i) \in t.rows => i \in DOMAIN stock' /\ stock'[i] = stock[i]
  BY <1>1 DEF Frame
<1>6. \A i, k : ItemRow(i) \in t.rows => (ReservedFor(k, i) <=> ReservedFor(k, i)')
  BY <1>1 DEF Frame, ReservedFor
<1> QED
  BY <1>1, <1>2, <1>3, <1>4, <1>5, <1>6 DEF CopyOK, Frame

\* A step of p that keeps to the frame, takes only free rows and leaves p's own
\* transaction in order preserves the invariant.
StepOK(p) ==
    /\ DOMAIN txn' = Processes
    /\ \A q \in Processes \ {p} : txn'[q] = txn[q]
    /\ \A row \in txn'[p].rows : row \in txn[p].rows \/ Free(p, row)
    /\ TxnFields(p)' /\ CopyOK(p)'
    /\ Frame(p)
    /\ AnsweredInv'
    /\ [Ledger!Next]_(Ledger!vars)

\* The lemma each kind of step is shown to fall under.
LEMMA StepKeepsInv ==
    ASSUME ServiceInv, NEW p \in Processes, StepOK(p)
    PROVE  ServiceInv'
<1>1. Atomic!LedgerInv'
  BY LevelsAreNatural, InboundIsInbound, SameLedger, Atomic!NextLedgerInv DEF ServiceInv, StepOK
<1>2. LocksInv'
  BY DEF ServiceInv, LocksInv, StepOK, Free
<1>3. TxnInv'
  BY DEF ServiceInv, TxnInv, StepOK, TxnFields
<1>4. CopiesInv'
  BY OthersKeepCopies DEF CopiesInv, StepOK
<1> QED BY <1>1, <1>2, <1>3, <1>4 DEF ServiceInv, StepOK

\* A step that writes nothing keeps to the frame.
LEMMA ReadOnly ==
    ASSUME ServiceInv, NEW p \in Processes, UNCHANGED tables
    PROVE  Frame(p) /\ AnsweredInv' /\ [Ledger!Next]_(Ledger!vars)
<1>1. \A o : Answered(o) <=> Answered(o)'
  BY DEF Answered, tables
<1>2. AnsweredInv'
  BY <1>1 DEF ServiceInv, AnsweredInv, tables
<1> QED BY <1>2 DEF Frame, tables, Ledger!vars

\* The end of a transaction that writes nothing.
LEMMA EndOK ==
    ASSUME ServiceInv, NEW p \in Processes, UNCHANGED tables, End(p)
    PROVE  StepOK(p)
  BY ReadOnly, EndFields DEF StepOK, ServiceInv, TxnInv

--------------------------------------------------------------------------------
(* The statements of a consumer *)

\* An event is delivered.
LEMMA ReceiveOK ==
    ASSUME ServiceInv, NEW c \in Consumers, NEW e \in Inbound, Receive(c, e)
    PROVE  StepOK(c)
<1> DEFINE pc == IF e.type = "order.created" THEN "find_reservation" ELSE "lock_reservation"
           more == [event |-> e]
<1>1. /\ c \in Processes /\ DOMAIN txn = Processes
      /\ TxnFields(c) /\ CopyOK(c) /\ txn[c].pc = "idle"
      /\ Step(c, pc, more) /\ UNCHANGED tables
      /\ DOMAIN more = {"event"} /\ more["event"] = e
  BY DEF ServiceInv, TxnInv, CopiesInv, Receive, At, Processes
<1>2. e.type # "order.created" => Answered(e.order)
  BY DEF Receive, Deliverable, ServiceInv, AnsweredInv, InventoryVerdicts
<1> HIDE DEF pc, more
<1>3. /\ DOMAIN txn' = Processes
      /\ \A q \in Processes \ {c} : txn'[q] = txn[q]
      /\ DOMAIN txn'[c] = DOMAIN txn[c] \cup {"event"}
      /\ txn'[c].pc = pc /\ txn'[c].event = e /\ txn'[c].rows = txn[c].rows
  BY <1>1, StepFields DEF TxnFields
<1>4. txn'[c].rows = {}
  BY <1>1, <1>3 DEF CopyOK
<1>5. TxnFields(c)'
  BY <1>1, <1>3, ThreadsAssumption DEF TxnFields, ThreadsAssumption, HandlerPcs, RequestPcs, pc
<1>6. Answered(e.order) => Answered(e.order)'
  BY <1>1 DEF Answered, tables
<1>7. CopyOK(c)'
  BY <1>2, <1>3, <1>4, <1>6 DEF CopyOK, pc
<1> QED BY <1>1, <1>3, <1>4, <1>5, <1>7, ReadOnly DEF StepOK

\* The unlocked read of the reservation.
LEMMA FindReservationOK ==
    ASSUME ServiceInv, NEW c \in Consumers, FindReservation(c)
    PROVE  StepOK(c)
<1> DEFINE e == txn[c].event
<1>1. /\ c \in Processes /\ DOMAIN txn = Processes
      /\ TxnFields(c) /\ CopyOK(c) /\ txn[c].pc = "find_reservation" /\ UNCHANGED tables
      /\ e \in Inbound /\ "event" \in DOMAIN txn[c] /\ e.type = "order.created"
      /\ txn[c].rows = {}
  BY DEF ServiceInv, TxnInv, CopiesInv, TxnFields, CopyOK, FindReservation, At, Processes, HandlerPcs
<1>2. CASE e.order \in DOMAIN reservations
  <2> DEFINE more == << >>
  <2>1. Step(c, "mark", more)
    BY <1>2 DEF FindReservation
  <2>2. DOMAIN more = {}
    OBVIOUS
  <2> HIDE DEF more
  <2>3. /\ DOMAIN txn' = Processes
        /\ \A q \in Processes \ {c} : txn'[q] = txn[q]
        /\ DOMAIN txn'[c] = DOMAIN txn[c]
        /\ txn'[c].pc = "mark" /\ txn'[c].event = e /\ txn'[c].rows = {}
    <3>1. /\ DOMAIN txn' = Processes
          /\ \A q \in Processes \ {c} : txn'[q] = txn[q]
          /\ DOMAIN txn'[c] = DOMAIN txn[c] \cup DOMAIN more
          /\ txn'[c].pc = "mark"
          /\ \A f \in DOMAIN txn[c] \ DOMAIN more : f # "pc" => txn'[c][f] = txn[c][f]
      BY <1>1, <2>1, StepFields DEF TxnFields
    <3>2. DOMAIN txn'[c] = DOMAIN txn[c] /\ {"event", "rows"} \subseteq DOMAIN txn[c]
      BY <1>1, <2>2, <3>1 DEF TxnFields
    <3> QED BY <1>1, <2>2, <3>1, <3>2
  <2>4. TxnFields(c)'
    BY <1>1, <2>3, ThreadsAssumption DEF TxnFields, ThreadsAssumption, HandlerPcs, RequestPcs
  <2>5. Id(e) \in processed
    <3>1. Answered(e.order)
      BY <1>2 DEF ServiceInv, AnsweredInv
    <3> QED BY <1>1, <3>1, InboundPerOrder DEF Answered, InboundPerOrder
  <2>6. CopyOK(c)'
    BY <1>1, <2>3, <2>5 DEF CopyOK, tables
  <2> QED BY <1>1, <2>3, <2>4, <2>6, ReadOnly DEF StepOK
<1>3. CASE e.order \notin DOMAIN reservations
  <2> DEFINE more == [item |-> e.payload.item]
  <2>1. Step(c, "lock_item", more)
    BY <1>3 DEF FindReservation
  <2>2. DOMAIN more = {"item"} /\ more["item"] = e.payload.item
    OBVIOUS
  <2> HIDE DEF more
  <2>3. /\ DOMAIN txn' = Processes
        /\ \A q \in Processes \ {c} : txn'[q] = txn[q]
        /\ DOMAIN txn'[c] = DOMAIN txn[c] \cup {"item"}
        /\ txn'[c].pc = "lock_item" /\ txn'[c].event = e /\ txn'[c].rows = {}
        /\ txn'[c].item = e.payload.item
    <3>1. /\ DOMAIN txn' = Processes
          /\ \A q \in Processes \ {c} : txn'[q] = txn[q]
          /\ DOMAIN txn'[c] = DOMAIN txn[c] \cup DOMAIN more
          /\ txn'[c].pc = "lock_item"
          /\ \A f \in DOMAIN more : f # "pc" => txn'[c][f] = more[f]
          /\ \A f \in DOMAIN txn[c] \ DOMAIN more : f # "pc" => txn'[c][f] = txn[c][f]
      BY <1>1, <2>1, StepFields DEF TxnFields
    <3> QED BY <1>1, <2>2, <3>1 DEF TxnFields
  <2>4. TxnFields(c)'
    BY <1>1, <2>3, ThreadsAssumption DEF TxnFields, ThreadsAssumption, HandlerPcs, RequestPcs
  <2>6. CopyOK(c)'
    BY <1>1, <2>3 DEF CopyOK
  <2> QED BY <1>1, <2>3, <2>4, <2>6, ReadOnly DEF StepOK
<1> QED BY <1>2, <1>3

\* The lock on the reservation, which is missing, settled or held.
LEMMA LockReservationOK ==
    ASSUME ServiceInv, NEW c \in Consumers, LockReservation(c)
    PROVE  StepOK(c)
<1> PICK e : e = txn[c].event
  OBVIOUS
<1> PICK o : o = e.order
  OBVIOUS
<1>1. /\ c \in Processes /\ DOMAIN txn = Processes
      /\ TxnFields(c) /\ txn[c].pc = "lock_reservation" /\ UNCHANGED tables /\ e = txn[c].event
      /\ e \in Inbound /\ "event" \in DOMAIN txn[c] /\ e.type # "order.created"
      /\ Answered(o) /\ txn[c].rows = {} /\ Free(c, ReservationRow(o))
  BY DEF ServiceInv, TxnInv, CopiesInv, TxnFields, CopyOK, LockReservation, At, Processes, HandlerPcs
<1>2. /\ Answered(o)'
      /\ Ledger!Reserved(o) <=> Ledger!Reserved(o)'
  BY <1>1 DEF Answered, Ledger!Reserved, tables
<1>3. CASE Ledger!Reserved(o)
  <2> DEFINE more == [item        |-> reservations[o].item,
                      reservation |-> reservations[o],
                      rows        |-> txn[c].rows \cup {ReservationRow(o)}]
  <2>1. Step(c, "lock_item", more)
    BY <1>3 DEF LockReservation
  <2>2. /\ DOMAIN more = {"item", "reservation", "rows"}
        /\ more["item"] = reservations[o].item /\ more["reservation"] = reservations[o]
        /\ more["rows"] = {ReservationRow(o)}
    BY <1>1
  <2> HIDE DEF more
  <2>3. /\ DOMAIN txn' = Processes
        /\ \A q \in Processes \ {c} : txn'[q] = txn[q]
        /\ DOMAIN txn'[c] = DOMAIN txn[c] \cup {"item", "reservation", "rows"}
        /\ txn'[c].pc = "lock_item" /\ txn'[c].event = e
        /\ txn'[c].rows = {ReservationRow(o)}
        /\ txn'[c].item = reservations[o].item /\ txn'[c].reservation = reservations[o]
    BY <1>1, <2>1, <2>2, StepFields DEF TxnFields
  <2>4. TxnFields(c)'
    BY <1>1, <2>3, ThreadsAssumption DEF TxnFields, ThreadsAssumption, HandlerPcs, RequestPcs
  <2>5. HoldsReservation(txn[c])'
    BY <1>1, <1>3, <2>3 DEF HoldsReservation, Ledger!Reserved, tables
  <2>6. CopyOK(c)'
    BY <1>1, <1>2, <2>3, <2>5 DEF CopyOK
  <2> QED BY <1>1, <2>3, <2>4, <2>6, ReadOnly DEF StepOK
<1>4. CASE ~Ledger!Reserved(o)
  <2> DEFINE locked == {ReservationRow(k) : k \in DOMAIN reservations \cap {o}}
             more == [rows |-> txn[c].rows \cup locked]
  <2>1. Step(c, "mark", more)
    BY <1>4 DEF LockReservation
  <2>2. DOMAIN more = {"rows"} /\ more["rows"] = locked /\ locked \subseteq {ReservationRow(o)}
    BY <1>1
  <2> HIDE DEF more, locked
  <2>3. /\ DOMAIN txn' = Processes
        /\ \A q \in Processes \ {c} : txn'[q] = txn[q]
        /\ DOMAIN txn'[c] = DOMAIN txn[c] \cup {"rows"}
        /\ txn'[c].pc = "mark" /\ txn'[c].event = e /\ txn'[c].rows = locked
    BY <1>1, <2>1, <2>2, StepFields DEF TxnFields
  <2>4. TxnFields(c)'
    BY <1>1, <2>3, ThreadsAssumption DEF TxnFields, ThreadsAssumption, HandlerPcs, RequestPcs
  <2>5. CopyOK(c)'
    BY <1>1, <1>2, <1>4, <2>2, <2>3 DEF CopyOK
  <2> QED BY <1>1, <2>2, <2>3, <2>4, <2>5, ReadOnly DEF StepOK
<1> QED BY <1>3, <1>4

\* The lock on the item, whose row is found or not.
LEMMA LockItemOK ==
    ASSUME ServiceInv, NEW c \in Consumers, LockItem(c)
    PROVE  StepOK(c)
<1> PICK e : e = txn[c].event
  OBVIOUS
<1> PICK item : item = txn[c].item
  OBVIOUS
<1> PICK found : found = {stock[i] : i \in DOMAIN stock \cap {item}}
  OBVIOUS
<1> PICK locked : locked = {ItemRow(i) : i \in DOMAIN stock \cap {item}}
  OBVIOUS
<1> DEFINE more == [found |-> found, rows |-> txn[c].rows \cup locked]
<1>1. /\ c \in Processes /\ DOMAIN txn = Processes
      /\ TxnFields(c) /\ CopyOK(c) /\ txn[c].pc = "lock_item"
      /\ e \in Inbound /\ {"event", "item"} \subseteq DOMAIN txn[c]
      /\ e = txn[c].event /\ item = txn[c].item
  BY DEF ServiceInv, TxnInv, CopiesInv, TxnFields, LockItem, At, Processes, HandlerPcs
<1>2. /\ Free(c, ItemRow(item)) /\ Step(c, "write", more)
      /\ unknown' = unknown \cup {i \in {Id(e)} : found = {}}
      /\ UNCHANGED <<stock, reservations, processed, outbox>>
  BY DEF LockItem
<1>3. DOMAIN more = {"found", "rows"} /\ more["found"] = found /\ more["rows"] = txn[c].rows \cup locked
  OBVIOUS
<1> HIDE DEF more
<1>4. /\ DOMAIN txn' = Processes
      /\ \A q \in Processes \ {c} : txn'[q] = txn[q]
      /\ DOMAIN txn'[c] = DOMAIN txn[c] \cup {"found", "rows"}
      /\ txn'[c].pc = "write" /\ txn'[c].event = e /\ txn'[c].item = item
      /\ txn'[c].found = found /\ txn'[c].rows = txn[c].rows \cup locked
      /\ "reservation" \in DOMAIN txn[c] => txn'[c].reservation = txn[c].reservation
  <2>1. /\ DOMAIN txn' = Processes
        /\ \A q \in Processes \ {c} : txn'[q] = txn[q]
        /\ DOMAIN txn'[c] = DOMAIN txn[c] \cup DOMAIN more
        /\ txn'[c].pc = "write"
        /\ \A f \in DOMAIN more : f # "pc" => txn'[c][f] = more[f]
        /\ \A f \in DOMAIN txn[c] \ DOMAIN more : f # "pc" => txn'[c][f] = txn[c][f]
    BY <1>1, <1>2, StepFields DEF TxnFields
  <2> QED BY <1>1, <1>3, <2>1
<1>5. TxnFields(c)'
  BY <1>1, <1>4, ThreadsAssumption DEF TxnFields, ThreadsAssumption, HandlerPcs, RequestPcs
<1>6. \A o : (Answered(o) <=> Answered(o)') /\ (Ledger!Reserved(o) <=> Ledger!Reserved(o)')
  BY <1>2 DEF Answered, Ledger!Reserved
<1>7. Frame(c)
  BY <1>2 DEF Frame
<1>8. AnsweredInv'
  BY <1>2, <1>6 DEF ServiceInv, AnsweredInv
<1>9. /\ item \in DOMAIN stock => found = {stock[item]} /\ locked = {ItemRow(item)}
      /\ item \notin DOMAIN stock => found = {} /\ locked = {}
  OBVIOUS
<1>10. /\ CopyOK(c)'
       /\ item \notin DOMAIN stock => e.type = "order.created" /\ e.payload.item = item
  <2>1. CASE e.type = "order.created"
    <3>1. item = e.payload.item /\ txn[c].rows = {}
      BY <1>1, <2>1 DEF CopyOK
    <3> QED BY <1>2, <1>4, <1>9, <2>1, <3>1 DEF CopyOK
  <2>2. CASE e.type # "order.created"
    <3> PICK o : o = e.order
      OBVIOUS
    <3>1. /\ Answered(o) /\ Ledger!Reserved(o) /\ txn[c].rows = {ReservationRow(o)}
          /\ "reservation" \in DOMAIN txn[c] /\ txn[c].reservation = reservations[o]
          /\ item = reservations[o].item
      BY <1>1, <2>2 DEF CopyOK, HoldsReservation
    <3>2. item \in DOMAIN stock
      BY <3>1, TableFacts DEF ServiceInv, Ledger!Reserved
    <3>3. HoldsReservation(txn[c])'
      BY <1>2, <1>4, <3>1 DEF HoldsReservation, Ledger!Reserved
    <3>4. Answered(o)'
      BY <1>6, <3>1
    <3>5. locked = {ItemRow(item)} /\ found = {stock[item]}
      BY <1>9, <3>2
    <3>6. txn'[c].rows = {ReservationRow(o), ItemRow(item)}
      BY <1>4, <3>1, <3>5
    <3> QED BY <1>2, <1>4, <2>2, <3>2, <3>3, <3>4, <3>5, <3>6 DEF CopyOK
  <2> QED BY <2>1, <2>2
<1>11. [Ledger!Next]_(Ledger!vars)
  <2>1. CASE item \in DOMAIN stock \/ Id(e) \in unknown
    BY <1>2, <1>9, <2>1 DEF Ledger!vars
  <2>2. CASE item \notin DOMAIN stock /\ Id(e) \notin unknown
    <3>1. e.type = "order.created" /\ e.payload.item = item
      BY <1>10, <2>2
    <3>2. Id(e) \notin processed
      BY <1>1, <2>2, <3>1 DEF ServiceInv, AnsweredInv
    <3>3. unknown' = unknown \cup {Id(e)}
      BY <1>2, <1>9, <2>2
    <3>4. Ledger!FindNoItem(e)
      BY <1>2, <2>2, <3>1, <3>2, <3>3, SameHelpers DEF Ledger!FindNoItem
    <3> QED BY <1>1, <3>4 DEF Ledger!Next
  <2> QED BY <2>1, <2>2
<1>12. \A row \in txn'[c].rows : row \in txn[c].rows \/ Free(c, row)
  BY <1>2, <1>4, <1>9
<1> QED BY <1>4, <1>5, <1>7, <1>8, <1>10, <1>11, <1>12 DEF StepOK

\* The one order.created of an order, not processed, has not been answered.
LEMMA NotAnswered ==
    ASSUME NEW e \in Inbound, e.type = "order.created", Id(e) \notin processed
    PROVE  ~Answered(e.order)
  BY InboundPerOrder DEF Answered, InboundPerOrder

\* What becomes of Answered when e is processed.
LEMMA ProcessedEvent ==
    ASSUME NEW e \in Inbound, processed' = processed \cup {Id(e)}
    PROVE  /\ \A o : Answered(o) => Answered(o)'
           /\ e.type = "order.created" => Answered(e.order)'
           /\ \A f \in Inbound : f.type = "order.created" /\ Id(f) \in processed' =>
                 Id(f) \in processed \/ f = e
<1>1. \A o : Answered(o) => Answered(o)'
  BY DEF Answered
<1>2. e.type = "order.created" => Answered(e.order)'
  BY DEF Answered
<1>3. ASSUME NEW f \in Inbound, f.type = "order.created", Id(f) = Id(e)
      PROVE  f = e
  <2>1. e.type = "order.created" /\ f.order = e.order
    BY <1>3 DEF Id
  <2> QED BY <1>3, <2>1, InboundPerOrder DEF InboundPerOrder
<1> QED BY <1>1, <1>2, <1>3

\* The verdict on an order that had none keeps the answers in order.
LEMMA VerdictAnswers ==
    ASSUME ServiceInv, NEW e \in Inbound, e.type = "order.created", Id(e) \notin processed,
           NEW verdict \in InventoryVerdicts, Ledger!Emit(verdict, e.order, e.payload),
           processed' = processed \cup {Id(e)}, unknown' = unknown,
           DOMAIN stock \subseteq DOMAIN stock',
           e.payload.item \in DOMAIN stock \/ Id(e) \in unknown,
           DOMAIN reservations' \subseteq DOMAIN reservations \cup {e.order}
    PROVE  AnsweredInv'
<1> PICK new : new = Ledger!NewEvent(outbox, verdict, e.order, e.payload)
  OBVIOUS
<1>1. outbox' = outbox \cup {new} /\ new.type = verdict /\ new.order = e.order
  BY DEF Ledger!Emit, Ledger!NewEvent
<1>2. AnsweredInv /\ ~Answered(e.order)
  BY NotAnswered DEF ServiceInv
<1>3. \A o \in DOMAIN reservations' : Answered(o)'
  BY <1>2, ProcessedEvent DEF AnsweredInv
<1>4. \A r \in outbox' : r.type \in InventoryVerdicts => Answered(r.order)'
  BY <1>1, <1>2, ProcessedEvent DEF AnsweredInv
<1>5. ASSUME NEW f \in Inbound, f.type = "order.created", Id(f) \in processed',
             f.payload.item \notin DOMAIN stock'
      PROVE  Id(f) \in unknown'
  BY <1>2, <1>5, ProcessedEvent DEF AnsweredInv
<1>6. ASSUME NEW f \in Inbound, f.type = "order.created", Id(f) \in processed'
      PROVE  \E r \in outbox' : \A x \in outbox' :
                x.type \in InventoryVerdicts /\ x.order = f.order <=> x = r
  <2>1. CASE f = e
    BY <1>1, <1>2, <2>1 DEF AnsweredInv
  <2>2. CASE f # e
    <3>1. Id(f) \in processed /\ Answered(f.order)
      BY <1>6, <2>2, ProcessedEvent DEF Answered
    <3>2. f.order # e.order
      BY <1>2, <3>1
    <3>3. PICK r \in outbox : \A x \in outbox :
             x.type \in InventoryVerdicts /\ x.order = f.order <=> x = r
      BY <1>2, <1>6, <3>1 DEF AnsweredInv
    <3> QED BY <1>1, <3>2, <3>3
  <2> QED BY <2>1, <2>2
<1> QED BY <1>3, <1>4, <1>5, <1>6 DEF AnsweredInv

\* The receipt of a settlement, or none, leaves the answers as they are.
LEMMA SettlementAnswers ==
    ASSUME ServiceInv, NEW e \in Inbound, e.type # "order.created",
           \A r \in outbox' \ outbox : r.type \notin InventoryVerdicts, outbox \subseteq outbox',
           processed' = processed \cup {Id(e)}, unknown' = unknown,
           DOMAIN stock \subseteq DOMAIN stock', DOMAIN reservations' \subseteq DOMAIN reservations
    PROVE  AnsweredInv'
<1>1. \A f \in Inbound : f.type = "order.created" /\ Id(f) \in processed' => Id(f) \in processed
  BY ProcessedEvent
<1>2. AnsweredInv
  BY DEF ServiceInv
<1>3. \A o \in DOMAIN reservations' : Answered(o)'
  BY <1>2, ProcessedEvent DEF AnsweredInv
<1>4. \A r \in outbox' : r.type \in InventoryVerdicts => Answered(r.order)'
  BY <1>2, ProcessedEvent DEF AnsweredInv
<1>5. \A f \in Inbound : f.type = "order.created" /\ Id(f) \in processed' =>
         /\ f.payload.item \notin DOMAIN stock' => Id(f) \in unknown'
         /\ \E r \in outbox' : \A x \in outbox' :
               x.type \in InventoryVerdicts /\ x.order = f.order <=> x = r
  BY <1>1, <1>2 DEF AnsweredInv
<1> QED BY <1>3, <1>4, <1>5 DEF AnsweredInv

\* What a handler knows when it writes.
LEMMA WriterKnows ==
    ASSUME ServiceInv, NEW c \in Consumers, At(c, "write") \/ At(c, "mark")
    PROVE  /\ c \in Processes /\ DOMAIN txn = Processes
           /\ txn[c].event \in Inbound /\ CopyOK(c)
  BY DEF ServiceInv, TxnInv, CopiesInv, TxnFields, HandlerPcs, At, Processes

\* A handler with nothing to do records its event: a settlement, for the
\* order.created of an order that holds a reservation is a duplicate.
LEMMA MarkProcessedOK ==
    ASSUME ServiceInv, NEW c \in Consumers, MarkProcessed(c)
    PROVE  StepOK(c)
<1> PICK e : e = txn[c].event
  OBVIOUS
<1>1. /\ c \in Processes /\ DOMAIN txn = Processes
      /\ e \in Inbound /\ CopyOK(c) /\ txn[c].pc = "mark" /\ e = txn[c].event
      /\ Id(e) \notin processed /\ processed' = processed \cup {Id(e)}
      /\ End(c) /\ UNCHANGED <<stock, reservations, outbox, unknown>>
  BY WriterKnows DEF MarkProcessed, Conflicts, At
<1>2. e.type # "order.created" /\ ~Ledger!Reserved(e.order)
  BY <1>1 DEF CopyOK
<1>3. AnsweredInv'
  BY <1>1, <1>2, SettlementAnswers
<1>4. Ledger!HandleSettlement(e)
  BY <1>1, <1>2, InboundAssumption, SameHelpers
  DEF Ledger!HandleSettlement, Ledger!InventoryCommands, InventoryCommands, InboundAssumption
<1>5. Ledger!Next
  BY <1>1, <1>4 DEF Ledger!Next
<1>6. Frame(c)
  BY <1>1 DEF Frame
<1> QED BY <1>1, <1>3, <1>5, <1>6, EndFields DEF StepOK

\* A reservation is written.
LEMMA WriteReserveOK ==
    ASSUME ServiceInv, NEW c \in Consumers, At(c, "write"), ~Conflicts(c), End(c),
           NEW e, e = txn[c].event, e.type = "order.created",
           NEW row \in txn[c].found, ReservesFrom(row, e), WriteReserve(c, e, row),
           processed' = processed \cup {Id(e)}, unknown' = unknown
    PROVE  StepOK(c)
<1> PICK item : item = e.payload.item
  OBVIOUS
<1> PICK quantity : quantity = e.payload.quantity
  OBVIOUS
<1> DEFINE Rows == [available : Int, reserved : Int, sold : Int]
<1>1. /\ c \in Processes /\ DOMAIN txn = Processes /\ e \in Inbound
      /\ Id(e) \notin processed /\ e.order \notin DOMAIN reservations
  BY WriterKnows DEF Conflicts
<1>2. /\ item \in DOMAIN stock /\ row = stock[item] /\ txn[c].rows = {ItemRow(item)}
  BY WriterKnows DEF CopyOK, At
<1>3. /\ item \in Items /\ quantity \in Int /\ e.order \in Orders
  BY <1>1, InboundAssumption DEF InboundAssumption
<1>4. /\ quantity > 0 /\ row.available >= quantity
      /\ row \in [available : Int, reserved : Int, sold : Int]
      /\ stock = [i \in DOMAIN stock |-> stock[i]]
  BY <1>2, <1>3, TableFacts DEF ReservesFrom, Ledger!CanReserve, ServiceInv
<1>5. stock' = Put(stock, item, Ledger!Hold(row, quantity))
  <2>1. [row EXCEPT !.available = row.available - quantity, !.reserved = row.reserved + quantity]
            = Ledger!Hold(row, quantity)
    <3>1. PICK x \in Int : x = row.available - quantity
      BY <1>3, <1>4
    <3>2. PICK y \in Int : y = row.reserved + quantity
      BY <1>3, <1>4
    <3>3. PICK u : u = [row EXCEPT !.available = x, !.reserved = y]
      OBVIOUS
    <3>4. PICK v : v = [available |-> x, reserved |-> y, sold |-> row.sold]
      OBVIOUS
    <3>5. u \in Rows /\ u.available = x /\ u.reserved = y /\ u.sold = row.sold
      BY <1>4, <3>3
    <3>6. v \in Rows /\ v.available = x /\ v.reserved = y /\ v.sold = row.sold
      BY <1>4, <3>4
    <3>7. u = v
      BY <3>5, <3>6
    <3> QED BY <3>1, <3>2, <3>3, <3>4, <3>7 DEF Ledger!Hold
  <2>2. stock' = [stock EXCEPT ![item] = Ledger!Hold(row, quantity)]
    BY <1>2, <2>1 DEF WriteReserve
  <2>3. \A new : [stock EXCEPT ![item] = new] = Put(stock, item, new)
    BY <1>2, <1>4, PutIsExcept
  <2> QED BY <2>2, <2>3
<1>6. /\ reservations' = Put(reservations, e.order, [item     |-> item,
                                                     quantity |-> quantity,
                                                     status   |-> "RESERVED"])
      /\ Ledger!Emit("inventory.reserved", e.order, e.payload)
  BY DEF WriteReserve
<1>7. Ledger!Reserve(e)
  BY <1>1, <1>2, <1>4, <1>5, <1>6, SameHelpers DEF Ledger!Reserve, Ledger!InStock, Ledger!CanReserve
<1>8. Ledger!Next
  BY <1>1, <1>7, SameHelpers DEF Ledger!Next, Ledger!HandleOrderCreated
<1>9. ~Answered(e.order)
  BY <1>1, NotAnswered
<1>10. /\ DOMAIN stock' = DOMAIN stock /\ \A i \in DOMAIN stock : i # item => stock'[i] = stock[i]
       /\ DOMAIN reservations' = DOMAIN reservations \cup {e.order}
       /\ \A o \in DOMAIN reservations : reservations'[o] = reservations[o]
       /\ reservations'[e.order].item = item
  BY <1>1, <1>2, <1>5, <1>6 DEF Put
<1>11. Frame(c)
  BY <1>2, <1>9, <1>10 DEF Frame
<1>12. AnsweredInv'
  BY <1>1, <1>2, <1>6, <1>10, VerdictAnswers DEF InventoryVerdicts
<1> QED BY <1>1, <1>8, <1>11, <1>12, EndFields DEF StepOK

\* A rejection is written: the stock is too low, or there was no row.
LEMMA WriteRejectOK ==
    ASSUME ServiceInv, NEW c \in Consumers, At(c, "write"), ~Conflicts(c), End(c),
           NEW e, e = txn[c].event, e.type = "order.created",
           ~ \E row \in txn[c].found : ReservesFrom(row, e), WriteReject(e),
           processed' = processed \cup {Id(e)}, unknown' = unknown
    PROVE  StepOK(c)
<1>1. /\ c \in Processes /\ DOMAIN txn = Processes /\ e \in Inbound
      /\ Id(e) \notin processed
  BY WriterKnows DEF Conflicts
<1>2. \/ Id(e) \in unknown
      \/ e.payload.item \in DOMAIN stock /\ txn[c].found = {stock[e.payload.item]}
  BY WriterKnows DEF CopyOK, At
<1>3. e.order \notin DOMAIN reservations
  BY <1>1, NotAnswered DEF ServiceInv, AnsweredInv
<1>4. Ledger!Reject(e)
  BY <1>2, <1>3, SameHelpers
  DEF WriteReject, ReservesFrom, Ledger!Reject, Ledger!InStock
<1>5. Ledger!Next
  BY <1>1, <1>4, SameHelpers DEF Ledger!Next, Ledger!HandleOrderCreated
<1>6. Frame(c)
  BY DEF Frame, WriteReject
<1>7. AnsweredInv'
  BY <1>1, <1>2, VerdictAnswers DEF WriteReject, InventoryVerdicts
<1> QED BY <1>1, <1>5, <1>6, <1>7, EndFields DEF StepOK

\* The rows a settlement has locked are the ones it computed from.
LEMMA SettlerKnows ==
    ASSUME ServiceInv, NEW c \in Consumers, At(c, "write"),
           NEW e, e = txn[c].event, e.type \in InventoryCommands,
           NEW row \in txn[c].found, NEW r, r = txn[c].reservation
    PROVE  /\ Ledger!Reserved(e.order) /\ r = reservations[e.order]
           /\ r.item \in DOMAIN stock /\ row = stock[r.item]
           /\ txn[c].rows = {ReservationRow(e.order), ItemRow(r.item)}
           /\ row \in [available : Int, reserved : Int, sold : Int]
           /\ r \in [item : Items, quantity : Nat \ {0},
                     status : {"RESERVED", "RELEASED", "COMMITTED"}]
<1>1. CopyOK(c) /\ e.type # "order.created"
  BY WriterKnows DEF InventoryCommands
<1>2. /\ Ledger!Reserved(e.order) /\ r = reservations[e.order]
      /\ r.item \in DOMAIN stock /\ row = stock[r.item]
      /\ txn[c].rows = {ReservationRow(e.order), ItemRow(r.item)}
  BY <1>1 DEF CopyOK, At, HoldsReservation
<1> QED BY <1>2, TableFacts DEF ServiceInv, Ledger!Reserved

\* What the commit of a settlement changes, with the row and the reservation it read.
SettlementWritten(e, row, r) ==
    /\ stock' = [stock EXCEPT ![r.item] = Ledger!Settle(row, r, e.type)]
    /\ reservations' = Put(reservations, e.order,
                           [r EXCEPT !.status = Ledger!SettledStatus(e.type)])
    /\ Ledger!Emit(IF e.type = "inventory.release"
                   THEN "inventory.released" ELSE "inventory.committed",
                   e.order, [item |-> r.item, quantity |-> r.quantity])
    /\ processed' = processed \cup {Id(e)} /\ unknown' = unknown

\* A settlement is written.
LEMMA WriteSettleOK ==
    ASSUME ServiceInv, NEW c \in Consumers, At(c, "write"), ~Conflicts(c), End(c),
           NEW e, e = txn[c].event, e.type \in InventoryCommands,
           NEW row \in txn[c].found, NEW r, r = txn[c].reservation,
           SettlementWritten(e, row, r)
    PROVE  StepOK(c)
<1> PICK o : o = e.order
  OBVIOUS
<1> PICK item : item = r.item
  OBVIOUS
<1>1. /\ c \in Processes /\ DOMAIN txn = Processes /\ e \in Inbound
      /\ Id(e) \notin processed /\ e.type # "order.created"
  BY WriterKnows DEF Conflicts, InventoryCommands
<1>2. /\ Ledger!Reserved(o) /\ r = reservations[o]
      /\ item \in DOMAIN stock /\ row = stock[item]
      /\ txn[c].rows = {ReservationRow(o), ItemRow(item)}
      /\ r \in [item : Items, quantity : Nat \ {0},
                status : {"RESERVED", "RELEASED", "COMMITTED"}]
  BY SettlerKnows
<1>3. o \in DOMAIN reservations /\ stock = [i \in DOMAIN stock |-> stock[i]]
  BY <1>2, TableFacts DEF ServiceInv, Ledger!Reserved
<1> PICK settled : settled = Ledger!Settle(row, r, e.type)
  OBVIOUS
<1>4. stock' = Put(stock, item, settled)
  <2>1. stock' = [stock EXCEPT ![item] = settled]
    BY DEF SettlementWritten
  <2>2. item \in DOMAIN stock
    BY <1>2
  <2>3. \A x : [stock EXCEPT ![item] = x] = Put(stock, item, x)
    BY <1>3, <2>2, PutIsExcept
  <2> QED BY <2>1, <2>3
<1>5. Ledger!SettleReservation(e)
  BY <1>2, <1>4, SameHelpers DEF Ledger!SettleReservation, SettlementWritten
<1>6. Ledger!Next
  BY <1>1, <1>5, SameHelpers
  DEF Ledger!Next, Ledger!HandleSettlement, Ledger!InventoryCommands, InventoryCommands,
      SettlementWritten
<1>7. PICK status : status = Ledger!SettledStatus(e.type)
  OBVIOUS
<1>8. PICK new : new = [r EXCEPT !.status = status]
  OBVIOUS
<1>9. status # "RESERVED" /\ new.item = item /\ new.status = status
  BY <1>2, <1>7, <1>8 DEF Ledger!SettledStatus
<1>10. reservations' = Put(reservations, o, new)
  BY <1>7, <1>8 DEF SettlementWritten
<1>11. /\ DOMAIN stock' = DOMAIN stock
       /\ \A i \in DOMAIN stock : i # item => stock'[i] = stock[i]
  <2>1. item \in DOMAIN stock
    BY <1>2
  <2> QED BY <1>4, <2>1, PutKeeps
<1>12. /\ DOMAIN reservations' = DOMAIN reservations
       /\ \A k \in DOMAIN reservations : k # o => reservations'[k] = reservations[k]
       /\ reservations'[o].item = item /\ reservations'[o].status = status
  BY <1>3, <1>9, <1>10, PutKeeps
<1>13. processed' = processed \cup {Id(e)} /\ unknown' = unknown
  BY DEF SettlementWritten
<1>14. Frame(c)
  <2>1. \A i \in DOMAIN stock :
           i \in DOMAIN stock' /\ (ItemRow(i) \in txn[c].rows \/ stock'[i] = stock[i])
    BY <1>2, <1>11
  <2>2. ReservationRow(o) \in txn[c].rows /\ ItemRow(reservations[o].item) \in txn[c].rows
    BY <1>2
  <2>3. ~Ledger!Reserved(o)' /\ reservations'[o].item = reservations[o].item
    BY <1>2, <1>9, <1>12 DEF Ledger!Reserved
  <2> QED BY <1>12, <1>13, <2>1, <2>2, <2>3 DEF Frame
<1>15. \A x \in outbox' \ outbox : x.type \notin InventoryVerdicts
  BY DEF SettlementWritten, Ledger!Emit, Ledger!NewEvent, InventoryVerdicts
<1>16. AnsweredInv'
  BY <1>1, <1>11, <1>12, <1>13, <1>15, SettlementAnswers DEF SettlementWritten, Ledger!Emit
<1> QED BY <1>1, <1>6, <1>14, <1>16, EndFields DEF StepOK

\* The units of a released reservation go back to the shelf.
LEMMA WriteReleaseOK ==
    ASSUME ServiceInv, NEW c \in Consumers, At(c, "write"), ~Conflicts(c), End(c),
           NEW e, e = txn[c].event, e.type = "inventory.release",
           NEW row \in txn[c].found, WriteRelease(e, txn[c].reservation, row),
           processed' = processed \cup {Id(e)}, unknown' = unknown
    PROVE  StepOK(c)
<1> PICK r : r = txn[c].reservation
  OBVIOUS
<1> DEFINE Rows == [available : Int, reserved : Int, sold : Int]
<1>1. e.type \in InventoryCommands
  BY DEF InventoryCommands
<1>2. /\ r.item \in DOMAIN stock /\ row = stock[r.item] /\ row \in Rows /\ r.quantity \in Int
  BY <1>1, SettlerKnows
<1>3. PICK x \in Int : x = row.reserved - r.quantity
  BY <1>2
<1>4. PICK y \in Int : y = row.available + r.quantity
  BY <1>2
<1>5. PICK u : u = [row EXCEPT !.reserved = x, !.available = y]
  OBVIOUS
<1>6. PICK v : v = Ledger!Settle(row, r, e.type)
  OBVIOUS
<1>7. u \in Rows /\ u.available = y /\ u.reserved = x /\ u.sold = row.sold
  BY <1>2, <1>5
<1>8. v \in Rows /\ v.available = y /\ v.reserved = x /\ v.sold = row.sold
  BY <1>2, <1>3, <1>4, <1>6 DEF Ledger!Settle
<1>9. u = v
  BY <1>7, <1>8
<1>10. stock' = [stock EXCEPT ![r.item] = Ledger!Settle(row, r, e.type)]
  BY <1>2, <1>3, <1>4, <1>5, <1>6, <1>9 DEF WriteRelease
<1>11. /\ reservations' = Put(reservations, e.order,
                              [r EXCEPT !.status = Ledger!SettledStatus(e.type)])
       /\ Ledger!Emit("inventory.released", e.order, [item |-> r.item, quantity |-> r.quantity])
  BY DEF WriteRelease, Ledger!SettledStatus
<1>12. SettlementWritten(e, row, r)
  BY <1>10, <1>11 DEF SettlementWritten
<1> QED BY <1>1, <1>12, WriteSettleOK

\* The units of a committed reservation are sold.
LEMMA WriteCommitOK ==
    ASSUME ServiceInv, NEW c \in Consumers, At(c, "write"), ~Conflicts(c), End(c),
           NEW e, e = txn[c].event, e.type = "inventory.commit",
           NEW row \in txn[c].found, WriteCommit(e, txn[c].reservation, row),
           processed' = processed \cup {Id(e)}, unknown' = unknown
    PROVE  StepOK(c)
<1> PICK r : r = txn[c].reservation
  OBVIOUS
<1> DEFINE Rows == [available : Int, reserved : Int, sold : Int]
<1>1. e.type \in InventoryCommands /\ e.type # "inventory.release"
  BY DEF InventoryCommands
<1>2. /\ r.item \in DOMAIN stock /\ row = stock[r.item] /\ row \in Rows /\ r.quantity \in Int
  BY <1>1, SettlerKnows
<1>3. PICK x \in Int : x = row.reserved - r.quantity
  BY <1>2
<1>4. PICK y \in Int : y = row.sold + r.quantity
  BY <1>2
<1>5. PICK u : u = [row EXCEPT !.reserved = x, !.sold = y]
  OBVIOUS
<1>6. PICK v : v = Ledger!Settle(row, r, e.type)
  OBVIOUS
<1>7. u \in Rows /\ u.available = row.available /\ u.reserved = x /\ u.sold = y
  BY <1>2, <1>5
<1>8. v \in Rows /\ v.available = row.available /\ v.reserved = x /\ v.sold = y
  BY <1>1, <1>2, <1>3, <1>4, <1>6 DEF Ledger!Settle
<1>9. u = v
  BY <1>7, <1>8
<1>10. stock' = [stock EXCEPT ![r.item] = Ledger!Settle(row, r, e.type)]
  BY <1>2, <1>3, <1>4, <1>5, <1>6, <1>9 DEF WriteCommit
<1>11. /\ reservations' = Put(reservations, e.order,
                              [r EXCEPT !.status = Ledger!SettledStatus(e.type)])
       /\ Ledger!Emit("inventory.committed", e.order, [item |-> r.item, quantity |-> r.quantity])
  BY <1>1 DEF WriteCommit, Ledger!SettledStatus
<1>12. SettlementWritten(e, row, r)
  BY <1>1, <1>10, <1>11 DEF SettlementWritten
<1> QED BY <1>1, <1>12, WriteSettleOK

\* The commit of a handler.
LEMMA CommitOK ==
    ASSUME ServiceInv, NEW c \in Consumers, Commit(c)
    PROVE  StepOK(c)
<1> PICK e : e = txn[c].event
  OBVIOUS
<1>1. /\ At(c, "write") /\ ~Conflicts(c) /\ End(c)
      /\ processed' = processed \cup {Id(e)} /\ unknown' = unknown
  BY DEF Commit
<1>2. CASE e.type = "order.created" /\ \E row \in txn[c].found : ReservesFrom(row, e) /\ WriteReserve(c, e, row)
  BY <1>1, <1>2, WriteReserveOK
<1>3. CASE /\ e.type = "order.created" /\ ~ \E row \in txn[c].found : ReservesFrom(row, e)
           /\ WriteReject(e)
  BY <1>1, <1>3, WriteRejectOK
<1>4. CASE /\ e.type = "inventory.release"
           /\ \E row \in txn[c].found : WriteRelease(e, txn[c].reservation, row)
  BY <1>1, <1>4, WriteReleaseOK
<1>5. CASE /\ e.type = "inventory.commit"
           /\ \E row \in txn[c].found : WriteCommit(e, txn[c].reservation, row)
  BY <1>1, <1>5, WriteCommitOK
<1> QED BY <1>2, <1>3, <1>4, <1>5 DEF Commit

--------------------------------------------------------------------------------
(* The statements of a set_stock *)

\* A request arrives, or the startup seeds its item.
LEMMA RequestOK ==
    ASSUME ServiceInv, NEW s \in Setters, NEW item \in Items, NEW quantity \in StockLevels,
           Request(s, item, quantity)
    PROVE  StepOK(s)
<1> DEFINE more == [item |-> item, quantity |-> quantity]
<1>1. /\ s \in Processes /\ DOMAIN txn = Processes
      /\ TxnFields(s) /\ CopyOK(s) /\ txn[s].pc = "idle"
      /\ Step(s, "select", more) /\ UNCHANGED tables
      /\ DOMAIN more = {"item", "quantity"} /\ more["item"] = item /\ more["quantity"] = quantity
  BY DEF ServiceInv, TxnInv, CopiesInv, Request, At, Processes
<1> HIDE DEF more
<1>2. /\ DOMAIN txn' = Processes
      /\ \A q \in Processes \ {s} : txn'[q] = txn[q]
      /\ DOMAIN txn'[s] = DOMAIN txn[s] \cup {"item", "quantity"}
      /\ txn'[s].pc = "select" /\ txn'[s].item = item /\ txn'[s].quantity = quantity
      /\ txn'[s].rows = {}
  BY <1>1, StepFields DEF TxnFields, CopyOK
<1>3. TxnFields(s)'
  BY <1>1, <1>2, ThreadsAssumption DEF TxnFields, ThreadsAssumption, HandlerPcs, RequestPcs
<1>4. CopyOK(s)'
  BY <1>2 DEF CopyOK
<1> QED BY <1>1, <1>2, <1>3, <1>4, ReadOnly DEF StepOK

\* The lock on the item, and the reservations there are under it.
LEMMA SelectItemOK ==
    ASSUME ServiceInv, NEW s \in Setters, SelectItem(s)
    PROVE  StepOK(s)
<1> PICK item : item = txn[s].item
  OBVIOUS
<1> PICK todo : todo = {o \in DOMAIN reservations : reservations[o].item = item}
  OBVIOUS
<1>1. /\ s \in Processes /\ DOMAIN txn = Processes
      /\ TxnFields(s) /\ txn[s].pc = "select" /\ txn[s].rows = {}
      /\ item \in Items /\ {"item", "quantity"} \subseteq DOMAIN txn[s] /\ item = txn[s].item
      /\ Free(s, ItemRow(item)) /\ UNCHANGED tables
  BY DEF ServiceInv, TxnInv, CopiesInv, TxnFields, CopyOK, SelectItem, At, Processes, RequestPcs
<1>2. CASE item \in DOMAIN stock
  <2> DEFINE more == [rows |-> {ItemRow(item)}, todo |-> todo]
  <2>1. Step(s, "delete", more)
    BY <1>2 DEF SelectItem
  <2>2. DOMAIN more = {"rows", "todo"} /\ more["rows"] = {ItemRow(item)} /\ more["todo"] = todo
    OBVIOUS
  <2> HIDE DEF more
  <2>3. /\ DOMAIN txn' = Processes
        /\ \A q \in Processes \ {s} : txn'[q] = txn[q]
        /\ DOMAIN txn'[s] = DOMAIN txn[s] \cup {"rows", "todo"}
        /\ txn'[s].pc = "delete" /\ txn'[s].item = item /\ txn'[s].quantity = txn[s].quantity
        /\ txn'[s].rows = {ItemRow(item)} /\ txn'[s].todo = todo
    <3>1. /\ DOMAIN txn' = Processes
          /\ \A q \in Processes \ {s} : txn'[q] = txn[q]
          /\ DOMAIN txn'[s] = DOMAIN txn[s] \cup DOMAIN more
          /\ txn'[s].pc = "delete"
          /\ \A f \in DOMAIN more : f # "pc" => txn'[s][f] = more[f]
          /\ \A f \in DOMAIN txn[s] \ DOMAIN more : f # "pc" => txn'[s][f] = txn[s][f]
      BY <1>1, <2>1, StepFields DEF TxnFields
    <3> QED BY <1>1, <2>2, <3>1
  <2>4. TxnFields(s)'
    BY <1>1, <2>3, ThreadsAssumption DEF TxnFields, ThreadsAssumption, HandlerPcs, RequestPcs
  <2>5. \A o : o \in todo \/ ReservationRow(o) \in {ItemRow(item)} <=> ReservedFor(o, item)'
    BY <1>1 DEF ReservedFor, ReservationRow, ItemRow, tables
  <2>6. CopyOK(s)'
    BY <1>1, <1>2, <2>3, <2>5 DEF CopyOK, tables
  <2> QED BY <1>1, <2>3, <2>4, <2>6, ReadOnly DEF StepOK
<1>3. CASE item \notin DOMAIN stock
  <2> DEFINE more == << >>
  <2>1. Step(s, "insert", more)
    BY <1>3 DEF SelectItem
  <2>2. DOMAIN more = {}
    OBVIOUS
  <2> HIDE DEF more
  <2>3. /\ DOMAIN txn' = Processes
        /\ \A q \in Processes \ {s} : txn'[q] = txn[q]
        /\ DOMAIN txn'[s] = DOMAIN txn[s]
        /\ txn'[s].pc = "insert" /\ txn'[s].item = item /\ txn'[s].quantity = txn[s].quantity
        /\ txn'[s].rows = {}
    <3>1. /\ DOMAIN txn' = Processes
          /\ \A q \in Processes \ {s} : txn'[q] = txn[q]
          /\ DOMAIN txn'[s] = DOMAIN txn[s] \cup DOMAIN more
          /\ txn'[s].pc = "insert"
          /\ \A f \in DOMAIN txn[s] \ DOMAIN more : f # "pc" => txn'[s][f] = txn[s][f]
      BY <1>1, <2>1, StepFields DEF TxnFields
    <3>2. DOMAIN txn'[s] = DOMAIN txn[s] /\ {"item", "quantity", "rows"} \subseteq DOMAIN txn[s]
      BY <1>1, <2>2, <3>1 DEF TxnFields
    <3> QED BY <1>1, <2>2, <3>1, <3>2
  <2>4. TxnFields(s)'
    BY <1>1, <2>3, ThreadsAssumption DEF TxnFields, ThreadsAssumption, HandlerPcs, RequestPcs
  <2>5. CopyOK(s)'
    BY <2>3 DEF CopyOK
  <2> QED BY <1>1, <2>3, <2>4, <2>5, ReadOnly DEF StepOK
<1> QED BY <1>2, <1>3

\* A request that is deleting reservations.
LEMMA DeleterKnows ==
    ASSUME ServiceInv, NEW s \in Setters, At(s, "delete")
    PROVE  /\ s \in Processes /\ DOMAIN txn = Processes /\ TxnFields(s)
           /\ txn[s].item \in Items /\ txn[s].quantity \in StockLevels
           /\ txn[s].item \in DOMAIN stock /\ ItemRow(txn[s].item) \in txn[s].rows
           /\ \A row \in txn[s].rows :
                 row = ItemRow(txn[s].item) \/ \E o : row = ReservationRow(o)
           /\ {"item", "quantity", "rows", "todo"} \subseteq DOMAIN txn[s]
           /\ \A o : o \in txn[s].todo \/ ReservationRow(o) \in txn[s].rows
                        <=> ReservedFor(o, txn[s].item)
  BY DEF ServiceInv, TxnInv, CopiesInv, TxnFields, CopyOK, RequestPcs, At, Processes

\* The DELETE has locked one more of them.
LEMMA DeleteReservationOK ==
    ASSUME ServiceInv, NEW s \in Setters, DeleteReservation(s)
    PROVE  StepOK(s)
<1> PICK item : item = txn[s].item
  OBVIOUS
<1> PICK rows : rows = txn[s].rows
  OBVIOUS
<1> PICK todo : todo = txn[s].todo
  OBVIOUS
<1>1. PICK o \in todo :
         /\ Free(s, ReservationRow(o))
         /\ Step(s, "delete", [rows |-> rows \cup {ReservationRow(o)}, todo |-> todo \ {o}])
  BY DEF DeleteReservation
<1> DEFINE more == [rows |-> rows \cup {ReservationRow(o)}, todo |-> todo \ {o}]
<1>2. /\ s \in Processes /\ DOMAIN txn = Processes /\ TxnFields(s)
      /\ item \in Items /\ txn[s].quantity \in StockLevels
      /\ item \in DOMAIN stock /\ ItemRow(item) \in rows
      /\ \A row \in rows : row = ItemRow(item) \/ \E k : row = ReservationRow(k)
      /\ {"item", "quantity", "rows", "todo"} \subseteq DOMAIN txn[s]
      /\ \A k : k \in todo \/ ReservationRow(k) \in rows <=> ReservedFor(k, item)
      /\ Step(s, "delete", more) /\ UNCHANGED tables
  BY <1>1, DeleterKnows DEF DeleteReservation
<1>3. /\ DOMAIN more = {"rows", "todo"} /\ more["rows"] = rows \cup {ReservationRow(o)}
      /\ more["todo"] = todo \ {o}
  OBVIOUS
<1> HIDE DEF more
<1>4. /\ DOMAIN txn' = Processes
      /\ \A q \in Processes \ {s} : txn'[q] = txn[q]
      /\ DOMAIN txn'[s] = DOMAIN txn[s]
      /\ txn'[s].pc = "delete" /\ txn'[s].item = item /\ txn'[s].quantity = txn[s].quantity
      /\ txn'[s].rows = rows \cup {ReservationRow(o)} /\ txn'[s].todo = todo \ {o}
  <2>1. /\ DOMAIN txn' = Processes
        /\ \A q \in Processes \ {s} : txn'[q] = txn[q]
        /\ DOMAIN txn'[s] = DOMAIN txn[s] \cup DOMAIN more
        /\ txn'[s].pc = "delete"
        /\ \A f \in DOMAIN more : f # "pc" => txn'[s][f] = more[f]
        /\ \A f \in DOMAIN txn[s] \ DOMAIN more : f # "pc" => txn'[s][f] = txn[s][f]
    BY <1>2, StepFields DEF TxnFields
  <2> QED BY <1>2, <1>3, <2>1
<1>5. TxnFields(s)'
  BY <1>2, <1>4, ThreadsAssumption DEF TxnFields, ThreadsAssumption, HandlerPcs, RequestPcs
<1>6. /\ \A k : ReservationRow(k) = ReservationRow(o) <=> k = o
      /\ \A k : ReservedFor(k, item) <=> ReservedFor(k, item)'
  BY <1>2 DEF ReservationRow, ReservedFor, tables
<1>7. \A k : k \in todo \ {o} \/ ReservationRow(k) \in rows \cup {ReservationRow(o)}
                <=> ReservedFor(k, item)'
  BY <1>2, <1>6
<1>8. CopyOK(s)'
  BY <1>2, <1>4, <1>7 DEF CopyOK, tables
<1> QED BY <1>1, <1>2, <1>4, <1>5, <1>8, ReadOnly DEF StepOK

\* A reset or an insertion leaves the answers as they are.
LEMMA SetStockAnswers ==
    ASSUME ServiceInv, UNCHANGED <<processed, outbox, unknown>>,
           DOMAIN stock \subseteq DOMAIN stock', DOMAIN reservations' \subseteq DOMAIN reservations
    PROVE  AnsweredInv'
<1>1. \A o : Answered(o) <=> Answered(o)'
  BY DEF Answered
<1> QED BY <1>1 DEF ServiceInv, AnsweredInv

\* The commit of a reset: with every reservation of the item locked, those it
\* deletes are all there are.
LEMMA CommitResetOK ==
    ASSUME ServiceInv, NEW s \in Setters, CommitReset(s)
    PROVE  StepOK(s)
<1> PICK item : item = txn[s].item
  OBVIOUS
<1> PICK quantity : quantity = txn[s].quantity
  OBVIOUS
<1> PICK gone : gone = {o \in Orders : ReservationRow(o) \in txn[s].rows}
  OBVIOUS
<1>1. /\ s \in Processes /\ DOMAIN txn = Processes
      /\ item \in Items /\ quantity \in StockLevels
      /\ item \in DOMAIN stock /\ ItemRow(item) \in txn[s].rows
      /\ \A o : ReservationRow(o) \in txn[s].rows <=> ReservedFor(o, item)
      /\ stock' = Put(stock, item, [available |-> quantity, reserved |-> 0, sold |-> 0])
      /\ reservations' = Delete(reservations, gone)
      /\ End(s) /\ UNCHANGED <<processed, outbox, unknown>>
  BY DeleterKnows DEF CommitReset
<1>2. gone = Ledger!ReservationsFor(reservations, item)
  <2>1. \A o \in DOMAIN reservations : o \in Orders
    BY TableFacts DEF ServiceInv
  <2> QED BY <1>1, <2>1 DEF Ledger!ReservationsFor, ReservedFor
<1>3. Ledger!SetStock(item, quantity)
  BY <1>1, <1>2, SameHelpers DEF Ledger!SetStock
<1>4. Ledger!Next
  BY <1>1, <1>3 DEF Ledger!Next
<1>5. /\ DOMAIN stock' = DOMAIN stock /\ \A i \in DOMAIN stock : i # item => stock'[i] = stock[i]
      /\ DOMAIN reservations' = DOMAIN reservations \ gone
      /\ \A o \in DOMAIN reservations' : reservations'[o] = reservations[o]
  BY <1>1 DEF Put, Delete
<1>6. \A o \in gone : ReservationRow(o) \in txn[s].rows /\ reservations[o].item = item
  BY <1>1 DEF ReservedFor
<1>7. Frame(s)
  BY <1>1, <1>5, <1>6 DEF Frame
<1>8. AnsweredInv'
  BY <1>1, <1>5, SetStockAnswers
<1> QED BY <1>1, <1>4, <1>7, <1>8, EndFields DEF StepOK

\* The commit of an insertion: nobody holds the row of an item that is not there.
LEMMA CommitInsertOK ==
    ASSUME ServiceInv, NEW s \in Setters, CommitInsert(s)
    PROVE  StepOK(s)
<1> PICK item : item = txn[s].item
  OBVIOUS
<1> PICK quantity : quantity = txn[s].quantity
  OBVIOUS
<1>1. /\ s \in Processes /\ DOMAIN txn = Processes
      /\ item \in Items /\ quantity \in StockLevels
      /\ stock' = IF item \in DOMAIN stock THEN stock
                  ELSE Put(stock, item, [available |-> quantity, reserved |-> 0, sold |-> 0])
      /\ End(s) /\ UNCHANGED <<reservations, processed, outbox, unknown>>
  BY DEF ServiceInv, TxnInv, TxnFields, RequestPcs, CommitInsert, At, Processes
<1>2. CASE item \in DOMAIN stock
  BY <1>1, <1>2, EndOK DEF tables
<1>3. CASE item \notin DOMAIN stock
  <2>1. Ledger!SetStock(item, quantity)
    BY <1>1, <1>3, SameHelpers DEF Ledger!SetStock
  <2>2. Ledger!Next
    BY <1>1, <2>1 DEF Ledger!Next
  <2>3. DOMAIN stock \subseteq DOMAIN stock' /\ \A i \in DOMAIN stock : stock'[i] = stock[i]
    BY <1>1, <1>3 DEF Put
  <2>4. Frame(s)
    BY <1>1, <2>3 DEF Frame
  <2>5. AnsweredInv'
    BY <1>1, <2>3, SetStockAnswers
  <2> QED BY <1>1, <2>2, <2>4, <2>5, EndFields DEF StepOK
<1> QED BY <1>2, <1>3

--------------------------------------------------------------------------------
(* The invariant holds, and the service implements the ledger *)

\* Initially nothing is stored and no transaction is open.
LEMMA InitServiceInv == Init => ServiceInv
<1> SUFFICES ASSUME Init PROVE ServiceInv
  OBVIOUS
<1>1. Atomic!LedgerInv
  BY LevelsAreNatural, InboundIsInbound, SameLedger, Atomic!InitLedgerInv DEF Init
<1>2. /\ DOMAIN txn = Processes
      /\ \A p \in Processes : txn[p].pc = "idle" /\ txn[p].rows = {} /\ TxnFields(p)
  BY DEF Init, Idle, TxnFields, HandlerPcs, RequestPcs
<1>3. LocksInv /\ TxnInv /\ CopiesInv
  BY <1>2 DEF LocksInv, TxnInv, CopiesInv, CopyOK
<1>4. AnsweredInv
  BY DEF Init, Ledger!Init, AnsweredInv
<1> QED BY <1>1, <1>3, <1>4 DEF ServiceInv

\* Every step of a process preserves it and is a step of the ledger, or none.
LEMMA NextService ==
    ServiceInv /\ [Next]_vars => ServiceInv' /\ [Ledger!Next]_(Ledger!vars)
<1> SUFFICES ASSUME ServiceInv, [Next]_vars
             PROVE  ServiceInv' /\ [Ledger!Next]_(Ledger!vars)
  OBVIOUS
<1>1. ASSUME NEW p \in Processes, StepOK(p)
      PROVE  ServiceInv' /\ [Ledger!Next]_(Ledger!vars)
  BY <1>1, StepKeepsInv DEF StepOK
<1>2. ASSUME NEW c \in Consumers, NEW e \in Inbound, Receive(c, e)
      PROVE  StepOK(c)
  BY <1>2, ReceiveOK
<1>3. ASSUME NEW c \in Consumers, Consume(c)
      PROVE  StepOK(c)
  <2>1. CASE RejectedByKey(c)
    BY <2>1, EndOK DEF RejectedByKey, Processes
  <2> QED BY <1>3, <2>1, FindReservationOK, LockReservationOK, LockItemOK, CommitOK, MarkProcessedOK
       DEF Consume
<1>4. ASSUME NEW s \in Setters, NEW item \in Items, NEW quantity \in StockLevels,
             Request(s, item, quantity)
      PROVE  StepOK(s)
  BY <1>4, RequestOK
<1>5. ASSUME NEW s \in Setters, Seed(s)
      PROVE  StepOK(s)
  BY <1>5, RequestOK, StockAssumption DEF Seed, StockAssumption
<1>6. ASSUME NEW s \in Setters, Reset(s)
      PROVE  StepOK(s)
  BY <1>6, SelectItemOK, DeleteReservationOK, CommitResetOK, CommitInsertOK DEF Reset
<1>7. ASSUME NEW p \in Processes, DeadlockAbort(p) \/ Crash(p)
      PROVE  StepOK(p)
  BY <1>7, EndOK DEF DeadlockAbort, Crash
<1>8. CASE UNCHANGED vars
  <2>1. UNCHANGED <<stock, reservations, processed, outbox, unknown, txn>>
    BY <1>8 DEF vars, tables
  <2>2. [Ledger!Next]_(Ledger!vars)
    BY <2>1 DEF Ledger!vars
  <2>3. Atomic!LedgerInv'
    BY <2>2, LevelsAreNatural, InboundIsInbound, SameLedger, Atomic!NextLedgerInv DEF ServiceInv
  <2>4. AnsweredInv'
    BY <2>1, SetStockAnswers
  <2>5. LocksInv' /\ TxnInv'
    BY <2>1 DEF ServiceInv, LocksInv, TxnInv, TxnFields
  <2>6. ASSUME NEW p \in Processes
        PROVE  CopyOK(p)'
    <3>1. CopyOK(p)
      BY DEF ServiceInv, CopiesInv
    <3> QED BY <2>1, <3>1 DEF CopyOK, Answered, HoldsReservation, ReservedFor, Ledger!Reserved
  <2> QED BY <2>2, <2>3, <2>4, <2>5, <2>6 DEF ServiceInv, CopiesInv
<1> QED BY <1>1, <1>2, <1>3, <1>4, <1>5, <1>6, <1>7, <1>8 DEF Next, Processes

\* The invariant holds in every reachable state.
LEMMA ServiceInvariant == Spec => []ServiceInv
  BY InitServiceInv, NextService, PTL DEF Spec

\* However the statements of concurrent handlers, redeliveries, resets, deadlock
\* victims and crashes interleave, the tables change only as the ledger's atomic
\* handlers change them.
THEOREM ServiceImplementsLedger == Spec => ImplementsLedger
<1>1. Init => Ledger!Init
  BY DEF Init
<1> QED BY <1>1, ServiceInvariant, NextService, PTL DEF Spec, ImplementsLedger, Ledger!Spec

--------------------------------------------------------------------------------
(* The properties *)

\* The invariant answers every order once.
LEMMA InvImpliesOneVerdict == ServiceInv => OneVerdictPerOrder
<1> SUFFICES ASSUME ServiceInv, NEW e \in Inbound, e.type = "order.created"
             PROVE  Cardinality({r \in outbox : r.type \in InventoryVerdicts /\ r.order = e.order})
                       = IF Id(e) \in processed THEN 1 ELSE 0
  BY DEF OneVerdictPerOrder
<1> DEFINE verdicts == {r \in outbox : r.type \in InventoryVerdicts /\ r.order = e.order}
<1>1. CASE Id(e) \in processed
  <2>1. PICK r \in outbox : \A x \in outbox :
           x.type \in InventoryVerdicts /\ x.order = e.order <=> x = r
    BY <1>1 DEF ServiceInv, AnsweredInv
  <2>2. verdicts = {r}
    BY <2>1
  <2> QED BY <1>1, <2>2, FS_Singleton
<1>2. CASE Id(e) \notin processed
  <2>1. ~Answered(e.order)
    BY <1>2, NotAnswered
  <2>2. verdicts = {}
    BY <2>1 DEF ServiceInv, AnsweredInv
  <2> QED BY <1>2, <2>2, FS_EmptySet
<1> QED BY <1>1, <1>2

\* A transaction that waits for a row holds no item, or is a set_stock that holds its
\* own; what it holds of reservations is the one it settles, or those it deletes.
LEMMA WaitersHold ==
    ASSUME ServiceInv, NEW p \in Processes, Wants(p) # {}
    PROVE  LET t == txn[p]
           IN  /\ t.pc \in {"lock_reservation", "lock_item", "select", "delete"}
               /\ \A i : ItemRow(i) \in t.rows => t.pc = "delete" /\ i = t.item
               /\ \A o : ReservationRow(o) \in t.rows =>
                     \/ t.pc = "lock_item" /\ ReservedFor(o, t.item)
                     \/ t.pc = "delete" /\ ReservedFor(o, t.item)
               /\ t.pc = "delete" => /\ ItemRow(t.item) \in t.rows
                                     /\ \A o \in t.todo : ReservedFor(o, t.item)
<1> DEFINE t == txn[p]
<1>1. CopyOK(p)
  BY DEF ServiceInv, CopiesInv
<1>2. t.pc \in {"lock_reservation", "lock_item", "select", "delete"}
  BY DEF Wants, At
<1>3. \A i, o : /\ ItemRow(i) # ReservationRow(o)
                /\ ItemRow(i) = ItemRow(o) => i = o
                /\ ReservationRow(i) = ReservationRow(o) => i = o
  BY DEF ItemRow, ReservationRow
<1>4. CASE t.pc \in {"lock_reservation", "select"}
  BY <1>1, <1>4 DEF CopyOK
<1>5. CASE t.pc = "lock_item"
  <2>1. \/ t.rows = {}
        \/ t.rows = {ReservationRow(t.event.order)} /\ HoldsReservation(t)
    BY <1>1, <1>5 DEF CopyOK
  <2>2. HoldsReservation(t) => ReservedFor(t.event.order, t.item)
    BY DEF HoldsReservation, Ledger!Reserved, ReservedFor
  <2> QED BY <1>3, <1>5, <2>1, <2>2
<1>6. CASE t.pc = "delete"
  <2>1. /\ ItemRow(t.item) \in t.rows
        /\ \A row \in t.rows : row = ItemRow(t.item) \/ \E o : row = ReservationRow(o)
        /\ \A o : o \in t.todo \/ ReservationRow(o) \in t.rows <=> ReservedFor(o, t.item)
    BY <1>1, <1>6 DEF CopyOK
  <2> QED BY <1>3, <1>6, <2>1
<1> QED BY <1>2, <1>4, <1>5, <1>6

\* Who waits for an item waits for a set_stock that waits for reservations, and who
\* waits for a reservation waits for that set_stock or for a settlement that waits for
\* an item. So there is a set_stock in every circle, and what it waits for is a
\* settlement that waits for its item.
LEMMA InvImpliesPairs == ServiceInv => DeadlocksArePairs
<1> SUFFICES ASSUME ServiceInv, NEW S \in (SUBSET Processes) \ {{}},
                    \A p \in S : BlockedBy(p) \cap S # {}
             PROVE  \E c \in S \cap Consumers, s \in S \cap Setters :
                        s \in BlockedBy(c) /\ c \in BlockedBy(s)
  BY DEF DeadlocksArePairs
<1>1. \A p \in S : p \in Processes /\ Wants(p) # {}
  BY DEF BlockedBy
<1>2. ASSUME NEW p \in S, txn[p].pc \in {"lock_item", "select"}
      PROVE  \E s \in S : txn[s].pc = "delete"
  <2>1. Wants(p) = {ItemRow(txn[p].item)}
    BY <1>2 DEF Wants, At
  <2>2. PICK s \in S : ItemRow(txn[p].item) \in txn[s].rows
    BY <2>1 DEF BlockedBy
  <2> QED BY <1>1, <2>2, WaitersHold
<1>3. ASSUME NEW p \in S, txn[p].pc = "lock_reservation"
      PROVE  \E s \in S : txn[s].pc = "delete"
  <2>1. Wants(p) = {ReservationRow(txn[p].event.order)}
    BY <1>3 DEF Wants, At
  <2>2. PICK q \in S : ReservationRow(txn[p].event.order) \in txn[q].rows
    BY <2>1 DEF BlockedBy
  <2>3. txn[q].pc \in {"lock_item", "delete"}
    BY <1>1, <2>2, WaitersHold
  <2> QED BY <1>2, <2>3
<1>4. PICK s \in S : txn[s].pc = "delete"
  <2>1. PICK p \in S : TRUE
    OBVIOUS
  <2>2. txn[p].pc \in {"lock_reservation", "lock_item", "select", "delete"}
    BY <1>1, WaitersHold
  <2> QED BY <1>2, <1>3, <2>2
<1>5. Wants(s) = {ReservationRow(o) : o \in txn[s].todo}
  BY <1>4 DEF Wants, At
<1>6. PICK c \in S : c # s /\ c \in BlockedBy(s) /\ Wants(s) \cap txn[c].rows # {}
  BY DEF BlockedBy
<1>7. PICK o \in txn[s].todo : ReservationRow(o) \in txn[c].rows
  BY <1>5, <1>6
<1>8. /\ ItemRow(txn[s].item) \in txn[s].rows
      /\ ReservedFor(o, txn[s].item)
  BY <1>1, <1>4, <1>7, WaitersHold
<1>9. /\ ReservedFor(o, txn[c].item)
      /\ txn[c].pc \in {"lock_item", "delete"}
  BY <1>1, <1>7, WaitersHold
<1>10. txn[c].item = txn[s].item
  BY <1>8, <1>9 DEF ReservedFor
<1>11. txn[c].pc = "lock_item"
  <2> SUFFICES ASSUME txn[c].pc = "delete" PROVE FALSE
    BY <1>9
  <2>1. ItemRow(txn[c].item) \in txn[c].rows
    BY <1>1, WaitersHold
  <2> QED BY <1>1, <1>6, <1>8, <1>10, <2>1 DEF ServiceInv, LocksInv
<1>12. s \in BlockedBy(c)
  <2>1. Wants(c) = {ItemRow(txn[s].item)}
    BY <1>10, <1>11 DEF Wants, At
  <2> QED BY <1>1, <1>6, <1>8, <2>1 DEF BlockedBy
<1>13. c \in Consumers /\ s \in Setters
  BY <1>1, <1>4, <1>11 DEF ServiceInv, TxnInv, TxnFields, Processes, HandlerPcs, RequestPcs
<1> QED BY <1>6, <1>12, <1>13

\* A circle of handlers would be one without a set_stock.
LEMMA PairsImplyNoDeadlock == DeadlocksArePairs => ConsumersNeverDeadlock
<1> SUFFICES ASSUME DeadlocksArePairs, NEW S \in SUBSET Consumers, S # {},
                    \A c \in S : BlockedBy(c) \cap S # {}
             PROVE  FALSE
  BY DEF ConsumersNeverDeadlock
<1>1. S \in (SUBSET Processes) \ {{}}
  BY DEF Processes
<1>2. S \cap Setters # {}
  BY <1>1 DEF DeadlocksArePairs
<1> QED BY <1>2, ThreadsAssumption DEF ThreadsAssumption

\* An order is answered exactly once, by however many consumers its event is
\* handled at the same time.
THEOREM OneVerdict == Spec => []OneVerdictPerOrder
  BY ServiceInvariant, InvImpliesOneVerdict, PTL

\* For any number of handlers and set_stock calls, every deadlock is one between a
\* set_stock and the settlement of a reservation of its item.
THEOREM DeadlockIsPair == Spec => []DeadlocksArePairs
  BY ServiceInvariant, InvImpliesPairs, PTL

\* Handlers alone never wait for each other in a circle.
THEOREM NoConsumerDeadlock == Spec => []ConsumersNeverDeadlock
  BY DeadlockIsPair, PairsImplyNoDeadlock, PTL

\* What the ledger promises of the stock holds of the service: no interleaving of
\* its statements oversells.
THEOREM ServiceNeverOversells == Spec => []Ledger!NoOverselling
<1>1. Atomic!LedgerInv => Ledger!NoOverselling
  BY LevelsAreNatural, InboundIsInbound, Atomic!LedgerInvImplies
  DEF Ledger!NoOverselling, Atomic!NoOverselling
<1>2. ServiceInv => Ledger!NoOverselling
  BY <1>1 DEF ServiceInv
<1> QED BY <1>2, ServiceInvariant, PTL

================================================================================
