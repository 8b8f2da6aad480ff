------------------------- MODULE OrderLifecycleProofs --------------------------
(*****************************************************************************)
(* Proofs about OrderLifecycle, for any orders, keys, requests and answers.  *)
(*****************************************************************************)
EXTENDS OrderLifecycle, FiniteSetTheorems, TLAPS

OrderRows == [key : Keys, request : Requests, status : Statuses]

--------------------------------------------------------------------------------
(* New events *)

\* A new event carries the type and order it is written for; it is the first of
\* its type for its order if the outbox holds none.
LEMMA NewEventFields ==
    ASSUME NEW rows, NEW type, NEW order, NEW payload
    PROVE  /\ NewEvent(rows, type, order, payload).type = type
           /\ NewEvent(rows, type, order, payload).order = order
           /\ (\A r \in rows : ~(r.type = type /\ r.order = order))
                => NewEvent(rows, type, order, payload).n = 1
<1> DEFINE same == {r \in rows : r.type = type /\ r.order = order}
<1>1. ASSUME \A r \in rows : ~(r.type = type /\ r.order = order)
      PROVE  Cardinality(same) = 0
  <2>1. same = {}
    BY <1>1
  <2> QED BY <2>1, FS_EmptySet
<1> QED BY <1>1 DEF NewEvent

--------------------------------------------------------------------------------
(* The state machine *)

\* An answer asks for one of the four statuses other than PENDING.
LEMMA RequestedStatus ==
    ASSUME NEW type \in InventoryVerdicts \cup PaymentOutcomes
    PROVE  /\ EVENT_TO_STATUS[type] \in Statuses \ {"PENDING"}
           /\ Announced(type) = Due(EVENT_TO_STATUS[type])
           /\ Announced(type) \subseteq InventoryCommands \cup OrderOutcomes
  BY DEF InventoryVerdicts, PaymentOutcomes, EVENT_TO_STATUS, Statuses, TERMINAL_STATUSES,
         Announced, Due, InventoryCommands, OrderOutcomes

\* A terminal status allows no transition, none leads back to PENDING, and a
\* status that allows one calls for no announcement.
LEMMA NextStatus ==
    ASSUME NEW current \in Statuses, NEW type \in InventoryVerdicts \cup PaymentOutcomes
    PROVE  /\ next_status(current, type) \in Statuses
           /\ current \in TERMINAL_STATUSES => next_status(current, type) = current
           /\ next_status(current, type) = "PENDING" => current = "PENDING"
           /\ next_status(current, type) # current =>
                /\ next_status(current, type) = EVENT_TO_STATUS[type]
                /\ Due(current) = {}
<1>1. EVENT_TO_STATUS[type] \in Statuses \ {"PENDING"}
  BY RequestedStatus
<1>2. CASE current = "PENDING"
  BY <1>1, <1>2 DEF next_status, Statuses, TERMINAL_STATUSES, Due
<1>3. CASE current = "INVENTORY_RESERVED"
  BY <1>1, <1>3 DEF next_status, Statuses, TERMINAL_STATUSES, Due
<1>4. CASE current \in TERMINAL_STATUSES
  <2>1. ALLOWED_TRANSITIONS[current] = {}
    BY <1>4 DEF ALLOWED_TRANSITIONS, Statuses, TERMINAL_STATUSES
  <2> QED BY <1>4, <2>1 DEF next_status, TERMINAL_STATUSES
<1> QED BY <1>2, <1>3, <1>4 DEF Statuses

\* Changing the status of an order row leaves an order row.
LEMMA StatusRow ==
    ASSUME NEW row \in OrderRows, NEW status \in Statuses
    PROVE  /\ [row EXCEPT !.status = status] \in OrderRows
           /\ [row EXCEPT !.status = status].key = row.key
           /\ [row EXCEPT !.status = status].request = row.request
           /\ [row EXCEPT !.status = status].status = status
  BY DEF OrderRows

--------------------------------------------------------------------------------
(* Type correctness *)

\* The empty database has the shape of TypeOK.
LEMMA InitTypeOK == Init => TypeOK
  BY DEF Init, TypeOK, IsTable

\* What a transition writes: the row of its order, with the new status, and the
\* events its answer announces.
LEMMA Transition ==
    ASSUME TypeOK, NEW e \in Inbound, e.order \in DOMAIN orders,
           WriteTransition(e, orders[e.order].status),
           next_status(orders[e.order].status, e.type) # orders[e.order].status
    PROVE  /\ EVENT_TO_STATUS[e.type] \in Statuses \ {"PENDING"}
           /\ orders[e.order].status \in Statuses \ TERMINAL_STATUSES
           /\ Due(orders[e.order].status) = {}
           /\ IsTable(orders', Orders, OrderRows)
           /\ DOMAIN orders' = DOMAIN orders
           /\ \A o \in DOMAIN orders :
                 /\ o # e.order => orders'[o] = orders[o]
                 /\ o = e.order =>
                      /\ orders'[o].key = orders[o].key
                      /\ orders'[o].request = orders[o].request
                      /\ orders'[o].status = EVENT_TO_STATUS[e.type]
           /\ outbox' = outbox \cup {NewEvent(outbox, t, e.order, orders[e.order].request) :
                                       t \in Announced(e.type)}
<1> DEFINE row == orders[e.order]
           status == next_status(row.status, e.type)
<1>1. /\ row \in OrderRows /\ row.status \in Statuses
      /\ e.type \in InventoryVerdicts \cup PaymentOutcomes /\ e.order \in Orders
  BY AnswersAssumption DEF AnswersAssumption, TypeOK, IsTable, OrderRows
<1>2. /\ status \in Statuses
      /\ row.status \notin TERMINAL_STATUSES
      /\ status = EVENT_TO_STATUS[e.type]
      /\ Due(row.status) = {}
  BY <1>1, NextStatus
<1>3. EVENT_TO_STATUS[e.type] \in Statuses \ {"PENDING"}
  BY <1>1, RequestedStatus
<1>4. orders' = Put(orders, e.order, [row EXCEPT !.status = status])
  BY DEF WriteTransition
<1>5. outbox' = outbox \cup {NewEvent(outbox, t, e.order, row.request) : t \in Announced(e.type)}
  BY DEF WriteTransition
<1>6. /\ [row EXCEPT !.status = status] \in OrderRows
      /\ [row EXCEPT !.status = status].key = row.key
      /\ [row EXCEPT !.status = status].request = row.request
      /\ [row EXCEPT !.status = status].status = status
  BY <1>1, <1>2, StatusRow
<1> HIDE DEF status
<1>7. IsTable(orders', Orders, OrderRows)
  BY <1>1, <1>4, <1>6 DEF TypeOK, OrderRows, IsTable, Put
<1>8. /\ DOMAIN orders' = DOMAIN orders
      /\ \A o \in DOMAIN orders :
            orders'[o] = IF o = e.order THEN [row EXCEPT !.status = status] ELSE orders[o]
  BY <1>4 DEF Put
<1> QED BY <1>1, <1>2, <1>3, <1>5, <1>6, <1>7, <1>8

\* Creating orders and handling answers keep the shapes of the tables.
LEMMA NextTypeOK == TypeOK /\ [Next]_vars => TypeOK'
<1> SUFFICES ASSUME TypeOK, [Next]_vars PROVE TypeOK'
  OBVIOUS
<1>1. ASSUME NEW key \in Keys, NEW request \in Requests, NEW order \in Orders,
             CreateOrder(key, request, order)
      PROVE  TypeOK'
  <2>1. [key |-> key, request |-> request, status |-> "PENDING"] \in OrderRows
    BY DEF OrderRows, Statuses
  <2>2. IsTable(orders', Orders, OrderRows)
    BY <1>1, <2>1 DEF CreateOrder, TypeOK, OrderRows, IsTable, Put
  <2>3. /\ NewEvent(outbox, "order.created", order, request).type = "order.created"
        /\ NewEvent(outbox, "order.created", order, request).order = order
    BY NewEventFields
  <2> QED BY <1>1, <2>2, <2>3 DEF CreateOrder, TypeOK, OrderRows
<1>2. ASSUME NEW e \in Inbound, HandleAnswer(e)
      PROVE  TypeOK'
  <2>1. processed' \subseteq {Id(f) : f \in Inbound}
    BY <1>2 DEF HandleAnswer, TypeOK
  <2>2. CASE next_status(orders[e.order].status, e.type) = orders[e.order].status
    BY <1>2, <2>1, <2>2 DEF HandleAnswer, WriteTransition, TypeOK
  <2>3. CASE next_status(orders[e.order].status, e.type) # orders[e.order].status
    <3>1. /\ e.order \in DOMAIN orders
          /\ WriteTransition(e, orders[e.order].status)
      BY <1>2 DEF HandleAnswer
    <3>2. /\ IsTable(orders', Orders, OrderRows)
          /\ outbox' = outbox \cup {NewEvent(outbox, t, e.order, orders[e.order].request) :
                                      t \in Announced(e.type)}
      BY <2>3, <3>1, Transition
    <3>3. /\ Announced(e.type) \subseteq InventoryCommands \cup OrderOutcomes
          /\ e.order \in Orders
      BY RequestedStatus, AnswersAssumption DEF AnswersAssumption
    <3>4. \A r \in outbox' :
             /\ r.type \in {"order.created"} \cup InventoryCommands \cup OrderOutcomes
             /\ r.order \in Orders
      BY <3>2, <3>3, NewEventFields DEF TypeOK
    <3> QED BY <2>1, <3>2, <3>4 DEF TypeOK, OrderRows
  <2> QED BY <2>2, <2>3
<1>3. CASE UNCHANGED vars
  BY <1>3 DEF vars, TypeOK
<1> QED BY <1>1, <1>2, <1>3 DEF Next

\* The tables of the order service keep their shape in every behaviour.
THEOREM TypeCorrect == Spec => []TypeOK
  BY InitTypeOK, NextTypeOK, PTL DEF Spec

--------------------------------------------------------------------------------
(* Steps *)

\* No step takes an order out of a terminal status or back to PENDING.
LEMMA NextMonotonic == TypeOK /\ [Next]_vars => [Monotonic]_vars
<1> SUFFICES ASSUME TypeOK, [Next]_vars PROVE [Monotonic]_vars
  OBVIOUS
<1>1. ASSUME NEW key \in Keys, NEW request \in Requests, NEW order \in Orders,
             CreateOrder(key, request, order)
      PROVE  Monotonic
  BY <1>1 DEF CreateOrder, Put, Monotonic
<1>2. ASSUME NEW e \in Inbound, HandleAnswer(e)
      PROVE  Monotonic
  <2>1. CASE next_status(orders[e.order].status, e.type) = orders[e.order].status
    BY <1>2, <2>1 DEF HandleAnswer, WriteTransition, Monotonic
  <2>2. CASE next_status(orders[e.order].status, e.type) # orders[e.order].status
    <3>1. /\ e.order \in DOMAIN orders
          /\ WriteTransition(e, orders[e.order].status)
      BY <1>2 DEF HandleAnswer
    <3> QED BY <2>2, <3>1, Transition DEF Monotonic
  <2> QED BY <2>1, <2>2
<1> QED BY <1>1, <1>2 DEF Next

\* Whatever answers arrive, contradicting, repeated or out of order, a terminal
\* status is final and no order goes back to PENDING.
THEOREM MonotonicStatus == Spec => StatusIsMonotonic
  BY TypeCorrect, NextMonotonic, PTL DEF Spec, StatusIsMonotonic

--------------------------------------------------------------------------------
(* Announcements *)

\* The empty outbox announces nothing.
LEMMA InitAnnounced == Init => AnnouncedMatchesStatus
  BY DEF Init, AnnouncedMatchesStatus

\* A new order announces its order.created, the first event of its id.
LEMMA CreateAnnounced ==
    ASSUME AnnouncedMatchesStatus,
           NEW key, NEW request, NEW order, CreateOrder(key, request, order)
    PROVE  AnnouncedMatchesStatus'
<1> DEFINE created == NewEvent(outbox, "order.created", order, request)
<1>1. /\ order \notin DOMAIN orders
      /\ outbox' = outbox \cup {created}
      /\ DOMAIN orders' = DOMAIN orders \cup {order}
      /\ orders'[order].status = "PENDING"
      /\ \A o \in DOMAIN orders : orders'[o] = orders[o]
  BY DEF CreateOrder, Put
<1>2. \A r \in outbox : r.order \in DOMAIN orders /\ r.n = 1
  BY DEF AnnouncedMatchesStatus
<1>3. created.type = "order.created" /\ created.order = order /\ created.n = 1
  BY <1>1, <1>2, NewEventFields
<1> HIDE DEF created
<1>4. \A o \in DOMAIN orders' :
         Announcements(o)' = {"order.created"} \cup Due(orders'[o].status)
  <2>1. Announcements(order)' = {"order.created"}
    BY <1>1, <1>2, <1>3 DEF Announcements
  <2>2. Due("PENDING") = {}
    BY DEF Due
  <2>3. ASSUME NEW o \in DOMAIN orders
        PROVE  Announcements(o)' = Announcements(o)
    BY <1>1, <1>3, <2>3 DEF Announcements
  <2> QED BY <1>1, <2>1, <2>2, <2>3 DEF AnnouncedMatchesStatus
<1>5. \A r \in outbox' : r.order \in DOMAIN orders' /\ r.n = 1
  BY <1>1, <1>2, <1>3
<1> QED BY <1>4, <1>5 DEF AnnouncedMatchesStatus

\* A transition announces what the new status calls for, and nothing of it had
\* been announced, since the old status called for nothing.
LEMMA TransitionAnnounced ==
    ASSUME TypeOK, AnnouncedMatchesStatus, NEW e \in Inbound, e.order \in DOMAIN orders,
           WriteTransition(e, orders[e.order].status),
           next_status(orders[e.order].status, e.type) # orders[e.order].status
    PROVE  AnnouncedMatchesStatus'
<1> DEFINE new(t) == NewEvent(outbox, t, e.order, orders[e.order].request)
           status == EVENT_TO_STATUS[e.type]
<1>1. /\ Due(orders[e.order].status) = {}
      /\ DOMAIN orders' = DOMAIN orders
      /\ \A o \in DOMAIN orders : o # e.order => orders'[o] = orders[o]
      /\ orders'[e.order].status = status
      /\ outbox' = outbox \cup {new(t) : t \in Announced(e.type)}
  BY Transition
<1>2. /\ Announced(e.type) = Due(status)
      /\ "order.created" \notin Announced(e.type)
  BY RequestedStatus, AnswersAssumption
  DEF AnswersAssumption, InventoryCommands, OrderOutcomes
<1>3. Announcements(e.order) = {"order.created"}
  BY <1>1 DEF AnnouncedMatchesStatus
<1>4. ASSUME NEW t \in Announced(e.type)
      PROVE  new(t).type = t /\ new(t).order = e.order /\ new(t).n = 1
  <2>1. \A r \in outbox : ~(r.type = t /\ r.order = e.order)
    BY <1>2, <1>3 DEF Announcements
  <2> QED BY <2>1, NewEventFields
<1> HIDE DEF new, status
<1>5. Announcements(e.order)' = {"order.created"} \cup Due(status)
  BY <1>1, <1>2, <1>3, <1>4 DEF Announcements
<1>6. ASSUME NEW o, o # e.order
      PROVE  Announcements(o)' = Announcements(o)
  BY <1>1, <1>4, <1>6 DEF Announcements
<1>7. \A o \in DOMAIN orders' :
         Announcements(o)' = {"order.created"} \cup Due(orders'[o].status)
  BY <1>1, <1>5, <1>6 DEF AnnouncedMatchesStatus
<1>8. \A r \in outbox' : r.order \in DOMAIN orders' /\ r.n = 1
  BY <1>1, <1>4 DEF AnnouncedMatchesStatus
<1> QED BY <1>7, <1>8 DEF AnnouncedMatchesStatus

\* Creating orders and handling answers keep status and outbox in step.
LEMMA NextAnnounced == TypeOK /\ AnnouncedMatchesStatus /\ [Next]_vars => AnnouncedMatchesStatus'
<1> SUFFICES ASSUME TypeOK, AnnouncedMatchesStatus, [Next]_vars
             PROVE  AnnouncedMatchesStatus'
  OBVIOUS
<1>1. ASSUME NEW key \in Keys, NEW request \in Requests, NEW order \in Orders,
             CreateOrder(key, request, order)
      PROVE  AnnouncedMatchesStatus'
  BY <1>1, CreateAnnounced
<1>2. ASSUME NEW e \in Inbound, HandleAnswer(e)
      PROVE  AnnouncedMatchesStatus'
  <2>1. /\ e.order \in DOMAIN orders
        /\ WriteTransition(e, orders[e.order].status)
    BY <1>2 DEF HandleAnswer
  <2>2. CASE next_status(orders[e.order].status, e.type) = orders[e.order].status
    BY <2>1, <2>2 DEF WriteTransition, AnnouncedMatchesStatus, Announcements
  <2>3. CASE next_status(orders[e.order].status, e.type) # orders[e.order].status
    BY <2>1, <2>3, TransitionAnnounced
  <2> QED BY <2>2, <2>3
<1>3. CASE UNCHANGED vars
  BY <1>3 DEF vars, AnnouncedMatchesStatus, Announcements
<1> QED BY <1>1, <1>2, <1>3 DEF Next

\* An order has announced exactly the events its status calls for, each once.
THEOREM AnnouncementsCorrect == Spec => []AnnouncedMatchesStatus
<1>1. Spec => [](TypeOK /\ AnnouncedMatchesStatus)
  BY InitTypeOK, NextTypeOK, InitAnnounced, NextAnnounced, PTL DEF Spec
<1> QED BY <1>1, PTL

================================================================================
