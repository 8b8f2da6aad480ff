-------------------------- MODULE OrderServiceProofs ---------------------------
(*****************************************************************************)
(* Proofs about OrderService, for any orders, keys, answers, sessions and    *)
(* crashes. With any number of consumers a key names one order and every     *)
(* client is told that order; with one consumer the handlers, which lock     *)
(* nothing, implement the atomic ones of OrderLifecycle. The last sections   *)
(* are about Gateway, which puts clients and the gateway before the service. *)
(*****************************************************************************)
EXTENDS Gateway, OrderLifecycleProofs, FiniteSetTheorems

SessionStates ==
    {Idle} \cup [pc : {"insert"}, key : Keys, request : Requests]
           \cup [pc : {"reread"}, key : Keys]
           \cup [pc : {"reply"}, key : Keys, order : Orders, created : BOOLEAN]

JobStates ==
    {Idle} \cup [pc : {"load"}, event : Inbound]
           \cup [pc : {"commit"}, event : Inbound, current : Statuses]

\* The shapes of everything.
Shapes ==
    /\ TypeOK
    /\ inbox \subseteq Inbound
    /\ session \in [Sessions -> SessionStates]
    /\ job \in [Consumers -> JobStates]
    /\ crashes \in 0..MaxCrashes

\* Events and answers are about orders that exist.
AboutOrders ==
    /\ \A r \in outbox : r.order \in DOMAIN orders
    /\ \A e \in inbox : e.order \in DOMAIN orders
    /\ \A c \in Consumers : job[c].pc # "idle" => job[c].event \in inbox

ServiceInv == Shapes /\ AboutOrders

--------------------------------------------------------------------------------
(* Tables and threads *)

\* A session that is not idle has the fields of its pc.
LEMMA BusySession ==
    ASSUME Shapes, NEW s \in Sessions
    PROVE  /\ session[s].pc \in {"idle", "insert", "reread", "reply"}
           /\ session[s].pc = "insert" =>
                session[s].key \in Keys /\ session[s].request \in Requests
           /\ session[s].pc = "reread" => session[s].key \in Keys
           /\ session[s].pc = "reply" =>
                session[s].key \in Keys /\ session[s].order \in Orders
  BY DEF Shapes, SessionStates, Idle

\* A job that is not idle handles an answer.
LEMMA BusyJob ==
    ASSUME Shapes, NEW c \in Consumers
    PROVE  /\ job[c].pc \in {"idle", "load", "commit"}
           /\ job[c].pc # "idle" => job[c].event \in Inbound
           /\ job[c].pc = "commit" => job[c].current \in Statuses
  BY DEF Shapes, JobStates, Idle

\* What a handler writes from any copy of the status, also a stale one: a status,
\* and announcements of its own order.
LEMMA StaleTransition ==
    ASSUME TypeOK, NEW e \in Inbound, e.order \in DOMAIN orders,
           NEW current \in Statuses, WriteTransition(e, current)
    PROVE  /\ IsTable(orders', Orders, OrderRows)
           /\ DOMAIN orders' = DOMAIN orders
           /\ \A o \in DOMAIN orders : /\ orders'[o].key = orders[o].key
                                       /\ orders'[o].request = orders[o].request
           /\ outbox \subseteq outbox'
           /\ \A r \in outbox' \ outbox : /\ r.type \in InventoryCommands \cup OrderOutcomes
                                          /\ r.order = e.order
<1> DEFINE row == orders[e.order]
           status == next_status(current, e.type)
           new(t) == NewEvent(outbox, t, e.order, row.request)
<1>1. /\ row \in OrderRows
      /\ e.type \in InventoryVerdicts \cup PaymentOutcomes /\ e.order \in Orders
  BY AnswersAssumption DEF AnswersAssumption, TypeOK, IsTable, OrderRows
<1>2. CASE status = current
  BY <1>2 DEF WriteTransition, TypeOK, OrderRows
<1>3. CASE status # current
  <2>1. status \in Statuses
    BY <1>1, NextStatus
  <2>2. /\ orders' = Put(orders, e.order, [row EXCEPT !.status = status])
        /\ outbox' = outbox \cup {new(t) : t \in Announced(e.type)}
    BY <1>3 DEF WriteTransition
  <2>3. /\ [row EXCEPT !.status = status] \in OrderRows
        /\ [row EXCEPT !.status = status].key = row.key
        /\ [row EXCEPT !.status = status].request = row.request
    BY <1>1, <2>1, StatusRow
  <2>4. Announced(e.type) \subseteq InventoryCommands \cup OrderOutcomes
    BY <1>1, RequestedStatus
  <2>5. \A t : new(t).type = t /\ new(t).order = e.order
    BY NewEventFields
  <2> HIDE DEF status, new
  <2>6. IsTable(orders', Orders, OrderRows)
    BY <1>1, <2>2, <2>3 DEF TypeOK, OrderRows, IsTable, Put
  <2>7. /\ DOMAIN orders' = DOMAIN orders
        /\ \A o \in DOMAIN orders :
              orders'[o] = IF o = e.order THEN [row EXCEPT !.status = status] ELSE orders[o]
    BY <2>2 DEF Put
  <2>8. \A o \in DOMAIN orders : /\ orders'[o].key = orders[o].key
                                 /\ orders'[o].request = orders[o].request
    BY <2>3, <2>7
  <2>9. \A r \in outbox' \ outbox : /\ r.type \in InventoryCommands \cup OrderOutcomes
                                    /\ r.order = e.order
    BY <2>2, <2>4, <2>5
  <2> QED BY <2>2, <2>6, <2>7, <2>8, <2>9
<1> QED BY <1>2, <1>3

\* Nothing exists and nobody is busy at the start.
LEMMA InitInv == ServiceInit => ServiceInv
<1> SUFFICES ASSUME ServiceInit PROVE ServiceInv
  OBVIOUS
<1>1. TypeOK
  BY InitTypeOK DEF ServiceInit
<1>2. Shapes
  BY <1>1, MaxCrashesAssumption
  DEF ServiceInit, Shapes, SessionStates, JobStates, Idle, MaxCrashesAssumption
<1>3. AboutOrders
  BY DEF ServiceInit, Init, AboutOrders, Idle
<1> QED BY <1>2, <1>3 DEF ServiceInv

\* A request of a session keeps the invariant: an order is created together with
\* the event about it.
LEMMA SessionInv ==
    ASSUME ServiceInv, NEW s \in Sessions,
           \/ \E key \in Keys, request \in Requests : Lookup(s, key, request)
           \/ Serve(s)
           \/ CrashSession(s)
    PROVE  ServiceInv'
<1> USE DEF ServiceInv
<1>1. ASSUME UNCHANGED <<vars, inbox, job>>, crashes' \in 0..MaxCrashes,
             session' \in [Sessions -> SessionStates]
      PROVE  ServiceInv'
  BY <1>1 DEF Shapes, AboutOrders, vars, TypeOK
<1>2. ASSUME NEW key \in Keys, NEW request \in Requests, Lookup(s, key, request)
      PROVE  ServiceInv'
  <2>1. \A o \in DOMAIN orders : o \in Orders
    BY DEF Shapes, TypeOK, IsTable
  <2>2. CASE ~KeyTaken(key)
            /\ session' = [session EXCEPT ![s] = [pc |-> "insert", key |-> key, request |-> request]]
    <3>1. [pc |-> "insert", key |-> key, request |-> request] \in SessionStates
      BY DEF SessionStates
    <3> QED BY <1>1, <1>2, <2>2, <3>1 DEF Lookup, Shapes
  <2>3. ASSUME NEW o \in DOMAIN orders,
               session' = [session EXCEPT ![s] =
                             [pc |-> "reply", key |-> key, order |-> o, created |-> FALSE]]
        PROVE  ServiceInv'
    <3>1. [pc |-> "reply", key |-> key, order |-> o, created |-> FALSE] \in SessionStates
      BY <2>1 DEF SessionStates
    <3> QED BY <1>1, <1>2, <2>3, <3>1 DEF Lookup, Shapes
  <2> QED BY <1>2, <2>2, <2>3 DEF Lookup
<1>3. CASE Insert(s)
  <2>1. session[s].key \in Keys /\ session[s].request \in Requests
    BY <1>3, BusySession DEF Insert
  <2>2. ASSUME NEW o \in Orders, CreateOrder(session[s].key, session[s].request, o),
               session' = [session EXCEPT ![s] =
                             [pc |-> "reply", key |-> @.key, order |-> o, created |-> TRUE]]
        PROVE  ServiceInv'
    <3>1. TypeOK'
      <4>1. Next
        BY <2>1, <2>2 DEF Next
      <4> QED BY <4>1, NextTypeOK DEF Shapes
    <3>2. /\ outbox' = outbox \cup {NewEvent(outbox, "order.created", o, session[s].request)}
          /\ DOMAIN orders' = DOMAIN orders \cup {o}
      BY <2>2 DEF CreateOrder, Put
    <3>3. \A r \in outbox' : r.order \in DOMAIN orders'
      BY <3>2, NewEventFields DEF AboutOrders
    <3>4. [pc |-> "reply", key |-> session[s].key, order |-> o, created |-> TRUE] \in SessionStates
      BY <2>1 DEF SessionStates
    <3>5. session' \in [Sessions -> SessionStates]
      BY <2>2, <3>4 DEF Shapes
    <3> QED BY <1>3, <3>1, <3>2, <3>3, <3>5 DEF Insert, Shapes, AboutOrders
  <2>3. CASE UNCHANGED vars
             /\ session' = [session EXCEPT ![s] = [pc |-> "reread", key |-> @.key]]
    <3>1. [pc |-> "reread", key |-> session[s].key] \in SessionStates
      BY <2>1 DEF SessionStates
    <3> QED BY <1>1, <1>3, <2>3, <3>1 DEF Insert, Shapes
  <2> QED BY <1>3, <2>2, <2>3 DEF Insert
<1>4. CASE Reread(s)
  <2>1. session[s].key \in Keys /\ \A o \in DOMAIN orders : o \in Orders
    BY <1>4, BusySession DEF Reread, Shapes, TypeOK, IsTable
  <2>2. session' \in [Sessions -> SessionStates]
    BY <1>4, <2>1 DEF Reread, Shapes, SessionStates
  <2> QED BY <1>1, <1>4, <2>2 DEF Reread, Shapes
<1>5. CASE Reply(s)
  <2>1. session' \in [Sessions -> SessionStates]
    BY <1>5 DEF Reply, Shapes, SessionStates
  <2> QED BY <1>1, <1>5, <2>1 DEF Reply, Shapes
<1>6. CASE CrashSession(s)
  <2>1. session' \in [Sessions -> SessionStates]
    BY <1>6 DEF CrashSession, Shapes, SessionStates
  <2>2. crashes' \in 0..MaxCrashes
    BY <1>6, MaxCrashesAssumption DEF CrashSession, Shapes, MaxCrashesAssumption
  <2> QED BY <1>1, <1>6, <2>1, <2>2 DEF CrashSession
<1> QED BY <1>2, <1>3, <1>4, <1>5, <1>6 DEF Serve

\* Answers follow the orders they are about.
LEMMA AnswerInv ==
    ASSUME ServiceInv, NEW e \in Inbound, InventoryAnswers(e) \/ PaymentAnswers(e)
    PROVE  ServiceInv'
<1> USE DEF ServiceInv
<1>1. e.order \in DOMAIN orders
  BY DEF InventoryAnswers, PaymentAnswers, Sent, AboutOrders
<1>2. /\ inbox' = inbox \cup {e}
      /\ UNCHANGED <<vars, job, session, crashes>>
  BY DEF InventoryAnswers, PaymentAnswers
<1> QED BY <1>1, <1>2 DEF Shapes, AboutOrders, vars, TypeOK

\* A handler keeps the invariant, from whatever copy of the status it writes.
LEMMA ConsumerInv ==
    ASSUME ServiceInv, NEW c \in Consumers,
           \/ \E e \in Inbound : Receive(c, e)
           \/ Consume(c)
           \/ CrashConsumer(c)
    PROVE  ServiceInv'
<1> USE DEF ServiceInv
<1>1. ASSUME UNCHANGED <<vars, inbox, session>>, crashes' \in 0..MaxCrashes,
             job' \in [Consumers -> JobStates],
             \A d \in Consumers : job'[d].pc # "idle" => job'[d].event \in inbox
      PROVE  ServiceInv'
  BY <1>1 DEF Shapes, AboutOrders, vars, TypeOK
<1>2. ASSUME job' = [job EXCEPT ![c] = Idle]
      PROVE  /\ job' \in [Consumers -> JobStates]
             /\ \A d \in Consumers : job'[d].pc # "idle" => job'[d].event \in inbox
  BY <1>2 DEF Shapes, AboutOrders, JobStates, Idle
<1>3. ASSUME NEW e \in Inbound, Receive(c, e)
      PROVE  ServiceInv'
  <2>1. /\ job' \in [Consumers -> JobStates]
        /\ \A d \in Consumers : job'[d].pc # "idle" => job'[d].event \in inbox
    BY <1>3 DEF Receive, Shapes, AboutOrders, JobStates
  <2> QED BY <1>1, <1>3, <2>1 DEF Receive, Shapes
<1>4. CASE Load(c)
  <2>1. job[c].event \in Inbound /\ job[c].event \in inbox
    BY <1>4, BusyJob DEF Load, AboutOrders
  <2>2. orders[job[c].event.order].status \in Statuses
    BY <2>1 DEF AboutOrders, Shapes, TypeOK, IsTable
  <2>3. /\ job' \in [Consumers -> JobStates]
        /\ \A d \in Consumers : job'[d].pc # "idle" => job'[d].event \in inbox
    BY <1>4, <2>1, <2>2 DEF Load, Shapes, AboutOrders, JobStates
  <2> QED BY <1>1, <1>4, <2>3 DEF Load, Shapes
<1>5. CASE Commit(c)
  <2> DEFINE e == job[c].event
  <2>1. /\ e \in Inbound /\ e.order \in DOMAIN orders
        /\ job[c].current \in Statuses
        /\ WriteTransition(e, job[c].current)
    BY <1>5, BusyJob DEF Commit, AboutOrders
  <2>2. e.order \in Orders
    BY <2>1, AnswersAssumption DEF AnswersAssumption
  <2> HIDE DEF e
  <2>3. /\ IsTable(orders', Orders, OrderRows)
        /\ DOMAIN orders' = DOMAIN orders
        /\ \A r \in outbox' \ outbox : /\ r.type \in InventoryCommands \cup OrderOutcomes
                                       /\ r.order = e.order
    BY <2>1, StaleTransition DEF Shapes
  <2>4. processed' \subseteq {Id(f) : f \in Inbound}
    BY <1>5, <2>1 DEF Commit, Shapes, TypeOK, e
  <2>5. \A r \in outbox' : /\ r.type \in {"order.created"} \cup InventoryCommands \cup OrderOutcomes
                           /\ r.order \in Orders /\ r.order \in DOMAIN orders'
    BY <2>1, <2>2, <2>3 DEF Shapes, TypeOK, AboutOrders
  <2>6. TypeOK'
    BY <2>3, <2>4, <2>5 DEF TypeOK, OrderRows
  <2>7. /\ job' = [job EXCEPT ![c] = Idle]
        /\ UNCHANGED <<inbox, session, crashes>>
    BY <1>5 DEF Commit
  <2> QED BY <1>2, <2>3, <2>5, <2>6, <2>7 DEF Shapes, AboutOrders
<1>6. CASE RejectedByKey(c)
  BY <1>1, <1>2, <1>6 DEF RejectedByKey, Shapes
<1>7. CASE CrashConsumer(c)
  <2>1. crashes' \in 0..MaxCrashes
    BY <1>7, MaxCrashesAssumption DEF CrashConsumer, Shapes, MaxCrashesAssumption
  <2> QED BY <1>1, <1>2, <1>7, <2>1 DEF CrashConsumer
<1> QED BY <1>3, <1>4, <1>5, <1>6, <1>7 DEF Consume

\* Every step of the service keeps the invariant.
LEMMA NextInv == ServiceInv /\ [ServiceNext]_serviceVars => ServiceInv'
<1> SUFFICES ASSUME ServiceInv, [ServiceNext]_serviceVars
             PROVE  ServiceInv'
  OBVIOUS
<1>1. CASE UNCHANGED serviceVars
  BY <1>1 DEF serviceVars, vars, ServiceInv, Shapes, AboutOrders, TypeOK
<1> QED BY <1>1, SessionInv, AnswerInv, ConsumerInv DEF ServiceNext

\* The tables and the threads of the order service keep their shape, however many
\* consumers there are.
THEOREM ServiceTypeCorrect == ServiceSpec => []ServiceTypeOK
<1>1. ServiceInv => ServiceTypeOK
  <2> SUFFICES ASSUME ServiceInv PROVE ServiceTypeOK
    OBVIOUS
  <2> QED BY BusyJob, BusySession DEF ServiceInv, Shapes, ServiceTypeOK
<1> QED BY InitInv, NextInv, <1>1, PTL DEF ServiceSpec

--------------------------------------------------------------------------------
(* One order per key *)

Created(o) == {r \in outbox : r.type = "order.created" /\ r.order = o}

\* A key has one order, announced once, and that order is what is answered.
KeysInv ==
    /\ \A o, p \in DOMAIN orders : orders[o].key = orders[p].key => o = p
    /\ \A o \in DOMAIN orders : \E r : Created(o) = {r}
    /\ \A r \in replies : r.order \in DOMAIN orders /\ orders[r.order].key = r.key
    /\ \A s \in Sessions : session[s].pc = "reply" =>
           /\ session[s].order \in DOMAIN orders
           /\ orders[session[s].order].key = session[s].key

\* A new order has a key and an order.created of its own.
LEMMA CreateKeys ==
    ASSUME ServiceInv, KeysInv, NEW key, NEW request, NEW o, CreateOrder(key, request, o)
    PROVE  /\ DOMAIN orders' = DOMAIN orders \cup {o}
           /\ orders'[o].key = key
           /\ \A p \in DOMAIN orders : orders'[p] = orders[p]
           /\ \A p, q \in DOMAIN orders' : orders'[p].key = orders'[q].key => p = q
           /\ \A p \in DOMAIN orders' : \E r : Created(p)' = {r}
<1> DEFINE new == NewEvent(outbox, "order.created", o, request)
<1>1. /\ DOMAIN orders' = DOMAIN orders \cup {o}
      /\ o \notin DOMAIN orders
      /\ orders'[o].key = key
      /\ \A p \in DOMAIN orders : orders'[p] = orders[p] /\ orders[p].key # key
      /\ outbox' = outbox \cup {new}
  BY DEF CreateOrder, KeyTaken, Put
<1>2. new.type = "order.created" /\ new.order = o
  BY NewEventFields
<1> HIDE DEF new
<1>3. \A r \in outbox : r.order # o
  BY <1>1 DEF ServiceInv, AboutOrders
<1>4. Created(o)' = {new}
  BY <1>1, <1>2, <1>3 DEF Created
<1>5. ASSUME NEW p \in DOMAIN orders
      PROVE  Created(p)' = Created(p)
  BY <1>1, <1>2, <1>5 DEF Created
<1>6. \A p, q \in DOMAIN orders' : orders'[p].key = orders'[q].key => p = q
  BY <1>1 DEF KeysInv
<1>7. ASSUME NEW p \in DOMAIN orders'
      PROVE  \E r : Created(p)' = {r}
  <2>1. CASE p = o
    BY <1>4, <2>1
  <2>2. CASE p \in DOMAIN orders
    <3>1. PICK r : Created(p) = {r}
      BY <2>2 DEF KeysInv
    <3>2. Created(p)' = {r}
      BY <1>5, <2>2, <3>1
    <3> QED BY <3>2
  <2> QED BY <1>1, <2>1, <2>2
<1> QED BY <1>1, <1>6, <1>7

\* Every step of the service keeps keys, announcements and answers together.
LEMMA NextKeys == ServiceInv /\ KeysInv /\ [ServiceNext]_serviceVars => KeysInv'
<1> SUFFICES ASSUME ServiceInv, KeysInv, [ServiceNext]_serviceVars
             PROVE  KeysInv'
  OBVIOUS
<1>1. ASSUME UNCHANGED <<orders, outbox, replies>>,
             \A s \in Sessions : session'[s].pc = "reply" =>
                 /\ session'[s].order \in DOMAIN orders
                 /\ orders[session'[s].order].key = session'[s].key
      PROVE  KeysInv'
  BY <1>1 DEF KeysInv, Created
<1>2. ASSUME NEW s \in Sessions, NEW key \in Keys, NEW request \in Requests,
             Lookup(s, key, request)
      PROVE  KeysInv'
  <2>1. session \in [Sessions -> SessionStates]
    BY DEF ServiceInv, Shapes
  <2>2. \A t \in Sessions : session'[t].pc = "reply" =>
            /\ session'[t].order \in DOMAIN orders
            /\ orders[session'[t].order].key = session'[t].key
    BY <1>2, <2>1 DEF Lookup, KeysInv
  <2> QED BY <1>1, <1>2, <2>2 DEF Lookup, vars
<1>3. ASSUME NEW s \in Sessions, Insert(s)
      PROVE  KeysInv'
  <2>1. session \in [Sessions -> SessionStates]
    BY DEF ServiceInv, Shapes
  <2>2. ASSUME NEW o \in Orders, CreateOrder(session[s].key, session[s].request, o),
               session' = [session EXCEPT ![s] =
                             [pc |-> "reply", key |-> @.key, order |-> o, created |-> TRUE]]
        PROVE  KeysInv'
    <3>1. /\ DOMAIN orders' = DOMAIN orders \cup {o}
          /\ orders'[o].key = session[s].key
          /\ \A p \in DOMAIN orders : orders'[p] = orders[p]
          /\ \A p, q \in DOMAIN orders' : orders'[p].key = orders'[q].key => p = q
          /\ \A p \in DOMAIN orders' : \E r : Created(p)' = {r}
      BY <2>2, CreateKeys
    <3>2. \A r \in replies' : r.order \in DOMAIN orders' /\ orders'[r.order].key = r.key
      BY <1>3, <3>1 DEF Insert, KeysInv
    <3>3. \A t \in Sessions : session'[t].pc = "reply" =>
              /\ session'[t].order \in DOMAIN orders'
              /\ orders'[session'[t].order].key = session'[t].key
      BY <2>1, <2>2, <3>1 DEF KeysInv
    <3> QED BY <3>1, <3>2, <3>3 DEF KeysInv
  <2>3. CASE UNCHANGED vars
             /\ session' = [session EXCEPT ![s] = [pc |-> "reread", key |-> @.key]]
    BY <1>1, <1>3, <2>1, <2>3 DEF Insert, vars, KeysInv
  <2> QED BY <1>3, <2>2, <2>3 DEF Insert
<1>4. ASSUME NEW s \in Sessions, Reread(s)
      PROVE  KeysInv'
  <2>1. session \in [Sessions -> SessionStates]
    BY DEF ServiceInv, Shapes
  <2>2. \A t \in Sessions : session'[t].pc = "reply" =>
            /\ session'[t].order \in DOMAIN orders
            /\ orders[session'[t].order].key = session'[t].key
    BY <1>4, <2>1 DEF Reread, KeysInv
  <2> QED BY <1>1, <1>4, <2>2 DEF Reread, vars
<1>5. ASSUME NEW s \in Sessions, Reply(s)
      PROVE  KeysInv'
  <2>1. session \in [Sessions -> SessionStates]
    BY DEF ServiceInv, Shapes
  <2>2. \A r \in replies' : r.order \in DOMAIN orders' /\ orders'[r.order].key = r.key
    BY <1>5 DEF Reply, vars, KeysInv
  <2>3. \A t \in Sessions : session'[t].pc = "reply" => session'[t] = session[t]
    BY <1>5, <2>1 DEF Reply, Idle
  <2>4. UNCHANGED <<orders, outbox>>
    BY <1>5 DEF Reply, vars
  <2> QED BY <2>2, <2>3, <2>4 DEF KeysInv, Created
<1>6. ASSUME NEW s \in Sessions, CrashSession(s)
      PROVE  KeysInv'
  <2>1. session \in [Sessions -> SessionStates]
    BY DEF ServiceInv, Shapes
  <2>2. \A t \in Sessions : session'[t].pc = "reply" => session'[t] = session[t]
    BY <1>6, <2>1 DEF CrashSession, Idle
  <2>3. UNCHANGED <<orders, outbox, replies>>
    BY <1>6 DEF CrashSession, vars
  <2> QED BY <2>2, <2>3 DEF KeysInv, Created
<1>7. ASSUME NEW c \in Consumers, Commit(c)
      PROVE  KeysInv'
  <2> DEFINE e == job[c].event
  <2>1. /\ e \in Inbound /\ e.order \in DOMAIN orders
        /\ job[c].current \in Statuses
        /\ WriteTransition(e, job[c].current)
    BY <1>7, BusyJob DEF Commit, ServiceInv, AboutOrders
  <2> HIDE DEF e
  <2>2. /\ DOMAIN orders' = DOMAIN orders
        /\ \A o \in DOMAIN orders : orders'[o].key = orders[o].key
        /\ outbox \subseteq outbox'
        /\ \A r \in outbox' \ outbox : r.type \in InventoryCommands \cup OrderOutcomes
    BY <2>1, StaleTransition DEF ServiceInv, Shapes
  <2>3. ASSUME NEW o \in DOMAIN orders'
        PROVE  \E r : Created(o)' = {r}
    <3>1. PICK r : Created(o) = {r}
      BY <2>2 DEF KeysInv
    <3>2. Created(o)' = Created(o)
      BY <2>2 DEF Created, InventoryCommands, OrderOutcomes
    <3> QED BY <3>1, <3>2
  <2>4. UNCHANGED <<session, replies>>
    BY <1>7 DEF Commit
  <2>5. \A o, p \in DOMAIN orders' : orders'[o].key = orders'[p].key => o = p
    BY <2>2 DEF KeysInv
  <2>6. \A r \in replies' : r.order \in DOMAIN orders' /\ orders'[r.order].key = r.key
    BY <2>2, <2>4 DEF KeysInv
  <2>7. \A s \in Sessions : session'[s].pc = "reply" =>
            /\ session'[s].order \in DOMAIN orders'
            /\ orders'[session'[s].order].key = session'[s].key
    BY <2>2, <2>4 DEF KeysInv
  <2> QED BY <2>3, <2>5, <2>6, <2>7 DEF KeysInv
<1>8. CASE UNCHANGED <<vars, session, replies>>
  BY <1>8 DEF vars, KeysInv, Created
<1>9. ASSUME NEW c \in Consumers,
             \/ \E e \in Inbound : Receive(c, e)
             \/ Load(c) \/ RejectedByKey(c) \/ CrashConsumer(c)
      PROVE  KeysInv'
  BY <1>8, <1>9 DEF Receive, Load, RejectedByKey, CrashConsumer
<1>10. ASSUME NEW e \in Inbound, InventoryAnswers(e) \/ PaymentAnswers(e)
       PROVE  KeysInv'
  BY <1>8, <1>10 DEF InventoryAnswers, PaymentAnswers
<1>11. CASE UNCHANGED serviceVars
  BY <1>8, <1>11 DEF serviceVars
<1> QED BY <1>2, <1>3, <1>4, <1>5, <1>6, <1>7, <1>9, <1>10, <1>11
        DEF ServiceNext, Serve, Consume

\* Whatever requests with one key do at the same time, and however often they are
\* cut off and retried, the key has one order, created once, and every client is
\* told that order.
THEOREM KeysNameOneOrder == ServiceSpec => []RetriesGetTheOriginalOrder
<1>1. ServiceInit => KeysInv
  BY DEF ServiceInit, Init, KeysInv, Idle
<1>2. KeysInv => RetriesGetTheOriginalOrder
  <2> SUFFICES ASSUME KeysInv, NEW o \in DOMAIN orders
               PROVE  Cardinality(Created(o)) = 1
    BY DEF KeysInv, RetriesGetTheOriginalOrder, Created
  <2>1. PICK r : Created(o) = {r}
    BY DEF KeysInv
  <2> QED BY <2>1, FS_Singleton
<1> QED BY InitInv, NextInv, NextKeys, <1>1, <1>2, PTL DEF ServiceSpec

--------------------------------------------------------------------------------
(* One outcome per order *)

Decides(e) == e.type # "inventory.reserved"

\* The answers of other services: one verdict per order, one payment outcome
\* after a reservation, and nothing was processed that was not sent.
InboxInv ==
    /\ \A e, f \in inbox : e.order = f.order =>
           /\ e.type \in InventoryVerdicts /\ f.type \in InventoryVerdicts => e = f
           /\ e.type \in PaymentOutcomes /\ f.type \in PaymentOutcomes => e = f
    /\ \A e \in inbox : e.type \in PaymentOutcomes => Sent({"inventory.reserved"}, e.order)
    /\ \A id \in processed : \E e \in inbox : id = Id(e)

\* What a handler may find as the status of an order: what answers have made it.
Possible(o, status) ==
    /\ status \in TERMINAL_STATUSES =>
           \E e \in inbox : e.order = o /\ Decides(e) /\ Id(e) \in processed
    /\ status = "INVENTORY_RESERVED" => Sent({"inventory.reserved"}, o)

\* The orders' statuses and the handlers' copies of them.
CopiesInv ==
    /\ \A o \in DOMAIN orders : Possible(o, orders[o].status)
    /\ \A c \in Consumers : job[c].pc = "commit" =>
           Possible(job[c].event.order, job[c].current)

Done(o) == {e \in inbox : e.order = o /\ Id(e) \in processed}

\* OneOutcomeAnnounced, order by order.
OutcomeInv ==
    /\ \A o \in DOMAIN orders :
           Announcements(o) = {"order.created"} \cup UNION {Announced(e.type) : e \in Done(o)}
    /\ \A r \in outbox : r.n = 1

\* An order is decided by one answer.
LEMMA OneDecision ==
    ASSUME Shapes, InboxInv, NEW e \in inbox, NEW f \in inbox,
           e.order = f.order, Decides(e), Decides(f)
    PROVE  e = f
<1>1. /\ e.type \in InventoryVerdicts \cup PaymentOutcomes
      /\ f.type \in InventoryVerdicts \cup PaymentOutcomes
  BY AnswersAssumption DEF AnswersAssumption, Shapes
<1>2. ASSUME NEW g \in inbox, NEW h \in inbox, g.order = h.order,
             g.type \in PaymentOutcomes, h.type \in InventoryVerdicts
      PROVE  ~Decides(h)
  <2>1. PICK v \in inbox : v.type = "inventory.reserved" /\ v.order = g.order
    BY <1>2 DEF InboxInv, Sent
  <2>2. v = h
    BY <1>2, <2>1 DEF InboxInv, InventoryVerdicts
  <2> QED BY <2>1, <2>2 DEF Decides
<1> QED BY <1>1, <1>2 DEF InboxInv

\* The answers and what was processed of them only grow, and with them what is possible.
LEMMA PossibleGrows ==
    ASSUME inbox \subseteq inbox', processed \subseteq processed',
           NEW o, NEW status, Possible(o, status)
    PROVE  Possible(o, status)'
  BY DEF Possible, Sent

\* The handler of an unprocessed answer finds a status that the answer changes,
\* unless it is a reservation, which announces nothing.
LEMMA CommitWrites ==
    ASSUME ServiceInv, InboxInv, CopiesInv, NEW c \in Consumers, Commit(c)
    PROVE  /\ job[c].event \in inbox /\ job[c].event.order \in DOMAIN orders
           /\ next_status(job[c].current, job[c].event.type)
                \in {job[c].current, EVENT_TO_STATUS[job[c].event.type]}
           /\ Decides(job[c].event) =>
                next_status(job[c].current, job[c].event.type) # job[c].current
<1> DEFINE e == job[c].event
           current == job[c].current
<1>1. /\ e \in inbox /\ e \in Inbound /\ e.order \in DOMAIN orders
      /\ current \in Statuses
      /\ Id(e) \notin processed
      /\ Possible(e.order, current)
  BY BusyJob DEF Commit, ServiceInv, AboutOrders, CopiesInv
<1>2. e.type \in InventoryVerdicts \cup PaymentOutcomes
  BY <1>1, AnswersAssumption DEF AnswersAssumption
<1> HIDE DEF e, current
<1>3. next_status(current, e.type) \in {current, EVENT_TO_STATUS[e.type]}
  BY DEF next_status
<1>4. ASSUME Decides(e)
      PROVE  next_status(current, e.type) # current
  <2>1. current \notin TERMINAL_STATUSES
    <3> SUFFICES ASSUME current \in TERMINAL_STATUSES PROVE FALSE
      OBVIOUS
    <3>1. PICK f \in inbox : f.order = e.order /\ Decides(f) /\ Id(f) \in processed
      BY <1>1 DEF Possible
    <3>2. f = e
      BY <1>1, <1>4, <3>1, OneDecision DEF ServiceInv
    <3> QED BY <1>1, <3>1, <3>2
  <2>2. CASE current = "PENDING"
    BY <1>2, <2>2 DEF next_status, EVENT_TO_STATUS, ALLOWED_TRANSITIONS, Statuses,
                      TERMINAL_STATUSES, InventoryVerdicts, PaymentOutcomes
  <2>3. CASE current = "INVENTORY_RESERVED"
    <3>1. PICK v \in inbox : v.type = "inventory.reserved" /\ v.order = e.order
      BY <1>1, <2>3 DEF Possible, Sent
    <3>2. e.type \in PaymentOutcomes
      BY <1>1, <1>2, <1>4, <3>1 DEF InboxInv, InventoryVerdicts, Decides
    <3> QED BY <2>3, <3>2 DEF next_status, EVENT_TO_STATUS, ALLOWED_TRANSITIONS, Statuses,
                              TERMINAL_STATUSES, InventoryVerdicts, PaymentOutcomes
  <2> QED BY <1>1, <2>1, <2>2, <2>3 DEF Statuses
<1> QED BY <1>1, <1>3, <1>4 DEF e, current

\* The answers stay those of services that answer once.
LEMMA NextInbox == ServiceInv /\ InboxInv /\ [ServiceNext]_serviceVars => InboxInv'
<1> SUFFICES ASSUME ServiceInv, InboxInv, [ServiceNext]_serviceVars
             PROVE  InboxInv'
  OBVIOUS
<1>1. ASSUME NEW e \in Inbound, InventoryAnswers(e)
      PROVE  InboxInv'
  <2>1. e.type \in InventoryVerdicts /\ e.type \notin PaymentOutcomes
    BY <1>1 DEF InventoryAnswers, InventoryVerdicts, PaymentOutcomes
  <2>2. inbox' = inbox \cup {e} /\ processed' = processed
        /\ \A f \in inbox : f.order = e.order => f.type \notin InventoryVerdicts
    BY <1>1 DEF InventoryAnswers, Sent, vars
  <2> QED BY <2>1, <2>2 DEF InboxInv, Sent
<1>2. ASSUME NEW e \in Inbound, PaymentAnswers(e)
      PROVE  InboxInv'
  <2>1. e.type \in PaymentOutcomes /\ e.type \notin InventoryVerdicts
    BY <1>2 DEF PaymentAnswers, InventoryVerdicts, PaymentOutcomes
  <2>2. inbox' = inbox \cup {e} /\ processed' = processed
        /\ Sent({"inventory.reserved"}, e.order)
        /\ \A f \in inbox : f.order = e.order => f.type \notin PaymentOutcomes
    BY <1>2 DEF PaymentAnswers, Sent, vars
  <2> QED BY <2>1, <2>2 DEF InboxInv, Sent
<1>3. ASSUME NEW c \in Consumers, Commit(c)
      PROVE  InboxInv'
  <2>1. /\ inbox' = inbox
        /\ processed' = processed \cup {Id(job[c].event)}
        /\ job[c].event \in inbox
    BY <1>3 DEF Commit, ServiceInv, AboutOrders
  <2> QED BY <2>1 DEF InboxInv, Sent
<1>4. CASE UNCHANGED <<processed, inbox>>
  BY <1>4 DEF InboxInv, Sent
<1>5. ASSUME NEW s \in Sessions,
             \/ \E key \in Keys, request \in Requests : Lookup(s, key, request)
             \/ Serve(s) \/ CrashSession(s)
      PROVE  InboxInv'
  BY <1>4, <1>5 DEF Lookup, Serve, Insert, CreateOrder, Reread, Reply, CrashSession, vars
<1>6. ASSUME NEW c \in Consumers,
             \/ \E e \in Inbound : Receive(c, e)
             \/ Load(c) \/ RejectedByKey(c) \/ CrashConsumer(c)
      PROVE  InboxInv'
  BY <1>4, <1>6 DEF Receive, Load, RejectedByKey, CrashConsumer, vars
<1>7. CASE UNCHANGED serviceVars
  BY <1>4, <1>7 DEF serviceVars, vars
<1> QED BY <1>1, <1>2, <1>3, <1>5, <1>6, <1>7 DEF ServiceNext, Consume

\* Statuses and their copies, also stale ones, are what answers have made them.
LEMMA NextCopies ==
    ServiceInv /\ InboxInv /\ CopiesInv /\ [ServiceNext]_serviceVars => CopiesInv'
<1> SUFFICES ASSUME ServiceInv, InboxInv, CopiesInv, [ServiceNext]_serviceVars
             PROVE  CopiesInv'
  OBVIOUS
<1>1. ASSUME inbox \subseteq inbox', processed' = processed, UNCHANGED <<orders, job>>
      PROVE  CopiesInv'
  <2>1. ASSUME NEW o \in DOMAIN orders'
        PROVE  Possible(o, orders[o].status)'
    BY <1>1, PossibleGrows DEF CopiesInv
  <2>2. ASSUME NEW c \in Consumers, job'[c].pc = "commit"
        PROVE  Possible(job[c].event.order, job[c].current)'
    BY <1>1, <2>2, PossibleGrows DEF CopiesInv
  <2> QED BY <2>1, <2>2 DEF CopiesInv
<1>2. ASSUME NEW c \in Consumers, UNCHANGED <<orders, processed, inbox>>,
             NEW j, job' = [job EXCEPT ![c] = j], j.pc = "commit" => Possible(j.event.order, j.current)
      PROVE  CopiesInv'
  <2>1. job \in [Consumers -> JobStates]
    BY DEF ServiceInv, Shapes
  <2> QED BY <1>2, <2>1 DEF CopiesInv, Possible, Sent
<1>3. ASSUME NEW s \in Sessions, Insert(s)
      PROVE  CopiesInv'
  <2>1. CASE UNCHANGED vars
    BY <1>1, <1>3, <2>1 DEF Insert, vars
  <2>2. ASSUME NEW o \in Orders, CreateOrder(session[s].key, session[s].request, o)
        PROVE  CopiesInv'
    <3>1. /\ DOMAIN orders' = DOMAIN orders \cup {o}
          /\ orders'[o].status = "PENDING"
          /\ \A p \in DOMAIN orders : p # o => orders'[p] = orders[p]
      BY <2>2 DEF CreateOrder, Put
    <3>2. UNCHANGED <<processed, inbox, job>>
      BY <1>3, <2>2 DEF Insert, CreateOrder
    <3>3. ASSUME NEW p \in DOMAIN orders'
          PROVE  Possible(p, orders[p].status)'
      BY <3>1, <3>2 DEF CopiesInv, Possible, Sent, TERMINAL_STATUSES
    <3> QED BY <3>2, <3>3 DEF CopiesInv, Possible, Sent
  <2> QED BY <1>3, <2>1, <2>2 DEF Insert
<1>4. ASSUME NEW c \in Consumers, Load(c)
      PROVE  CopiesInv'
  <2> DEFINE j == [pc |-> "commit", event |-> job[c].event,
                   current |-> orders[job[c].event.order].status]
  <2>1. job[c].event.order \in DOMAIN orders
    BY <1>4 DEF Load, ServiceInv, AboutOrders
  <2>2. Possible(j.event.order, j.current)
    BY <2>1 DEF CopiesInv
  <2>3. job' = [job EXCEPT ![c] = j] /\ UNCHANGED <<orders, processed, inbox>>
    BY <1>4 DEF Load, vars
  <2> QED BY <1>2, <2>2, <2>3
<1>5. ASSUME NEW c \in Consumers, Commit(c)
      PROVE  CopiesInv'
  <2>0. PICK e : e = job[c].event
    OBVIOUS
  <2> DEFINE current == job[c].current
             status == next_status(current, e.type)
  <2>1. /\ e \in inbox /\ e \in Inbound /\ e.order \in DOMAIN orders
        /\ status \in {current, EVENT_TO_STATUS[e.type]}
        /\ WriteTransition(e, current)
        /\ processed' = processed \cup {Id(e)}
        /\ job' = [job EXCEPT ![c] = Idle]
        /\ UNCHANGED <<inbox, session, replies, crashes>>
    BY <1>5, <2>0, CommitWrites DEF Commit, ServiceInv, Shapes
  <2>2. e.type \in InventoryVerdicts \cup PaymentOutcomes
    BY <2>1, AnswersAssumption DEF AnswersAssumption
  <2>3. /\ DOMAIN orders' = DOMAIN orders
        /\ \A o \in DOMAIN orders :
              \/ orders'[o].status = orders[o].status
              \/ o = e.order /\ orders'[o].status = EVENT_TO_STATUS[e.type]
    <3> HIDE DEF current
    <3>1. CASE status = current
      BY <3>1, <2>1 DEF WriteTransition
    <3>2. CASE status # current
      <4>1. orders' = Put(orders, e.order, [orders[e.order] EXCEPT !.status = status])
        BY <2>1, <3>2 DEF WriteTransition
      <4>2. orders[e.order] \in OrderRows /\ status = EVENT_TO_STATUS[e.type]
        BY <2>1, <3>2 DEF ServiceInv, Shapes, TypeOK, IsTable, OrderRows
      <4>3. status \in Statuses
        BY <2>2, <4>2, RequestedStatus
      <4>4. [orders[e.order] EXCEPT !.status = status].status = EVENT_TO_STATUS[e.type]
        BY <4>2, <4>3, StatusRow
      <4> QED BY <2>1, <4>1, <4>4 DEF Put
    <3> QED BY <3>1, <3>2
  <2> HIDE DEF current, status
  <2>4. Possible(e.order, EVENT_TO_STATUS[e.type])'
    <3>1. CASE e.type = "inventory.reserved"
      BY <2>1, <3>1 DEF Possible, Sent, EVENT_TO_STATUS, InventoryVerdicts, TERMINAL_STATUSES
    <3>2. CASE e.type # "inventory.reserved"
      <4>1. EVENT_TO_STATUS[e.type] # "INVENTORY_RESERVED"
        BY <2>2, <3>2 DEF EVENT_TO_STATUS, InventoryVerdicts, PaymentOutcomes
      <4> QED BY <2>1, <3>2, <4>1 DEF Possible, Decides
    <3> QED BY <3>1, <3>2
  <2>5. ASSUME NEW o \in DOMAIN orders'
        PROVE  Possible(o, orders[o].status)'
    <3>1. CASE orders'[o].status = orders[o].status
      BY <2>1, <2>3, <3>1, PossibleGrows DEF CopiesInv
    <3>2. CASE o = e.order /\ orders'[o].status = EVENT_TO_STATUS[e.type]
      BY <2>1, <2>4, <3>2 DEF Possible
    <3> QED BY <2>3, <3>1, <3>2
  <2>6. ASSUME NEW d \in Consumers, job'[d].pc = "commit"
        PROVE  Possible(job[d].event.order, job[d].current)'
    <3>1. job'[d] = job[d]
      BY <2>1, <2>6 DEF Idle, ServiceInv, Shapes
    <3>2. Possible(job[d].event.order, job[d].current)
      BY <2>6, <3>1 DEF CopiesInv
    <3> QED BY <2>1, <3>1, <3>2 DEF Possible, Sent
  <2> QED BY <2>5, <2>6 DEF CopiesInv
<1>6. ASSUME NEW c \in Consumers,
             \/ \E e \in Inbound : Receive(c, e)
             \/ RejectedByKey(c) \/ CrashConsumer(c)
      PROVE  CopiesInv'
  <2>1. UNCHANGED <<orders, processed, inbox>>
    BY <1>6 DEF Receive, RejectedByKey, CrashConsumer, vars
  <2>2. \/ \E e \in Inbound : job' = [job EXCEPT ![c] = [pc |-> "load", event |-> e]]
        \/ job' = [job EXCEPT ![c] = [pc |-> "idle"]]
    BY <1>6 DEF Receive, RejectedByKey, CrashConsumer, Idle
  <2> QED BY <1>2, <2>1, <2>2
<1>7. ASSUME NEW s \in Sessions,
             \/ \E key \in Keys, request \in Requests : Lookup(s, key, request)
             \/ Reread(s) \/ Reply(s) \/ CrashSession(s)
      PROVE  CopiesInv'
  BY <1>1, <1>7 DEF Lookup, Reread, Reply, CrashSession, vars
<1>8. ASSUME NEW e \in Inbound, InventoryAnswers(e) \/ PaymentAnswers(e)
      PROVE  CopiesInv'
  BY <1>1, <1>8 DEF InventoryAnswers, PaymentAnswers, vars
<1>9. CASE UNCHANGED serviceVars
  BY <1>1, <1>9 DEF serviceVars, vars
<1> QED BY <1>3, <1>4, <1>5, <1>6, <1>7, <1>8, <1>9 DEF ServiceNext, Serve, Consume

\* An outbox without new rows and the same processed answers: nothing to show.
LEMMA SameOutcome ==
    ASSUME OutcomeInv, DOMAIN orders' = DOMAIN orders, outbox' = outbox,
           \A o \in DOMAIN orders : UNION {Announced(e.type) : e \in Done(o)'}
                                  = UNION {Announced(e.type) : e \in Done(o)}
    PROVE  OutcomeInv'
<1>1. ASSUME NEW o \in DOMAIN orders'
      PROVE  Announcements(o)' = {"order.created"} \cup UNION {Announced(e.type) : e \in Done(o)'}
  <2>1. Announcements(o)' = Announcements(o)
    BY DEF Announcements
  <2> QED BY <2>1 DEF OutcomeInv
<1> QED BY <1>1 DEF OutcomeInv

\* The answer that decides an order announces what it calls for, none of which
\* had been announced.
LEMMA DecisionOutcome ==
    ASSUME ServiceInv, InboxInv, OutcomeInv, NEW e \in inbox, e.order \in DOMAIN orders,
           Decides(e), Id(e) \notin processed,
           NEW request,
           outbox' = outbox \cup {NewEvent(outbox, t, e.order, request) : t \in Announced(e.type)},
           DOMAIN orders' = DOMAIN orders, inbox' = inbox,
           processed' = processed \cup {Id(e)}
    PROVE  OutcomeInv'
<1> DEFINE new(t) == NewEvent(outbox, t, e.order, request)
<1>1. e \in Inbound /\ e.type \in InventoryVerdicts \cup PaymentOutcomes
  BY AnswersAssumption DEF AnswersAssumption, ServiceInv, Shapes
<1>2. "order.created" \notin Announced(e.type)
  BY <1>1, RequestedStatus DEF InventoryCommands, OrderOutcomes
<1>3. ASSUME NEW f \in Done(e.order)
      PROVE  Announced(f.type) = {}
  <2>1. ~Decides(f)
    BY <1>3, OneDecision DEF Done, ServiceInv
  <2> QED BY <2>1 DEF Decides, Announced
<1>4. Announcements(e.order) = {"order.created"}
  BY <1>3 DEF OutcomeInv
<1>5. ASSUME NEW t \in Announced(e.type)
      PROVE  new(t).type = t /\ new(t).order = e.order /\ new(t).n = 1
  <2>1. \A r \in outbox : ~(r.type = t /\ r.order = e.order)
    BY <1>2, <1>4 DEF Announcements
  <2> QED BY <2>1, NewEventFields
<1>6. Done(e.order)' = Done(e.order) \cup {e}
  <2>1. ASSUME NEW f \in inbox, Id(f) = Id(e)
        PROVE  f = e
    <3>1. f.order = e.order /\ Decides(f)
      BY <2>1 DEF Id, Decides
    <3> QED BY <3>1, OneDecision DEF ServiceInv
  <2> QED BY <2>1 DEF Done
<1>7. ASSUME NEW o, o # e.order
      PROVE  Done(o)' = Done(o)
  BY <1>7 DEF Done, Id
<1> HIDE DEF new
<1>8. outbox' = outbox \cup {new(t) : t \in Announced(e.type)}
  BY DEF new
<1>9. ASSUME NEW o \in DOMAIN orders'
      PROVE  Announcements(o)' = {"order.created"} \cup UNION {Announced(f.type) : f \in Done(o)'}
  <2>1. CASE o = e.order
    <3>1. Announcements(o)' = {"order.created"} \cup Announced(e.type)
      BY <1>4, <1>5, <1>8, <2>1 DEF Announcements
    <3>2. UNION {Announced(f.type) : f \in Done(o)'} = Announced(e.type)
      BY <1>3, <1>6, <2>1
    <3> QED BY <3>1, <3>2
  <2>2. CASE o # e.order
    <3>1. Announcements(o)' = Announcements(o)
      BY <1>5, <1>8, <2>2 DEF Announcements
    <3> QED BY <1>7, <2>2, <3>1 DEF OutcomeInv
  <2> QED BY <2>1, <2>2
<1>10. \A r \in outbox' : r.n = 1
  BY <1>5, <1>8 DEF OutcomeInv
<1> QED BY <1>9, <1>10 DEF OutcomeInv

\* A new order has announced that it was created and has no answers yet.
LEMMA CreateOutcome ==
    ASSUME ServiceInv, OutcomeInv, NEW key, NEW request, NEW o, CreateOrder(key, request, o),
           inbox' = inbox
    PROVE  OutcomeInv'
<1> DEFINE new == NewEvent(outbox, "order.created", o, request)
<1>1. /\ o \notin DOMAIN orders
      /\ DOMAIN orders' = DOMAIN orders \cup {o}
      /\ outbox' = outbox \cup {new}
      /\ processed' = processed
  BY DEF CreateOrder, Put
<1>2. \A r \in outbox : r.order # o
  BY <1>1 DEF ServiceInv, AboutOrders
<1>3. new.type = "order.created" /\ new.order = o /\ new.n = 1
  BY <1>2, NewEventFields
<1> HIDE DEF new
<1>4. Done(o)' = {}
  BY <1>1 DEF Done, ServiceInv, AboutOrders
<1>5. Announcements(o)' = {"order.created"}
  BY <1>1, <1>2, <1>3 DEF Announcements
<1>6. ASSUME NEW p \in DOMAIN orders'
      PROVE  Announcements(p)' = {"order.created"} \cup UNION {Announced(f.type) : f \in Done(p)'}
  <2>1. CASE p = o
    BY <1>4, <1>5, <2>1
  <2>2. CASE p \in DOMAIN orders
    <3>1. Announcements(p)' = Announcements(p)
      BY <1>1, <1>3, <2>2 DEF Announcements
    <3>2. Done(p)' = Done(p)
      BY <1>1 DEF Done
    <3> QED BY <2>2, <3>1, <3>2 DEF OutcomeInv
  <2> QED BY <1>1, <2>1, <2>2
<1>7. \A r \in outbox' : r.n = 1
  BY <1>1, <1>3 DEF OutcomeInv
<1> QED BY <1>6, <1>7 DEF OutcomeInv

\* Every step keeps announcements and processed answers together.
LEMMA NextOutcome ==
    /\ ServiceInv /\ InboxInv /\ CopiesInv /\ OutcomeInv
    /\ [ServiceNext]_serviceVars
    => OutcomeInv'
<1> SUFFICES ASSUME ServiceInv, InboxInv, CopiesInv, OutcomeInv, [ServiceNext]_serviceVars
             PROVE  OutcomeInv'
  OBVIOUS
<1>1. ASSUME UNCHANGED <<vars, inbox>>
      PROVE  OutcomeInv'
  BY <1>1, SameOutcome DEF vars, Done
<1>2. ASSUME NEW s \in Sessions, Insert(s)
      PROVE  OutcomeInv'
  <2>1. ASSUME NEW o \in Orders, CreateOrder(session[s].key, session[s].request, o)
        PROVE  OutcomeInv'
    BY <1>2, <2>1, CreateOutcome DEF Insert
  <2> QED BY <1>1, <1>2, <2>1 DEF Insert
<1>3. ASSUME NEW c \in Consumers, Commit(c)
      PROVE  OutcomeInv'
  <2>1. PICK e : e = job[c].event
    OBVIOUS
  <2>2. /\ e \in inbox /\ e.order \in DOMAIN orders
        /\ Id(e) \notin processed
        /\ next_status(job[c].current, e.type) \in {job[c].current, EVENT_TO_STATUS[e.type]}
        /\ Decides(e) => next_status(job[c].current, e.type) # job[c].current
        /\ WriteTransition(e, job[c].current)
        /\ processed' = processed \cup {Id(e)}
        /\ inbox' = inbox
    BY <1>3, <2>1, CommitWrites DEF Commit
  <2>3. DOMAIN orders' = DOMAIN orders
    BY <2>2 DEF WriteTransition, Put
  <2>4. CASE Decides(e)
    <3>1. outbox' = outbox \cup {NewEvent(outbox, t, e.order, orders[e.order].request) :
                                   t \in Announced(e.type)}
      BY <2>2, <2>4 DEF WriteTransition
    <3> QED BY <2>2, <2>3, <2>4, <3>1, DecisionOutcome
  <2>5. CASE ~Decides(e)
    <3>1. Announced(e.type) = {}
      BY <2>5 DEF Decides, Announced
    <3>2. outbox' = outbox
      BY <2>2, <3>1 DEF WriteTransition
    <3>3. ASSUME NEW o \in DOMAIN orders
          PROVE  UNION {Announced(f.type) : f \in Done(o)'} = UNION {Announced(f.type) : f \in Done(o)}
      <4>1. Done(o) \subseteq Done(o)'
        BY <2>2 DEF Done
      <4>2. \A f \in Done(o)' \ Done(o) : Announced(f.type) = {}
        BY <2>2, <3>1 DEF Done, Id
      <4> QED BY <4>1, <4>2
    <3> QED BY <2>3, <3>2, <3>3, SameOutcome
  <2> QED BY <2>4, <2>5
<1>4. ASSUME NEW e \in Inbound, InventoryAnswers(e) \/ PaymentAnswers(e)
      PROVE  OutcomeInv'
  <2>1. /\ inbox' = inbox \cup {e}
        /\ UNCHANGED vars
        /\ \A f \in inbox : f.order = e.order => f.type # e.type
    BY <1>4 DEF InventoryAnswers, PaymentAnswers, Sent
  <2>2. Id(e) \notin processed
    BY <2>1 DEF InboxInv, Id
  <2>3. \A o : Done(o)' = Done(o)
    BY <2>1, <2>2 DEF Done, vars
  <2> QED BY <2>1, <2>3, SameOutcome DEF vars
<1>5. ASSUME NEW s \in Sessions,
             \/ \E key \in Keys, request \in Requests : Lookup(s, key, request)
             \/ Reread(s) \/ Reply(s) \/ CrashSession(s)
      PROVE  OutcomeInv'
  BY <1>1, <1>5 DEF Lookup, Reread, Reply, CrashSession
<1>6. ASSUME NEW c \in Consumers,
             \/ \E e \in Inbound : Receive(c, e)
             \/ Load(c) \/ RejectedByKey(c) \/ CrashConsumer(c)
      PROVE  OutcomeInv'
  BY <1>1, <1>6 DEF Receive, Load, RejectedByKey, CrashConsumer
<1>7. CASE UNCHANGED serviceVars
  BY <1>1, <1>7 DEF serviceVars
<1> QED BY <1>2, <1>3, <1>4, <1>5, <1>6, <1>7 DEF ServiceNext, Serve, Consume

\* However many consumers handle the answers and however stale their copies of
\* the order are, an order announces the outcome its answers call for, once.
THEOREM OutcomeAnnouncedOnce == ServiceSpec => []OneOutcomeAnnounced
<1>1. ServiceInit => InboxInv /\ CopiesInv /\ OutcomeInv
  BY DEF ServiceInit, Init, InboxInv, CopiesInv, OutcomeInv, Idle
<1>2. OutcomeInv => OneOutcomeAnnounced
  BY DEF OutcomeInv, OneOutcomeAnnounced, Done
<1> QED BY InitInv, NextInv, NextInbox, NextCopies, NextOutcome, <1>1, <1>2, PTL DEF ServiceSpec

--------------------------------------------------------------------------------
(* One consumer *)

\* While one thread reads the queue, the copy it decides from is the order's status.
CopyIsFresh ==
    \A c \in Consumers : job[c].pc = "commit" =>
        job[c].current = orders[job[c].event.order].status

\* Every step of a service with one consumer keeps the copy fresh, and is a step
\* of the atomic lifecycle or none.
LEMMA NextFresh ==
    ASSUME \A c, d \in Consumers : c = d,
           ServiceInv, CopyIsFresh, [ServiceNext]_serviceVars
    PROVE  CopyIsFresh' /\ [Next]_vars
<1>1. ASSUME UNCHANGED <<vars, job>>
      PROVE  CopyIsFresh' /\ [Next]_vars
  BY <1>1 DEF vars, CopyIsFresh
<1>2. ASSUME NEW s \in Sessions, Insert(s)
      PROVE  CopyIsFresh' /\ [Next]_vars
  <2>1. ASSUME NEW o \in Orders, CreateOrder(session[s].key, session[s].request, o)
        PROVE  CopyIsFresh' /\ [Next]_vars
    <3>1. session[s].key \in Keys /\ session[s].request \in Requests
      BY <1>2, BusySession DEF Insert, ServiceInv
    <3>2. /\ \A p \in DOMAIN orders : orders'[p] = orders[p]
          /\ job' = job
      BY <1>2, <2>1 DEF Insert, CreateOrder, Put
    <3>3. CopyIsFresh'
      BY <3>2 DEF CopyIsFresh, ServiceInv, AboutOrders
    <3> QED BY <2>1, <3>1, <3>3 DEF Next
  <2> QED BY <1>1, <1>2, <2>1 DEF Insert
<1>3. ASSUME NEW c \in Consumers, Load(c)
      PROVE  CopyIsFresh' /\ [Next]_vars
  <2>1. CopyIsFresh'
    BY <1>3 DEF Load, vars, CopyIsFresh, ServiceInv, Shapes
  <2> QED BY <1>3, <2>1 DEF Load
<1>4. ASSUME NEW c \in Consumers, Commit(c)
      PROVE  CopyIsFresh' /\ [Next]_vars
  <2>1. job[c].event \in Inbound /\ job[c].event.order \in DOMAIN orders
    BY <1>4, BusyJob DEF Commit, ServiceInv, AboutOrders
  <2>2. HandleAnswer(job[c].event)
    BY <1>4, <2>1 DEF Commit, CopyIsFresh, HandleAnswer
  <2>3. CopyIsFresh'
    BY <1>4 DEF Commit, Idle, CopyIsFresh, ServiceInv, Shapes
  <2> QED BY <2>1, <2>2, <2>3 DEF Next
<1>5. ASSUME NEW c \in Consumers,
             \/ \E e \in Inbound : Receive(c, e)
             \/ RejectedByKey(c) \/ CrashConsumer(c)
      PROVE  CopyIsFresh' /\ [Next]_vars
  <2>1. /\ UNCHANGED vars
        /\ \/ \E e \in Inbound : job' = [job EXCEPT ![c] = [pc |-> "load", event |-> e]]
           \/ job' = [job EXCEPT ![c] = [pc |-> "idle"]]
    BY <1>5 DEF Receive, RejectedByKey, CrashConsumer, Idle
  <2>2. CopyIsFresh'
    BY <2>1 DEF vars, CopyIsFresh, ServiceInv, Shapes
  <2> QED BY <2>1, <2>2
<1>6. ASSUME NEW s \in Sessions,
             \/ \E key \in Keys, request \in Requests : Lookup(s, key, request)
             \/ Reread(s) \/ Reply(s) \/ CrashSession(s)
      PROVE  CopyIsFresh' /\ [Next]_vars
  BY <1>1, <1>6 DEF Lookup, Reread, Reply, CrashSession
<1>7. ASSUME NEW e \in Inbound, InventoryAnswers(e) \/ PaymentAnswers(e)
      PROVE  CopyIsFresh' /\ [Next]_vars
  BY <1>1, <1>7 DEF InventoryAnswers, PaymentAnswers
<1>8. CASE UNCHANGED serviceVars
  BY <1>1, <1>8 DEF serviceVars
<1> QED BY <1>2, <1>3, <1>4, <1>5, <1>6, <1>7, <1>8 DEF ServiceNext, Serve, Consume

\* With one consumer thread the handlers, which lock nothing, implement the atomic
\* ones for any number of requests, orders, answers and crashes.
THEOREM OneConsumerImplementsLifecycle ==
    ASSUME \A c, d \in Consumers : c = d
    PROVE  ServiceSpec => ImplementsLifecycle
<1>1. ServiceInit => Init /\ CopyIsFresh
  BY DEF ServiceInit, CopyIsFresh, Idle
<1>2. ServiceInv /\ CopyIsFresh /\ [ServiceNext]_serviceVars => CopyIsFresh' /\ [Next]_vars
  BY NextFresh
<1> QED BY InitInv, NextInv, <1>1, <1>2, PTL DEF ServiceSpec, ImplementsLifecycle, Spec

\* With one consumer thread no status moves backward ...
THEOREM OneConsumerIsMonotonic ==
    ASSUME \A c, d \in Consumers : c = d
    PROVE  ServiceSpec => StatusIsMonotonic
  BY OneConsumerImplementsLifecycle, MonotonicStatus DEF ImplementsLifecycle

\* ... and an order has announced exactly the events its status calls for.
THEOREM OneConsumerAnnounces ==
    ASSUME \A c, d \in Consumers : c = d
    PROVE  ServiceSpec => []AnnouncedMatchesStatus
  BY OneConsumerImplementsLifecycle, AnnouncementsCorrect DEF ImplementsLifecycle

--------------------------------------------------------------------------------
(* Clients and the gateway *)

\* A request that client r.client has posted.
IsPost(r) ==
    /\ r.client \in Clients
    /\ r.n \in 1..attempts[r.client]
    /\ r.key = ForwardedKey(r.client, r.n)

\* Some client has posted this body under this key.
AskedFor(key, request) ==
    \E c \in Clients : \E n \in 1..attempts[c] :
        key = ForwardedKey(c, n) /\ request = RequestOf[c]

AttemptsInv ==
    /\ attempts \in [Clients -> Nat]
    /\ \A c \in Clients : attempts[c] <= MaxAttempts[c]

\* Requests on their way and requests being served have been posted, and a session
\* works with the key and the body of the request it serves.
PostsInv ==
    /\ \A r \in sent : IsPost(r)
    /\ DOMAIN serving = Sessions
    /\ \A s \in Sessions : session[s].pc # "idle" =>
           /\ IsPost(serving[s])
           /\ session[s].key = serving[s].key
           /\ session[s].pc = "insert" => session[s].request = RequestOf[serving[s].client]

\* Every order was asked for, a client was told an order that has the key of one of
\* its posts, and one that is still waiting was told none.
ToldInv ==
    /\ \A o \in DOMAIN orders : AskedFor(orders[o].key, orders[o].request)
    /\ DOMAIN told = Clients /\ DOMAIN awaited = Clients
    /\ \A c \in Clients : told[c] # None =>
           /\ told[c] \in DOMAIN orders
           /\ \E n \in 1..attempts[c] : orders[told[c]].key = ForwardedKey(c, n)
    /\ \A c \in Clients : awaited[c] # 0 => told[c] = None

\* A client was shown a status of the order it was told.
ShownInv ==
    /\ DOMAIN shown = Clients
    /\ \A c \in Clients : shown[c] # None => shown[c] \in Statuses /\ told[c] # None

GatewayInv == ServiceInv /\ KeysInv /\ AttemptsInv /\ PostsInv /\ ToldInv /\ ShownInv

\* A client's post carries a key of the service.
LEMMA ForwardedKeys ==
    ASSUME NEW c \in Clients, NEW n \in 1..MaxAttempts[c]
    PROVE  ForwardedKey(c, n) \in Keys
  BY ClientsAssumption, KeysAssumption DEF ClientsAssumption, KeysAssumption, ForwardedKey

\* Two posts carry one key only if their clients share it, and without a key of its
\* own a client never uses one twice.
LEMMA SameKey ==
    ASSUME NEW c \in Clients, NEW n \in 1..MaxAttempts[c],
           NEW d \in Clients, NEW m \in 1..MaxAttempts[d],
           ForwardedKey(c, n) = ForwardedKey(d, m)
    PROVE  /\ d \in Sharing(c)
           /\ KeyOf[c] = None => c = d /\ n = m
  BY KeysAssumption DEF KeysAssumption, ForwardedKey, FreshKey, Sharing

\* What was posted stays posted.
LEMMA PostsStay ==
    ASSUME AttemptsInv, AttemptsInv', \A c \in Clients : attempts[c] <= attempts'[c]
    PROVE  /\ \A r : IsPost(r) => IsPost(r)'
           /\ \A key, request : AskedFor(key, request) => AskedFor(key, request)'
           /\ \A c \in Clients : 1..attempts[c] \subseteq 1..attempts'[c]
<1>1. \A c \in Clients : 1..attempts[c] \subseteq 1..attempts'[c]
  BY DEF AttemptsInv
<1> QED BY <1>1 DEF IsPost, AskedFor

\* A step of the gateway is one of the order service, or none.
LEMMA GatewaySteps ==
    ASSUME GatewayInv, [GatewayNext]_gatewayVars
    PROVE  [ServiceNext]_serviceVars
<1>1. ASSUME NEW s \in Sessions, NEW r \in sent, Begin(s, r)
      PROVE  ServiceNext
  <2>1. IsPost(r) /\ r.n \in 1..MaxAttempts[r.client]
    BY ClientsAssumption DEF GatewayInv, PostsInv, AttemptsInv, IsPost, ClientsAssumption
  <2>2. r.key \in Keys /\ RequestOf[r.client] \in Requests
    BY <2>1, ForwardedKeys, ClientsAssumption DEF IsPost, ClientsAssumption
  <2> QED BY <1>1, <2>2 DEF Begin, ServiceNext
<1>2. ASSUME NEW s \in Sessions, Work(s) \/ Respond(s) \/ Cut(s)
      PROVE  ServiceNext
  BY <1>2 DEF Work, Respond, Cut, Serve, ServiceNext
<1>3. ASSUME NEW c \in Clients, Checkout(c) \/ TimeOut(c) \/ Poll(c)
      PROVE  UNCHANGED serviceVars
  BY <1>3 DEF Checkout, TimeOut, Poll
<1>4. CASE Background
  BY <1>4 DEF Background, ServiceNext
<1>5. CASE UNCHANGED gatewayVars
  BY <1>5 DEF gatewayVars
<1> QED BY <1>1, <1>2, <1>3, <1>4, <1>5 DEF GatewayNext

\* Orders keep their key and their body, and a new one has those of a session that
\* was about to insert it.
LEMMA OrdersGrow ==
    ASSUME ServiceInv, [ServiceNext]_serviceVars
    PROVE  /\ \A o \in DOMAIN orders : /\ o \in DOMAIN orders'
                                       /\ orders'[o].key = orders[o].key
                                       /\ orders'[o].request = orders[o].request
           /\ \A o \in DOMAIN orders' \ DOMAIN orders :
                 \E s \in Sessions : /\ session[s].pc = "insert"
                                     /\ orders'[o].key = session[s].key
                                     /\ orders'[o].request = session[s].request
<1> DEFINE Grown ==
      /\ \A o \in DOMAIN orders : /\ o \in DOMAIN orders'
                                  /\ orders'[o].key = orders[o].key
                                  /\ orders'[o].request = orders[o].request
      /\ \A o \in DOMAIN orders' \ DOMAIN orders :
            \E s \in Sessions : /\ session[s].pc = "insert"
                                /\ orders'[o].key = session[s].key
                                /\ orders'[o].request = session[s].request
<1>1. ASSUME UNCHANGED vars
      PROVE  Grown
  BY <1>1 DEF vars
<1>2. ASSUME NEW s \in Sessions, Insert(s)
      PROVE  Grown
  <2>1. ASSUME NEW o \in Orders, CreateOrder(session[s].key, session[s].request, o)
        PROVE  Grown
    <3>1. session[s].pc = "insert"
      BY <1>2 DEF Insert
    <3> QED BY <2>1, <3>1 DEF CreateOrder, Put
  <2> QED BY <1>1, <1>2, <2>1 DEF Insert
<1>3. ASSUME NEW c \in Consumers, Commit(c)
      PROVE  Grown
  <2>1. PICK e : e = job[c].event
    OBVIOUS
  <2>2. /\ e \in Inbound /\ e.order \in DOMAIN orders
        /\ job[c].current \in Statuses
        /\ WriteTransition(e, job[c].current)
    BY <1>3, <2>1, BusyJob DEF Commit, ServiceInv, AboutOrders
  <2>3. /\ DOMAIN orders' = DOMAIN orders
        /\ \A o \in DOMAIN orders : /\ orders'[o].key = orders[o].key
                                    /\ orders'[o].request = orders[o].request
    BY <2>2, StaleTransition DEF ServiceInv, Shapes
  <2> QED BY <2>3
<1>4. ASSUME NEW s \in Sessions,
             \/ \E key \in Keys, request \in Requests : Lookup(s, key, request)
             \/ Reread(s) \/ Reply(s) \/ CrashSession(s)
      PROVE  UNCHANGED vars
  BY <1>4 DEF Lookup, Reread, Reply, CrashSession
<1>5. ASSUME NEW c \in Consumers,
             \/ \E e \in Inbound : Receive(c, e)
             \/ Load(c) \/ RejectedByKey(c) \/ CrashConsumer(c)
      PROVE  UNCHANGED vars
  BY <1>5 DEF Receive, Load, RejectedByKey, CrashConsumer
<1>6. ASSUME NEW e \in Inbound, InventoryAnswers(e) \/ PaymentAnswers(e)
      PROVE  UNCHANGED vars
  BY <1>6 DEF InventoryAnswers, PaymentAnswers
<1>7. ASSUME UNCHANGED serviceVars
      PROVE  Grown
  BY <1>1, <1>7 DEF serviceVars
<1> HIDE DEF Grown
<1>8. Grown
  BY <1>1, <1>2, <1>3, <1>4, <1>5, <1>6, <1>7 DEF ServiceNext, Serve, Consume
<1> QED BY <1>8 DEF Grown

\* Nobody has posted and nothing exists at the start.
LEMMA InitGateway == GatewayInit => GatewayInv
<1> SUFFICES ASSUME GatewayInit PROVE GatewayInv
  OBVIOUS
<1>1. ServiceInv
  BY InitInv DEF GatewayInit
<1>2. KeysInv
  BY DEF GatewayInit, ServiceInit, Init, Idle, KeysInv
<1>3. AttemptsInv
  BY ClientsAssumption DEF GatewayInit, AttemptsInv, ClientsAssumption
<1>4. PostsInv
  BY DEF GatewayInit, ServiceInit, PostsInv, Idle
<1>5. ToldInv /\ ShownInv
  BY DEF GatewayInit, ServiceInit, Init, ToldInv, ShownInv
<1> QED BY <1>1, <1>2, <1>3, <1>4, <1>5 DEF GatewayInv

\* Posts are counted and bounded, and never forgotten.
LEMMA NextAttempts ==
    ASSUME AttemptsInv, [GatewayNext]_gatewayVars
    PROVE  AttemptsInv' /\ \A c \in Clients : attempts[c] <= attempts'[c]
<1>1. ASSUME attempts' = attempts
      PROVE  AttemptsInv' /\ \A c \in Clients : attempts[c] <= attempts'[c]
  BY <1>1 DEF AttemptsInv
<1>2. ASSUME NEW c \in Clients, Checkout(c)
      PROVE  AttemptsInv' /\ \A d \in Clients : attempts[d] <= attempts'[d]
  <2>1. /\ attempts' = [attempts EXCEPT ![c] = attempts[c] + 1]
        /\ attempts[c] < MaxAttempts[c]
    BY <1>2 DEF Checkout
  <2>2. /\ MaxAttempts[c] \in Nat
        /\ \A d \in Clients : attempts[d] \in Nat
        /\ \A d \in Clients : attempts'[d] = IF d = c THEN attempts[c] + 1 ELSE attempts[d]
    BY <2>1, ClientsAssumption DEF AttemptsInv, ClientsAssumption
  <2>3. attempts' \in [Clients -> Nat]
    BY <2>1, <2>2 DEF AttemptsInv
  <2> QED BY <2>1, <2>2, <2>3 DEF AttemptsInv
<1>3. ASSUME NEW c \in Clients, TimeOut(c) \/ Poll(c)
      PROVE  attempts' = attempts
  BY <1>3 DEF TimeOut, Poll
<1>4. ASSUME NEW s \in Sessions, (\E r \in sent : Begin(s, r)) \/ Work(s) \/ Respond(s) \/ Cut(s)
      PROVE  attempts' = attempts
  BY <1>4 DEF Begin, Work, Respond, Cut, clientVars
<1>5. CASE Background \/ UNCHANGED gatewayVars
  BY <1>1, <1>5 DEF Background, gatewayVars, clientVars
<1> QED BY <1>1, <1>2, <1>3, <1>4, <1>5 DEF GatewayNext

\* A session works on the request it took up.
LEMMA NextPosts ==
    ASSUME GatewayInv, [GatewayNext]_gatewayVars
    PROVE  PostsInv'
<1>1. /\ \A r : IsPost(r) => IsPost(r)'
      /\ \A c \in Clients : 1..attempts[c] \subseteq 1..attempts'[c]
  BY NextAttempts, PostsStay DEF GatewayInv
<1>2. session \in [Sessions -> SessionStates] /\ DOMAIN serving = Sessions
  BY DEF GatewayInv, ServiceInv, Shapes, PostsInv
<1>3. ASSUME sent' \subseteq sent, serving' = serving, session' = session
      PROVE  PostsInv'
  BY <1>1, <1>3 DEF GatewayInv, PostsInv
<1>4. ASSUME NEW c \in Clients, Checkout(c)
      PROVE  PostsInv'
  <2>1. PICK r : r = [client |-> c, n |-> attempts[c] + 1,
                      key |-> ForwardedKey(c, attempts[c] + 1)]
    OBVIOUS
  <2>2. /\ sent' = sent \cup {r}
        /\ attempts' = [attempts EXCEPT ![c] = attempts[c] + 1]
        /\ UNCHANGED <<session, serving>>
    BY <1>4, <2>1 DEF Checkout, serviceVars
  <2>3. attempts'[c] = attempts[c] + 1 /\ attempts[c] \in Nat
    BY <2>2 DEF GatewayInv, AttemptsInv
  <2>4. IsPost(r)'
    BY <2>1, <2>3 DEF IsPost
  <2> QED BY <1>1, <2>2, <2>4 DEF GatewayInv, PostsInv
<1>5. ASSUME NEW s \in Sessions, NEW r \in sent, Begin(s, r)
      PROVE  PostsInv'
  <2>1. /\ serving' = [serving EXCEPT ![s] = r] /\ sent' \subseteq sent
        /\ \/ \E o \in DOMAIN orders :
                session' = [session EXCEPT ![s] =
                              [pc |-> "reply", key |-> r.key, order |-> o, created |-> FALSE]]
           \/ session' = [session EXCEPT ![s] =
                            [pc |-> "insert", key |-> r.key, request |-> RequestOf[r.client]]]
    BY <1>5 DEF Begin, Lookup
  <2>2. /\ session'[s].key = r.key
        /\ session'[s].pc = "insert" => session'[s].request = RequestOf[r.client]
        /\ serving'[s] = r
        /\ \A t \in Sessions \ {s} : session'[t] = session[t] /\ serving'[t] = serving[t]
        /\ DOMAIN serving' = Sessions
    BY <1>2, <2>1
  <2>3. IsPost(r)'
    BY <1>1 DEF GatewayInv, PostsInv
  <2> QED BY <1>1, <2>1, <2>2, <2>3 DEF GatewayInv, PostsInv
<1>6. ASSUME NEW s \in Sessions, Work(s)
      PROVE  PostsInv'
  <2>1. /\ UNCHANGED <<sent, serving>>
        /\ session[s].pc # "idle"
        /\ session'[s].pc # "insert"
        /\ session'[s].key = session[s].key
        /\ \A t \in Sessions \ {s} : session'[t] = session[t]
    BY <1>2, <1>6 DEF Work, Insert, Reread
  <2> QED BY <1>1, <2>1 DEF GatewayInv, PostsInv
<1>7. ASSUME NEW s \in Sessions, Respond(s) \/ Cut(s)
      PROVE  PostsInv'
  <2>1. /\ sent' = sent
        /\ serving' = [serving EXCEPT ![s] = None]
        /\ session' = [session EXCEPT ![s] = Idle]
    BY <1>7 DEF Respond, Reply, Cut, CrashSession
  <2>2. /\ session'[s].pc = "idle"
        /\ \A t \in Sessions \ {s} : session'[t] = session[t] /\ serving'[t] = serving[t]
        /\ DOMAIN serving' = Sessions
    BY <1>2, <2>1 DEF Idle
  <2> QED BY <1>1, <2>1, <2>2 DEF GatewayInv, PostsInv
<1>8. ASSUME NEW c \in Clients, TimeOut(c) \/ Poll(c)
      PROVE  sent' = sent /\ UNCHANGED <<serving, session>>
  BY <1>8 DEF TimeOut, Poll, serviceVars
<1>9. ASSUME Background
      PROVE  sent' = sent /\ UNCHANGED <<serving, session>>
  BY <1>9 DEF Background, InventoryAnswers, PaymentAnswers, Receive, Consume, Load, Commit,
              RejectedByKey, CrashConsumer
<1>10. CASE UNCHANGED gatewayVars
  BY <1>3, <1>10 DEF gatewayVars, serviceVars
<1> QED BY <1>3, <1>4, <1>5, <1>6, <1>7, <1>8, <1>9, <1>10 DEF GatewayNext

\* A client is told the order of a session that served one of its posts, while it was
\* waiting for that post.
LEMMA NextTold ==
    ASSUME GatewayInv, [GatewayNext]_gatewayVars
    PROVE  ToldInv'
<1>1. /\ \A key, request : AskedFor(key, request) => AskedFor(key, request)'
      /\ \A c \in Clients : 1..attempts[c] \subseteq 1..attempts'[c]
  BY NextAttempts, PostsStay DEF GatewayInv
<1>2. /\ \A o \in DOMAIN orders : /\ o \in DOMAIN orders'
                                  /\ orders'[o].key = orders[o].key
                                  /\ orders'[o].request = orders[o].request
      /\ \A o \in DOMAIN orders' \ DOMAIN orders :
            \E s \in Sessions : /\ session[s].pc = "insert"
                                /\ orders'[o].key = session[s].key
                                /\ orders'[o].request = session[s].request
  BY GatewaySteps, OrdersGrow DEF GatewayInv
<1>3. ASSUME NEW o \in DOMAIN orders'
      PROVE  AskedFor(orders[o].key, orders[o].request)'
  <2>1. CASE o \in DOMAIN orders
    <3>1. AskedFor(orders[o].key, orders[o].request)
      BY <2>1 DEF GatewayInv, ToldInv
    <3>2. AskedFor(orders[o].key, orders[o].request)'
      BY <1>1, <1>2, <2>1, <3>1 DEF AskedFor
    <3> QED BY <3>2
  <2>2. CASE o \notin DOMAIN orders
    <3>1. PICK s \in Sessions : /\ session[s].pc = "insert"
                                /\ orders'[o].key = session[s].key
                                /\ orders'[o].request = session[s].request
      BY <1>2, <2>2
    <3>2. AskedFor(session[s].key, session[s].request)
      BY <3>1 DEF GatewayInv, PostsInv, IsPost, AskedFor
    <3> QED BY <1>1, <3>1, <3>2 DEF AskedFor
  <2> QED BY <2>1, <2>2
<1>4. \A c \in Clients : told[c] # None =>
         /\ told[c] \in DOMAIN orders'
         /\ \E n \in 1..attempts'[c] : orders'[told[c]].key = ForwardedKey(c, n)
  BY <1>1, <1>2 DEF GatewayInv, ToldInv
<1>5. ASSUME told' = told, DOMAIN awaited' = Clients,
             \A c \in Clients : awaited'[c] # 0 => told[c] = None
      PROVE  ToldInv'
  BY <1>3, <1>4, <1>5 DEF GatewayInv, ToldInv
<1>6. DOMAIN awaited = Clients /\ \A c \in Clients : awaited[c] # 0 => told[c] = None
  BY DEF GatewayInv, ToldInv
<1>7. ASSUME NEW c \in Clients, Checkout(c) \/ TimeOut(c) \/ Poll(c)
      PROVE  ToldInv'
  <2>1. /\ told' = told
        /\ \/ told[c] = None /\ awaited' = [awaited EXCEPT ![c] = attempts[c] + 1]
           \/ awaited' = [awaited EXCEPT ![c] = 0]
           \/ awaited' = awaited
    BY <1>7 DEF Checkout, TimeOut, Poll
  <2>2. DOMAIN awaited' = Clients /\ \A d \in Clients : awaited'[d] # 0 => told[d] = None
    BY <1>6, <2>1
  <2> QED BY <1>5, <2>1, <2>2
<1>8. ASSUME NEW s \in Sessions, (\E r \in sent : Begin(s, r)) \/ Work(s) \/ Cut(s)
      PROVE  ToldInv'
  <2>1. /\ told' = told
        /\ awaited' = awaited \/ awaited' = [awaited EXCEPT ![serving[s].client] = 0]
    BY <1>8 DEF Begin, Work, Cut, clientVars, Answered
  <2>2. DOMAIN awaited' = Clients /\ \A d \in Clients : awaited'[d] # 0 => told[d] = None
    BY <1>6, <2>1
  <2> QED BY <1>5, <2>1, <2>2
<1>9. ASSUME NEW s \in Sessions, Respond(s)
      PROVE  ToldInv'
  <2>1. PICK r : r = serving[s]
    OBVIOUS
  <2>2. PICK o : o = session[s].order
    OBVIOUS
  <2>3. /\ session[s].pc = "reply"
        /\ awaited' = IF awaited[r.client] = r.n THEN [awaited EXCEPT ![r.client] = 0] ELSE awaited
        /\ told' = IF awaited[r.client] = r.n THEN [told EXCEPT ![r.client] = o] ELSE told
        /\ UNCHANGED orders
    BY <1>9, <2>1, <2>2 DEF Respond, Reply, Answered, vars
  <2>4. r.client \in Clients /\ r.n \in 1..attempts[r.client]
    BY <2>1, <2>3 DEF GatewayInv, PostsInv, IsPost
  <2>5. o \in DOMAIN orders /\ orders[o].key = ForwardedKey(r.client, r.n)
    BY <2>1, <2>2, <2>3 DEF GatewayInv, PostsInv, IsPost, KeysInv
  <2>6. CASE awaited[r.client] = r.n
    <3>1. /\ DOMAIN told' = Clients
          /\ told'[r.client] = o
          /\ \A d \in Clients : d # r.client => told'[d] = told[d]
      BY <2>3, <2>4, <2>6 DEF GatewayInv, ToldInv
    <3>2. \A c \in Clients : told'[c] # None =>
             /\ told'[c] \in DOMAIN orders'
             /\ \E n \in 1..attempts'[c] : orders'[told'[c]].key = ForwardedKey(c, n)
      BY <1>1, <1>4, <2>3, <2>4, <2>5, <3>1
    <3>3. /\ DOMAIN awaited' = Clients
          /\ \A d \in Clients : awaited'[d] # 0 => d # r.client /\ awaited[d] # 0
      BY <2>3, <2>4, <2>6 DEF GatewayInv, ToldInv
    <3> QED BY <1>3, <1>6, <3>1, <3>2, <3>3 DEF ToldInv
  <2>7. CASE awaited[r.client] # r.n
    BY <1>5, <1>6, <2>3, <2>7
  <2> QED BY <2>6, <2>7
<1>10. CASE Background \/ UNCHANGED gatewayVars
  <2>1. told' = told /\ awaited' = awaited
    BY <1>10 DEF Background, gatewayVars, clientVars
  <2> QED BY <1>5, <1>6, <2>1
<1> QED BY <1>7, <1>8, <1>9, <1>10 DEF GatewayNext

\* A client is shown the status of the order it was told.
LEMMA NextShown ==
    ASSUME GatewayInv, [GatewayNext]_gatewayVars
    PROVE  ShownInv'
<1>1. \A c \in Clients : told[c] # None =>
         told[c] \in DOMAIN orders /\ orders[told[c]].status \in Statuses
  BY DEF GatewayInv, ToldInv, ServiceInv, Shapes, TypeOK, IsTable
<1>2. ASSUME shown' = shown, told' = told
      PROVE  ShownInv'
  BY <1>2 DEF GatewayInv, ShownInv
<1>3. ASSUME NEW c \in Clients, Poll(c)
      PROVE  ShownInv'
  BY <1>1, <1>3 DEF Poll, StillAsks, get_order, GatewayInv, ShownInv
<1>4. ASSUME NEW s \in Sessions, Respond(s)
      PROVE  ShownInv'
  <2>1. session[s].order \in Orders /\ None \notin Orders
    BY <1>4, BusySession, ClientsAssumption
    DEF Respond, Reply, GatewayInv, ServiceInv, ClientsAssumption
  <2>2. \A c \in Clients : told[c] # None => told'[c] # None
    BY <1>4, <2>1 DEF Respond, GatewayInv, ToldInv
  <2> QED BY <1>4, <2>2 DEF Respond, GatewayInv, ShownInv
<1>5. ASSUME NEW c \in Clients, Checkout(c) \/ TimeOut(c)
      PROVE  ShownInv'
  BY <1>2, <1>5 DEF Checkout, TimeOut
<1>6. ASSUME NEW s \in Sessions, (\E r \in sent : Begin(s, r)) \/ Work(s) \/ Cut(s)
      PROVE  ShownInv'
  BY <1>2, <1>6 DEF Begin, Work, Cut, clientVars
<1>7. CASE Background \/ UNCHANGED gatewayVars
  BY <1>2, <1>7 DEF Background, gatewayVars, clientVars
<1> QED BY <1>3, <1>4, <1>5, <1>6, <1>7 DEF GatewayNext

\* Every step of clients, gateway and order service keeps the invariant.
LEMMA NextGateway == GatewayInv /\ [GatewayNext]_gatewayVars => GatewayInv'
<1> SUFFICES ASSUME GatewayInv, [GatewayNext]_gatewayVars PROVE GatewayInv'
  OBVIOUS
<1>1. ServiceInv' /\ KeysInv'
  BY GatewaySteps, NextInv, NextKeys DEF GatewayInv
<1> QED BY <1>1, NextAttempts, NextPosts, NextTold, NextShown DEF GatewayInv

\* The key of an order that belongs to a client is one under which it has posted.
LEMMA ClientsKeys ==
    ASSUME GatewayInv, NEW c \in Clients, NEW o \in DOMAIN orders,
           orders[o].key \in KeysOf(c)
    PROVE  \/ KeyOf[c] # None /\ orders[o].key = KeyOf[c]
           \/ KeyOf[c] = None /\ \E n \in 1..attempts[c] : orders[o].key = FreshKey(c, n)
<1>1. PICK d \in Clients : \E m \in 1..attempts[d] : orders[o].key = ForwardedKey(d, m)
  BY DEF GatewayInv, ToldInv, AskedFor
<1> PICK m \in 1..attempts[d] : orders[o].key = ForwardedKey(d, m)
  BY <1>1
<1>2. m \in 1..MaxAttempts[d]
  BY <1>1, ClientsAssumption DEF GatewayInv, AttemptsInv, ClientsAssumption
<1>3. orders[o].key # None
  BY <1>1, <1>2, ForwardedKeys, ClientsAssumption DEF ClientsAssumption
<1>4. CASE \E n \in 1..MaxAttempts[c] : orders[o].key = FreshKey(c, n)
  <2>1. PICK n \in 1..MaxAttempts[c] : orders[o].key = FreshKey(c, n)
    BY <1>4
  <2>2. d = c /\ n = m /\ KeyOf[c] = None
    BY <1>1, <1>2, <2>1, KeysAssumption DEF KeysAssumption, ForwardedKey, FreshKey
  <2> QED BY <2>1, <2>2
<1> QED BY <1>3, <1>4 DEF KeysOf

\* A client with a key has at most one order, and one without at most one per post.
LEMMA OrdersOfClient ==
    ASSUME GatewayInv, NEW c \in Clients, NEW S,
           S = {o \in DOMAIN orders : orders[o].key \in KeysOf(c)}
    PROVE  Cardinality(S) <= IF KeyOf[c] = None THEN attempts[c] ELSE 1
<1>1. \A o, p \in S : orders[o].key = orders[p].key => o = p
  BY DEF GatewayInv, KeysInv
<1>2. CASE KeyOf[c] # None
  <2>1. \A o, p \in S : o = p
    BY <1>1, <1>2, ClientsKeys
  <2>2. CASE S = {}
    <3>1. Cardinality(S) = 0
      BY <2>2, FS_EmptySet
    <3> QED BY <1>2, <3>1
  <2>3. CASE S # {}
    <3>1. PICK o : S = {o}
      BY <2>1, <2>3
    <3>2. Cardinality(S) = 1
      BY <3>1, FS_Singleton
    <3> QED BY <1>2, <3>2
  <2> QED BY <2>2, <2>3
<1>3. CASE KeyOf[c] = None
  <2> DEFINE f == [o \in S |-> CHOOSE n \in 1..attempts[c] : orders[o].key = FreshKey(c, n)]
  <2>1. \A o \in S : f[o] \in 1..attempts[c] /\ orders[o].key = FreshKey(c, f[o])
    BY <1>3, ClientsKeys
  <2>2. f \in [S -> 1..attempts[c]]
    BY <2>1
  <2> HIDE DEF f
  <2>3. f \in Injection(S, 1..attempts[c])
    BY <1>1, <2>1, <2>2 DEF Injection, IsInjective
  <2>4. /\ attempts[c] \in Nat
        /\ IsFiniteSet(1..attempts[c]) /\ Cardinality(1..attempts[c]) = attempts[c]
    BY FS_Interval DEF GatewayInv, AttemptsInv
  <2>5. Cardinality(S) <= attempts[c]
    BY <2>3, <2>4, FS_Injection
  <2> QED BY <1>3, <2>5
<1> QED BY <1>2, <1>3

\* However often the gateway gives up, the order service is cut off and clients post
\* again, a checkout under a key makes one order, and nothing is ordered that nobody
\* asked for.
THEOREM CheckoutMakesOneOrder == GatewaySpec => []OneOrderPerCheckout
<1>1. GatewayInv => OneOrderPerCheckout
  <2> SUFFICES ASSUME GatewayInv PROVE OneOrderPerCheckout
    OBVIOUS
  <2> DEFINE OrdersOf(c) == {o \in DOMAIN orders : orders[o].key \in KeysOf(c)}
  <2>1. \A c \in Clients : Cardinality(OrdersOf(c)) <= IF KeyOf[c] = None THEN attempts[c] ELSE 1
    BY OrdersOfClient
  <2>2. ASSUME NEW o \in DOMAIN orders
        PROVE  \E c \in Clients : o \in OrdersOf(c)
    <3>1. PICK c \in Clients : \E n \in 1..attempts[c] : orders[o].key = ForwardedKey(c, n)
      BY DEF GatewayInv, ToldInv, AskedFor
    <3> PICK n \in 1..attempts[c] : orders[o].key = ForwardedKey(c, n)
      BY <3>1
    <3>2. n \in 1..MaxAttempts[c]
      BY <3>1, ClientsAssumption DEF GatewayInv, AttemptsInv, ClientsAssumption
    <3> QED BY <3>1, <3>2 DEF ForwardedKey, KeysOf
  <2>3. DOMAIN orders = UNION {OrdersOf(c) : c \in Clients}
    BY <2>2
  <2> QED BY <2>1, <2>3 DEF OneOrderPerCheckout
<1> QED BY InitGateway, NextGateway, <1>1, PTL DEF GatewaySpec

\* The order a client is told exists and holds what it asked for, or a client that has
\* posted under the same key, and clients with one key are told one order.
THEOREM ToldWhatWasAsked == GatewaySpec => []ToldOrderWasAskedFor
<1>1. ASSUME GatewayInv, NEW c \in Clients, told[c] # None
      PROVE  /\ told[c] \in DOMAIN orders
             /\ orders[told[c]].request \in {RequestOf[d] : d \in {e \in Sharing(c) : attempts[e] > 0}}
             /\ \A d \in Sharing(c) : told[d] \in {None, told[c]}
  <2> USE <1>1 DEF GatewayInv
  <2>1. PICK n \in 1..attempts[c] : /\ told[c] \in DOMAIN orders
                                    /\ orders[told[c]].key = ForwardedKey(c, n)
    BY DEF ToldInv
  <2>2. PICK d \in Clients :
            /\ \E m \in 1..attempts[d] : orders[told[c]].key = ForwardedKey(d, m)
            /\ orders[told[c]].request = RequestOf[d]
    BY <2>1 DEF ToldInv, AskedFor
  <2> PICK m \in 1..attempts[d] : orders[told[c]].key = ForwardedKey(d, m)
    BY <2>2
  <2>3. n \in 1..MaxAttempts[c] /\ m \in 1..MaxAttempts[d]
    BY <2>1, <2>2, ClientsAssumption DEF AttemptsInv, ClientsAssumption
  <2>4. d \in Sharing(c) /\ attempts[d] > 0
    <3>1. d \in Sharing(c)
      BY <2>1, <2>2, <2>3, SameKey
    <3>2. attempts[d] \in Nat
      BY DEF AttemptsInv
    <3> QED BY <3>1, <3>2
  <2>5. ASSUME NEW e \in Sharing(c), told[e] # None
        PROVE  told[e] = told[c]
    <3>1. CASE e # c
      <4>1. KeyOf[c] # None /\ KeyOf[e] = KeyOf[c] /\ e \in Clients
        BY <3>1 DEF Sharing
      <4>2. told[e] \in DOMAIN orders /\ orders[told[e]].key = KeyOf[e]
        BY <2>5, <4>1 DEF ToldInv, ForwardedKey
      <4>3. orders[told[c]].key = KeyOf[c]
        BY <2>1, <4>1 DEF ForwardedKey
      <4> QED BY <2>1, <4>1, <4>2, <4>3 DEF KeysInv
    <3> QED BY <3>1
  <2> QED BY <2>1, <2>2, <2>4, <2>5
<1>2. GatewayInv => ToldOrderWasAskedFor
  BY <1>1 DEF ToldOrderWasAskedFor
<1> QED BY InitGateway, NextGateway, <1>2, PTL DEF GatewaySpec

\* A client whose key nobody else sends with another body, as every client without a
\* key of its own, is told an order with its own request.
OwnRequest ==
    \A c \in Clients :
        /\ told[c] # None
        /\ \A d \in Sharing(c) : RequestOf[d] = RequestOf[c]
      => told[c] \in DOMAIN orders /\ orders[told[c]].request = RequestOf[c]

\* A key of one's own is answered with one's own order.
THEOREM ToldOwnRequest == GatewaySpec => []OwnRequest
<1>1. ToldOrderWasAskedFor => OwnRequest
  BY DEF ToldOrderWasAskedFor, OwnRequest
<1> QED BY <1>1, ToldWhatWasAsked, PTL

--------------------------------------------------------------------------------
(* The gateway before a service with one consumer *)

\* A terminal status a client was shown is the status of the order it was told.
OutcomesInv ==
    \A c \in Clients : shown[c] \in TERMINAL_STATUSES => orders[told[c]].status = shown[c]

\* With one consumer an outcome that was shown stays the truth: no step changes a
\* terminal status, and a client that was shown one is told no other order.
LEMMA NextOutcomes ==
    ASSUME \A c, d \in Consumers : c = d,
           GatewayInv, CopyIsFresh, OutcomesInv, [GatewayNext]_gatewayVars
    PROVE  OutcomesInv'
<1>1. [Monotonic]_vars
  BY GatewaySteps, NextFresh, NextMonotonic DEF GatewayInv, ServiceInv, Shapes
<1>2. None \notin TERMINAL_STATUSES /\ "404" \notin TERMINAL_STATUSES
  BY ClientsAssumption DEF ClientsAssumption, Statuses, TERMINAL_STATUSES
<1>3. \A c \in Clients : shown[c] \in TERMINAL_STATUSES =>
          /\ told[c] # None /\ told[c] \in DOMAIN orders
          /\ orders'[told[c]].status = shown[c]
  BY <1>1, <1>2 DEF OutcomesInv, GatewayInv, ShownInv, ToldInv, Monotonic, vars
<1>4. ASSUME shown' = shown, told' = told
      PROVE  OutcomesInv'
  BY <1>3, <1>4 DEF OutcomesInv
<1>5. ASSUME NEW c \in Clients, Poll(c)
      PROVE  OutcomesInv'
  <2>1. /\ told' = told /\ orders' = orders
        /\ shown' = [shown EXCEPT ![c] = get_order(told[c])]
    BY <1>5 DEF Poll, serviceVars, vars
  <2>2. get_order(told[c]) \in TERMINAL_STATUSES => get_order(told[c]) = orders[told[c]].status
    BY <1>2 DEF get_order
  <2>3. DOMAIN shown = Clients
    BY DEF GatewayInv, ShownInv
  <2> QED BY <2>1, <2>2, <2>3 DEF OutcomesInv
<1>6. ASSUME NEW s \in Sessions, Respond(s)
      PROVE  OutcomesInv'
  <2>1. PICK r : r = serving[s]
    OBVIOUS
  <2>2. session[s].pc = "reply" /\ shown' = shown
    BY <1>6 DEF Respond, Reply
  <2>3. r.client \in Clients /\ r.n # 0
    BY <2>1, <2>2 DEF GatewayInv, PostsInv, IsPost
  <2>4. \A c \in Clients : shown[c] \in TERMINAL_STATUSES => told'[c] = told[c]
    <3>1. CASE awaited[r.client] = r.n
      <4>1. shown[r.client] \notin TERMINAL_STATUSES
        BY <1>3, <2>3, <3>1 DEF GatewayInv, ToldInv
      <4>2. told' = [told EXCEPT ![r.client] = session[s].order]
        BY <1>6, <2>1, <3>1 DEF Respond
      <4> QED BY <4>1, <4>2
    <3>2. CASE awaited[r.client] # r.n
      BY <1>6, <2>1, <3>2 DEF Respond
    <3> QED BY <3>1, <3>2
  <2> QED BY <1>3, <2>2, <2>4 DEF OutcomesInv
<1>7. ASSUME NEW c \in Clients, Checkout(c) \/ TimeOut(c)
      PROVE  OutcomesInv'
  BY <1>4, <1>7 DEF Checkout, TimeOut
<1>8. ASSUME NEW s \in Sessions, (\E r \in sent : Begin(s, r)) \/ Work(s) \/ Cut(s)
      PROVE  OutcomesInv'
  BY <1>4, <1>8 DEF Begin, Work, Cut, clientVars
<1>9. CASE Background \/ UNCHANGED gatewayVars
  BY <1>4, <1>9 DEF Background, gatewayVars, clientVars
<1> QED BY <1>5, <1>6, <1>7, <1>8, <1>9 DEF GatewayNext

\* With one consumer thread in the order service, a client that stopped asking knows
\* the outcome: the order has it for good and has announced it, and no order a client
\* was told is unknown.
THEOREM OutcomeShownIsFinal ==
    ASSUME \A c, d \in Consumers : c = d
    PROVE  GatewaySpec => []ShownOutcomeStays
<1>1. GatewayInit => CopyIsFresh /\ AnnouncedMatchesStatus /\ OutcomesInv
  <2>1. GatewayInit => CopyIsFresh /\ AnnouncedMatchesStatus
    BY InitAnnounced DEF GatewayInit, ServiceInit, CopyIsFresh, Idle
  <2>2. GatewayInit => OutcomesInv
    BY ClientsAssumption
    DEF GatewayInit, OutcomesInv, ClientsAssumption, Statuses
  <2> QED BY <2>1, <2>2
<1>2. GatewayInv /\ CopyIsFresh /\ [GatewayNext]_gatewayVars => CopyIsFresh' /\ [Next]_vars
  BY GatewaySteps, NextFresh DEF GatewayInv
<1>3. GatewayInv /\ CopyIsFresh /\ AnnouncedMatchesStatus /\ [GatewayNext]_gatewayVars
        => AnnouncedMatchesStatus'
  BY <1>2, NextAnnounced DEF GatewayInv, ServiceInv, Shapes
<1>4. GatewayInv /\ CopyIsFresh /\ OutcomesInv /\ [GatewayNext]_gatewayVars => OutcomesInv'
  BY NextOutcomes
<1>5. GatewayInv /\ AnnouncedMatchesStatus /\ OutcomesInv => ShownOutcomeStays
  <2>1. "404" \notin Statuses /\ None # "404" /\ None \notin TERMINAL_STATUSES
    BY ClientsAssumption DEF ClientsAssumption, Statuses, TERMINAL_STATUSES
  <2> QED BY <2>1 DEF GatewayInv, ShownInv, ToldInv, AnnouncedMatchesStatus, OutcomesInv,
                      ShownOutcomeStays
<1> QED BY InitGateway, NextGateway, <1>1, <1>2, <1>3, <1>4, <1>5, PTL DEF GatewaySpec

================================================================================
