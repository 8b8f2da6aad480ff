------------------------- MODULE PaymentServiceProofs --------------------------
(*****************************************************************************)
(* Proofs about PaymentLedger and PaymentService, for any orders, customers, *)
(* events, number of consumers and crashes: first what the atomic handlers   *)
(* of the ledger promise, then that the handlers of the service, which lock  *)
(* nothing, have only their effects, so that it holds for the service too.   *)
(*****************************************************************************)
EXTENDS PaymentService, FiniteSetTheorems, TLAPS

\* What the payment of an event writes: one row with a status, and the event that
\* tells this status.
LEMMA PayEffect ==
    ASSUME NEW e \in Inbound, Pay(e)
    PROVE  \E r, row :
              /\ row \in [customer : Customers, amount : Int, status : {"SUCCEEDED", "FAILED"}]
              /\ e.order \notin DOMAIN payments
              /\ payments' = Put(payments, e.order, row)
              /\ outbox' = outbox \cup {r}
              /\ r.type = OutcomeOf(row.status)
              /\ r.order = e.order
              /\ (\A x \in outbox : x.order # e.order) => r.n = 1
<1> DEFINE r == NewEvent(outbox, Outcome(e.payload), e.order, e.payload)
           row == [customer |-> e.payload.customer, amount |-> e.payload.amount,
                   status |-> Status(e.payload)]
<1>1. row \in [customer : Customers, amount : Int, status : {"SUCCEEDED", "FAILED"}]
  BY ReservedAssumption DEF ReservedAssumption, Status
<1>2. Outcome(e.payload) = OutcomeOf(row.status)
  BY DEF Outcome, OutcomeOf, Status
<1>3. /\ r.type = OutcomeOf(row.status)
      /\ r.order = e.order
      /\ (\A x \in outbox : x.order # e.order) => r.n = 1
  <2>1. ASSUME \A x \in outbox : x.order # e.order
        PROVE  r.n = 1
    <3>1. {x \in outbox : x.type = Outcome(e.payload) /\ x.order = e.order} = {}
      BY <2>1
    <3> QED BY <3>1, FS_EmptySet DEF NewEvent
  <2> QED BY <1>2, <2>1 DEF NewEvent
<1>4. /\ e.order \notin DOMAIN payments
      /\ payments' = Put(payments, e.order, row)
      /\ outbox' = outbox \cup {r}
  BY DEF Pay
<1> HIDE DEF r, row
<1> QED BY <1>1, <1>3, <1>4

--------------------------------------------------------------------------------
(* Type correctness *)

\* The empty database has the shape of TypeOK.
LEMMA InitTypeOK == Init => TypeOK
  BY DEF Init, TypeOK, IsTable

\* Handling an event keeps the shapes of the tables.
LEMMA NextTypeOK == TypeOK /\ [Next]_vars => TypeOK'
<1> SUFFICES ASSUME TypeOK, [Next]_vars
             PROVE  TypeOK'
  OBVIOUS
<1>1. ASSUME NEW e \in Inbound, HandleReserved(e)
      PROVE  TypeOK'
  <2>1. e.order \in Orders
    BY ReservedAssumption DEF ReservedAssumption
  <2>2. processed' \subseteq {Id(x) : x \in Inbound}
    BY <1>1 DEF HandleReserved, TypeOK
  <2>3. CASE AlreadyPaid(e)
    BY <2>2, <2>3 DEF AlreadyPaid, TypeOK
  <2>4. CASE Pay(e)
    <3>1. PICK r, row :
             /\ row \in [customer : Customers, amount : Int, status : {"SUCCEEDED", "FAILED"}]
             /\ payments' = Put(payments, e.order, row)
             /\ outbox' = outbox \cup {r}
             /\ r.type = OutcomeOf(row.status)
             /\ r.order = e.order
      BY <2>4, PayEffect
    <3>2. IsTable(payments', Orders,
                  [customer : Customers, amount : Int, status : {"SUCCEEDED", "FAILED"}])
      BY <2>1, <3>1 DEF TypeOK, IsTable, Put
    <3>3. \A x \in outbox' : x.type \in PaymentOutcomes /\ x.order \in Orders
      BY <2>1, <3>1 DEF TypeOK, OutcomeOf, PaymentOutcomes
    <3> QED BY <2>2, <3>2, <3>3 DEF TypeOK
  <2> QED BY <1>1, <2>3, <2>4 DEF HandleReserved
<1>2. CASE UNCHANGED vars
  BY <1>2 DEF vars, TypeOK
<1> QED BY <1>1, <1>2 DEF Next

\* The tables of the payment service keep their shape in every behaviour.
THEOREM TypeCorrect == Spec => []TypeOK
<1> QED BY InitTypeOK, NextTypeOK, PTL DEF Spec

--------------------------------------------------------------------------------
(* Outcomes *)

\* Before the first payment nobody has been told anything.
LEMMA InitOutcome == Init => OneOutcomePerPayment
  BY DEF Init, OneOutcomePerPayment, Told

\* A first payment tells its order the outcome of its row, and the other orders
\* nothing; a repeated event tells nobody anything.
LEMMA NextOutcome == OneOutcomePerPayment /\ [Next]_vars => OneOutcomePerPayment'
<1> SUFFICES ASSUME OneOutcomePerPayment, [Next]_vars
             PROVE  OneOutcomePerPayment'
  OBVIOUS
<1>1. ASSUME NEW e \in Inbound, HandleReserved(e)
      PROVE  OneOutcomePerPayment'
  <2>1. e.order \in Orders
    BY ReservedAssumption DEF ReservedAssumption
  <2>2. CASE AlreadyPaid(e)
    BY <2>2 DEF AlreadyPaid, OneOutcomePerPayment, Told
  <2>3. CASE Pay(e)
    <3>1. PICK r, row :
             /\ e.order \notin DOMAIN payments
             /\ payments' = Put(payments, e.order, row)
             /\ outbox' = outbox \cup {r}
             /\ r.type = OutcomeOf(row.status)
             /\ r.order = e.order
             /\ (\A x \in outbox : x.order # e.order) => r.n = 1
      BY <2>3, PayEffect
    <3>2. Told(e.order) = {}
      BY <2>1, <3>1 DEF OneOutcomePerPayment
    <3>3. \A x \in outbox : x.order # e.order
      BY <3>2 DEF Told
    <3>4. /\ DOMAIN payments' = DOMAIN payments \cup {e.order}
          /\ payments'[e.order] = row
          /\ \A o \in DOMAIN payments : payments'[o] = payments[o]
      BY <3>1 DEF Put
    <3>5. Told(e.order)' = {<<OutcomeOf(row.status), 1>>}
      BY <3>1, <3>3 DEF Told
    <3>6. ASSUME NEW o \in Orders, o # e.order
          PROVE  Told(o)' = Told(o)
      BY <3>1, <3>6 DEF Told
    <3> QED BY <2>1, <3>4, <3>5, <3>6 DEF OneOutcomePerPayment
  <2> QED BY <1>1, <2>2, <2>3 DEF HandleReserved
<1>2. CASE UNCHANGED vars
  BY <1>2 DEF vars, OneOutcomePerPayment, Told
<1> QED BY <1>1, <1>2 DEF Next

\* However often and under however many event ids a reservation is announced, its
\* order is told one outcome, once, and it is the one in the payments table.
THEOREM OutcomesCorrect == Spec => []OneOutcomePerPayment
<1> QED BY InitOutcome, NextOutcome, PTL DEF Spec

--------------------------------------------------------------------------------
(* Steps *)

\* No handler changes or deletes a payment.
THEOREM PaymentsFinal == Spec => PaymentsAreFinal
<1>1. [Next]_vars => [KeepPayments]_vars
  <2> SUFFICES ASSUME [Next]_vars
               PROVE  [KeepPayments]_vars
    OBVIOUS
  <2>1. ASSUME NEW e \in Inbound, HandleReserved(e)
        PROVE  KeepPayments
    BY <2>1 DEF HandleReserved, AlreadyPaid, Pay, Put, KeepPayments
  <2> QED BY <2>1 DEF Next
<1> QED BY <1>1, PTL DEF Spec, PaymentsAreFinal

--------------------------------------------------------------------------------
(* The service *)

\* The handler calls there can be.
Jobs == {Idle} \cup [pc : {"find", "pay", "mark"}, event : Inbound]

\* What the refinement needs to know of the threads: each handles an event of its
\* queue, and one that found a payment can rely on it.
ThreadsOK ==
    /\ job \in [Consumers -> Jobs]
    /\ crashes \in 0..MaxCrashes
    /\ \A c \in Consumers : job[c].pc = "mark" => job[c].event.order \in DOMAIN payments

--------------------------------------------------------------------------------
(* The threads *)

\* No thread is busy at the start.
LEMMA InitThreads == ServiceInit => ThreadsOK
  BY MaxCrashesAssumption DEF ServiceInit, ThreadsOK, Jobs, Idle, MaxCrashesAssumption

\* A thread that is not idle handles an event of the queue.
LEMMA BusyJob ==
    ASSUME ThreadsOK, NEW c \in Consumers, job[c].pc # "idle"
    PROVE  /\ job[c] \in [pc : {"find", "pay", "mark"}, event : Inbound]
           /\ job[c].event \in Inbound
  BY DEF ThreadsOK, Jobs, Idle

\* Payments are added, never removed, and a thread goes to "mark" only if it finds
\* the payment of its order.
LEMMA NextThreads == ThreadsOK /\ [ServiceNext]_serviceVars => ThreadsOK'
<1> SUFFICES ASSUME ThreadsOK, [ServiceNext]_serviceVars
             PROVE  ThreadsOK'
  OBVIOUS
<1> USE DEF ThreadsOK
<1>1. ASSUME NEW c \in Consumers, NEW e \in Inbound, Receive(c, e)
      PROVE  ThreadsOK'
  BY <1>1 DEF Receive, Jobs, vars
<1>2. ASSUME NEW c \in Consumers, FindPayment(c)
      PROVE  ThreadsOK'
  <2>1. job[c] \in [pc : {"find", "pay", "mark"}, event : Inbound]
    BY <1>2, BusyJob DEF FindPayment
  <2>2. /\ job' \in [Consumers -> Jobs]
        /\ job'[c].event = job[c].event
        /\ job'[c].pc = "mark" => job[c].event.order \in DOMAIN payments
        /\ \A d \in Consumers \ {c} : job'[d] = job[d]
    BY <1>2, <2>1 DEF FindPayment, Jobs
  <2> QED BY <1>2, <2>2 DEF FindPayment, vars
<1>3. ASSUME NEW c \in Consumers, job' = [job EXCEPT ![c] = Idle],
             DOMAIN payments \subseteq DOMAIN payments', crashes' \in 0..MaxCrashes
      PROVE  ThreadsOK'
  BY <1>3 DEF Jobs, Idle
<1>4. ASSUME NEW c \in Consumers, CommitPayment(c)
      PROVE  ThreadsOK'
  <2>1. DOMAIN payments \subseteq DOMAIN payments'
    BY <1>4 DEF CommitPayment, Put
  <2> QED BY <1>3, <1>4, <2>1 DEF CommitPayment
<1>5. ASSUME NEW c \in Consumers, MarkProcessed(c) \/ RejectedByKey(c)
      PROVE  ThreadsOK'
  BY <1>3, <1>5 DEF MarkProcessed, RejectedByKey, vars
<1>6. ASSUME NEW c \in Consumers, Crash(c)
      PROVE  ThreadsOK'
  <2>1. crashes' \in 0..MaxCrashes
    BY <1>6, MaxCrashesAssumption DEF Crash, MaxCrashesAssumption
  <2> QED BY <1>3, <1>6, <2>1 DEF Crash, vars
<1>7. CASE UNCHANGED serviceVars
  BY <1>7 DEF serviceVars, vars
<1> QED BY <1>1, <1>2, <1>4, <1>5, <1>6, <1>7 DEF ServiceNext

--------------------------------------------------------------------------------
(* The refinement *)

\* Each step of a thread is a step of the ledger or leaves its tables alone: the
\* two commits are HandleReserved, the primary keys being its guards.
LEMMA StepRefines == ThreadsOK /\ [ServiceNext]_serviceVars => [Next]_vars
<1> SUFFICES ASSUME ThreadsOK, [ServiceNext]_serviceVars
             PROVE  [Next]_vars
  OBVIOUS
<1>1. ASSUME NEW c \in Consumers, CommitPayment(c)
      PROVE  Next
  <2>1. job[c].event \in Inbound
    BY <1>1, BusyJob DEF CommitPayment
  <2>2. HandleReserved(job[c].event)
    BY <1>1 DEF CommitPayment, Conflict, HandleReserved, Pay
  <2> QED BY <2>1, <2>2 DEF Next
<1>2. ASSUME NEW c \in Consumers, MarkProcessed(c)
      PROVE  Next
  <2>1. job[c].event \in Inbound
    BY <1>2, BusyJob DEF MarkProcessed
  <2>2. HandleReserved(job[c].event)
    BY <1>2 DEF MarkProcessed, Conflict, HandleReserved, AlreadyPaid, ThreadsOK
  <2> QED BY <2>1, <2>2 DEF Next
<1>3. ASSUME NEW c \in Consumers,
             \/ \E e \in Inbound : Receive(c, e)
             \/ FindPayment(c) \/ RejectedByKey(c) \/ Crash(c)
      PROVE  UNCHANGED vars
  BY <1>3 DEF Receive, FindPayment, RejectedByKey, Crash
<1>4. CASE UNCHANGED serviceVars
  BY <1>4 DEF serviceVars
<1> QED BY <1>1, <1>2, <1>3, <1>4 DEF ServiceNext

\* However many replicas handle the events of an order during the same provider
\* delay, and however often they are cut off, the payment service does only what
\* one atomic handler after the other could have done.
THEOREM ServiceImplementsLedger == ServiceSpec => ImplementsLedger
<1>1. ServiceInit => Init
  BY DEF ServiceInit
<1>2. ServiceSpec => []ThreadsOK
  BY InitThreads, NextThreads, PTL DEF ServiceSpec
<1> QED BY <1>1, <1>2, StepRefines, PTL DEF ServiceSpec, Spec, ImplementsLedger

\* The tables and the threads keep their shape.
THEOREM ServiceTypeCorrect == ServiceSpec => []ServiceTypeOK
<1>1. ServiceSpec => []ThreadsOK
  BY InitThreads, NextThreads, PTL DEF ServiceSpec
<1>2. ServiceSpec => []TypeOK
  BY ServiceImplementsLedger, TypeCorrect, PTL DEF ImplementsLedger
<1>3. ThreadsOK /\ TypeOK => ServiceTypeOK
  BY DEF ThreadsOK, ServiceTypeOK, Jobs, Idle
<1> QED BY <1>1, <1>2, <1>3, PTL

\* Any number of consumers tell an order one outcome, once, that of its payment.
THEOREM ServiceOutcomesCorrect == ServiceSpec => []OneOutcomePerPayment
<1> QED BY ServiceImplementsLedger, OutcomesCorrect, PTL DEF ImplementsLedger

\* No interleaving of handlers changes or deletes a payment.
THEOREM ServicePaymentsFinal == ServiceSpec => PaymentsAreFinal
<1> QED BY ServiceImplementsLedger, PaymentsFinal, PTL DEF ImplementsLedger

================================================================================
