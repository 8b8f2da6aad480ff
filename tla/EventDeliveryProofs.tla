-------------------------- MODULE EventDeliveryProofs --------------------------
(*****************************************************************************)
(* Proofs about EventDelivery, for any events, outbox threads, consumers,    *)
(* batch size, retry limit and number of failures.                           *)
(*****************************************************************************)
EXTENDS EventDelivery, FiniteSetTheorems, WellFoundedInduction, TLAPS

Messages == [event : Ranks, place : {"queue", "retry"} \cup Consumers,
             rejected : Nat, expired : Nat, failures : Nat]

Batches == [rows : SUBSET Ranks, sent : SUBSET Ranks]

ConsumerStates ==
    {Down, Ready} \cup [pc : {"handle", "ack", "failed"}, tag : Nat, event : Ranks, seen : BOOLEAN]

\* The shapes of everything.
Types ==
    /\ IsTable(outbox, Ranks, {"unpublished", "published"})
    /\ relay \in [Publishers -> Batches]
    /\ declared \in BOOLEAN
    /\ IsTable(messages, Nat, Messages) /\ IsFiniteSet(DOMAIN messages)
    /\ dlq \subseteq [event : Ranks, failures : Nat]
    /\ consumer \in [Consumers -> ConsumerStates]
    /\ processed \subseteq Ranks
    /\ effects \in [Ranks -> Nat] /\ copies \in [Ranks -> Nat]
    /\ faults \in Nat

Busy(c) == consumer[c].pc \in {"handle", "ack", "failed"}

DeadLettered(e) == \E d \in dlq : d.event = e

\* A batch is locked: its rows are unpublished and no other thread has them.
BatchesInv ==
    /\ \A p \in Publishers :
           /\ relay[p].sent \subseteq relay[p].rows
           /\ \A e \in relay[p].rows : e \in DOMAIN outbox /\ outbox[e] = "unpublished"
    /\ \A p, q \in Publishers : p # q => relay[p].rows \cap relay[q].rows = {}

\* The row of e is marked, or its batch has sent it.
Out(e) ==
    \/ e \in DOMAIN outbox /\ outbox[e] = "published"
    \/ \E p \in Publishers : e \in relay[p].sent

\* Every copy of a row that is not out was paid for with a fault.
CopiesInv ==
    \A e \in Ranks : copies[e] <= faults + 1 /\ (~Out(e) => copies[e] <= faults)

\* Copies, dead letters and handlers are about committed events, and a message that
\* the broker counts as delivered to a consumer is the one that consumer works on.
DeliveredInv ==
    /\ \A m \in DOMAIN messages : messages[m].event \in DOMAIN outbox
    /\ \A d \in dlq : d.event \in DOMAIN outbox
    /\ \A c \in Consumers : Busy(c) => consumer[c].event \in DOMAIN outbox
    /\ \A m \in DOMAIN messages, c \in Consumers : messages[m].place = c =>
           Busy(c) /\ consumer[c].tag = m /\ consumer[c].event = messages[m].event

\* An effect is a ProcessedEvent, and what is acknowledged is one or is parked.
EffectsInv ==
    /\ \A e \in Ranks : effects[e] = IF e \in processed THEN 1 ELSE 0
    /\ \A c \in Consumers :
           /\ consumer[c].pc = "handle" /\ consumer[c].seen => consumer[c].event \in processed
           /\ consumer[c].pc = "ack" =>
                consumer[c].event \in processed \/ DeadLettered(consumer[c].event)

\* The handler of the message has come to its end.
Decided(m) == \E c \in Consumers :
                 messages[m].place = c /\ consumer[c].pc \in {"ack", "failed"}

\* A message is rejected once per failure, but for the failures that a fault kept
\* from the broker and one that is just being dealt with.
BudgetInv ==
    /\ \A d \in dlq : d.failures > MaxRetries
    /\ \A m \in DOMAIN messages :
           /\ messages[m].rejected <= MaxRetries
           /\ messages[m].rejected <= messages[m].failures
           /\ messages[m].failures <= messages[m].rejected + 1 + faults
           /\ ~Decided(m) => messages[m].failures <= messages[m].rejected + faults
           /\ \A c \in Consumers : messages[m].place = c /\ consumer[c].pc = "failed" =>
                  messages[m].rejected < messages[m].failures

DeliveryInv == Types /\ BatchesInv /\ CopiesInv /\ DeliveredInv /\ EffectsInv /\ BudgetInv

\* What is out has taken effect, is at the broker, or is dead-lettered.
KeptInv ==
    /\ declared
    /\ \A e \in Ranks : Out(e) =>
           \/ e \in processed
           \/ \E m \in DOMAIN messages : messages[m].event = e
           \/ DeadLettered(e)

--------------------------------------------------------------------------------
(* Choices *)

\* A set of numbers that is not empty has a least one.
LEMMA LeastNumber ==
    ASSUME NEW S \in SUBSET Nat, S # {}
    PROVE  Min(S) \in S
<1> DEFINE Below == {0..n : n \in S}
<1>1. Below \subseteq FiniteSubsetsOf(Nat) /\ Below # {}
  <2>1. ASSUME NEW n \in S
        PROVE  0..n \in FiniteSubsetsOf(Nat)
    <3>1. n \in Int /\ 0..n \subseteq Nat
      OBVIOUS
    <3> QED BY <3>1, FS_Interval DEF FiniteSubsetsOf
  <2> QED BY <2>1
<1>2. PICK A \in Below : \A B \in Below : ~(<<B, A>> \in StrictSubsetOrdering(Nat))
  BY <1>1, WFMin, FS_StrictSubsetOrderingWellFounded
<1>3. PICK x \in S : A = 0..x
  OBVIOUS
<1>4. ASSUME NEW y \in S, y < x
      PROVE  FALSE
  <2>1. 0..y \subseteq 0..x /\ x \notin 0..y /\ x \in 0..x
    BY <1>4
  <2>2. <<0..y, 0..x>> \in StrictSubsetOrdering(Nat)
    BY <2>1 DEF StrictSubsetOrdering
  <2> QED BY <1>2, <1>3, <2>2
<1>5. \A y \in S : x <= y
  BY <1>4
<1> QED BY <1>5 DEF Min

\* The tag of a new message is a number that no message has.
LEMMA FreeTagIsFree ==
    ASSUME IsFiniteSet(DOMAIN messages)
    PROVE  FreeTag \in Nat /\ FreeTag \notin DOMAIN messages
<1> DEFINE n == Cardinality(DOMAIN messages)
           free == (1..n + 1) \ DOMAIN messages
<1>1. n \in Nat
  BY FS_CardinalityType
<1>2. Cardinality(1..n + 1) = n + 1
  BY <1>1, FS_Interval
<1>3. free # {}
  <2>1. SUFFICES ASSUME 1..n + 1 \subseteq DOMAIN messages PROVE FALSE
    OBVIOUS
  <2>2. Cardinality(1..n + 1) <= n
    BY <2>1, FS_Subset
  <2> QED BY <1>1, <1>2, <2>2
<1>4. free \in SUBSET Nat
  BY <1>1
<1> HIDE DEF free
<1>5. Min(free) \in free
  BY <1>3, <1>4, LeastNumber
<1> QED BY <1>4, <1>5 DEF FreeTag, free

\* The next row of a batch is one that has not been sent.
LEMMA NextRow ==
    ASSUME NEW p \in Publishers, Unsent(p) # {}, Unsent(p) \subseteq Ranks
    PROVE  Min(Unsent(p)) \in Unsent(p)
<1>1. Unsent(p) \in SUBSET Nat
  BY RanksAssumption DEF RanksAssumption
<1> QED BY <1>1, LeastNumber

--------------------------------------------------------------------------------
(* Messages and consumers *)

\* A consumer that is busy has a message and an event.
LEMMA BusyConsumer ==
    ASSUME Types, NEW c \in Consumers
    PROVE  /\ consumer[c].pc \in {"down", "ready", "handle", "ack", "failed"}
           /\ consumer[c] = Ready => consumer[c].pc = "ready"
           /\ Busy(c) => /\ consumer[c].tag \in Nat /\ consumer[c].event \in Ranks
                         /\ consumer[c].seen \in BOOLEAN
  BY DEF Types, ConsumerStates, Busy, Down, Ready

\* The broker accepts a copy: as a message of its own, if the queue is there.
LEMMA Accepted ==
    ASSUME Types, NEW e \in Ranks, Accept(e)
    PROVE  /\ IsTable(messages', Nat, Messages) /\ IsFiniteSet(DOMAIN messages')
           /\ \A m \in DOMAIN messages : m \in DOMAIN messages' /\ messages'[m] = messages[m]
           /\ \A m \in DOMAIN messages' : m \in DOMAIN messages \/ messages'[m] = NewMessage(e)
           /\ declared => \E m \in DOMAIN messages' : messages'[m] = NewMessage(e)
           /\ copies' \in [Ranks -> Nat]
           /\ copies'[e] = copies[e] + 1
           /\ \A f \in Ranks : f # e => copies'[f] = copies[f]
<1>1. FreeTag \in Nat /\ FreeTag \notin DOMAIN messages
  BY FreeTagIsFree DEF Types
<1>2. NewMessage(e) \in Messages
  BY DEF NewMessage, Messages
<1>3. /\ copies' \in [Ranks -> Nat]
      /\ copies'[e] = copies[e] + 1
      /\ \A f \in Ranks : f # e => copies'[f] = copies[f]
  BY DEF Accept, Types
<1>4. CASE declared
  <2>1. PICK t : t = FreeTag
    OBVIOUS
  <2>2. PICK new : new = NewMessage(e)
    OBVIOUS
  <2>3. messages' = Put(messages, t, new)
    BY <1>4, <2>1, <2>2 DEF Accept
  <2>4. IsTable(messages', Nat, Messages)
    BY <1>1, <1>2, <2>1, <2>2, <2>3 DEF Types, IsTable, Put
  <2>5. /\ DOMAIN messages' = DOMAIN messages \cup {t}
        /\ messages'[t] = new
        /\ \A m \in DOMAIN messages : messages'[m] = messages[m]
    BY <1>1, <2>1, <2>3 DEF Put
  <2>6. IsFiniteSet(DOMAIN messages')
    BY <2>5, FS_AddElement DEF Types
  <2> QED BY <1>3, <2>2, <2>4, <2>5, <2>6
<1>5. CASE ~declared
  BY <1>3, <1>5 DEF Accept, Types
<1> QED BY <1>4, <1>5

\* A message that a consumer does not acknowledge goes back to the queue.
LEMMA Requeued ==
    ASSUME Types, NEW c \in Consumers, messages' = Requeue(c)
    PROVE  /\ IsTable(messages', Nat, Messages) /\ IsFiniteSet(DOMAIN messages')
           /\ DOMAIN messages' = DOMAIN messages
           /\ \A m \in DOMAIN messages :
                 /\ messages'[m].event = messages[m].event
                 /\ messages'[m].rejected = messages[m].rejected
                 /\ messages'[m].failures = messages[m].failures
                 /\ messages'[m].place = IF messages[m].place = c THEN "queue" ELSE messages[m].place
<1>1. DOMAIN messages' = DOMAIN messages
  BY DEF Requeue
<1>2. ASSUME NEW m \in DOMAIN messages
      PROVE  /\ messages'[m] \in Messages
             /\ messages'[m].event = messages[m].event
             /\ messages'[m].rejected = messages[m].rejected
             /\ messages'[m].failures = messages[m].failures
             /\ messages'[m].place = IF messages[m].place = c THEN "queue" ELSE messages[m].place
  <2>1. messages'[m] = IF messages[m].place = c THEN [messages[m] EXCEPT !.place = "queue"]
                                                ELSE messages[m]
    BY DEF Requeue
  <2>2. messages[m] \in Messages
    BY DEF Types, IsTable
  <2> QED BY <2>1, <2>2 DEF Messages
<1>3. messages' = [m \in DOMAIN messages' |-> messages'[m]]
  BY DEF Requeue
<1> QED BY <1>1, <1>2, <1>3 DEF Types, IsTable

\* One message gets another place or other counts.
LEMMA Rewritten ==
    ASSUME Types, NEW t \in DOMAIN messages, NEW row \in Messages,
           messages' = [messages EXCEPT ![t] = row]
    PROVE  /\ IsTable(messages', Nat, Messages) /\ IsFiniteSet(DOMAIN messages')
           /\ DOMAIN messages' = DOMAIN messages
           /\ messages'[t] = row
           /\ \A m \in DOMAIN messages : m # t => messages'[m] = messages[m]
  BY DEF Types, IsTable

\* A message is gone.
LEMMA Acknowledged ==
    ASSUME Types, NEW t, messages' = Delete(messages, {t})
    PROVE  /\ IsTable(messages', Nat, Messages) /\ IsFiniteSet(DOMAIN messages')
           /\ DOMAIN messages' = DOMAIN messages \ {t}
           /\ \A m \in DOMAIN messages' : messages'[m] = messages[m]
<1>1. IsTable(messages', Nat, Messages)
  BY DEF Types, IsTable, Delete
<1>2. DOMAIN messages' = DOMAIN messages \ {t}
  BY DEF Delete
<1>3. IsFiniteSet(DOMAIN messages')
  BY <1>2, FS_RemoveElement DEF Types
<1> QED BY <1>1, <1>2, <1>3 DEF Delete

\* A step of a consumer concerns nobody else's state.
LEMMA Goes ==
    ASSUME Types, NEW c \in Consumers, NEW state \in ConsumerStates,
           consumer' = [consumer EXCEPT ![c] = state]
    PROVE  /\ consumer' \in [Consumers -> ConsumerStates]
           /\ consumer'[c] = state
           /\ \A d \in Consumers : d # c => consumer'[d] = consumer[d]
  BY DEF Types

\* A busy consumer goes on with the same message.
LEMMA GoesTo ==
    ASSUME Types, NEW c \in Consumers, Busy(c), NEW pc \in {"handle", "ack", "failed"}, Goto(c, pc)
    PROVE  /\ consumer' \in [Consumers -> ConsumerStates]
           /\ consumer'[c].pc = pc
           /\ consumer'[c].tag = consumer[c].tag
           /\ consumer'[c].event = consumer[c].event
           /\ consumer'[c].seen = consumer[c].seen
           /\ \A d \in Consumers : d # c => consumer'[d] = consumer[d]
<1>1. consumer[c] \in [pc : {"handle", "ack", "failed"}, tag : Nat, event : Ranks, seen : BOOLEAN]
  BY DEF Types, ConsumerStates, Busy, Down, Ready
<1>2. PICK state : state = [consumer[c] EXCEPT !.pc = pc]
  OBVIOUS
<1>3. state \in [pc : {"handle", "ack", "failed"}, tag : Nat, event : Ranks, seen : BOOLEAN]
  BY <1>1, <1>2
<1>4. /\ state.pc = pc /\ state.tag = consumer[c].tag
      /\ state.event = consumer[c].event /\ state.seen = consumer[c].seen
  BY <1>1, <1>2
<1>5. consumer' = [consumer EXCEPT ![c] = state]
  BY <1>2 DEF Goto
<1> QED BY <1>3, <1>4, <1>5 DEF Types, ConsumerStates

--------------------------------------------------------------------------------
(* Types *)

\* A fault is counted.
LEMMA FaultCounted ==
    ASSUME Types, faults' = faults \/ Fault
    PROVE  faults' \in Nat /\ faults <= faults'
  BY DEF Types, Fault

\* What is not sent yet of a batch.
LEMMA UnsentRow ==
    ASSUME Types, NEW p \in Publishers, Unsent(p) # {}
    PROVE  /\ Min(Unsent(p)) \in relay[p].rows \ relay[p].sent
           /\ Min(Unsent(p)) \in Ranks
<1>1. Unsent(p) \subseteq Ranks /\ Unsent(p) = relay[p].rows \ relay[p].sent
  BY DEF Types, Batches, Unsent
<1> QED BY <1>1, NextRow

\* The outbox threads keep the shapes.
LEMMA RelayTypes ==
    ASSUME Types, NEW p \in Publishers, Publish(p) \/ AbandonBatch(p)
    PROVE  Types'
<1>1. CASE SelectBatch(p)
  <2>1. Oldest(Unlocked) \in SUBSET Ranks
    BY DEF Oldest, Unlocked, Types, IsTable
  <2>2. relay' \in [Publishers -> Batches]
    BY <1>1, <2>1 DEF SelectBatch, Types, Batches
  <2> QED BY <1>1, <2>2 DEF SelectBatch, broker, database, Types
<1>2. CASE PublishRow(p)
  <2>1. PICK e : e = Min(Unsent(p))
    OBVIOUS
  <2>2. e \in Ranks /\ Accept(e)
    BY <1>2, <2>1, UnsentRow DEF PublishRow
  <2>3. relay' \in [Publishers -> Batches]
    BY <1>2, <2>1, <2>2 DEF PublishRow, Types, Batches
  <2>4. /\ IsTable(messages', Nat, Messages) /\ IsFiniteSet(DOMAIN messages')
        /\ copies' \in [Ranks -> Nat]
    BY <2>2, Accepted
  <2> QED BY <1>2, <2>3, <2>4 DEF PublishRow, database, Types
<1>3. CASE CommitBatch(p)
  <2>1. relay' \in [Publishers -> Batches]
    BY <1>3 DEF CommitBatch, Types, Batches, NoBatch
  <2>2. IsTable(outbox', Ranks, {"unpublished", "published"})
    BY <1>3 DEF CommitBatch, Types, IsTable
  <2> QED BY <1>3, <2>1, <2>2 DEF CommitBatch, broker, database, Types
<1>4. CASE AbandonBatch(p)
  <2>1. relay' \in [Publishers -> Batches]
    BY <1>4 DEF AbandonBatch, Types, Batches, NoBatch
  <2>2. faults' \in Nat
    BY <1>4, FaultCounted DEF AbandonBatch
  <2>3. CASE UNCHANGED <<messages, copies>>
    BY <1>4, <2>1, <2>2, <2>3 DEF AbandonBatch, database, Types
  <2>4. CASE Unsent(p) # {} /\ Accept(Min(Unsent(p)))
    <3>1. /\ IsTable(messages', Nat, Messages) /\ IsFiniteSet(DOMAIN messages')
          /\ copies' \in [Ranks -> Nat]
      BY <2>4, UnsentRow, Accepted
    <3> QED BY <1>4, <2>1, <2>2, <3>1 DEF AbandonBatch, database, Types
  <2> QED BY <1>4, <2>3, <2>4 DEF AbandonBatch
<1> QED BY <1>1, <1>2, <1>3, <1>4 DEF Publish

\* The connections of consumers and the deliveries keep the shapes.
LEMMA ConnectionTypes ==
    ASSUME Types, NEW c \in Consumers,
           \/ Connect(c) \/ CrashConsumer(c) \/ LoseConnection(c)
           \/ \E m \in DOMAIN messages : Receive(c, m)
    PROVE  Types'
<1>1. Down \in ConsumerStates /\ Ready \in ConsumerStates
  BY DEF ConsumerStates
<1>2. CASE Connect(c)
  BY <1>1, <1>2, Goes DEF Connect, database, Types
<1>3. CASE CrashConsumer(c)
  <2>1. /\ IsTable(messages', Nat, Messages) /\ IsFiniteSet(DOMAIN messages')
        /\ consumer' \in [Consumers -> ConsumerStates]
        /\ faults' \in Nat
    BY <1>1, <1>3, Requeued, Goes, FaultCounted DEF CrashConsumer
  <2> QED BY <1>3, <2>1 DEF CrashConsumer, database, Types
<1>4. CASE LoseConnection(c)
  <2>1. /\ IsTable(messages', Nat, Messages) /\ IsFiniteSet(DOMAIN messages')
        /\ faults' \in Nat
    BY <1>4, Requeued, FaultCounted DEF LoseConnection
  <2> QED BY <1>4, <2>1 DEF LoseConnection, database, Types
<1>5. ASSUME NEW m \in DOMAIN messages, Receive(c, m)
      PROVE  Types'
  <2>1. messages[m] \in Messages /\ m \in Nat
    BY DEF Types, IsTable
  <2>2. PICK row : row = [messages[m] EXCEPT !.place = c]
    OBVIOUS
  <2>3. row \in Messages /\ messages' = [messages EXCEPT ![m] = row]
    BY <1>5, <2>1, <2>2 DEF Messages, Receive
  <2>4. [pc |-> "handle", tag |-> m, event |-> messages[m].event,
         seen |-> messages[m].event \in processed] \in ConsumerStates
    BY <2>1 DEF ConsumerStates, Messages
  <2>5. consumer' \in [Consumers -> ConsumerStates]
    BY <1>5, <2>4, Goes DEF Receive
  <2>6. IsTable(messages', Nat, Messages) /\ IsFiniteSet(DOMAIN messages')
    BY <2>3, Rewritten
  <2> QED BY <1>5, <2>5, <2>6 DEF Receive, database, Types
<1> QED BY <1>2, <1>3, <1>4, <1>5

\* _on_message keeps the shapes.
LEMMA HandlerTypes ==
    ASSUME Types, NEW c \in Consumers, OnMessage(c)
    PROVE  Types'
<1>1. Down \in ConsumerStates /\ Ready \in ConsumerStates
  BY DEF ConsumerStates
<1>2. CASE Skip(c)
  BY <1>2, GoesTo DEF Skip, Busy, broker, database, Types
<1>3. CASE TakeEffect(c)
  <2>1. /\ consumer' \in [Consumers -> ConsumerStates]
        /\ consumer[c].event \in Ranks
    BY <1>3, GoesTo, BusyConsumer DEF TakeEffect, Busy
  <2>2. /\ processed' \subseteq Ranks
        /\ effects' \in [Ranks -> Nat]
    BY <1>3, <2>1 DEF TakeEffect, Event, Types
  <2> QED BY <1>3, <2>1, <2>2 DEF TakeEffect, broker, Types
<1>4. CASE Raise(c)
  <2>1. /\ consumer' \in [Consumers -> ConsumerStates]
        /\ faults' \in Nat
    BY <1>4, GoesTo, FaultCounted DEF Raise, Busy
  <2>2. IsTable(messages', Nat, Messages) /\ IsFiniteSet(DOMAIN messages')
    <3>1. CASE ~Connected(c)
      BY <1>4, <3>1 DEF Raise, Types
    <3>2. CASE Connected(c)
      <4>1. PICK t : t = consumer[c].tag
        OBVIOUS
      <4>2. t \in DOMAIN messages /\ messages[t] \in Messages
        BY <3>2, <4>1 DEF Connected, Types, IsTable
      <4>3. PICK row : row = [messages[t] EXCEPT !.failures = messages[t].failures + 1]
        OBVIOUS
      <4>4. row \in Messages /\ messages' = [messages EXCEPT ![t] = row]
        BY <1>4, <3>2, <4>1, <4>2, <4>3 DEF Messages, Raise
      <4> QED BY <4>2, <4>4, Rewritten
    <3> QED BY <3>1, <3>2
  <2> QED BY <1>4, <2>1, <2>2 DEF Raise, database, Types
<1>5. CASE Ack(c)
  <2>1. /\ consumer' \in [Consumers -> ConsumerStates]
        /\ IsTable(messages', Nat, Messages) /\ IsFiniteSet(DOMAIN messages')
    BY <1>1, <1>5, Goes, Acknowledged DEF Ack
  <2> QED BY <1>5, <2>1 DEF Ack, database, Types
<1>6. CASE Park(c)
  <2>1. /\ consumer' \in [Consumers -> ConsumerStates]
        /\ consumer[c].event \in Ranks
    BY <1>6, GoesTo, BusyConsumer DEF Park, Busy
  <2>2. Message(c) \in Messages
    BY <1>6 DEF Park, Connected, Message, Types, IsTable
  <2>3. dlq' \subseteq [event : Ranks, failures : Nat]
    BY <1>6, <2>1, <2>2 DEF Park, Event, Messages, Types
  <2> QED BY <1>6, <2>1, <2>3 DEF Park, database, Types
<1>7. CASE Nack(c)
  <2>1. consumer' \in [Consumers -> ConsumerStates]
    BY <1>1, <1>7, Goes DEF Nack
  <2>2. PICK t : t = consumer[c].tag
    OBVIOUS
  <2>3. t \in DOMAIN messages /\ messages[t] \in Messages
    BY <1>7, <2>2 DEF Nack, Connected, Types, IsTable
  <2>4. /\ messages'[t] \in Messages
        /\ messages' = [messages EXCEPT ![t] = messages'[t]]
    <3>1. messages[t].rejected + 1 \in Nat
      BY <2>3 DEF Messages
    <3> QED BY <1>7, <2>2, <2>3, <3>1 DEF Messages, Nack
  <2>5. IsTable(messages', Nat, Messages) /\ IsFiniteSet(DOMAIN messages')
    BY <2>3, <2>4, Rewritten
  <2> QED BY <1>7, <2>1, <2>5 DEF Nack, database, Types
<1>8. CASE Reconnect(c)
  BY <1>1, <1>8, Goes DEF Reconnect, broker, database, Types
<1> QED BY <1>2, <1>3, <1>4, <1>5, <1>6, <1>7, <1>8 DEF OnMessage

\* Every step keeps the shapes.
LEMMA NextTypes == Types /\ [Next]_vars => Types'
<1> SUFFICES ASSUME Types, [Next]_vars PROVE Types'
  OBVIOUS
<1>1. ASSUME NEW e \in Ranks, Write(e)
      PROVE  Types'
  <2>1. IsTable(outbox', Ranks, {"unpublished", "published"})
    BY <1>1 DEF Write, Types, IsTable, Put
  <2> QED BY <1>1, <2>1 DEF Write, broker, database, Types
<1>2. ASSUME NEW m \in DOMAIN messages, Expire(m)
      PROVE  Types'
  <2>1. messages[m] \in Messages
    BY DEF Types, IsTable
  <2>2. /\ messages'[m] \in Messages
        /\ messages' = [messages EXCEPT ![m] = messages'[m]]
    <3>1. messages[m].expired + 1 \in Nat
      BY <2>1 DEF Messages
    <3> QED BY <1>2, <2>1, <3>1 DEF Messages, Expire
  <2>3. IsTable(messages', Nat, Messages) /\ IsFiniteSet(DOMAIN messages')
    BY <2>2, Rewritten
  <2> QED BY <1>2, <2>3 DEF Expire, database, Types
<1>3. CASE UNCHANGED vars
  BY <1>3 DEF vars, broker, database, Types
<1> QED BY <1>1, <1>2, <1>3, RelayTypes, ConnectionTypes, HandlerTypes DEF Next

--------------------------------------------------------------------------------
(* The outbox threads share the rows *)

\* A step that is not of an outbox thread leaves the rows and their copies alone.
LEMMA OutboxFrame ==
    ASSUME DeliveryInv, UNCHANGED <<outbox, relay, copies>>, faults' \in Nat, faults <= faults'
    PROVE  BatchesInv' /\ CopiesInv'
<1>1. \A e : Out(e)' <=> Out(e)
  BY DEF Out
<1>2. BatchesInv'
  BY DEF DeliveryInv, BatchesInv
<1>3. CopiesInv'
  BY <1>1 DEF DeliveryInv, Types, CopiesInv
<1> QED BY <1>2, <1>3

\* A thread locks rows that no other has, sends each of its rows once, and marks the
\* batch or, by a fault, forgets what it sent.
LEMMA RelayBatches ==
    ASSUME DeliveryInv, NEW p \in Publishers, Publish(p) \/ AbandonBatch(p)
    PROVE  BatchesInv' /\ CopiesInv'
<1> USE DEF DeliveryInv
<1>1. relay \in [Publishers -> Batches]
  BY DEF Types
<1>2. CASE SelectBatch(p)
  <2>1. PICK R : R = Oldest(Unlocked)
    OBVIOUS
  <2>2. /\ relay'[p].rows = R /\ relay'[p].sent = {}
        /\ \A q \in Publishers : q # p => relay'[q] = relay[q]
        /\ UNCHANGED <<outbox, copies, faults>>
    BY <1>1, <1>2, <2>1 DEF SelectBatch, NoBatch
  <2>3. \A e \in R : /\ e \in DOMAIN outbox /\ outbox[e] = "unpublished"
                     /\ \A q \in Publishers : e \notin relay[q].rows
    BY <2>1 DEF Oldest, Unlocked
  <2>4. relay[p].sent = {}
    BY <1>2 DEF SelectBatch, NoBatch
  <2>5. BatchesInv'
    BY <2>2, <2>3 DEF BatchesInv
  <2>6. \A e : Out(e)' <=> Out(e)
    BY <2>2, <2>4 DEF Out
  <2> QED BY <2>2, <2>5, <2>6 DEF CopiesInv
<1>3. CASE PublishRow(p)
  <2>1. PICK e : e = Min(Unsent(p))
    OBVIOUS
  <2>2. e \in relay[p].rows \ relay[p].sent /\ e \in Ranks
    BY <1>3, <2>1, UnsentRow DEF PublishRow
  <2>3. /\ copies'[e] = copies[e] + 1
        /\ \A f \in Ranks : f # e => copies'[f] = copies[f]
    BY <1>3, <2>1, <2>2, Accepted DEF PublishRow
  <2>4. /\ relay'[p].rows = relay[p].rows /\ relay'[p].sent = relay[p].sent \cup {e}
        /\ \A q \in Publishers : q # p => relay'[q] = relay[q]
        /\ UNCHANGED <<outbox, faults>>
    BY <1>1, <1>3, <2>1 DEF PublishRow, Batches
  <2>5. BatchesInv'
    BY <2>2, <2>4 DEF BatchesInv
  <2>6. ~Out(e) /\ Out(e)'
    BY <2>2, <2>4 DEF Out, BatchesInv
  <2>7. \A f \in Ranks : f # e => (Out(f)' <=> Out(f))
    BY <2>4 DEF Out
  <2> QED BY <2>2, <2>3, <2>4, <2>5, <2>6, <2>7 DEF CopiesInv, Types
<1>4. CASE CommitBatch(p)
  <2>1. /\ relay'[p].rows = {} /\ relay'[p].sent = {}
        /\ \A q \in Publishers : q # p => relay'[q] = relay[q]
        /\ outbox' = [e \in DOMAIN outbox |->
                        IF e \in relay[p].rows THEN "published" ELSE outbox[e]]
        /\ UNCHANGED <<copies, faults>>
    BY <1>1, <1>4 DEF CommitBatch, NoBatch
  <2>2. BatchesInv'
    BY <2>1 DEF BatchesInv
  <2>3. \A e : Out(e) => Out(e)'
    BY <2>1 DEF Out, BatchesInv
  <2> QED BY <2>1, <2>2, <2>3 DEF CopiesInv
<1>5. CASE AbandonBatch(p)
  <2>1. /\ relay'[p].rows = {} /\ relay'[p].sent = {}
        /\ \A q \in Publishers : q # p => relay'[q] = relay[q]
        /\ UNCHANGED outbox
        /\ faults' = faults + 1
    BY <1>1, <1>5 DEF AbandonBatch, NoBatch, Fault
  <2>2. BatchesInv'
    BY <2>1 DEF BatchesInv
  <2>3. \A e : Out(e)' => Out(e)
    BY <2>1 DEF Out
  <2>4. CASE UNCHANGED copies
    BY <2>1, <2>2, <2>3, <2>4 DEF CopiesInv, Types
  <2>5. CASE Unsent(p) # {} /\ Accept(Min(Unsent(p)))
    <3>1. PICK e : e = Min(Unsent(p))
      OBVIOUS
    <3>2. e \in relay[p].rows \ relay[p].sent /\ e \in Ranks
      BY <2>5, <3>1, UnsentRow
    <3>3. /\ copies'[e] = copies[e] + 1
          /\ \A f \in Ranks : f # e => copies'[f] = copies[f]
      BY <2>5, <3>1, <3>2, Accepted
    <3>4. ~Out(e)
      BY <3>2 DEF Out, BatchesInv
    <3> QED BY <2>1, <2>2, <2>3, <3>3, <3>4 DEF CopiesInv, Types
  <2> QED BY <1>5, <2>4, <2>5 DEF AbandonBatch
<1> QED BY <1>2, <1>3, <1>4, <1>5 DEF Publish

\* A consumer, the broker and the tick of a retry leave the outbox alone.
LEMMA NotTheOutbox ==
    ASSUME Types,
           \/ \E c \in Consumers : Connect(c) \/ CrashConsumer(c) \/ LoseConnection(c) \/ OnMessage(c)
           \/ \E c \in Consumers, m \in DOMAIN messages : Receive(c, m)
           \/ \E m \in DOMAIN messages : Expire(m)
    PROVE  UNCHANGED <<outbox, relay, copies>> /\ faults' \in Nat /\ faults <= faults'
<1>1. UNCHANGED <<outbox, relay, copies>> /\ (faults' = faults \/ Fault)
  BY DEF Connect, CrashConsumer, LoseConnection, OnMessage, Receive, Expire, Skip, TakeEffect,
         Raise, Ack, Park, Nack, Reconnect
<1> QED BY <1>1, FaultCounted

\* Every step keeps the batches apart and the copies accounted for.
LEMMA NextBatches == DeliveryInv /\ [Next]_vars => BatchesInv' /\ CopiesInv'
<1> SUFFICES ASSUME DeliveryInv, [Next]_vars PROVE BatchesInv' /\ CopiesInv'
  OBVIOUS
<1> USE DEF DeliveryInv
<1>1. ASSUME NEW e \in Ranks, Write(e)
      PROVE  BatchesInv' /\ CopiesInv'
  <2>1. /\ e \notin DOMAIN outbox
        /\ DOMAIN outbox' = DOMAIN outbox \cup {e}
        /\ outbox'[e] = "unpublished"
        /\ \A f \in DOMAIN outbox : outbox'[f] = outbox[f]
        /\ UNCHANGED <<relay, copies, faults>>
    BY <1>1 DEF Write, Put
  <2>2. \A f : Out(f)' <=> Out(f)
    BY <2>1 DEF Out
  <2> QED BY <2>1, <2>2 DEF BatchesInv, CopiesInv
<1>2. CASE UNCHANGED vars
  BY <1>2, OutboxFrame DEF vars, Types
<1>3. ASSUME UNCHANGED <<outbox, relay, copies>> /\ faults' \in Nat /\ faults <= faults'
      PROVE  BatchesInv' /\ CopiesInv'
  BY <1>3, OutboxFrame
<1> QED BY <1>1, <1>2, <1>3, RelayBatches, NotTheOutbox DEF Next

--------------------------------------------------------------------------------
(* Messages follow their events *)

\* Writing and publishing add rows and messages of rows, and nothing else.
LEMMA OutboxSteps ==
    ASSUME DeliveryInv,
           \/ \E e \in Ranks : Write(e)
           \/ \E p \in Publishers : Publish(p) \/ AbandonBatch(p)
    PROVE  /\ UNCHANGED <<consumer, dlq, processed, effects, declared>>
           /\ DOMAIN outbox \subseteq DOMAIN outbox'
           /\ faults' \in Nat /\ faults <= faults'
           /\ \A m \in DOMAIN messages : m \in DOMAIN messages' /\ messages'[m] = messages[m]
           /\ \A m \in DOMAIN messages' \ DOMAIN messages :
                 \E e \in DOMAIN outbox : messages'[m] = NewMessage(e)
<1>1. UNCHANGED <<consumer, dlq, processed, effects, declared>>
  BY DEF Write, Publish, SelectBatch, PublishRow, CommitBatch, AbandonBatch, broker, database
<1>2. DOMAIN outbox \subseteq DOMAIN outbox'
  BY DEF Write, Put, Publish, SelectBatch, PublishRow, CommitBatch, AbandonBatch
<1>3. faults' = faults \/ Fault
  BY DEF Write, Publish, SelectBatch, PublishRow, CommitBatch, AbandonBatch
<1>4. \/ messages' = messages
      \/ \E p \in Publishers : Unsent(p) # {} /\ Accept(Min(Unsent(p)))
  BY DEF Write, Publish, SelectBatch, PublishRow, CommitBatch, AbandonBatch, broker
<1>5. ASSUME NEW p \in Publishers, Unsent(p) # {}, Accept(Min(Unsent(p)))
      PROVE  /\ \A m \in DOMAIN messages : m \in DOMAIN messages' /\ messages'[m] = messages[m]
             /\ \A m \in DOMAIN messages' \ DOMAIN messages :
                   \E e \in DOMAIN outbox : messages'[m] = NewMessage(e)
  <2>1. PICK e : e = Min(Unsent(p))
    OBVIOUS
  <2>2. e \in Ranks /\ e \in DOMAIN outbox
    BY <1>5, <2>1, UnsentRow DEF DeliveryInv, BatchesInv
  <2> QED BY <1>5, <2>1, <2>2, Accepted DEF DeliveryInv
<1>6. faults' \in Nat /\ faults <= faults'
  BY <1>3, FaultCounted DEF DeliveryInv
<1> QED BY <1>1, <1>2, <1>4, <1>5, <1>6

\* Such a step concerns no message that a consumer works on.
LEMMA OutboxStepsFrame ==
    ASSUME DeliveryInv,
           \/ \E e \in Ranks : Write(e)
           \/ \E p \in Publishers : Publish(p) \/ AbandonBatch(p)
    PROVE  DeliveredInv' /\ EffectsInv' /\ BudgetInv'
<1>1. /\ UNCHANGED <<consumer, dlq, processed, effects>>
      /\ DOMAIN outbox \subseteq DOMAIN outbox'
      /\ faults \in Nat /\ faults' \in Nat /\ faults <= faults'
      /\ \A m \in DOMAIN messages : m \in DOMAIN messages' /\ messages'[m] = messages[m]
      /\ \A m \in DOMAIN messages' \ DOMAIN messages :
            \E e \in DOMAIN outbox : messages'[m] = NewMessage(e)
  BY OutboxSteps DEF DeliveryInv, Types
<1>2. ASSUME NEW m \in DOMAIN messages', m \notin DOMAIN messages
      PROVE  /\ messages'[m].event \in DOMAIN outbox
             /\ messages'[m].place \notin Consumers
             /\ messages'[m].rejected = 0 /\ messages'[m].failures = 0
  <2>1. PICK e \in DOMAIN outbox : messages'[m] = NewMessage(e)
    BY <1>1, <1>2
  <2> QED BY <2>1, PlacesAssumption DEF NewMessage, PlacesAssumption
<1>3. DeliveredInv'
  BY <1>1, <1>2 DEF DeliveryInv, DeliveredInv, Busy
<1>4. EffectsInv'
  BY <1>1 DEF DeliveryInv, EffectsInv, DeadLettered
<1>5. BudgetInv'
  <2>1. ASSUME NEW m \in DOMAIN messages
        PROVE  /\ Decided(m)' <=> Decided(m)
               /\ messages[m].rejected \in Nat /\ messages[m].failures \in Nat
    BY <1>1 DEF Decided, DeliveryInv, Types, IsTable, Messages
  <2> QED BY <1>1, <1>2, <2>1, RetryAssumption DEF RetryAssumption, DeliveryInv, BudgetInv
<1> QED BY <1>3, <1>4, <1>5

\* A message moves between queue, retry queue and consumers with its event.
LEMMA NextDelivered == DeliveryInv /\ [Next]_vars => DeliveredInv'
<1> SUFFICES ASSUME DeliveryInv, [Next]_vars PROVE DeliveredInv'
  OBVIOUS
<1> USE DEF DeliveryInv
<1>1. /\ consumer \in [Consumers -> ConsumerStates]
      /\ \A m \in DOMAIN messages : messages[m] \in Messages
  BY DEF Types, IsTable
<1>2. ASSUME NEW c \in Consumers, Connect(c)
      PROVE  DeliveredInv'
  <2>1. /\ consumer'[c].pc = "ready" /\ consumer[c].pc = "down"
        /\ \A d \in Consumers : d # c => consumer'[d] = consumer[d]
        /\ UNCHANGED <<outbox, messages, dlq>>
    BY <1>1, <1>2 DEF Connect, Ready
  <2> QED BY <2>1 DEF DeliveredInv, Busy
<1>3. ASSUME NEW c \in Consumers, CrashConsumer(c)
      PROVE  DeliveredInv'
  <2>1. /\ consumer'[c].pc = "down"
        /\ \A d \in Consumers : d # c => consumer'[d] = consumer[d]
        /\ UNCHANGED <<outbox, dlq>>
        /\ messages' = Requeue(c)
    BY <1>1, <1>3 DEF CrashConsumer, Down
  <2>2. /\ DOMAIN messages' = DOMAIN messages
        /\ \A m \in DOMAIN messages :
              /\ messages'[m].event = messages[m].event
              /\ messages'[m].place = IF messages[m].place = c THEN "queue" ELSE messages[m].place
    BY <2>1, Requeued
  <2> QED BY <2>1, <2>2, PlacesAssumption DEF DeliveredInv, Busy, PlacesAssumption
<1>4. ASSUME NEW c \in Consumers, LoseConnection(c)
      PROVE  DeliveredInv'
  <2>1. UNCHANGED <<outbox, dlq, consumer>> /\ messages' = Requeue(c)
    BY <1>4 DEF LoseConnection
  <2>2. /\ DOMAIN messages' = DOMAIN messages
        /\ \A m \in DOMAIN messages :
              /\ messages'[m].event = messages[m].event
              /\ messages'[m].place = IF messages[m].place = c THEN "queue" ELSE messages[m].place
    BY <2>1, Requeued
  <2> QED BY <2>1, <2>2, PlacesAssumption DEF DeliveredInv, Busy, PlacesAssumption
<1>5. ASSUME NEW c \in Consumers, NEW m \in DOMAIN messages, Receive(c, m)
      PROVE  DeliveredInv'
  <2>1. /\ consumer[c].pc = "ready"
        /\ consumer'[c].pc = "handle" /\ consumer'[c].tag = m
        /\ consumer'[c].event = messages[m].event
        /\ \A d \in Consumers : d # c => consumer'[d] = consumer[d]
        /\ UNCHANGED <<outbox, dlq>>
    BY <1>1, <1>5 DEF Receive, Ready
  <2>2. /\ DOMAIN messages' = DOMAIN messages
        /\ \A k \in DOMAIN messages :
              /\ messages'[k].event = messages[k].event
              /\ messages'[k].place = IF k = m THEN c ELSE messages[k].place
    BY <1>1, <1>5 DEF Receive, Messages
  <2> QED BY <2>1, <2>2 DEF DeliveredInv, Busy
<1>6. ASSUME NEW c \in Consumers, Skip(c) \/ TakeEffect(c)
      PROVE  DeliveredInv'
  <2>1. Busy(c) /\ Goto(c, "ack") /\ UNCHANGED <<outbox, messages, dlq>>
    BY <1>6 DEF Skip, TakeEffect, Busy, broker
  <2>2. /\ consumer'[c].pc = "ack"
        /\ consumer'[c].tag = consumer[c].tag /\ consumer'[c].event = consumer[c].event
        /\ \A d \in Consumers : d # c => consumer'[d] = consumer[d]
    BY <2>1, GoesTo
  <2> QED BY <2>1, <2>2 DEF DeliveredInv, Busy
<1>7. ASSUME NEW c \in Consumers, Raise(c)
      PROVE  DeliveredInv'
  <2>1. Busy(c) /\ Goto(c, "failed") /\ UNCHANGED <<outbox, dlq>>
    BY <1>7 DEF Raise, Busy
  <2>2. /\ consumer'[c].pc = "failed"
        /\ consumer'[c].tag = consumer[c].tag /\ consumer'[c].event = consumer[c].event
        /\ \A d \in Consumers : d # c => consumer'[d] = consumer[d]
    BY <2>1, GoesTo
  <2>3. /\ DOMAIN messages' = DOMAIN messages
        /\ \A m \in DOMAIN messages : messages'[m].event = messages[m].event
                                      /\ messages'[m].place = messages[m].place
    BY <1>1, <1>7 DEF Raise, Connected, Messages
  <2> QED BY <2>1, <2>2, <2>3 DEF DeliveredInv, Busy
<1>8. ASSUME NEW c \in Consumers, Ack(c)
      PROVE  DeliveredInv'
  <2>1. /\ consumer'[c].pc = "ready"
        /\ \A d \in Consumers : d # c => consumer'[d] = consumer[d]
        /\ UNCHANGED <<outbox, dlq>>
    BY <1>1, <1>8 DEF Ack, Ready
  <2>2. /\ DOMAIN messages' = DOMAIN messages \ {consumer[c].tag}
        /\ \A m \in DOMAIN messages' : messages'[m] = messages[m]
    BY <1>8, Acknowledged DEF Ack
  <2> QED BY <2>1, <2>2 DEF DeliveredInv, Busy
<1>9. ASSUME NEW c \in Consumers, Park(c)
      PROVE  DeliveredInv'
  <2>1. /\ Busy(c) /\ Goto(c, "ack") /\ UNCHANGED <<outbox, messages>>
        /\ dlq' = dlq \cup {[event |-> consumer[c].event, failures |-> Message(c).failures]}
    BY <1>9 DEF Park, Busy, Event
  <2>2. /\ consumer'[c].pc = "ack"
        /\ consumer'[c].tag = consumer[c].tag /\ consumer'[c].event = consumer[c].event
        /\ \A d \in Consumers : d # c => consumer'[d] = consumer[d]
    BY <2>1, GoesTo
  <2> QED BY <2>1, <2>2 DEF DeliveredInv, Busy
<1>10. ASSUME NEW c \in Consumers, Nack(c)
      PROVE  DeliveredInv'
  <2>1. /\ consumer'[c].pc = "ready"
        /\ \A d \in Consumers : d # c => consumer'[d] = consumer[d]
        /\ UNCHANGED <<outbox, dlq>>
    BY <1>1, <1>10 DEF Nack, Ready
  <2>2. /\ DOMAIN messages' = DOMAIN messages
        /\ \A m \in DOMAIN messages :
              /\ messages'[m].event = messages[m].event
              /\ messages'[m].place = IF m = consumer[c].tag THEN "retry" ELSE messages[m].place
    BY <1>1, <1>10 DEF Nack, Connected, Messages
  <2> QED BY <2>1, <2>2, PlacesAssumption DEF DeliveredInv, Busy, PlacesAssumption
<1>11. ASSUME NEW c \in Consumers, Reconnect(c)
      PROVE  DeliveredInv'
  <2>1. /\ consumer'[c].pc = "down"
        /\ \A d \in Consumers : d # c => consumer'[d] = consumer[d]
        /\ UNCHANGED <<outbox, messages, dlq>>
    BY <1>1, <1>11 DEF Reconnect, Down, broker
  <2>2. \A m \in DOMAIN messages : messages[m].place # c
    BY <1>11 DEF Reconnect, Connected, Message, DeliveredInv
  <2> QED BY <2>1, <2>2 DEF DeliveredInv, Busy
<1>12. ASSUME NEW m \in DOMAIN messages, Expire(m)
      PROVE  DeliveredInv'
  <2>1. /\ DOMAIN messages' = DOMAIN messages
        /\ \A k \in DOMAIN messages :
              /\ messages'[k].event = messages[k].event
              /\ messages'[k].place = IF k = m THEN "queue" ELSE messages[k].place
    BY <1>1, <1>12 DEF Expire, Messages
  <2>2. UNCHANGED <<outbox, dlq, consumer>>
    BY <1>12 DEF Expire
  <2> QED BY <2>1, <2>2, PlacesAssumption DEF DeliveredInv, Busy, PlacesAssumption
<1>13. CASE UNCHANGED vars
  BY <1>13 DEF vars, broker, DeliveredInv, Busy
<1> QED BY <1>2, <1>3, <1>4, <1>5, <1>6, <1>7, <1>8, <1>9, <1>10, <1>11, <1>12, <1>13,
           OutboxStepsFrame
        DEF Next, OnMessage

--------------------------------------------------------------------------------
(* Effects, and the budget of retries *)

\* An effect and its ProcessedEvent are one commit, and a consumer acknowledges what
\* has taken effect or is parked.
LEMMA NextEffects == DeliveryInv /\ [Next]_vars => EffectsInv'
<1> SUFFICES ASSUME DeliveryInv, [Next]_vars PROVE EffectsInv'
  OBVIOUS
<1> USE DEF DeliveryInv
<1>1. consumer \in [Consumers -> ConsumerStates]
  BY DEF Types
<1>2. ASSUME NEW c \in Consumers, consumer'[c].pc \in {"down", "ready", "failed"},
             \A d \in Consumers : d # c => consumer'[d] = consumer[d],
             UNCHANGED <<processed, effects, dlq>>
      PROVE  EffectsInv'
  BY <1>2 DEF EffectsInv, DeadLettered
<1>3. ASSUME NEW c \in Consumers, Connect(c) \/ CrashConsumer(c) \/ Ack(c) \/ Nack(c) \/ Reconnect(c)
      PROVE  EffectsInv'
  <2>1. /\ consumer'[c].pc \in {"down", "ready", "failed"}
        /\ \A d \in Consumers : d # c => consumer'[d] = consumer[d]
        /\ UNCHANGED <<processed, effects, dlq>>
    BY <1>1, <1>3 DEF Connect, CrashConsumer, Ack, Nack, Reconnect, Down, Ready, database, broker
  <2> QED BY <1>2, <2>1
<1>4. ASSUME NEW c \in Consumers, Raise(c)
      PROVE  EffectsInv'
  <2>1. /\ consumer'[c].pc \in {"down", "ready", "failed"}
        /\ \A d \in Consumers : d # c => consumer'[d] = consumer[d]
        /\ UNCHANGED <<processed, effects, dlq>>
    BY <1>4, GoesTo DEF Raise, Busy, database
  <2> QED BY <1>2, <2>1
<1>5. ASSUME NEW c \in Consumers, NEW m \in DOMAIN messages, Receive(c, m)
      PROVE  EffectsInv'
  <2>1. /\ consumer'[c].pc = "handle"
        /\ consumer'[c].seen => consumer'[c].event \in processed
        /\ \A d \in Consumers : d # c => consumer'[d] = consumer[d]
        /\ UNCHANGED <<processed, effects, dlq>>
    BY <1>1, <1>5 DEF Receive, database
  <2> QED BY <2>1 DEF EffectsInv, DeadLettered
<1>6. ASSUME NEW c \in Consumers, Skip(c)
      PROVE  EffectsInv'
  <2>1. /\ consumer'[c].pc = "ack" /\ consumer'[c].event = consumer[c].event
        /\ consumer[c].event \in processed
        /\ \A d \in Consumers : d # c => consumer'[d] = consumer[d]
        /\ UNCHANGED <<processed, effects, dlq>>
    BY <1>6, GoesTo DEF Skip, Busy, database, broker, EffectsInv
  <2> QED BY <2>1 DEF EffectsInv, DeadLettered
<1>7. ASSUME NEW c \in Consumers, TakeEffect(c)
      PROVE  EffectsInv'
  <2>1. PICK e : e = consumer[c].event
    OBVIOUS
  <2>2. /\ consumer'[c].pc = "ack" /\ consumer'[c].event = e
        /\ \A d \in Consumers : d # c => consumer'[d] = consumer[d]
    BY <1>7, <2>1, GoesTo DEF TakeEffect, Busy
  <2>3. /\ processed' = processed \cup {e} /\ e \notin processed
        /\ effects' = [effects EXCEPT ![e] = effects[e] + 1]
        /\ dlq' = dlq
    BY <1>7, <2>1 DEF TakeEffect, Event, broker
  <2>4. e \in Ranks /\ effects \in [Ranks -> Nat]
    BY <1>7, <2>1, BusyConsumer DEF TakeEffect, Busy, Types
  <2>5. \A f \in Ranks : effects'[f] = IF f \in processed' THEN 1 ELSE 0
    BY <2>3, <2>4 DEF EffectsInv
  <2> QED BY <2>2, <2>3, <2>5 DEF EffectsInv, DeadLettered
<1>8. ASSUME NEW c \in Consumers, Park(c)
      PROVE  EffectsInv'
  <2>1. /\ consumer'[c].pc = "ack" /\ consumer'[c].event = consumer[c].event
        /\ \A d \in Consumers : d # c => consumer'[d] = consumer[d]
        /\ UNCHANGED <<processed, effects>>
        /\ dlq' = dlq \cup {[event |-> consumer[c].event, failures |-> Message(c).failures]}
    BY <1>8, GoesTo DEF Park, Busy, Event, database
  <2>2. DeadLettered(consumer[c].event)'
    <3>1. PICK d : d = [event |-> consumer[c].event, failures |-> Message(c).failures]
      OBVIOUS
    <3>2. d \in dlq' /\ d.event = consumer[c].event
      BY <2>1, <3>1
    <3> QED BY <2>1, <3>2 DEF DeadLettered
  <2>3. \A e : DeadLettered(e) => DeadLettered(e)'
    BY <2>1 DEF DeadLettered
  <2>4. ASSUME NEW d \in Consumers
        PROVE  /\ consumer'[d].pc = "handle" /\ consumer'[d].seen => consumer'[d].event \in processed'
               /\ consumer'[d].pc = "ack" =>
                    consumer'[d].event \in processed' \/ DeadLettered(consumer[d].event)'
    BY <2>1, <2>2, <2>3 DEF EffectsInv
  <2> QED BY <2>1, <2>4 DEF EffectsInv
<1>9. ASSUME UNCHANGED <<consumer, processed, effects, dlq>>
      PROVE  EffectsInv'
  BY <1>9 DEF EffectsInv, DeadLettered
<1>10. ASSUME NEW c \in Consumers, LoseConnection(c)
       PROVE  EffectsInv'
  BY <1>9, <1>10 DEF LoseConnection, database
<1>11. ASSUME NEW m \in DOMAIN messages, Expire(m)
       PROVE  EffectsInv'
  BY <1>9, <1>11 DEF Expire, database
<1>12. CASE UNCHANGED vars
  BY <1>9, <1>12 DEF vars, broker, database
<1> QED BY <1>3, <1>4, <1>5, <1>6, <1>7, <1>8, <1>10, <1>11, <1>12, OutboxStepsFrame
        DEF Next, OnMessage

\* A message's part of the budget, for the counts it has and the faults so far.
InBudget(m) ==
    /\ messages[m].rejected <= MaxRetries
    /\ messages[m].rejected <= messages[m].failures
    /\ messages[m].failures <= messages[m].rejected + 1 + faults
    /\ ~Decided(m) => messages[m].failures <= messages[m].rejected + faults
    /\ \A c \in Consumers : messages[m].place = c /\ consumer[c].pc = "failed" =>
           messages[m].rejected < messages[m].failures

\* A message that consumer c does not work on is not concerned by c.
LEMMA OtherMessage ==
    ASSUME DeliveryInv, NEW c \in Consumers, NEW m \in DOMAIN messages, InBudget(m),
           faults' \in Nat, faults <= faults',
           m \in DOMAIN messages', messages'[m] = messages[m], messages[m].place # c,
           \A d \in Consumers : d # c => consumer'[d] = consumer[d]
    PROVE  InBudget(m)'
<1>1. Decided(m)' <=> Decided(m)
  BY DEF Decided
<1>2. messages[m].rejected \in Nat /\ messages[m].failures \in Nat /\ faults \in Nat
  BY DEF DeliveryInv, Types, IsTable, Messages
<1> QED BY <1>1, <1>2 DEF InBudget

\* A connection that ends takes a message back to the queue, and is a fault.
LEMMA ConnectionBudget ==
    ASSUME DeliveryInv, NEW c \in Consumers, CrashConsumer(c) \/ LoseConnection(c)
    PROVE  BudgetInv'
<1>1. /\ messages' = Requeue(c) /\ dlq' = dlq
      /\ faults' = faults + 1 /\ faults \in Nat
      /\ \A d \in Consumers : d # c => consumer'[d] = consumer[d]
  BY DEF CrashConsumer, LoseConnection, Fault, DeliveryInv, Types
<1>2. /\ DOMAIN messages' = DOMAIN messages
      /\ \A m \in DOMAIN messages :
            /\ messages'[m].rejected = messages[m].rejected
            /\ messages'[m].failures = messages[m].failures
            /\ messages'[m].place = IF messages[m].place = c THEN "queue" ELSE messages[m].place
  BY <1>1, Requeued DEF DeliveryInv
<1>3. ASSUME NEW m \in DOMAIN messages
      PROVE  InBudget(m)'
  <2>1. messages[m].rejected \in Nat /\ messages[m].failures \in Nat
    BY DEF DeliveryInv, Types, IsTable, Messages
  <2>2. InBudget(m)
    BY DEF DeliveryInv, BudgetInv, InBudget
  <2>3. CASE messages[m].place = c
    <3>1. messages'[m].place \notin Consumers
      BY <1>2, <2>3, PlacesAssumption DEF PlacesAssumption
    <3> QED BY <1>1, <1>2, <2>1, <2>2, <3>1 DEF InBudget
  <2>4. CASE messages[m].place # c
    <3>1. messages'[m].place = messages[m].place
      BY <1>2, <2>4
    <3>2. Decided(m)' <=> Decided(m)
      BY <1>1, <2>4, <3>1 DEF Decided
    <3> QED BY <1>1, <1>2, <2>1, <2>2, <2>4, <3>1, <3>2 DEF InBudget
  <2> QED BY <2>3, <2>4
<1> QED BY <1>1, <1>2, <1>3 DEF DeliveryInv, BudgetInv, InBudget

\* A handler's failure is counted at the broker by the rejection that follows it, or
\* the message is parked.
LEMMA HandlerBudget ==
    ASSUME DeliveryInv, NEW c \in Consumers, OnMessage(c)
    PROVE  BudgetInv'
<1> USE DEF DeliveryInv
<1>1. /\ consumer \in [Consumers -> ConsumerStates]
      /\ \A m \in DOMAIN messages : messages[m] \in Messages /\ InBudget(m)
      /\ faults \in Nat
  BY DEF Types, IsTable, BudgetInv, InBudget
<1>2. faults' \in Nat /\ faults <= faults'
  BY NotTheOutbox
<1>3. PICK t : t = consumer[c].tag
  OBVIOUS
<1>4. \A m \in DOMAIN messages : messages[m].place = c => m = t
  BY <1>3 DEF DeliveredInv
<1>5. ASSUME \A d \in Consumers : d # c => consumer'[d] = consumer[d],
             NEW m \in DOMAIN messages, m \in DOMAIN messages', messages'[m] = messages[m],
             messages[m].place # c
      PROVE  InBudget(m)'
  BY <1>1, <1>2, <1>5, OtherMessage
<1>6. CASE Skip(c) \/ TakeEffect(c)
  <2>1. /\ consumer[c].pc = "handle" /\ Goto(c, "ack") /\ UNCHANGED <<messages, dlq>>
    BY <1>6 DEF Skip, TakeEffect, broker
  <2>2. /\ consumer'[c].pc = "ack"
        /\ \A d \in Consumers : d # c => consumer'[d] = consumer[d]
    BY <2>1, GoesTo DEF Busy
  <2>3. ASSUME NEW m \in DOMAIN messages
        PROVE  InBudget(m)'
    <3>1. CASE messages[m].place = c
      <4>1. Decided(m)'
        BY <2>1, <2>2, <3>1 DEF Decided
      <4>2. messages[m].rejected \in Nat /\ messages[m].failures \in Nat
        BY <1>1 DEF Messages
      <4> QED BY <1>1, <1>2, <2>1, <2>2, <3>1, <4>1, <4>2 DEF InBudget
    <3> QED BY <1>5, <2>1, <2>2, <3>1
  <2> QED BY <2>1, <2>3 DEF BudgetInv, InBudget
<1>7. CASE Raise(c)
  <2>1. /\ consumer[c].pc = "handle" /\ Goto(c, "failed") /\ UNCHANGED dlq
    BY <1>7 DEF Raise
  <2>2. /\ consumer'[c].pc = "failed"
        /\ \A d \in Consumers : d # c => consumer'[d] = consumer[d]
    BY <2>1, GoesTo DEF Busy
  <2>3. DOMAIN messages' = DOMAIN messages
    BY <1>7 DEF Raise
  <2>4. ASSUME NEW m \in DOMAIN messages
        PROVE  InBudget(m)'
    <3>1. CASE messages[m].place = c
      <4>1. m = t /\ Connected(c)
        BY <1>3, <1>4, <3>1 DEF Connected, Message
      <4>2. /\ messages'[m].rejected = messages[m].rejected
            /\ messages'[m].failures = messages[m].failures + 1
            /\ messages'[m].place = c
        BY <1>1, <1>3, <1>7, <3>1, <4>1 DEF Raise, Messages
      <4>3. ~Decided(m)
        BY <2>1, <3>1 DEF Decided
      <4>4. Decided(m)'
        BY <2>2, <4>2 DEF Decided
      <4>5. messages[m].rejected \in Nat /\ messages[m].failures \in Nat
        BY <1>1 DEF Messages
      <4> QED BY <1>1, <1>2, <4>2, <4>3, <4>4, <4>5 DEF InBudget
    <3>2. CASE messages[m].place # c
      <4>1. messages'[m] = messages[m]
        BY <1>3, <1>7, <3>2 DEF Raise, Connected, Message
      <4> QED BY <1>5, <2>2, <2>3, <3>2, <4>1
    <3> QED BY <3>1, <3>2
  <2> QED BY <2>1, <2>3, <2>4 DEF BudgetInv, InBudget
<1>8. CASE Ack(c)
  <2>1. /\ \A d \in Consumers : d # c => consumer'[d] = consumer[d]
        /\ UNCHANGED dlq
    BY <1>1, <1>8 DEF Ack
  <2>2. /\ DOMAIN messages' = DOMAIN messages \ {t}
        /\ \A m \in DOMAIN messages' : messages'[m] = messages[m]
    BY <1>3, <1>8, Acknowledged DEF Ack
  <2>3. \A m \in DOMAIN messages' : InBudget(m)'
    BY <1>4, <1>5, <2>1, <2>2
  <2> QED BY <2>1, <2>3 DEF BudgetInv, InBudget
<1>9. CASE Park(c)
  <2>1. /\ consumer[c].pc = "failed" /\ Goto(c, "ack") /\ UNCHANGED <<messages, faults>>
        /\ t \in DOMAIN messages /\ messages[t].place = c
        /\ messages[t].rejected >= MaxRetries
        /\ dlq' = dlq \cup {[event |-> consumer[c].event, failures |-> messages[t].failures]}
    BY <1>3, <1>9 DEF Park, Connected, Message, Event, Exhausted, retry_count
  <2>2. /\ consumer'[c].pc = "ack"
        /\ \A d \in Consumers : d # c => consumer'[d] = consumer[d]
    BY <2>1, GoesTo DEF Busy
  <2>3. messages[t].failures > MaxRetries
    <3>1. messages[t].rejected \in Nat /\ messages[t].failures \in Nat
      BY <1>1, <2>1 DEF Messages
    <3> QED BY <1>1, <2>1, <3>1, RetryAssumption DEF InBudget, RetryAssumption
  <2>4. ASSUME NEW m \in DOMAIN messages
        PROVE  InBudget(m)'
    <3>1. CASE messages[m].place = c
      <4>1. Decided(m)'
        BY <2>1, <2>2, <3>1 DEF Decided
      <4> QED BY <1>1, <2>1, <2>2, <3>1, <4>1 DEF InBudget
    <3> QED BY <1>5, <2>1, <2>2, <3>1
  <2> QED BY <2>1, <2>3, <2>4 DEF BudgetInv, InBudget
<1>10. CASE Nack(c)
  <2>1. /\ consumer[c].pc = "failed" /\ UNCHANGED <<dlq, faults>>
        /\ t \in DOMAIN messages /\ messages[t].place = c
        /\ ~(messages[t].rejected >= MaxRetries)
        /\ \A d \in Consumers : d # c => consumer'[d] = consumer[d]
    BY <1>1, <1>3, <1>10 DEF Nack, Connected, Message, Exhausted, retry_count
  <2>2. /\ DOMAIN messages' = DOMAIN messages
        /\ messages'[t].rejected = messages[t].rejected + 1
        /\ messages'[t].failures = messages[t].failures
        /\ messages'[t].place = "retry"
        /\ \A m \in DOMAIN messages : m # t => messages'[m] = messages[m]
    <3>1. messages' = [messages EXCEPT ![t].place = "retry", ![t].rejected = @ + 1]
      BY <1>3, <1>10 DEF Nack
    <3>2. messages[t] \in Messages
      BY <1>1, <2>1
    <3>3. PICK more : more = messages[t].rejected + 1
      OBVIOUS
    <3>4. messages' = [messages EXCEPT ![t] = [messages[t] EXCEPT !.place = "retry",
                                                                  !.rejected = more]]
      BY <2>1, <3>1, <3>3
    <3>5. messages'[t] = [messages[t] EXCEPT !.place = "retry", !.rejected = more]
      BY <2>1, <3>4
    <3> QED BY <2>1, <3>2, <3>3, <3>4, <3>5 DEF Messages
  <2>3. ASSUME NEW m \in DOMAIN messages
        PROVE  InBudget(m)'
    <3>1. CASE m = t
      <4>1. messages'[t].place \notin Consumers
        BY <2>2, PlacesAssumption DEF PlacesAssumption
      <4>2. messages[t].rejected \in Nat /\ messages[t].failures \in Nat
        BY <1>1, <2>1 DEF Messages
      <4> QED BY <1>1, <2>1, <2>2, <3>1, <4>1, <4>2, RetryAssumption DEF InBudget, RetryAssumption
    <3> QED BY <1>4, <1>5, <2>1, <2>2, <3>1
  <2> QED BY <2>1, <2>2, <2>3 DEF BudgetInv, InBudget
<1>11. CASE Reconnect(c)
  <2>1. /\ UNCHANGED <<messages, dlq>>
        /\ \A d \in Consumers : d # c => consumer'[d] = consumer[d]
    BY <1>1, <1>11 DEF Reconnect, broker
  <2>2. \A m \in DOMAIN messages : messages[m].place # c
    BY <1>3, <1>4, <1>11 DEF Reconnect, Connected, Message
  <2>3. \A m \in DOMAIN messages : InBudget(m)'
    BY <1>5, <2>1, <2>2
  <2> QED BY <2>1, <2>3 DEF BudgetInv, InBudget
<1> QED BY <1>6, <1>7, <1>8, <1>9, <1>10, <1>11 DEF OnMessage

\* Every step keeps the budget.
LEMMA NextBudget == DeliveryInv /\ [Next]_vars => BudgetInv'
<1> SUFFICES ASSUME DeliveryInv, [Next]_vars PROVE BudgetInv'
  OBVIOUS
<1> USE DEF DeliveryInv
<1>1. /\ consumer \in [Consumers -> ConsumerStates]
      /\ \A m \in DOMAIN messages : messages[m] \in Messages /\ InBudget(m)
      /\ faults \in Nat
  BY DEF Types, IsTable, BudgetInv, InBudget
<1>2. ASSUME NEW c \in Consumers, Connect(c)
      PROVE  BudgetInv'
  <2>1. /\ \A d \in Consumers : d # c => consumer'[d] = consumer[d]
        /\ UNCHANGED <<messages, dlq, faults>>
    BY <1>1, <1>2 DEF Connect
  <2>2. \A m \in DOMAIN messages : messages[m].place # c
    BY <1>2 DEF Connect, DeliveredInv, Busy
  <2>3. \A m \in DOMAIN messages : InBudget(m)'
    BY <1>1, <2>1, <2>2, OtherMessage
  <2> QED BY <2>1, <2>3 DEF BudgetInv, InBudget
<1>3. ASSUME NEW c \in Consumers, NEW m \in DOMAIN messages, Receive(c, m)
      PROVE  BudgetInv'
  <2>1. /\ consumer'[c].pc = "handle"
        /\ \A d \in Consumers : d # c => consumer'[d] = consumer[d]
        /\ messages[m].place = "queue"
        /\ UNCHANGED <<dlq, faults>>
    BY <1>1, <1>3 DEF Receive
  <2>2. /\ DOMAIN messages' = DOMAIN messages
        /\ messages'[m].rejected = messages[m].rejected
        /\ messages'[m].failures = messages[m].failures
        /\ messages'[m].place = c
        /\ \A k \in DOMAIN messages : k # m => messages'[k] = messages[k]
    BY <1>1, <1>3 DEF Receive, Messages
  <2>3. ASSUME NEW k \in DOMAIN messages
        PROVE  InBudget(k)'
    <3>1. CASE k = m
      <4>1. ~Decided(m)
        BY <2>1, PlacesAssumption DEF Decided, PlacesAssumption
      <4> QED BY <1>1, <2>1, <2>2, <3>1, <4>1 DEF InBudget
    <3>2. CASE k # m
      <4>1. messages[k].place # c
        BY <1>3 DEF Receive, DeliveredInv, Busy, Ready
      <4> QED BY <1>1, <2>1, <2>2, <3>2, <4>1, OtherMessage
    <3> QED BY <3>1, <3>2
  <2> QED BY <2>1, <2>2, <2>3 DEF BudgetInv, InBudget
<1>4. ASSUME NEW m \in DOMAIN messages, Expire(m)
      PROVE  BudgetInv'
  <2>1. UNCHANGED <<consumer, dlq, faults>> /\ messages[m].place = "retry"
    BY <1>4 DEF Expire
  <2>2. /\ DOMAIN messages' = DOMAIN messages
        /\ messages'[m].rejected = messages[m].rejected
        /\ messages'[m].failures = messages[m].failures
        /\ messages'[m].place = "queue"
        /\ \A k \in DOMAIN messages : k # m => messages'[k] = messages[k]
    BY <1>1, <1>4 DEF Expire, Messages
  <2>3. ASSUME NEW k \in DOMAIN messages
        PROVE  InBudget(k)'
    <3>1. Decided(k)' <=> Decided(k)
      BY <2>1, <2>2, PlacesAssumption DEF Decided, PlacesAssumption
    <3>2. messages'[k].place = messages[k].place \/ messages'[k].place \notin Consumers
      BY <2>2, PlacesAssumption DEF PlacesAssumption
    <3>3. messages'[k].rejected = messages[k].rejected /\ messages'[k].failures = messages[k].failures
      BY <2>2
    <3> QED BY <1>1, <2>1, <3>1, <3>2, <3>3 DEF InBudget
  <2> QED BY <2>1, <2>2, <2>3 DEF BudgetInv, InBudget
<1>5. CASE UNCHANGED vars
  BY <1>5 DEF vars, broker, BudgetInv, Decided
<1> QED BY <1>2, <1>3, <1>4, <1>5, ConnectionBudget, HandlerBudget, OutboxStepsFrame DEF Next

--------------------------------------------------------------------------------
(* The invariant of the delivery *)

\* It holds at the start: no row, no message, every consumer down.
LEMMA InitDelivery == Init => DeliveryInv
<1> SUFFICES ASSUME Init PROVE DeliveryInv
  OBVIOUS
<1>1. Types
  <2>1. \A t : t = << >> => t = [k \in DOMAIN t |-> t[k]] /\ DOMAIN t = {}
    OBVIOUS
  <2>2. IsFiniteSet(DOMAIN messages)
    BY <2>1, FS_EmptySet DEF Init
  <2> QED BY <2>1, <2>2, QueueAssumption
          DEF Init, Types, IsTable, Batches, NoBatch, ConsumerStates, QueueAssumption
<1>2. BatchesInv /\ CopiesInv
  BY DEF Init, BatchesInv, CopiesInv, NoBatch, Out
<1>3. DeliveredInv /\ EffectsInv /\ BudgetInv
  BY DEF Init, DeliveredInv, EffectsInv, BudgetInv, Busy, Down
<1> QED BY <1>1, <1>2, <1>3 DEF DeliveryInv

\* DeliveryInv is inductive.
LEMMA NextDelivery == DeliveryInv /\ [Next]_vars => DeliveryInv'
  BY NextTypes, NextBatches, NextDelivered, NextEffects, NextBudget DEF DeliveryInv

\* It holds always.
LEMMA DeliveryInvariant == Spec => []DeliveryInv
  BY InitDelivery, NextDelivery, PTL DEF Spec

\* The outbox threads of several replicas share the work: a row is sent twice only if
\* something failed in between, whatever the batches and however many the threads.
THEOREM CopiesBounded == Spec => []OneCopyUnlessFault
<1>1. DeliveryInv => OneCopyUnlessFault
  BY DEF DeliveryInv, CopiesInv, OneCopyUnlessFault, Types
<1> QED BY <1>1, DeliveryInvariant, PTL

\* A message is dead-lettered after max_retries + 1 failures of its handler and not
\* before, whichever consumers it went to in between.
THEOREM RetriesBudgeted == Spec => []RetryBudget
<1>1. ASSUME DeliveryInv PROVE RetryBudget
  <2>1. ASSUME NEW m \in DOMAIN messages
        PROVE  messages[m].failures <= MaxRetries + 1 + faults
    <3>1. messages[m].rejected \in Nat /\ messages[m].failures \in Nat /\ faults \in Nat
      BY <1>1 DEF DeliveryInv, Types, IsTable, Messages
    <3> QED BY <1>1, <3>1, RetryAssumption DEF DeliveryInv, BudgetInv, RetryAssumption
  <2> QED BY <1>1, <2>1 DEF DeliveryInv, BudgetInv, RetryBudget
<1> QED BY <1>1, DeliveryInvariant, PTL

--------------------------------------------------------------------------------
(* Published events are kept *)

\* What keeps an event: its effect, a copy at the broker, a dead letter.
Kept(e) ==
    \/ e \in processed
    \/ \E m \in DOMAIN messages : messages[m].event = e
    \/ DeadLettered(e)

\* An event that is out after a step of the outbox was out before, or is a message of
\* that step.
LEMMA OutboxKeeps ==
    ASSUME DeliveryInv, declared, NEW e \in Ranks, Out(e)',
           \/ \E f \in Ranks : Write(f)
           \/ \E p \in Publishers : Publish(p) \/ AbandonBatch(p)
    PROVE  Out(e) \/ \E m \in DOMAIN messages' : messages'[m].event = e
<1> USE DEF DeliveryInv
<1>1. relay \in [Publishers -> Batches]
  BY DEF Types
<1>2. ASSUME NEW f \in Ranks, Write(f)
      PROVE  Out(e)
  <2>1. /\ f \notin DOMAIN outbox
        /\ DOMAIN outbox' = DOMAIN outbox \cup {f}
        /\ outbox'[f] = "unpublished"
        /\ \A g \in DOMAIN outbox : outbox'[g] = outbox[g]
        /\ UNCHANGED relay
    BY <1>2 DEF Write, Put
  <2> QED BY <2>1 DEF Out
<1>3. ASSUME NEW p \in Publishers, SelectBatch(p)
      PROVE  Out(e)
  <2>1. PICK R : R = Oldest(Unlocked)
    OBVIOUS
  <2>2. /\ relay'[p].sent = relay[p].sent
        /\ \A q \in Publishers : q # p => relay'[q] = relay[q]
        /\ UNCHANGED outbox
    BY <1>1, <1>3, <2>1 DEF SelectBatch, Batches
  <2> QED BY <2>2 DEF Out
<1>4. ASSUME NEW p \in Publishers, PublishRow(p)
      PROVE  Out(e) \/ \E m \in DOMAIN messages' : messages'[m].event = e
  <2>1. PICK f : f = Min(Unsent(p))
    OBVIOUS
  <2>2. f \in Ranks
    BY <1>4, <2>1, UnsentRow DEF PublishRow
  <2>3. \E m \in DOMAIN messages' : messages'[m] = NewMessage(f)
    BY <1>4, <2>1, <2>2, Accepted DEF PublishRow
  <2>4. /\ relay'[p].sent = relay[p].sent \cup {f}
        /\ \A q \in Publishers : q # p => relay'[q] = relay[q]
        /\ UNCHANGED outbox
    BY <1>1, <1>4, <2>1 DEF PublishRow, Batches
  <2>5. Out(e) \/ e = f
    BY <2>4 DEF Out
  <2> QED BY <2>3, <2>5 DEF NewMessage
<1>5. ASSUME NEW p \in Publishers, CommitBatch(p)
      PROVE  Out(e)
  <2>1. /\ relay'[p].sent = {}
        /\ relay[p].rows \subseteq relay[p].sent
        /\ \A q \in Publishers : q # p => relay'[q] = relay[q]
        /\ outbox' = [f \in DOMAIN outbox |->
                        IF f \in relay[p].rows THEN "published" ELSE outbox[f]]
    BY <1>1, <1>5 DEF CommitBatch, NoBatch, Unsent
  <2> QED BY <2>1 DEF Out
<1>6. ASSUME NEW p \in Publishers, AbandonBatch(p)
      PROVE  Out(e)
  <2>1. /\ relay'[p].sent = {}
        /\ \A q \in Publishers : q # p => relay'[q] = relay[q]
        /\ UNCHANGED outbox
    BY <1>1, <1>6 DEF AbandonBatch, NoBatch
  <2> QED BY <2>1 DEF Out
<1> QED BY <1>2, <1>3, <1>4, <1>5, <1>6 DEF Publish

\* A message leaves the broker only for an acknowledgement, which its event's effect
\* or its dead letter precedes.
LEMMA ConsumersKeep ==
    ASSUME DeliveryInv, NEW e \in Ranks, Kept(e),
           \/ \E c \in Consumers : Connect(c) \/ CrashConsumer(c) \/ LoseConnection(c) \/ OnMessage(c)
           \/ \E c \in Consumers, m \in DOMAIN messages : Receive(c, m)
           \/ \E m \in DOMAIN messages : Expire(m)
    PROVE  Kept(e)'
<1> USE DEF DeliveryInv
<1>1. \A m \in DOMAIN messages : messages[m] \in Messages
  BY DEF Types, IsTable
<1>2. processed \subseteq processed' /\ dlq \subseteq dlq'
  BY DEF Connect, CrashConsumer, LoseConnection, OnMessage, Receive, Expire, Skip, TakeEffect,
         Raise, Ack, Park, Nack, Reconnect, broker, database
<1>3. ASSUME NEW c \in Consumers, Ack(c)
      PROVE  Kept(e)'
  <2>1. PICK t : t = consumer[c].tag
    OBVIOUS
  <2>2. /\ consumer[c].pc = "ack"
        /\ t \in DOMAIN messages /\ messages[t].place = c
        /\ DOMAIN messages' = DOMAIN messages \ {t}
        /\ \A m \in DOMAIN messages' : messages'[m] = messages[m]
    BY <1>3, <2>1, Acknowledged DEF Ack, Connected, Message
  <2>3. messages[t].event \in processed \/ DeadLettered(messages[t].event)
    BY <2>2 DEF DeliveredInv, EffectsInv
  <2> QED BY <1>2, <2>2, <2>3 DEF Kept, DeadLettered
<1>4. ASSUME DOMAIN messages' = DOMAIN messages,
             \A m \in DOMAIN messages : messages'[m].event = messages[m].event
      PROVE  Kept(e)'
  BY <1>2, <1>4 DEF Kept, DeadLettered
<1>5. ASSUME NEW c \in Consumers, CrashConsumer(c) \/ LoseConnection(c)
      PROVE  Kept(e)'
  <2>1. messages' = Requeue(c)
    BY <1>5 DEF CrashConsumer, LoseConnection
  <2> QED BY <1>4, <2>1, Requeued
<1>6. ASSUME NEW c \in Consumers, Raise(c) \/ Nack(c)
      PROVE  Kept(e)'
  <2>1. /\ DOMAIN messages' = DOMAIN messages
        /\ \A m \in DOMAIN messages : messages'[m].event = messages[m].event
    BY <1>1, <1>6 DEF Raise, Nack, Messages
  <2> QED BY <1>4, <2>1
<1>7. ASSUME NEW m \in DOMAIN messages, (\E c \in Consumers : Receive(c, m)) \/ Expire(m)
      PROVE  Kept(e)'
  <2>1. /\ DOMAIN messages' = DOMAIN messages
        /\ \A k \in DOMAIN messages : messages'[k].event = messages[k].event
    <3>1. CASE \E c \in Consumers : Receive(c, m)
      BY <1>1, <3>1 DEF Receive, Messages
    <3>2. CASE Expire(m)
      BY <1>1, <3>2 DEF Expire, Messages
    <3> QED BY <1>7, <3>1, <3>2
  <2> QED BY <1>4, <2>1
<1>8. ASSUME NEW c \in Consumers, Connect(c) \/ Skip(c) \/ TakeEffect(c) \/ Park(c) \/ Reconnect(c)
      PROVE  Kept(e)'
  <2>1. UNCHANGED messages
    BY <1>8 DEF Connect, Skip, TakeEffect, Park, Reconnect, broker
  <2> QED BY <1>4, <2>1
<1> QED BY <1>3, <1>5, <1>6, <1>7, <1>8 DEF OnMessage

\* Once the queue exists, no step loses an event that is out.
LEMMA NextKept == DeliveryInv /\ KeptInv /\ [Next]_vars => KeptInv'
<1> SUFFICES ASSUME DeliveryInv, KeptInv, [Next]_vars PROVE KeptInv'
  OBVIOUS
<1>1. declared /\ \A e \in Ranks : Out(e) => Kept(e)
  BY DEF KeptInv, Kept
<1>2. SUFFICES declared' /\ \A e \in Ranks : Out(e)' => Kept(e)'
  BY DEF KeptInv, Kept
<1>3. CASE \/ \E e \in Ranks : Write(e)
           \/ \E p \in Publishers : Publish(p) \/ AbandonBatch(p)
  <2>1. /\ UNCHANGED <<consumer, dlq, processed, effects, declared>>
        /\ \A m \in DOMAIN messages : m \in DOMAIN messages' /\ messages'[m] = messages[m]
    BY <1>3, OutboxSteps
  <2>2. \A e \in Ranks : Kept(e) => Kept(e)'
    BY <2>1 DEF Kept, DeadLettered
  <2>3. \A e \in Ranks : Out(e)' => Out(e) \/ \E m \in DOMAIN messages' : messages'[m].event = e
    BY <1>1, <1>3, OutboxKeeps
  <2> QED BY <1>1, <2>1, <2>2, <2>3 DEF Kept
<1>4. CASE \/ \E c \in Consumers : Connect(c) \/ CrashConsumer(c) \/ LoseConnection(c) \/ OnMessage(c)
           \/ \E c \in Consumers, m \in DOMAIN messages : Receive(c, m)
           \/ \E m \in DOMAIN messages : Expire(m)
  <2>1. UNCHANGED <<outbox, relay>>
    BY <1>4, NotTheOutbox DEF DeliveryInv
  <2>2. \A e \in Ranks : Out(e)' <=> Out(e)
    BY <2>1 DEF Out
  <2>3. \A e \in Ranks : Kept(e) => Kept(e)'
    BY <1>4, ConsumersKeep
  <2>4. declared'
    BY <1>1, <1>4 DEF Connect, CrashConsumer, LoseConnection, OnMessage, Receive, Expire, Skip,
                      TakeEffect, Raise, Ack, Park, Nack, Reconnect, broker
  <2> QED BY <1>1, <2>2, <2>3, <2>4
<1>5. CASE UNCHANGED vars
  BY <1>1, <1>5 DEF vars, broker, database, Out, Kept, DeadLettered
<1> QED BY <1>3, <1>4, <1>5 DEF Next

\* An event marked as published has not disappeared, if the consumer's queue existed
\* when the publisher started (without that it may: MCEventDeliveryFirstBoot).
THEOREM PublishedAreKept ==
    ASSUME QueueDeclared
    PROVE  Spec => []PublishedIsKept
<1>1. Init => KeptInv
  BY DEF Init, KeptInv, Out, NoBatch
<1>2. DeliveryInv /\ KeptInv => PublishedIsKept
  BY DEF DeliveryInv, Types, IsTable, KeptInv, Out, PublishedIsKept, DeadLettered
<1> QED BY <1>1, <1>2, NextKept, DeliveryInvariant, PTL DEF Spec

--------------------------------------------------------------------------------
(* The contract *)

\* Every step writes an event, commits its one effect, parks it, or changes nothing
\* that the contract speaks of.
LEMMA NextContract == DeliveryInv /\ [Next]_vars => [Contract!Next]_Contract!vars
<1> SUFFICES ASSUME DeliveryInv, [Next]_vars PROVE [Contract!Next]_Contract!vars
  OBVIOUS
<1> USE DEF DeliveryInv
<1>1. ASSUME UNCHANGED <<effects, dlq>>, DOMAIN outbox' = DOMAIN outbox
      PROVE  [Contract!Next]_Contract!vars
  BY <1>1 DEF Contract!vars
<1>2. ASSUME NEW e \in Ranks, Write(e)
      PROVE  [Contract!Next]_Contract!vars
  <2>1. Contract!Write(e)
    BY <1>2 DEF Write, Put, database, broker, Contract!Write
  <2> QED BY <2>1 DEF Contract!Next
<1>3. ASSUME NEW p \in Publishers, Publish(p) \/ AbandonBatch(p)
      PROVE  [Contract!Next]_Contract!vars
  <2>1. UNCHANGED <<effects, dlq>> /\ DOMAIN outbox' = DOMAIN outbox
    BY <1>3 DEF Publish, SelectBatch, PublishRow, CommitBatch, AbandonBatch, database, broker
  <2> QED BY <1>1, <2>1
<1>4. ASSUME NEW c \in Consumers, TakeEffect(c)
      PROVE  [Contract!Next]_Contract!vars
  <2>1. PICK e : e = consumer[c].event
    OBVIOUS
  <2>2. e \in DOMAIN outbox /\ e \in Ranks
    BY <1>4, <2>1, BusyConsumer DEF TakeEffect, DeliveredInv, Busy
  <2>3. effects[e] = 0
    BY <1>4, <2>1, <2>2 DEF TakeEffect, Event, EffectsInv
  <2>4. effects' = [effects EXCEPT ![e] = 1]
    BY <1>4, <2>1, <2>2, <2>3 DEF TakeEffect, Event, Types
  <2>5. Contract!TakeEffect(e)
    BY <1>4, <2>2, <2>3, <2>4 DEF TakeEffect, broker, Contract!TakeEffect
  <2> QED BY <2>2, <2>5 DEF Contract!Next
<1>5. ASSUME NEW c \in Consumers, Park(c)
      PROVE  [Contract!Next]_Contract!vars
  <2>1. PICK e : e = consumer[c].event
    OBVIOUS
  <2>2. PICK letter : letter = [event |-> e, failures |-> Message(c).failures]
    OBVIOUS
  <2>3. letter.event = e /\ dlq' = dlq \cup {letter}
    BY <1>5, <2>1, <2>2 DEF Park, Event
  <2>4. e \in DOMAIN outbox /\ e \in Ranks
    BY <1>5, <2>1, BusyConsumer DEF Park, DeliveredInv, Busy
  <2>5. {d.event : d \in dlq'} = {d.event : d \in dlq} \cup {e}
    BY <2>3
  <2>6. Contract!Park(e)
    BY <1>5, <2>4, <2>5 DEF Park, database, Contract!Park
  <2> QED BY <2>4, <2>6 DEF Contract!Next
<1>6. ASSUME NEW c \in Consumers,
             \/ Connect(c) \/ CrashConsumer(c) \/ LoseConnection(c)
             \/ Skip(c) \/ Raise(c) \/ Ack(c) \/ Nack(c) \/ Reconnect(c)
             \/ \E m \in DOMAIN messages : Receive(c, m)
      PROVE  [Contract!Next]_Contract!vars
  <2>1. UNCHANGED <<effects, dlq, outbox>>
    BY <1>6 DEF Connect, CrashConsumer, LoseConnection, Skip, Raise, Ack, Nack, Reconnect, Receive,
                database, broker
  <2> QED BY <1>1, <2>1
<1>7. ASSUME NEW m \in DOMAIN messages, Expire(m)
      PROVE  [Contract!Next]_Contract!vars
  BY <1>1, <1>7 DEF Expire, database
<1>8. CASE UNCHANGED vars
  BY <1>1, <1>8 DEF vars, database, broker
<1> QED BY <1>2, <1>3, <1>4, <1>5, <1>6, <1>7, <1>8 DEF Next, OnMessage

\* Outbox, broker and idempotent consumer together keep the contract: an event takes
\* effect at most once and only if it was committed, whatever connections, processes
\* and handlers fail (the safety part of ImplementsContract).
THEOREM DeliveryKeepsContract == Spec => Contract!Spec
<1>1. Init => Contract!Init
  BY DEF Init, Contract!Init
<1> QED BY <1>1, NextContract, DeliveryInvariant, PTL DEF Spec, Contract!Spec

================================================================================
