----------------------------- MODULE EventDelivery -----------------------------
(*****************************************************************************)
(* One service's outbox, the broker, and one consumer service's queue:       *)
(* OutboxPublisher threads of the publishing replicas, RabbitMQ with the     *)
(* topology that _declare_topology sets up, and ReliableConsumer threads of  *)
(* the consuming replicas with an idempotent handler.                        *)
(*                                                                           *)
(* An event is the rank of its outbox row in created_at order. Rows are      *)
(* committed in any order. A message is one published copy of an event; a    *)
(* prefetched message that no handler has begun counts as queued, since      *)
(* it goes back to the queue whenever its consumer's connection ends.        *)
(*****************************************************************************)
EXTENDS Events, FiniteSetsExt

CONSTANTS
    Ranks,           \* the events, by rank
    Poison,          \* the events whose handler always raises
    Publishers,      \* the outbox threads
    Consumers,       \* the consumer threads
    BatchSize,       \* batch_size
    MaxRetries,      \* max_retries
    QueueDeclared,   \* did an earlier start of the consumer declare its queue
    MaxFaults        \* bound: failures of connections, processes and handlers

ASSUME RanksAssumption == Ranks \subseteq Nat /\ IsFiniteSet(Ranks) /\ Poison \subseteq Ranks
ASSUME BatchAssumption == BatchSize \in Nat \ {0}
ASSUME RetryAssumption == MaxRetries \in Nat /\ MaxFaults \in Nat
ASSUME QueueAssumption == QueueDeclared \in BOOLEAN
ASSUME PlacesAssumption == "queue" \notin Consumers /\ "retry" \notin Consumers

VARIABLES
    outbox,      \* table outbox_events of the publishing service: is it published
    relay,       \* each outbox thread: the batch it has locked, the rows it has sent
    declared,    \* does the consumer's queue exist, bound to the exchange
    messages,    \* the copies at the broker that are not acknowledged
    dlq,         \* the dead-letter queue
    consumer,    \* each consumer thread
    processed,   \* table processed_events of the consuming service
    effects,     \* history: commits of an event's handler
    copies,      \* history: copies of an event the broker accepted
    faults       \* failures so far

broker == <<declared, messages, dlq>>
database == <<processed, effects>>
vars == <<outbox, relay, broker, consumer, database, copies, faults>>

Contract == INSTANCE DeliveryContract WITH
    Events <- Ranks,
    written <- DOMAIN outbox,
    parked <- {d.event : d \in dlq}

NoBatch == [rows |-> {}, sent |-> {}]
Down == [pc |-> "down"]
Ready == [pc |-> "ready"]

Init ==
    /\ outbox = << >>
    /\ relay = [p \in Publishers |-> NoBatch]
    /\ declared = QueueDeclared
    /\ messages = << >>
    /\ dlq = {}
    /\ consumer = [c \in Consumers |-> Down]
    /\ processed = {}
    /\ effects = [e \in Ranks |-> 0]
    /\ copies = [e \in Ranks |-> 0]
    /\ faults = 0

Fault == faults < MaxFaults /\ faults' = faults + 1

--------------------------------------------------------------------------------
(* The outbox *)

\* A handler or a request of the publishing service commits an event.
Write(e) ==
    /\ e \notin DOMAIN outbox
    /\ outbox' = Put(outbox, e, "unpublished")
    /\ UNCHANGED <<relay, broker, consumer, database, copies, faults>>

\* Mutant: the rows other outbox threads have locked are not skipped.
Unlocked_AnyRow == {e \in DOMAIN outbox : outbox[e] = "unpublished"}

\* SELECT ... WHERE published_at IS NULL ... FOR UPDATE SKIP LOCKED: the rows no
\* other outbox thread holds.
Unlocked ==
    {e \in DOMAIN outbox : /\ outbox[e] = "unpublished"
                           /\ \A p \in Publishers : e \notin relay[p].rows}

\* ORDER BY created_at LIMIT batch_size.
Oldest(rows) == {e \in rows : Cardinality({f \in rows : f < e}) < BatchSize}

SelectBatch(p) ==
    /\ relay[p] = NoBatch
    /\ Unlocked # {}
    /\ relay' = [relay EXCEPT ![p].rows = Oldest(Unlocked)]
    /\ UNCHANGED <<outbox, broker, consumer, database, copies, faults>>

\* A copy of e: where it is, the x-death counts of its rejections from the queue
\* and its expiries from the retry queue, and, as history, how often its handler
\* has raised.
NewMessage(e) == [event |-> e, place |-> "queue", rejected |-> 0, expired |-> 0, failures |-> 0]

FreeTag == Min((1..Cardinality(DOMAIN messages) + 1) \ DOMAIN messages)

\* A copy the broker accepts: the exchange routes it to the queue, or drops it
\* when no queue is bound. The publisher is told the same either way, since the
\* message is not mandatory.
Accept(e) ==
    /\ messages' = IF declared THEN Put(messages, FreeTag, NewMessage(e)) ELSE messages
    /\ copies' = [copies EXCEPT ![e] = @ + 1]

Unsent(p) == relay[p].rows \ relay[p].sent

\* publisher.publish of the next row of the batch, confirmed by the broker.
PublishRow(p) ==
    /\ Unsent(p) # {}
    /\ Accept(Min(Unsent(p)))
    /\ relay' = [relay EXCEPT ![p].sent = @ \cup {Min(Unsent(p))}]
    /\ UNCHANGED <<outbox, declared, dlq, consumer, database, faults>>

\* Mutant: the batch is committed before its rows have been sent.
CommitBatch_First(p) ==
    /\ relay[p] # NoBatch
    /\ outbox' = [e \in DOMAIN outbox |->
                    IF e \in relay[p].rows THEN "published" ELSE outbox[e]]
    /\ relay' = [relay EXCEPT ![p] = NoBatch]
    /\ UNCHANGED <<broker, consumer, database, copies, faults>>

\* All rows are sent: the commit that sets their published_at.
CommitBatch(p) ==
    /\ relay[p] # NoBatch
    /\ Unsent(p) = {}
    /\ outbox' = [e \in DOMAIN outbox |->
                    IF e \in relay[p].rows THEN "published" ELSE outbox[e]]
    /\ relay' = [relay EXCEPT ![p] = NoBatch]
    /\ UNCHANGED <<broker, consumer, database, copies, faults>>

\* The batch does not commit: a publish raises, with or without the broker having
\* accepted the copy, the commit raises, or the replica dies. Rollback: every row
\* of the batch is unpublished again, also those that were sent.
AbandonBatch(p) ==
    /\ relay[p] # NoBatch
    /\ Fault
    /\ \/ UNCHANGED <<messages, copies>>
       \/ Unsent(p) # {} /\ Accept(Min(Unsent(p)))
    /\ relay' = [relay EXCEPT ![p] = NoBatch]
    /\ UNCHANGED <<outbox, declared, dlq, consumer, database>>

--------------------------------------------------------------------------------
(* The connection of a consumer *)

\* _connect, _declare_topology, basic_consume. Declaring what exists already
\* changes nothing.
Connect(c) ==
    /\ consumer[c].pc = "down"
    /\ consumer' = [consumer EXCEPT ![c] = Ready]
    /\ declared' = TRUE
    /\ UNCHANGED <<outbox, relay, messages, dlq, database, copies, faults>>

\* Mutant: auto_ack, the broker forgets a message when it has delivered it.
Requeue_AutoAck(c) ==
    [m \in {k \in DOMAIN messages : messages[k].place # c} |-> messages[m]]

\* What the broker does with the message c has not acknowledged.
Requeue(c) ==
    [m \in DOMAIN messages |->
        IF messages[m].place = c THEN [messages[m] EXCEPT !.place = "queue"] ELSE messages[m]]

\* The replica is stopped or dies: its open transaction is rolled back.
CrashConsumer(c) ==
    /\ consumer[c].pc # "down"
    /\ Fault
    /\ consumer' = [consumer EXCEPT ![c] = Down]
    /\ messages' = Requeue(c)
    /\ UNCHANGED <<outbox, relay, declared, dlq, database, copies>>

\* The connection is lost (a broker restart, a heartbeat missed during a long
\* handler): the handler does not notice and goes on, while the message can
\* already be delivered to another consumer.
LoseConnection(c) ==
    /\ \E m \in DOMAIN messages : messages[m].place = c
    /\ Fault
    /\ messages' = Requeue(c)
    /\ UNCHANGED <<outbox, relay, declared, dlq, consumer, database, copies>>

--------------------------------------------------------------------------------
(* ReliableConsumer._on_message *)

Message(c) == messages[consumer[c].tag]
Event(c) == consumer[c].event

\* The message c works on is still its to acknowledge.
Connected(c) ==
    /\ consumer[c].tag \in DOMAIN messages
    /\ Message(c).place = c

\* The broker delivers a message; the handler looks for its ProcessedEvent.
Receive(c, m) ==
    /\ consumer[c] = Ready
    /\ messages[m].place = "queue"
    /\ messages' = [messages EXCEPT ![m].place = c]
    /\ consumer' = [consumer EXCEPT ![c] =
                      [pc    |-> "handle",
                       tag   |-> m,
                       event |-> messages[m].event,
                       seen  |-> messages[m].event \in processed]]
    /\ UNCHANGED <<outbox, relay, declared, dlq, database, copies, faults>>

Goto(c, pc) == consumer' = [consumer EXCEPT ![c].pc = pc]

\* The event was processed before: the handler returns.
Skip(c) ==
    /\ consumer[c].pc = "handle"
    /\ consumer[c].seen
    /\ Goto(c, "ack")
    /\ UNCHANGED <<outbox, relay, broker, database, copies, faults>>

\* Mutant: processed_events has no primary key.
TakeEffect_NoKey(c) ==
    /\ consumer[c].pc = "handle"
    /\ ~consumer[c].seen
    /\ Event(c) \notin Poison
    /\ processed' = processed \cup {Event(c)}
    /\ effects' = [effects EXCEPT ![Event(c)] = @ + 1]
    /\ Goto(c, "ack")
    /\ UNCHANGED <<outbox, relay, broker, copies, faults>>

\* The handler commits its changes with the ProcessedEvent.
TakeEffect(c) ==
    /\ consumer[c].pc = "handle"
    /\ ~consumer[c].seen
    /\ Event(c) \notin Poison \cup processed
    /\ processed' = processed \cup {Event(c)}
    /\ effects' = [effects EXCEPT ![Event(c)] = @ + 1]
    /\ Goto(c, "ack")
    /\ UNCHANGED <<outbox, relay, broker, copies, faults>>

\* The handler raises: another consumer's commit took the key of the
\* ProcessedEvent, the event cannot be handled, or a statement fails this time.
Raise(c) ==
    /\ consumer[c].pc = "handle"
    /\ \/ ~consumer[c].seen /\ Event(c) \in Poison \cup processed /\ UNCHANGED faults
       \/ Fault
    /\ Goto(c, "failed")
    /\ messages' = IF Connected(c)
                   THEN [messages EXCEPT ![consumer[c].tag].failures = @ + 1]
                   ELSE messages
    /\ UNCHANGED <<outbox, relay, declared, dlq, database, copies>>

\* basic_ack after the handler returned or the message was parked.
Ack(c) ==
    /\ consumer[c].pc = "ack"
    /\ Connected(c)
    /\ messages' = Delete(messages, {consumer[c].tag})
    /\ consumer' = [consumer EXCEPT ![c] = Ready]
    /\ UNCHANGED <<outbox, relay, declared, dlq, database, copies, faults>>

\* Mutant: every x-death entry is counted.
retry_count_AllDeaths(message) == message.rejected + message.expired

\* _retry_count: the deaths in this queue whose reason is a rejection.
retry_count(message) == message.rejected

\* Mutant: one retry too many.
Exhausted_OffByOne(message) == retry_count(message) > MaxRetries

Exhausted(message) == retry_count(message) >= MaxRetries

\* The last failure: the message is copied to the dead-letter queue, and then
\* acknowledged.
Park(c) ==
    /\ consumer[c].pc = "failed"
    /\ Connected(c)
    /\ Exhausted(Message(c))
    /\ dlq' = dlq \cup {[event |-> Event(c), failures |-> Message(c).failures]}
    /\ Goto(c, "ack")
    /\ UNCHANGED <<outbox, relay, declared, messages, database, copies, faults>>

\* basic_nack without requeue: the broker moves the message to the retry queue.
Nack(c) ==
    /\ consumer[c].pc = "failed"
    /\ Connected(c)
    /\ ~Exhausted(Message(c))
    /\ messages' = [messages EXCEPT ![consumer[c].tag].place = "retry",
                                    ![consumer[c].tag].rejected = @ + 1]
    /\ consumer' = [consumer EXCEPT ![c] = Ready]
    /\ UNCHANGED <<outbox, relay, declared, dlq, database, copies, faults>>

\* retry_delay_ms have passed: the broker moves the message back to the queue.
Expire(m) ==
    /\ messages[m].place = "retry"
    /\ messages' = [messages EXCEPT ![m].place = "queue", ![m].expired = @ + 1]
    /\ UNCHANGED <<outbox, relay, declared, dlq, consumer, database, copies, faults>>

\* Acknowledging on a lost connection raises, and rejecting in the except branch
\* raises again, out of start_consuming: run_forever connects anew.
Reconnect(c) ==
    /\ consumer[c].pc \in {"ack", "failed"}
    /\ ~Connected(c)
    /\ consumer' = [consumer EXCEPT ![c] = Down]
    /\ UNCHANGED <<outbox, relay, broker, database, copies, faults>>

--------------------------------------------------------------------------------

Publish(p) == SelectBatch(p) \/ PublishRow(p) \/ CommitBatch(p)

OnMessage(c) ==
    \/ Skip(c)
    \/ TakeEffect(c)
    \/ Raise(c)
    \/ Ack(c)
    \/ Park(c)
    \/ Nack(c)
    \/ Reconnect(c)

Next ==
    \/ \E e \in Ranks : Write(e)
    \/ \E p \in Publishers : Publish(p) \/ AbandonBatch(p)
    \/ \E c \in Consumers : Connect(c) \/ CrashConsumer(c) \/ LoseConnection(c) \/ OnMessage(c)
    \/ \E c \in Consumers, m \in DOMAIN messages : Receive(c, m)
    \/ \E m \in DOMAIN messages : Expire(m)

\* The threads loop until they are stopped and _connect retries, the retry queue
\* has a TTL, and a queue is first in, first out: a message is not overtaken for
\* ever, hence strong fairness of its delivery. No event has to be written.
Fairness ==
    /\ \A p \in Publishers : WF_vars(Publish(p))
    /\ \A c \in Consumers : WF_vars(Connect(c)) /\ WF_vars(OnMessage(c))
    /\ \A m \in 1..(Cardinality(Ranks) + MaxFaults) :
          /\ SF_vars(m \in DOMAIN messages /\ \E c \in Consumers : Receive(c, m))
          /\ WF_vars(m \in DOMAIN messages /\ Expire(m))

Spec == Init /\ [][Next]_vars
FairSpec == Spec /\ Fairness

--------------------------------------------------------------------------------
(* Properties *)

\* An event takes effect at most once and is settled in the end, whatever
\* connections, replicas and handlers fail (a bounded number of times).
ImplementsContract == Contract!FairSpec

\* An event marked as published has not disappeared: it took effect, or a copy
\* of it is in the queue, in the retry queue, with a consumer or dead-lettered.
PublishedIsKept ==
    \A e \in DOMAIN outbox : outbox[e] = "published" =>
        \/ e \in processed
        \/ \E m \in DOMAIN messages : messages[m].event = e
        \/ \E d \in dlq : d.event = e

\* The outbox threads of several replicas share the work: a row is sent twice
\* only if something failed in between.
OneCopyUnlessFault == \A e \in Ranks : copies[e] <= 1 + faults

\* A message is dead-lettered after max_retries + 1 failures of its handler and
\* not before; failures beyond that come only from lost connections. Deliveries
\* that end without the handler raising do not use up retries.
RetryBudget ==
    /\ \A d \in dlq : d.failures > MaxRetries
    /\ \A m \in DOMAIN messages : messages[m].failures <= MaxRetries + 1 + faults

================================================================================
