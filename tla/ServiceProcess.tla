---------------------------- MODULE ServiceProcess -----------------------------
(*****************************************************************************)
(* The process of one replica of a service, from start to exit: the lifespan *)
(* in the main thread, ReliableConsumer.run_forever and                      *)
(* OutboxPublisher.run_forever in daemon threads, while the database and the *)
(* broker come and go. stop() works from the main thread on objects that the *)
(* other two threads are using.                                              *)
(*                                                                           *)
(* Which message a handler gets and where copies go is the subject of        *)
(* EventDelivery; here a handler is only something that takes time. A broker *)
(* connection is lost in an outage, or alone: RabbitMQ closes one that has   *)
(* missed its heartbeats, and nobody services the publisher's between two    *)
(* batches. pika says is_open until the next use of a lost connection. The   *)
(* other replicas appear as somebody who may create the tables or the item.  *)
(*****************************************************************************)
EXTENDS Events, FiniteSetsExt

CONSTANTS
    Services,     \* the services whose process is looked at
    Rows,         \* the rows the service may write to its outbox
    Attempts,     \* attempts of initialize_database and of _connect
    MaxStarts,    \* bound: starts of the process
    MaxFaults     \* bound: outages, and connections lost without one

ASSUME ServicesAssumption == Services \subseteq {"order", "inventory", "payment", "notification"}
ASSUME AttemptsAssumption == Attempts \in Nat \ {0}

VARIABLES
    service,     \* the service this is a process of
    up,          \* what can be reached: the database, the broker
    outages,     \* outages, and connections lost alone, so far
    tables,      \* what the database holds: tables, and the seeded item
    rows,        \* table outbox_events: is a row published
    confirmed,   \* history: the rows of which the broker confirmed a copy
    main,        \* the main thread: lifespan, and how stop() found the consumer
    starts,      \* starts of the process so far
    consumer,    \* the ReliableConsumer and the thread in run_forever
    relay,       \* the OutboxPublisher and the thread in run_forever
    publisher    \* its RabbitPublisher: connection and channel, shared with stop()

environment == <<service, up, outages, starts>>
database == <<tables, rows, confirmed>>
outboxVars == <<relay, publisher>>
vars == <<environment, database, main, consumer, outboxVars>>

--------------------------------------------------------------------------------
(* The lifespans *)

order_lifespan        == [seeds |-> FALSE, publishes |-> TRUE]
inventory_lifespan    == [seeds |-> TRUE,  publishes |-> TRUE]
payment_lifespan      == [seeds |-> FALSE, publishes |-> TRUE]
notification_lifespan == [seeds |-> FALSE, publishes |-> FALSE]

lifespan ==
    CASE service = "order"        -> order_lifespan
      [] service = "inventory"    -> inventory_lifespan
      [] service = "payment"      -> payment_lifespan
      [] service = "notification" -> notification_lifespan

\* No object yet, or none any more: before the threads start and after the exit.
NoConnection == [connection |-> "none", channel |-> "none"]
NoConsumer == [pc |-> "off", left |-> 0, stop |-> FALSE, callback |-> "none",
               connection |-> "none", channel |-> "none"]
NoRelay == [pc |-> "off", left |-> 0, stop |-> FALSE, batch |-> {}, sent |-> {}, session |-> "none"]

Exited == [pc |-> "exited", left |-> 0, missed |-> FALSE, session |-> "none"]

Init ==
    /\ service \in Services
    /\ up = {"database", "broker"}
    /\ outages = [database |-> 0, broker |-> 0, link |-> 0]
    /\ tables = {}
    /\ rows = << >>
    /\ confirmed = {}
    /\ main = Exited
    /\ starts = 0
    /\ consumer = NoConsumer
    /\ relay = NoRelay
    /\ publisher = NoConnection

Goto(pc) == main' = [main EXCEPT !.pc = pc]

\* The process ends: its daemon threads end wherever they are, the database rolls
\* back their transactions, the broker requeues what they have not acknowledged.
Exit ==
    /\ main' = Exited
    /\ consumer' = NoConsumer
    /\ relay' = NoRelay
    /\ publisher' = NoConnection

Start ==
    /\ main.pc = "exited"
    /\ starts < MaxStarts
    /\ starts' = starts + 1
    /\ main' = [Exited EXCEPT !.pc = "inspect", !.left = Attempts]
    /\ UNCHANGED <<service, up, outages, database, consumer, outboxVars>>

\* Killed, or out of memory, at any time.
Kill ==
    /\ main.pc # "exited"
    /\ Exit
    /\ UNCHANGED <<environment, database>>

--------------------------------------------------------------------------------
(* initialize_database and seeding *)

\* The main thread goes on inside a transaction, or after its end.
Begins(pc) == main' = [main EXCEPT !.pc = pc, !.session = "open"]
Ends(pc) == main' = [main EXCEPT !.pc = pc, !.left = 0, !.session = "none"]

\* Mutant: an attempt that failed is not counted.
OperationalError_NotCounted ==
    /\ main' = [main EXCEPT !.pc = "inspect", !.session = "none"]
    /\ UNCHANGED <<consumer, outboxVars>>

\* Mutant: after the last attempt the start-up goes on.
OperationalError_GoesOn ==
    /\ main' = IF main.left = 1
               THEN [main EXCEPT !.pc = "start", !.left = 0, !.session = "none"]
               ELSE [main EXCEPT !.pc = "inspect", !.left = @ - 1, !.session = "none"]
    /\ UNCHANGED <<consumer, outboxVars>>

\* An attempt has failed; after the last one RuntimeError ends the process.
OperationalError ==
    IF main.left = 1
    THEN Exit
    ELSE /\ main' = [main EXCEPT !.pc = "inspect", !.left = @ - 1, !.session = "none"]
         /\ UNCHANGED <<consumer, outboxVars>>

AfterTables == Ends(IF lifespan.seeds THEN "find" ELSE "start")

\* create_all looks which tables are missing.
InspectTables ==
    /\ main.pc = "inspect"
    /\ \/ /\ "database" \notin up
          /\ OperationalError
       \/ /\ "database" \in up
          /\ IF "tables" \in tables THEN AfterTables ELSE Begins("create")
          /\ UNCHANGED <<consumer, outboxVars>>
    /\ UNCHANGED <<environment, database>>

\* create_all creates them. If another replica was faster the statement fails with
\* an error that is not an OperationalError: there is no other attempt.
CreateTables ==
    /\ main.pc = "create"
    /\ \/ /\ main.session = "lost"
          /\ OperationalError
          /\ UNCHANGED tables
       \/ /\ main.session = "open" /\ "tables" \in tables
          /\ Exit
          /\ UNCHANGED tables
       \/ /\ main.session = "open" /\ "tables" \notin tables
          /\ tables' = tables \cup {"tables"}
          /\ AfterTables
          /\ UNCHANGED <<consumer, outboxVars>>
    /\ UNCHANGED <<environment, rows, confirmed>>

\* The inventory service looks for its seeded item; an error ends the process.
FindSeed ==
    /\ main.pc = "find"
    /\ \/ "database" \notin up /\ Exit
       \/ /\ "database" \in up
          /\ IF "seed" \in tables THEN Ends("start") ELSE Begins("select")
          /\ UNCHANGED <<consumer, outboxVars>>
    /\ UNCHANGED <<environment, database>>

\* set_stock looks again, FOR UPDATE: the item of a faster replica may be there now.
SelectSeed ==
    /\ main.pc = "select"
    /\ \/ main.session = "lost" /\ Exit
       \/ /\ main.session = "open"
          /\ Goto(IF "seed" \in tables THEN "reset" ELSE "insert")
          /\ UNCHANGED <<consumer, outboxVars>>
    /\ UNCHANGED <<environment, database>>

\* set_stock resets the counters and the reservations of the item it has found (see
\* InventoryService), or is the victim of a deadlock with a settlement of the replica
\* that inserted it.
ResetSeed ==
    /\ main.pc = "reset"
    /\ \/ main.session \in {"open", "lost"} /\ Exit
       \/ /\ main.session = "open"
          /\ Ends("refresh")
          /\ UNCHANGED <<consumer, outboxVars>>
    /\ UNCHANGED <<environment, database>>

\* set_stock inserts the item; it fails if a replica has done so since the SELECT.
InsertSeed ==
    /\ main.pc = "insert"
    /\ \/ /\ main.session = "lost" \/ "seed" \in tables
          /\ Exit
          /\ UNCHANGED tables
       \/ /\ main.session = "open" /\ "seed" \notin tables
          /\ tables' = tables \cup {"seed"}
          /\ Ends("refresh")
          /\ UNCHANGED <<consumer, outboxVars>>
    /\ UNCHANGED <<environment, rows, confirmed>>

\* session.refresh(item), after the commit.
RefreshSeed ==
    /\ main.pc = "refresh"
    /\ \/ "database" \notin up /\ Exit
       \/ "database" \in up /\ Goto("start") /\ UNCHANGED <<consumer, outboxVars>>
    /\ UNCHANGED <<environment, database>>

StartThreads ==
    /\ main.pc = "start"
    /\ Goto("serving")
    /\ consumer' = [NoConsumer EXCEPT !.pc = "loop"]
    /\ relay' = IF lifespan.publishes THEN [NoRelay EXCEPT !.pc = "loop"] ELSE NoRelay
    /\ UNCHANGED <<environment, database, publisher>>

--------------------------------------------------------------------------------
(* Connections to the broker *)

\* What pika says of a connection, also of one it has not noticed the loss of.
IsOpen(connection) == connection \in {"open", "lost"}

Lost(connection) == IF connection = "open" THEN "lost" ELSE connection

Closed(channel) == IF channel = "open" THEN "closed" ELSE channel

--------------------------------------------------------------------------------
(* ReliableConsumer *)

\* Mutant: the loop does not look at stop_event.
ConsumerLoop_Forever ==
    /\ consumer.pc = "loop"
    /\ consumer' = [consumer EXCEPT !.pc = "connect", !.left = Attempts]
    /\ UNCHANGED <<environment, database, main, outboxVars>>

\* run_forever, also after an exception of _consume. (The wait of two seconds ends
\* early when the event is set.)
ConsumerLoop ==
    /\ consumer.pc = "loop"
    /\ consumer' = IF consumer.stop
                   THEN [consumer EXCEPT !.pc = "ended"]
                   ELSE [consumer EXCEPT !.pc = "connect", !.left = Attempts]
    /\ UNCHANGED <<environment, database, main, outboxVars>>

\* _connect succeeds: the new connection replaces the old one, whose channel is
\* still in self.channel.
ConsumerConnected ==
    /\ "broker" \in up
    /\ consumer' = [consumer EXCEPT !.pc = "channel", !.left = 0,
                                    !.connection = "open", !.callback = "none",
                                    !.channel = IF @ = "none" THEN "none" ELSE "old"]

\* An attempt of _connect fails. It raises after the last one, or at once after an
\* error that is not an AMQPError, as of a host name that cannot be resolved.
ConsumerFails(pc) ==
    \/ consumer' = [consumer EXCEPT !.pc = pc, !.left = 0]
    \/ consumer.left > 1 /\ consumer' = [consumer EXCEPT !.left = @ - 1]

\* Mutant: what _connect raises ends the thread.
ConsumerConnect_GivesUp ==
    /\ consumer.pc = "connect"
    /\ \/ ConsumerConnected
       \/ "broker" \notin up /\ ConsumerFails("ended")
    /\ UNCHANGED <<environment, database, main, outboxVars>>

\* _connect; what it raises is caught by run_forever.
ConsumerConnect ==
    /\ consumer.pc = "connect"
    /\ \/ ConsumerConnected
       \/ "broker" \notin up /\ ConsumerFails("loop")
    /\ UNCHANGED <<environment, database, main, outboxVars>>

\* What a call on a connection that was lost does: raise, back to run_forever.
ConnectionLost ==
    /\ consumer.connection = "lost"
    /\ consumer' = [consumer EXCEPT !.pc = "loop", !.connection = "closed"]

OpenChannel ==
    /\ consumer.pc = "channel"
    /\ \/ ConnectionLost
       \/ /\ consumer.connection = "open"
          /\ consumer' = [consumer EXCEPT !.pc = "topology", !.channel = "current"]
    /\ UNCHANGED <<environment, database, main, outboxVars>>

\* _declare_topology, basic_qos, basic_consume.
DeclareTopology ==
    /\ consumer.pc = "topology"
    /\ \/ ConnectionLost
       \/ consumer.connection = "open" /\ consumer' = [consumer EXCEPT !.pc = "consume"]
    /\ UNCHANGED <<environment, database, main, outboxVars>>

\* start_consuming runs a handler, also of a message that came before the connection
\* was lost; it looks at connection and callbacks after it.
Handle ==
    /\ consumer.pc = "consume"
    /\ IsOpen(consumer.connection)
    /\ consumer' = [consumer EXCEPT !.pc = "handle"]
    /\ UNCHANGED <<environment, database, main, outboxVars>>

\* The handler and its acknowledgement; on a lost connection the latter raises, or
\* is written to nobody.
HandlerReturns ==
    /\ consumer.pc = "handle"
    /\ \/ ConnectionLost
       \/ IsOpen(consumer.connection) /\ consumer' = [consumer EXCEPT !.pc = "consume"]
    /\ UNCHANGED <<environment, database, main, outboxVars>>

\* stop_consuming, called by the consumer's own connection: of the channel that
\* consumes, it ends start_consuming; of an older one, it raises or does nothing.
\* start_consuming also ends when the connection is lost.
StopConsuming ==
    /\ consumer.pc = "consume"
    /\ \/ ConnectionLost
       \/ /\ consumer.connection = "open" /\ consumer.callback # "none"
          /\ \/ consumer' = [consumer EXCEPT !.pc = "loop", !.callback = "none"]
             \/ /\ consumer.callback = "old"
                /\ consumer' = [consumer EXCEPT !.callback = "none"]
    /\ UNCHANGED <<environment, database, main, outboxVars>>

ConsumerStep ==
    \/ ConsumerLoop
    \/ ConsumerConnect
    \/ OpenChannel
    \/ DeclareTopology
    \/ Handle
    \/ HandlerReturns
    \/ StopConsuming

--------------------------------------------------------------------------------
(* OutboxPublisher *)

Unpublished == {r \in DOMAIN rows : rows[r] = "unpublished"}

\* run_forever and the query of publish_batch. Without rows, or without a database,
\* the batch is empty and the thread waits.
SelectBatch ==
    /\ relay.pc = "loop"
    /\ \/ relay.stop /\ relay' = [relay EXCEPT !.pc = "ended"]
       \/ /\ ~relay.stop
          /\ "database" \in up
          /\ Unpublished # {}
          /\ relay' = [relay EXCEPT !.pc = "ensure", !.batch = Unpublished, !.session = "open"]
    /\ UNCHANGED <<environment, database, main, consumer, publisher>>

\* An exception inside publish_batch.
Raise == relay' = [relay EXCEPT !.pc = "rollback", !.left = 0]

Usable == publisher.connection = "open" /\ publisher.channel = "open"

\* _ensure_connection asks is_open: it lets a lost connection pass.
EnsureConnection ==
    /\ relay.pc = "ensure"
    /\ relay' = IF IsOpen(publisher.connection) /\ publisher.channel = "open"
                THEN [relay EXCEPT !.pc = "publish"]
                ELSE [relay EXCEPT !.pc = "connect", !.left = Attempts]
    /\ UNCHANGED <<environment, database, main, consumer, publisher>>

\* Mutant: what _connect raises is not caught.
Connect_GivesUp ==
    /\ relay.pc = "connect"
    /\ \/ /\ "broker" \in up
          /\ publisher' = [publisher EXCEPT !.connection = "open"]
          /\ relay' = [relay EXCEPT !.pc = "channel", !.left = 0]
       \/ /\ "broker" \notin up
          /\ \/ relay' = [relay EXCEPT !.pc = "ended", !.left = 0]
             \/ relay.left > 1 /\ relay' = [relay EXCEPT !.left = @ - 1]
          /\ UNCHANGED publisher
    /\ UNCHANGED <<environment, database, main, consumer>>

\* _connect, in _ensure_connection: what it raises is caught by publish_batch.
Connect ==
    /\ relay.pc = "connect"
    /\ \/ /\ "broker" \in up
          /\ publisher' = [publisher EXCEPT !.connection = "open"]
          /\ relay' = [relay EXCEPT !.pc = "channel", !.left = 0]
       \/ /\ "broker" \notin up
          /\ \/ Raise
             \/ relay.left > 1 /\ relay' = [relay EXCEPT !.left = @ - 1]
          /\ UNCHANGED publisher
    /\ UNCHANGED <<environment, database, main, consumer>>

\* An exception of _ensure_connection: a lost connection is known to be closed now.
ConnectionRaises ==
    /\ Raise
    /\ publisher' = IF publisher.connection = "lost"
                    THEN [connection |-> "closed", channel |-> Closed(publisher.channel)]
                    ELSE publisher

\* self.connection.channel(): stop() may have closed the connection or set it to
\* None (AttributeError).
CreateChannel ==
    /\ relay.pc = "channel"
    /\ \/ /\ publisher.connection = "open"
          /\ publisher' = [publisher EXCEPT !.channel = "open"]
          /\ relay' = [relay EXCEPT !.pc = "declare"]
       \/ publisher.connection # "open" /\ ConnectionRaises
    /\ UNCHANGED <<environment, database, main, consumer>>

\* exchange_declare and confirm_delivery.
DeclareExchange ==
    /\ relay.pc = "declare"
    /\ \/ Usable /\ relay' = [relay EXCEPT !.pc = "publish"] /\ UNCHANGED publisher
       \/ ~Usable /\ ConnectionRaises
    /\ UNCHANGED <<environment, database, main, consumer>>

NextRow == Min(relay.batch \ relay.sent)

Sent ==
    relay' = [relay EXCEPT !.sent = @ \cup {NextRow},
                           !.pc = IF relay.batch \ relay.sent = {NextRow} THEN "commit" ELSE "ensure"]

\* Mutant: publish closes the connection but does not raise.
PublishRow_Swallows ==
    /\ relay.pc = "publish"
    /\ Sent
    /\ \/ Usable /\ confirmed' = confirmed \cup {NextRow} /\ UNCHANGED publisher
       \/ ~Usable /\ publisher' = NoConnection /\ UNCHANGED confirmed
    /\ UNCHANGED <<environment, tables, rows, main, consumer>>

\* basic_publish and the broker's confirmation. A channel that is None fails the
\* assertion; one that is closed, or the connection of which was lost, raises, and
\* publish drops the connection.
PublishRow ==
    /\ relay.pc = "publish"
    /\ \/ Usable /\ Sent /\ confirmed' = confirmed \cup {NextRow} /\ UNCHANGED publisher
       \/ ~Usable /\ Raise /\ publisher' = NoConnection /\ UNCHANGED confirmed
    /\ UNCHANGED <<environment, tables, rows, main, consumer>>

\* publish_batch returns to run_forever, the session is closed.
BatchEnds(pc) == relay' = [NoRelay EXCEPT !.pc = pc, !.stop = relay.stop]

\* Mutant: the rollback after a failed commit raises.
CommitBatch_Raises ==
    /\ relay.pc = "commit"
    /\ \/ /\ relay.session = "open"
          /\ rows' = [r \in DOMAIN rows |-> IF r \in relay.batch THEN "published" ELSE rows[r]]
          /\ BatchEnds("loop")
       \/ relay.session = "lost" /\ Raise /\ UNCHANGED rows
    /\ UNCHANGED <<environment, tables, confirmed, main, consumer, publisher>>

\* The commit that marks the batch. If it fails, the session has dropped its dead
\* connection, and the rollback has nothing to do.
CommitBatch ==
    /\ relay.pc = "commit"
    /\ \/ /\ relay.session = "open"
          /\ rows' = [r \in DOMAIN rows |-> IF r \in relay.batch THEN "published" ELSE rows[r]]
          /\ BatchEnds("loop")
       \/ relay.session = "lost" /\ BatchEnds("loop") /\ UNCHANGED rows
    /\ UNCHANGED <<environment, tables, confirmed, main, consumer, publisher>>

\* session.rollback() in the except branch. On a connection that was lost it may
\* raise again, and run_forever does not catch that: the thread is dead while the
\* service goes on.
Rollback ==
    /\ relay.pc = "rollback"
    /\ \/ BatchEnds("loop")
       \/ relay.session = "lost" /\ BatchEnds("dead")
    /\ UNCHANGED <<environment, database, main, consumer, publisher>>

RelayStep ==
    \/ SelectBatch
    \/ EnsureConnection
    \/ Connect
    \/ CreateChannel
    \/ DeclareExchange
    \/ PublishRow
    \/ CommitBatch
    \/ Rollback

--------------------------------------------------------------------------------
(* Shutdown *)

\* SIGTERM: the lifespan goes on after its yield.
StopRequested ==
    /\ main.pc = "serving"
    /\ Goto("stopConsumer")
    /\ UNCHANGED <<environment, database, consumer, outboxVars>>

SetConsumerStop ==
    /\ main.pc = "stopConsumer"
    /\ consumer' = [consumer EXCEPT !.stop = TRUE]
    /\ Goto("checkConnection")
    /\ UNCHANGED <<environment, database, outboxVars>>

\* notification-service has no outbox to stop.
AfterConsumer == IF lifespan.publishes THEN "stopOutbox" ELSE "join"

\* ReliableConsumer.stop: is there an open connection and a channel? While the
\* thread is in _connect or has no new channel yet, there is none or an old one.
CheckConnection ==
    /\ main.pc = "checkConnection"
    /\ main' = [main EXCEPT
         !.missed = consumer.pc \in {"connect", "channel"},
         !.pc = IF IsOpen(consumer.connection) /\ consumer.channel # "none"
                THEN "addCallback" ELSE AfterConsumer]
    /\ UNCHANGED <<environment, database, consumer, outboxVars>>

\* add_callback_threadsafe: raises if the consumer has found the connection lost since,
\* which ends the lifespan there.
AddCallback ==
    /\ main.pc = "addCallback"
    /\ \/ consumer.connection = "closed" /\ Exit
       \/ /\ IsOpen(consumer.connection)
          /\ consumer' = [consumer EXCEPT !.callback = consumer.channel]
          /\ Goto(AfterConsumer)
          /\ UNCHANGED outboxVars
    /\ UNCHANGED <<environment, database>>

\* OutboxPublisher.stop sets the event, and RabbitPublisher.close looks at the
\* connection.
SetOutboxStop ==
    /\ main.pc = "stopOutbox"
    /\ relay' = [relay EXCEPT !.stop = TRUE]
    /\ Goto(IF IsOpen(publisher.connection) THEN "close" ELSE "clear")
    /\ UNCHANGED <<environment, database, consumer, publisher>>

\* connection.close(), which raises if the connection is lost, known or not, or the
\* outbox thread has dropped it since.
CloseConnection ==
    /\ main.pc = "close"
    /\ \/ publisher.connection # "open" /\ Exit
       \/ /\ publisher.connection = "open"
          /\ publisher' = [connection |-> "closed", channel |-> IF publisher.channel = "none" THEN "none" ELSE "closed"]
          /\ Goto("clear")
          /\ UNCHANGED <<consumer, relay>>
    /\ UNCHANGED <<environment, database>>

\* self.connection = None, self.channel = None: also if the outbox thread has
\* connected anew since.
ClearConnection ==
    /\ main.pc = "clear"
    /\ publisher' = NoConnection
    /\ Goto("join")
    /\ UNCHANGED <<environment, database, consumer, relay>>

\* Mutant: join without a timeout.
Join_NoTimeout ==
    /\ main.pc = "join"
    /\ consumer.pc = "ended" /\ relay.pc \in {"off", "ended", "dead"}
    /\ Exit
    /\ UNCHANGED <<environment, database>>

\* join(timeout=5) of each thread: the process ends, whether they have ended or not.
Join ==
    /\ main.pc = "join"
    /\ Exit
    /\ UNCHANGED <<environment, database>>

Shutdown ==
    \/ SetConsumerStop
    \/ CheckConnection
    \/ AddCallback
    \/ SetOutboxStop
    \/ CloseConnection
    \/ ClearConnection
    \/ Join

Startup ==
    \/ InspectTables
    \/ CreateTables
    \/ FindSeed
    \/ SelectSeed
    \/ ResetSeed
    \/ InsertSeed
    \/ RefreshSeed
    \/ StartThreads

--------------------------------------------------------------------------------
(* The surroundings *)

\* A handler or a request, of this replica or another one, commits an event.
Write(r) ==
    /\ "database" \in up /\ "tables" \in tables
    /\ lifespan.publishes
    /\ r \notin DOMAIN rows
    /\ rows' = Put(rows, r, "unpublished")
    /\ UNCHANGED <<environment, tables, confirmed, main, consumer, outboxVars>>

\* Another replica starts at the same time and is faster.
OtherReplica ==
    /\ "database" \in up
    /\ tables' \in {{"tables"}} \cup (IF lifespan.seeds THEN {{"tables", "seed"}} ELSE {})
    /\ tables \subseteq tables' /\ tables # tables'
    /\ UNCHANGED <<environment, rows, confirmed, main, consumer, outboxVars>>

Faults == outages.database + outages.broker + outages.link

Outage(x) ==
    /\ x \in up
    /\ Faults < MaxFaults
    /\ up' = up \ {x}
    /\ outages' = [outages EXCEPT ![x] = @ + 1]
    /\ IF x = "broker"
       THEN /\ consumer' = [consumer EXCEPT !.connection = Lost(@)]
            /\ publisher' = [publisher EXCEPT !.connection = Lost(@)]
            /\ UNCHANGED <<main, relay>>
       ELSE /\ main' = [main EXCEPT !.session = Lost(@)]
            /\ relay' = [relay EXCEPT !.session = Lost(@)]
            /\ UNCHANGED <<consumer, publisher>>
    /\ UNCHANGED <<service, starts, database>>

\* A connection is lost though both its ends are up: RabbitMQ closes that of a
\* publisher that was idle, or of a consumer in a long handler, for missed
\* heartbeats, or the network fails.
LoseConnection ==
    /\ Faults < MaxFaults
    /\ outages' = [outages EXCEPT !.link = @ + 1]
    /\ \/ /\ publisher.connection = "open"
          /\ publisher' = [publisher EXCEPT !.connection = "lost"]
          /\ UNCHANGED consumer
       \/ /\ consumer.connection = "open"
          /\ consumer' = [consumer EXCEPT !.connection = "lost"]
          /\ UNCHANGED publisher
    /\ UNCHANGED <<service, up, starts, database, main, relay>>

Recovery(x) ==
    /\ x \notin up
    /\ up' = up \cup {x}
    /\ UNCHANGED <<service, outages, starts, database, main, consumer, outboxVars>>

Next ==
    \/ Start \/ Startup \/ StopRequested \/ Shutdown \/ Kill
    \/ ConsumerStep
    \/ RelayStep
    \/ \E r \in Rows : Write(r)
    \/ OtherReplica
    \/ \E x \in {"database", "broker"} : Outage(x) \/ Recovery(x)
    \/ LoseConnection

\* Each thread goes on, and a callback that the connection has been given is called
\* at some time although messages keep coming. Nothing obliges an orchestrator to
\* start or stop the process, a row to be written, or an outage to end.
Fairness ==
    /\ WF_vars(Startup \/ Shutdown)
    /\ WF_vars(ConsumerStep) /\ SF_vars(StopConsuming)
    /\ WF_vars(RelayStep)

Spec == Init /\ [][Next]_vars
FairSpec == Spec /\ Fairness

--------------------------------------------------------------------------------
(* Properties *)

\* The outbox thread and stop() use one connection without a lock; whatever they do
\* to each other, and whenever broker or database fail, no row is marked as
\* published that the broker has not confirmed.
MarkedRowsWereConfirmed == \A r \in DOMAIN rows : rows[r] = "published" => r \in confirmed

\* No handler and no outbox thread runs before the tables exist and the item is
\* seeded, however the start-up failed or raced with another replica's.
ThreadsFindTheirTables ==
    consumer.pc # "off" \/ relay.pc # "off" =>
        "tables" \in tables /\ (lifespan.seeds => "seed" \in tables)

\* stop() cannot miss a consumer that is consuming: once main is done with it, the
\* thread's connection carries the callback that ends it, or the thread was just
\* connecting when stop() looked.
StopReachesConsumer ==
    /\ main.pc \in {"stopOutbox", "close", "clear", "join"}
    /\ consumer.pc \in {"topology", "consume", "handle"}
    /\ consumer.connection = "open"
  => consumer.callback = "current" \/ main.missed

\* "ResilientCart demonstrates how a checkout workflow can remain correct when
\* services fail independently" (docs/architecture.md): neither outages of the
\* database alone nor lost connections to the broker alone, however many, end the
\* outbox thread of a replica that is serving. It takes both: a publish that fails
\* on a lost connection, perhaps one that was only idle, and a database that goes
\* away before the rollback.
OneKindOfFaultIsSurvived ==
    relay.pc = "dead" /\ main.pc = "serving" =>
        outages.database > 0 /\ outages.broker + outages.link > 0

\* A start comes to serving or to an exit, after which it can be repeated; it does
\* not wait for ever for a database that stays away.
StartsEnd == main.pc = "inspect" ~> main.pc \in {"serving", "exited"}

\* SIGTERM ends the process although a stop() may be lost and leave a thread that
\* consumes for ever.
ProcessExits == main.pc = "stopConsumer" ~> main.pc = "exited"

Healthy == main.pc = "serving" /\ up = {"database", "broker"}

\* "RabbitMQ is unavailable: ... publisher retries later" (docs/failure-scenarios.md):
\* when outages and restarts are over, the consumer is connected again and again,
\* and every committed row is published, unless the thread died in a double outage.
ConsumerComesBack == <>[]Healthy => []<>(consumer.pc \in {"consume", "handle"})

RowsArePublished ==
    <>[](Healthy /\ relay.pc # "dead") =>
        \A r \in Rows : r \in DOMAIN rows ~> r \in DOMAIN rows /\ rows[r] = "published"

================================================================================
