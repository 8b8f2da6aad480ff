-------------------------- MODULE ServiceProcessProofs -------------------------
(*****************************************************************************)
(* Proofs about ServiceProcess, for any services and rows, any numbers of    *)
(* attempts, and any number of starts, outages and lost connections.         *)
(*****************************************************************************)
EXTENDS ServiceProcess, TLAPS

\* Where the main thread is once the tables exist, and before the threads run.
Seeding == {"find", "select", "reset", "insert", "refresh", "start"}

MainPcs == {"exited", "inspect", "create"} \cup Seeding \cup
           {"serving", "stopConsumer", "checkConnection", "addCallback", "stopOutbox", "close",
            "clear", "join"}

ConsumerPcs == {"off", "loop", "connect", "channel", "topology", "consume", "handle", "ended"}

RelayPcs == {"off", "loop", "ensure", "connect", "channel", "declare", "publish", "commit",
             "rollback", "ended", "dead"}

Sessions == {"none", "open", "lost"}

Mains == [pc : MainPcs, left : Int, missed : BOOLEAN, session : Sessions]

ConsumerStates == [pc : ConsumerPcs, left : Int, stop : BOOLEAN,
                   callback : {"none", "current", "old"},
                   connection : {"none", "open", "lost", "closed"},
                   channel : {"none", "current", "old"}]

RelayStates(sent) == [pc : RelayPcs, left : Int, stop : BOOLEAN, batch : SUBSET Rows,
                      sent : SUBSET sent, session : Sessions]

Connections == [connection : {"none", "open", "lost", "closed"}, channel : {"none", "open", "closed"}]

\* The shapes of the threads. What the outbox thread has sent was confirmed.
Types ==
    /\ service \in Services
    /\ DOMAIN outages = {"database", "broker", "link"}
    /\ outages.database \in Nat /\ outages.broker \in Nat /\ outages.link \in Nat
    /\ DOMAIN rows \subseteq Rows
    /\ main \in Mains
    /\ consumer \in ConsumerStates
    /\ relay \in RelayStates(confirmed)
    /\ publisher \in Connections

\* A batch is marked when all of it has been sent.
ConfirmedInv ==
    /\ relay.pc = "commit" => relay.batch \subseteq relay.sent
    /\ MarkedRowsWereConfirmed

\* How far the start-up has come says what the database holds.
StartupInv ==
    /\ main.pc \in Seeding => "tables" \in tables
    /\ main.pc \in {"reset", "refresh"} => "seed" \in tables
    /\ main.pc = "start" /\ lifespan.seeds => "seed" \in tables
    /\ ThreadsFindTheirTables

Past == {"stopOutbox", "close", "clear", "join"}

\* A consumer that stop() found with a channel of its own makes no new connection.
StopInv ==
    /\ consumer.pc \in {"topology", "consume", "handle"} => consumer.channel = "current"
    /\ main.pc \in {"checkConnection", "addCallback"} \cup Past => consumer.stop
    /\ main.pc \in {"addCallback"} \cup Past /\ ~main.missed =>
           consumer.pc \notin {"connect", "channel"}
    /\ StopReachesConsumer

\* Where the outbox thread can be as long as no connection was ever lost: nobody but
\* stop() takes its connection away.
OutageInv ==
    /\ relay.session = "lost" => outages.database > 0
    /\ "broker" \notin up \/ publisher.connection = "lost" => outages.broker + outages.link > 0
    /\ main.pc = "serving" /\ outages.broker + outages.link = 0 =>
           /\ relay.pc # "rollback"
           /\ relay.pc = "channel" => publisher.connection = "open"
           /\ relay.pc \in {"declare", "publish"} => Usable
    /\ OneKindOfFaultIsSurvived

ProcessInv == Types /\ ConfirmedInv /\ StartupInv /\ StopInv /\ OutageInv

--------------------------------------------------------------------------------
(* Types *)

\* The main thread goes on to another of its steps.
LEMMA MainGoes ==
    ASSUME Types
    PROVE  /\ \A pc \in MainPcs : Goto(pc) \/ Begins(pc) \/ Ends(pc) => main' \in Mains
           /\ AfterTables => main' \in Mains
           /\ AfterConsumer \in MainPcs
<1>1. ASSUME NEW pc \in MainPcs, Goto(pc) \/ Begins(pc) \/ Ends(pc)
      PROVE  main' \in Mains
  <2>1. main \in Mains
    BY DEF Types
  <2>2. [main EXCEPT !.pc = pc] \in Mains /\ [main EXCEPT !.pc = pc, !.session = "open"] \in Mains
    BY <2>1 DEF Mains, Sessions
  <2>3. PICK zero \in Int : zero = 0
    OBVIOUS
  <2>4. [main EXCEPT !.pc = pc, !.left = zero, !.session = "none"] \in Mains
    BY <2>1 DEF Mains, Sessions
  <2> QED BY <1>1, <2>2, <2>3, <2>4 DEF Goto, Begins, Ends
<1>2. PICK pc : pc = IF lifespan.seeds THEN "find" ELSE "start"
  OBVIOUS
<1>3. pc \in MainPcs
  BY <1>2 DEF MainPcs, Seeding
<1>4. AfterTables => main' \in Mains
  BY <1>1, <1>2, <1>3 DEF AfterTables
<1> QED BY <1>1, <1>4 DEF AfterConsumer, MainPcs

\* A thread that is not there has the shape of one.
LEMMA ExitTypes ==
    ASSUME Types, Exit, UNCHANGED environment, DOMAIN rows' \subseteq Rows
    PROVE  Types'
  BY DEF Exit, Exited, NoConsumer, NoRelay, NoConnection, Types, environment, Mains, ConsumerStates,
         RelayStates, Connections, Sessions, MainPcs, ConsumerPcs, RelayPcs

\* The start-up keeps the shapes.
LEMMA StartupTypes ==
    ASSUME Types, Start \/ Startup \/ StopRequested \/ Kill
    PROVE  Types'
<1>1. CASE Start
  <2>1. main' \in Mains
    <3>1. PICK n \in Int : n = Attempts
      BY AttemptsAssumption DEF AttemptsAssumption
    <3>2. Exited \in Mains
      BY DEF Exited, Mains, MainPcs, Sessions
    <3>3. [Exited EXCEPT !.pc = "inspect", !.left = n] \in Mains
      BY <3>2 DEF Mains, MainPcs
    <3> QED BY <1>1, <3>1, <3>3 DEF Start
  <2> QED BY <1>1, <2>1 DEF Start, Types, database, outboxVars
<1>2. CASE Exit /\ UNCHANGED <<environment, rows, confirmed>>
  BY <1>2, ExitTypes DEF Types
<1>3. CASE main' \in Mains /\ UNCHANGED <<environment, rows, confirmed, consumer, outboxVars>>
  BY <1>3 DEF Types, environment, outboxVars
<1>4. CASE Kill
  BY <1>2, <1>4 DEF Kill, database
<1>5. CASE StopRequested
  BY <1>3, <1>5, MainGoes DEF StopRequested, MainPcs, database
<1>6. CASE OperationalError /\ UNCHANGED <<environment, rows, confirmed>>
  <2>1. main.left - 1 \in Int
    BY DEF Types, Mains
  <2>2. main' = [main EXCEPT !.pc = "inspect", !.left = @ - 1, !.session = "none"] => main' \in Mains
    BY <2>1 DEF Types, Mains, MainPcs, Sessions
  <2> QED BY <1>2, <1>3, <1>6, <2>2 DEF OperationalError
<1>7. CASE InspectTables
  BY <1>3, <1>6, <1>7, MainGoes DEF InspectTables, MainPcs, database
<1>8. CASE CreateTables
  BY <1>2, <1>3, <1>6, <1>8, MainGoes DEF CreateTables
<1>9. CASE FindSeed \/ SelectSeed \/ ResetSeed \/ RefreshSeed
  BY <1>2, <1>3, <1>9, MainGoes
  DEF FindSeed, SelectSeed, ResetSeed, RefreshSeed, MainPcs, Seeding, database
<1>10. CASE InsertSeed
  BY <1>2, <1>3, <1>10, MainGoes DEF InsertSeed, MainPcs, Seeding
<1>11. CASE StartThreads
  <2>1. NoConsumer \in ConsumerStates /\ NoRelay \in RelayStates(confirmed)
    BY DEF NoConsumer, ConsumerStates, ConsumerPcs, NoRelay, RelayStates, RelayPcs, Sessions
  <2>2. /\ consumer' \in ConsumerStates
        /\ [NoRelay EXCEPT !.pc = "loop"] \in RelayStates(confirmed)
    BY <1>11, <2>1 DEF StartThreads, ConsumerStates, ConsumerPcs, RelayStates, RelayPcs
  <2> QED BY <1>11, <2>1, <2>2, MainGoes DEF StartThreads, MainPcs, Types, environment, database
<1> QED BY <1>1, <1>4, <1>5, <1>7, <1>8, <1>9, <1>10, <1>11 DEF Startup

\* The consumer thread keeps the shapes.
LEMMA ConsumerTypes ==
    ASSUME Types, ConsumerStep
    PROVE  Types'
<1>1. consumer.left - 1 \in Int /\ Attempts \in Int
  BY AttemptsAssumption DEF Types, ConsumerStates, AttemptsAssumption
<1>2. \A pc \in ConsumerPcs, callback \in {"none", "current", "old"} :
         /\ [consumer EXCEPT !.pc = pc] \in ConsumerStates
         /\ [consumer EXCEPT !.callback = callback] \in ConsumerStates
         /\ [consumer EXCEPT !.pc = pc, !.callback = callback] \in ConsumerStates
  BY DEF Types, ConsumerStates
<1>3. ConnectionLost => consumer' \in ConsumerStates
  BY DEF ConnectionLost, ConsumerPcs, Types, ConsumerStates
<1>4. CASE ConsumerLoop
  <2>1. [consumer EXCEPT !.pc = "connect", !.left = Attempts] \in ConsumerStates
    BY <1>1 DEF Types, ConsumerStates, ConsumerPcs
  <2> QED BY <1>2, <1>4, <2>1
          DEF ConsumerLoop, ConsumerPcs, environment, database, outboxVars, Types
<1>5. CASE ConsumerConnect
  <2>1. ConsumerConnected => consumer' \in ConsumerStates
    <3>1. PICK channel : channel = IF consumer.channel = "none" THEN "none" ELSE "old"
      OBVIOUS
    <3>2. PICK zero \in Int : zero = 0
      OBVIOUS
    <3>3. [consumer EXCEPT !.pc = "channel", !.left = zero, !.connection = "open",
                           !.callback = "none", !.channel = channel] \in ConsumerStates
      BY <3>1 DEF Types, ConsumerStates, ConsumerPcs
    <3> QED BY <3>1, <3>2, <3>3 DEF ConsumerConnected
  <2>2. ConsumerFails("loop") => consumer' \in ConsumerStates
    <3>1. [consumer EXCEPT !.left = consumer.left - 1] \in ConsumerStates
      BY <1>1 DEF Types, ConsumerStates
    <3>2. PICK zero \in Int : zero = 0
      OBVIOUS
    <3>3. [consumer EXCEPT !.pc = "loop", !.left = zero] \in ConsumerStates
      BY DEF Types, ConsumerStates, ConsumerPcs
    <3> QED BY <3>1, <3>2, <3>3 DEF ConsumerFails
  <2> QED BY <1>5, <2>1, <2>2 DEF ConsumerConnect, environment, database, outboxVars, Types
<1>6. CASE OpenChannel
  <2>1. [consumer EXCEPT !.pc = "topology", !.channel = "current"] \in ConsumerStates
    BY DEF Types, ConsumerStates, ConsumerPcs
  <2> QED BY <1>3, <1>6, <2>1 DEF OpenChannel, environment, database, outboxVars, Types
<1>7. CASE DeclareTopology \/ Handle \/ HandlerReturns \/ StopConsuming
  BY <1>2, <1>3, <1>7
  DEF DeclareTopology, Handle, HandlerReturns, StopConsuming, ConsumerPcs, environment, database,
      outboxVars, Types
<1> QED BY <1>4, <1>5, <1>6, <1>7 DEF ConsumerStep

\* The outbox thread keeps the shapes.
LEMMA RelayTypes ==
    ASSUME Types, RelayStep
    PROVE  Types'
<1>1. ASSUME UNCHANGED <<environment, main, consumer>>, DOMAIN rows' \subseteq Rows,
             relay' \in RelayStates(confirmed'), publisher' \in Connections
      PROVE  Types'
  BY <1>1 DEF Types, environment
<1>2. /\ relay.left - 1 \in Int /\ Attempts \in Int
      /\ relay \in RelayStates(confirmed) /\ publisher \in Connections /\ DOMAIN rows \subseteq Rows
  BY AttemptsAssumption DEF Types, RelayStates, AttemptsAssumption
<1>3. ASSUME NEW pc \in RelayPcs
      PROVE  /\ [relay EXCEPT !.pc = pc] \in RelayStates(confirmed)
             /\ BatchEnds(pc) => relay' \in RelayStates(confirmed)
  <2>1. NoRelay \in RelayStates(confirmed)
    BY DEF NoRelay, RelayStates, RelayPcs, Sessions
  <2>2. [NoRelay EXCEPT !.pc = pc, !.stop = relay.stop] \in RelayStates(confirmed)
    BY <1>2, <2>1 DEF RelayStates
  <2>3. [relay EXCEPT !.pc = pc] \in RelayStates(confirmed)
    BY <1>2 DEF RelayStates
  <2> QED BY <2>2, <2>3 DEF BatchEnds
<1>4. /\ Raise => relay' \in RelayStates(confirmed)
      /\ ConnectionRaises => relay' \in RelayStates(confirmed) /\ publisher' \in Connections
  <2>1. PICK zero \in Int : zero = 0
    OBVIOUS
  <2>2. [relay EXCEPT !.pc = "rollback", !.left = zero] \in RelayStates(confirmed)
    BY <1>2 DEF RelayStates, RelayPcs
  <2>3. [connection |-> "closed", channel |-> Closed(publisher.channel)] \in Connections
    BY <1>2 DEF Connections, Closed
  <2> QED BY <1>2, <2>1, <2>2, <2>3 DEF Raise, ConnectionRaises
<1>5. CASE SelectBatch
  <2>1. PICK B : B = Unpublished
    OBVIOUS
  <2>2. B \in SUBSET Rows
    BY <1>2, <2>1 DEF Unpublished
  <2>3. [relay EXCEPT !.pc = "ensure", !.batch = B, !.session = "open"] \in RelayStates(confirmed)
    BY <1>2, <2>2 DEF RelayStates, RelayPcs, Sessions
  <2> QED BY <1>1, <1>2, <1>3, <1>5, <2>1, <2>3 DEF SelectBatch, RelayPcs, database
<1>6. CASE EnsureConnection
  <2>1. [relay EXCEPT !.pc = "connect", !.left = Attempts] \in RelayStates(confirmed)
    BY <1>2 DEF RelayStates, RelayPcs
  <2> QED BY <1>1, <1>2, <1>3, <1>6, <2>1 DEF EnsureConnection, RelayPcs, database
<1>7. CASE Connect
  <2>1. PICK zero \in Int : zero = 0
    OBVIOUS
  <2>2. [relay EXCEPT !.pc = "channel", !.left = zero] \in RelayStates(confirmed)
    BY <1>2 DEF RelayStates, RelayPcs
  <2>3. [relay EXCEPT !.left = relay.left - 1] \in RelayStates(confirmed)
    BY <1>2 DEF RelayStates
  <2>5. [publisher EXCEPT !.connection = "open"] \in Connections
    BY <1>2 DEF Connections
  <2> QED BY <1>1, <1>2, <1>4, <1>7, <2>1, <2>2, <2>3, <2>5 DEF Connect, database
<1>8. CASE CreateChannel \/ DeclareExchange
  <2>1. [publisher EXCEPT !.channel = "open"] \in Connections
    BY <1>2 DEF Connections
  <2> QED BY <1>1, <1>2, <1>3, <1>4, <1>8, <2>1 DEF CreateChannel, DeclareExchange, RelayPcs, database
<1>9. CASE PublishRow
  <2>1. PICK r : r = NextRow
    OBVIOUS
  <2>2. CASE Sent /\ confirmed' = confirmed \cup {r} /\ UNCHANGED publisher
    <3>1. PICK pc : pc = IF relay.batch \ relay.sent = {NextRow} THEN "commit" ELSE "ensure"
      OBVIOUS
    <3>2. relay' = [relay EXCEPT !.sent = relay.sent \cup {r}, !.pc = pc]
      BY <2>1, <2>2, <3>1 DEF Sent
    <3>3. relay' \in RelayStates(confirmed')
      BY <1>2, <2>2, <3>1, <3>2 DEF RelayStates, RelayPcs
    <3> QED BY <1>1, <1>2, <1>9, <2>2, <3>3 DEF PublishRow
  <2>3. CASE Raise /\ publisher' = NoConnection /\ UNCHANGED confirmed
    <3>1. NoConnection \in Connections
      BY DEF NoConnection, Connections
    <3> QED BY <1>1, <1>2, <1>4, <1>9, <2>3, <3>1 DEF PublishRow
  <2> QED BY <1>9, <2>1, <2>2, <2>3 DEF PublishRow
<1>10. CASE CommitBatch \/ Rollback
  <2>1. DOMAIN rows' \subseteq Rows /\ relay' \in RelayStates(confirmed)
    BY <1>2, <1>3, <1>4, <1>10 DEF CommitBatch, Rollback, RelayPcs, database
  <2> QED BY <1>1, <1>2, <1>10, <2>1 DEF CommitBatch, Rollback, database
<1> QED BY <1>5, <1>6, <1>7, <1>8, <1>9, <1>10 DEF RelayStep

\* The shutdown, the other replicas and the outages keep the shapes.
LEMMA ShutdownTypes ==
    ASSUME Types,
           \/ Shutdown \/ OtherReplica \/ \E r \in Rows : Write(r)
           \/ \E x \in {"database", "broker"} : Outage(x) \/ Recovery(x)
           \/ LoseConnection
    PROVE  Types'
<1>1. CASE Exit /\ UNCHANGED <<environment, database>>
  BY <1>1, ExitTypes DEF Types, database
<1>2. ASSUME UNCHANGED <<environment, database>>, main' \in Mains, consumer' \in ConsumerStates,
             relay' \in RelayStates(confirmed), publisher' \in Connections
      PROVE  Types'
  BY <1>2 DEF Types, environment, database
<1>3. /\ main \in Mains /\ consumer \in ConsumerStates
      /\ relay \in RelayStates(confirmed) /\ publisher \in Connections
  BY DEF Types
<1>4. CASE SetConsumerStop
  <2>1. [consumer EXCEPT !.stop = TRUE] \in ConsumerStates
    BY <1>3 DEF ConsumerStates
  <2> QED BY <1>2, <1>3, <1>4, <2>1, MainGoes DEF SetConsumerStop, MainPcs, outboxVars
<1>5. CASE CheckConnection
  <2>1. \A missed \in BOOLEAN, pc \in MainPcs : [main EXCEPT !.missed = missed, !.pc = pc] \in Mains
    BY <1>3 DEF Mains
  <2>2. (consumer.pc \in {"connect", "channel"}) \in BOOLEAN
    OBVIOUS
  <2>3. main' \in Mains
    BY <1>5, <2>1, <2>2, MainGoes DEF CheckConnection, MainPcs
  <2> QED BY <1>2, <1>3, <1>5, <2>3 DEF CheckConnection, outboxVars
<1>6. CASE AddCallback
  <2>1. [consumer EXCEPT !.callback = consumer.channel] \in ConsumerStates
    BY <1>3 DEF ConsumerStates
  <2> QED BY <1>1, <1>2, <1>3, <1>6, <2>1, MainGoes DEF AddCallback, outboxVars
<1>7. CASE SetOutboxStop
  <2>1. [relay EXCEPT !.stop = TRUE] \in RelayStates(confirmed)
    BY <1>3 DEF RelayStates
  <2> QED BY <1>2, <1>3, <1>7, <2>1, MainGoes DEF SetOutboxStop, MainPcs
<1>8. CASE CloseConnection \/ ClearConnection \/ Join
  <2>1. /\ NoConnection \in Connections
        /\ [connection |-> "closed", channel |-> IF publisher.channel = "none" THEN "none" ELSE "closed"]
              \in Connections
    BY DEF NoConnection, Connections
  <2> QED BY <1>1, <1>2, <1>3, <1>8, <2>1, MainGoes
          DEF CloseConnection, ClearConnection, Join, MainPcs
<1>9. CASE OtherReplica \/ \E r \in Rows : Write(r)
  BY <1>9 DEF OtherReplica, Write, Put, environment, outboxVars, Types
<1>10. CASE \E x \in {"database", "broker"} : Recovery(x)
  BY <1>10 DEF Recovery, database, outboxVars, Types
<1>11. CASE \E x \in {"database", "broker"} : Outage(x)
  <2>1. PICK x \in {"database", "broker"} : Outage(x)
    BY <1>11
  <2>2. outages.database + 1 \in Nat /\ outages.broker + 1 \in Nat
    BY DEF Types
  <2>3. /\ DOMAIN outages' = {"database", "broker", "link"}
        /\ outages'.database \in Nat /\ outages'.broker \in Nat /\ outages'.link \in Nat
    BY <2>1, <2>2 DEF Outage, Types
  <2>4. /\ [consumer EXCEPT !.connection = Lost(@)] \in ConsumerStates
        /\ [publisher EXCEPT !.connection = Lost(@)] \in Connections
    BY <1>3 DEF Lost, ConsumerStates, Connections
  <2>5. [main EXCEPT !.session = Lost(@)] \in Mains
    BY <1>3 DEF Lost, Mains, Sessions
  <2>6. [relay EXCEPT !.session = Lost(@)] \in RelayStates(confirmed)
    BY <1>3 DEF Lost, RelayStates, Sessions
  <2> QED BY <2>1, <2>3, <2>4, <2>5, <2>6 DEF Outage, database, Types
<1>12. CASE LoseConnection
  <2>1. outages.link + 1 \in Nat
    BY DEF Types
  <2>2. /\ DOMAIN outages' = {"database", "broker", "link"}
        /\ outages'.database \in Nat /\ outages'.broker \in Nat /\ outages'.link \in Nat
    BY <1>12, <2>1 DEF LoseConnection, Types
  <2>3. /\ [consumer EXCEPT !.connection = "lost"] \in ConsumerStates
        /\ [publisher EXCEPT !.connection = "lost"] \in Connections
    BY <1>3 DEF ConsumerStates, Connections
  <2> QED BY <1>12, <2>2, <2>3 DEF LoseConnection, database, Types
<1> QED BY <1>4, <1>5, <1>6, <1>7, <1>8, <1>9, <1>10, <1>11, <1>12 DEF Shutdown

\* Every step keeps the shapes.
LEMMA NextTypes == Types /\ [Next]_vars => Types'
<1>1. Types /\ UNCHANGED vars => Types'
  BY DEF vars, environment, database, outboxVars, Types
<1> QED BY <1>1, StartupTypes, ConsumerTypes, RelayTypes, ShutdownTypes DEF Next

--------------------------------------------------------------------------------
(* Marked rows *)

\* A step that is not of the outbox thread starts it, ends it, or leaves its batch
\* alone, and marks no row.
LEMMA NotTheRelay ==
    ASSUME Types,
           \/ Start \/ Startup \/ StopRequested \/ Shutdown \/ Kill \/ ConsumerStep \/ OtherReplica
           \/ \E r \in Rows : Write(r)
           \/ \E x \in {"database", "broker"} : Outage(x) \/ Recovery(x)
           \/ LoseConnection
    PROVE  /\ UNCHANGED confirmed
           /\ \A r \in DOMAIN rows' : rows'[r] = "published" => r \in DOMAIN rows /\ rows[r] = "published"
           /\ \/ relay'.pc \in {"off", "loop"} /\ relay'.session = "none"
              \/ /\ relay'.pc = relay.pc /\ relay'.batch = relay.batch /\ relay'.sent = relay.sent
                 /\ relay'.session = relay.session \/ Outage("database")
<1> DEFINE Same == UNCHANGED confirmed /\ UNCHANGED rows
           Ended == relay' = NoRelay
<1>1. CASE Same /\ UNCHANGED relay
  BY <1>1
<1>2. CASE Same /\ Ended
  BY <1>2 DEF NoRelay
<1>3. CASE Start \/ StopRequested \/ ConsumerStep \/ Kill
  BY <1>1, <1>2, <1>3
  DEF Start, StopRequested, ConsumerStep, ConsumerLoop, ConsumerConnect, OpenChannel, DeclareTopology,
      Handle, HandlerReturns, StopConsuming, Kill, Exit, database, outboxVars
<1>4. CASE InspectTables \/ CreateTables \/ FindSeed \/ SelectSeed \/ ResetSeed \/ InsertSeed \/ RefreshSeed
  BY <1>1, <1>2, <1>4
  DEF InspectTables, CreateTables, FindSeed, SelectSeed, ResetSeed, InsertSeed, RefreshSeed,
      OperationalError, Exit, database, outboxVars
<1>5. CASE StartThreads
  BY <1>5 DEF StartThreads, NoRelay, database
<1>6. CASE SetConsumerStop \/ CheckConnection \/ AddCallback \/ CloseConnection \/ ClearConnection \/ Join
  BY <1>1, <1>2, <1>6
  DEF SetConsumerStop, CheckConnection, AddCallback, CloseConnection, ClearConnection, Join, Exit,
      database, outboxVars
<1>7. CASE SetOutboxStop
  BY <1>7 DEF SetOutboxStop, Types, RelayStates, database
<1>8. CASE OtherReplica \/ \E r \in Rows : Write(r)
  <2>1. UNCHANGED <<confirmed, relay>>
    BY <1>8 DEF OtherReplica, Write, outboxVars
  <2>2. \A r \in DOMAIN rows' : rows'[r] = "published" => r \in DOMAIN rows /\ rows[r] = "published"
    BY <1>8 DEF OtherReplica, Write, Put
  <2> QED BY <2>1, <2>2
<1>9. CASE LoseConnection \/ \E x \in {"database", "broker"} : Recovery(x)
  BY <1>1, <1>9 DEF LoseConnection, Recovery, database, outboxVars
<1>10. CASE \E x \in {"database", "broker"} : Outage(x)
  <2>1. PICK x \in {"database", "broker"} : Outage(x)
    BY <1>10
  <2>2. CASE x = "broker"
    BY <1>1, <2>1, <2>2 DEF Outage, database
  <2>3. CASE x = "database"
    <3>1. /\ relay'.pc = relay.pc /\ relay'.batch = relay.batch /\ relay'.sent = relay.sent
          /\ Same
      BY <2>1, <2>3 DEF Outage, Types, RelayStates, database
    <3> QED BY <2>1, <2>3, <3>1
  <2> QED BY <2>2, <2>3
<1> QED BY <1>3, <1>4, <1>5, <1>6, <1>7, <1>8, <1>9, <1>10 DEF Startup, Shutdown

\* The outbox thread marks the rows of a batch when the broker has confirmed them all.
LEMMA NextConfirmed == ProcessInv /\ [Next]_vars => ConfirmedInv'
<1> SUFFICES ASSUME ProcessInv, [Next]_vars PROVE ConfirmedInv'
  OBVIOUS
<1>1. relay \in RelayStates(confirmed) /\ ConfirmedInv /\ Types
  BY DEF ProcessInv, Types
<1>2. ASSUME relay'.pc # "commit", UNCHANGED rows, confirmed \subseteq confirmed'
      PROVE  ConfirmedInv'
  BY <1>1, <1>2 DEF ConfirmedInv, MarkedRowsWereConfirmed
<1>3. CASE SelectBatch \/ EnsureConnection \/ Connect \/ CreateChannel \/ DeclareExchange \/ Rollback
  <2>1. relay'.pc # "commit"
    BY <1>1, <1>3 DEF SelectBatch, EnsureConnection, Connect, CreateChannel, DeclareExchange, Rollback,
                      Raise, ConnectionRaises, BatchEnds, NoRelay, RelayStates
  <2>2. UNCHANGED <<rows, confirmed>>
    BY <1>3 DEF SelectBatch, EnsureConnection, Connect, CreateChannel, DeclareExchange, Rollback,
                database
  <2> QED BY <1>2, <2>1, <2>2
<1>4. CASE PublishRow
  <2>1. PICK r : r = NextRow
    OBVIOUS
  <2>2. CASE Sent /\ confirmed' = confirmed \cup {r}
    <3>1. /\ relay'.batch = relay.batch /\ relay'.sent = relay.sent \cup {r}
          /\ relay'.pc = "commit" => relay.batch \ relay.sent = {r}
      BY <1>1, <2>1, <2>2 DEF Sent, RelayStates
    <3>2. UNCHANGED rows
      BY <1>4 DEF PublishRow
    <3> QED BY <1>1, <2>2, <3>1, <3>2 DEF ConfirmedInv, MarkedRowsWereConfirmed
  <2>3. CASE Raise /\ UNCHANGED confirmed
    BY <1>1, <1>2, <1>4, <2>3 DEF Raise, RelayStates, PublishRow
  <2> QED BY <1>4, <2>1, <2>2, <2>3 DEF PublishRow
<1>5. CASE CommitBatch
  <2>1. relay'.pc = "loop" /\ relay.pc = "commit" /\ UNCHANGED confirmed
    BY <1>5 DEF CommitBatch, BatchEnds, NoRelay
  <2>2. relay.batch \subseteq confirmed
    BY <1>1, <2>1 DEF ConfirmedInv, RelayStates
  <2>3. \A r \in DOMAIN rows' : rows'[r] = "published" =>
           r \in relay.batch \/ (r \in DOMAIN rows /\ rows[r] = "published")
    BY <1>5 DEF CommitBatch
  <2> QED BY <1>1, <2>1, <2>2, <2>3 DEF ConfirmedInv, MarkedRowsWereConfirmed
<1>6. CASE UNCHANGED vars
  BY <1>1, <1>6 DEF vars, database, outboxVars, ConfirmedInv, MarkedRowsWereConfirmed
<1>7. CASE \/ Start \/ Startup \/ StopRequested \/ Shutdown \/ Kill \/ ConsumerStep \/ OtherReplica
           \/ \E r \in Rows : Write(r)
           \/ \E x \in {"database", "broker"} : Outage(x) \/ Recovery(x)
           \/ LoseConnection
  <2>1. /\ UNCHANGED confirmed
        /\ \A r \in DOMAIN rows' : rows'[r] = "published" => r \in DOMAIN rows /\ rows[r] = "published"
        /\ \/ relay'.pc \in {"off", "loop"}
           \/ relay'.pc = relay.pc /\ relay'.batch = relay.batch /\ relay'.sent = relay.sent
    BY <1>1, <1>7, NotTheRelay
  <2> QED BY <1>1, <2>1 DEF ConfirmedInv, MarkedRowsWereConfirmed
<1> QED BY <1>3, <1>4, <1>5, <1>6, <1>7 DEF Next, RelayStep

--------------------------------------------------------------------------------
(* Start-up *)

\* Tables are never dropped, and a process stays one of its service.
LEMMA TablesStay ==
    ASSUME [Next]_vars
    PROVE  service' = service /\ lifespan' = lifespan /\ tables \subseteq tables'
<1>1. service' = service
  BY DEF Next, vars, Start, Startup, InspectTables, CreateTables, FindSeed, SelectSeed, ResetSeed, InsertSeed,
         RefreshSeed, StartThreads,
         StopRequested, Shutdown, SetConsumerStop, CheckConnection, AddCallback, SetOutboxStop,
         CloseConnection, ClearConnection, Join, Kill, ConsumerStep, ConsumerLoop, ConsumerConnect,
         OpenChannel, DeclareTopology, Handle, HandlerReturns, StopConsuming, RelayStep, SelectBatch,
         EnsureConnection, Connect, CreateChannel, DeclareExchange, PublishRow, CommitBatch, Rollback,
         Write, OtherReplica, Outage, Recovery, LoseConnection, environment
<1>2. tables \subseteq tables'
  BY DEF Next, vars, Start, Startup, InspectTables, CreateTables, FindSeed, SelectSeed, ResetSeed, InsertSeed,
         RefreshSeed, StartThreads,
         StopRequested, Shutdown, SetConsumerStop, CheckConnection, AddCallback, SetOutboxStop,
         CloseConnection, ClearConnection, Join, Kill, ConsumerStep, ConsumerLoop, ConsumerConnect,
         OpenChannel, DeclareTopology, Handle, HandlerReturns, StopConsuming, RelayStep, SelectBatch,
         EnsureConnection, Connect, CreateChannel, DeclareExchange, PublishRow, CommitBatch, Rollback,
         Write, OtherReplica, Outage, Recovery, LoseConnection, database
<1> QED BY <1>1, <1>2 DEF lifespan

\* Where the main thread goes.
LEMMA MainAt ==
    ASSUME Types
    PROVE  /\ \A pc : Goto(pc) \/ Begins(pc) \/ Ends(pc) => main'.pc = pc /\ main'.missed = main.missed
           /\ AfterTables => main'.pc = IF lifespan.seeds THEN "find" ELSE "start"
           /\ OperationalError => main'.pc \in {"exited", "inspect"}
<1>1. main \in Mains
  BY DEF Types
<1>2. PICK zero : zero = 0
  OBVIOUS
<1>3. ASSUME NEW pc, Goto(pc) \/ Begins(pc) \/ Ends(pc)
      PROVE  main'.pc = pc /\ main'.missed = main.missed
  BY <1>1, <1>2, <1>3 DEF Goto, Begins, Ends, Mains
<1>4. ASSUME AfterTables
      PROVE  main'.pc = IF lifespan.seeds THEN "find" ELSE "start"
  <2>1. PICK pc : pc = IF lifespan.seeds THEN "find" ELSE "start"
    OBVIOUS
  <2>2. Ends(pc)
    BY <1>4, <2>1 DEF AfterTables
  <2> QED BY <1>3, <2>1, <2>2
<1>5. ASSUME OperationalError
      PROVE  main'.pc \in {"exited", "inspect"}
  <2>1. PICK n : n = main.left - 1
    OBVIOUS
  <2>2. CASE main' = [main EXCEPT !.pc = "inspect", !.left = n, !.session = "none"]
    BY <1>1, <2>2 DEF Mains
  <2>3. CASE main' = Exited
    BY <2>3 DEF Exited
  <2> QED BY <1>5, <2>1, <2>2, <2>3 DEF OperationalError, Exit
<1> QED BY <1>3, <1>4, <1>5

\* A step of the start-up before the threads are started.
LEMMA StartupStep ==
    ASSUME Types,
           \/ InspectTables \/ CreateTables \/ FindSeed \/ SelectSeed \/ ResetSeed \/ InsertSeed
           \/ RefreshSeed
    PROVE  /\ UNCHANGED environment
           /\ \/ Exit
              \/ UNCHANGED <<consumer, relay, publisher>> /\ main'.pc \in {"inspect", "create"} \cup Seeding
<1>1. UNCHANGED environment
  BY DEF InspectTables, CreateTables, FindSeed, SelectSeed, ResetSeed, InsertSeed, RefreshSeed
<1>2. \/ Exit
      \/ /\ UNCHANGED <<consumer, relay, publisher>>
         /\ \/ OperationalError \/ AfterTables
            \/ \E pc \in {"create"} \cup Seeding : Goto(pc) \/ Begins(pc) \/ Ends(pc)
  BY DEF InspectTables, CreateTables, FindSeed, SelectSeed, ResetSeed, InsertSeed, RefreshSeed,
         OperationalError, Seeding, outboxVars
<1>3. OperationalError /\ ~Exit => main'.pc = "inspect"
  <2>1. PICK n : n = main.left - 1
    OBVIOUS
  <2> QED BY <2>1 DEF OperationalError, Types, Mains
<1> QED BY <1>1, <1>2, <1>3, MainAt DEF Seeding

\* A step that does not start the threads and is not of the start-up keeps what is
\* known of the tables.
LEMMA StartupFrame ==
    ASSUME ProcessInv, [Next]_vars,
           main'.pc \in Seeding => main'.pc = main.pc,
           consumer'.pc # "off" => consumer.pc # "off",
           relay'.pc # "off" => relay.pc # "off"
    PROVE  StartupInv'
<1>1. lifespan' = lifespan /\ tables \subseteq tables'
  BY TablesStay
<1> QED BY <1>1 DEF ProcessInv, StartupInv, Seeding, ThreadsFindTheirTables

\* Tables first, then the seeded item, then the threads.
LEMMA NextStartup == ProcessInv /\ [Next]_vars => StartupInv'
<1> SUFFICES ASSUME ProcessInv, [Next]_vars PROVE StartupInv'
  OBVIOUS
<1>1. Types /\ StartupInv
  BY DEF ProcessInv
<1>2. lifespan' = lifespan /\ tables \subseteq tables'
  BY TablesStay
<1>3. CASE Exit
  BY <1>3, StartupFrame DEF Exit, Exited, NoConsumer, NoRelay, Seeding
<1>4. ASSUME UNCHANGED <<consumer, relay>>, main'.pc \in Seeding => "tables" \in tables',
             main'.pc \in {"reset", "refresh"} => "seed" \in tables',
             main'.pc = "start" /\ lifespan.seeds => "seed" \in tables'
      PROVE  StartupInv'
  BY <1>1, <1>2, <1>4 DEF StartupInv, ThreadsFindTheirTables
<1>5. CASE Start \/ StopRequested \/ Kill
  <2>1. CASE Start
    BY <1>4, <2>1 DEF Start, Exited, Seeding, outboxVars
  <2>2. CASE StopRequested
    BY <1>1, <1>4, <2>2, MainAt DEF StopRequested, Seeding, outboxVars
  <2> QED BY <1>3, <1>5, <2>1, <2>2 DEF Kill
<1>6. CASE InspectTables
  <2>1. CASE OperationalError
    BY <1>1, <1>3, <1>4, <2>1, MainAt DEF OperationalError, Seeding, outboxVars
  <2>2. CASE "tables" \in tables /\ AfterTables /\ UNCHANGED <<consumer, outboxVars>>
    BY <1>1, <1>2, <1>4, <2>2, MainAt DEF outboxVars
  <2>3. CASE Begins("create") /\ UNCHANGED <<consumer, outboxVars>>
    BY <1>1, <1>4, <2>3, MainAt DEF Seeding, outboxVars
  <2> QED BY <1>6, <2>1, <2>2, <2>3 DEF InspectTables
<1>7. CASE CreateTables
  <2>1. CASE OperationalError
    BY <1>1, <1>3, <1>4, <2>1, MainAt DEF OperationalError, Seeding, outboxVars
  <2>2. CASE tables' = tables \cup {"tables"} /\ AfterTables /\ UNCHANGED <<consumer, outboxVars>>
    BY <1>1, <1>4, <2>2, MainAt DEF outboxVars
  <2> QED BY <1>3, <1>7, <2>1, <2>2 DEF CreateTables
<1>8. CASE FindSeed \/ SelectSeed \/ ResetSeed \/ RefreshSeed
  <2>1. main.pc \in Seeding /\ "tables" \in tables'
    BY <1>1, <1>2, <1>8 DEF FindSeed, SelectSeed, ResetSeed, RefreshSeed, Seeding, StartupInv
  <2>2. ASSUME UNCHANGED <<consumer, outboxVars>>
        PROVE  main'.pc \in {"start", "reset", "refresh"} => "seed" \in tables'
    <3>1. CASE FindSeed /\ ~Exit
      BY <1>1, <1>2, <3>1, MainAt DEF FindSeed
    <3>2. CASE SelectSeed /\ ~Exit
      <4>1. main'.pc = IF "seed" \in tables THEN "reset" ELSE "insert"
        BY <1>1, <3>2, MainAt DEF SelectSeed
      <4> QED BY <1>2, <4>1
    <3>3. CASE ResetSeed /\ ~Exit
      BY <1>1, <1>2, <3>3 DEF ResetSeed, StartupInv
    <3>4. CASE RefreshSeed /\ ~Exit
      BY <1>1, <1>2, <3>4 DEF RefreshSeed, StartupInv
    <3>5. Exit => main'.pc = "exited"
      BY DEF Exit, Exited
    <3> QED BY <1>8, <3>1, <3>2, <3>3, <3>4, <3>5
  <2>3. Exit \/ UNCHANGED <<consumer, outboxVars>>
    BY <1>8 DEF FindSeed, SelectSeed, ResetSeed, RefreshSeed
  <2> QED BY <1>3, <1>4, <2>1, <2>2, <2>3 DEF outboxVars
<1>9. CASE InsertSeed
  <2>1. CASE tables' = tables \cup {"seed"} /\ UNCHANGED <<consumer, outboxVars>>
    <3>1. "tables" \in tables'
      BY <1>1, <1>2, <1>9 DEF InsertSeed, Seeding, StartupInv
    <3> QED BY <1>4, <2>1, <3>1 DEF outboxVars
  <2> QED BY <1>3, <1>9, <2>1 DEF InsertSeed
<1>10. CASE StartThreads
  <2>1. main'.pc = "serving"
    BY <1>1, <1>10, MainAt DEF StartThreads
  <2> QED BY <1>1, <1>2, <1>10, <2>1 DEF StartThreads, StartupInv, Seeding, ThreadsFindTheirTables
<1>11. CASE Shutdown
  <2>1. CASE SetConsumerStop
    <3>1. consumer'.pc = consumer.pc /\ main'.pc = "checkConnection" /\ UNCHANGED relay
      BY <1>1, <2>1, MainAt DEF SetConsumerStop, outboxVars, Types, ConsumerStates
    <3> QED BY <3>1, StartupFrame DEF Seeding
  <2>2. main.pc \in MainPcs /\ AfterConsumer \notin Seeding
    BY <1>1 DEF Types, Mains, AfterConsumer, Seeding
  <2>3. CASE CheckConnection
    <3>1. main'.pc \in {"addCallback", AfterConsumer} /\ UNCHANGED <<consumer, relay>>
      BY <1>1, <2>3 DEF CheckConnection, outboxVars, Types, Mains
    <3>2. main'.pc \notin Seeding
      BY <2>2, <3>1 DEF Seeding
    <3> QED BY <3>1, <3>2, StartupFrame
  <2>4. CASE AddCallback
    <3>1. CASE ~Exit
      <4>1. consumer'.pc = consumer.pc /\ main'.pc = AfterConsumer /\ UNCHANGED relay
        BY <1>1, <2>4, <3>1, MainAt DEF AddCallback, outboxVars, Types, ConsumerStates
      <4> QED BY <2>2, <4>1, StartupFrame
    <3> QED BY <1>3, <3>1
  <2>5. CASE SetOutboxStop
    <3>1. relay'.pc = relay.pc /\ main'.pc \in {"close", "clear"} /\ UNCHANGED consumer
      BY <1>1, <2>5, MainAt DEF SetOutboxStop, Types, RelayStates
    <3> QED BY <3>1, StartupFrame DEF Seeding
  <2>6. CASE CloseConnection \/ ClearConnection
    <3>1. CASE ~Exit
      <4>1. main'.pc \in {"clear", "join"} /\ UNCHANGED <<consumer, relay>>
        BY <1>1, <2>6, <3>1, MainAt DEF CloseConnection, ClearConnection
      <4> QED BY <4>1, StartupFrame DEF Seeding
    <3> QED BY <1>3, <3>1
  <2> QED BY <1>3, <1>11, <2>1, <2>3, <2>4, <2>5, <2>6 DEF Shutdown, Join
<1>12. CASE ConsumerStep
  <2>1. consumer.pc # "off" /\ UNCHANGED <<main, relay>>
    BY <1>12 DEF ConsumerStep, ConsumerLoop, ConsumerConnect, OpenChannel, DeclareTopology, Handle,
                 HandlerReturns, StopConsuming, outboxVars
  <2> QED BY <2>1, StartupFrame
<1>13. CASE RelayStep
  <2>1. relay.pc # "off" /\ UNCHANGED <<main, consumer>>
    BY <1>13 DEF RelayStep, SelectBatch, EnsureConnection, Connect, CreateChannel, DeclareExchange,
                 PublishRow, CommitBatch, Rollback
  <2> QED BY <2>1, StartupFrame
<1>14. CASE \/ OtherReplica \/ \E r \in Rows : Write(r)
            \/ \E x \in {"database", "broker"} : Recovery(x)
            \/ UNCHANGED vars
  <2>1. UNCHANGED <<main, consumer, relay>>
    BY <1>14 DEF OtherReplica, Write, Recovery, vars, outboxVars
  <2> QED BY <2>1, StartupFrame
<1>15. ASSUME LoseConnection \/ \E x \in {"database", "broker"} : Outage(x)
       PROVE  StartupInv'
  <2>1. consumer'.pc = consumer.pc /\ relay'.pc = relay.pc /\ main'.pc = main.pc
    BY <1>1, <1>15 DEF Outage, LoseConnection, Types, ConsumerStates, RelayStates, Mains
  <2> QED BY <2>1, StartupFrame
<1> QED BY <1>5, <1>6, <1>7, <1>8, <1>9, <1>10, <1>11, <1>12, <1>13, <1>14, <1>15 DEF Next, Startup

--------------------------------------------------------------------------------
(* stop() and the consumer *)

\* Where the main thread can be after it has set the consumer's stop event.
Stopping == {"checkConnection", "addCallback"} \cup Past

\* A step before the shutdown, that does not give the consumer a channel.
LEMMA NotStopping ==
    ASSUME main'.pc \notin Stopping,
           consumer'.pc \in {"topology", "consume", "handle"} => consumer'.channel = "current"
    PROVE  StopInv'
  BY DEF StopInv, StopReachesConsumer, Stopping, Past

\* What the consumer's own steps do once stop() has set its event: it goes on with the
\* connection it has, or to its end.
LEMMA ConsumerAfterStop ==
    ASSUME Types, StopInv, ConsumerStep
    PROVE  /\ consumer'.stop = consumer.stop
           /\ consumer'.pc \in {"topology", "consume", "handle"} => consumer'.channel = "current"
           /\ consumer.stop /\ consumer.pc \notin {"connect", "channel"} =>
                 /\ consumer'.pc \notin {"connect", "channel"}
                 /\ consumer'.connection = "open" => consumer.connection = "open"
                 /\ consumer'.pc \in {"topology", "consume", "handle"} =>
                      /\ consumer.pc \in {"topology", "consume", "handle"}
                      /\ consumer.callback = "current" => consumer'.callback = "current"
<1>1. consumer \in ConsumerStates
  BY DEF Types
<1>2. CASE ConsumerLoop
  <2>1. CASE consumer.stop
    BY <1>1, <1>2, <2>1 DEF ConsumerLoop, ConsumerStates
  <2>2. CASE ~consumer.stop
    BY <1>1, <1>2, <2>2 DEF ConsumerLoop, ConsumerStates
  <2> QED BY <2>1, <2>2
<1>3. CASE ConsumerConnect
  <2>1. PICK n : n = consumer.left - 1
    OBVIOUS
  <2>2. PICK zero : zero = 0
    OBVIOUS
  <2>3. CASE ConsumerConnected
    BY <1>1, <1>3, <2>3 DEF ConsumerConnect, ConsumerConnected, ConsumerStates
  <2>4. CASE \/ consumer' = [consumer EXCEPT !.pc = "loop", !.left = zero]
             \/ consumer' = [consumer EXCEPT !.left = n]
    <3>1. consumer'.stop = consumer.stop /\ consumer'.pc \in {"loop", consumer.pc}
      BY <1>1, <2>4 DEF ConsumerStates
    <3> QED BY <1>3, <3>1 DEF ConsumerConnect
  <2> QED BY <1>3, <2>1, <2>2, <2>3, <2>4 DEF ConsumerConnect, ConsumerFails
<1>4. CASE ConnectionLost
  BY <1>1, <1>4 DEF ConnectionLost, ConsumerStates
<1>5. CASE OpenChannel
  BY <1>1, <1>4, <1>5 DEF OpenChannel, ConsumerStates
<1>6. CASE DeclareTopology \/ Handle \/ HandlerReturns
  BY <1>1, <1>4, <1>6 DEF DeclareTopology, Handle, HandlerReturns, ConsumerStates, StopInv
<1>7. CASE StopConsuming
  <2>1. CASE consumer' = [consumer EXCEPT !.pc = "loop", !.callback = "none"]
    BY <1>1, <1>7, <2>1 DEF StopConsuming, ConsumerStates
  <2>2. CASE consumer.callback = "old" /\ consumer' = [consumer EXCEPT !.callback = "none"]
    BY <1>1, <1>7, <2>2 DEF StopConsuming, ConsumerStates, StopInv
  <2> QED BY <1>4, <1>7, <2>1, <2>2 DEF StopConsuming
<1> QED BY <1>2, <1>3, <1>5, <1>6, <1>7 DEF ConsumerStep

\* stop() reaches the consumer, or finds it on the way to a new connection.
LEMMA NextStop == ProcessInv /\ [Next]_vars => StopInv'
<1> SUFFICES ASSUME ProcessInv, [Next]_vars PROVE StopInv'
  OBVIOUS
<1>1. Types /\ StopInv /\ main \in Mains /\ consumer \in ConsumerStates
  BY DEF ProcessInv, Types
<1>2. CASE Exit
  BY <1>2, NotStopping DEF Exit, Exited, NoConsumer, Stopping, Past
<1>3. ASSUME UNCHANGED consumer, main'.pc \notin Stopping
      PROVE  StopInv'
  BY <1>1, <1>3, NotStopping DEF StopInv
<1>4. CASE Start
  BY <1>3, <1>4 DEF Start, Exited, Stopping, Past
<1>5. CASE StopRequested
  BY <1>1, <1>3, <1>5, MainAt DEF StopRequested, Stopping, Past
<1>6. CASE InspectTables \/ CreateTables \/ FindSeed \/ SelectSeed \/ ResetSeed \/ InsertSeed \/ RefreshSeed
  BY <1>1, <1>2, <1>3, <1>6, StartupStep DEF Stopping, Past, Seeding
<1>7. CASE StartThreads
  <2>1. consumer'.pc = "loop" /\ main'.pc = "serving"
    BY <1>1, <1>7, MainAt DEF StartThreads, NoConsumer
  <2> QED BY <2>1, NotStopping DEF Stopping, Past
<1>8. CASE SetConsumerStop
  <2>1. /\ consumer'.stop = TRUE /\ main'.pc = "checkConnection"
        /\ consumer'.pc = consumer.pc /\ consumer'.channel = consumer.channel
    BY <1>1, <1>8, MainAt DEF SetConsumerStop, ConsumerStates
  <2> QED BY <1>1, <2>1 DEF StopInv, StopReachesConsumer, Past
<1>9. CASE CheckConnection
  <2>1. consumer.stop /\ UNCHANGED consumer
    BY <1>1, <1>9 DEF CheckConnection, StopInv
  <2>2. /\ main'.missed = (consumer.pc \in {"connect", "channel"})
        /\ main'.pc = IF IsOpen(consumer.connection) /\ consumer.channel # "none"
                      THEN "addCallback" ELSE AfterConsumer
    BY <1>1, <1>9 DEF CheckConnection, Mains
  <2>3. ~main'.missed => consumer.pc \notin {"connect", "channel"}
    BY <2>2
  <2>4. main'.pc \in Past => ~(consumer.connection = "open" /\ consumer.channel # "none")
    BY <2>2 DEF Past, IsOpen
  <2> QED BY <1>1, <2>1, <2>3, <2>4 DEF StopInv, StopReachesConsumer, Past
<1>10. CASE AddCallback
  <2>1. CASE /\ consumer' = [consumer EXCEPT !.callback = consumer.channel]
             /\ Goto(AfterConsumer)
    <3>1. /\ consumer'.callback = consumer.channel /\ consumer'.channel = consumer.channel
          /\ consumer'.pc = consumer.pc /\ consumer'.stop = consumer.stop
          /\ main'.missed = main.missed
      BY <1>1, <2>1, MainAt DEF ConsumerStates
    <3> QED BY <1>1, <1>10, <3>1 DEF AddCallback, StopInv, StopReachesConsumer, Past
  <2> QED BY <1>2, <1>10, <2>1 DEF AddCallback
<1>11. ASSUME UNCHANGED consumer, main'.missed = main.missed, main.pc \in Past
       PROVE  StopInv'
  BY <1>1, <1>11 DEF StopInv, StopReachesConsumer, Past
<1>12. CASE SetOutboxStop \/ CloseConnection \/ ClearConnection \/ Join
  BY <1>1, <1>2, <1>11, <1>12, MainAt DEF SetOutboxStop, CloseConnection, ClearConnection, Join, Past
<1>13. CASE ConsumerStep
  <2>1. UNCHANGED main
    BY <1>13 DEF ConsumerStep, ConsumerLoop, ConsumerConnect, OpenChannel, DeclareTopology, Handle,
                 HandlerReturns, StopConsuming
  <2>2. /\ consumer'.stop = consumer.stop
        /\ consumer'.pc \in {"topology", "consume", "handle"} => consumer'.channel = "current"
        /\ consumer.stop /\ consumer.pc \notin {"connect", "channel"} =>
              /\ consumer'.pc \notin {"connect", "channel"}
              /\ consumer'.connection = "open" => consumer.connection = "open"
              /\ consumer'.pc \in {"topology", "consume", "handle"} =>
                   /\ consumer.pc \in {"topology", "consume", "handle"}
                   /\ consumer.callback = "current" => consumer'.callback = "current"
    BY <1>1, <1>13, ConsumerAfterStop
  <2> QED BY <1>1, <2>1, <2>2 DEF StopInv, StopReachesConsumer, Past
<1>14. CASE UNCHANGED <<main, consumer>>
  BY <1>1, <1>14 DEF StopInv, StopReachesConsumer
<1>15. CASE \/ RelayStep \/ OtherReplica \/ \E r \in Rows : Write(r)
            \/ \E x \in {"database", "broker"} : Recovery(x)
            \/ UNCHANGED vars
  <2>1. UNCHANGED <<main, consumer>>
    BY <1>15 DEF RelayStep, SelectBatch, EnsureConnection, Connect, CreateChannel, DeclareExchange,
                 PublishRow, CommitBatch, Rollback, OtherReplica, Write, Recovery, vars
  <2> QED BY <1>14, <2>1
<1>16. ASSUME LoseConnection \/ \E x \in {"database", "broker"} : Outage(x)
       PROVE  StopInv'
  <2>1. main'.pc = main.pc /\ main'.missed = main.missed
    BY <1>1, <1>16 DEF Outage, LoseConnection, Mains
  <2>2. /\ consumer'.pc = consumer.pc /\ consumer'.stop = consumer.stop
        /\ consumer'.channel = consumer.channel /\ consumer'.callback = consumer.callback
        /\ consumer'.connection = "open" => consumer.connection = "open"
    BY <1>1, <1>16 DEF Outage, LoseConnection, Lost, ConsumerStates
  <2> QED BY <1>1, <2>1, <2>2 DEF StopInv, StopReachesConsumer
<1> QED BY <1>2, <1>4, <1>5, <1>6, <1>7, <1>8, <1>9, <1>10, <1>12, <1>13, <1>15, <1>16
        DEF Next, Startup, Shutdown, Kill

--------------------------------------------------------------------------------
(* Outages *)

\* A step of the outbox thread: if no connection was ever lost, and without stop(), it
\* finds its connection as it left it; a rollback that raises needs a lost session.
LEMMA RelayInOutages ==
    ASSUME ProcessInv, RelayStep
    PROVE  OutageInv'
<1>1. /\ relay \in RelayStates(confirmed) /\ publisher \in Connections /\ OutageInv
  BY DEF ProcessInv, Types
<1>2. UNCHANGED <<main, up, outages>>
  BY DEF RelayStep, SelectBatch, EnsureConnection, Connect, CreateChannel, DeclareExchange, PublishRow,
         CommitBatch, Rollback, environment
<1> DEFINE NoneLost == outages.broker + outages.link = 0
<1>3. ASSUME relay'.session = "lost" => relay.session = "lost",
             publisher'.connection = "lost" => publisher.connection = "lost",
             main.pc = "serving" /\ NoneLost =>
                /\ relay'.pc # "rollback"
                /\ relay'.pc = "channel" => publisher'.connection = "open"
                /\ relay'.pc \in {"declare", "publish"} => Usable',
             relay'.pc = "dead" /\ main.pc = "serving" =>
                outages.database > 0 /\ outages.broker + outages.link > 0
      PROVE  OutageInv'
  BY <1>1, <1>2, <1>3 DEF OutageInv, OneKindOfFaultIsSurvived
<1>4. CASE SelectBatch
  <2>1. /\ relay'.pc \in {"ended", "ensure"} /\ (relay'.session = "lost" => relay.session = "lost")
        /\ UNCHANGED publisher
    BY <1>1, <1>4 DEF SelectBatch, RelayStates
  <2> QED BY <1>3, <2>1
<1>5. CASE EnsureConnection
  <2>1. UNCHANGED publisher /\ relay'.session = relay.session
    BY <1>1, <1>5 DEF EnsureConnection, RelayStates
  <2>2. CASE IsOpen(publisher.connection) /\ publisher.channel = "open"
    <3>1. relay'.pc = "publish"
      BY <1>1, <1>5, <2>2 DEF EnsureConnection, RelayStates
    <3>2. NoneLost => Usable
      BY <1>1, <2>2 DEF OutageInv, IsOpen, Usable
    <3>3. NoneLost => Usable'
      BY <2>1, <3>2 DEF Usable
    <3> QED BY <1>3, <2>1, <3>1, <3>3
  <2>3. CASE ~(IsOpen(publisher.connection) /\ publisher.channel = "open")
    <3>1. relay'.pc = "connect"
      BY <1>1, <1>5, <2>3 DEF EnsureConnection, RelayStates
    <3> QED BY <1>3, <2>1, <3>1
  <2> QED BY <2>2, <2>3
<1>6. CASE Connect
  <2>1. PICK zero : zero = 0
    OBVIOUS
  <2>2. CASE "broker" \in up
    <3>1. relay' = [relay EXCEPT !.pc = "channel", !.left = zero]
          /\ publisher' = [publisher EXCEPT !.connection = "open"]
      BY <1>6, <2>1, <2>2 DEF Connect
    <3>2. /\ relay'.pc = "channel" /\ relay'.session = relay.session
          /\ publisher'.connection = "open"
      BY <1>1, <3>1 DEF RelayStates, Connections
    <3> QED BY <1>3, <3>2
  <2>3. CASE "broker" \notin up
    <3>1. PICK n : n = relay.left - 1
      OBVIOUS
    <3>2. /\ \/ relay' = [relay EXCEPT !.left = n]
             \/ relay' = [relay EXCEPT !.pc = "rollback", !.left = zero]
          /\ relay.pc = "connect" /\ UNCHANGED publisher
      BY <1>6, <2>1, <2>3, <3>1 DEF Connect, Raise
    <3>3. relay'.pc \in {"rollback", "connect"} /\ relay'.session = relay.session
      BY <1>1, <3>2 DEF RelayStates
    <3>4. ~NoneLost
      BY <1>1, <2>3 DEF OutageInv
    <3> QED BY <1>3, <3>2, <3>3, <3>4
  <2> QED BY <2>2, <2>3
<1>7. ASSUME Raise, publisher'.connection # "lost" \/ UNCHANGED publisher,
             main.pc = "serving" => ~NoneLost
      PROVE  OutageInv'
  <2>1. PICK zero : zero = 0
    OBVIOUS
  <2>2. relay' = [relay EXCEPT !.pc = "rollback", !.left = zero]
    BY <1>7, <2>1 DEF Raise
  <2>3. relay'.pc = "rollback" /\ relay'.session = relay.session
    BY <1>1, <2>2 DEF RelayStates
  <2> QED BY <1>3, <1>7, <2>3
<1>8. CASE CreateChannel
  <2>1. CASE publisher.connection = "open" /\ relay' = [relay EXCEPT !.pc = "declare"]
             /\ publisher' = [publisher EXCEPT !.channel = "open"]
    <3>1. /\ relay'.pc = "declare" /\ relay'.session = relay.session /\ Usable'
          /\ publisher'.connection = "open"
      BY <1>1, <2>1 DEF Usable, RelayStates, Connections
    <3> QED BY <1>3, <3>1
  <2>2. CASE publisher.connection # "open" /\ ConnectionRaises
    BY <1>1, <1>7, <1>8, <2>2 DEF CreateChannel, ConnectionRaises, OutageInv
  <2> QED BY <1>8, <2>1, <2>2 DEF CreateChannel
<1>9. CASE DeclareExchange
  <2>1. CASE Usable
    <3>1. relay'.pc = "publish" /\ relay'.session = relay.session /\ UNCHANGED publisher
      BY <1>1, <1>9, <2>1 DEF DeclareExchange, RelayStates
    <3>2. Usable'
      BY <2>1, <3>1 DEF Usable
    <3> QED BY <1>3, <3>1, <3>2
  <2>2. CASE ~Usable
    BY <1>1, <1>7, <1>9, <2>2 DEF DeclareExchange, ConnectionRaises, OutageInv
  <2> QED BY <2>1, <2>2
<1>10. CASE PublishRow
  <2>1. CASE Usable
    <3>1. PICK pc : pc = IF relay.batch \ relay.sent = {NextRow} THEN "commit" ELSE "ensure"
      OBVIOUS
    <3>2. PICK sent : sent = relay.sent \cup {NextRow}
      OBVIOUS
    <3>3. relay' = [relay EXCEPT !.sent = sent, !.pc = pc]
      BY <1>10, <2>1, <3>1, <3>2 DEF PublishRow, Sent
    <3>4. /\ relay'.pc \in {"commit", "ensure"} /\ relay'.session = relay.session
          /\ UNCHANGED publisher
      BY <1>1, <1>10, <2>1, <3>1, <3>3 DEF PublishRow, RelayStates
    <3> QED BY <1>3, <3>4
  <2>2. CASE ~Usable
    BY <1>1, <1>7, <1>10, <2>2 DEF PublishRow, NoConnection, OutageInv
  <2> QED BY <2>1, <2>2
<1>11. \A pc : BatchEnds(pc) => relay'.pc = pc /\ relay'.session = "none"
  BY DEF BatchEnds, NoRelay
<1>12. CASE CommitBatch
  <2>1. relay'.pc = "loop" /\ relay'.session = "none" /\ UNCHANGED publisher
    BY <1>11, <1>12 DEF CommitBatch
  <2> QED BY <1>3, <2>1
<1>13. CASE Rollback
  <2>1. CASE BatchEnds("loop")
    BY <1>3, <1>11, <1>13, <2>1 DEF Rollback
  <2>2. CASE relay.session = "lost" /\ BatchEnds("dead")
    <3>1. relay'.pc = "dead" /\ relay'.session = "none"
      BY <1>11, <2>2
    <3>2. outages.broker + outages.link \in Nat
      BY DEF ProcessInv, Types
    <3>3. main.pc = "serving" => outages.database > 0 /\ outages.broker + outages.link > 0
      BY <1>1, <1>13, <2>2, <3>2 DEF Rollback, OutageInv
    <3> QED BY <1>3, <1>13, <3>1, <3>3 DEF Rollback
  <2> QED BY <1>13, <2>1, <2>2 DEF Rollback
<1> QED BY <1>4, <1>5, <1>6, <1>8, <1>9, <1>10, <1>12, <1>13 DEF RelayStep

\* Every step keeps what one kind of fault can do to the outbox thread.
LEMMA NextOutage == ProcessInv /\ [Next]_vars => OutageInv'
<1> SUFFICES ASSUME ProcessInv, [Next]_vars PROVE OutageInv'
  OBVIOUS
<1>1. Types /\ OutageInv
  BY DEF ProcessInv
<1>2. ASSUME UNCHANGED <<up, outages>>, main'.pc # "serving",
             relay'.session = "lost" => relay.session = "lost",
             publisher'.connection = "lost" => publisher.connection = "lost"
      PROVE  OutageInv'
  BY <1>1, <1>2 DEF OutageInv, OneKindOfFaultIsSurvived
<1>3. CASE Exit /\ UNCHANGED <<up, outages>>
  BY <1>2, <1>3 DEF Exit, Exited, NoRelay, NoConnection
<1>4. CASE Start
  BY <1>2, <1>4 DEF Start, Exited, outboxVars
<1>5. CASE StopRequested
  BY <1>1, <1>2, <1>5, MainAt DEF StopRequested, environment, outboxVars
<1>6. CASE InspectTables \/ CreateTables \/ FindSeed \/ SelectSeed \/ ResetSeed \/ InsertSeed \/ RefreshSeed
  BY <1>1, <1>2, <1>3, <1>6, StartupStep DEF Seeding, environment
<1>7. CASE StartThreads
  <2>1. relay'.pc \in {"loop", "off"} /\ relay'.session = "none" /\ UNCHANGED <<up, outages, publisher>>
    BY <1>7 DEF StartThreads, NoRelay, environment
  <2> QED BY <1>1, <2>1 DEF OutageInv, OneKindOfFaultIsSurvived
<1>8. CASE Shutdown
  <2>1. UNCHANGED <<up, outages>>
    BY <1>8 DEF Shutdown, SetConsumerStop, CheckConnection, AddCallback, SetOutboxStop, CloseConnection,
                ClearConnection, Join, environment
  <2>2. AfterConsumer # "serving" /\ main \in Mains /\ relay \in RelayStates(confirmed)
    BY <1>1 DEF AfterConsumer, Types
  <2>3. Exit \/ main'.pc # "serving"
    <3>1. CASE CheckConnection
      BY <2>2, <3>1 DEF CheckConnection, Mains
    <3>2. CASE SetOutboxStop
      BY <1>1, <3>2, MainAt DEF SetOutboxStop
    <3> QED BY <1>1, <1>8, <2>2, <3>1, <3>2, MainAt
            DEF Shutdown, SetConsumerStop, AddCallback, CloseConnection, ClearConnection, Join
  <2>4. Exit \/ relay'.session = relay.session
    BY <1>8, <2>2
    DEF Shutdown, SetConsumerStop, CheckConnection, AddCallback, SetOutboxStop, CloseConnection,
        ClearConnection, Join, RelayStates, outboxVars
  <2>5. Exit \/ (publisher'.connection = "lost" => publisher.connection = "lost")
    BY <1>8
    DEF Shutdown, SetConsumerStop, CheckConnection, AddCallback, SetOutboxStop, CloseConnection,
        ClearConnection, Join, NoConnection, outboxVars
  <2> QED BY <1>2, <1>3, <2>1, <2>3, <2>4, <2>5
<1>9. ASSUME UNCHANGED <<main, relay, publisher, outages>>, up \subseteq up'
      PROVE  OutageInv'
  BY <1>1, <1>9 DEF OutageInv, OneKindOfFaultIsSurvived, Usable
<1>10. CASE \/ ConsumerStep \/ OtherReplica \/ \E r \in Rows : Write(r)
            \/ \E x \in {"database", "broker"} : Recovery(x)
            \/ UNCHANGED vars
  <2>1. UNCHANGED <<main, relay, publisher, outages>> /\ up \subseteq up'
    BY <1>10 DEF ConsumerStep, ConsumerLoop, ConsumerConnect, OpenChannel, DeclareTopology, Handle,
                 HandlerReturns, StopConsuming, OtherReplica, Write, Recovery, vars, environment,
                 outboxVars
  <2> QED BY <1>9, <2>1
<1>11. CASE Outage("broker") \/ LoseConnection
  <2>1. /\ UNCHANGED <<main, relay>> /\ outages'.database = outages.database
        /\ outages'.broker + outages'.link > 0
    BY <1>1, <1>11 DEF Outage, LoseConnection, Types
  <2> QED BY <1>1, <2>1 DEF OutageInv, OneKindOfFaultIsSurvived
<1>12. CASE Outage("database")
  <2>1. /\ UNCHANGED publisher
        /\ outages'.database > 0 /\ outages'.broker = outages.broker /\ outages'.link = outages.link
        /\ "broker" \in up => "broker" \in up'
    BY <1>1, <1>12 DEF Outage, Types
  <2>2. relay'.pc = relay.pc /\ main'.pc = main.pc
    BY <1>1, <1>12 DEF Outage, Types, RelayStates, Mains
  <2> QED BY <1>1, <2>1, <2>2 DEF OutageInv, OneKindOfFaultIsSurvived, Usable
<1> QED BY <1>3, <1>4, <1>5, <1>6, <1>7, <1>8, <1>10, <1>11, <1>12, RelayInOutages
        DEF Next, Startup, Kill, environment

--------------------------------------------------------------------------------
(* The invariant of a process *)

\* It holds before the first start.
LEMMA InitProcess == Init => ProcessInv
<1> SUFFICES ASSUME Init PROVE ProcessInv
  OBVIOUS
<1>1. DOMAIN rows = {}
  BY DEF Init
<1>2. Types
  BY <1>1 DEF Init, Types, Exited, NoConsumer, NoRelay, NoConnection, Mains, MainPcs, ConsumerStates,
              ConsumerPcs, RelayStates, RelayPcs, Connections, Sessions
<1>3. ConfirmedInv
  BY <1>1 DEF Init, NoRelay, ConfirmedInv, MarkedRowsWereConfirmed
<1>4. StartupInv
  BY DEF Init, Exited, NoConsumer, NoRelay, StartupInv, Seeding, ThreadsFindTheirTables
<1>5. StopInv
  BY DEF Init, Exited, NoConsumer, StopInv, StopReachesConsumer, Past
<1>6. OutageInv
  BY DEF Init, Exited, NoRelay, NoConnection, OutageInv, OneKindOfFaultIsSurvived
<1> QED BY <1>2, <1>3, <1>4, <1>5, <1>6 DEF ProcessInv

\* It holds always.
LEMMA ProcessInvariant == Spec => []ProcessInv
<1>1. ProcessInv /\ [Next]_vars => ProcessInv'
  BY NextTypes, NextConfirmed, NextStartup, NextStop, NextOutage DEF ProcessInv
<1> QED BY <1>1, InitProcess, PTL DEF Spec

\* No row is marked as published that the broker has not confirmed, whatever stop() and
\* the outbox thread do to the connection they share without a lock.
THEOREM MarksAreConfirmed == Spec => []MarkedRowsWereConfirmed
<1>1. ProcessInv => MarkedRowsWereConfirmed
  BY DEF ProcessInv, ConfirmedInv
<1> QED BY <1>1, ProcessInvariant, PTL

\* No thread runs before the tables exist and the item is seeded, however often the
\* start-up was tried, and whichever replica created them.
THEOREM TablesBeforeThreads == Spec => []ThreadsFindTheirTables
<1>1. ProcessInv => ThreadsFindTheirTables
  BY DEF ProcessInv, StartupInv
<1> QED BY <1>1, ProcessInvariant, PTL

\* stop() leaves its callback with a consumer that is consuming, or found the thread
\* on the way to a new connection.
THEOREM StopIsHeard == Spec => []StopReachesConsumer
<1>1. ProcessInv => StopReachesConsumer
  BY DEF ProcessInv, StopInv
<1> QED BY <1>1, ProcessInvariant, PTL

\* The outbox thread of a serving replica dies only if the database has failed and a
\* connection to the broker was lost, in an outage or alone.
THEOREM OneKindOfFaultDoesNotKill == Spec => []OneKindOfFaultIsSurvived
<1>1. ProcessInv => OneKindOfFaultIsSurvived
  BY DEF ProcessInv, OutageInv
<1> QED BY <1>1, ProcessInvariant, PTL

================================================================================
