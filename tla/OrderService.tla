----------------------------- MODULE OrderService ------------------------------
(*****************************************************************************)
(* The order service statement by statement: POST /orders requests and the   *)
(* consumer threads of its replicas interleave on one PostgreSQL database at *)
(* READ COMMITTED. No statement of this service takes a row lock: the handler*)
(* reads the order, decides the transition from that copy, and commits. The  *)
(* tables are those of OrderLifecycle, the variables of which (vars) this    *)
(* module extends by the threads' own.                                       *)
(*                                                                           *)
(* The inventory and payment services are the environment: for an order they *)
(* send one verdict and, after a reservation, one payment outcome. Answers   *)
(* stay in the inbox, so they are handled in any order, repeatedly, and by   *)
(* several consumers at once.                                                *)
(*****************************************************************************)
EXTENDS OrderLifecycle, FiniteSets

CONSTANTS
    Consumers,     \* the replicas' consumer threads
    Sessions,      \* the threads serving POST /orders
    MaxCrashes     \* bound: handlers and requests cut off

ASSUME MaxCrashesAssumption == MaxCrashes \in Nat

VARIABLES
    inbox,       \* answers published to order-service-events so far
    job,         \* each consumer's handler call
    session,     \* each request's progress through create_order
    replies,     \* history: the answers clients received
    crashes      \* crashes so far

serviceVars == <<vars, inbox, job, session, replies, crashes>>

Idle == [pc |-> "idle"]

ServiceInit ==
    /\ Init
    /\ inbox = {}
    /\ job = [c \in Consumers |-> Idle]
    /\ session = [s \in Sessions |-> Idle]
    /\ replies = {}
    /\ crashes = 0

--------------------------------------------------------------------------------
(* POST /orders *)

\* A request arrives, first or retried by its client, and create_order looks for
\* an order under its key.
Lookup(s, key, request) ==
    /\ session[s] = Idle
    /\ \/ \E o \in DOMAIN orders :
             /\ orders[o].key = key
             /\ session' = [session EXCEPT ![s] =
                              [pc |-> "reply", key |-> key, order |-> o, created |-> FALSE]]
       \/ /\ ~KeyTaken(key)
          /\ session' = [session EXCEPT ![s] = [pc |-> "insert", key |-> key, request |-> request]]
    /\ UNCHANGED <<vars, inbox, job, replies, crashes>>

\* The commit of the order and its order.created; the unique index on the key
\* refuses it if another request committed first.
Insert(s) ==
    /\ session[s].pc = "insert"
    /\ \/ \E o \in Orders :
             /\ CreateOrder(session[s].key, session[s].request, o)
             /\ session' = [session EXCEPT ![s] =
                              [pc |-> "reply", key |-> @.key, order |-> o, created |-> TRUE]]
       \/ /\ KeyTaken(session[s].key)
          /\ session' = [session EXCEPT ![s] = [pc |-> "reread", key |-> @.key]]
          /\ UNCHANGED vars
    /\ UNCHANGED <<inbox, job, replies, crashes>>

\* Mutant: the answer names the order that was rolled back.
Reread_RolledBack(s) ==
    /\ session[s].pc = "reread"
    /\ \E o \in Orders \ DOMAIN orders :
          session' = [session EXCEPT ![s] =
                        [pc |-> "reply", key |-> @.key, order |-> o, created |-> FALSE]]
    /\ UNCHANGED <<vars, inbox, job, replies, crashes>>

\* After the IntegrityError: rollback, and read the order that won. Orders are
\* never deleted, so it is there and the error is not raised again.
Reread(s) ==
    /\ session[s].pc = "reread"
    /\ \E o \in DOMAIN orders :
          /\ orders[o].key = session[s].key
          /\ session' = [session EXCEPT ![s] =
                           [pc |-> "reply", key |-> @.key, order |-> o, created |-> FALSE]]
    /\ UNCHANGED <<vars, inbox, job, replies, crashes>>

\* 201 Created or 200 OK reaches the client.
Reply(s) ==
    /\ session[s].pc = "reply"
    /\ replies' = replies \cup
         {[key |-> session[s].key, order |-> session[s].order, created |-> session[s].created]}
    /\ session' = [session EXCEPT ![s] = Idle]
    /\ UNCHANGED <<vars, inbox, job, crashes>>

--------------------------------------------------------------------------------
(* The other services *)

Sent(types, order) == \E e \in inbox : e.type \in types /\ e.order = order

\* The inventory service answers order.created once (OneVerdictPerOrder in
\* InventoryService).
InventoryAnswers(e) ==
    /\ e.type \in InventoryVerdicts
    /\ \E r \in outbox : r.type = "order.created" /\ r.order = e.order
    /\ ~Sent(InventoryVerdicts, e.order)
    /\ inbox' = inbox \cup {e}
    /\ UNCHANGED <<vars, job, session, replies, crashes>>

\* The payment service answers inventory.reserved once: payments.order_id is unique.
PaymentAnswers(e) ==
    /\ e.type \in PaymentOutcomes
    /\ Sent({"inventory.reserved"}, e.order)
    /\ ~Sent(PaymentOutcomes, e.order)
    /\ inbox' = inbox \cup {e}
    /\ UNCHANGED <<vars, job, session, replies, crashes>>

--------------------------------------------------------------------------------
(* Consumers *)

\* The callback runs and finds no ProcessedEvent. (If it finds one it returns
\* and the delivery is acknowledged: nothing changes.)
Receive(c, e) ==
    /\ job[c] = Idle
    /\ e \in inbox
    /\ Id(e) \notin processed
    /\ job' = [job EXCEPT ![c] = [pc |-> "load", event |-> e]]
    /\ UNCHANGED <<vars, inbox, session, replies, crashes>>

\* session.get(Order, order_id): a copy of the status, without a lock. An answer
\* follows the order's own order.created, so the row exists.
Load(c) ==
    /\ job[c].pc = "load"
    /\ job' = [job EXCEPT ![c] =
                 [pc |-> "commit", event |-> @.event, current |-> orders[@.event.order].status]]
    /\ UNCHANGED <<vars, inbox, session, replies, crashes>>

\* Mutant: the handler does not add its ProcessedEvent.
Commit_Unmarked(c) ==
    LET e == job[c].event
    IN  /\ job[c].pc = "commit"
        /\ Id(e) \notin processed
        /\ WriteTransition(e, job[c].current)
        /\ job' = [job EXCEPT ![c] = Idle]
        /\ UNCHANGED <<processed, inbox, session, replies, crashes>>

\* Mutant: processed_events has no primary key.
Commit_Twice(c) ==
    LET e == job[c].event
    IN  /\ job[c].pc = "commit"
        /\ WriteTransition(e, job[c].current)
        /\ processed' = processed \cup {Id(e)}
        /\ job' = [job EXCEPT ![c] = Idle]
        /\ UNCHANGED <<inbox, session, replies, crashes>>

\* session.commit(): an UPDATE of the order by its primary key if the transition
\* changed it, the announcements, and the ProcessedEvent.
Commit(c) ==
    LET e == job[c].event
    IN  /\ job[c].pc = "commit"
        /\ Id(e) \notin processed
        /\ WriteTransition(e, job[c].current)
        /\ processed' = processed \cup {Id(e)}
        /\ job' = [job EXCEPT ![c] = Idle]
        /\ UNCHANGED <<inbox, session, replies, crashes>>

\* IntegrityError on processed_events: rollback, and the message is retried later.
RejectedByKey(c) ==
    /\ job[c].pc = "commit"
    /\ Id(job[c].event) \in processed
    /\ job' = [job EXCEPT ![c] = Idle]
    /\ UNCHANGED <<vars, inbox, session, replies, crashes>>

--------------------------------------------------------------------------------
(* Failures *)

\* A replica or its database connection dies during a handler: rollback, and the
\* unacknowledged answer will be delivered again.
CrashConsumer(c) ==
    /\ job[c] # Idle
    /\ crashes < MaxCrashes
    /\ crashes' = crashes + 1
    /\ job' = [job EXCEPT ![c] = Idle]
    /\ UNCHANGED <<vars, inbox, session, replies>>

\* The request is cut off, before or after its commit: the client gets no answer.
CrashSession(s) ==
    /\ session[s] # Idle
    /\ crashes < MaxCrashes
    /\ crashes' = crashes + 1
    /\ session' = [session EXCEPT ![s] = Idle]
    /\ UNCHANGED <<vars, inbox, job, replies>>

Serve(s) == Insert(s) \/ Reread(s) \/ Reply(s)
Consume(c) == Load(c) \/ Commit(c) \/ RejectedByKey(c)

ServiceNext ==
    \/ \E s \in Sessions, key \in Keys, request \in Requests : Lookup(s, key, request)
    \/ \E s \in Sessions : Serve(s) \/ CrashSession(s)
    \/ \E e \in Inbound : InventoryAnswers(e) \/ PaymentAnswers(e)
    \/ \E c \in Consumers, e \in Inbound : Receive(c, e)
    \/ \E c \in Consumers : Consume(c) \/ CrashConsumer(c)

\* Threads that are running a request or a handler go on, and the broker delivers
\* an answer until it is acknowledged. Nobody has to send a request, and the
\* other services need not answer. No failure in this module makes an answer
\* fail twice without being processed, so the retry limit is never reached.
Fairness ==
    /\ \A s \in Sessions : WF_serviceVars(Serve(s))
    /\ \A e \in Inbound : WF_serviceVars(\E c \in Consumers : Receive(c, e))
    /\ \A c \in Consumers : WF_serviceVars(Consume(c))

ServiceSpec == ServiceInit /\ [][ServiceNext]_serviceVars
FairSpec == ServiceSpec /\ Fairness

--------------------------------------------------------------------------------
(* Properties *)

ServiceTypeOK ==
    /\ TypeOK
    /\ inbox \subseteq Inbound
    /\ \A c \in Consumers : job[c].pc \in {"idle", "load", "commit"}
    /\ \A s \in Sessions : session[s].pc \in {"idle", "insert", "reread", "reply"}
    /\ crashes \in 0..MaxCrashes

\* Handlers and requests are atomic although nothing is locked. True while one
\* consumer thread reads the queue; with two, StatusIsMonotonic already fails.
ImplementsLifecycle == Spec

\* "Unique idempotency key returns the original order" (docs/failure-scenarios.md):
\* whatever requests with one key do at the same time, however often they are
\* cut off and retried, there is one order and one order.created for the key,
\* and every client is told that order.
RetriesGetTheOriginalOrder ==
    /\ \A o, p \in DOMAIN orders : orders[o].key = orders[p].key => o = p
    /\ \A o \in DOMAIN orders :
           Cardinality({r \in outbox : r.type = "order.created" /\ r.order = o}) = 1
    /\ \A r \in replies : r.order \in DOMAIN orders /\ orders[r.order].key = r.key

\* However many consumers handle the answers and however they interleave, an
\* order announces one outcome, once, the one its answers call for, and gives
\* the inventory the command that goes with it.
OneOutcomeAnnounced ==
    /\ \A o \in DOMAIN orders :
           LET done == {e \in inbox : e.order = o /\ Id(e) \in processed}
           IN  Announcements(o)
                 = {"order.created"} \cup UNION {Announced(e.type) : e \in done}
    /\ \A r \in outbox : r.n = 1

\* A terminal status is never left, also when several consumers handle an
\* order's answers: "State transitions are monotonic and terminal states do not
\* move backward" (docs/architecture.md).
TerminalIsFinal ==
    [][\A o \in DOMAIN orders :
           orders[o].status \in TERMINAL_STATUSES
               => orders'[o].status = orders[o].status]_serviceVars

\* Once the answer that decides an order has been sent, the order comes to the
\* status of that answer and stays there.
OutcomeIsReached ==
    \A e \in Inbound : e.type # "inventory.reserved" =>
        (e \in inbox ~> [](/\ e.order \in DOMAIN orders
                           /\ orders[e.order].status = EVENT_TO_STATUS[e.type]))

================================================================================
