-------------------------------- MODULE Gateway --------------------------------
(*****************************************************************************)
(* Clients, the API gateway and the order service. The gateway keeps no      *)
(* state but the calls it waits for: it forwards the client's idempotency key*)
(* or makes one up, gives up after 10 seconds, and answers 503 while the     *)
(* order service may still go on with the request, or take it up later.      *)
(* A client that got no order posts again; one that was told its order polls *)
(* GET /api/orders/{id} until it is shown a terminal status, as the demo page*)
(* and scripts/contention_test.py do.                                        *)
(*                                                                           *)
(* The order service is OrderService, statement by statement; its variables  *)
(* (serviceVars) are extended by those of the gateway and of the clients.    *)
(*****************************************************************************)
EXTENDS OrderService

CONSTANTS
    Clients,
    KeyOf,         \* client -> the Idempotency-Key it sends, or None
    RequestOf,     \* client -> the body it posts
    None,
    MaxAttempts    \* bound: client -> its posts

ASSUME ClientsAssumption ==
    /\ \A c \in Clients : RequestOf[c] \in Requests /\ KeyOf[c] \in (Keys \cup {None})
    /\ None \notin Orders \cup Keys \cup Statuses \cup {"404"}
    /\ MaxAttempts \in [Clients -> Nat]

\* What uuid4 makes up for a client's n-th post.
FreshKey(c, n) == <<c, n>>

\* A key that uuid4 makes up is one no client sends.
ASSUME KeysAssumption ==
    \A c, d \in Clients : \A n \in 1..MaxAttempts[c] :
        FreshKey(c, n) \in Keys /\ FreshKey(c, n) # KeyOf[d]

VARIABLES
    sent,        \* requests on their way to the order service
    serving,     \* session -> the request it serves
    attempts,    \* client -> its posts so far
    awaited,     \* client -> the post the gateway is waiting for, 0 if none
    told,        \* client -> the order it was told
    shown        \* client -> the status it was shown last

clientVars == <<attempts, awaited, told, shown>>
gatewayVars == <<serviceVars, sent, serving, clientVars>>

GatewayInit ==
    /\ ServiceInit
    /\ sent = {}
    /\ serving = [s \in Sessions |-> None]
    /\ attempts = [c \in Clients |-> 0]
    /\ awaited = [c \in Clients |-> 0]
    /\ told = [c \in Clients |-> None]
    /\ shown = [c \in Clients |-> None]

--------------------------------------------------------------------------------
(* POST /api/checkout *)

\* Mutant: the gateway makes up a key for every request.
ForwardedKey_Fresh(c, n) == FreshKey(c, n)

ForwardedKey(c, n) == IF KeyOf[c] = None THEN FreshKey(c, n) ELSE KeyOf[c]

\* A client posts, for the first time or because the last post brought no order.
Checkout(c) ==
    /\ awaited[c] = 0
    /\ told[c] = None
    /\ attempts[c] < MaxAttempts[c]
    /\ LET n == attempts[c] + 1
       IN  /\ attempts' = [attempts EXCEPT ![c] = n]
           /\ awaited' = [awaited EXCEPT ![c] = n]
           /\ sent' = sent \cup {[client |-> c, n |-> n, key |-> ForwardedKey(c, n)]}
    /\ UNCHANGED <<serviceVars, serving, told, shown>>

\* A thread of the order service takes a request up. One that is never taken up
\* stands for a connection that was refused.
Begin(s, r) ==
    /\ r \in sent
    /\ Lookup(s, r.key, RequestOf[r.client])
    /\ serving' = [serving EXCEPT ![s] = r]
    /\ sent' = sent \ {r}
    /\ UNCHANGED clientVars

\* The gateway stops waiting, if it was still waiting for this request.
Answered(r) ==
    IF awaited[r.client] = r.n THEN [awaited EXCEPT ![r.client] = 0] ELSE awaited

\* The other statements of create_order.
Work(s) ==
    /\ Insert(s) \/ Reread(s)
    /\ UNCHANGED <<sent, serving, clientVars>>

\* The order is returned: to the client, unless the gateway has given up.
Respond(s) ==
    LET r == serving[s]
    IN  /\ Reply(s)
        /\ serving' = [serving EXCEPT ![s] = None]
        /\ told' = IF awaited[r.client] = r.n
                   THEN [told EXCEPT ![r.client] = session[s].order] ELSE told
        /\ awaited' = Answered(r)
        /\ UNCHANGED <<sent, attempts, shown>>

\* 503 after 10 s. The request stays with the order service.
TimeOut(c) ==
    /\ awaited[c] # 0
    /\ awaited' = [awaited EXCEPT ![c] = 0]
    /\ UNCHANGED <<serviceVars, sent, serving, attempts, told, shown>>

\* 503: the order service dies with the request.
Cut(s) ==
    /\ CrashSession(s)
    /\ serving' = [serving EXCEPT ![s] = None]
    /\ awaited' = Answered(serving[s])
    /\ UNCHANGED <<sent, attempts, told, shown>>

--------------------------------------------------------------------------------
(* GET /api/orders/{id} *)

\* What GET /orders/{id} of the order service returns.
get_order(o) == IF o \in DOMAIN orders THEN orders[o].status ELSE "404"

\* A client that was told an order asks for it until its status is terminal.
StillAsks(c) == told[c] # None /\ shown[c] \notin TERMINAL_STATUSES

Poll(c) ==
    /\ StillAsks(c)
    /\ shown' = [shown EXCEPT ![c] = get_order(told[c])]
    /\ UNCHANGED <<serviceVars, sent, serving, attempts, awaited, told>>

\* The events of the other services and the consumers, as in OrderService.
Background ==
    /\ \/ \E e \in Inbound : InventoryAnswers(e) \/ PaymentAnswers(e)
       \/ \E c \in Consumers, e \in Inbound : Receive(c, e)
       \/ \E c \in Consumers : Consume(c) \/ CrashConsumer(c)
    /\ UNCHANGED <<sent, serving, clientVars>>

GatewayNext ==
    \/ \E c \in Clients : Checkout(c) \/ TimeOut(c) \/ Poll(c)
    \/ \E s \in Sessions, r \in sent : Begin(s, r)
    \/ \E s \in Sessions : Work(s) \/ Respond(s) \/ Cut(s)
    \/ Background

GatewaySpec == GatewayInit /\ [][GatewayNext]_gatewayVars

--------------------------------------------------------------------------------
(* Properties *)

\* The keys the orders of a client can have.
KeysOf(c) == {KeyOf[c]} \cup {FreshKey(c, n) : n \in 1..MaxAttempts[c]}

\* A checkout with a key makes one order, however often the gateway gives up on
\* it, the order service is cut off, and the client posts again while earlier
\* posts are still on their way. Without a key every post may make one, and no
\* order was made that nobody asked for.
OneOrderPerCheckout ==
    LET OrdersOf(c) == {o \in DOMAIN orders : orders[o].key \in KeysOf(c)}
    IN  /\ \A c \in Clients :
              Cardinality(OrdersOf(c)) <= IF KeyOf[c] = None THEN attempts[c] ELSE 1
        /\ DOMAIN orders = UNION {OrdersOf(c) : c \in Clients}

\* The clients that post under the key of client c.
Sharing(c) == {c} \cup {d \in Clients : KeyOf[c] # None /\ KeyOf[d] = KeyOf[c]}

\* "Unique idempotency key returns the original order" (docs/failure-scenarios.md),
\* through the gateway: the order a client is told exists and holds what the client
\* asked for, or somebody who has posted under the same key: the bodies are not
\* compared. All clients that send one key are told one order.
ToldOrderWasAskedFor ==
    \A c \in Clients : told[c] # None =>
        /\ told[c] \in DOMAIN orders
        /\ orders[told[c]].request \in {RequestOf[d] : d \in {e \in Sharing(c) : attempts[e] > 0}}
        /\ \A d \in Sharing(c) : told[d] \in {None, told[c]}

\* The outcome a client is shown, after which it asks no more, stays the truth:
\* the order has that status for good, and has announced what belongs to it. No
\* order a client was told is ever unknown to the order service.
ShownOutcomeStays ==
    \A c \in Clients :
        /\ shown[c] # "404"
        /\ shown[c] \in TERMINAL_STATUSES =>
              /\ orders[told[c]].status = shown[c]
              /\ Announcements(told[c]) = {"order.created"} \cup Due(shown[c])

================================================================================
