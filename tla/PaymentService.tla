---------------------------- MODULE PaymentService -----------------------------
(*****************************************************************************)
(* The payment service statement by statement: consumer threads of its       *)
(* replicas on one PostgreSQL database. Nothing is locked; the primary keys  *)
(* of payments and processed_events keep an order from being charged twice,  *)
(* also when two copies of an event, or two events of an order, are handled  *)
(* during the same provider delay. The tables are those of PaymentLedger, the*)
(* variables of which (vars) this module extends by the threads' own.        *)
(*****************************************************************************)
EXTENDS PaymentLedger

CONSTANTS
    Consumers,    \* the replicas' consumer threads
    MaxCrashes    \* bound: handlers cut off

ASSUME MaxCrashesAssumption == MaxCrashes \in Nat

VARIABLES
    job,       \* each consumer's handler call
    crashes    \* crashes so far

serviceVars == <<vars, job, crashes>>

Idle == [pc |-> "idle"]

ServiceInit ==
    /\ Init
    /\ job = [c \in Consumers |-> Idle]
    /\ crashes = 0

\* A delivery arrives and has no ProcessedEvent.
Receive(c, e) ==
    /\ job[c] = Idle
    /\ Id(e) \notin processed
    /\ job' = [job EXCEPT ![c] = [pc |-> "find", event |-> e]]
    /\ UNCHANGED <<vars, crashes>>

\* session.get(Payment, order_id), then the provider's delay.
FindPayment(c) ==
    /\ job[c].pc = "find"
    /\ job' = [job EXCEPT ![c].pc = IF job[c].event.order \in DOMAIN payments
                                   THEN "mark" ELSE "pay"]
    /\ UNCHANGED <<vars, crashes>>

\* Mutant: payments has no primary key.
Conflict_ProcessedOnly(c) == Id(job[c].event) \in processed

\* The primary keys that the commit of c would break.
Conflict(c) ==
    \/ Id(job[c].event) \in processed
    \/ job[c].pc = "pay" /\ job[c].event.order \in DOMAIN payments

CommitPayment(c) ==
    LET e == job[c].event
    IN  /\ job[c].pc = "pay"
        /\ ~Conflict(c)
        /\ payments' = Put(payments, e.order,
                           [customer |-> e.payload.customer, amount |-> e.payload.amount,
                            status |-> Status(e.payload)])
        /\ outbox' = outbox \cup {NewEvent(outbox, Outcome(e.payload), e.order, e.payload)}
        /\ processed' = processed \cup {Id(e)}
        /\ job' = [job EXCEPT ![c] = Idle]
        /\ UNCHANGED crashes

MarkProcessed(c) ==
    /\ job[c].pc = "mark"
    /\ ~Conflict(c)
    /\ processed' = processed \cup {Id(job[c].event)}
    /\ job' = [job EXCEPT ![c] = Idle]
    /\ UNCHANGED <<payments, outbox, crashes>>

\* IntegrityError: rollback, and the message is retried later.
RejectedByKey(c) ==
    /\ job[c].pc \in {"pay", "mark"}
    /\ Conflict(c)
    /\ job' = [job EXCEPT ![c] = Idle]
    /\ UNCHANGED <<vars, crashes>>

\* The replica or its connection dies, for instance during the delay.
Crash(c) ==
    /\ job[c] # Idle
    /\ crashes < MaxCrashes
    /\ crashes' = crashes + 1
    /\ job' = [job EXCEPT ![c] = Idle]
    /\ UNCHANGED vars

ServiceNext ==
    \/ \E c \in Consumers, e \in Inbound : Receive(c, e)
    \/ \E c \in Consumers : FindPayment(c) \/ CommitPayment(c) \/ MarkProcessed(c)
                           \/ RejectedByKey(c) \/ Crash(c)

ServiceSpec == ServiceInit /\ [][ServiceNext]_serviceVars

--------------------------------------------------------------------------------
(* Properties *)

ServiceTypeOK ==
    /\ TypeOK
    /\ \A c \in Consumers : job[c].pc \in {"idle", "find", "pay", "mark"}
    /\ crashes \in 0..MaxCrashes

\* The unlocked handlers have only the effects of the atomic ones: "an order
\* cannot be charged twice" (docs/architecture.md).
ImplementsLedger == Spec

================================================================================
