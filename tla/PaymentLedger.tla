----------------------------- MODULE PaymentLedger -----------------------------
(*****************************************************************************)
(* What the payment service promises: an order is charged or declined once,  *)
(* in one atomic step with the event that tells the outcome, however often   *)
(* and under however many event ids its reservation is announced.            *)
(*****************************************************************************)
EXTENDS Events

CONSTANTS
    Orders,             \* the order ids events can name
    Customers,          \* customer ids
    FailingCustomers,   \* those ending in -fail
    Inbound             \* the events bound to the queue payment-service-events

ASSUME CustomersAssumption == FailingCustomers \subseteq Customers

ASSUME ReservedAssumption ==
    \A e \in Inbound : /\ e.type = "inventory.reserved"
                       /\ e.order \in Orders
                       /\ e.payload.customer \in Customers
                       /\ e.payload.amount \in Int

VARIABLES
    payments,    \* table payments: order id -> customer, amount, status
    processed,   \* table processed_events
    outbox       \* table outbox_events

vars == <<payments, processed, outbox>>

Init ==
    /\ payments = << >>
    /\ processed = {}
    /\ outbox = {}

should_fail_payment(customer, amount) == customer \in FailingCustomers \/ amount <= 0

\* Mutant: the row does not learn of the provider's decline.
Status_ByAmount(payload) == IF payload.amount <= 0 THEN "FAILED" ELSE "SUCCEEDED"

Status(payload) ==
    IF should_fail_payment(payload.customer, payload.amount) THEN "FAILED" ELSE "SUCCEEDED"

\* Mutant: a declined payment is announced as a success.
Outcome_AlwaysSucceeded(payload) == "payment.succeeded"

Outcome(payload) ==
    IF should_fail_payment(payload.customer, payload.amount)
    THEN "payment.failed" ELSE "payment.succeeded"

\* The order has a payment: the event is only recorded.
AlreadyPaid(e) ==
    /\ e.order \in DOMAIN payments
    /\ UNCHANGED <<payments, outbox>>

Pay(e) ==
    /\ e.order \notin DOMAIN payments
    /\ payments' = Put(payments, e.order,
                       [customer |-> e.payload.customer, amount |-> e.payload.amount,
                        status |-> Status(e.payload)])
    /\ outbox' = outbox \cup {NewEvent(outbox, Outcome(e.payload), e.order, e.payload)}

HandleReserved(e) ==
    /\ Id(e) \notin processed
    /\ AlreadyPaid(e) \/ Pay(e)
    /\ processed' = processed \cup {Id(e)}

Next == \E e \in Inbound : HandleReserved(e)

Spec == Init /\ [][Next]_vars

--------------------------------------------------------------------------------

TypeOK ==
    /\ IsTable(payments, Orders,
               [customer : Customers, amount : Int, status : {"SUCCEEDED", "FAILED"}])
    /\ processed \subseteq {Id(e) : e \in Inbound}
    /\ \A r \in outbox : r.type \in PaymentOutcomes /\ r.order \in Orders

\* The outcome events the outbox holds for an order, each with its number.
Told(o) == {<<r.type, r.n>> : r \in {x \in outbox : x.order = o}}

OutcomeOf(status) == IF status = "SUCCEEDED" THEN "payment.succeeded" ELSE "payment.failed"

\* The answers an order has been given are exactly the one its payment calls for,
\* once: no order is told both outcomes, and none is told the one that is not in
\* the payments table.
OneOutcomePerPayment ==
    \A o \in Orders :
        Told(o) = IF o \in DOMAIN payments THEN {<<OutcomeOf(payments[o].status), 1>>} ELSE {}

\* A row of payments stays, and stays as it is.
KeepPayments == \A o \in DOMAIN payments : o \in DOMAIN payments' /\ payments'[o] = payments[o]

\* An order that has a payment keeps it as it is: no later event, duplicate or
\* retry charges it again or turns a decline into a success.
PaymentsAreFinal == [][KeepPayments]_vars

================================================================================
