------------------------------- MODULE MCGateway -------------------------------
(* Two clients send one key with different bodies, and one sends no key. The   *)
(* other services answer the order o1, whichever checkout that turns out to be. *)
EXTENDS Gateway, TLC

CONSTANTS o1, o2, k1, r1, r2, ann, bob, cem

MCOrders == {o1, o2}
MCClients == {ann, bob, cem}
MCKeyOf == [c \in MCClients |-> IF c = cem THEN None ELSE k1]
MCRequestOf == [c \in MCClients |-> IF c = ann THEN r1 ELSE r2]
MCMaxAttempts == [c \in MCClients |-> IF c = bob THEN 1 ELSE 2]
MCKeys == {k1} \cup (MCClients \X (1..2))

MCInbound ==
    {[type |-> t, order |-> o1, n |-> 1, payload |-> << >>] :
        t \in {"inventory.reserved", "payment.succeeded"}}

\* The threads are interchangeable.
Symmetry == Permutations(Sessions)

\* Everything but replies, which no action and no property of Gateway reads.
View == <<vars, inbox, job, session, crashes, sent, serving, clientVars>>

================================================================================
