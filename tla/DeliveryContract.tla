--------------------------- MODULE DeliveryContract ----------------------------
(*****************************************************************************)
(* What a transactional outbox, the broker and an idempotent consumer promise*)
(* together for one queue: an event that a service has committed takes effect*)
(* at the consuming service at most once, and it takes effect or is parked in*)
(* the dead-letter queue for an operator to see.                             *)
(*                                                                           *)
(* At least once is not promised to the handler alone: an event whose handler*)
(* keeps raising is parked and never retried again. Both can happen: a       *)
(* duplicate of an event that took effect may be parked.                     *)
(*****************************************************************************)
EXTENDS Integers

CONSTANT Events   \* the events of one service's outbox bound to one queue

VARIABLES
    written,   \* the events committed to the outbox
    effects,   \* how often a handler of each event has committed its changes
    parked     \* the events in the dead-letter queue

vars == <<written, effects, parked>>

Init ==
    /\ written = {}
    /\ effects = [e \in Events |-> 0]
    /\ parked = {}

Write(e) ==
    /\ e \notin written
    /\ written' = written \cup {e}
    /\ UNCHANGED <<effects, parked>>

TakeEffect(e) ==
    /\ e \in written
    /\ effects[e] = 0
    /\ effects' = [effects EXCEPT ![e] = 1]
    /\ UNCHANGED <<written, parked>>

Park(e) ==
    /\ e \in written
    /\ parked' = parked \cup {e}
    /\ UNCHANGED <<written, effects>>

Next == \E e \in Events : Write(e) \/ TakeEffect(e) \/ Park(e)

Settled(e) == effects[e] = 1 \/ e \in parked

\* No committed event stays undecided for ever.
Settles(e) == ~Settled(e) /\ (TakeEffect(e) \/ Park(e))

Spec == Init /\ [][Next]_vars
FairSpec == Spec /\ \A e \in Events : WF_vars(Settles(e))

================================================================================
