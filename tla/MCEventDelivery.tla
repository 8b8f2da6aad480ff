--------------------------- MODULE MCEventDelivery -----------------------------
(* Event 2 can never be handled; the other one fails only with a fault.       *)
EXTENDS EventDelivery, TLC

MCRanks == 1..2
MCPoison == {2}

\* Threads are interchangeable (used without temporal properties only).
Symmetry == Permutations(Publishers) \cup Permutations(Consumers)

================================================================================
