---------------------------- MODULE MCServiceProcess ---------------------------
(* A service that seeds and one that publishes nothing: the other two start   *)
(* like the first without its seeding.                                        *)
EXTENDS ServiceProcess

MCServices == {"inventory", "notification"}
MCRows == 1..1

================================================================================
