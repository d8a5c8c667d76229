------------------------------ MODULE MCOutbox ------------------------------
(* Instances of Outbox for TLC. *)
EXTENDS Outbox

CONSTANTS e1, e2, u1, u2
=============================================================================
