------------------------------ MODULE MCOutbox ------------------------------
(***************************************************************************)
(* Instance of Outbox for TLC: two messages and two workers.               *)
(***************************************************************************)
EXTENDS Outbox

CONSTANTS m1, m2, w1, w2
=============================================================================
