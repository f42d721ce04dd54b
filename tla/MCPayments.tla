----------------------------- MODULE MCPayments -----------------------------
(***************************************************************************)
(* Two transactions, operations of every kind on either, one fault and one *)
(* reconciliation pass.  Operations are interchangeable (each draws its    *)
(* transaction and its kind), and so are transactions.                     *)
(***************************************************************************)
EXTENDS Payments, TLC

Symmetry == Permutations(Txn) \cup Permutations(Op)
=============================================================================
