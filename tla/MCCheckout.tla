----------------------------- MODULE MCCheckout -----------------------------
(***************************************************************************)
(* Instances of Checkout for TLC: three calls on one cart, two of which    *)
(* repeat one request.                                                     *)
(***************************************************************************)
EXTENDS Checkout, TLC

CONSTANTS r1, r2, r3, k1, k2, c1

\* r1 and r2 carry one idempotency key; r3 checks the same cart out with another.
MCKeyOf  == (r1 :> k1) @@ (r2 :> k1) @@ (r3 :> k2)
MCCartOf == [r \in {r1, r2, r3} |-> c1]
=============================================================================
