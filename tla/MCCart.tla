------------------------------- MODULE MCCart -------------------------------
(***************************************************************************)
(* Instances of Cart for TLC: up to two edits and one command of each      *)
(* other kind, by name.                                                    *)
(***************************************************************************)
EXTENDS Cart, TLC

CONSTANTS e1, e2, f1, s1, x1, p1

MCKindOf ==
    [c \in Command |->
        ((e1 :> "edit") @@ (e2 :> "edit") @@ (f1 :> "fulfillment") @@
         (s1 :> "start") @@ (x1 :> "cancel") @@ (p1 :> "checkout"))[c]]

\* The two edits are interchangeable.
Symmetry == Permutations({e1, e2})
=============================================================================
