------------------------------ MODULE MCStores ------------------------------
(***************************************************************************)
(* Instance of Stores for TLC: three calls, two rows, every store and      *)
(* every implementation of it.                                             *)
(***************************************************************************)
EXTENDS Stores

CONSTANTS c1, c2, c3, r1, r2
=============================================================================
