-------------------------- MODULE MCProviderClient --------------------------
(***************************************************************************)
(* Instances of ProviderClient for TLC: an idempotent caller and others    *)
(* that are not, sharing one breaker.                                      *)
(***************************************************************************)
EXTENDS ProviderClient

CONSTANTS t1, t2, t3
=============================================================================
