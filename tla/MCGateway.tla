----------------------------- MODULE MCGateway ------------------------------
(***************************************************************************)
(* Every deployment one setting away from a complete or an empty           *)
(* configuration, and two or three requests.  A development server starts  *)
(* without carts, so that one request more is needed to make one.          *)
(***************************************************************************)
EXTENDS Gateway

\* One setting, or the two that make up the signing key.
OneSetting == {{k} : k \in Setting \ {"key_id", "key"}} \cup {{"key_id", "key"}}
=============================================================================
