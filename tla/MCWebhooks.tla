----------------------------- MODULE MCWebhooks -----------------------------
(***************************************************************************)
(* Instance of Webhooks for TLC: one message, two workers, two             *)
(* registration ids of which one endpoint always answers, two tenants; a   *)
(* registration asks for the topic or not.                                 *)
(***************************************************************************)
EXTENDS Webhooks

CONSTANTS m1, w1, w2, h1, h2, t1, t2, p1
=============================================================================
