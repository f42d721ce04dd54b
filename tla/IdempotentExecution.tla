------------------------ MODULE IdempotentExecution ------------------------
(***************************************************************************)
(* What the checkout service promises to a caller who repeats a request    *)
(* under one idempotency key: the work behind the key is begun by at most  *)
(* one call, that call's outcome is the only answer ever recorded for the  *)
(* key, and every call that gets a result gets that answer.                *)
(***************************************************************************)
CONSTANTS
    Call,   \* the calls of the service
    Key,    \* the idempotency keys
    KeyOf,  \* the key each call carries
    None    \* no call

VARIABLES
    executor, \* executor[k]: the call doing the work of k
    answer,   \* answer[k]: the call whose result is recorded for k
    reply     \* reply[r]: the call whose result r was given

absVars == <<executor, answer, reply>>

AbsInit ==
    /\ executor = [k \in Key |-> None]
    /\ answer = [k \in Key |-> None]
    /\ reply = [r \in Call |-> None]

\* The first call of its key that is accepted does the work.
Begin(r) ==
    /\ executor[KeyOf[r]] = None
    /\ executor' = [executor EXCEPT ![KeyOf[r]] = r]
    /\ UNCHANGED <<answer, reply>>

\* The executor's outcome is recorded, once.
Record(r) ==
    /\ executor[KeyOf[r]] = r
    /\ answer[KeyOf[r]] = None
    /\ answer' = [answer EXCEPT ![KeyOf[r]] = r]
    /\ UNCHANGED <<executor, reply>>

\* A call of the key is given the recorded answer.
Answer(r) ==
    /\ reply[r] = None
    /\ answer[KeyOf[r]] # None
    /\ reply' = [reply EXCEPT ![r] = answer[KeyOf[r]]]
    /\ UNCHANGED <<executor, answer>>

AbsNext == \E r \in Call : Begin(r) \/ Record(r) \/ Answer(r)

AbsSpec == AbsInit /\ [][AbsNext]_absVars
============================================================================
