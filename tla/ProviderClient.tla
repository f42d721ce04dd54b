--------------------------- MODULE ProviderClient ---------------------------
(***************************************************************************)
(* Outbound calls to one provider: execute_with_retry of                   *)
(* crates/integration-adapters/src/client.rs, run by many tasks at once,   *)
(* over the CircuitBreaker of circuit.rs they share.                       *)
(*                                                                         *)
(* The breaker's mutex makes acquire, on_success and on_failure atomic; no *)
(* lock is held while a request is on the wire, so an answer may arrive    *)
(* long after the breaker has moved on.  Time is one bit: whether the      *)
(* deadline of the open or half-open state has passed.                     *)
(***************************************************************************)
EXTENDS Naturals

CONSTANTS
    Task,        \* tasks that call the provider
    Idempotent,  \* tasks whose request is a GET or carries an idempotency key
    MaxRetries,  \* ClientConfig::max_retries
    Threshold,   \* CircuitBreakerConfig::failure_threshold
    Enabled,     \* CircuitBreakerConfig::enabled
    MayDrop      \* whether a task may be cancelled with its request in flight

ASSUME ClientAssumption ==
    /\ Idempotent \subseteq Task
    /\ MaxRetries \in Nat
    /\ Threshold \in Nat
    /\ Enabled \in BOOLEAN
    /\ MayDrop \in BOOLEAN

VARIABLES
    state,    \* the breaker: "closed", "open" or "half_open"
    fails,    \* consecutive_failures of the closed state
    elapsed,  \* whether `until` of the open or half-open state has passed
    pc,       \* pc[t]: where task t is in execute_with_retry
    attempt,  \* attempt[t]: the loop variable
    applied,  \* history: applied[t], times the provider carried out t's request
    streak    \* history: failures reported since the last success, at most Threshold

breaker == <<state, fails, elapsed>>
vars    == <<breaker, pc, attempt, applied, streak>>

Ended == {"ok", "failed", "rejected"}

Init ==
    /\ state = "closed"
    /\ fails = 0
    /\ elapsed = FALSE
    /\ pc = [t \in Task |-> "idle"]
    /\ attempt = [t \in Task |-> 0]
    /\ applied = [t \in Task |-> 0]
    /\ streak = 0

Goto(t, label) == pc' = [pc EXCEPT ![t] = label]

-----------------------------------------------------------------------------
(* CircuitBreaker.                                                         *)

\* What the history records of an answer that counts as a failure.
CountFailure == streak' = IF streak < Threshold THEN streak + 1 ELSE streak

\* Mutant: a success in the closed state keeps the failures counted so far.
OnSuccess_KeepsCount ==
    /\ IF Enabled /\ state # "closed"
       THEN state' = "closed" /\ fails' = 0 /\ elapsed' = FALSE
       ELSE UNCHANGED breaker
    /\ streak' = 0

OnSuccess ==
    /\ IF Enabled
       THEN state' = "closed" /\ fails' = 0 /\ elapsed' = FALSE
       ELSE UNCHANGED breaker
    /\ streak' = 0

\* Mutant: the threshold is off by one.
OnFailure_OneEarly ==
    /\ IF ~Enabled
       THEN UNCHANGED breaker
       ELSE IF state = "closed" /\ fails + 2 < Threshold
            THEN fails' = fails + 1 /\ UNCHANGED <<state, elapsed>>
            ELSE state' = "open" /\ fails' = 0 /\ elapsed' = FALSE
    /\ CountFailure

\* From open and half-open, straight (back) to open with a fresh deadline.
OnFailure ==
    /\ IF ~Enabled
       THEN UNCHANGED breaker
       ELSE IF state = "closed" /\ fails + 1 < Threshold
            THEN fails' = fails + 1 /\ UNCHANGED <<state, elapsed>>
            ELSE state' = "open" /\ fails' = 0 /\ elapsed' = FALSE
    /\ CountFailure

\* Mutant: a half-open circuit waits for its probe however long that takes.
Admits_TrustsProbe ==
    ~Enabled \/ state = "closed" \/ (state = "open" /\ elapsed)

\* acquire lets the call through ...
Admits == ~Enabled \/ state = "closed" \/ elapsed

\* ... and, past the deadline, makes it the probe of a new half-open window.
Admit ==
    IF Enabled /\ state # "closed"
    THEN state' = "half_open" /\ elapsed' = FALSE /\ UNCHANGED fails
    ELSE UNCHANGED breaker

\* The clock passes `until`.
Elapse ==
    /\ state # "closed"
    /\ ~elapsed
    /\ elapsed' = TRUE
    /\ UNCHANGED <<state, fails, pc, attempt, applied, streak>>

-----------------------------------------------------------------------------
(* execute_with_retry.                                                     *)

\* The top of the loop: on a first attempt, or after a back-off.
Ready(t) == pc[t] \in {"idle", "backoff"}

Acquire(t) ==
    /\ Ready(t)
    /\ Admits
    /\ Admit
    /\ Goto(t, "auth")
    /\ UNCHANGED <<attempt, applied, streak>>

\* CircuitOpen, whatever an earlier attempt had met.
Rejected(t) ==
    /\ Ready(t)
    /\ ~Admits
    /\ Goto(t, "rejected")
    /\ UNCHANGED <<breaker, attempt, applied, streak>>

\* config.auth.apply: credentials may need a round trip of their own.
AuthOk(t) ==
    /\ pc[t] = "auth"
    /\ Goto(t, "sent")
    /\ UNCHANGED <<breaker, attempt, applied, streak>>

AuthFails(t) ==
    /\ pc[t] = "auth"
    /\ OnFailure
    /\ Goto(t, "failed")
    /\ UNCHANGED <<attempt, applied>>

\* After an unsuccessful attempt: back off and repeat it, or give up.
RetryOrFail(t, retryable) ==
    IF retryable /\ attempt[t] < MaxRetries
    THEN /\ Goto(t, "backoff")
         /\ attempt' = [attempt EXCEPT ![t] = @ + 1]
    ELSE /\ Goto(t, "failed")
         /\ UNCHANGED attempt

\* The provider may have carried out a request it answered or did not answer.
MayApply(t) ==
    \E n \in {applied[t], applied[t] + 1} : applied' = [applied EXCEPT ![t] = n]

\* A 2xx answer.
Success(t) ==
    /\ pc[t] = "sent"
    /\ OnSuccess
    /\ MayApply(t)
    /\ Goto(t, "ok")
    /\ UNCHANGED attempt

\* RetryPolicy::allows_status_retry and status_is_retryable: 425 alone is
\* retryable without counting, a 501 or 505 counts without being retryable.
Status(t) ==
    /\ pc[t] = "sent"
    /\ \E counts, retryable \in BOOLEAN :
         /\ IF counts THEN OnFailure ELSE OnSuccess
         /\ RetryOrFail(t, retryable /\ t \in Idempotent)
    /\ MayApply(t)

\* The connection was refused: nothing reached the provider.
ConnectFails(t) ==
    /\ pc[t] = "sent"
    /\ OnFailure
    /\ RetryOrFail(t, TRUE)
    /\ UNCHANGED applied

\* Mutant: any transport failure may be repeated.
TransportRetry_Always(t) == TRUE

\* allows_transport_retry once the request may have reached the provider.
TransportRetry(t) == t \in Idempotent

\* The request timed out or broke off on the way; transport_failure_counts
\* leaves a broken response body or redirect out of the breaker's books.
TransportFails(t) ==
    /\ pc[t] = "sent"
    /\ OnFailure \/ UNCHANGED <<breaker, streak>>
    /\ MayApply(t)
    /\ RetryOrFail(t, TransportRetry(t))

\* The task is dropped while a request of it is in flight: the breaker hears
\* nothing.
Drop(t) ==
    /\ MayDrop
    /\ \/ pc[t] \in {"auth", "backoff"} /\ UNCHANGED applied
       \/ pc[t] = "sent" /\ MayApply(t)
    /\ Goto(t, "failed")
    /\ UNCHANGED <<breaker, attempt, streak>>

\* The task makes its next, unrelated call.
NextCall(t) ==
    /\ pc[t] \in Ended
    /\ Goto(t, "idle")
    /\ attempt' = [attempt EXCEPT ![t] = 0]
    /\ applied' = [applied EXCEPT ![t] = 0]
    /\ UNCHANGED <<breaker, streak>>

-----------------------------------------------------------------------------

Answered(t) == Success(t) \/ Status(t) \/ ConnectFails(t) \/ TransportFails(t)

InCall(t) ==
    \/ AuthOk(t) \/ AuthFails(t) \/ Answered(t)
    \/ pc[t] = "backoff" /\ (Acquire(t) \/ Rejected(t))

Next ==
    \/ Elapse
    \/ \E t \in Task : Acquire(t) \/ Rejected(t) \/ InCall(t) \/ Drop(t) \/ NextCall(t)

Spec == Init /\ [][Next]_vars

\* Time passes, every request is answered or times out (the client has a
\* timeout) and a sleeping task wakes up; nothing makes a task call again.
FairSpec == Spec /\ WF_vars(Elapse) /\ \A t \in Task : WF_vars(InCall(t))

-----------------------------------------------------------------------------
(* Properties.                                                             *)

\* Types; and no call is attempted more than 1 + max_retries times.
TypeOK ==
    /\ state \in {"closed", "open", "half_open"}
    /\ fails \in Nat
    /\ elapsed \in BOOLEAN
    /\ pc \in [Task -> {"idle", "auth", "sent", "backoff"} \cup Ended]
    /\ attempt \in [Task -> 0..MaxRetries]
    /\ applied \in [Task -> Nat]
    /\ streak \in 0..Threshold

\* The circuit is not closed only if the last Threshold answers reported to it
\* were all failures, whichever tasks they came from and however late.
OpenIsEarned == Enabled => (state # "closed" => streak = Threshold)

\* A closed circuit has counted every failure since the last success, so that
\* the threshold is met by consecutive failures and no others.
FailuresAreCounted == Enabled => (state = "closed" => fails = streak)

\* A request that is not idempotent is carried out at most once, however many
\* attempts are made.
AppliedOnce == \A t \in Task \ Idempotent : applied[t] =< 1

\* The breaker never locks the provider out for good: from an open or half-open
\* circuit a time comes when a call would be let through, also if the probe was
\* dropped and never reported back.
NeverWedged == state # "closed" ~> Admits
=============================================================================
