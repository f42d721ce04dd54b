------------------------ MODULE ProviderClientProofs ------------------------
(***************************************************************************)
(* Proofs about ProviderClient, for any number of tasks, any retry budget  *)
(* and any threshold.                                                      *)
(***************************************************************************)
EXTENDS ProviderClient, TLAPS

\* The types of what acquire, on_success and on_failure change.
BreakerType ==
    /\ state \in {"closed", "open", "half_open"}
    /\ fails \in Nat
    /\ elapsed \in BOOLEAN
    /\ streak \in 0..Threshold

\* A reported success leaves the breaker well-typed.
LEMMA OnSuccessType ==
  ASSUME BreakerType, OnSuccess
  PROVE  BreakerType'
<1> USE ClientAssumption DEF BreakerType, OnSuccess, breaker
<1>1. elapsed' \in BOOLEAN
  BY Zenon
<1>2. streak' \in 0..Threshold
  OBVIOUS
<1>3. state' \in {"closed", "open", "half_open"} /\ fails' \in Nat
  OBVIOUS
<1>4. QED
  BY <1>1, <1>2, <1>3

\* A reported failure leaves the breaker well-typed.
LEMMA OnFailureType ==
  ASSUME BreakerType, OnFailure
  PROVE  BreakerType'
<1> USE ClientAssumption DEF BreakerType, OnFailure, breaker
<1>1. elapsed' \in BOOLEAN
  BY Zenon
<1>2. streak' \in 0..Threshold
  BY DEF CountFailure
<1>3. state' \in {"closed", "open", "half_open"} /\ fails' \in Nat
  OBVIOUS
<1>4. QED
  BY <1>1, <1>2, <1>3

\* The attempt counter stays within max_retries.
LEMMA RetryOrFailType ==
  ASSUME TypeOK, NEW t \in Task, NEW b \in BOOLEAN, RetryOrFail(t, b)
  PROVE  /\ pc' \in [Task -> {"idle", "auth", "sent", "backoff"} \cup Ended]
         /\ attempt' \in [Task -> 0..MaxRetries]
<1> USE ClientAssumption DEF TypeOK, RetryOrFail, Goto
<1>1. pc' \in [Task -> {"idle", "auth", "sent", "backoff"} \cup Ended]
  BY DEF Ended
<1>2. CASE b /\ attempt[t] < MaxRetries
  <2>1. attempt[t] + 1 \in 0..MaxRetries
    BY <1>2
  <2>2. attempt' = [attempt EXCEPT ![t] = attempt[t] + 1]
    BY <1>2
  <2>3. QED
    BY <1>1, <2>1, <2>2
<1>3. CASE ~(b /\ attempt[t] < MaxRetries)
  BY <1>1, <1>3
<1>4. QED
  BY <1>2, <1>3

\* Whether the provider carried a request out or not is counted.
LEMMA MayApplyType ==
  ASSUME TypeOK, NEW t \in Task, MayApply(t)
  PROVE  applied' \in [Task -> Nat]
BY DEF TypeOK, MayApply

\* The breaker, the tasks and the attempt counters keep their types; in
\* particular no call makes more than 1 + max_retries attempts.
THEOREM ClientTypeCorrect == Spec => []TypeOK
<1> USE ClientAssumption
<1>1. Init => TypeOK
  <2> SUFFICES ASSUME Init PROVE TypeOK
    OBVIOUS
  <2>1. elapsed \in BOOLEAN
    BY DEF Init
  <2>2. 0 \in 0..MaxRetries /\ 0 \in 0..Threshold
    OBVIOUS
  <2>3. /\ state \in {"closed", "open", "half_open"} /\ fails \in Nat
        /\ pc \in [Task -> {"idle", "auth", "sent", "backoff"} \cup Ended]
        /\ attempt \in [Task -> 0..MaxRetries]
        /\ applied \in [Task -> Nat] /\ streak \in 0..Threshold
    BY <2>2 DEF Init
  <2>4. QED
    BY <2>1, <2>3 DEF TypeOK
<1>2. TypeOK /\ [Next]_vars => TypeOK'
  <2> SUFFICES ASSUME TypeOK, [Next]_vars PROVE TypeOK'
    OBVIOUS
  <2>0. BreakerType /\ (UNCHANGED <<breaker, streak>> => BreakerType')
    BY DEF TypeOK, BreakerType, breaker
  <2>1. CASE Elapse
    BY <2>1 DEF Elapse, TypeOK
  <2>2. ASSUME NEW t \in Task, Acquire(t) PROVE TypeOK'
    <3>1. elapsed' \in BOOLEAN
      BY <2>2, Zenon DEF Acquire, Admit, breaker, TypeOK
    <3>2. QED
      BY <2>2, <3>1 DEF Acquire, Admit, breaker, TypeOK, Goto
  <2>3. ASSUME NEW t \in Task, Rejected(t) PROVE TypeOK'
    BY <2>3 DEF Rejected, breaker, TypeOK, Goto, Ended
  <2>4. ASSUME NEW t \in Task, AuthOk(t) PROVE TypeOK'
    BY <2>4 DEF AuthOk, breaker, TypeOK, Goto
  <2>5. ASSUME NEW t \in Task, AuthFails(t) PROVE TypeOK'
    <3>1. BreakerType'
      BY <2>0, <2>5, OnFailureType DEF AuthFails
    <3>2. QED
      BY <2>5, <3>1 DEF AuthFails, BreakerType, TypeOK, Goto, Ended
  <2>6. ASSUME NEW t \in Task, Success(t) PROVE TypeOK'
    <3>1. BreakerType'
      BY <2>0, <2>6, OnSuccessType DEF Success
    <3>2. applied' \in [Task -> Nat]
      BY <2>6, MayApplyType DEF Success
    <3>3. QED
      BY <2>6, <3>1, <3>2 DEF Success, BreakerType, TypeOK, Goto, Ended
  <2>7. ASSUME NEW t \in Task, Status(t) PROVE TypeOK'
    <3>1. PICK counts \in BOOLEAN, retryable \in BOOLEAN :
            /\ IF counts THEN OnFailure ELSE OnSuccess
            /\ RetryOrFail(t, retryable /\ t \in Idempotent)
      BY <2>7 DEF Status
    <3>2. BreakerType'
      BY <2>0, <3>1, OnFailureType, OnSuccessType
    <3>3. (retryable /\ t \in Idempotent) \in BOOLEAN
      OBVIOUS
    <3>4. applied' \in [Task -> Nat]
      BY <2>7, MayApplyType DEF Status
    <3>5. /\ pc' \in [Task -> {"idle", "auth", "sent", "backoff"} \cup Ended]
          /\ attempt' \in [Task -> 0..MaxRetries]
      BY <3>1, <3>3, RetryOrFailType
    <3>6. QED
      BY <3>2, <3>4, <3>5 DEF BreakerType, TypeOK
  <2>8. ASSUME NEW t \in Task, ConnectFails(t) PROVE TypeOK'
    <3>1. BreakerType'
      BY <2>0, <2>8, OnFailureType DEF ConnectFails
    <3>2. /\ pc' \in [Task -> {"idle", "auth", "sent", "backoff"} \cup Ended]
          /\ attempt' \in [Task -> 0..MaxRetries]
      BY <2>8, RetryOrFailType DEF ConnectFails
    <3>3. QED
      BY <2>8, <3>1, <3>2 DEF ConnectFails, BreakerType, TypeOK
  <2>9. ASSUME NEW t \in Task, TransportFails(t) PROVE TypeOK'
    <3>1. BreakerType'
      BY <2>0, <2>9, OnFailureType DEF TransportFails
    <3>2. TransportRetry(t) \in BOOLEAN
      BY DEF TransportRetry
    <3>3. /\ pc' \in [Task -> {"idle", "auth", "sent", "backoff"} \cup Ended]
          /\ attempt' \in [Task -> 0..MaxRetries]
      BY <2>9, <3>2, RetryOrFailType DEF TransportFails
    <3>4. applied' \in [Task -> Nat]
      BY <2>9, MayApplyType DEF TransportFails
    <3>5. QED
      BY <3>1, <3>3, <3>4 DEF BreakerType, TypeOK
  <2>10. ASSUME NEW t \in Task, Drop(t) PROVE TypeOK'
    <3>1. applied' \in [Task -> Nat]
      BY <2>10, MayApplyType DEF Drop, TypeOK
    <3>2. QED
      BY <2>10, <3>1 DEF Drop, breaker, TypeOK, Goto, Ended
  <2>11. ASSUME NEW t \in Task, NextCall(t) PROVE TypeOK'
    BY <2>11 DEF NextCall, breaker, TypeOK, Goto
  <2>12. CASE UNCHANGED vars
    BY <2>12 DEF vars, breaker, TypeOK
  <2>13. QED
    BY <2>1, <2>2, <2>3, <2>4, <2>5, <2>6, <2>7, <2>8, <2>9, <2>10, <2>11, <2>12
       DEF Next, InCall, Answered
<1>3. QED
  BY <1>1, <1>2, PTL DEF Spec

-----------------------------------------------------------------------------
(* The breaker's count.                                                    *)

\* Neither half is inductive alone: the circuit opens on the failures a closed
\* circuit has counted.
BreakerInv == OpenIsEarned /\ FailuresAreCounted

\* The breaker's count and its state agree with the answers reported to it.
LEMMA BreakerCounts == Spec => []BreakerInv
<1> USE ClientAssumption
<1>1. Init => BreakerInv
  BY DEF Init, BreakerInv, OpenIsEarned, FailuresAreCounted
<1>2. TypeOK /\ BreakerInv /\ [Next]_vars => BreakerInv'
  <2> SUFFICES ASSUME TypeOK, BreakerInv, [Next]_vars PROVE BreakerInv'
    OBVIOUS
  <2> USE DEF TypeOK, BreakerInv, OpenIsEarned, FailuresAreCounted, breaker
  <2>1. CASE Elapse
    BY <2>1 DEF Elapse
  <2>2. ASSUME NEW t \in Task, Acquire(t) PROVE BreakerInv'
    BY <2>2 DEF Acquire, Ready, Admits, Admit
  <2>3. ASSUME NEW t \in Task, Rejected(t) PROVE BreakerInv'
    BY <2>3 DEF Rejected
  <2>4. ASSUME NEW t \in Task, AuthOk(t) PROVE BreakerInv'
    BY <2>4 DEF AuthOk
  <2>5. ASSUME NEW t \in Task, AuthFails(t) PROVE BreakerInv'
    BY <2>5 DEF AuthFails, OnFailure, CountFailure
  <2>6. ASSUME NEW t \in Task, Success(t) PROVE BreakerInv'
    BY <2>6 DEF Success, OnSuccess, MayApply
  <2>7. ASSUME NEW t \in Task, Status(t) PROVE BreakerInv'
    BY <2>7 DEF Status, OnSuccess, OnFailure, CountFailure, RetryOrFail, MayApply
  <2>8. ASSUME NEW t \in Task, ConnectFails(t) PROVE BreakerInv'
    BY <2>8 DEF ConnectFails, OnFailure, CountFailure, RetryOrFail
  <2>9. ASSUME NEW t \in Task, TransportFails(t) PROVE BreakerInv'
    BY <2>9 DEF TransportFails, TransportRetry, OnFailure, CountFailure, RetryOrFail, MayApply
  <2>10. ASSUME NEW t \in Task, Drop(t) PROVE BreakerInv'
    BY <2>10 DEF Drop, MayApply
  <2>11. ASSUME NEW t \in Task, NextCall(t) PROVE BreakerInv'
    BY <2>11 DEF NextCall
  <2>12. CASE UNCHANGED vars
    BY <2>12 DEF vars
  <2>13. QED
    BY <2>1, <2>2, <2>3, <2>4, <2>5, <2>6, <2>7, <2>8, <2>9, <2>10, <2>11, <2>12
       DEF Next, InCall, Answered
<1>3. QED
  BY <1>1, <1>2, ClientTypeCorrect, PTL DEF Spec

\* The circuit is open or half-open only after failure_threshold failures with
\* no success between them.
THEOREM OpeningIsEarned == Spec => []OpenIsEarned
<1>1. BreakerInv => OpenIsEarned
  BY DEF BreakerInv
<1>2. QED
  BY <1>1, BreakerCounts, PTL

\* A closed circuit's count is the number of failures since the last success.
THEOREM FailuresCounted == Spec => []FailuresAreCounted
<1>1. BreakerInv => FailuresAreCounted
  BY DEF BreakerInv
<1>2. QED
  BY <1>1, BreakerCounts, PTL

-----------------------------------------------------------------------------
(* Retries.                                                                *)

\* As long as another attempt may follow, a request that is not idempotent has
\* not been carried out.
NotYetApplied ==
    /\ AppliedOnce
    /\ \A t \in Task \ Idempotent :
          pc[t] \in {"idle", "auth", "sent", "backoff"} => applied[t] = 0

\* The retry policy never has a request that is not idempotent carried out
\* twice: it is sent again only if nothing reached the provider.
THEOREM AppliedAtMostOnce == Spec => []AppliedOnce
<1> USE ClientAssumption
<1>1. Init => NotYetApplied
  BY DEF Init, NotYetApplied, AppliedOnce
<1>2. TypeOK /\ NotYetApplied /\ [Next]_vars => NotYetApplied'
  <2> SUFFICES ASSUME TypeOK, NotYetApplied, [Next]_vars PROVE NotYetApplied'
    OBVIOUS
  <2> USE DEF TypeOK, NotYetApplied, AppliedOnce, Goto, Ended
  <2>1. CASE Elapse
    BY <2>1 DEF Elapse
  <2>2. ASSUME NEW t \in Task, Acquire(t) PROVE NotYetApplied'
    BY <2>2 DEF Acquire, Ready, Admits, Admit
  <2>3. ASSUME NEW t \in Task, Rejected(t) PROVE NotYetApplied'
    BY <2>3 DEF Rejected
  <2>4. ASSUME NEW t \in Task, AuthOk(t) PROVE NotYetApplied'
    BY <2>4 DEF AuthOk
  <2>5. ASSUME NEW t \in Task, AuthFails(t) PROVE NotYetApplied'
    BY <2>5 DEF AuthFails, OnFailure, CountFailure
  <2>6. ASSUME NEW t \in Task, Success(t) PROVE NotYetApplied'
    BY <2>6 DEF Success, OnSuccess, MayApply
  <2>7. ASSUME NEW t \in Task, Status(t) PROVE NotYetApplied'
    BY <2>7 DEF Status, OnSuccess, OnFailure, CountFailure, RetryOrFail, MayApply
  <2>8. ASSUME NEW t \in Task, ConnectFails(t) PROVE NotYetApplied'
    BY <2>8 DEF ConnectFails, OnFailure, CountFailure, RetryOrFail
  <2>9. ASSUME NEW t \in Task, TransportFails(t) PROVE NotYetApplied'
    BY <2>9 DEF TransportFails, TransportRetry, OnFailure, CountFailure, RetryOrFail, MayApply
  <2>10. ASSUME NEW t \in Task, Drop(t) PROVE NotYetApplied'
    BY <2>10 DEF Drop, MayApply
  <2>11. ASSUME NEW t \in Task, NextCall(t) PROVE NotYetApplied'
    BY <2>11 DEF NextCall
  <2>12. CASE UNCHANGED vars
    BY <2>12 DEF vars
  <2>13. QED
    BY <2>1, <2>2, <2>3, <2>4, <2>5, <2>6, <2>7, <2>8, <2>9, <2>10, <2>11, <2>12
       DEF Next, InCall, Answered
<1>3. NotYetApplied => AppliedOnce
  BY DEF NotYetApplied
<1>4. QED
  BY <1>1, <1>2, <1>3, ClientTypeCorrect, PTL DEF Spec
=============================================================================
