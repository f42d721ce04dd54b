--------------------------- MODULE CheckoutProofs ---------------------------
(***************************************************************************)
(* Proofs about Checkout, for any number of calls, keys, carts and         *)
(* versions.                                                               *)
(***************************************************************************)
EXTENDS Checkout, TLAPS

\* The runner keeps the store it was started with.
LEMMA SettingStays == [Next]_vars => UNCHANGED <<backend, calm>>
  BY DEF Next, vars, setting

\* Every store row, provider ledger and local variable of a call keeps its type
\* whatever the calls do.
THEOREM TypeCorrect == Spec => []TypeOK
<1> USE CheckoutAssumption
<1>1. Init => TypeOK
  BY DEF Init, TypeOK
<1>2. TypeOK /\ [Next]_vars => TypeOK'
  <2> SUFFICES ASSUME TypeOK, [Next]_vars PROVE TypeOK'
    OBVIOUS
  <2> UNCHANGED <<backend, calm>>
    BY SettingStays
  <2> USE DEF TypeOK, stores, provider, Goto, Working, Results
  <2>1. ASSUME NEW r \in Call, Invalid(r) PROVE TypeOK'
    BY <2>1 DEF Invalid
  <2>2. ASSUME NEW r \in Call, Claim(r) PROVE TypeOK'
    BY <2>2 DEF Claim
  <2>3. ASSUME NEW r \in Call, AlreadyInFlight(r) PROVE TypeOK'
    BY <2>3 DEF AlreadyInFlight
  <2>4. ASSUME NEW r \in Call, Replay(r) PROVE TypeOK'
    BY <2>4 DEF Replay
  <2>5. ASSUME NEW r \in Call, SettleRead(r) PROVE TypeOK'
    BY <2>5 DEF SettleRead
  <2>6. ASSUME NEW r \in Call, SettleWrite(r) PROVE TypeOK'
    BY <2>6 DEF SettleWrite
  <2>7. ASSUME NEW r \in Call, SettleFails(r) PROVE TypeOK'
    BY <2>7 DEF SettleFails
  <2>8. ASSUME NEW r \in Call, Release(r) PROVE TypeOK'
    BY <2>8 DEF Release, ReleaseRow
  <2>9. ASSUME NEW r \in Call, Reserve(r) PROVE TypeOK'
    BY <2>9 DEF Reserve
  <2>10. ASSUME NEW r \in Call, CheckPolicy(r) PROVE TypeOK'
    BY <2>10 DEF CheckPolicy
  <2>11. ASSUME NEW r \in Call, Authorize(r) PROVE TypeOK'
    BY <2>11 DEF Authorize
  <2>12. ASSUME NEW r \in Call, Undo(r) PROVE TypeOK'
    BY <2>12 DEF Undo
  <2>13. ASSUME NEW r \in Call, Commit(r) PROVE TypeOK'
    BY <2>13 DEF Commit
  <2>14. ASSUME NEW r \in Call, Capture(r) PROVE TypeOK'
    BY <2>14 DEF Capture
  <2>15. ASSUME NEW r \in Call, PutOrder(r) PROVE TypeOK'
    BY <2>15 DEF PutOrder
  <2>16. ASSUME NEW r \in Call, GenerateReceipt(r) PROVE TypeOK'
    BY <2>16 DEF GenerateReceipt
  <2>17. ASSUME NEW r \in Call, Finalize(r) PROVE TypeOK'
    BY <2>17 DEF Finalize
  <2>18. ASSUME NEW r \in Call, Enqueue(r) PROVE TypeOK'
    BY <2>18 DEF Enqueue
  <2>19. ASSUME NEW r \in Call, Complete(r) PROVE TypeOK'
    BY <2>19 DEF Complete
  <2>20. ASSUME NEW r \in Call, PutPayState(r) PROVE TypeOK'
    BY <2>20 DEF PutPayState
  <2>21. ASSUME NEW r \in Call, ProviderError(r) PROVE TypeOK'
    BY <2>21 DEF ProviderError
  <2>22. ASSUME NEW r \in Call, Cancel(r) PROVE TypeOK'
    BY <2>22 DEF Cancel
  <2>23. ASSUME NEW c \in Cart, MutateCart(c) PROVE TypeOK'
    BY <2>23 DEF MutateCart
  <2>24. CASE UNCHANGED vars
    BY <2>24 DEF vars
  <2>25. QED
    BY <2>1, <2>2, <2>3, <2>4, <2>5, <2>6, <2>7, <2>8, <2>9, <2>10, <2>11, <2>12, <2>13, <2>14,
       <2>15, <2>16, <2>17, <2>18, <2>19, <2>20, <2>21, <2>22, <2>23, <2>24 DEF Next, Arrive, Step
<1>3. QED
  BY <1>1, <1>2, PTL DEF Spec

-----------------------------------------------------------------------------
(* Exclusive claims: the memory and file stores.                           *)

\* Where claim answers None for one call at a time, the ownership invariant
\* holds: one owner per key, and none but the first once a call has begun.
THEOREM ClaimsAreExclusive == Spec => [](Exclusive => ExclusiveClaims)
<1> USE CheckoutAssumption
<1>1. Init => ExclusiveClaims
  BY SMTT(60) DEF Init, ExclusiveClaims, OneOwner, BegunOnce, RecordedOnce, Owning, Working, Unsettled
<1>2. TypeOK /\ (Exclusive => ExclusiveClaims) /\ [Next]_vars => (Exclusive => ExclusiveClaims)'
  <2> SUFFICES ASSUME TypeOK, Exclusive => ExclusiveClaims, [Next]_vars, Exclusive'
               PROVE  ExclusiveClaims'
    OBVIOUS
  <2> Exclusive /\ ExclusiveClaims
    BY SettingStays DEF Exclusive
  <2> USE DEF TypeOK, ExclusiveClaims, OneOwner, BegunOnce, RecordedOnce,
              stores, provider, Goto, Owning, Working, Unsettled
  <2>1. ASSUME NEW r \in Call, Invalid(r) PROVE ExclusiveClaims'
    BY <2>1 DEF Invalid
  <2>2. ASSUME NEW r \in Call, Claim(r) PROVE ExclusiveClaims'
    BY <2>2 DEF Claim, Claimable
  <2>3. ASSUME NEW r \in Call, AlreadyInFlight(r) PROVE ExclusiveClaims'
    BY <2>3 DEF AlreadyInFlight
  <2>4. ASSUME NEW r \in Call, Replay(r) PROVE ExclusiveClaims'
    BY <2>4 DEF Replay
  <2>5. ASSUME NEW r \in Call, SettleRead(r) PROVE ExclusiveClaims'
    BY <2>5 DEF SettleRead
  <2>6. ASSUME NEW r \in Call, SettleWrite(r) PROVE ExclusiveClaims'
    <3>1. CASE Goto(r, "release") /\ UNCHANGED began
      BY <2>6, <3>1 DEF SettleWrite
    <3>2. CASE Goto(r, "reserve") /\ began' = began \cup {r}
      <4>1. /\ pc[r] = "settled" /\ pc' = [pc EXCEPT ![r] = "reserve"]
            /\ UNCHANGED <<idem, stored, orders, outbox, authorized, captured, reply>>
        BY <2>6, <3>2 DEF SettleWrite
      <4>2. r \notin began /\ idem[KeyOf[r]] = "in_flight"
        BY <4>1
      <4>3. \A s \in Call : s \in began => KeyOf[s] # KeyOf[r]
        BY <4>1, <4>2
      <4>4. \A s \in Call : s # r => pc'[s] = pc[s]
        BY <4>1
      <4>5. OneOwner'
        BY <4>1, <4>4
      <4>6. BegunOnce'
        BY <3>2, <4>1, <4>2, <4>3, <4>4
      <4>7. RecordedOnce'
        BY <3>2, <4>1, <4>4
      <4>8. QED
        BY <4>5, <4>6, <4>7
    <3>3. QED
      BY <2>6, <3>1, <3>2 DEF SettleWrite
  <2>7. ASSUME NEW r \in Call, SettleFails(r) PROVE ExclusiveClaims'
    BY <2>7 DEF SettleFails
  <2>8. ASSUME NEW r \in Call, Release(r) PROVE ExclusiveClaims'
    BY <2>8 DEF Release, ReleaseRow
  <2>9. ASSUME NEW r \in Call, Reserve(r) PROVE ExclusiveClaims'
    BY <2>9 DEF Reserve
  <2>10. ASSUME NEW r \in Call, CheckPolicy(r) PROVE ExclusiveClaims'
    BY <2>10, SMTT(60) DEF CheckPolicy
  <2>11. ASSUME NEW r \in Call, Authorize(r) PROVE ExclusiveClaims'
    <3>1. /\ pc[r] = "authorize" /\ UNCHANGED <<idem, stored, orders, outbox, captured, reply, began>>
          /\ authorized' \subseteq authorized \cup {r}
          /\ \A s \in Call : s # r => pc'[s] = pc[s]
          /\ pc'[r] \in Owning \ (Unsettled \cup {"idle"})
      BY <2>11 DEF Authorize
    <3>2. OneOwner'
      BY <3>1, SMTT(60)
    <3>3. BegunOnce'
      BY <3>1, SMTT(60)
    <3>4. RecordedOnce'
      BY <3>1
    <3>5. QED
      BY <3>2, <3>3, <3>4
  <2>12. ASSUME NEW r \in Call, Undo(r) PROVE ExclusiveClaims'
    BY <2>12 DEF Undo
  <2>13. ASSUME NEW r \in Call, Commit(r) PROVE ExclusiveClaims'
    BY <2>13 DEF Commit
  <2>14. ASSUME NEW r \in Call, Capture(r) PROVE ExclusiveClaims'
    BY <2>14 DEF Capture
  <2>15. ASSUME NEW r \in Call, PutOrder(r) PROVE ExclusiveClaims'
    BY <2>15 DEF PutOrder
  <2>16. ASSUME NEW r \in Call, GenerateReceipt(r) PROVE ExclusiveClaims'
    BY <2>16 DEF GenerateReceipt
  <2>17. ASSUME NEW r \in Call, Finalize(r) PROVE ExclusiveClaims'
    BY <2>17 DEF Finalize
  <2>18. ASSUME NEW r \in Call, Enqueue(r) PROVE ExclusiveClaims'
    BY <2>18 DEF Enqueue
  <2>19. ASSUME NEW r \in Call, Complete(r) PROVE ExclusiveClaims'
    BY <2>19 DEF Complete
  <2>20. ASSUME NEW r \in Call, PutPayState(r) PROVE ExclusiveClaims'
    BY <2>20 DEF PutPayState
  <2>21. ASSUME NEW r \in Call, ProviderError(r) PROVE ExclusiveClaims'
    BY <2>21 DEF ProviderError
  <2>22. ASSUME NEW r \in Call, Cancel(r) PROVE ExclusiveClaims'
    BY <2>22 DEF Cancel
  <2>23. ASSUME NEW c \in Cart, MutateCart(c) PROVE ExclusiveClaims'
    BY <2>23 DEF MutateCart
  <2>24. CASE UNCHANGED vars
    BY <2>24 DEF vars
  <2>25. QED
    BY <2>1, <2>2, <2>3, <2>4, <2>5, <2>6, <2>7, <2>8, <2>9, <2>10, <2>11, <2>12, <2>13, <2>14,
       <2>15, <2>16, <2>17, <2>18, <2>19, <2>20, <2>21, <2>22, <2>23, <2>24 DEF Next, Arrive, Step
<1>3. QED
  BY <1>1, <1>2, TypeCorrect, PTL DEF Spec

\* In-flight deduplication: where claims are exclusive, at most one of the calls
\* that carry a key ever reserves stock, charges, orders or enqueues.
THEOREM ExecutesOnce == Spec => []OneExecutionPerKey
<1>1. (Exclusive => ExclusiveClaims) => OneExecutionPerKey
  BY DEF ExclusiveClaims, BegunOnce, OneExecutionPerKey, Deduplicated
<1>2. QED
  BY <1>1, ClaimsAreExclusive, PTL

\* Whoever is given a result under one key is given the same transaction.
THEOREM AnswersAgree == Spec => []SameAnswer
<1>1. (Exclusive => ExclusiveClaims) => SameAnswer
  BY DEF ExclusiveClaims, RecordedOnce, SameAnswer
<1>2. QED
  BY <1>1, ClaimsAreExclusive, PTL

-----------------------------------------------------------------------------
(* The steps that touch the idempotency rows, the history and the replies. *)

\* Every other step of the calls leaves the variables of the abstract
\* specification alone.
LEMMA QuietSteps ==
  ASSUME [Next]_vars
  PROVE  \/ UNCHANGED <<idem, stored, reply, began>>
         \/ \E r \in Call : Claim(r) \/ Replay(r) \/ SettleWrite(r) \/ Release(r)
                               \/ Complete(r) \/ PutPayState(r)
<1> USE DEF stores, provider
<1>1. ASSUME NEW r \in Call,
             \/ Invalid(r) \/ AlreadyInFlight(r) \/ SettleRead(r) \/ SettleFails(r)
             \/ Reserve(r) \/ CheckPolicy(r) \/ Authorize(r) \/ Undo(r)
      PROVE  UNCHANGED <<idem, stored, reply, began>>
  BY <1>1 DEF Invalid, AlreadyInFlight, SettleRead, SettleFails, Reserve, CheckPolicy,
              Authorize, Undo
<1>2. ASSUME NEW r \in Call,
             \/ Commit(r) \/ Capture(r) \/ PutOrder(r) \/ GenerateReceipt(r)
             \/ Finalize(r) \/ Enqueue(r) \/ ProviderError(r) \/ Cancel(r)
      PROVE  UNCHANGED <<idem, stored, reply, began>>
  BY <1>2 DEF Commit, Capture, PutOrder, GenerateReceipt, Finalize, Enqueue,
              ProviderError, Cancel
<1>3. ASSUME NEW c \in Cart, MutateCart(c)
      PROVE  UNCHANGED <<idem, stored, reply, began>>
  BY <1>3 DEF MutateCart
<1>4. CASE UNCHANGED vars
  BY <1>4 DEF vars
<1>5. QED
  BY <1>1, <1>2, <1>3, <1>4 DEF Next, Arrive, Step

\* Where claims are exclusive, a recorded outcome is never changed or forgotten.
THEOREM OutcomesAreFinal == Spec => OutcomeIsFinal
<1> DEFINE Kept == \A k \in Key : Exclusive /\ idem[k] = "completed" =>
                       idem'[k] = "completed" /\ stored'[k] = stored[k]
<1>1. TypeOK /\ (Exclusive => ExclusiveClaims) /\ [Next]_vars => [Kept]_vars
  <2> SUFFICES ASSUME TypeOK, Exclusive, ExclusiveClaims, [Next]_vars PROVE Kept
    OBVIOUS
  <2> USE CheckoutAssumption DEF TypeOK, ExclusiveClaims, OneOwner, Owning, Working
  <2>1. CASE UNCHANGED <<idem, stored, reply, began>>
    BY <2>1
  <2>2. ASSUME NEW r \in Call, Claim(r) PROVE Kept
    BY <2>2 DEF Claim, Claimable
  <2>3. ASSUME NEW r \in Call, Replay(r) \/ SettleWrite(r) \/ PutPayState(r) PROVE Kept
    BY <2>3 DEF Replay, SettleWrite, PutPayState, stores
  <2>4. ASSUME NEW r \in Call, Release(r) PROVE Kept
    BY <2>4 DEF Release, ReleaseRow
  <2>5. ASSUME NEW r \in Call, Complete(r) PROVE Kept
    BY <2>5 DEF Complete
  <2>6. QED
    BY <2>1, <2>2, <2>3, <2>4, <2>5, QuietSteps
<1>2. QED
  BY <1>1, TypeCorrect, ClaimsAreExclusive, PTL DEF Spec, OutcomeIsFinal

-----------------------------------------------------------------------------
(* Refinement.                                                             *)

\* The call that has begun is the executor of its key.
LEMMA ExecutorBegan ==
  ASSUME BegunOnce
  PROVE  /\ \A s \in began : Executor(KeyOf[s]) = s
         /\ \A k \in Key : Executor(k) # None => Executor(k) \in began /\ KeyOf[Executor(k)] = k
<1>1. \A s \in began : Executor(KeyOf[s]) = s
  <2> TAKE s \in began
  <2>1. \A t \in began : KeyOf[t] = KeyOf[s] => t = s
    BY DEF BegunOnce
  <2>2. QED
    BY <2>1 DEF Executor
<1>2. ASSUME NEW k \in Key, Executor(k) # None
      PROVE  Executor(k) \in began /\ KeyOf[Executor(k)] = k
  <2>1. \E r \in began : KeyOf[r] = k
    BY <1>2 DEF Executor
  <2>2. QED
    BY <2>1 DEF Executor
<1>3. QED
  BY <1>1, <1>2

\* Checkout implements IdempotentExecution where claims are exclusive: going
\* past settlement is Begin, the completion of the row is Record, a replay and
\* the executor's own return are Answer, and every other step stutters.
THEOREM CheckoutRefines == Spec => ImplementsIdempotentExecution
<1> USE CheckoutAssumption
<1>1. Init => Abs!AbsInit
  BY DEF Init, Abs!AbsInit, Executor, Shown
<1>2. ASSUME TypeOK, TypeOK', ~Exclusive, [Next]_vars
      PROVE  UNCHANGED Abs!absVars
  <2>1. ~Exclusive'
    BY <1>2, SettingStays DEF Exclusive
  <2>2. /\ DOMAIN stored = Key /\ DOMAIN stored' = Key
        /\ DOMAIN reply = Call /\ DOMAIN reply' = Call
    BY <1>2 DEF TypeOK
  <2>3. QED
    BY <1>2, <2>1, <2>2 DEF Abs!absVars, Shown
<1>3. ASSUME TypeOK, Exclusive, ExclusiveClaims, ExclusiveClaims', [Next]_vars
      PROVE  [Abs!AbsNext]_(Abs!absVars)
  <2> USE <1>3 DEF TypeOK
  <2> /\ Shown([k \in Key |-> Executor(k)]) = [k \in Key |-> Executor(k)]
      /\ Shown(stored) = stored /\ Shown(reply) = reply
      /\ Shown([k \in Key |-> Executor(k)])' = [k \in Key |-> Executor(k)]'
      /\ Shown(stored)' = stored' /\ Shown(reply)' = reply'
    BY SettingStays DEF Shown, Exclusive
  <2>1. began' = began => \A k \in Key : Executor(k)' = Executor(k)
    BY DEF Executor
  <2>2. CASE UNCHANGED <<idem, stored, reply, began>>
    BY <2>1, <2>2 DEF Abs!absVars
  <2>3. ASSUME NEW r \in Call, Claim(r) \/ Release(r)
        PROVE  UNCHANGED Abs!absVars
    BY <2>1, <2>3 DEF Claim, Release, Abs!absVars
  <2>4. ASSUME NEW r \in Call, Replay(r)
        PROVE  Abs!Answer(r)
    <3>1. reply[r] = None /\ stored[KeyOf[r]] # None
      BY <2>4 DEF Replay, ExclusiveClaims, BegunOnce, RecordedOnce
    <3>2. QED
      BY <2>1, <2>4, <3>1 DEF Replay, Abs!Answer, stores
  <2>5. ASSUME NEW r \in Call, SettleWrite(r)
        PROVE  Abs!Begin(r) \/ UNCHANGED Abs!absVars
    <3>1. CASE began' = began
      BY <2>1, <2>5, <3>1 DEF SettleWrite, Abs!absVars
    <3>2. CASE began' = began \cup {r}
      <4>1. r \notin began /\ \A s \in began : KeyOf[s] # KeyOf[r]
        BY <2>5 DEF SettleWrite, ExclusiveClaims, BegunOnce, Owning, Working, Unsettled
      <4>2. Executor(KeyOf[r]) = None
        BY <4>1 DEF Executor
      <4>3. \A s \in began' : Executor(KeyOf[s])' = s
        <5> TAKE s \in began'
        <5>1. \A t \in began' : KeyOf[t] = KeyOf[s] => t = s
          BY DEF ExclusiveClaims, BegunOnce
        <5>2. QED
          BY <5>1 DEF Executor
      <4>4. ASSUME NEW k \in Key, k # KeyOf[r]
            PROVE  Executor(k)' = Executor(k)
        <5>1. CASE \E s \in began : KeyOf[s] = k
          <6>1. PICK s \in began : KeyOf[s] = k
            BY <5>1
          <6>2. Executor(k)' = s
            BY <3>2, <4>3, <6>1
          <6>3. Executor(k) = s
            BY <6>1, ExecutorBegan DEF ExclusiveClaims
          <6>4. QED
            BY <6>2, <6>3
        <5>2. CASE ~ \E s \in began : KeyOf[s] = k
          BY <3>2, <4>4, <5>2 DEF Executor
        <5>3. QED
          BY <5>1, <5>2
      <4>5. Executor(KeyOf[r])' = r
        BY <3>2, <4>3
      <4>6. QED
        BY <2>5, <4>2, <4>4, <4>5 DEF SettleWrite, Abs!Begin
    <3>3. QED
      BY <2>5, <3>1, <3>2 DEF SettleWrite
  <2>6. ASSUME NEW r \in Call, Complete(r)
        PROVE  Abs!Record(r)
    <3>1. stored[KeyOf[r]] = None /\ r \in began
      BY <2>6 DEF Complete, ExclusiveClaims, OneOwner, BegunOnce, RecordedOnce,
                  Owning, Working, Unsettled
    <3>2. Executor(KeyOf[r]) = r
      BY <3>1, ExecutorBegan DEF ExclusiveClaims
    <3>3. QED
      BY <2>1, <2>6, <3>1, <3>2 DEF Complete, Abs!Record
  <2>7. ASSUME NEW r \in Call, PutPayState(r)
        PROVE  Abs!Answer(r)
    <3>1. reply[r] = None /\ stored[KeyOf[r]] = r
      BY <2>7 DEF PutPayState, ExclusiveClaims, RecordedOnce
    <3>2. QED
      BY <2>1, <2>7, <3>1 DEF PutPayState, Abs!Answer
  <2>8. QED
    BY <2>2, <2>3, <2>4, <2>5, <2>6, <2>7, QuietSteps DEF Abs!AbsNext
<1>4. TypeOK /\ TypeOK' /\ (Exclusive => ExclusiveClaims) /\ (Exclusive => ExclusiveClaims)'
        /\ [Next]_vars => [Abs!AbsNext]_(Abs!absVars)
  BY <1>2, <1>3, SettingStays DEF Exclusive
<1>5. QED
  BY <1>1, <1>4, TypeCorrect, ClaimsAreExclusive, PTL
     DEF Spec, ImplementsIdempotentExecution, Abs!AbsSpec

-----------------------------------------------------------------------------
(* Answers are backed, whatever the store behind the claims.               *)

\* What a call has done by the time it is at each await, so that whatever it
\* records is backed; inductive for every store.
SoFar(r) ==
    /\ pc[r] \in {"idle", "reserve", "policy", "authorize", "commit", "capture"} \cup Unsettled =>
          result[r] = "none" /\ r \notin captured \cup orders \cup outbox
    /\ pc[r] \in {"idle", "reserve", "policy", "authorize"} \cup Unsettled => r \notin authorized
    /\ pc[r] \in {"commit", "capture"} => r \in authorized
    /\ pc[r] = "undo" =>
          /\ result[r] \in {"rejected", "auth_failed"}
          /\ r \notin authorized \cup captured \cup orders \cup outbox
    /\ pc[r] \in {"order", "receipt", "finalize", "enqueue"} =>
          /\ result[r] \in {"captured", "capture_failed"}
          /\ result[r] = "captured" <=> r \in captured
          /\ r \in authorized
    /\ pc[r] \in {"receipt", "finalize", "enqueue"} => r \in orders
    /\ pc[r] \in {"complete", "pay_state"} => Backed(r)

\* A recorded or returned result is that of a call that has finished building
\* it, so no later step of that call can contradict it.
Settled(q) == q \in Call /\ pc[q] \in {"pay_state", "done"} /\ Backed(q)

BackedInv ==
    /\ \A r \in Call : SoFar(r)
    /\ \A k \in Key : idem[k] = "completed" => stored[k] # None
    /\ \A k \in Key : stored[k] # None => Settled(stored[k])
    /\ \A r \in Call : reply[r] # None => Settled(reply[r])

\* A call builds its own result, and only after each of the writes that back it,
\* for every backend and although claims may be shared.
LEMMA BackedInvHolds == Spec => []BackedInv
<1> USE CheckoutAssumption
<1>1. Init => BackedInv
  BY SMTT(60) DEF Init, BackedInv, SoFar, Unsettled
<1>2. TypeOK /\ BackedInv /\ [Next]_vars => BackedInv'
  <2> SUFFICES ASSUME TypeOK, BackedInv, [Next]_vars PROVE BackedInv'
    OBVIOUS
  <2> USE DEF TypeOK, BackedInv, SoFar, Settled, Backed, stores, provider, Goto,
              Working, Unsettled, Results
  <2>1. ASSUME NEW r \in Call, Invalid(r) PROVE BackedInv'
    BY <2>1 DEF Invalid
  <2>2. ASSUME NEW r \in Call, Claim(r) PROVE BackedInv'
    BY <2>2 DEF Claim
  <2>3. ASSUME NEW r \in Call, AlreadyInFlight(r) PROVE BackedInv'
    BY <2>3 DEF AlreadyInFlight
  <2>4. ASSUME NEW r \in Call, Replay(r) PROVE BackedInv'
    BY <2>4 DEF Replay
  <2>5. ASSUME NEW r \in Call, SettleRead(r) PROVE BackedInv'
    BY <2>5 DEF SettleRead
  <2>6. ASSUME NEW r \in Call, SettleWrite(r) PROVE BackedInv'
    BY <2>6 DEF SettleWrite
  <2>7. ASSUME NEW r \in Call, SettleFails(r) PROVE BackedInv'
    BY <2>7 DEF SettleFails
  <2>8. ASSUME NEW r \in Call, Release(r) PROVE BackedInv'
    BY <2>8 DEF Release, ReleaseRow
  <2>9. ASSUME NEW r \in Call, Reserve(r) PROVE BackedInv'
    BY <2>9 DEF Reserve
  <2>10. ASSUME NEW r \in Call, CheckPolicy(r) PROVE BackedInv'
    BY <2>10 DEF CheckPolicy
  <2>11. ASSUME NEW r \in Call, Authorize(r) PROVE BackedInv'
    BY <2>11 DEF Authorize
  <2>12. ASSUME NEW r \in Call, Undo(r) PROVE BackedInv'
    BY <2>12 DEF Undo
  <2>13. ASSUME NEW r \in Call, Commit(r) PROVE BackedInv'
    BY <2>13 DEF Commit
  <2>14. ASSUME NEW r \in Call, Capture(r) PROVE BackedInv'
    BY <2>14 DEF Capture
  <2>15. ASSUME NEW r \in Call, PutOrder(r) PROVE BackedInv'
    BY <2>15 DEF PutOrder
  <2>16. ASSUME NEW r \in Call, GenerateReceipt(r) PROVE BackedInv'
    BY <2>16 DEF GenerateReceipt
  <2>17. ASSUME NEW r \in Call, Finalize(r) PROVE BackedInv'
    BY <2>17 DEF Finalize
  <2>18. ASSUME NEW r \in Call, Enqueue(r) PROVE BackedInv'
    BY <2>18 DEF Enqueue
  <2>19. ASSUME NEW r \in Call, Complete(r) PROVE BackedInv'
    BY <2>19 DEF Complete
  <2>20. ASSUME NEW r \in Call, PutPayState(r) PROVE BackedInv'
    BY <2>20 DEF PutPayState
  <2>21. ASSUME NEW r \in Call, ProviderError(r) PROVE BackedInv'
    BY <2>21 DEF ProviderError
  <2>22. ASSUME NEW r \in Call, Cancel(r) PROVE BackedInv'
    BY <2>22 DEF Cancel
  <2>23. ASSUME NEW c \in Cart, MutateCart(c) PROVE BackedInv'
    BY <2>23 DEF MutateCart
  <2>24. CASE UNCHANGED vars
    BY <2>24 DEF vars
  <2>25. QED
    BY <2>1, <2>2, <2>3, <2>4, <2>5, <2>6, <2>7, <2>8, <2>9, <2>10, <2>11, <2>12, <2>13, <2>14,
       <2>15, <2>16, <2>17, <2>18, <2>19, <2>20, <2>21, <2>22, <2>23, <2>24, Zenon DEF Next, Arrive, Step
<1>3. QED
  BY <1>1, <1>2, TypeCorrect, PTL DEF Spec

\* Whatever is recorded under a key or given to a caller is backed by the
\* provider's ledger, the order store and the outbox, for every backend.
THEOREM AnswersAreBacked == Spec => []AnswerIsBacked
<1>1. BackedInv => AnswerIsBacked
  BY DEF BackedInv, AnswerIsBacked, Settled
<1>2. QED
  BY <1>1, BackedInvHolds, PTL

\* A recorded key stays recorded for every backend: a claim does not reopen the
\* row, and a release drops it only while it is InFlight.
THEOREM RecordedKeysAreKept == Spec => RecordedKeyIsKept
<1> DEFINE Kept == \A k \in Key : idem[k] = "completed" => idem'[k] = "completed"
<1>1. TypeOK /\ [Next]_vars => [Kept]_vars
  <2> SUFFICES ASSUME TypeOK, [Next]_vars PROVE Kept
    OBVIOUS
  <2> USE CheckoutAssumption DEF TypeOK
  <2>1. CASE UNCHANGED <<idem, stored, reply, began>>
    BY <2>1
  <2>2. ASSUME NEW r \in Call, Claim(r) PROVE Kept
    BY <2>2 DEF Claim, Claimable
  <2>3. ASSUME NEW r \in Call, Replay(r) \/ SettleWrite(r) \/ PutPayState(r) PROVE Kept
    BY <2>3 DEF Replay, SettleWrite, PutPayState, stores
  <2>4. ASSUME NEW r \in Call, Release(r) \/ Complete(r) PROVE Kept
    BY <2>4 DEF Release, ReleaseRow, Complete
  <2>5. QED
    BY <2>1, <2>2, <2>3, <2>4, QuietSteps
<1>2. QED
  BY <1>1, TypeCorrect, PTL DEF Spec, RecordedKeyIsKept

-----------------------------------------------------------------------------
(* Stock.                                                                  *)

\* A call of another key has worked on r's cart.
Contested(r) == \E s \in began : CartOf[s] = CartOf[r] /\ KeyOf[s] # KeyOf[r]

\* A call is past finalize_cart with an order, or its outcome is recorded.
Closing(r) ==
    /\ r \in orders
    /\ pc[r] \in {"enqueue", "complete"} \/ stored[KeyOf[r]] = r

\* From finalize_cart on, the stock of an order stays sold.
StockInv == \A r \in Call : Closing(r) => reservation[CartOf[r]] = "finalized" \/ Contested(r)

\* The other steps leave the reservations, the orders and the rows alone.
LEMMA StockSteps ==
  ASSUME TypeOK, [Next]_vars
  PROVE  \/ /\ UNCHANGED <<reservation, orders, stored>> /\ began \subseteq began'
            /\ \A r \in Call : pc'[r] \in {"enqueue", "complete"} => pc'[r] = pc[r]
         \/ \E r \in Call : \/ Reserve(r) \/ Undo(r) \/ PutOrder(r) \/ Finalize(r) \/ Enqueue(r)
                            \/ Complete(r)
<1> USE DEF TypeOK, stores, provider, Goto
<1> DEFINE Quiet == /\ UNCHANGED <<reservation, orders, stored>> /\ began \subseteq began'
                    /\ \A r \in Call : pc'[r] \in {"enqueue", "complete"} => pc'[r] = pc[r]
<1>1. ASSUME NEW r \in Call, Arrive(r) PROVE Quiet
  BY <1>1 DEF Arrive, Invalid, Claim, AlreadyInFlight, Replay
<1>2. ASSUME NEW r \in Call, SettleRead(r) \/ SettleWrite(r) \/ SettleFails(r) \/ Release(r)
      PROVE  Quiet
  BY <1>2 DEF SettleRead, SettleWrite, SettleFails, Release
<1>3. ASSUME NEW r \in Call, CheckPolicy(r) \/ Authorize(r) \/ Commit(r) \/ Capture(r)
      PROVE  Quiet
  BY <1>3 DEF CheckPolicy, Authorize, Commit, Capture
<1>4. ASSUME NEW r \in Call,
             GenerateReceipt(r) \/ PutPayState(r) \/ ProviderError(r) \/ Cancel(r)
      PROVE  Quiet
  BY <1>4 DEF GenerateReceipt, PutPayState, ProviderError, Cancel
<1>5. ASSUME NEW c \in Cart, MutateCart(c) PROVE Quiet
  BY <1>5 DEF MutateCart
<1>6. CASE UNCHANGED vars
  BY <1>6 DEF vars
<1>7. QED
  BY <1>1, <1>2, <1>3, <1>4, <1>5, <1>6 DEF Next, Step

\* Where claims are exclusive, the stock of a paid order stays sold: whoever
\* reserves or releases it after finalize_cart is a call of another key.
THEOREM SoldStockStaysSold == Spec => []SoldStaysSold
<1> USE CheckoutAssumption
<1>1. Init => StockInv
  BY DEF Init, StockInv, Closing
<1>2. /\ TypeOK /\ (Exclusive => ExclusiveClaims) /\ BackedInv /\ (Exclusive => StockInv)
      /\ [Next]_vars
      => (Exclusive => StockInv)'
  <2> SUFFICES ASSUME TypeOK, Exclusive => ExclusiveClaims, BackedInv, Exclusive => StockInv,
                      [Next]_vars, Exclusive'
               PROVE  StockInv'
    OBVIOUS
  <2> ExclusiveClaims /\ StockInv
    BY SettingStays DEF Exclusive
  <2> USE DEF TypeOK, StockInv, Closing, Contested, stores, provider, Goto
  <2>1. CASE /\ UNCHANGED <<reservation, orders, stored>> /\ began \subseteq began'
             /\ \A r \in Call : pc'[r] \in {"enqueue", "complete"} => pc'[r] = pc[r]
    BY <2>1
  <2>2. ASSUME NEW s \in Call, pc[s] \in {"reserve", "undo", "order", "finalize"}
        PROVE  /\ s \in began /\ stored[KeyOf[s]] # s
               /\ \A r \in Call : Closing(r) => KeyOf[r] # KeyOf[s]
    <3>1. s \in began /\ idem[KeyOf[s]] = "in_flight" /\ stored[KeyOf[s]] = None
      BY <2>2 DEF ExclusiveClaims, OneOwner, BegunOnce, RecordedOnce, Owning, Working, Unsettled
    <3>2. \A r \in Call : pc[r] \in {"enqueue", "complete"} => KeyOf[r] # KeyOf[s]
      BY <2>2 DEF ExclusiveClaims, OneOwner, Owning, Working
    <3>3. QED
      BY <3>1, <3>2
  <2>3. ASSUME NEW s \in Call, Reserve(s) PROVE StockInv'
    BY <2>2, <2>3 DEF Reserve
  <2>4. ASSUME NEW s \in Call, Undo(s) PROVE StockInv'
    <3>1. s \notin orders
      BY <2>4 DEF Undo, BackedInv, SoFar
    <3>2. QED
      BY <2>2, <2>4, <3>1 DEF Undo
  <2>5. ASSUME NEW s \in Call, PutOrder(s) PROVE StockInv'
    BY <2>2, <2>5 DEF PutOrder
  <2>6. ASSUME NEW s \in Call, Finalize(s) PROVE StockInv'
    BY <2>6 DEF Finalize
  <2>7. ASSUME NEW s \in Call, Enqueue(s) PROVE StockInv'
    BY <2>7 DEF Enqueue
  <2>8. ASSUME NEW s \in Call, Complete(s) PROVE StockInv'
    BY <2>8 DEF Complete
  <2>9. QED
    BY <2>1, <2>3, <2>4, <2>5, <2>6, <2>7, <2>8, StockSteps
<1>3. TypeOK /\ (Exclusive => ExclusiveClaims) /\ (Exclusive => StockInv) => SoldStaysSold
  BY DEF TypeOK, ExclusiveClaims, RecordedOnce, StockInv, Closing, Contested, SoldStaysSold
<1>4. QED
  BY <1>1, <1>2, <1>3, TypeCorrect, ClaimsAreExclusive, BackedInvHolds, PTL DEF Spec
=============================================================================
