------------------------------ MODULE Checkout ------------------------------
(***************************************************************************)
(* Concurrent calls of Runner::execute_checkout over the shared stores     *)
(* (crates/orchestrator-runtime/src/runner.rs).                            *)
(*                                                                         *)
(* A call is one invocation of execute_checkout; a client's retries are    *)
(* calls with the same idempotency key.  The handler is an async function  *)
(* that holds no lock between its awaits, so every await is a step of its  *)
(* own and the calls interleave between them.  Transaction, order and      *)
(* message ids are fresh UUIDs minted by the call, so the model names each *)
(* by the call that minted it.                                             *)
(***************************************************************************)
EXTENDS Naturals

CONSTANTS
    Call,       \* the invocations of execute_checkout
    Key,        \* idempotency keys (tenant, merchant and key together)
    Cart,       \* carts
    KeyOf,      \* KeyOf[r]: the idempotency key call r carries
    CartOf,     \* CartOf[r]: the cart call r checks out
    Version,    \* cart versions a snapshot may hold (bounds MutateCart)
    Backends,   \* the idempotency stores that may stand behind the runner
    Faulty,     \* bound: of these, the ones considered with errors and cart commands
    None        \* no call

ASSUME CheckoutAssumption ==
    /\ KeyOf \in [Call -> Key]
    /\ CartOf \in [Call -> Cart]
    /\ Version \subseteq Nat
    /\ 1 \in Version
    /\ Faulty \subseteq Backends
    /\ Backends \subseteq {"memory", "file", "postgres"}
    /\ None \notin Call

VARIABLES
    backend,     \* the idempotency store the runner was started with
    calm,        \* whether no provider call fails and no call is cut short
    \* the stores
    idem,        \* idem[k]: state of the idempotency row of k
    stored,      \* stored[k]: the call whose result a completed row holds
    version,     \* version[c]: the version in the stored snapshot of cart c
    reservation, \* reservation[c]: state of the reservations held for cart c
    commits,     \* commits[c]: the call whose commit record cart c holds
    orders,      \* calls whose order record is stored
    outbox,      \* calls whose order.created message was enqueued
    payState,    \* payState[r]: payment state stored for r's transaction
    \* the payment provider
    authorized,  \* calls whose payment the provider authorized
    captured,    \* calls whose payment the provider captured
    \* the calls
    pc,          \* pc[r]: the await call r is at
    copy,        \* copy[r]: the version in the snapshot r read
    result,      \* result[r]: the TransactionResult r built
    reply,       \* reply[r]: the call whose result r returned to its caller
    began        \* history: calls that went past settlement

stores   == <<idem, stored, version, reservation, commits, orders, outbox, payState>>
provider == <<authorized, captured>>
setting  == <<backend, calm>>
vars     == <<stores, provider, pc, copy, result, reply, began, setting>>

Results == {"rejected", "auth_failed", "captured", "capture_failed"}

\* The awaits of execute_checkout, in order; "undo" and "release" are the
\* clean-up awaits of its early returns.
Working == {"settle", "settled", "release", "reserve", "policy", "authorize",
            "undo", "commit", "capture", "order", "receipt", "finalize",
            "enqueue", "complete", "pay_state"}

\* Where nothing has been reserved or charged yet; where the call owns its claim.
Unsettled == {"settle", "settled", "release"}
Owning    == Working \ {"pay_state"}

Init ==
    /\ backend \in Backends
    /\ calm \in BOOLEAN
    /\ calm \/ backend \in Faulty
    /\ idem = [k \in Key |-> "absent"]
    /\ stored = [k \in Key |-> None]
    /\ version = [c \in Cart |-> 1]
    /\ reservation = [c \in Cart |-> "absent"]
    /\ commits = [c \in Cart |-> None]
    /\ orders = {}
    /\ outbox = {}
    /\ payState = [r \in Call |-> "absent"]
    /\ authorized = {}
    /\ captured = {}
    /\ pc = [r \in Call |-> "idle"]
    /\ copy = [r \in Call |-> 1]
    /\ result = [r \in Call |-> "none"]
    /\ reply = [r \in Call |-> None]
    /\ began = {}

\* One call at a time is told that the key is its own.
Exclusive == backend # "postgres"

Goto(r, label) == pc' = [pc EXCEPT ![r] = label]

-----------------------------------------------------------------------------
(* The claim.                                                              *)

\* validate_checkout_request refuses the request before anything is claimed.
Invalid(r) ==
    /\ pc[r] = "idle"
    /\ Goto(r, "done")
    /\ UNCHANGED <<stores, provider, copy, result, reply, began>>

\* Mutant: an InFlight row is claimed again.
Claimable_IgnoresInFlight(k) == idem[k] # "completed"

\* IdempotencyStore::claim answers None: the call owns the key.  The memory and
\* file stores insert only when the row is missing; the Postgres store inserts
\* ON CONFLICT DO NOTHING and answers None for any row that reads back InFlight.
Claimable(k) ==
    \/ idem[k] = "absent"
    \/ ~Exclusive /\ idem[k] = "in_flight"

Claim(r) ==
    /\ pc[r] = "idle"
    /\ Claimable(KeyOf[r])
    /\ idem' = [idem EXCEPT ![KeyOf[r]] = "in_flight"]
    /\ Goto(r, "settle")
    /\ UNCHANGED <<stored, version, reservation, commits, orders, outbox, payState,
                   provider, copy, result, reply, began>>

\* The row is InFlight: the call fails with AlreadyInFlight.
AlreadyInFlight(r) ==
    /\ pc[r] = "idle"
    /\ idem[KeyOf[r]] = "in_flight"
    /\ ~Claimable(KeyOf[r])
    /\ Goto(r, "done")
    /\ UNCHANGED <<stores, provider, copy, result, reply, began>>

\* The row is Completed: the call returns the stored result.
Replay(r) ==
    /\ pc[r] = "idle"
    /\ idem[KeyOf[r]] = "completed"
    /\ reply' = [reply EXCEPT ![r] = stored[KeyOf[r]]]
    /\ Goto(r, "done")
    /\ UNCHANGED <<stores, provider, copy, result, began>>

-----------------------------------------------------------------------------
(* settle_cart_for_checkout.                                               *)

\* Mutant: a failed settlement returns without releasing the claim.
SettleFails_KeepsClaim(r) ==
    /\ pc[r] \in {"settle", "settled"}
    /\ Goto(r, "done")
    /\ UNCHANGED <<stores, provider, copy, result, reply, began>>

\* No snapshot, another tenant's cart, a version conflict, or a pricing, tax,
\* promotion or geo provider error: nothing has been written.
SettleFails(r) ==
    /\ pc[r] \in {"settle", "settled"}
    /\ Goto(r, "release")
    /\ UNCHANGED <<stores, provider, copy, result, reply, began>>

\* The snapshot is read; its version is the one the request names.
SettleRead(r) ==
    /\ pc[r] = "settle"
    /\ copy' = [copy EXCEPT ![r] = version[CartOf[r]]]
    /\ Goto(r, "settled")
    /\ UNCHANGED <<stores, provider, result, reply, began>>

\* The repriced copy is written back, whatever the store holds by now; then
\* the destination or the amount may still be refused.
SettleWrite(r) ==
    /\ pc[r] = "settled"
    /\ version' = [version EXCEPT ![CartOf[r]] = copy[r]]
    /\ \/ Goto(r, "release") /\ UNCHANGED began
       \/ Goto(r, "reserve") /\ began' = began \cup {r}
    /\ UNCHANGED <<idem, stored, reservation, commits, orders, outbox, payState,
                   provider, copy, result, reply>>

\* Mutant: release drops the row whatever it holds.
ReleaseRow_DropsCompleted(k) == "absent"

\* IdempotencyStore::release: only an InFlight row is dropped.
ReleaseRow(k) == IF idem[k] = "in_flight" THEN "absent" ELSE idem[k]

\* Settlement failed: the claim is released and the error returned.
Release(r) ==
    /\ pc[r] = "release"
    /\ idem' = [idem EXCEPT ![KeyOf[r]] = ReleaseRow(KeyOf[r])]
    /\ Goto(r, "done")
    /\ UNCHANGED <<stored, version, reservation, commits, orders, outbox, payState,
                   provider, copy, result, reply, began>>

\* A cart command that ran to its end meanwhile stored a later version.
MutateCart(c) ==
    /\ backend \in Faulty
    /\ version[c] + 1 \in Version
    /\ version' = [version EXCEPT ![c] = @ + 1]
    /\ UNCHANGED <<idem, stored, reservation, commits, orders, outbox, payState,
                   provider, pc, copy, result, reply, began>>

-----------------------------------------------------------------------------
(* From the reservation to the provider's answer.                          *)

\* Every line of the cart is reserved; an existing record is overwritten.  The
\* records of a cart are taken together, and the carts here have lines.
Reserve(r) ==
    /\ pc[r] = "reserve"
    /\ reservation' = [reservation EXCEPT ![CartOf[r]] = "reserved"]
    /\ Goto(r, "policy")
    /\ UNCHANGED <<idem, stored, version, commits, orders, outbox, payState,
                   provider, copy, result, reply, began>>

\* Mutant: a rejected checkout keeps its stock reserved.
CheckPolicy_KeepsStock(r) ==
    /\ pc[r] = "policy"
    /\ \/ /\ result' = [result EXCEPT ![r] = "rejected"]
          /\ Goto(r, "complete")
       \/ Goto(r, "authorize") /\ UNCHANGED result
    /\ UNCHANGED <<stores, provider, copy, reply, began>>

\* PolicyEngine::check_checkout rejects or allows; it reads no shared state.
CheckPolicy(r) ==
    /\ pc[r] = "policy"
    /\ \/ /\ result' = [result EXCEPT ![r] = "rejected"]
          /\ Goto(r, "undo")
       \/ Goto(r, "authorize") /\ UNCHANGED result
    /\ UNCHANGED <<stores, provider, copy, reply, began>>

\* The provider answers: it authorizes the payment, or declines it.
Authorize(r) ==
    /\ pc[r] = "authorize"
    /\ \/ /\ authorized' = authorized \cup {r}
          /\ Goto(r, "commit")
          /\ UNCHANGED result
       \/ /\ result' = [result EXCEPT ![r] = "auth_failed"]
          /\ Goto(r, "undo")
          /\ UNCHANGED authorized
    /\ UNCHANGED <<stores, captured, copy, reply, began>>

\* Rejected or declined: release_cart marks every record of the cart, whatever
\* its state.  A record is there: this call reserved it.
Undo(r) ==
    /\ pc[r] = "undo"
    /\ reservation' = [reservation EXCEPT ![CartOf[r]] = "released"]
    /\ Goto(r, "complete")
    /\ UNCHANGED <<idem, stored, version, commits, orders, outbox, payState,
                   provider, copy, result, reply, began>>

\* CommitStore::commit: a record with a fresh transaction id replaces the cart's.
Commit(r) ==
    /\ pc[r] = "commit"
    /\ commits' = [commits EXCEPT ![CartOf[r]] = r]
    /\ Goto(r, "capture")
    /\ UNCHANGED <<idem, stored, version, reservation, orders, outbox, payState,
                   provider, copy, result, reply, began>>

\* The provider captures, or answers success = false; the checkout completes
\* either way and only the payment state of its result tells them apart.
Capture(r) ==
    /\ pc[r] = "capture"
    /\ \/ /\ captured' = captured \cup {r}
          /\ result' = [result EXCEPT ![r] = "captured"]
       \/ /\ result' = [result EXCEPT ![r] = "capture_failed"]
          /\ UNCHANGED captured
    /\ Goto(r, "order")
    /\ UNCHANGED <<stores, authorized, copy, reply, began>>

-----------------------------------------------------------------------------
(* Recording the outcome.                                                  *)

PutOrder(r) ==
    /\ pc[r] = "order"
    /\ orders' = orders \cup {r}
    /\ Goto(r, "receipt")
    /\ UNCHANGED <<idem, stored, version, reservation, commits, outbox, payState,
                   provider, copy, result, reply, began>>

\* Mutant: the reservation is not finalized.
GenerateReceipt_SkipsFinalize(r) ==
    /\ pc[r] = "receipt"
    /\ Goto(r, "enqueue")
    /\ UNCHANGED <<stores, provider, copy, result, reply, began>>

GenerateReceipt(r) ==
    /\ pc[r] = "receipt"
    /\ Goto(r, "finalize")
    /\ UNCHANGED <<stores, provider, copy, result, reply, began>>

\* Mutant: the outcome is recorded before the event is enqueued, and the event
\* is then forgotten.
Finalize_SkipsOutbox(r) ==
    /\ pc[r] = "finalize"
    /\ reservation' = [reservation EXCEPT ![CartOf[r]] = "finalized"]
    /\ Goto(r, "complete")
    /\ UNCHANGED <<idem, stored, version, commits, orders, outbox, payState,
                   provider, copy, result, reply, began>>

\* finalize_cart marks every record of the cart, whatever its state.
Finalize(r) ==
    /\ pc[r] = "finalize"
    /\ reservation' = [reservation EXCEPT ![CartOf[r]] = "finalized"]
    /\ Goto(r, "enqueue")
    /\ UNCHANGED <<idem, stored, version, commits, orders, outbox, payState,
                   provider, copy, result, reply, began>>

Enqueue(r) ==
    /\ pc[r] = "enqueue"
    /\ outbox' = outbox \cup {r}
    /\ Goto(r, "complete")
    /\ UNCHANGED <<idem, stored, version, reservation, commits, orders, payState,
                   provider, copy, result, reply, began>>

\* IdempotencyStore::complete overwrites the row unconditionally.
Complete(r) ==
    /\ pc[r] = "complete"
    /\ idem' = [idem EXCEPT ![KeyOf[r]] = "completed"]
    /\ stored' = [stored EXCEPT ![KeyOf[r]] = r]
    /\ Goto(r, "pay_state")
    /\ UNCHANGED <<version, reservation, commits, orders, outbox, payState,
                   provider, copy, result, reply, began>>

\* PaymentStateStore::put, then the result goes back to the caller.
PutPayState(r) ==
    /\ pc[r] = "pay_state"
    /\ payState' = [payState EXCEPT
                      ![r] = IF result[r] = "captured" THEN "captured" ELSE "failed"]
    /\ reply' = [reply EXCEPT ![r] = r]
    /\ Goto(r, "done")
    /\ UNCHANGED <<idem, stored, version, reservation, commits, orders, outbox,
                   provider, copy, result, began>>

-----------------------------------------------------------------------------
(* Failures.                                                               *)

\* Mutant: an error of the provider hands the key back although the payment
\* may have gone through.
ProviderError_ReleasesClaim(r) ==
    /\ ~calm
    /\ pc[r] \in {"authorize", "capture", "receipt"}
    /\ idem' = [idem EXCEPT ![KeyOf[r]] = "absent"]
    /\ Goto(r, "done")
    /\ UNCHANGED <<stored, version, reservation, commits, orders, outbox, payState,
                   provider, copy, result, reply, began>>

\* authorize, capture or generate returns Err and the `?` leaves at once: the
\* claim stays InFlight and nothing is undone.  A request that timed out may
\* have had its effect at the provider all the same.
ProviderError(r) ==
    /\ ~calm
    /\ \/ pc[r] = "authorize" /\ authorized' \in {authorized, authorized \cup {r}}
                               /\ UNCHANGED captured
       \/ pc[r] = "capture" /\ captured' \in {captured, captured \cup {r}}
                             /\ UNCHANGED authorized
       \/ pc[r] = "receipt" /\ UNCHANGED provider
    /\ Goto(r, "done")
    /\ UNCHANGED <<stores, copy, result, reply, began>>

\* The handler's future is dropped at an await (the client hung up, the replica
\* is gone) or a store call fails and the `?` leaves: nothing is undone.  The
\* rows stay as they are; a file that a crash tears is in Stores.
Cancel(r) ==
    /\ ~calm
    /\ pc[r] \in Working
    /\ Goto(r, "done")
    /\ UNCHANGED <<stores, provider, copy, result, reply, began>>

-----------------------------------------------------------------------------

\* The steps a call takes on its own, once it has claimed its key.
Step(r) ==
    \/ SettleRead(r) \/ SettleWrite(r) \/ SettleFails(r) \/ Release(r)
    \/ Reserve(r) \/ CheckPolicy(r) \/ Authorize(r) \/ Undo(r)
    \/ Commit(r) \/ Capture(r)
    \/ PutOrder(r) \/ GenerateReceipt(r) \/ Finalize(r) \/ Enqueue(r)
    \/ Complete(r) \/ PutPayState(r)

Arrive(r) == Invalid(r) \/ Claim(r) \/ AlreadyInFlight(r) \/ Replay(r)

Next ==
    /\ \/ \E r \in Call : Arrive(r) \/ Step(r) \/ ProviderError(r) \/ Cancel(r)
       \/ \E c \in Cart : MutateCart(c)
    /\ UNCHANGED setting

Spec == Init /\ [][Next]_vars

\* The runtime polls every handler whose await has completed; it need not
\* receive a call, and nothing makes a provider fail or a client hang up.
FairSpec == Spec /\ \A r \in Call : WF_vars(Step(r) /\ UNCHANGED setting)

-----------------------------------------------------------------------------
(* Properties.                                                             *)

\* Every row of the stores and every local variable of execute_checkout keeps
\* to the states its type in the code has; no reservation is left in a state
\* that neither release_cart nor finalize_cart writes.
TypeOK ==
    /\ backend \in Backends
    /\ calm \in BOOLEAN
    /\ idem \in [Key -> {"absent", "in_flight", "completed"}]
    /\ stored \in [Key -> Call \cup {None}]
    /\ version \in [Cart -> Version]
    /\ reservation \in [Cart -> {"absent", "reserved", "released", "finalized"}]
    /\ commits \in [Cart -> Call \cup {None}]
    /\ orders \subseteq Call
    /\ outbox \subseteq Call
    /\ payState \in [Call -> {"absent", "captured", "failed"}]
    /\ authorized \subseteq Call
    /\ captured \subseteq Call
    /\ pc \in [Call -> Working \cup {"idle", "done"}]
    /\ copy \in [Call -> Version]
    /\ result \in [Call -> Results \cup {"none"}]
    /\ reply \in [Call -> Call \cup {None}]
    /\ began \subseteq Call

\* In-flight deduplication: of all the calls that carry one idempotency key, at
\* most one ever reserves stock, talks to the payment provider, stores an order
\* or enqueues an event, whatever the others do and however it ends.  The docs
\* say so of every store.
Deduplicated ==
    LET acted == authorized \cup captured \cup orders \cup outbox
    IN  \A r, s \in began \cup acted : KeyOf[r] = KeyOf[s] => r = s

\* In-flight deduplication where claim hands a key to one call at a time, in the
\* memory and file stores.
OneExecutionPerKey == Exclusive => Deduplicated

\* Two callers who were both given a result under one key were given the same
\* transaction, one from its own run and the other from the idempotency row,
\* where claims are exclusive.
SameAnswer ==
    \A r, s \in Call :
        Exclusive /\ KeyOf[r] = KeyOf[s] /\ reply[r] # None /\ reply[s] # None
            => reply[r] = reply[s]

\* What stands behind the result of call q.
Backed(q) ==
    /\ result[q] \in {"captured", "capture_failed"} =>
          q \in authorized /\ q \in orders /\ q \in outbox
    /\ result[q] = "captured" <=> q \in captured
    /\ result[q] \in {"rejected", "auth_failed"} =>
          q \notin authorized /\ q \notin orders /\ q \notin outbox
    /\ result[q] # "none"

\* A result that is recorded under a key or was given to a caller is backed by
\* the stores: a completed checkout has its payment authorized, its order
\* stored and its order.created event enqueued; it says "captured" exactly if
\* the provider captured; and a refused one has no order, event or capture.
AnswerIsBacked ==
    /\ \A k \in Key : idem[k] = "completed" => stored[k] \in Call /\ Backed(stored[k])
    /\ \A r \in Call : reply[r] # None => Backed(reply[r])

\* The stock of a paid order stays sold: once a key records a completed
\* checkout, the cart's reservation is finalized, unless a call with another
\* key, or one that shares the claim in Postgres, has checked out the same cart.
SoldStaysSold ==
    \A k \in Key :
        Exclusive /\ idem[k] = "completed" /\ stored[k] \in orders =>
            LET c == CartOf[stored[k]]
            IN  \/ reservation[c] = "finalized"
                \/ \E r \in began : CartOf[r] = c /\ KeyOf[r] # k

\* A call that owns its claim holds the row InFlight, and owns it alone.
OneOwner ==
    /\ \A r \in Call : pc[r] \in Owning => idem[KeyOf[r]] = "in_flight"
    /\ \A r, s \in Call :
          pc[r] \in Owning /\ pc[s] \in Owning /\ KeyOf[r] = KeyOf[s] => r = s

\* Once a call of a key has gone past settlement, the row is never absent again
\* and no other call of the key owns it or goes past settlement.
BegunOnce ==
    /\ \A r \in Call : pc[r] \in Unsettled \cup {"idle"} => r \notin began
    /\ \A r \in Call : pc[r] \in Working \ Unsettled => r \in began
    /\ authorized \cup captured \cup orders \cup outbox \subseteq began
    /\ \A r \in began : idem[KeyOf[r]] # "absent"
    /\ \A r \in began, s \in Call : pc[s] \in Owning /\ KeyOf[r] = KeyOf[s] => r = s
    /\ \A r, s \in began : KeyOf[r] = KeyOf[s] => r = s

\* A completed row holds the result of the call that went past settlement, and
\* whoever was answered was answered from the row.
RecordedOnce ==
    /\ \A k \in Key : stored[k] # None => idem[k] = "completed"
    /\ \A k \in Key : idem[k] = "completed" => stored[k] \in began /\ KeyOf[stored[k]] = k
    /\ \A r \in Call : pc[r] = "pay_state" => stored[KeyOf[r]] = r
    /\ \A r \in Call : pc[r] # "done" => reply[r] = None
    /\ \A r \in Call : reply[r] # None => reply[r] = stored[KeyOf[r]]

\* Where claims are exclusive, a key has one owner at a time and, once a call of
\* it has gone past settlement, no other owner ever; its outcome is the only one
\* recorded and returned.  This is why execute_checkout releases a claim only
\* when settlement failed.  The conjunction is inductive.
ExclusiveClaims == OneOwner /\ BegunOnce /\ RecordedOnce

\* Once a key's outcome is recorded it is never changed or forgotten: neither a
\* late release nor a second completion touches the row, where claims are
\* exclusive.
OutcomeIsFinal ==
    [][\A k \in Key : Exclusive /\ idem[k] = "completed" =>
          idem'[k] = "completed" /\ stored'[k] = stored[k]]_vars

\* A recorded key stays recorded, also where claims are not exclusive: a call
\* whose settlement fails while another call of its key completes does not drop
\* the row, so later retries are still answered from it.
RecordedKeyIsKept ==
    [][\A k \in Key : idem[k] = "completed" => idem'[k] = "completed"]_vars

\* A claimed key does not stay InFlight for ever: it is completed, or released
\* so that the caller can retry; unless a provider failed or a call was cut short.
ClaimIsSettled ==
    \A k \in Key : calm /\ idem[k] = "in_flight" ~> idem[k] # "in_flight"

\* Reserved stock is either sold or given back: a checkout that is rejected,
\* declined or completed passes release_cart or finalize_cart.  The exits by `?`
\* after the reservation (authorize, commit, capture, order, receipt) pass
\* neither, which is why an error or a dropped handler is excepted.
StockIsSettled ==
    \A c \in Cart : calm /\ reservation[c] = "reserved" ~> reservation[c] # "reserved"

\* The call that does the work of key k: the one that went past settlement.
Executor(k) ==
    IF \E r \in began : KeyOf[r] = k
    THEN CHOOSE r \in began : KeyOf[r] = k
    ELSE None

\* Of a store whose claims are shared nothing is shown.
Shown(f) == IF Exclusive THEN f ELSE [x \in DOMAIN f |-> None]

Abs == INSTANCE IdempotentExecution WITH
           executor <- Shown([k \in Key |-> Executor(k)]),
           answer   <- Shown(stored),
           reply    <- Shown(reply)

\* execute_checkout implements IdempotentExecution where claims are exclusive: the
\* executor of a key is the call that went past settlement, the answer is the
\* completed row.
ImplementsIdempotentExecution == Abs!AbsSpec
=============================================================================
