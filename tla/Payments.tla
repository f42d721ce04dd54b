------------------------------ MODULE Payments ------------------------------
(***************************************************************************)
(* The payment lifecycle: what the provider did, what is recorded of it,   *)
(* and what a reconciliation pass reports.                                 *)
(*                                                                         *)
(* Capture, void and refund first call the provider and then, in a later   *)
(* await, put the new state in the payment-state store; a checkout does    *)
(* the same, after it has completed its idempotency key, so that the       *)
(* transaction can be operated on before its own put.  run_reconciliation  *)
(* reads, transaction by transaction, our record and then the provider.    *)
(***************************************************************************)
EXTENDS Naturals, FiniteSets

CONSTANTS
    Txn,       \* transactions
    Op,        \* calls to capture_payment, void_payment and refund_payment
    Nothing,   \* no record, no answer
    MaxFaults  \* bound: lost answers, dropped handlers, hidden store errors

ASSUME PaymentsAssumption ==
    /\ Nothing \notin {"Authorized", "Captured", "Voided", "Refunded", "Failed"}
    /\ Nothing \notin Txn
    /\ Txn \cap Op = {}   \* t stands for its own checkout beside its operations
    /\ MaxFaults \in Nat

State == {"Authorized", "Captured", "Voided", "Refunded", "Failed"}
Kind  == {"capture", "void", "refund"}

VARIABLES
    prov,    \* prov[t]: the provider's state of t
    ours,    \* ours[t]: the payment-state store's record of t
    cpc,     \* cpc[t]: the await t's own checkout is at
    result,  \* result[t]: the payment state its checkout will record
    opc,     \* opc[o]: the await operation o is at
    opTxn,   \* opTxn[o]: its transaction
    opKind,  \* opKind[o]: what it does
    left,    \* transactions the running pass has still to compare
    cur,     \* the transaction it is comparing
    read,    \* our record of cur, as read
    report,  \* the mismatches found
    asked,   \* the transactions the pass was asked about
    rpc,     \* "idle", "ours", "provider" or "done"
    past,    \* history: past[t], states the provider has been in
    last,    \* history: last[t], whom the provider obeyed last
    dirty,   \* history: transactions whose record was lost or may have been
             \* written in another order than the provider acted
    stirred, \* history: transactions that changed, or could not be read, since
             \* the pass began
    faults

provider  == <<prov, past, last>>
callers   == <<cpc, result, opc, opTxn, opKind>>
reconcile == <<asked, left, cur, read, report, rpc>>
vars      == <<provider, ours, callers, reconcile, dirty, stirred, faults>>

Init ==
    /\ prov = [t \in Txn |-> Nothing]
    /\ ours = [t \in Txn |-> Nothing]
    /\ cpc = [t \in Txn |-> "start"]
    /\ result = [t \in Txn |-> Nothing]
    /\ opc = [o \in Op |-> "start"]
    /\ opTxn \in [Op -> Txn]
    /\ opKind \in [Op -> Kind]
    /\ asked = {} /\ left = {} /\ cur = Nothing /\ read = Nothing /\ report = {} /\ rpc = "idle"
    /\ past = [t \in Txn |-> {}]
    /\ last = [t \in Txn |-> t]
    /\ dirty = {} /\ stirred = {}
    /\ faults = 0

\* Callers that acted on t at the provider and have not recorded it; t itself
\* stands for its checkout.
InFlight(t) ==
    {o \in Op : opTxn[o] = t /\ opc[o] = "put"}
        \cup (IF cpc[t] \in {"complete", "put"} THEN {t} ELSE {})

Stir(t) == stirred' = stirred \cup {t}

\* The provider obeys c, one of t's callers.
ProviderMoves(t, s, c) ==
    /\ prov' = [prov EXCEPT ![t] = s]
    /\ past' = [past EXCEPT ![t] = @ \cup {s}]
    /\ last' = [last EXCEPT ![t] = c]

\* c writes the record of t.  It is sound again when c is the one the provider
\* obeyed last and nobody else has still to write.
Put(t, s, c) ==
    /\ ours' = [ours EXCEPT ![t] = s]
    /\ dirty' = IF last[t] = c /\ InFlight(t) = {c} THEN dirty \ {t} ELSE dirty

Fault == faults < MaxFaults /\ faults' = faults + 1

-----------------------------------------------------------------------------
(* The checkout that creates the transaction.                              *)

\* authorize and capture.  A capture that is declined leaves the payment
\* authorized at the provider and the transaction Failed.
CheckoutPays(t) ==
    /\ cpc[t] = "start"
    /\ \/ /\ ProviderMoves(t, "Captured", t)
          /\ result' = [result EXCEPT ![t] = "Captured"]
       \/ /\ ProviderMoves(t, "Authorized", t)
          /\ result' = [result EXCEPT ![t] = "Failed"]
    /\ cpc' = [cpc EXCEPT ![t] = "complete"]
    /\ Stir(t)
    /\ UNCHANGED <<ours, opc, opTxn, opKind, reconcile, dirty, faults>>

\* The policy refuses, or the payment is not authorized: a transaction id the
\* provider never hears of, recorded as Failed.
CheckoutDeclined(t) ==
    /\ cpc[t] = "start"
    /\ result' = [result EXCEPT ![t] = "Failed"]
    /\ cpc' = [cpc EXCEPT ![t] = "complete"]
    /\ UNCHANGED <<provider, ours, opc, opTxn, opKind, reconcile, dirty, stirred, faults>>

\* idempotency.complete.  The order, which names the transaction, was stored and
\* announced before it.
CheckoutCompletes(t) ==
    /\ cpc[t] = "complete"
    /\ cpc' = [cpc EXCEPT ![t] = "put"]
    /\ UNCHANGED <<provider, ours, result, opc, opTxn, opKind, reconcile, dirty, stirred,
                   faults>>

\* payment_state_store.put.
CheckoutRecords(t) ==
    /\ cpc[t] = "put"
    /\ Put(t, result[t], t)
    /\ cpc' = [cpc EXCEPT ![t] = "done"]
    /\ Stir(t)
    /\ UNCHANGED <<provider, result, opc, opTxn, opKind, reconcile, faults>>

\* A step after the payment fails, the handler dies, or the store's put fails,
\* which it hides.
CheckoutLoses(t) ==
    /\ cpc[t] \in {"complete", "put"}
    /\ Fault
    /\ cpc' = [cpc EXCEPT ![t] = "done"]
    /\ dirty' = dirty \cup {t}
    /\ Stir(t)
    /\ UNCHANGED <<provider, ours, result, opc, opTxn, opKind, reconcile>>

-----------------------------------------------------------------------------
(* capture_payment, void_payment, refund_payment.                          *)

\* What the provider makes of each request, and when it agrees to it.
Target(k) ==
    CASE k = "capture" -> "Captured" [] k = "void" -> "Voided" [] k = "refund" -> "Refunded"

From(k) == IF k = "refund" THEN "Captured" ELSE "Authorized"

Callable(o) == opc[o] = "start" /\ cpc[opTxn[o]] # "start"

\* A repeated request is answered like the first one.
Agrees(o) == prov[opTxn[o]] \in {From(opKind[o]), Target(opKind[o])}

SetOp(o, label) == opc' = [opc EXCEPT ![o] = label]

\* The provider acts and answers success = true.
Succeeds(o) ==
    /\ Callable(o)
    /\ Agrees(o)
    /\ ProviderMoves(opTxn[o], Target(opKind[o]), o)
    /\ dirty' = IF InFlight(opTxn[o]) # {} THEN dirty \cup {opTxn[o]} ELSE dirty
    /\ SetOp(o, "put")
    /\ Stir(opTxn[o])
    /\ UNCHANGED <<ours, cpc, result, opTxn, opKind, reconcile, faults>>

\* Mutant: the answer's success flag is not looked at.
Refused_Records(o) ==
    /\ Callable(o)
    /\ SetOp(o, "put")
    /\ UNCHANGED <<provider, ours, cpc, result, opTxn, opKind, reconcile, dirty, stirred,
                   faults>>

\* It answers success = false, or an error without having acted.
Refused(o) ==
    /\ Callable(o)
    /\ SetOp(o, "done")
    /\ UNCHANGED <<provider, ours, cpc, result, opTxn, opKind, reconcile, dirty, stirred,
                   faults>>

\* It acts, but the answer is lost or does not parse.
AnswerLost(o) ==
    /\ Callable(o)
    /\ Agrees(o)
    /\ Fault
    /\ ProviderMoves(opTxn[o], Target(opKind[o]), o)
    /\ SetOp(o, "done")
    /\ dirty' = dirty \cup {opTxn[o]}
    /\ Stir(opTxn[o])
    /\ UNCHANGED <<ours, cpc, result, opTxn, opKind, reconcile>>

\* Mutant: the refund's branch records what the void's branch does.
Records_CopyPaste(o) ==
    /\ opc[o] = "put"
    /\ Put(opTxn[o], IF opKind[o] = "capture" THEN "Captured" ELSE "Voided", o)
    /\ SetOp(o, "done")
    /\ Stir(opTxn[o])
    /\ UNCHANGED <<provider, cpc, result, opTxn, opKind, reconcile, faults>>

\* payment_state_store.put.
Records(o) ==
    /\ opc[o] = "put"
    /\ Put(opTxn[o], Target(opKind[o]), o)
    /\ SetOp(o, "done")
    /\ Stir(opTxn[o])
    /\ UNCHANGED <<provider, cpc, result, opTxn, opKind, reconcile, faults>>

\* The handler is dropped before the put, or the store hides an error.
RecordLost(o) ==
    /\ opc[o] = "put"
    /\ Fault
    /\ SetOp(o, "done")
    /\ dirty' = dirty \cup {opTxn[o]}
    /\ Stir(opTxn[o])
    /\ UNCHANGED <<provider, ours, cpc, result, opTxn, opKind, reconcile>>

-----------------------------------------------------------------------------
(* run_reconciliation.                                                     *)

\* POST /ops/reconciliation with some transaction ids.
PassBegins ==
    /\ rpc = "idle"
    /\ asked' \in SUBSET Txn
    /\ left' = asked'
    /\ rpc' = "ours"
    /\ stirred' = {}
    /\ UNCHANGED <<provider, ours, callers, cur, read, report, dirty, faults>>

\* Mutant: the record read for the previous transaction is kept when there is
\* none.
ReadOurs_Stale ==
    /\ rpc = "ours"
    /\ \E t \in left :
         /\ left' = left \ {t}
         /\ cur' = t
         /\ read' = IF ours[t] = Nothing THEN read ELSE ours[t]
    /\ rpc' = "provider"
    /\ UNCHANGED <<provider, ours, callers, asked, report, dirty, stirred, faults>>

ReadOurs ==
    /\ rpc = "ours"
    /\ \E t \in left :
         /\ left' = left \ {t}
         /\ cur' = t
         /\ read' = ours[t]
    /\ rpc' = "provider"
    /\ UNCHANGED <<provider, ours, callers, asked, report, dirty, stirred, faults>>

\* get_payment_state answers, and the two are compared.
ReadProvider ==
    /\ rpc = "provider"
    /\ report' = IF read # Nothing /\ prov[cur] # Nothing /\ read # prov[cur]
                 THEN report \cup {cur} ELSE report
    /\ rpc' = "ours"
    /\ UNCHANGED <<provider, ours, callers, asked, left, cur, read, dirty, stirred, faults>>

\* get_payment_state fails, which reads as no state.
ProviderUnreadable ==
    /\ rpc = "provider"
    /\ Fault
    /\ rpc' = "ours"
    /\ Stir(cur)
    /\ UNCHANGED <<provider, ours, callers, asked, left, cur, read, report, dirty>>

PassEnds ==
    /\ rpc = "ours"
    /\ left = {}
    /\ rpc' = "done"
    /\ UNCHANGED <<provider, ours, callers, asked, left, cur, read, report, dirty, stirred,
                   faults>>

-----------------------------------------------------------------------------

Checkout(t) == CheckoutPays(t) \/ CheckoutDeclined(t) \/ CheckoutCompletes(t) \/ CheckoutRecords(t)
Operate(o)  == Succeeds(o) \/ Refused(o) \/ Records(o)
Pass        == ReadOurs \/ ReadProvider \/ PassEnds

Next ==
    \/ \E t \in Txn : Checkout(t) \/ CheckoutLoses(t)
    \/ \E o \in Op : Operate(o) \/ AnswerLost(o) \/ RecordLost(o)
    \/ PassBegins \/ Pass \/ ProviderUnreadable

Spec == Init /\ [][Next]_vars

-----------------------------------------------------------------------------
(* Properties.                                                             *)

\* Types; the pass never works on a transaction it was not asked about.
TypeOK ==
    /\ prov \in [Txn -> State \cup {Nothing}]
    /\ ours \in [Txn -> State \cup {Nothing}]
    /\ cpc \in [Txn -> {"start", "complete", "put", "done"}]
    /\ opc \in [Op -> {"start", "put", "done"}]
    /\ cur \in Txn \cup {Nothing}
    /\ read \in State \cup {Nothing}
    /\ rpc \in {"idle", "ours", "provider", "done"}
    /\ rpc = "provider" => cur \in Txn \ left

\* What is recorded once was so: the store never holds a state the provider
\* has not been in, apart from the checkout's own Failed, and the pass compares
\* transactions it was asked about, each once (TypeOK).
RecordWasTrue ==
    /\ TypeOK
    /\ \A t \in Txn : ours[t] \in past[t] \cup {Nothing, "Failed"}

\* Record and provider agree once every caller is done, unless a record was
\* lost or two callers recorded in another order than the provider acted (the
\* later put wins, whatever the provider did last); the next caller that works
\* alone heals both.  Failed stands for a declined capture or payment.
AgreesUnlessRaced ==
    \A t \in Txn :
        cpc[t] = "done" /\ InFlight(t) = {} /\ t \notin dirty
            => \/ ours[t] = prov[t]
               \/ ours[t] = "Failed" /\ prov[t] \in {"Authorized", Nothing}

\* A pass reports, of the transactions nothing disturbed since it began,
\* exactly those whose two states differ.  One that has no record, or is
\* unknown to the provider, is never reported.
ReportIsExact ==
    rpc = "done" =>
        \A t \in Txn \ stirred :
            t \in report <=> t \in asked /\ Nothing \notin {ours[t], prov[t]} /\ ours[t] # prov[t]
=============================================================================
