--------------------------- MODULE PaymentsProofs ---------------------------
(***************************************************************************)
(* Proofs about Payments, for any number of transactions, operations and   *)
(* faults.                                                                 *)
(***************************************************************************)
EXTENDS Payments, TLAPS

\* The types of the variables TypeOK leaves out.
MoreTypes ==
    /\ result \in [Txn -> State \cup {Nothing}]
    /\ opTxn \in [Op -> Txn]
    /\ opKind \in [Op -> Kind]
    /\ asked \subseteq Txn
    /\ left \subseteq Txn
    /\ report \subseteq Txn
    /\ past \in [Txn -> SUBSET State]
    /\ last \in [Txn -> Txn \cup Op]
    /\ dirty \subseteq Txn
    /\ stirred \subseteq Txn

\* Whoever has still to record something the provider did it for.
Promised ==
    /\ \A t \in Txn : cpc[t] \in {"complete", "put"} => result[t] \in past[t] \cup {"Failed"}
    /\ \A o \in Op : opc[o] = "put" => Target(opKind[o]) \in past[opTxn[o]]

TrueInv == TypeOK /\ MoreTypes /\ RecordWasTrue /\ Promised

\* What a request makes of a transaction is a state, and no failure.
LEMMA TargetType ==
  ASSUME NEW k \in Kind
  PROVE  Target(k) \in State
BY DEF Target, Kind, State

\* The inductive invariant behind the three theorems of this module.
LEMMA TrueInvHolds == Spec => []TrueInv
<1> USE PaymentsAssumption
<1>1. Init => TrueInv
  BY DEF Init, TrueInv, TypeOK, MoreTypes, RecordWasTrue, Promised, State
<1>2. TrueInv /\ [Next]_vars => TrueInv'
  <2> SUFFICES ASSUME TrueInv, [Next]_vars PROVE TrueInv'
    OBVIOUS
  <2> USE DEF TrueInv, TypeOK, MoreTypes, RecordWasTrue, Promised,
              provider, callers, reconcile, Stir, Fault
  <2>1. ASSUME NEW t \in Txn, CheckoutPays(t) PROVE TrueInv'
    BY <2>1 DEF CheckoutPays, ProviderMoves, State
  <2>2. ASSUME NEW t \in Txn, CheckoutDeclined(t) PROVE TrueInv'
    BY <2>2 DEF CheckoutDeclined, State
  <2>3. ASSUME NEW t \in Txn, CheckoutCompletes(t) PROVE TrueInv'
    BY <2>3 DEF CheckoutCompletes
  <2>4. ASSUME NEW t \in Txn, CheckoutRecords(t) PROVE TrueInv'
    BY <2>4 DEF CheckoutRecords, Put
  <2>5. ASSUME NEW t \in Txn, CheckoutLoses(t) PROVE TrueInv'
    BY <2>5 DEF CheckoutLoses
  <2>6. ASSUME NEW o \in Op, Succeeds(o) PROVE TrueInv'
    BY <2>6, TargetType DEF Succeeds, ProviderMoves, SetOp
  <2>7. ASSUME NEW o \in Op, Refused(o) PROVE TrueInv'
    BY <2>7 DEF Refused, SetOp
  <2>8. ASSUME NEW o \in Op, AnswerLost(o) PROVE TrueInv'
    BY <2>8, TargetType DEF AnswerLost, ProviderMoves, SetOp
  <2>9. ASSUME NEW o \in Op, Records(o) PROVE TrueInv'
    BY <2>9, TargetType DEF Records, Put, SetOp
  <2>10. ASSUME NEW o \in Op, RecordLost(o) PROVE TrueInv'
    BY <2>10 DEF RecordLost, SetOp
  <2>11. CASE PassBegins
    BY <2>11 DEF PassBegins
  <2>12. CASE ReadOurs
    BY <2>12 DEF ReadOurs
  <2>13. CASE ReadProvider
    BY <2>13 DEF ReadProvider
  <2>14. CASE ProviderUnreadable
    BY <2>14 DEF ProviderUnreadable
  <2>15. CASE PassEnds
    BY <2>15 DEF PassEnds
  <2>16. CASE UNCHANGED vars
    BY <2>16 DEF vars
  <2>17. QED
    BY <2>1, <2>2, <2>3, <2>4, <2>5, <2>6, <2>7, <2>8, <2>9, <2>10, <2>11, <2>12, <2>13,
       <2>14, <2>15, <2>16 DEF Next, Checkout, Operate, Pass
<1>3. QED
  BY <1>1, <1>2, PTL DEF Spec

\* What is recorded the provider once did: no record is made of a refused
\* request or for another transaction, whatever is lost, raced or dropped.
THEOREM RecordsWereTrue == Spec => []RecordWasTrue
<1>1. TrueInv => RecordWasTrue
  BY DEF TrueInv
<1>2. QED
  BY <1>1, TrueInvHolds, PTL

-----------------------------------------------------------------------------
(* Record and provider.                                                    *)

\* A record s of t that needs no reconciliation.
Matches(t, s) == s = prov[t] \/ (s = "Failed" /\ prov[t] \in {"Authorized", Nothing})

\* Nobody acts on a transaction before its checkout has paid.
Fresh ==
    \A t \in Txn : cpc[t] = "start" =>
        prov[t] = Nothing /\ ours[t] = Nothing /\ last[t] = t /\ InFlight(t) = {}

\* Whom the provider obeyed last will record what the provider now says.
LastIsRight ==
    /\ \A t \in Txn : cpc[t] \in {"complete", "put"} /\ last[t] = t => Matches(t, result[t])
    /\ \A o \in Op :
         opc[o] = "put" /\ last[opTxn[o]] = o => prov[opTxn[o]] = Target(opKind[o])

\* Of a transaction that is not dirty nobody but that one has still to record.
CleanIsLast == \A t \in Txn \ dirty : \A c \in InFlight(t) : last[t] = c

OrderInv == Fresh /\ LastIsRight /\ CleanIsLast /\ AgreesUnlessRaced

\* Once all callers are done, a record differs from the provider's state only if
\* an answer or a record was lost or two callers raced: the only other
\* difference is a checkout that failed with the payment authorized or unknown.
THEOREM AgreeUnlessRaced == Spec => []AgreesUnlessRaced
<1> USE PaymentsAssumption
<1>1. Init => OrderInv
  BY DEF Init, OrderInv, Fresh, LastIsRight, CleanIsLast, AgreesUnlessRaced, InFlight
<1>2. TrueInv /\ OrderInv /\ [Next]_vars => OrderInv'
  <2> SUFFICES ASSUME TrueInv, OrderInv, [Next]_vars PROVE OrderInv'
    OBVIOUS
  <2>0. /\ opTxn \in [Op -> Txn] /\ opKind \in [Op -> Kind]
        /\ prov \in [Txn -> State \cup {Nothing}] /\ ours \in [Txn -> State \cup {Nothing}]
        /\ cpc \in [Txn -> {"start", "complete", "put", "done"}]
        /\ opc \in [Op -> {"start", "put", "done"}]
        /\ result \in [Txn -> State \cup {Nothing}]
        /\ last \in [Txn -> Txn \cup Op]
        /\ dirty \subseteq Txn
    BY DEF TrueInv, TypeOK, MoreTypes
  <2> USE <2>0 DEF OrderInv, Fresh, LastIsRight, CleanIsLast, AgreesUnlessRaced, InFlight, Matches,
                   provider, callers, reconcile
  <2>1. ASSUME NEW t \in Txn, CheckoutPays(t) PROVE OrderInv'
    BY <2>1 DEF CheckoutPays, ProviderMoves
  <2>2. ASSUME NEW t \in Txn, CheckoutDeclined(t) PROVE OrderInv'
    BY <2>2 DEF CheckoutDeclined
  <2>3. ASSUME NEW t \in Txn, CheckoutCompletes(t) PROVE OrderInv'
    BY <2>3 DEF CheckoutCompletes
  <2>4. ASSUME NEW t \in Txn, CheckoutRecords(t) PROVE OrderInv'
    BY <2>4 DEF CheckoutRecords, Put
  <2>5. ASSUME NEW t \in Txn, CheckoutLoses(t) PROVE OrderInv'
    BY <2>5 DEF CheckoutLoses
  <2>6. ASSUME NEW o \in Op, Succeeds(o) PROVE OrderInv'
    BY <2>6 DEF Succeeds, Callable, ProviderMoves, SetOp
  <2>7. ASSUME NEW o \in Op, Refused(o) PROVE OrderInv'
    BY <2>7 DEF Refused, Callable, SetOp
  <2>8. ASSUME NEW o \in Op, AnswerLost(o) PROVE OrderInv'
    BY <2>8 DEF AnswerLost, Callable, ProviderMoves, SetOp
  <2>9. ASSUME NEW o \in Op, Records(o) PROVE OrderInv'
    BY <2>9 DEF Records, Put, SetOp
  <2>10. ASSUME NEW o \in Op, RecordLost(o) PROVE OrderInv'
    BY <2>10 DEF RecordLost, SetOp
  <2>11. CASE PassBegins \/ Pass \/ ProviderUnreadable
    BY <2>11 DEF PassBegins, Pass, ReadOurs, ReadProvider, PassEnds, ProviderUnreadable
  <2>12. CASE UNCHANGED vars
    BY <2>12 DEF vars
  <2>13. QED
    BY <2>1, <2>2, <2>3, <2>4, <2>5, <2>6, <2>7, <2>8, <2>9, <2>10, <2>11, <2>12
       DEF Next, Checkout, Operate
<1>3. OrderInv => AgreesUnlessRaced
  BY DEF OrderInv
<1>4. QED
  BY <1>1, <1>2, <1>3, TrueInvHolds, PTL DEF Spec

-----------------------------------------------------------------------------
(* The report.                                                             *)

Differ(t) == Nothing \notin {ours[t], prov[t]} /\ ours[t] # prov[t]

\* How far the pass has come with a transaction nothing has disturbed.
PassInv ==
    /\ rpc = "idle" => report = {}
    /\ rpc = "done" => left = {}
    /\ left \subseteq asked
    /\ rpc = "provider" => cur \in asked \ left
    /\ rpc # "idle" =>
         \A t \in Txn \ stirred :
            IF t \in left \/ t \notin asked THEN t \notin report
            ELSE IF rpc = "provider" /\ t = cur THEN t \notin report /\ read = ours[t]
            ELSE t \in report <=> Differ(t)

\* A finished pass has reported, of the transactions nothing disturbed since it
\* began, exactly those it was asked about whose two states differ: the record
\* and the provider are read at different times, but the comparison is of one
\* transaction's own two states.
THEOREM ReportsAreExact == Spec => []ReportIsExact
<1> USE PaymentsAssumption
<1>1. Init => PassInv
  BY DEF Init, PassInv
<1>2. TrueInv /\ PassInv /\ [Next]_vars => PassInv'
  <2> SUFFICES ASSUME TrueInv, PassInv, [Next]_vars PROVE PassInv'
    OBVIOUS
  <2> USE DEF TrueInv, TypeOK, MoreTypes, PassInv, Differ, reconcile, Stir
  <2>1. ASSUME NEW t \in Txn, Checkout(t) \/ CheckoutLoses(t) PROVE PassInv'
    BY <2>1 DEF Checkout, CheckoutPays, CheckoutDeclined, CheckoutCompletes, CheckoutRecords,
                CheckoutLoses, ProviderMoves, Put, provider
  <2>2. ASSUME NEW o \in Op, Operate(o) \/ AnswerLost(o) \/ RecordLost(o) PROVE PassInv'
    BY <2>2 DEF Operate, Succeeds, Refused, AnswerLost, Records, RecordLost, ProviderMoves, Put,
                provider
  <2>3. CASE PassBegins
    BY <2>3 DEF PassBegins, provider
  <2>4. CASE ReadOurs
    BY <2>4 DEF ReadOurs, provider
  <2>5. CASE ReadProvider
    BY <2>5 DEF ReadProvider, provider
  <2>6. CASE ProviderUnreadable
    BY <2>6 DEF ProviderUnreadable, provider
  <2>7. CASE PassEnds
    BY <2>7 DEF PassEnds, provider
  <2>8. CASE UNCHANGED vars
    BY <2>8 DEF vars, provider
  <2>9. QED
    BY <2>1, <2>2, <2>3, <2>4, <2>5, <2>6, <2>7, <2>8 DEF Next, Pass
<1>3. PassInv => ReportIsExact
  BY DEF PassInv, ReportIsExact, Differ
<1>4. QED
  BY <1>1, <1>2, <1>3, TrueInvHolds, PTL DEF Spec
=============================================================================
