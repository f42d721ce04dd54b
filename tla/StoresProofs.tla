---------------------------- MODULE StoresProofs ----------------------------
(***************************************************************************)
(* Proofs about Stores, for any number of calls, rows, crashes and errors, *)
(* and every store and implementation.                                     *)
(***************************************************************************)
EXTENDS Stores, TLAPS

Kind == {"put", "append", "updateAll", "sweep", "acceptOnce", "remove", "amend",
         "putSilently", "recordMandate"}

Table == [Row -> SUBSET Call]

\* All calls go to one store: those of the inbox, and those of the mandates,
\* have it to themselves.
OneStore ==
    /\ kind \in [Call -> Kind]
    /\ \A c, d \in Call : kind[c] = "acceptOnce" => kind[d] = "acceptOnce"
    /\ \A c, d \in Call : kind[c] = "recordMandate" => kind[d] = "recordMandate"

\* The initial states are of one store.
LEMMA InitOneStore == Init => OneStore
<1> SUFFICES ASSUME NEW s \in AllStores, kind \in [Call -> s] PROVE OneStore
  BY DEF Init
<1>1. \/ s \in {{"put"}, {"append"}, {"put", "remove"}, {"put", "amend"}}
      \/ s = {"put", "updateAll", "sweep"}
      \/ s = {"acceptOnce"} \/ s = {"putSilently"} \/ s = {"recordMandate"}
  BY DEF AllStores, EventStore, CommitStore, ReservationStore, InboxStore, DeadLetterStore,
         OrderStore, PaymentStateStore, MandateStore, WebhookStore
<1>2. s \subseteq Kind
  BY <1>1 DEF Kind
<1>3. "acceptOnce" \in s => s = {"acceptOnce"}
  BY <1>1
<1>4. "recordMandate" \in s => s = {"recordMandate"}
  BY <1>1
<1>5. kind \in [Call -> Kind]
  BY <1>2
<1>6. QED
  BY <1>3, <1>4, <1>5 DEF OneStore

\* What a call makes of a row, by its kind.
LEMMA NewRowFacts ==
  ASSUME NEW c \in Call, NEW w \in SUBSET Call
  PROVE  /\ NewRow(c, w) \in SUBSET Call
         /\ ~Blind(c) => NewRow(c, w) = w \cup {c}
         /\ Blind(c) => NewRow(c, w) \subseteq {c}
         /\ kind[c] # "remove" => c \in NewRow(c, w)
BY DEF NewRow, Blind

\* The rows a call touches are its own, but for the calls about a whole cart.
LEMMA TouchedFacts ==
  ASSUME NEW c \in Call, target \in [Call -> Row], NEW t, NEW S \in Touched(c, t)
  PROVE  /\ S \subseteq Row
         /\ kind[c] \notin {"updateAll", "sweep"} => S = {target[c]}
BY DEF Touched, Present

\* Where a call that is to be the first one finds nothing in its way.
LEMMA FindsFacts ==
  ASSUME NEW c \in Call, NEW t, Finds(c, t)
  PROVE  /\ kind[c] = "acceptOnce" => t[target[c]] = {}
         /\ kind[c] = "recordMandate" => Fresh(t)[target[c]] = {}
BY DEF Finds

\* What a write does: nothing a row held disappears unrecorded, an update keeps
\* what it read, and who has selected a row knows who wrote it since.
LEMMA WriteFacts ==
  ASSUME NEW c \in Call, NEW S \in SUBSET Row, NEW t \in Table, rows \in Table,
         Write(c, S, t)
  PROVE  /\ rows' \in Table
         /\ \A r \in S : rows'[r] = NewRow(c, t[r])
         /\ \A r \in Row \ S : rows'[r] = Purged(c, rows)[r]
         /\ \A r \in Row : rows[r] \subseteq rows'[r] \cup replaced' \cup clobbered'
         /\ replaced \subseteq replaced' /\ clobbered \subseteq clobbered' /\ late \subseteq late'
         /\ Blind(c) => clobbered' = clobbered
         /\ \A x \in clobbered' \ clobbered : \E r \in Row : x \in rows[r] \ rows'[r]
         /\ \A x \in replaced' \ replaced : \E r \in Row : x \in rows[r] \ rows'[r]
         /\ replaced' \subseteq replaced \cup Call /\ clobbered' \subseteq clobbered \cup Call
         /\ late' \subseteq late \cup Call
         /\ \A d \in Call \ {c} : todo[d] \cap S # {} => c \in late'
<1> DEFINE gone == UNION {rows[r] \ rows'[r] : r \in Row}
<1>1. \A r \in Row : Purged(c, rows)[r] \in SUBSET Call
  BY DEF Purged, Fresh, Table
<1>2. \A r \in S : NewRow(c, t[r]) \in SUBSET Call
  BY NewRowFacts DEF Table
<1>3. rows' = [r \in Row |-> IF r \in S THEN NewRow(c, t[r]) ELSE Purged(c, rows)[r]]
  BY DEF Write
<1>4. /\ rows' \in Table
      /\ \A r \in S : rows'[r] = NewRow(c, t[r])
      /\ \A r \in Row \ S : rows'[r] = Purged(c, rows)[r]
  BY <1>1, <1>2, <1>3 DEF Table
<1>5. /\ \A r \in Row : rows[r] \subseteq rows'[r] \cup gone
      /\ \A x \in gone : \E r \in Row : x \in rows[r] \ rows'[r]
      /\ gone \subseteq Call
  BY DEF Table
<1>6. /\ replaced' = IF Blind(c) THEN replaced \cup gone ELSE replaced
      /\ clobbered' = IF Blind(c) THEN clobbered ELSE clobbered \cup gone
  BY DEF Write
<1>7. late' = IF \E d \in Call \ {c} : todo[d] \cap S # {} THEN late \cup {c} ELSE late
  BY DEF Write
<1> HIDE DEF gone
<1>8. QED
  BY <1>4, <1>5, <1>6, <1>7

-----------------------------------------------------------------------------
(* Calls and their awaits.                                                 *)

\* The types of the variables TypeOK leaves out.
MoreTypes ==
    /\ OneStore
    /\ disk \in Table \cup {Torn}
    /\ seen \in [Call -> Table]
    /\ answer \in [Call -> {"none", "yes", "no", "error"}]
    /\ replaced \subseteq Call /\ clobbered \subseteq Call /\ late \subseteq Call
    /\ broken \in BOOLEAN /\ overrun \in BOOLEAN /\ forgot \in BOOLEAN
    /\ \A a \in adrift : a[2] \in Table \cup {Torn}

\* Which awaits a call can be at.
Phases ==
    \A c \in Call :
        /\ pc[c] \in {"save", "write", "sync"} => backend = "file"
        /\ pc[c] = "insert" => backend = "postgres" /\ kind[c] = "recordMandate"
        /\ pc[c] = "update" => backend = "postgres" /\ ~Blind(c)
        /\ todo[c] # {} => pc[c] = "update"
        /\ kind[c] \notin {"updateAll", "sweep"} => todo[c] \subseteq {target[c]}

BaseInv == TypeOK /\ MoreTypes /\ Phases

\* The rows without the expired mandates are rows.
LEMMA FreshType ==
  ASSUME NEW t \in Table
  PROVE  Fresh(t) \in Table /\ \A r \in Row : Fresh(t)[r] = t[r] \ expired
BY DEF Fresh, Table

\* The inductive invariant behind the theorems of this module.
LEMMA BaseInvHolds == Spec => []BaseInv
<1> USE StoresAssumption
<1>1. Init => BaseInv
  <2> SUFFICES ASSUME Init PROVE BaseInv
    OBVIOUS
  <2>1. NoRows \in Table
    BY DEF NoRows, Table
  <2>2. QED
    BY <2>1, InitOneStore DEF Init, BaseInv, TypeOK, MoreTypes, Phases, Table
<1>2. BaseInv /\ [Next]_vars => BaseInv'
  <2> SUFFICES ASSUME BaseInv, [Next]_vars PROVE BaseInv'
    OBVIOUS
  <2>0. rows \in Table /\ NoRows \in Table /\ target \in [Call -> Row]
    BY DEF BaseInv, TypeOK, NoRows, Table
  <2> USE <2>0 DEF BaseInv, TypeOK, MoreTypes, Phases, params, history, Return, Goto
  <2>1. ASSUME NEW c \in Call, Apply(c) PROVE BaseInv'
    <3>1. PICK S \in Touched(c, rows) : Write(c, S, rows)
      BY <2>1 DEF Apply
    <3>2. /\ rows' \in Table
          /\ clobbered' \subseteq Call /\ replaced' \subseteq Call /\ late' \subseteq Call
      BY <3>1, TouchedFacts, WriteFacts DEF Table
    <3>3. OneStore' /\ \A d \in Call : Blind(d)' <=> Blind(d)
      BY <2>1 DEF Apply, OneStore, Blind
    <3>4. /\ pc[c] = "start" /\ backend # "postgres"
          /\ UNCHANGED <<params, disk, adrift, expired, seen, todo, broken, overrun, forgot, faults>>
      BY <2>1 DEF Apply
    <3>5. CASE backend = "memory" /\ Return(c, "yes")
      BY <3>2, <3>3, <3>4, <3>5 DEF Table
    <3>6. CASE backend # "memory" /\ Goto(c, "save") /\ UNCHANGED answer
      BY <3>2, <3>3, <3>4, <3>6 DEF Table
    <3>7. QED
      BY <2>1, <3>5, <3>6 DEF Apply
  <2>2. ASSUME NEW c \in Call, Decline(c) PROVE BaseInv'
    <3>1. rows' \in Table
      BY <2>2, FreshType DEF Decline, Purged
    <3>2. OneStore' /\ \A d \in Call : Blind(d)' <=> Blind(d)
      BY <2>2 DEF Decline, OneStore, Blind
    <3>3. QED
      BY <2>2, <3>1, <3>2 DEF Decline, Table
  <2>3. ASSUME NEW c \in Call, SaveCreate(c) PROVE BaseInv'
    <3>1. OneStore' /\ \A d \in Call : Blind(d)' <=> Blind(d)
      BY <2>3 DEF SaveCreate, OneStore, Blind
    <3>2. QED
      BY <2>3, <3>1 DEF SaveCreate, Table
  <2>4. ASSUME NEW c \in Call, SaveWrite(c) PROVE BaseInv'
    <3>1. OneStore' /\ \A d \in Call : Blind(d)' <=> Blind(d)
      BY <2>4 DEF SaveWrite, OneStore, Blind
    <3>2. broken' \in BOOLEAN /\ overrun' \in BOOLEAN
      BY <2>4, Zenon DEF SaveWrite
    <3>3. disk' \in Table \cup {Torn}
      BY <2>4 DEF SaveWrite
    <3>4. QED
      BY <2>4, <3>1, <3>2, <3>3 DEF SaveWrite, Table
  <2>5. ASSUME NEW c \in Call, SaveSync(c) PROVE BaseInv'
    <3>1. OneStore' /\ \A d \in Call : Blind(d)' <=> Blind(d)
      BY <2>5 DEF SaveSync, OneStore, Blind
    <3>2. QED
      BY <2>5, <3>1 DEF SaveSync
  <2>6. ASSUME NEW c \in Call, PgStatement(c) PROVE BaseInv'
    <3>1. OneStore' /\ \A d \in Call : Blind(d)' <=> Blind(d)
      BY <2>6 DEF PgStatement, OneStore, Blind
    <3>2. /\ rows' \in Table
          /\ clobbered' \subseteq Call /\ replaced' \subseteq Call /\ late' \subseteq Call
      <4>1. CASE Write(c, {target[c]}, rows)
        <5>1. {target[c]} \in SUBSET Row
          OBVIOUS
        <5>2. QED
          BY <4>1, <5>1, WriteFacts
      <4>2. CASE UNCHANGED <<rows, replaced, clobbered, late>>
        BY <4>2
      <4>3. QED
        BY <2>6, <4>1, <4>2, Zenon DEF PgStatement
    <3>3. QED
      BY <2>6, <3>1, <3>2 DEF PgStatement, Table
  <2>7. ASSUME NEW c \in Call, PgPurge(c) PROVE BaseInv'
    <3>1. OneStore' /\ \A d \in Call : Blind(d)' <=> Blind(d)
      BY <2>7 DEF PgPurge, OneStore, Blind
    <3>2. rows' \in Table
      BY <2>7, FreshType DEF PgPurge
    <3>3. QED
      BY <2>7, <3>1, <3>2 DEF PgPurge, Table
  <2>8. ASSUME NEW c \in Call, PgSelect(c) PROVE BaseInv'
    <3>1. OneStore' /\ \A d \in Call : Blind(d)' <=> Blind(d)
      BY <2>8 DEF PgSelect, OneStore, Blind
    <3>2. CASE Return(c, "no") /\ UNCHANGED <<seen, todo>>
      BY <2>8, <3>1, <3>2 DEF PgSelect
    <3>3. CASE /\ seen' = [seen EXCEPT ![c] = rows]
               /\ \E S \in Touched(c, rows) : todo' = [todo EXCEPT ![c] = S]
               /\ Goto(c, "update")
               /\ UNCHANGED answer
      <4>1. PICK S \in Touched(c, rows) : todo' = [todo EXCEPT ![c] = S]
        BY <3>3
      <4>2. S \subseteq Row /\ (kind[c] \notin {"updateAll", "sweep"} => S = {target[c]})
        BY TouchedFacts
      <4>3. QED
        BY <2>8, <3>1, <3>3, <4>1, <4>2 DEF PgSelect
    <3>4. QED
      BY <2>8, <3>2, <3>3, Zenon DEF PgSelect
  <2>9. ASSUME NEW c \in Call, PgUpdate(c) PROVE BaseInv'
    <3>1. OneStore' /\ \A d \in Call : Blind(d)' <=> Blind(d)
      BY <2>9 DEF PgUpdate, OneStore, Blind
    <3>2. PICK r \in todo[c] : Write(c, {r}, seen[c]) /\ todo' = [todo EXCEPT ![c] = @ \ {r}]
      BY <2>9 DEF PgUpdate
    <3>3. /\ rows' \in Table
          /\ clobbered' \subseteq Call /\ replaced' \subseteq Call /\ late' \subseteq Call
      <4>1. {r} \in SUBSET Row /\ seen[c] \in Table
        BY <3>2
      <4>2. QED
        BY <3>2, <4>1, WriteFacts
    <3>4. QED
      BY <2>9, <3>1, <3>2, <3>3 DEF PgUpdate, Table
  <2>10. ASSUME NEW c \in Call, PgReturn(c) PROVE BaseInv'
    <3>1. OneStore' /\ \A d \in Call : Blind(d)' <=> Blind(d)
      BY <2>10 DEF PgReturn, OneStore, Blind
    <3>2. QED
      BY <2>10, <3>1 DEF PgReturn
  <2>11. ASSUME NEW c \in Call, Expire(c) PROVE BaseInv'
    <3>1. OneStore' /\ \A d \in Call : Blind(d)' <=> Blind(d)
      BY <2>11 DEF Expire, OneStore, Blind
    <3>2. QED
      BY <2>11, <3>1 DEF Expire
  <2>12. ASSUME NEW c \in Call, Fail(c) PROVE BaseInv'
    <3>1. OneStore' /\ \A d \in Call : Blind(d)' <=> Blind(d)
      BY <2>12 DEF Fail, OneStore, Blind
    <3>2. broken' \in BOOLEAN
      BY <2>12, Zenon DEF Fail
    <3>3. \A a \in adrift' : a[2] \in Table \cup {Torn}
      BY <2>12 DEF Fail
    <3>4. QED
      BY <2>12, <3>1, <3>2, <3>3 DEF Fail
  <2>s. CASE Straggle
    <3>1. OneStore' /\ \A d \in Call : Blind(d)' <=> Blind(d)
      BY <2>s DEF Straggle, OneStore, Blind
    <3>2. PICK a \in adrift : disk' \in {a[2], Torn} /\ adrift' = adrift \ {a}
      BY <2>s DEF Straggle
    <3>3. disk' \in Table \cup {Torn}
      BY <3>2
    <3>4. broken' \in BOOLEAN /\ overrun' \in BOOLEAN
      BY <2>s, Zenon DEF Straggle
    <3>5. QED
      BY <2>s, <3>1, <3>2, <3>3, <3>4 DEF Straggle, Table
  <2>13. CASE Crash
    <3>1. OneStore' /\ \A d \in Call : Blind(d)' <=> Blind(d)
      BY <2>13 DEF Crash, OneStore, Blind
    <3>2. broken' \in BOOLEAN /\ forgot' \in BOOLEAN /\ overrun' \in BOOLEAN
      BY <2>13, Zenon DEF Crash
    <3>3. rows' \in Table
      BY <2>13 DEF Crash, Reload
    <3>4. QED
      BY <2>13, <3>1, <3>2, <3>3 DEF Crash, Table
  <2>14. CASE UNCHANGED vars
    BY <2>14 DEF vars, OneStore, Blind
  <2>15. QED
    BY <2>1, <2>2, <2>3, <2>4, <2>5, <2>6, <2>7, <2>8, <2>9, <2>10, <2>11, <2>12, <2>13,
       <2>14, <2>s DEF Next, Step
<1>3. QED
  BY <1>1, <1>2, PTL DEF Spec

-----------------------------------------------------------------------------
(* The file.                                                               *)

\* The maps t and u differ in expired mandates only.
Same(t, u) == \A r \in Row : t[r] \ expired = u[r] \ expired

\* What is about to be written to the file is the map, for the lock keeps
\* everybody from changing it; and once nobody is on the way there the file has
\* it, unless a save was broken off.  Whoever overran it had been.
FileInv ==
    backend = "file" =>
        /\ \A c \in Call : pc[c] = "write" => seen[c] = rows
        /\ broken = FALSE /\ (\A c \in Call : pc[c] \notin {"save", "write"})
             => disk # Torn /\ Same(disk, rows)
        /\ overrun = TRUE => broken = TRUE

\* The inductive step and the initial states.
LEMMA FileInvHolds == Spec => []FileInv
<1> USE StoresAssumption
<1>1. Init => FileInv
  <2>1. NoRows \in Table
    BY DEF NoRows, Table
  <2>2. QED
    BY <2>1 DEF Init, FileInv, Same, Table
<1>2. BaseInv /\ FileInv /\ [Next]_vars => FileInv'
  <2> SUFFICES ASSUME BaseInv, FileInv, [Next]_vars PROVE FileInv'
    OBVIOUS
  <2>0. /\ rows \in Table /\ disk \in Table \cup {Torn} /\ seen \in [Call -> Table]
        /\ pc \in [Call -> {"start", "save", "write", "sync", "insert", "update", "done"}]
        /\ broken \in BOOLEAN /\ overrun \in BOOLEAN /\ Torn \notin Table /\ Phases
    BY DEF BaseInv, TypeOK, MoreTypes, Table
  <2>a. SUFFICES ASSUME backend = "file" PROVE FileInv'
    <3>1. backend' = backend
      BY DEF Next, Step, Apply, Decline, SaveCreate, SaveWrite, SaveSync, PgStatement, PgPurge,
             PgSelect, PgUpdate, PgReturn, Expire, Fail, Straggle, Crash, params, vars
    <3>2. QED
      BY <2>a, <3>1 DEF FileInv
  <2> USE <2>0, <2>a DEF FileInv, params, history, Return, Goto
  <2>1. ASSUME NEW c \in Call, Apply(c) PROVE FileInv'
    <3>1. /\ pc'[c] = "save" /\ backend' = backend /\ \A d \in Call : pc'[d] # "write"
          /\ UNCHANGED <<broken, overrun>>
      BY <2>1 DEF Apply, Saving
    <3>2. QED
      BY <3>1
  <2>2. ASSUME NEW c \in Call, Decline(c) PROVE FileInv'
    <3>1. \A r \in Row : rows'[r] \ expired = rows[r] \ expired
      BY <2>2, FreshType DEF Decline, Purged
    <3>2. /\ \A d \in Call : pc'[d] # "write" /\ (pc'[d] = "save" <=> pc[d] = "save") /\ pc[d] # "write"
          /\ UNCHANGED <<disk, broken, overrun, expired, backend>>
      BY <2>2 DEF Decline, Saving
    <3>3. QED
      BY <3>1, <3>2 DEF Same
  <2>3. ASSUME NEW c \in Call, SaveCreate(c) PROVE FileInv'
    BY <2>3 DEF SaveCreate
  <2>4. ASSUME NEW c \in Call, SaveWrite(c) PROVE FileInv'
    <3>1. /\ rows' = rows /\ pc[c] = "write" /\ seen[c] = rows /\ expired' = expired
          /\ \A d \in Call \ {c} : pc'[d] = pc[d] /\ seen'[d] = seen[d]
          /\ pc'[c] = "sync"
      BY <2>4 DEF SaveWrite
    <3>2. overrun' = TRUE => broken' = TRUE
      <4>1. overrun' = TRUE => overrun = TRUE /\ disk' = Torn
        BY <2>4, Zenon DEF SaveWrite
      <4>2. broken = TRUE /\ disk' = Torn => broken' = TRUE
        BY <2>4, Zenon DEF SaveWrite
      <4>3. QED
        BY <4>1, <4>2
    <3>3. CASE disk' = seen[c]
      BY <3>1, <3>2, <3>3 DEF Same
    <3>4. CASE \E d \in Call \ {c} : pc[d] = "write"
      BY <3>1, <3>2, <3>4
    <3>5. CASE overrun /\ disk' = Torn
      <4>1. overrun = TRUE
        BY <3>5, Zenon
      <4>2. broken = TRUE
        BY <4>1
      <4>3. broken' = TRUE
        BY <2>4, <3>5, <4>2, Zenon DEF SaveWrite
      <4>4. QED
        BY <3>1, <3>2, <4>3
    <3>6. QED
      BY <2>4, <3>3, <3>4, <3>5, Zenon DEF SaveWrite
  <2>5. ASSUME NEW c \in Call, SaveSync(c) PROVE FileInv'
    BY <2>5 DEF SaveSync, Same
  <2>6. ASSUME NEW c \in Call,
               \/ PgStatement(c) \/ PgPurge(c) \/ PgSelect(c) \/ PgUpdate(c) \/ PgReturn(c)
        PROVE FileInv'
    BY <2>6 DEF PgStatement, PgPurge, PgSelect, PgUpdate, PgReturn, Phases
  <2>7. ASSUME NEW c \in Call, Expire(c) PROVE FileInv'
    BY <2>7 DEF Expire, Same
  <2>8. ASSUME NEW c \in Call, Fail(c) PROVE FileInv'
    <3>1. broken' = TRUE
      BY <2>8, Zenon DEF Fail
    <3>2. QED
      BY <2>8, <3>1 DEF Fail
  <2>s. CASE Straggle
    BY <2>s DEF Straggle
  <2>9. CASE Crash
    <3>1. disk # Torn => rows' = disk
      BY <2>9 DEF Crash, Reload
    <3>2. disk = Torn => broken' = TRUE
      BY <2>9, Zenon DEF Crash
    <3>3. \A d \in Call : pc'[d] # "write"
      BY <2>9 DEF Crash
    <3>4. disk' = disk /\ overrun' = FALSE
      BY <2>9 DEF Crash
    <3>5. QED
      BY <3>1, <3>2, <3>3, <3>4 DEF Same
  <2>10. CASE UNCHANGED vars
    BY <2>10 DEF vars, Same
  <2>11. QED
    BY <2>1, <2>2, <2>3, <2>4, <2>5, <2>6, <2>7, <2>8, <2>9, <2>10, <2>s DEF Next, Step
<1>3. QED
  BY <1>1, <1>2, BaseInvHolds, PTL DEF Spec

\* When no call is on its way to the file and no save was broken off, the file
\* holds the map, however the saves of the calls before overlapped.
THEOREM FileStaysCurrent == Spec => []FileIsCurrent
<1>1. BaseInv /\ FileInv => FileIsCurrent
  <2> SUFFICES ASSUME BaseInv, FileInv, backend = "file", ~broken,
                      \A c \in Call : pc[c] \in {"start", "done"}
               PROVE  disk # Torn /\ Fresh(disk) = Fresh(rows)
    BY DEF FileIsCurrent
  <2>1. broken = FALSE
    BY Zenon DEF BaseInv, MoreTypes
  <2>2. disk # Torn /\ Same(disk, rows)
    BY <2>1 DEF FileInv
  <2>3. QED
    BY <2>2 DEF Same, Fresh
<1>2. QED
  BY <1>1, BaseInvHolds, FileInvHolds, PTL

-----------------------------------------------------------------------------
(* Read-modify-write.                                                      *)

\* What a row holds beyond what a call has selected was written since, or had
\* been replaced and came back; what the call has selected and the row has no
\* more was replaced or undone.
Selected ==
    \A c \in Call : pc[c] = "update" =>
        /\ \A r \in todo[c] : rows[r] \subseteq seen[c][r] \cup late \cup replaced
        /\ \A r \in Row : seen[c][r] \subseteq rows[r] \cup replaced \cup clobbered

UpdateInv == Selected /\ NoLostUpdate

\* No update undoes another one in memory or in a file; in Postgres only one
\* made between the SELECT and the write of another call is undone, or one that
\* was replaced already.
THEOREM UpdatesAreKept == Spec => []NoLostUpdate
<1> USE StoresAssumption
<1>1. Init => UpdateInv
  BY DEF Init, UpdateInv, Selected, NoLostUpdate
<1>2. BaseInv /\ UpdateInv /\ [Next]_vars => UpdateInv'
  <2> SUFFICES ASSUME BaseInv, UpdateInv, [Next]_vars PROVE UpdateInv'
    OBVIOUS
  <2>0. /\ rows \in Table /\ seen \in [Call -> Table] /\ todo \in [Call -> SUBSET Row]
        /\ target \in [Call -> Row]
        /\ pc \in [Call -> {"start", "save", "write", "sync", "insert", "update", "done"}]
        /\ Phases /\ OneStore
    BY DEF BaseInv, TypeOK, MoreTypes, Table
  <2> USE <2>0 DEF UpdateInv, Selected, NoLostUpdate, params, history, Return, Goto
  <2>1. ASSUME NEW c \in Call, Apply(c) PROVE UpdateInv'
    <3>1. PICK S \in Touched(c, rows) : Write(c, S, rows)
      BY <2>1 DEF Apply
    <3>2. S \in SUBSET Row
      BY TouchedFacts
    <3>3. clobbered' = clobbered
      <4>1. CASE Blind(c)
        BY <3>1, <3>2, <4>1, WriteFacts
      <4>2. CASE ~Blind(c)
        <5>1. kind[c] # "recordMandate"
          BY <4>2 DEF Blind
        <5>2. \A r \in S : rows'[r] = rows[r] \cup {c}
          <6>1. \A r \in S : rows'[r] = NewRow(c, rows[r])
            BY <3>1, <3>2, WriteFacts, ZenonT(60)
          <6>2. \A r \in S : rows[r] \in SUBSET Call
            BY <3>2 DEF Table
          <6>3. QED
            BY <4>2, <6>1, <6>2, NewRowFacts
        <5>3. \A r \in Row \ S : rows'[r] = rows[r]
          BY <3>1, <3>2, <5>1, WriteFacts DEF Purged
        <5>4. \A r \in Row : rows[r] \ rows'[r] = {}
          BY <5>2, <5>3
        <5>5. clobbered' \subseteq clobbered /\ clobbered \subseteq clobbered'
          BY <3>1, <3>2, <5>4, WriteFacts
        <5>6. QED
          BY <5>5
      <4>3. QED
        BY <4>1, <4>2
    <3>4. backend' = backend /\ backend # "postgres" /\ \A d \in Call : pc'[d] # "update"
      BY <2>1 DEF Apply, Phases
    <3>5. QED
      BY <3>3, <3>4
  <2>2. ASSUME NEW c \in Call, Decline(c) PROVE UpdateInv'
    BY <2>2 DEF Decline, Phases
  <2>3. ASSUME NEW c \in Call, SaveCreate(c) \/ SaveWrite(c) \/ SaveSync(c) PROVE UpdateInv'
    BY <2>3 DEF SaveCreate, SaveWrite, SaveSync, Phases
  <2>4. ASSUME NEW c \in Call, PgStatement(c) PROVE UpdateInv'
    <3>1. /\ backend = "postgres" /\ backend' = backend /\ Blind(c)
          /\ seen' = seen /\ todo' = todo
          /\ \A d \in Call : pc'[d] = "update" => pc[d] = "update" /\ d # c
      BY <2>4 DEF PgStatement, Blind, Phases
    <3>2. CASE UNCHANGED <<rows, replaced, clobbered, late>>
      BY <3>1, <3>2
    <3>3. CASE Write(c, {target[c]}, rows)
      <4> DEFINE q == target[c]
      <4>1. q \in Row /\ {q} \in SUBSET Row
        OBVIOUS
      <4>2. /\ rows'[q] = NewRow(c, rows[q])
            /\ \A r \in Row \ {q} : rows'[r] = Purged(c, rows)[r]
            /\ \A r \in Row : rows[r] \subseteq rows'[r] \cup replaced' \cup clobbered'
            /\ replaced \subseteq replaced' /\ late \subseteq late'
            /\ clobbered' = clobbered
            /\ \A d \in Call \ {c} : q \in todo[d] => c \in late'
        <5>1. \A d \in Call \ {c} : todo[d] \cap {q} # {} => c \in late'
          BY <3>3, <4>1, WriteFacts, ZenonT(60)
        <5>2. \A d \in Call \ {c} : q \in todo[d] => todo[d] \cap {q} # {}
          OBVIOUS
        <5>3. \A r \in {q} : rows'[r] = NewRow(c, rows[r])
          BY <3>3, <4>1, WriteFacts, ZenonT(60)
        <5>4. /\ \A r \in Row \ {q} : rows'[r] = Purged(c, rows)[r]
              /\ \A r \in Row : rows[r] \subseteq rows'[r] \cup replaced' \cup clobbered'
              /\ replaced \subseteq replaced' /\ late \subseteq late'
              /\ clobbered' = clobbered
          BY <3>1, <3>3, <4>1, WriteFacts
        <5>5. QED
          BY <5>1, <5>2, <5>3, <5>4
      <4>3. rows'[q] \subseteq {c}
        BY <3>1, <4>1, <4>2, NewRowFacts DEF Table
      <4>4. \A r \in Row \ {q} : rows'[r] = rows[r]
        BY <3>1, <4>2 DEF Purged
      <4> HIDE DEF q
      <4>5. Selected'
        <5> SUFFICES ASSUME NEW d \in Call, pc'[d] = "update"
                     PROVE  /\ \A r \in todo[d] : rows'[r] \subseteq seen[d][r] \cup late' \cup replaced'
                            /\ \A r \in Row : seen[d][r] \subseteq rows'[r] \cup replaced' \cup clobbered'
          BY <3>1
        <5>1. pc[d] = "update" /\ d # c
          BY <3>1
        <5>2. \A r \in Row : seen[d][r] \subseteq rows'[r] \cup replaced' \cup clobbered'
          BY <4>2, <5>1
        <5>3. ASSUME NEW r \in todo[d] PROVE rows'[r] \subseteq seen[d][r] \cup late' \cup replaced'
          <6>1. CASE r = q
            BY <4>2, <4>3, <5>1, <6>1
          <6>2. CASE r # q
            BY <4>2, <4>4, <5>1, <6>2
          <6>3. QED
            BY <6>1, <6>2
        <5>4. QED
          BY <5>2, <5>3
      <4>6. NoLostUpdate'
        BY <3>1, <4>2
      <4>7. QED
        BY <4>5, <4>6
    <3>4. QED
      BY <2>4, <3>2, <3>3, Zenon DEF PgStatement
  <2>5. ASSUME NEW c \in Call, PgPurge(c) PROVE UpdateInv'
    <3>1. \A d \in Call : pc'[d] # "update"
      BY <2>5 DEF PgPurge, Phases, Blind, OneStore
    <3>2. QED
      BY <2>5, <3>1 DEF PgPurge
  <2>6. ASSUME NEW c \in Call, PgSelect(c) PROVE UpdateInv'
    <3>1. CASE Return(c, "no") /\ UNCHANGED <<seen, todo>>
      BY <2>6, <3>1 DEF PgSelect
    <3>2. CASE seen' = [seen EXCEPT ![c] = rows] /\ \E S \in Touched(c, rows) : todo' = [todo EXCEPT ![c] = S]
      <4>1. /\ seen'[c] = rows
            /\ \A d \in Call \ {c} : seen'[d] = seen[d] /\ todo'[d] = todo[d] /\ pc'[d] = pc[d]
            /\ todo'[c] \subseteq Row
            /\ UNCHANGED <<rows, replaced, clobbered, late, backend>>
        BY <2>6, <3>2, TouchedFacts DEF PgSelect
      <4>2. QED
        BY <4>1
    <3>3. QED
      BY <2>6, <3>1, <3>2, Zenon DEF PgSelect
  <2>7. ASSUME NEW c \in Call, PgUpdate(c) PROVE UpdateInv'
    <3>1. PICK q \in todo[c] : Write(c, {q}, seen[c]) /\ todo' = [todo EXCEPT ![c] = @ \ {q}]
      BY <2>7 DEF PgUpdate
    <3>2. /\ pc[c] = "update" /\ backend = "postgres" /\ backend' = backend /\ ~Blind(c)
          /\ seen' = seen /\ pc' = pc
      BY <2>7 DEF PgUpdate, Phases
    <3>3. q \in Row /\ {q} \in SUBSET Row /\ seen[c] \in Table /\ kind[c] # "recordMandate"
      BY <3>1, <3>2 DEF Blind
    <3>4. /\ rows'[q] = NewRow(c, seen[c][q])
          /\ \A r \in Row \ {q} : rows'[r] = Purged(c, rows)[r]
          /\ \A r \in Row : rows[r] \subseteq rows'[r] \cup replaced' \cup clobbered'
          /\ replaced \subseteq replaced' /\ clobbered \subseteq clobbered' /\ late \subseteq late'
          /\ \A x \in clobbered' \ clobbered : \E r \in Row : x \in rows[r] \ rows'[r]
          /\ \A d \in Call \ {c} : q \in todo[d] => c \in late'
      <4>1. \A d \in Call \ {c} : todo[d] \cap {q} # {} => c \in late'
        BY <3>1, <3>3, WriteFacts
      <4>2. \A d \in Call \ {c} : q \in todo[d] => todo[d] \cap {q} # {}
        OBVIOUS
      <4>3. \A r \in {q} : rows'[r] = NewRow(c, seen[c][r])
        BY <3>1, <3>3, WriteFacts, ZenonT(60)
      <4>4. /\ \A r \in Row \ {q} : rows'[r] = Purged(c, rows)[r]
            /\ \A r \in Row : rows[r] \subseteq rows'[r] \cup replaced' \cup clobbered'
            /\ replaced \subseteq replaced' /\ clobbered \subseteq clobbered' /\ late \subseteq late'
            /\ \A x \in clobbered' \ clobbered : \E r \in Row : x \in rows[r] \ rows'[r]
        BY <3>1, <3>3, WriteFacts
      <4>5. QED
        BY <4>1, <4>2, <4>3, <4>4
    <3>5. rows'[q] = seen[c][q] \cup {c} /\ \A r \in Row \ {q} : rows'[r] = rows[r]
      BY <3>2, <3>3, <3>4, NewRowFacts DEF Purged, Table
    <3>6. clobbered' \ clobbered \subseteq rows[q] \ rows'[q]
      BY <3>4, <3>5
    <3>7. NoLostUpdate'
      BY <3>1, <3>2, <3>4, <3>5, <3>6
    <3>8. Selected'
      <4> SUFFICES ASSUME NEW d \in Call, pc[d] = "update"
                   PROVE  /\ \A r \in todo'[d] : rows'[r] \subseteq seen[d][r] \cup late' \cup replaced'
                          /\ \A r \in Row : seen[d][r] \subseteq rows'[r] \cup replaced' \cup clobbered'
        BY <3>2
      <4>1. \A r \in Row : seen[d][r] \subseteq rows'[r] \cup replaced' \cup clobbered'
        BY <3>4
      <4>2. ASSUME NEW r \in todo'[d] PROVE rows'[r] \subseteq seen[d][r] \cup late' \cup replaced'
        <5>1. CASE r = q
          <6>1. d # c /\ q \in todo[d]
            BY <3>1, <5>1
          <6>2. c \in late'
            BY <3>4, <6>1
          <6>3. seen[c][q] \subseteq rows[q] \cup replaced \cup clobbered
            BY <3>2, <3>3
          <6>4. rows[q] \subseteq seen[d][q] \cup late \cup replaced
            BY <6>1
          <6>5. clobbered \subseteq late \cup replaced
            BY <3>2
          <6>6. QED
            BY <3>4, <3>5, <5>1, <6>2, <6>3, <6>4, <6>5
        <5>2. CASE r # q
          <6>1. r \in todo[d] /\ r \in Row
            BY <3>1
          <6>2. QED
            BY <3>4, <3>5, <5>2, <6>1
        <5>3. QED
          BY <5>1, <5>2
      <4>3. QED
        BY <4>1, <4>2
    <3>9. QED
      BY <3>7, <3>8
  <2>8. ASSUME NEW c \in Call, PgReturn(c) PROVE UpdateInv'
    BY <2>8 DEF PgReturn
  <2>9. ASSUME NEW c \in Call, Expire(c) PROVE UpdateInv'
    BY <2>9 DEF Expire
  <2>10. ASSUME NEW c \in Call, Fail(c) PROVE UpdateInv'
    BY <2>10 DEF Fail
  <2>s. CASE Straggle
    BY <2>s DEF Straggle
  <2>11. CASE Crash
    BY <2>11 DEF Crash
  <2>12. CASE UNCHANGED vars
    BY <2>12 DEF vars
  <2>13. QED
    BY <2>1, <2>2, <2>3, <2>4, <2>5, <2>6, <2>7, <2>8, <2>9, <2>10, <2>11, <2>12, <2>s
    DEF Next, Step
<1>3. UpdateInv => NoLostUpdate
  BY DEF UpdateInv
<1>4. QED
  BY <1>1, <1>2, <1>3, BaseInvHolds, PTL DEF Spec

-----------------------------------------------------------------------------
(* Answers.                                                                *)

\* A call whose own mark stays in its row.
Lasting(c) == kind[c] \notin {"remove", "updateAll", "sweep", "putSilently"}

\* The mark of c is in t, or there is a reason why it is not.
Kept(c, t) == c \in t[target[c]] \cup replaced \cup clobbered \cup expired

\* c has changed the store.
Wrote(c) ==
    \/ pc[c] \in {"save", "write", "sync"}
    \/ answer[c] = "yes"
    \/ pc[c] = "update" /\ target[c] \notin todo[c]

\* What a call has written is in the map, and in the file once the call has
\* written it there, if that is whole and no dropped call's.
StoredInv ==
    forgot = FALSE => \A c \in Call : Lasting(c) =>
        /\ Wrote(c) => Kept(c, rows)
        /\ /\ disk # Torn /\ backend = "file" /\ overrun = FALSE
           /\ pc[c] = "sync" \/ answer[c] = "yes"
           => Kept(c, disk)

\* A write leaves the writer's mark.
LEMMA WriteMarks ==
  ASSUME NEW c \in Call, NEW S \in SUBSET Row, NEW t \in Table, Write(c, S, t),
         NEW r \in S, kind[c] # "remove"
  PROVE  c \in rows'[r]
<1>1. rows'[r] = NewRow(c, t[r])
  BY DEF Write
<1>2. t[r] \in SUBSET Call
  BY DEF Table
<1>3. QED
  BY <1>1, <1>2, NewRowFacts

\* A write takes no mark away without a reason.
LEMMA WriteKeeps ==
  ASSUME NEW c \in Call, NEW S \in SUBSET Row, NEW t \in Table, rows \in Table,
         target \in [Call -> Row], Write(c, S, t), expired' = expired, target' = target,
         NEW d \in Call
  PROVE  /\ Kept(d, rows) => Kept(d, rows)'
         /\ disk' = disk /\ Kept(d, disk) => Kept(d, disk)'
<1>1. /\ \A r \in Row : rows[r] \subseteq rows'[r] \cup replaced' \cup clobbered'
      /\ replaced \subseteq replaced' /\ clobbered \subseteq clobbered'
  BY WriteFacts
<1>2. QED
  BY <1>1 DEF Kept

\* The inductive step and the initial states.
LEMMA StoredInvHolds == Spec => []StoredInv
<1> USE StoresAssumption
<1>1. Init => StoredInv
  BY DEF Init, StoredInv, Wrote
<1>2. BaseInv /\ FileInv /\ StoredInv /\ [Next]_vars => StoredInv'
  <2> SUFFICES ASSUME BaseInv, FileInv, StoredInv, [Next]_vars PROVE StoredInv'
    OBVIOUS
  <2>0. /\ rows \in Table /\ disk \in Table \cup {Torn} /\ seen \in [Call -> Table]
        /\ todo \in [Call -> SUBSET Row] /\ target \in [Call -> Row]
        /\ pc \in [Call -> {"start", "save", "write", "sync", "insert", "update", "done"}]
        /\ answer \in [Call -> {"none", "yes", "no", "error"}]
        /\ forgot \in BOOLEAN /\ overrun \in BOOLEAN /\ Torn \notin Table /\ Phases
        /\ OneStore
        /\ \A c \in Call : answer[c] # "none" <=> pc[c] = "done"
    BY DEF BaseInv, TypeOK, MoreTypes, Table
  <2> USE <2>0 DEF StoredInv, Wrote, Lasting, params, history, Return, Goto
  <2>1. ASSUME NEW c \in Call, Apply(c) PROVE StoredInv'
    <3>1. PICK S \in Touched(c, rows) : Write(c, S, rows)
      BY <2>1 DEF Apply
    <3>2. S \in SUBSET Row
      BY TouchedFacts
    <3>3. /\ UNCHANGED <<kind, target, backend, expired, disk, todo, overrun, forgot>>
          /\ \A d \in Call \ {c} : pc'[d] = pc[d] /\ answer'[d] = answer[d]
          /\ pc'[c] # "sync" /\ (backend = "file" => answer'[c] # "yes")
      BY <2>1 DEF Apply
    <3>4. Lasting(c) => Kept(c, rows)'
      <4>1. Lasting(c) => S = {target[c]}
        BY TouchedFacts
      <4>2. Lasting(c) => c \in rows'[target[c]]
        BY <3>1, <3>2, <4>1, WriteMarks
      <4>3. QED
        BY <3>3, <4>2 DEF Kept
    <3>5. \A d \in Call : (Kept(d, rows) => Kept(d, rows)') /\ (Kept(d, disk) => Kept(d, disk)')
      BY <3>1, <3>2, <3>3, WriteKeeps
    <3>6. QED
      BY <3>3, <3>4, <3>5
  <2>2. ASSUME NEW c \in Call, Decline(c) PROVE StoredInv'
    <3>1. \A r \in Row : rows[r] \subseteq rows'[r] \cup expired
      BY <2>2, FreshType DEF Decline, Purged
    <3>2. QED
      BY <2>2, <3>1 DEF Decline, Kept
  <2>3. ASSUME NEW c \in Call, SaveCreate(c) PROVE StoredInv'
    BY <2>3 DEF SaveCreate, Kept
  <2>4. ASSUME NEW c \in Call, SaveWrite(c) PROVE StoredInv'
    <3>1. seen[c] = rows
      BY <2>4 DEF SaveWrite, FileInv, Phases
    <3>2. disk' \in {rows, Torn}
      BY <2>4, <3>1 DEF SaveWrite
    <3>3. QED
      BY <2>4, <3>2 DEF SaveWrite, Kept
  <2>5. ASSUME NEW c \in Call, SaveSync(c) PROVE StoredInv'
    BY <2>5 DEF SaveSync, Kept
  <2>6. ASSUME NEW c \in Call, PgStatement(c) PROVE StoredInv'
    <3>1. /\ UNCHANGED <<kind, target, backend, expired, disk, todo, overrun, forgot>>
          /\ backend = "postgres" /\ pc'[c] = "done"
          /\ \A d \in Call \ {c} : pc'[d] = pc[d] /\ answer'[d] = answer[d]
      BY <2>6 DEF PgStatement
    <3>2. CASE Write(c, {target[c]}, rows)
      <4>1. {target[c]} \in SUBSET Row
        OBVIOUS
      <4>2. kind[c] # "remove" => c \in rows'[target[c]]
        BY <3>2, <4>1, WriteMarks
      <4>4. Lasting(c) => Kept(c, rows)'
        BY <3>1, <4>2 DEF Kept
      <4>5. \A d \in Call : Kept(d, rows) => Kept(d, rows)'
        BY <3>1, <3>2, <4>1, WriteKeeps
      <4>6. QED
        BY <3>1, <4>4, <4>5
    <3>3. CASE /\ ~(kind[c] \in {"acceptOnce", "recordMandate"} => rows[target[c]] = {})
               /\ UNCHANGED <<rows, replaced, clobbered, late>>
      <4>1. answer'[c] = "no"
        BY <2>6, <3>3 DEF PgStatement
      <4>2. QED
        BY <3>1, <3>3, <4>1 DEF Kept
    <3>4. QED
      BY <2>6, <3>2, <3>3, Zenon DEF PgStatement
  <2>7. ASSUME NEW c \in Call, PgPurge(c) PROVE StoredInv'
    <3>1. \A r \in Row : rows[r] \subseteq rows'[r] \cup expired
      BY <2>7, FreshType DEF PgPurge
    <3>2. QED
      BY <2>7, <3>1 DEF PgPurge, Kept
  <2>8. ASSUME NEW c \in Call, PgSelect(c) PROVE StoredInv'
    <3>1. /\ UNCHANGED <<rows, disk, expired, backend, kind, target, history>>
          /\ pc[c] = "start" /\ pc'[c] \in {"update", "done"} /\ answer'[c] # "yes"
          /\ \A d \in Call \ {c} : pc'[d] = pc[d] /\ answer'[d] = answer[d] /\ todo'[d] = todo[d]
      BY <2>8 DEF PgSelect
    <3>2. Lasting(c) /\ pc'[c] = "update" => todo'[c] = {target[c]}
      BY <2>8, TouchedFacts DEF PgSelect
    <3>3. QED
      BY <3>1, <3>2 DEF Kept
  <2>9. ASSUME NEW c \in Call, PgUpdate(c) PROVE StoredInv'
    <3>1. PICK q \in todo[c] : Write(c, {q}, seen[c]) /\ todo' = [todo EXCEPT ![c] = @ \ {q}]
      BY <2>9 DEF PgUpdate
    <3>2. /\ UNCHANGED <<kind, target, backend, expired, disk, pc, answer, overrun, forgot>>
          /\ backend = "postgres"
      BY <2>9 DEF PgUpdate, Phases
    <3>3. {q} \in SUBSET Row /\ seen[c] \in Table
      BY <3>1
    <3>4. Lasting(c) => Kept(c, rows)'
      <4>1. kind[c] # "remove" => c \in rows'[q]
        BY <3>1, <3>3, WriteMarks
      <4>2. Lasting(c) => q = target[c]
        BY DEF Phases
      <4>3. QED
        BY <3>2, <4>1, <4>2 DEF Kept
    <3>5. \A d \in Call : Kept(d, rows) => Kept(d, rows)'
      BY <3>1, <3>2, <3>3, WriteKeeps
    <3>6. QED
      BY <3>1, <3>2, <3>4, <3>5
  <2>10. ASSUME NEW c \in Call, PgReturn(c) PROVE StoredInv'
    BY <2>10 DEF PgReturn, Kept, Phases
  <2>11. ASSUME NEW c \in Call, Expire(c) PROVE StoredInv'
    BY <2>11 DEF Expire, Kept
  <2>12. ASSUME NEW c \in Call, Fail(c) PROVE StoredInv'
    BY <2>12 DEF Fail, Kept
  <2>s. CASE Straggle
    BY <2>s DEF Straggle, Kept
  <2>13. CASE Crash
    <3>1. forgot' = FALSE => /\ forgot = FALSE /\ backend # "memory" /\ disk # Torn
                             /\ overrun = FALSE
      BY <2>13, Zenon DEF Crash
    <3>2. disk # Torn /\ backend = "file" => rows' = disk
      BY <2>13 DEF Crash, Reload
    <3>3. backend \in {"memory", "file", "postgres"}
      BY DEF BaseInv, TypeOK
    <3>4. \A d \in Call : pc'[d] \in {"start", "done"} /\ (answer'[d] = "yes" => answer[d] = "yes")
      BY <2>13 DEF Crash
    <3>5. UNCHANGED <<disk, kind, target, backend, replaced, clobbered, expired>>
      BY <2>13 DEF Crash
    <3>6. backend = "postgres" => rows' = rows
      BY <2>13 DEF Crash
    <3>7. QED
      BY <3>1, <3>2, <3>3, <3>4, <3>5, <3>6 DEF Kept
  <2>14. CASE UNCHANGED vars
    BY <2>14 DEF vars, Kept
  <2>15. QED
    BY <2>1, <2>2, <2>3, <2>4, <2>5, <2>6, <2>7, <2>8, <2>9, <2>10, <2>11, <2>12, <2>13,
       <2>14, <2>s DEF Next, Step
<1>3. QED
  BY <1>1, <1>2, BaseInvHolds, FileInvHolds, PTL DEF Spec

\* A call that was answered has its effect in the store, restarts included, until
\* another call replaces it: only a restart that finds no whole file, or a
\* dropped call's, loses it.
THEOREM AnsweredStaysStored == Spec => []AnsweredIsStored
<1>1. BaseInv /\ StoredInv => AnsweredIsStored
  <2> SUFFICES ASSUME BaseInv, StoredInv PROVE AnsweredIsStored
    OBVIOUS
  <2>1. CASE forgot = FALSE
    BY <2>1 DEF BaseInv, StoredInv, AnsweredIsStored, Lasting, Wrote, Kept
  <2>2. CASE forgot = TRUE
    BY <2>2, Zenon DEF BaseInv, AnsweredIsStored
  <2>3. QED
    BY <2>1, <2>2 DEF BaseInv, MoreTypes
<1>2. QED
  BY <1>1, BaseInvHolds, StoredInvHolds, PTL

-----------------------------------------------------------------------------
(* First come, first served.                                               *)

\* A call that is to be the only one for its row.
Claims(c) == kind[c] \in {"acceptOnce", "recordMandate"}

\* No row of t has two marks.
AtMostOne(t) == \A r \in Row : \A x, y \in t[r] : x = y

\* In the inbox and among the mandates a row has one mark, in the map, in the
\* file and in what may yet get there, and nothing is replaced before it has
\* expired.
OnceInv ==
    (\E c \in Call : Claims(c)) =>
        /\ AtMostOne(rows)
        /\ disk # Torn => AtMostOne(disk)
        /\ \A a \in adrift : a[2] # Torn => AtMostOne(a[2])
        /\ replaced \subseteq expired
        /\ clobbered = {}

\* A claim writes only where nothing that has not expired is in its way.
LEMMA ClaimWrites ==
  ASSUME NEW c \in Call, Claims(c), NEW q \in Row, rows \in Table, Write(c, {q}, rows),
         rows[q] \subseteq expired, AtMostOne(rows), replaced \subseteq expired, clobbered = {},
         expired' = expired
  PROVE  AtMostOne(rows)' /\ (replaced \subseteq expired)' /\ clobbered' = {}
<1>1. Blind(c) /\ {q} \in SUBSET Row
  BY DEF Claims, Blind
<1>2. rows'[q] = NewRow(c, rows[q]) /\ \A r \in Row \ {q} : rows'[r] = Purged(c, rows)[r]
  BY DEF Write
<1>3. rows'[q] \subseteq {c}
  <2>1. rows[q] \in SUBSET Call
    BY DEF Table
  <2>2. QED
    BY <1>1, <1>2, <2>1, NewRowFacts
<1>4. \A r \in Row : Purged(c, rows)[r] \subseteq rows[r] /\ rows[r] \ Purged(c, rows)[r] \subseteq expired
  BY FreshType DEF Purged
<1>5. /\ \A x \in replaced' \ replaced : \E r \in Row : x \in rows[r] \ rows'[r]
      /\ clobbered' = clobbered
  BY <1>1, WriteFacts
<1>6. \A r \in Row : rows[r] \ rows'[r] \subseteq expired
  BY <1>2, <1>4
<1>7. AtMostOne(rows)'
  BY <1>2, <1>3, <1>4 DEF AtMostOne
<1>8. QED
  BY <1>5, <1>6, <1>7

\* accept_once says yes to one call per message and record_mandate to one per
\* mandate until it expires, whatever overlaps, fails or restarts; a restart
\* that does not find the last save excepted.
THEOREM AcceptedAtMostOnce == Spec => []AcceptedOnce
<1> USE StoresAssumption
<1>1. Init => OnceInv
  BY DEF Init, OnceInv, AtMostOne, NoRows
<1>2. BaseInv /\ FileInv /\ OnceInv /\ [Next]_vars => OnceInv'
  <2> SUFFICES ASSUME BaseInv, FileInv, OnceInv, [Next]_vars PROVE OnceInv'
    OBVIOUS
  <2>0. /\ rows \in Table /\ disk \in Table \cup {Torn} /\ Torn \notin Table
        /\ target \in [Call -> Row] /\ Phases /\ OneStore
    BY DEF BaseInv, TypeOK, MoreTypes, Table
  <2>k. kind' = kind
    BY ZenonT(60) DEF Next, Step, Apply, Decline, SaveCreate, SaveWrite, SaveSync, PgStatement, PgPurge,
           PgSelect, PgUpdate, PgReturn, Expire, Fail, Straggle, Crash, params, vars
  <2>a. SUFFICES ASSUME NEW b \in Call, Claims(b)
                 PROVE  /\ AtMostOne(rows)'
                        /\ (disk # Torn => AtMostOne(disk))'
                        /\ (\A a \in adrift : a[2] # Torn => AtMostOne(a[2]))'
                        /\ (replaced \subseteq expired)'
                        /\ (clobbered = {})'
    BY <2>k DEF OnceInv, Claims
  <2> DEFINE Goal == /\ AtMostOne(rows)'
                     /\ (\A a \in adrift : a[2] # Torn => AtMostOne(a[2]))'
                     /\ (disk # Torn => AtMostOne(disk))'
                     /\ (replaced \subseteq expired)'
                     /\ (clobbered = {})'
  <2>b. /\ AtMostOne(rows) /\ (disk # Torn => AtMostOne(disk))
        /\ replaced \subseteq expired /\ clobbered = {}
        /\ \A a \in adrift : a[2] # Torn => AtMostOne(a[2])
    BY <2>a DEF OnceInv
  <2>c. \A c \in Call : Claims(c)
    BY <2>0, <2>a DEF OneStore, Claims
  <2>d. \A c \in Call : Blind(c) /\ pc[c] # "update"
    BY <2>0, <2>c DEF Claims, Blind, Phases
  <2> USE <2>0, <2>b, <2>c DEF params, history, Return, Goto
  <2>1. ASSUME NEW c \in Call, Apply(c) PROVE Goal
    <3>1. PICK S \in Touched(c, rows) : Write(c, S, rows)
      BY <2>1 DEF Apply
    <3>2. S = {target[c]} /\ target[c] \in Row
      BY TouchedFacts DEF Claims
    <3>3. rows[target[c]] \subseteq expired
      BY <2>1, <3>2, FindsFacts, FreshType DEF Apply, Claims
    <3>4. expired' = expired /\ disk' = disk /\ adrift' = adrift
      BY <2>1 DEF Apply
    <3>5. AtMostOne(rows)' /\ (replaced \subseteq expired)' /\ clobbered' = {}
      BY <3>1, <3>2, <3>3, <3>4, ClaimWrites
    <3>6. QED
      BY <3>4, <3>5 DEF AtMostOne
  <2>2. ASSUME NEW c \in Call, Decline(c) PROVE Goal
    <3>1. \A r \in Row : rows'[r] \subseteq rows[r]
      BY <2>2, FreshType DEF Decline, Purged
    <3>2. QED
      BY <2>2, <3>1 DEF Decline, AtMostOne
  <2>3. ASSUME NEW c \in Call, SaveCreate(c) PROVE Goal
    BY <2>3 DEF SaveCreate, AtMostOne
  <2>4. ASSUME NEW c \in Call, SaveWrite(c) PROVE Goal
    <3>1. seen[c] = rows
      BY <2>4 DEF SaveWrite, FileInv, Phases
    <3>2. QED
      BY <2>4, <3>1 DEF SaveWrite, AtMostOne
  <2>5. ASSUME NEW c \in Call, SaveSync(c) PROVE Goal
    BY <2>5 DEF SaveSync, AtMostOne
  <2>6. ASSUME NEW c \in Call, PgStatement(c) PROVE Goal
    <3>1. expired' = expired /\ disk' = disk /\ adrift' = adrift
      BY <2>6 DEF PgStatement
    <3>2. CASE UNCHANGED <<rows, replaced, clobbered, late>>
      BY <3>1, <3>2 DEF AtMostOne
    <3>3. CASE rows[target[c]] = {} /\ Write(c, {target[c]}, rows)
      <4>1. target[c] \in Row /\ rows[target[c]] \subseteq expired
        BY <3>3
      <4>2. AtMostOne(rows)' /\ (replaced \subseteq expired)' /\ clobbered' = {}
        BY <3>1, <3>3, <4>1, ClaimWrites
      <4>3. QED
        BY <3>1, <4>2 DEF AtMostOne
    <3>4. QED
      BY <2>6, <3>2, <3>3, Zenon DEF PgStatement, Claims
  <2>7. ASSUME NEW c \in Call, PgPurge(c) PROVE Goal
    <3>1. \A r \in Row : rows'[r] \subseteq rows[r]
      BY <2>7, FreshType DEF PgPurge
    <3>2. QED
      BY <2>7, <3>1 DEF PgPurge, AtMostOne
  <2>8. ASSUME NEW c \in Call, PgSelect(c) \/ PgUpdate(c) \/ PgReturn(c) PROVE Goal
    BY <2>8, <2>d DEF PgSelect, PgUpdate, PgReturn
  <2>9. ASSUME NEW c \in Call, Expire(c) PROVE Goal
    BY <2>9 DEF Expire, AtMostOne
  <2>10. ASSUME NEW c \in Call, Fail(c) PROVE Goal
    <3>1. \A a \in adrift' : a \in adrift \/ a[2] \in {Torn, rows}
      <4>1. pc[c] = "write" => seen[c] = rows
        BY DEF FileInv, Phases
      <4>2. QED
        BY <2>10, <4>1 DEF Fail
    <3>2. QED
      BY <2>10, <3>1 DEF Fail, AtMostOne
  <2>s. CASE Straggle
    BY <2>s DEF Straggle, AtMostOne
  <2>11. CASE Crash
    <3>1. rows' \in {rows, NoRows} \/ (rows' = disk /\ disk # Torn)
      BY <2>11 DEF Crash, Reload
    <3>2. AtMostOne(rows)'
      BY <3>1 DEF AtMostOne, NoRows
    <3>3. QED
      BY <2>11, <3>2 DEF Crash, AtMostOne
  <2>12. CASE UNCHANGED vars
    BY <2>12 DEF vars, AtMostOne
  <2>13. QED
    BY <2>1, <2>2, <2>3, <2>4, <2>5, <2>6, <2>7, <2>8, <2>9, <2>10, <2>11, <2>12, <2>s
    DEF Next, Step
<1>3. BaseInv /\ StoredInv /\ OnceInv => AcceptedOnce
  <2> SUFFICES ASSUME BaseInv, StoredInv, OnceInv,
                      NEW c \in Call, NEW d \in Call, c # d, target[c] = target[d], Claims(c),
                      answer[c] = "yes", answer[d] = "yes", c \notin expired, d \notin expired,
                      forgot = FALSE
               PROVE  FALSE
    <3>1. forgot = FALSE \/ forgot = TRUE
      BY DEF BaseInv, MoreTypes
    <3>2. CASE forgot = TRUE
      BY <3>2, Zenon DEF AcceptedOnce
    <3>3. CASE forgot = FALSE
      BY <3>3 DEF AcceptedOnce, Claims
    <3>4. QED
      BY <3>1, <3>2, <3>3
  <2>1. Claims(d)
    BY DEF BaseInv, MoreTypes, OneStore, Claims
  <2>2. Kept(c, rows) /\ Kept(d, rows)
    BY <2>1 DEF StoredInv, Lasting, Wrote, Claims
  <2>3. AtMostOne(rows) /\ replaced \subseteq expired /\ clobbered = {}
    BY DEF OnceInv
  <2>4. c \in rows[target[c]] /\ d \in rows[target[c]] /\ target[c] \in Row
    BY <2>2, <2>3 DEF Kept, BaseInv, TypeOK
  <2>5. QED
    BY <2>3, <2>4 DEF AtMostOne
<1>4. QED
  BY <1>1, <1>2, <1>3, BaseInvHolds, FileInvHolds, StoredInvHolds, PTL DEF Spec
=============================================================================
