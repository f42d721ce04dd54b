------------------------------- MODULE Stores -------------------------------
(***************************************************************************)
(* The stores behind the runner: rows by id, in three implementations.     *)
(*                                                                         *)
(*   memory    one map under a mutex; nothing survives a restart.          *)
(*   file      one map under a reader/writer lock.  A call changes the map *)
(*             under the write lock, drops it, and saves the whole map     *)
(*             under the read lock: the file is created (truncated),       *)
(*             written and synced.  A file that does not parse is opened   *)
(*             as an empty map.                                            *)
(*   postgres  a table; every SQL statement is a step of its own.          *)
(*                                                                         *)
(* A call is a member of Call and leaves its name in the rows it writes,   *)
(* so a row is the set of calls whose effect it holds, {} if there is no   *)
(* row.  Every behaviour is about one store (one map, file or table).      *)
(***************************************************************************)
EXTENDS Naturals, FiniteSets

CONSTANTS
    Call,       \* the calls made to the store
    Row,        \* the ids of its rows (of reservations: one cart's lines)
    Torn,       \* the content of a file that does not parse
    Backends,   \* the implementations to check
    MaxFaults   \* bound: crashes; and calls that fail or are dropped

ASSUME StoresAssumption ==
    /\ Backends \subseteq {"memory", "file", "postgres"}
    /\ Torn \notin [Row -> SUBSET Call]
    /\ MaxFaults \in Nat

\* What each store offers, by what the operation does to its rows.
EventStore        == {{"put"}, {"append"}}       \* snapshots and states; events
CommitStore       == {{"put"}}
ReservationStore  == {{"put", "updateAll", "sweep"}}
InboxStore        == {{"acceptOnce"}}
DeadLetterStore   == {{"put", "remove"}}
OrderStore        == {{"put", "amend"}}
PaymentStateStore == {{"putSilently"}}
MandateStore      == {{"recordMandate"}}
WebhookStore      == {{"put", "remove"}}

AllStores == UNION {EventStore, CommitStore, ReservationStore, InboxStore,
                    DeadLetterStore, OrderStore, PaymentStateStore, MandateStore,
                    WebhookStore}

VARIABLES
    backend,   \* the implementation
    kind,      \* kind[c]: what call c does
    target,    \* target[c]: the row it names
    rows,      \* the map, or the table
    disk,      \* the file: a map, or Torn
    adrift,    \* <<c, w>>: the dropped call c may still leave w in the file
    expired,   \* calls whose recorded mandate has expired
    pc,        \* pc[c]: the await call c is at
    seen,      \* seen[c]: the rows call c selected, or serialized to save
    todo,      \* todo[c]: the rows it has still to write
    answer,    \* answer[c]: "yes", "no" (None, false), "error", or "none" yet
    replaced,  \* history: calls whose row was overwritten or removed on purpose
    clobbered, \* history: calls whose update a read-modify-write undid
    late,      \* history: calls that wrote a row somebody else had selected
    broken,    \* history: a save was broken off and none has succeeded since
    overrun,   \* history: a dropped call reached the file since it was created
    forgot,    \* history: a restart did not find the last save in the file
    faults     \* how many there were, for the bound

params  == <<backend, kind, target>>
history == <<replaced, clobbered, late, broken, overrun, forgot>>
vars    == <<params, rows, disk, adrift, expired, pc, seen, todo, answer, history,
             faults>>

NoRows == [r \in Row |-> {}]

\* Stands for the row of a call that names none.
NoTarget == CHOOSE r \in Row : TRUE

Init ==
    /\ backend \in Backends
    /\ \E s \in AllStores : kind \in [Call -> s]
    /\ target \in [Call -> Row]
    /\ \A c \in Call : kind[c] \in {"updateAll", "sweep"} => target[c] = NoTarget
    /\ rows = NoRows
    /\ disk = NoRows
    /\ adrift = {}
    /\ expired = {}
    /\ pc = [c \in Call |-> "start"]
    /\ seen = [c \in Call |-> NoRows]
    /\ todo = [c \in Call |-> {}]
    /\ answer = [c \in Call |-> "none"]
    /\ replaced = {} /\ clobbered = {} /\ late = {}
    /\ broken = FALSE /\ overrun = FALSE /\ forgot = FALSE
    /\ faults = [fail |-> 0, crash |-> 0]

\* The rows that are there.
Present(t) == {r \in Row : t[r] # {}}

\* Mutant: the comparison is the wrong way round.
Fresh_KeepsExpired(t) == [r \in Row |-> t[r] \cap expired]

\* retain(|_, expiry| expiry > now); no other store has expired rows.
Fresh(t) == [r \in Row |-> t[r] \ expired]

\* Whether call c finds what it needs; also its answer, and whether the file
\* store saves.
Finds(c, t) ==
    CASE kind[c] \in {"amend", "remove"} -> t[target[c]] # {}
      [] kind[c] = "acceptOnce"          -> t[target[c]] = {}
      [] kind[c] = "recordMandate"       -> Fresh(t)[target[c]] = {}
      [] OTHER                           -> TRUE

\* The rows as a call leaves them before it writes its own; in Postgres a
\* statement of its own has purged them.
Purged(c, t) == IF kind[c] = "recordMandate" /\ backend # "postgres" THEN Fresh(t) ELSE t

\* The rows call c writes: its own, those of the whole cart (finalize_cart,
\* release_cart), or those whose lease has run out (sweep_expired).
Touched(c, t) ==
    CASE kind[c] = "updateAll" -> {Present(t)}
      [] kind[c] = "sweep"     -> SUBSET Present(t)
      [] OTHER                 -> {{target[c]}}

\* What call c makes of a row with content w.
NewRow(c, w) ==
    CASE kind[c] \in {"append", "amend", "updateAll", "sweep"} -> w \cup {c}
      [] kind[c] = "remove" -> {}
      [] OTHER              -> {c}

Blind(c) == kind[c] \notin {"append", "amend", "updateAll", "sweep"}

Goto(c, label) == pc' = [pc EXCEPT ![c] = label]

\* Call c returns to its caller.
Return(c, a) ==
    /\ pc' = [pc EXCEPT ![c] = "done"]
    /\ answer' = [answer EXCEPT ![c] = a]

\* Call c writes rows S, having read them as t.
Write(c, S, t) ==
    /\ rows' = [r \in Row |-> IF r \in S THEN NewRow(c, t[r]) ELSE Purged(c, rows)[r]]
    /\ LET gone == UNION {rows[r] \ rows'[r] : r \in Row}
       IN /\ replaced' = IF Blind(c) THEN replaced \cup gone ELSE replaced
          /\ clobbered' = IF Blind(c) THEN clobbered ELSE clobbered \cup gone
    /\ late' = IF \E d \in Call \ {c} : todo[d] \cap S # {} THEN late \cup {c} ELSE late

-----------------------------------------------------------------------------
(* The file and in-process stores.                                         *)

\* Somebody is between File::create and the end of sync_all: the read lock is
\* held.
Saving == \E c \in Call : pc[c] \in {"write", "sync"}

\* Mutant: the map is changed although a save is reading it.
Apply_Unlocked(c) ==
    /\ backend # "postgres"
    /\ pc[c] = "start"
    /\ Finds(c, rows)
    /\ \E S \in Touched(c, rows) : Write(c, S, rows)
    /\ IF backend = "memory"
       THEN Return(c, "yes")
       ELSE Goto(c, "save") /\ UNCHANGED answer
    /\ UNCHANGED <<params, disk, adrift, expired, seen, todo, broken, overrun, forgot,
                   faults>>

\* The change, under the mutex or the write lock.  The file store drops the
\* lock before it saves.
Apply(c) ==
    /\ backend # "postgres"
    /\ pc[c] = "start"
    /\ ~Saving
    /\ Finds(c, rows)
    /\ \E S \in Touched(c, rows) : Write(c, S, rows)
    /\ IF backend = "memory"
       THEN Return(c, "yes")
       ELSE Goto(c, "save") /\ UNCHANGED answer
    /\ UNCHANGED <<params, disk, adrift, expired, seen, todo, broken, overrun, forgot,
                   faults>>

\* Nothing to amend, remove or accept: the call returns without saving.  An
\* expired mandate is gone from the map all the same.
Decline(c) ==
    /\ backend # "postgres"
    /\ pc[c] = "start"
    /\ ~Saving
    /\ ~Finds(c, rows)
    /\ Return(c, "no")
    /\ rows' = Purged(c, rows)
    /\ UNCHANGED <<params, disk, adrift, expired, seen, todo, history, faults>>

\* Mutant: the write lock is still held when the save asks for the read lock.
SaveCreate_GuardHeld(c) ==
    /\ pc[c] = "save"
    /\ \A d \in Call : pc[d] # "save"
    /\ seen' = [seen EXCEPT ![c] = rows]
    /\ disk' = Torn
    /\ overrun' = FALSE
    /\ Goto(c, "write")
    /\ UNCHANGED <<params, rows, adrift, expired, todo, answer, replaced, clobbered,
                   late, broken, forgot, faults>>

\* save: the read lock is taken, the map serialized and the file created.
SaveCreate(c) ==
    /\ pc[c] = "save"
    /\ seen' = [seen EXCEPT ![c] = rows]
    /\ disk' = Torn
    /\ overrun' = FALSE
    /\ Goto(c, "write")
    /\ UNCHANGED <<params, rows, adrift, expired, todo, answer, replaced, clobbered,
                   late, broken, forgot, faults>>

\* write_all, which hands the bytes to a thread of its own, and what sync_all
\* waits for before it syncs.  Whoever else is saving writes the same bytes; if
\* it truncates the file midway the file is whole only after its own write.  A
\* dropped call may have left a longer file, whose end stays.
SaveWrite(c) ==
    /\ pc[c] = "write"
    /\ \/ disk' = seen[c]
       \/ disk' = Torn /\ (overrun \/ \E d \in Call \ {c} : pc[d] = "write")
    /\ broken' = (broken /\ disk' = Torn)
    /\ overrun' = (overrun /\ disk' = Torn)
    /\ Goto(c, "sync")
    /\ seen' = [seen EXCEPT ![c] = NoRows]
    /\ UNCHANGED <<params, rows, adrift, expired, todo, answer, replaced, clobbered,
                   late, forgot, faults>>

\* sync_all; the lock is dropped and the call returns.
SaveSync(c) ==
    /\ pc[c] = "sync"
    /\ Return(c, "yes")
    /\ UNCHANGED <<params, rows, disk, adrift, expired, seen, todo, history, faults>>

-----------------------------------------------------------------------------
(* Postgres.                                                               *)

\* One statement: INSERT ... ON CONFLICT DO UPDATE, or DO NOTHING, or DELETE.
PgStatement(c) ==
    /\ backend = "postgres"
    /\ \/ pc[c] = "start" /\ kind[c] \in {"put", "putSilently", "remove", "acceptOnce"}
       \/ pc[c] = "insert"
    /\ IF kind[c] \in {"acceptOnce", "recordMandate"} => rows[target[c]] = {}
       THEN Write(c, {target[c]}, rows)
       ELSE UNCHANGED <<rows, replaced, clobbered, late>>
    /\ Return(c, IF \/ kind[c] \in {"acceptOnce", "recordMandate"} /\ rows[target[c]] # {}
                    \/ kind[c] = "remove" /\ rows[target[c]] = {}
                 THEN "no" ELSE "yes")
    /\ UNCHANGED <<params, disk, adrift, expired, seen, todo, broken, overrun, forgot,
                   faults>>

\* record_mandate, first statement: DELETE ... WHERE expires_at <= now.
PgPurge(c) ==
    /\ backend = "postgres"
    /\ pc[c] = "start"
    /\ kind[c] = "recordMandate"
    /\ rows' = Fresh(rows)
    /\ Goto(c, "insert")
    /\ UNCHANGED <<params, disk, adrift, expired, seen, todo, answer, history, faults>>

\* append_cart_event, the order updates, update_reservations_for_cart and
\* sweep_expired: SELECT first.
PgSelect(c) ==
    /\ backend = "postgres"
    /\ pc[c] = "start"
    /\ ~Blind(c)
    /\ IF Finds(c, rows)
       THEN /\ seen' = [seen EXCEPT ![c] = rows]
            /\ \E S \in Touched(c, rows) : todo' = [todo EXCEPT ![c] = S]
            /\ Goto(c, "update")
            /\ UNCHANGED answer
       ELSE Return(c, "no") /\ UNCHANGED <<seen, todo>>
    /\ UNCHANGED <<params, rows, disk, adrift, expired, history, faults>>

\* Mutant: the event list starts empty instead of with the selected row.
PgUpdate_StartsEmpty(c) ==
    /\ pc[c] = "update"
    /\ \E r \in todo[c] :
         /\ Write(c, {r}, NoRows)
         /\ todo' = [todo EXCEPT ![c] = @ \ {r}]
    /\ UNCHANGED <<params, disk, adrift, expired, pc, seen, answer, broken, overrun, forgot,
                   faults>>

\* Then each selected row is written back whole, one statement per row.
PgUpdate(c) ==
    /\ pc[c] = "update"
    /\ \E r \in todo[c] :
         /\ Write(c, {r}, seen[c])
         /\ todo' = [todo EXCEPT ![c] = @ \ {r}]
    /\ UNCHANGED <<params, disk, adrift, expired, pc, seen, answer, broken, overrun, forgot,
                   faults>>

PgReturn(c) ==
    /\ pc[c] = "update"
    /\ todo[c] = {}
    /\ Return(c, "yes")
    /\ seen' = [seen EXCEPT ![c] = NoRows]
    /\ UNCHANGED <<params, rows, disk, adrift, expired, todo, history, faults>>

-----------------------------------------------------------------------------
(* Time and faults.                                                        *)

\* A recorded mandate reaches its expires_at.
Expire(c) ==
    /\ kind[c] = "recordMandate"
    /\ answer[c] = "yes"
    /\ c \notin expired
    /\ expired' = expired \cup {c}
    /\ UNCHANGED <<params, rows, disk, adrift, pc, seen, todo, answer, history, faults>>

\* An I/O or SQL error leaves the call through `?`, or its handler is dropped.
\* What it did so far stays; PaymentStateStore::put hides the error.  A dropped
\* save lets go of the read lock, but tokio's blocking thread goes on: the file
\* may yet be created (truncated), or the bytes written.
Fail(c) ==
    /\ faults.fail < MaxFaults
    /\ faults' = [faults EXCEPT !.fail = @ + 1]
    /\ pc[c] # "done"
    /\ pc[c] = "start" => backend = "postgres"
    /\ Return(c, IF kind[c] = "putSilently" THEN "yes" ELSE "error")
    /\ todo' = [todo EXCEPT ![c] = {}]
    /\ seen' = [seen EXCEPT ![c] = NoRows]
    /\ broken' = (broken \/ backend = "file")
    /\ \/ UNCHANGED adrift
       \/ pc[c] = "save" /\ adrift' = adrift \cup {<<c, Torn>>}
       \/ pc[c] = "write" /\ adrift' = adrift \cup {<<c, seen[c]>>}
    /\ UNCHANGED <<params, rows, disk, expired, replaced, clobbered, late, overrun, forgot>>

\* The blocking thread of a dropped save gets to the file, under nobody's lock,
\* whatever has been saved since.  Bytes of two lengths over one another do not
\* parse.
Straggle ==
    /\ \E a \in adrift :
         /\ disk' \in {a[2], Torn}
         /\ adrift' = adrift \ {a}
    /\ broken' = TRUE
    /\ overrun' = TRUE
    /\ UNCHANGED <<params, rows, expired, pc, seen, todo, answer, replaced, clobbered,
                   late, forgot, faults>>

\* Mutant: open starts from an empty map.
Reload_Empty == NoRows

\* load_json(...).unwrap_or_default().
Reload == IF disk = Torn THEN NoRows ELSE disk

\* The process dies and is started again: calls in flight are gone, the map is
\* what the file holds.  The database outlives its clients.
Crash ==
    /\ faults.crash < MaxFaults
    /\ faults' = [faults EXCEPT !.crash = @ + 1]
    /\ rows' = IF backend = "postgres" THEN rows
               ELSE IF backend = "file" THEN Reload ELSE NoRows
    /\ forgot' = (forgot \/ backend = "memory" \/ disk = Torn \/ overrun)
    /\ broken' = (disk = Torn)
    /\ overrun' = FALSE
    /\ adrift' = {}
    /\ pc' = [c \in Call |-> IF pc[c] = "start" THEN "start" ELSE "done"]
    /\ answer' = [c \in Call |-> IF pc[c] \in {"start", "done"} THEN answer[c] ELSE "error"]
    /\ todo' = [c \in Call |-> {}]
    /\ seen' = [c \in Call |-> NoRows]
    /\ UNCHANGED <<params, disk, expired, replaced, clobbered, late>>

-----------------------------------------------------------------------------

Step(c) ==
    \/ Apply(c) \/ Decline(c) \/ SaveCreate(c) \/ SaveWrite(c) \/ SaveSync(c)
    \/ PgStatement(c) \/ PgPurge(c) \/ PgSelect(c) \/ PgUpdate(c) \/ PgReturn(c)

Next ==
    \/ \E c \in Call : Step(c) \/ Expire(c) \/ Fail(c)
    \/ Straggle
    \/ Crash

Spec == Init /\ [][Next]_vars

\* The runtime polls every call that can go on.
FairSpec == Spec /\ \A c \in Call : WF_vars(Step(c))

-----------------------------------------------------------------------------
(* Properties.                                                             *)

\* Types; and no call is answered before its last await.
TypeOK ==
    /\ backend \in Backends
    /\ target \in [Call -> Row]
    /\ rows \in [Row -> SUBSET Call]
    /\ disk = Torn \/ disk \in [Row -> SUBSET Call]
    /\ expired \subseteq Call
    /\ pc \in [Call -> {"start", "save", "write", "sync", "insert", "update", "done"}]
    /\ todo \in [Call -> SUBSET Row]
    /\ \A c \in Call : answer[c] # "none" <=> pc[c] = "done"

\* The file is never older than the map: when no call is on its way to the
\* file and no save was broken off, the file holds the map (expired mandates
\* apart), however the saves of several calls overlapped.
FileIsCurrent ==
    backend = "file" /\ ~broken /\ (\A c \in Call : pc[c] \in {"start", "done"})
        => disk # Torn /\ Fresh(disk) = Fresh(rows)

\* No call is answered before its last await (TypeOK), and one that was
\* answered has its effect in the store, restarts included, until another call
\* replaces it; only a restart that hits a save, or finds what a dropped call
\* wrote over it, or a payment-state write whose error is hidden, takes it away.
AnsweredIsStored ==
    /\ TypeOK
    /\ \A c \in Call :
         answer[c] = "yes" /\ kind[c] \notin {"remove", "updateAll", "sweep", "putSilently"}
             => \/ c \in rows[target[c]] \cup replaced \cup clobbered \cup expired
                \/ forgot

\* accept_once says yes to one call per message, and record_mandate to one
\* call per mandate until it expires, also across a restart that finds the
\* last save whole.
AcceptedOnce ==
    \A c, d \in Call :
            /\ c # d /\ target[c] = target[d]
            /\ kind[c] \in {"acceptOnce", "recordMandate"}
            /\ answer[c] = "yes" /\ answer[d] = "yes"
        => c \in expired \/ d \in expired \/ forgot

\* No update undoes another one: events, adjustments and reservation states are
\* lost only in Postgres, and there only an update made between the SELECT and
\* the write of another call, or one that was replaced already and came back
\* with such a write.
NoLostUpdate ==
    clobbered \subseteq IF backend = "postgres" THEN late \cup replaced ELSE {}

\* Nobody waits for ever: the write lock is dropped before the save takes the
\* read lock, and every save gives it back.
EveryCallEnds == <>(\A c \in Call : pc[c] = "done")
=============================================================================
