------------------------------- MODULE Outbox -------------------------------
(***************************************************************************)
(* The outbox, its delivery workers and the dead-letter queue.             *)
(*                                                                         *)
(* Every replica runs an OutboxProcessor, and POST /ops/outbox/process     *)
(* starts further passes by hand; each is a worker that calls              *)
(* Runner::process_outbox_once_reporting in a loop.  Two kinds of store    *)
(* stand behind it.  The Postgres store leases: claim stamps the row,      *)
(* ack deletes it, release ends the lease.  The file and in-process stores *)
(* pop: claim removes the message, ack does nothing, release appends it.   *)
(*                                                                         *)
(* Each SQL statement is one step.  Time is abstract: a lease may run out  *)
(* once nobody is delivering its message, and, in a behaviour that is      *)
(* slow, while somebody still is (the webhook client has no timeout).      *)
(***************************************************************************)
EXTENDS Naturals, Sequences, SequencesExt

CONSTANTS
    Message,      \* the messages checkouts enqueue, by id
    NoMessage,    \* no message
    Worker,       \* the passes over the outbox that run at once
    MaxAttempts,  \* outbox.max_attempts
    Stores,       \* the kinds of store that may stand behind the runner
    MaxFaults     \* bound: workers that die midway and replays, together

ASSUME OutboxAssumption ==
    /\ NoMessage \notin Message
    /\ MaxAttempts \in Nat
    /\ Stores \subseteq {"lease", "pop"}
    /\ MaxFaults \in Nat

VARIABLES
    store,     \* the store the runner was started with
    slow,      \* whether a delivery may outlast its lease
    queue,     \* ids of the stored messages, oldest first
    attempts,  \* attempts[m]: the attempt count stored with m
    leased,    \* messages whose lease has not run out
    dead,      \* ids in dead-letter
    wpc,       \* wpc[w]: the await worker w is at
    held,      \* held[w]: the message w has claimed
    tries,     \* tries[w]: the attempt count of w's own copy of it
    replaying, \* messages taken from dead-letter and not yet enqueued
    enqueued,  \* history: messages a checkout enqueued
    delivered, \* history: delivered[m], deliveries every subscriber accepted
    failures,  \* history: failures[m], failed deliveries since its last replay,
               \* at most MaxAttempts + 1
    crashes,   \* workers that died midway
    replays    \* messages replayed from dead-letter

workers == <<wpc, held, tries>>
history == <<enqueued, delivered, failures>>
budget  == <<crashes, replays, store, slow>>
vars    == <<queue, attempts, leased, dead, workers, replaying, history, budget>>

Init ==
    /\ store \in Stores
    /\ slow \in BOOLEAN
    /\ queue = <<>>
    /\ attempts = [m \in Message |-> 0]
    /\ leased = {}
    /\ dead = {}
    /\ wpc = [w \in Worker |-> "idle"]
    /\ held = [w \in Worker |-> NoMessage]
    /\ tries = [w \in Worker |-> 0]
    /\ replaying = {}
    /\ enqueued = {}
    /\ delivered = [m \in Message |-> 0]
    /\ failures = [m \in Message |-> 0]
    /\ crashes = 0
    /\ replays = 0

Leases == store = "lease"

Stored(m) == Contains(queue, m)

\* Mutant: the attempt count is not stored.
Put_ForgetsAttempts(m, n) ==
    /\ queue' = IF Leases /\ Stored(m) THEN queue ELSE Append(queue, m)
    /\ attempts' = [attempts EXCEPT ![m] = 0]
    /\ leased' = leased \ {m}

\* OutboxStore::enqueue.  Postgres upserts by message id: a row that is there
\* keeps its place but gets the new message and loses its lease.  The other
\* stores append.
Put(m, n) ==
    /\ queue' = IF Leases /\ Stored(m) THEN queue ELSE Append(queue, m)
    /\ attempts' = [attempts EXCEPT ![m] = n]
    /\ leased' = leased \ {m}

\* The row of m, if there is one, is deleted by its key.
Delete(m) ==
    queue' = IF Stored(m)
             THEN RemoveAt(queue, CHOOSE i \in 1..Len(queue) : queue[i] = m)
             ELSE queue

\* Worker w has nothing in hand any more.
Idle(w) ==
    /\ wpc' = [wpc EXCEPT ![w] = "idle"]
    /\ held' = [held EXCEPT ![w] = NoMessage]
    /\ tries' = [tries EXCEPT ![w] = 0]

Goto(w, label) == wpc' = [wpc EXCEPT ![w] = label]

\* What the history keeps of a failed delivery: one more than the budget is many.
CountFailure(m) ==
    failures' = [failures EXCEPT ![m] = IF @ > MaxAttempts THEN @ ELSE @ + 1]

\* A checkout enqueues its order.created message (runner.rs execute_checkout).
Enqueue(m) ==
    /\ m \notin enqueued
    /\ enqueued' = enqueued \cup {m}
    /\ Put(m, 0)
    /\ UNCHANGED <<dead, workers, replaying, delivered, failures, budget>>

-----------------------------------------------------------------------------
(* process_outbox_once_reporting.                                          *)

\* The oldest message that nobody holds a lease on.
Claimable(i) ==
    /\ queue[i] \notin leased
    /\ \A j \in 1..(i - 1) : queue[j] \in leased

\* Mutant: claiming removes the message whatever the store.
Claim_Dequeues(w) ==
    /\ wpc[w] = "idle"
    /\ \E i \in 1..Len(queue) :
         /\ Claimable(i)
         /\ held' = [held EXCEPT ![w] = queue[i]]
         /\ tries' = [tries EXCEPT ![w] = attempts[queue[i]]]
         /\ queue' = RemoveAt(queue, i)
    /\ Goto(w, "deliver")
    /\ UNCHANGED <<leased, attempts, dead, replaying, history, budget>>

\* What the store keeps of a claimed message: the leased row, or nothing.
Claim(w) ==
    /\ wpc[w] = "idle"
    /\ \E i \in 1..Len(queue) :
         /\ Claimable(i)
         /\ held' = [held EXCEPT ![w] = queue[i]]
         /\ tries' = [tries EXCEPT ![w] = attempts[queue[i]]]
         /\ IF Leases
            THEN leased' = leased \cup {queue[i]} /\ UNCHANGED queue
            ELSE queue' = RemoveAt(queue, i) /\ UNCHANGED leased
    /\ Goto(w, "deliver")
    /\ UNCHANGED <<attempts, dead, replaying, history, budget>>

\* Every subscriber accepted the message, or it has none.
DeliverOk(w) ==
    /\ wpc[w] = "deliver"
    /\ delivered' = [delivered EXCEPT ![held[w]] = @ + 1]
    /\ Goto(w, "ack")
    /\ UNCHANGED <<queue, attempts, leased, dead, held, tries, replaying,
                   enqueued, failures, budget>>

\* Mutant: the attempt that would be the last allowed one is not made.
DeliverFails_OneShort(w) ==
    /\ wpc[w] = "deliver"
    /\ CountFailure(held[w])
    /\ tries' = [tries EXCEPT ![w] = @ + 1]
    /\ Goto(w, IF tries[w] + 1 >= MaxAttempts THEN "bury" ELSE "release")
    /\ UNCHANGED <<queue, attempts, leased, dead, held, replaying,
                   enqueued, delivered, budget>>

\* Some subscriber did not: the copy's attempt count decides what follows.
DeliverFails(w) ==
    /\ wpc[w] = "deliver"
    /\ CountFailure(held[w])
    /\ tries' = [tries EXCEPT ![w] = @ + 1]
    /\ Goto(w, IF tries[w] + 1 > MaxAttempts THEN "bury" ELSE "release")
    /\ UNCHANGED <<queue, attempts, leased, dead, held, replaying,
                   enqueued, delivered, budget>>

\* dead_letter.put; the ack is a later await.
Bury(w) ==
    /\ wpc[w] = "bury"
    /\ dead' = dead \cup {held[w]}
    /\ Goto(w, "ack")
    /\ UNCHANGED <<queue, attempts, leased, held, tries, replaying, history, budget>>

\* Mutant: a delivered message is left in the store.
Ack_Nothing(w) ==
    /\ wpc[w] = "ack"
    /\ Idle(w)
    /\ UNCHANGED <<queue, leased, attempts, dead, replaying, history, budget>>

\* Postgres deletes the row by message id, whoever holds its lease by now; the
\* other stores have nothing left to delete.
Ack(w) ==
    /\ wpc[w] = "ack"
    /\ IF Leases
       THEN Delete(held[w]) /\ leased' = leased \ {held[w]}
       ELSE UNCHANGED <<queue, leased>>
    /\ Idle(w)
    /\ UNCHANGED <<attempts, dead, replaying, history, budget>>

\* The row gets this copy's count and loses its lease, whoever holds it by now;
\* a row that is gone is enqueued again.  The other stores append.
Release(w) ==
    /\ wpc[w] = "release"
    /\ Put(held[w], tries[w])
    /\ Idle(w)
    /\ UNCHANGED <<dead, replaying, history, budget>>

-----------------------------------------------------------------------------
(* Time, failures and the operator.                                        *)

\* Mutant: only the lease of a message that somebody still holds runs out.
LeaseExpires_OnlyHeld(m) ==
    /\ m \in leased
    /\ \E w \in Worker : held[w] = m
    /\ leased' = leased \ {m}
    /\ UNCHANGED <<queue, attempts, dead, workers, replaying, history, budget>>

\* 60 s after the claim the row is offered again.
LeaseExpires(m) ==
    /\ m \in leased
    /\ slow \/ \A w \in Worker : held[w] # m
    /\ leased' = leased \ {m}
    /\ UNCHANGED <<queue, attempts, dead, workers, replaying, history, budget>>

\* The worker dies, or a store call fails and the `?` leaves; a later pass
\* starts afresh.
Crash(w) ==
    /\ crashes + replays < MaxFaults
    /\ wpc[w] # "idle"
    /\ crashes' = crashes + 1
    /\ Idle(w)
    /\ UNCHANGED <<queue, attempts, leased, dead, replaying, history, replays, store, slow>>

\* replay_from_dead_letter, first await: dead_letter.take.
ReplayTake(m) ==
    /\ crashes + replays < MaxFaults
    /\ m \in dead
    /\ dead' = dead \ {m}
    /\ replaying' = replaying \cup {m}
    /\ replays' = replays + 1
    /\ UNCHANGED <<queue, attempts, leased, workers, history, crashes, store, slow>>

\* Second await: outbox.enqueue with attempts reset.
ReplayEnqueue(m) ==
    /\ m \in replaying
    /\ replaying' = replaying \ {m}
    /\ Put(m, 0)
    /\ failures' = [failures EXCEPT ![m] = 0]
    /\ UNCHANGED <<dead, workers, enqueued, delivered, budget>>

\* The replaying process dies, or enqueue fails, between the two.
ReplayCrash(m) ==
    /\ m \in replaying
    /\ replaying' = replaying \ {m}
    /\ UNCHANGED <<queue, attempts, leased, dead, workers, history, budget>>

-----------------------------------------------------------------------------

Work(w) ==
    \/ Claim(w) \/ DeliverOk(w) \/ DeliverFails(w)
    \/ Bury(w) \/ Ack(w) \/ Release(w)

Next ==
    \/ \E m \in Message :
         \/ Enqueue(m) \/ LeaseExpires(m)
         \/ ReplayTake(m) \/ ReplayEnqueue(m) \/ ReplayCrash(m)
    \/ \E w \in Worker : Work(w) \/ Crash(w)

Spec == Init /\ [][Next]_vars

\* OutboxProcessor::run polls for as long as its replica is up, a replay that
\* was started runs on, and time passes.
FairSpec ==
    /\ Spec
    /\ \A w \in Worker : WF_vars(Work(w))
    /\ \A m \in Message : WF_vars(LeaseExpires(m)) /\ WF_vars(ReplayEnqueue(m))

-----------------------------------------------------------------------------
(* Properties.                                                             *)

\* Types; and no message goes back to the outbox with more failed attempts than
\* max_attempts, whichever worker's copy was written last.
TypeOK ==
    /\ store \in Stores
    /\ slow \in BOOLEAN
    /\ queue \in Seq(Message)
    /\ attempts \in [Message -> 0..MaxAttempts]
    /\ leased \subseteq Message
    /\ dead \subseteq Message
    /\ wpc \in [Worker -> {"idle", "deliver", "bury", "ack", "release"}]
    /\ held \in [Worker -> Message \cup {NoMessage}]
    /\ tries \in [Worker -> 0..(MaxAttempts + 1)]
    /\ replaying \subseteq Message
    /\ enqueued \subseteq Message
    /\ delivered \in [Message -> Nat]
    /\ failures \in [Message -> 0..(MaxAttempts + 1)]
    /\ crashes \in Nat
    /\ replays \in Nat

\* The code gives messages up in two places: a store that pops forgets a message
\* whose worker dies, and an operator's replay can lose the one it replays.
GivenUp == replays > 0 \/ (~Leases /\ crashes > 0)

\* No event is lost: a message that was enqueued is still stored, is in
\* dead-letter, was delivered, or (a store that pops) is in a worker's hands.
\* Replays and a crash under a store that pops are excepted.
NothingLost ==
    ~GivenUp =>
        \A m \in enqueued :
            \/ Stored(m)
            \/ m \in dead
            \/ delivered[m] > 0
            \/ ~Leases /\ \E w \in Worker : held[w] = m

\* Attempt counts stay within the budget (TypeOK), and a message is
\* dead-lettered only after more than max_attempts deliveries of it failed
\* since its last replay, however its copies were passed around.  (If
\* it was offered again after a slow delivery or a crash, a worker may bury the
\* copy it took before the replay.)
DeadLetterIsEarned ==
    /\ TypeOK
    /\ replays = 0 \/ (~slow /\ crashes = 0) =>
         \A m \in dead : failures[m] > MaxAttempts

\* No message is delivered twice while deliveries end within their lease and no
\* worker dies: two workers never both get a message through to its subscribers,
\* however claim, ack, release and replay interleave.
DeliveredOnce == ~slow /\ crashes = 0 => \A m \in Message : delivered[m] =< 1

\* Every message a checkout enqueues is eventually delivered or dead-lettered,
\* also if deliveries are slow and if the worker that claimed it dies (with a
\* store that leases), unless the code gave messages up.
EventuallyHandled ==
    \A m \in Message :
        m \in enqueued ~> (delivered[m] > 0 \/ m \in dead \/ GivenUp)

\* The outbox is emptied again and again: no message, and no stale copy put
\* back by a slow worker, circulates for ever.
OutboxDrains == []<>(queue = <<>>)
=============================================================================
