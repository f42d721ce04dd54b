------------------------------ MODULE Webhooks ------------------------------
(***************************************************************************)
(* Webhook registrations and the fan-out of an outbox message.             *)
(*                                                                         *)
(* A worker claims a message and calls WebhookDeliverer::deliver, which    *)
(* reads the tenant's active registrations once, posts to each of them in  *)
(* turn whatever became of the others, and fails if one post failed; the   *)
(* outbox then offers the whole message again, up to its attempt budget.   *)
(* The requests have no timeout: one may never end, and its worker with    *)
(* it.  A worker may die between two requests, and its lease may run out   *)
(* while it is still posting; both offer the message again with the count  *)
(* it had.  Registrations come and go meanwhile.                           *)
(*                                                                         *)
(* The store leases, as the Postgres one does.  Over the stores that pop,  *)
(* a lease never runs out, so that a message dies with its worker.  What   *)
(* else the outbox and dead-letter promise is the subject of Outbox.       *)
(***************************************************************************)
EXTENDS Naturals, FiniteSets

CONSTANTS
    Message,        \* outbox messages
    NoMessage,      \* no message
    Worker,         \* passes over the outbox that run at once
    Hook,           \* registration ids, each used once (a fresh UUID)
    Tenant,         \* tenants
    NoTenant,       \* the tenant of a message that has none, or a blank one
    Topic,          \* topics
    Healthy,        \* the hooks whose endpoint always answers 2xx, in time
    MaxAttempts,    \* outbox.max_attempts
    MaxStoreErrors, \* bound: reads of the registrations that fail
    MaxFaults       \* bound: deaths, requests that never end and deliveries
                    \* that outlast their lease, together

ASSUME WebhooksAssumption ==
    /\ NoMessage \notin Message
    /\ IsFiniteSet(Worker)
    /\ NoTenant \notin Tenant
    /\ Healthy \subseteq Hook
    /\ MaxAttempts \in Nat
    /\ MaxStoreErrors \in 0..MaxAttempts
    /\ MaxFaults \in Nat

NoHook == [tenant |-> NoTenant, topics |-> {}]

VARIABLES
    reg,      \* reg[h]: tenant and topics (all of them for no filter) of h
    active,   \* the registrations in the store
    sent,     \* sent[m]: tenant and topic of m
    stored,   \* messages in the outbox
    leased,   \* those of them whose lease has not run out
    attempts, \* attempts[m]: the count of failed deliveries stored with m
    dead,     \* messages in dead-letter
    wpc,      \* wpc[w]: "idle", "claimed", "posting", or "hung" in a request
    held,     \* held[w]: the message w has claimed
    tries,    \* tries[w]: the count in w's own copy of it
    todo,     \* todo[w]: registrations this delivery has still to post to
    failed,   \* failed[w]: last_error is set
    enqueued, \* history: messages that were put into the outbox
    posts,    \* history: posts[m][h], requests h's endpoint was sent
    failures, \* history: failures[m], deliveries of m that failed
    expiries, \* history: expiries[m], leases of m that ran out
    accepted, \* history: accepted[m], endpoints that answered 2xx
    since,    \* history: since[m], subscribers from the enqueueing of m till now,
              \* or till it was consumed
    consumed, \* history: messages acknowledged as delivered
    storeErrors,
    faults

hooks   == <<reg, active>>
rows    == <<stored, leased, attempts, dead>>
workers == <<wpc, held, tries, todo, failed>>
history == <<enqueued, posts, failures, expiries, accepted, since, consumed>>
budget  == <<storeErrors, faults>>
vars    == <<hooks, sent, rows, workers, history, budget>>

Init ==
    /\ reg = [h \in Hook |-> NoHook]
    /\ active = {}
    /\ sent = [m \in Message |-> [tenant |-> NoTenant, topic |-> CHOOSE t \in Topic : TRUE]]
    /\ stored = {} /\ leased = {} /\ dead = {}
    /\ attempts = [m \in Message |-> 0]
    /\ wpc = [w \in Worker |-> "idle"]
    /\ held = [w \in Worker |-> NoMessage]
    /\ tries = [w \in Worker |-> 0]
    /\ todo = [w \in Worker |-> {}]
    /\ failed = [w \in Worker |-> FALSE]
    /\ enqueued = {} /\ consumed = {}
    /\ posts = [m \in Message |-> [h \in Hook |-> 0]]
    /\ failures = [m \in Message |-> 0]
    /\ expiries = [m \in Message |-> 0]
    /\ accepted = [m \in Message |-> {}]
    /\ since = [m \in Message |-> {}]
    /\ storeErrors = 0 /\ faults = 0

\* Whether registration h asks for messages like s.
Subscribes(h, s) == reg[h].tenant = s.tenant /\ s.topic \in reg[h].topics

\* list_active_for_topic.
ActiveForTopic(s) == {h \in active : Subscribes(h, s)}

Fault == faults < MaxFaults /\ faults' = faults + 1

\* POST /webhooks: a registration under a fresh id for the caller's tenant.
Register(h, t, topics) ==
    /\ reg[h] = NoHook
    /\ reg' = [reg EXCEPT ![h] = [tenant |-> t, topics |-> topics]]
    /\ active' = active \cup {h}
    /\ UNCHANGED <<sent, rows, workers, history, budget>>

\* DELETE /webhooks/:id.  A delivery that has read h still posts to it.
Unregister(h) ==
    /\ h \in active
    /\ active' = active \ {h}
    /\ since' = [m \in Message |-> IF m \in consumed THEN since[m] ELSE since[m] \ {h}]
    /\ UNCHANGED <<reg, sent, rows, workers, enqueued, posts, failures, expiries, accepted,
                   consumed, budget>>

\* A message gets into the outbox.
Enqueue(m, s) ==
    /\ m \notin enqueued
    /\ enqueued' = enqueued \cup {m}
    /\ stored' = stored \cup {m}
    /\ sent' = [sent EXCEPT ![m] = s]
    /\ since' = [since EXCEPT ![m] = {h \in active : Subscribes(h, s)}]
    /\ UNCHANGED <<hooks, leased, attempts, dead, workers, posts, failures, expiries, accepted,
                   consumed, budget>>

-----------------------------------------------------------------------------
(* process_outbox_once_reporting and WebhookDeliverer::deliver.            *)

\* Worker w leases m and works on its own copy of it.
Claim(w, m) ==
    /\ wpc[w] = "idle"
    /\ m \in stored \ leased
    /\ leased' = leased \cup {m}
    /\ wpc' = [wpc EXCEPT ![w] = "claimed"]
    /\ held' = [held EXCEPT ![w] = m]
    /\ tries' = [tries EXCEPT ![w] = attempts[m]]
    /\ UNCHANGED <<hooks, sent, stored, attempts, dead, todo, failed, history, budget>>

Idle(w) ==
    /\ wpc' = [wpc EXCEPT ![w] = "idle"]
    /\ held' = [held EXCEPT ![w] = NoMessage]
    /\ tries' = [tries EXCEPT ![w] = 0]
    /\ todo' = [todo EXCEPT ![w] = {}]
    /\ failed' = [failed EXCEPT ![w] = FALSE]

\* The row of m is deleted, whoever holds its lease by now.
Ack(m) ==
    /\ stored' = stored \ {m}
    /\ leased' = leased \ {m}

\* Ok(()): the outbox drops the message.
Consume(w) ==
    /\ Ack(held[w])
    /\ consumed' = consumed \cup {held[w]}
    /\ Idle(w)
    /\ UNCHANGED <<attempts, dead, failures>>

\* Err(_): the row gets this copy's count and loses its lease, and is put back
\* if it is gone; or the message is dead-lettered and acknowledged.
Retry(w) ==
    LET m == held[w] IN
    /\ failures' = [failures EXCEPT ![m] = @ + 1]
    /\ \/ /\ tries[w] + 1 =< MaxAttempts
          /\ stored' = stored \cup {m}
          /\ leased' = leased \ {m}
          /\ attempts' = [attempts EXCEPT ![m] = tries[w] + 1]
          /\ UNCHANGED dead
       \/ /\ tries[w] + 1 > MaxAttempts
          /\ dead' = dead \cup {m}
          /\ Ack(m)
          /\ UNCHANGED attempts
    /\ Idle(w)
    /\ UNCHANGED consumed

\* deliver: no tenant, or nobody to tell.
DropUnroutable(w) ==
    /\ wpc[w] = "claimed"
    /\ LET s == sent[held[w]] IN s.tenant = NoTenant \/ ActiveForTopic(s) = {}
    /\ Consume(w)
    /\ UNCHANGED <<hooks, sent, enqueued, posts, expiries, accepted, since, budget>>

\* deliver: the registrations are read, once.
ReadRegistrations(w) ==
    /\ wpc[w] = "claimed"
    /\ sent[held[w]].tenant # NoTenant
    /\ ActiveForTopic(sent[held[w]]) # {}
    /\ todo' = [todo EXCEPT ![w] = ActiveForTopic(sent[held[w]])]
    /\ wpc' = [wpc EXCEPT ![w] = "posting"]
    /\ UNCHANGED <<hooks, sent, rows, held, tries, failed, history, budget>>

\* deliver: the store fails.
ReadFails(w) ==
    /\ wpc[w] = "claimed"
    /\ sent[held[w]].tenant # NoTenant
    /\ storeErrors < MaxStoreErrors
    /\ storeErrors' = storeErrors + 1
    /\ Retry(w)
    /\ UNCHANGED <<hooks, sent, enqueued, posts, expiries, accepted, since, faults>>

\* One request of the loop; the registrations come in any order.
Post(w, h) ==
    /\ wpc[w] = "posting"
    /\ h \in todo[w]
    /\ posts' = [posts EXCEPT ![held[w]][h] = @ + 1]
    /\ UNCHANGED <<hooks, sent, rows, held, tries, enqueued, failures, expiries, since,
                   consumed, storeErrors>>

\* The loop goes on to the next registration.
Ends(w, h) ==
    /\ todo' = [todo EXCEPT ![w] = @ \ {h}]
    /\ UNCHANGED <<wpc, faults>>

\* Mutant: only the last answer counts.
PostOk_ClearsError(w, h) ==
    /\ Post(w, h) /\ Ends(w, h)
    /\ accepted' = [accepted EXCEPT ![held[w]] = @ \cup {h}]
    /\ failed' = [failed EXCEPT ![w] = FALSE]

\* The endpoint answers 2xx.
PostOk(w, h) ==
    /\ Post(w, h) /\ Ends(w, h)
    /\ accepted' = [accepted EXCEPT ![held[w]] = @ \cup {h}]
    /\ UNCHANGED failed

\* Mutant: the loop stops at the first failure.
PostFails_Stops(w, h) ==
    /\ h \notin Healthy
    /\ Post(w, h)
    /\ todo' = [todo EXCEPT ![w] = {}]
    /\ failed' = [failed EXCEPT ![w] = TRUE]
    /\ UNCHANGED <<accepted, wpc, faults>>

\* Mutant: the failed registration is tried again at once.
PostFails_Again(w, h) ==
    /\ h \notin Healthy
    /\ Post(w, h)
    /\ failed' = [failed EXCEPT ![w] = TRUE]
    /\ UNCHANGED <<todo, accepted, wpc, faults>>

\* It answers something else, or the connection fails (it may have acted on the
\* request).
PostFails(w, h) ==
    /\ h \notin Healthy
    /\ Post(w, h) /\ Ends(w, h)
    /\ failed' = [failed EXCEPT ![w] = TRUE]
    /\ UNCHANGED accepted

\* It takes the request and never answers: the client has no timeout, and the
\* worker waits until its process dies.
PostHangs(w, h) ==
    /\ h \notin Healthy
    /\ Post(w, h)
    /\ Fault
    /\ todo' = [todo EXCEPT ![w] = @ \ {h}]
    /\ wpc' = [wpc EXCEPT ![w] = "hung"]
    /\ UNCHANGED <<failed, accepted>>

\* The loop is over.
Settle(w) ==
    /\ wpc[w] = "posting"
    /\ todo[w] = {}
    /\ IF failed[w] THEN Retry(w) ELSE Consume(w)
    /\ UNCHANGED <<hooks, sent, enqueued, posts, expiries, accepted, since, budget>>

\* The process of w dies at any await; it is started again.  The lease stays.
Die(w) ==
    /\ wpc[w] # "idle"
    /\ Fault
    /\ Idle(w)
    /\ UNCHANGED <<hooks, sent, rows, history, storeErrors>>

\* Someone is delivering m and will end.
UnderWay(m) == \E w \in Worker : held[w] = m /\ wpc[w] # "hung"

\* OUTBOX_LEASE_SECONDS are over: the row is offered again as it is.  A delivery
\* that is still under way goes on.
LeaseExpires(m) ==
    /\ m \in leased
    /\ leased' = leased \ {m}
    /\ expiries' = [expiries EXCEPT ![m] = @ + 1]
    /\ IF UnderWay(m) THEN Fault ELSE UNCHANGED faults
    /\ UNCHANGED <<hooks, sent, stored, attempts, dead, workers, enqueued, posts, failures,
                   accepted, since, consumed, storeErrors>>

-----------------------------------------------------------------------------

Deliver(w) ==
    \/ \E m \in Message : Claim(w, m)
    \/ DropUnroutable(w) \/ ReadRegistrations(w) \/ Settle(w)
    \/ \E h \in Hook : PostOk(w, h) \/ PostFails(w, h)

Next ==
    \/ \E h \in Hook :
         \/ Unregister(h)
         \/ \E t \in Tenant, topics \in SUBSET Topic : Register(h, t, topics)
    \/ \E m \in Message :
         \/ LeaseExpires(m)
         \/ \E t \in Tenant \cup {NoTenant}, p \in Topic :
              Enqueue(m, [tenant |-> t, topic |-> p])
    \/ \E w \in Worker :
         \/ Deliver(w) \/ ReadFails(w) \/ Die(w)
         \/ \E h \in Hook : PostHangs(w, h)

Spec == Init /\ [][Next]_vars

\* The outbox processor keeps claiming, a worker that is not hung goes on, and a
\* lease runs out by the clock when no delivery that ends is under way.  Nothing
\* makes a request end, or a hung worker die.
FairSpec ==
    /\ Spec
    /\ \A w \in Worker : WF_vars(Deliver(w))
    /\ \A m \in Message : WF_vars(~UnderWay(m) /\ LeaseExpires(m))

-----------------------------------------------------------------------------
(* Properties.                                                             *)

\* Types; no copy of a message is offered after max_attempts failures.
TypeOK ==
    /\ active \subseteq {h \in Hook : reg[h] # NoHook}
    /\ leased \subseteq stored /\ stored \subseteq enqueued /\ enqueued \subseteq Message
    /\ consumed \subseteq enqueued /\ dead \subseteq enqueued
    /\ attempts \in [Message -> 0..MaxAttempts]
    /\ wpc \in [Worker -> {"idle", "claimed", "posting", "hung"}]
    /\ held \in [Worker -> Message \cup {NoMessage}]
    /\ tries \in [Worker -> 0..MaxAttempts]
    /\ todo \in [Worker -> SUBSET Hook]
    /\ accepted \in [Message -> SUBSET Hook]
    /\ \A w \in Worker : held[w] = NoMessage <=> wpc[w] = "idle"

\* A message is consumed only when every subscriber that was there all along
\* has accepted it: a failure of one is not covered up by the others, nor by a
\* second worker that delivers the message after a lease ran out.
NobodySkipped == \A m \in consumed : since[m] \subseteq accepted[m]

\* A message is posted only to registrations of its own tenant that asked for its
\* topic, however registrations change between the attempts, and an endpoint is
\* sent it again only because a delivery of it failed or outlived its lease (its
\* worker died, hung or was slow), once for each.
PostsAreEarned ==
    /\ TypeOK
    /\ \A m \in Message, h \in Hook :
         posts[m][h] =< IF Subscribes(h, sent[m]) THEN failures[m] + expiries[m] + 1 ELSE 0

\* An endpoint that answers gets every message it subscribed to in time, even if
\* others fail until the message ends in dead-letter, and workers die or hang;
\* unless every worker is stuck in a request to somebody else that never ends.
HealthyIsServed ==
    \A m \in Message, h \in Healthy :
        h \in since[m] ~> \/ h \in accepted[m] \/ h \notin since[m]
                         \/ \A w \in Worker : wpc[w] = "hung"
=============================================================================
