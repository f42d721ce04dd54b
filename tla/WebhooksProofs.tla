--------------------------- MODULE WebhooksProofs ---------------------------
(***************************************************************************)
(* Proofs about Webhooks, for any number of messages, workers,             *)
(* registrations, tenants and topics, and any attempt budget.              *)
(***************************************************************************)
EXTENDS Webhooks, FiniteSetTheorems, TLAPS

Registration == [tenant : Tenant \cup {NoTenant}, topics : SUBSET Topic]

\* The topics, and the one a message that was not sent yet has.
AnyTopic == Topic \cup {CHOOSE t \in Topic : TRUE}

\* The types of the variables TypeOK leaves out.
MoreTypes ==
    /\ reg \in [Hook -> Registration]
    /\ sent \in [Message -> [tenant : Tenant \cup {NoTenant}, topic : AnyTopic]]
    /\ failed \in [Worker -> BOOLEAN]
    /\ posts \in [Message -> [Hook -> Nat]]
    /\ failures \in [Message -> Nat]
    /\ expiries \in [Message -> Nat]
    /\ since \in [Message -> SUBSET Hook]

\* What a worker holds was enqueued, and only a worker that posts has
\* registrations to post to.
Holding ==
    \A w \in Worker :
      /\ held[w] \in enqueued \cup {NoMessage}
      /\ wpc[w] \in {"idle", "claimed"} => todo[w] = {} /\ failed[w] = FALSE

Types == TypeOK /\ MoreTypes /\ Holding

\* The type invariant.
LEMMA TypesHold == Spec => []Types
<1> USE WebhooksAssumption
<1>1. Init => Types
  BY DEF Init, Types, TypeOK, MoreTypes, Holding, NoHook, Registration, AnyTopic
<1>2. Types /\ [Next]_vars => Types'
  <2> SUFFICES ASSUME Types, [Next]_vars PROVE Types'
    OBVIOUS
  <2> USE DEF Types, TypeOK, MoreTypes, Holding, hooks, rows, workers, history, budget
  <2>1. ASSUME NEW h \in Hook, NEW t \in Tenant, NEW topics \in SUBSET Topic,
               Register(h, t, topics)
        PROVE Types'
    <3>1. [tenant |-> t, topics |-> topics] \in Registration \ {NoHook}
      BY DEF NoHook, Registration
    <3>2. QED
      BY <3>1, <2>1 DEF Register
  <2>2. ASSUME NEW h \in Hook, Unregister(h) PROVE Types'
    BY <2>2 DEF Unregister
  <2>3. ASSUME NEW m \in Message, NEW t \in Tenant \cup {NoTenant}, NEW p \in Topic,
               Enqueue(m, [tenant |-> t, topic |-> p])
        PROVE Types'
    <3>1. /\ [tenant |-> t, topic |-> p] \in [tenant : Tenant \cup {NoTenant}, topic : AnyTopic]
          /\ {h \in active : Subscribes(h, [tenant |-> t, topic |-> p])} \in SUBSET Hook
      BY DEF AnyTopic
    <3>2. QED
      BY <3>1, <2>3 DEF Enqueue
  <2>4. ASSUME NEW w \in Worker, NEW m \in Message, Claim(w, m) PROVE Types'
    BY <2>4 DEF Claim
  <2>5. ASSUME NEW w \in Worker, DropUnroutable(w) PROVE Types'
    BY <2>5 DEF DropUnroutable, Consume, Ack, Idle
  <2>6. ASSUME NEW w \in Worker, ReadRegistrations(w) PROVE Types'
    <3>1. ActiveForTopic(sent[held[w]]) \in SUBSET Hook
      BY DEF ActiveForTopic
    <3>2. /\ todo' \in [Worker -> SUBSET Hook]
          /\ wpc' \in [Worker -> {"idle", "claimed", "posting", "hung"}]
          /\ \A v \in Worker : wpc'[v] \in {"idle", "claimed"} => todo'[v] = todo[v]
          /\ \A v \in Worker : wpc'[v] = "idle" <=> wpc[v] = "idle"
          /\ \A v \in Worker : wpc'[v] \in {"idle", "claimed"} <=> (v # w /\ wpc[v] \in {"idle", "claimed"})
      BY <3>1, <2>6 DEF ReadRegistrations
    <3>3. UNCHANGED <<hooks, sent, rows, held, tries, failed, history, budget>>
      BY <2>6 DEF ReadRegistrations
    <3>4. QED
      BY <3>2, <3>3
  <2>7. ASSUME NEW w \in Worker, wpc[w] # "idle", Retry(w),
               UNCHANGED <<hooks, sent, enqueued, posts, expiries, accepted, since>>
        PROVE Types'
    <3>1. held[w] \in enqueued /\ held[w] \in Message /\ tries[w] \in 0..MaxAttempts
      BY <2>7
    <3>2. /\ wpc' \in [Worker -> {"idle", "claimed", "posting", "hung"}]
          /\ held' \in [Worker -> Message \cup {NoMessage}]
          /\ tries' \in [Worker -> 0..MaxAttempts]
          /\ todo' \in [Worker -> SUBSET Hook]
          /\ failed' \in [Worker -> BOOLEAN]
          /\ \A v \in Worker : held'[v] = NoMessage <=> wpc'[v] = "idle"
      BY <2>7 DEF Retry, Idle
    <3>3. Holding'
      BY <2>7 DEF Retry, Idle
    <3>4. /\ attempts' \in [Message -> 0..MaxAttempts]
          /\ failures' \in [Message -> Nat]
          /\ leased' \subseteq stored' /\ stored' \subseteq enqueued /\ dead' \subseteq enqueued
          /\ consumed' = consumed
      BY <3>1, <2>7 DEF Retry, Ack
    <3>5. QED
      BY <3>2, <3>3, <3>4, <2>7
  <2>8. ASSUME NEW w \in Worker, NEW h \in Hook, PostOk(w, h) PROVE Types'
    BY <2>8 DEF PostOk, Post, Ends
  <2>9. ASSUME NEW w \in Worker, NEW h \in Hook, PostFails(w, h) PROVE Types'
    BY <2>9 DEF PostFails, Post, Ends
  <2>10. ASSUME NEW w \in Worker, NEW h \in Hook, PostHangs(w, h) PROVE Types'
    BY <2>10 DEF PostHangs, Post
  <2>11. ASSUME NEW w \in Worker, Settle(w) PROVE Types'
    <3>1. CASE Retry(w)
      BY <2>7, <2>11, <3>1 DEF Settle
    <3>2. CASE Consume(w)
      BY <2>11, <3>2 DEF Settle, Consume, Ack, Idle
    <3>3. QED
      BY <2>11, <3>1, <3>2, Zenon DEF Settle
  <2>12. ASSUME NEW w \in Worker, Die(w) PROVE Types'
    BY <2>12 DEF Die, Idle
  <2>13. ASSUME NEW m \in Message, LeaseExpires(m) PROVE Types'
    BY <2>13 DEF LeaseExpires
  <2>14. CASE UNCHANGED vars
    BY <2>14 DEF vars
  <2>15. ASSUME NEW w \in Worker, ReadFails(w) PROVE Types'
    BY <2>7, <2>15 DEF ReadFails
  <2>16. QED
    BY <2>1, <2>2, <2>3, <2>4, <2>5, <2>6, <2>8, <2>9, <2>10, <2>11, <2>12, <2>13, <2>14,
       <2>15 DEF Next, Deliver
<1>3. QED
  BY <1>1, <1>2, PTL DEF Spec

-----------------------------------------------------------------------------
(* Whom a message goes to.                                                 *)

\* A delivery posts to subscribers of its message, and did so before.
ToSubscribers ==
    /\ \A w \in Worker : \A h \in todo[w] : Subscribes(h, sent[held[w]])
    /\ \A m \in Message, h \in Hook :
         posts[m][h] # 0 => m \in enqueued /\ Subscribes(h, sent[m])

\* Registrations are not changed once made, so that what subscribed still does.
LEMMA ToSubscribersHolds == Spec => []ToSubscribers
<1> USE WebhooksAssumption
<1>1. Init => ToSubscribers
  BY DEF Init, ToSubscribers
<1>2. Types /\ ToSubscribers /\ [Next]_vars => ToSubscribers'
  <2> SUFFICES ASSUME Types, ToSubscribers, [Next]_vars PROVE ToSubscribers'
    OBVIOUS
  <2>0. /\ reg \in [Hook -> Registration]
        /\ sent \in [Message -> [tenant : Tenant \cup {NoTenant}, topic : AnyTopic]]
        /\ held \in [Worker -> Message \cup {NoMessage}]
        /\ todo \in [Worker -> SUBSET Hook]
        /\ posts \in [Message -> [Hook -> Nat]]
        /\ \A w \in Worker : wpc[w] \in {"idle", "claimed"} => todo[w] = {}
        /\ \A w \in Worker : held[w] \in enqueued \cup {NoMessage}
        /\ \A w \in Worker : held[w] = NoMessage <=> wpc[w] = "idle"
        /\ enqueued \subseteq Message
    BY DEF Types, TypeOK, MoreTypes, Holding
  <2> USE <2>0 DEF ToSubscribers
  <2> USE DEF hooks, rows, workers, history, budget
  <2>1. ASSUME NEW h \in Hook, NEW t \in Tenant, NEW topics \in SUBSET Topic,
               Register(h, t, topics)
        PROVE ToSubscribers'
    <3>1. \A s : \A k \in Hook : Subscribes(k, s) => reg'[k] = reg[k]
      BY <2>1 DEF Register, NoHook, Subscribes
    <3>2. \A s : \A k \in Hook : Subscribes(k, s) => Subscribes(k, s)'
      BY <3>1 DEF Subscribes
    <3>3. UNCHANGED <<todo, sent, held, posts, enqueued>>
      BY <2>1 DEF Register
    <3>4. QED
      BY <3>2, <3>3 DEF Subscribes
  <2>2. ASSUME NEW h \in Hook, Unregister(h) PROVE ToSubscribers'
    BY <2>2 DEF Unregister, Subscribes
  <2>3. ASSUME NEW m \in Message, NEW t \in Tenant \cup {NoTenant}, NEW p \in Topic,
               Enqueue(m, [tenant |-> t, topic |-> p])
        PROVE ToSubscribers'
    <3>1. \A n \in enqueued : sent'[n] = sent[n]
      BY <2>3 DEF Enqueue
    <3>2. UNCHANGED <<reg, todo, held, wpc, posts>> /\ enqueued \subseteq enqueued'
      BY <2>3 DEF Enqueue
    <3>3. \A w \in Worker : todo[w] # {} => held[w] \in enqueued
      OBVIOUS
    <3>4. QED
      BY <3>1, <3>2, <3>3 DEF Subscribes
  <2>4. ASSUME NEW w \in Worker, NEW m \in Message, Claim(w, m) PROVE ToSubscribers'
    BY <2>4 DEF Claim, Subscribes
  <2>5. ASSUME NEW w \in Worker, Idle(w), UNCHANGED <<reg, sent, posts, enqueued>>
        PROVE ToSubscribers'
    BY <2>5 DEF Idle, Subscribes
  <2>6. ASSUME NEW w \in Worker, ReadRegistrations(w) PROVE ToSubscribers'
    <3>1. \A h \in ActiveForTopic(sent[held[w]]) : Subscribes(h, sent[held[w]])
      BY DEF ActiveForTopic
    <3>2. UNCHANGED <<reg, sent, held, posts, enqueued>>
      BY <2>6 DEF ReadRegistrations
    <3>3. \A v \in Worker : todo'[v] = IF v = w THEN ActiveForTopic(sent[held[w]]) ELSE todo[v]
      BY <2>6 DEF ReadRegistrations
    <3>4. QED
      BY <3>1, <3>2, <3>3 DEF Subscribes
  <2>7. ASSUME NEW w \in Worker, NEW h \in todo[w], Post(w, h), todo' = [todo EXCEPT ![w] = @ \ {h}]
        PROVE ToSubscribers'
    <3>1. Subscribes(h, sent[held[w]]) /\ held[w] \in enqueued
      BY <2>7
    <3>2. UNCHANGED <<reg, sent, held, enqueued>>
      BY <2>7 DEF Post
    <3>3. \A m \in Message, k \in Hook : posts'[m][k] # posts[m][k] => m = held[w] /\ k = h
      BY <2>7 DEF Post
    <3>4. \A v \in Worker : todo'[v] \subseteq todo[v]
      BY <2>7
    <3>5. QED
      BY <3>1, <3>2, <3>3, <3>4 DEF Subscribes
  <2>8. ASSUME NEW w \in Worker, NEW h \in Hook, PostOk(w, h) \/ PostFails(w, h) \/ PostHangs(w, h)
        PROVE ToSubscribers'
    BY <2>7, <2>8 DEF PostOk, PostFails, PostHangs, Post, Ends
  <2>9. ASSUME NEW m \in Message, LeaseExpires(m) PROVE ToSubscribers'
    BY <2>9 DEF LeaseExpires, Subscribes
  <2>10. CASE UNCHANGED vars
    BY <2>10 DEF vars, Subscribes
  <2>11. ASSUME NEW w \in Worker, DropUnroutable(w) \/ ReadFails(w) \/ Settle(w) \/ Die(w)
         PROVE ToSubscribers'
    BY <2>5, <2>11 DEF DropUnroutable, ReadFails, Settle, Die, Retry, Consume
  <2>12. QED
    BY <2>1, <2>2, <2>3, <2>4, <2>6, <2>8, <2>9, <2>10, <2>11 DEF Next, Deliver
<1>3. QED
  BY <1>1, <1>2, TypesHold, PTL DEF Spec

-----------------------------------------------------------------------------
(* How often.                                                              *)

\* The workers whose delivery of m may still post to h.
Pending(m, h) == {w \in Worker : held[w] = m /\ (wpc[w] = "claimed" \/ h \in todo[w])}

Offered(m) == IF m \in stored \ leased THEN 1 ELSE 0

Earned(m) == failures[m] + expiries[m] + 1

\* The requests an endpoint was sent, those it may still be sent by workers that
\* hold the message, and the next claim if one is possible, are paid for.
Budgeted ==
    \A m \in enqueued, h \in Hook :
        posts[m][h] + Cardinality(Pending(m, h)) + Offered(m) =< Earned(m)

\* A step makes m claimable only against a failure or an expiry.
Paid(m) ==
    \/ Earned(m)' >= Earned(m) + 1
    \/ /\ Earned(m)' >= Earned(m)
       /\ m \in (stored \ leased)' => m \in stored \ leased

\* Sets of workers have a size, which grows with them and counts a new member.
LEMMA WorkersAreFinite ==
    ASSUME NEW S \in SUBSET Worker
    PROVE  /\ Cardinality(S) \in Nat
           /\ \A T \in SUBSET S : Cardinality(T) \in Nat /\ Cardinality(T) =< Cardinality(S)
           /\ \A w \in S : Cardinality(S \ {w}) = Cardinality(S) - 1
           /\ \A w \in Worker \ S : Cardinality(S \cup {w}) = Cardinality(S) + 1
<1>1. IsFiniteSet(S)
  BY WebhooksAssumption, FS_Subset
<1>2. Cardinality(S) \in Nat
  BY <1>1, FS_CardinalityType
<1>3. \A T \in SUBSET S : Cardinality(T) \in Nat /\ Cardinality(T) =< Cardinality(S)
  <2> TAKE T \in SUBSET S
  <2>1. IsFiniteSet(T) /\ Cardinality(T) =< Cardinality(S)
    BY <1>1, FS_Subset
  <2>2. QED
    BY <2>1, FS_CardinalityType
<1>4. \A w \in S : Cardinality(S \ {w}) = Cardinality(S) - 1
  BY <1>1, FS_RemoveElement
<1>5. \A w \in Worker \ S : Cardinality(S \cup {w}) = Cardinality(S) + 1
  BY <1>1, FS_AddElement
<1>6. QED
  BY <1>2, <1>3, <1>4, <1>5

\* A step that lets no further worker post, and makes a message claimable only
\* against a failure or an expiry, keeps within the budget.
LEMMA BudgetKept ==
    ASSUME Types, Budgeted,
           UNCHANGED <<posts, enqueued>>,
           MoreTypes',
           \A m \in enqueued, h \in Hook : Pending(m, h)' \subseteq Pending(m, h),
           \A m \in enqueued : Paid(m)
    PROVE  Budgeted'
<1> SUFFICES ASSUME NEW m \in enqueued, NEW h \in Hook
             PROVE  posts[m][h] + Cardinality(Pending(m, h)') + Offered(m)' =< Earned(m)'
  BY DEF Budgeted
<1>1. /\ m \in Message /\ posts[m][h] \in Nat
      /\ Earned(m) \in Nat /\ Earned(m)' \in Nat
  BY DEF Types, TypeOK, MoreTypes, Earned
<1>2. Pending(m, h) \subseteq Worker /\ Pending(m, h)' \subseteq Pending(m, h)
  BY DEF Pending
<1>3. /\ Cardinality(Pending(m, h)) \in Nat
      /\ Cardinality(Pending(m, h)') \in Nat
      /\ Cardinality(Pending(m, h)') =< Cardinality(Pending(m, h))
  BY <1>2, WorkersAreFinite
<1>4. posts[m][h] + Cardinality(Pending(m, h)) + Offered(m) =< Earned(m)
  BY DEF Budgeted
<1>5. Offered(m) \in 0..1 /\ Offered(m)' \in 0..1
  BY DEF Offered
<1>6. CASE Earned(m)' >= Earned(m) + 1
  BY <1>1, <1>3, <1>4, <1>5, <1>6
<1>7. CASE Earned(m)' >= Earned(m) /\ (m \in (stored \ leased)' => m \in stored \ leased)
  <2>1. Offered(m)' =< Offered(m)
    BY <1>7 DEF Offered
  <2>2. QED
    BY <1>1, <1>3, <1>4, <1>5, <1>7, <2>1
<1>8. QED
  BY <1>6, <1>7 DEF Paid

\* Every request is paid for.
LEMMA BudgetedHolds == Spec => []Budgeted
<1> USE WebhooksAssumption
<1>1. Init => Budgeted
  BY DEF Init, Budgeted
<1>2. Types /\ Types' /\ ToSubscribers /\ Budgeted /\ [Next]_vars => Budgeted'
  <2> SUFFICES ASSUME Types, Types', ToSubscribers, Budgeted, [Next]_vars PROVE Budgeted'
    OBVIOUS
  <2>0. /\ held \in [Worker -> Message \cup {NoMessage}]
        /\ wpc \in [Worker -> {"idle", "claimed", "posting", "hung"}]
        /\ todo \in [Worker -> SUBSET Hook]
        /\ posts \in [Message -> [Hook -> Nat]]
        /\ failures \in [Message -> Nat]
        /\ expiries \in [Message -> Nat]
        /\ \A w \in Worker : wpc[w] \in {"idle", "claimed"} => todo[w] = {}
        /\ \A w \in Worker : held[w] \in enqueued \cup {NoMessage}
        /\ \A w \in Worker : held[w] = NoMessage <=> wpc[w] = "idle"
        /\ enqueued \subseteq Message
        /\ leased \subseteq stored /\ stored \subseteq enqueued
    BY DEF Types, TypeOK, MoreTypes, Holding
  <2>00. \A m \in Message : Earned(m) \in Nat
    BY <2>0 DEF Earned
  <2>000. MoreTypes'
    BY DEF Types
  <2> USE <2>0 DEF hooks, rows, workers, history, budget
  <2>1. ASSUME UNCHANGED <<stored, leased, held, wpc, todo, posts, failures, expiries, enqueued>>
        PROVE Budgeted'
    BY <2>1, <2>00, <2>000, BudgetKept DEF Pending, Earned, Paid
  <2>2. ASSUME NEW h \in Hook,
               \/ Unregister(h)
               \/ \E t \in Tenant, topics \in SUBSET Topic : Register(h, t, topics)
        PROVE Budgeted'
    BY <2>1, <2>2 DEF Register, Unregister
  <2>3. ASSUME NEW m \in Message, NEW t \in Tenant \cup {NoTenant}, NEW p \in Topic,
               Enqueue(m, [tenant |-> t, topic |-> p])
        PROVE Budgeted'
    <3> SUFFICES ASSUME NEW n \in enqueued', NEW h \in Hook
                 PROVE  posts'[n][h] + Cardinality(Pending(n, h)') + Offered(n)' =< Earned(n)'
      BY DEF Budgeted
    <3>1. /\ Pending(n, h)' = Pending(n, h) /\ Earned(n)' = Earned(n) /\ posts' = posts
      BY <2>3 DEF Enqueue, Pending, Earned
    <3>2. CASE n = m
      <4>1. Pending(n, h) = {} /\ posts[n][h] = 0
        BY <2>3, <3>2 DEF Enqueue, Pending, ToSubscribers
      <4>2. Cardinality(Pending(n, h)) = 0
        BY <4>1, FS_EmptySet
      <4>3. failures[n] \in Nat /\ expiries[n] \in Nat /\ Offered(n)' \in 0..1
        BY <3>2 DEF Offered
      <4>4. QED
        BY <3>1, <4>1, <4>2, <4>3 DEF Earned
    <3>3. CASE n # m
      <4>1. n \in enqueued /\ Offered(n)' = Offered(n)
        BY <2>3, <3>3 DEF Enqueue, Offered
      <4>2. posts[n][h] + Cardinality(Pending(n, h)) + Offered(n) =< Earned(n)
        BY <4>1 DEF Budgeted
      <4>3. QED
        BY <3>1, <4>1, <4>2
    <3>4. QED
      BY <3>2, <3>3
  <2>4. ASSUME NEW w \in Worker, NEW m \in Message, Claim(w, m) PROVE Budgeted'
    <3> SUFFICES ASSUME NEW n \in enqueued, NEW h \in Hook
                 PROVE  posts[n][h] + Cardinality(Pending(n, h)') + Offered(n)' =< Earned(n)
      BY <2>4 DEF Claim, Budgeted, Earned
    <3>1. posts[n][h] + Cardinality(Pending(n, h)) + Offered(n) =< Earned(n)
      BY DEF Budgeted
    <3>2. w \notin Pending(n, h) /\ Pending(n, h) \in SUBSET Worker
      BY <2>4 DEF Claim, Pending
    <3>3. CASE n = m
      <4>1. Pending(n, h)' = Pending(n, h) \cup {w}
        BY <2>4, <3>3 DEF Claim, Pending
      <4>2. Cardinality(Pending(n, h)') = Cardinality(Pending(n, h)) + 1
        BY <3>2, <4>1, WorkersAreFinite
      <4>3. Offered(n) = 1 /\ Offered(n)' = 0
        BY <2>4, <3>3 DEF Claim, Offered
      <4>4. posts[n][h] \in Nat /\ Cardinality(Pending(n, h)) \in Nat /\ Earned(n) \in Nat
        BY <2>00, <3>2, WorkersAreFinite
      <4>5. QED
        BY <3>1, <4>2, <4>3, <4>4
    <3>4. CASE n # m
      <4>1. Pending(n, h)' = Pending(n, h)
        BY <2>4, <3>4 DEF Claim, Pending
      <4>2. Offered(n)' = Offered(n)
        BY <2>4, <3>4 DEF Claim, Offered
      <4>3. QED
        BY <3>1, <4>1, <4>2
    <3>5. QED
      BY <3>3, <3>4
  <2>5. ASSUME NEW w \in Worker, ReadRegistrations(w) PROVE Budgeted'
    <3>1. UNCHANGED <<posts, enqueued, stored, leased, failures, expiries>>
      BY <2>5 DEF ReadRegistrations
    <3>2. \A m \in enqueued, h \in Hook : Pending(m, h)' \subseteq Pending(m, h)
      BY <2>5 DEF ReadRegistrations, Pending
    <3>3. QED
      BY <3>1, <3>2, <2>00, <2>000, BudgetKept DEF Earned, Paid
  <2>6. ASSUME NEW w \in Worker, Idle(w) PROVE \A m \in enqueued, h \in Hook : Pending(m, h)' \subseteq Pending(m, h)
    BY <2>6 DEF Idle, Pending
  <2>7. ASSUME NEW w \in Worker, wpc[w] # "idle", Retry(w), UNCHANGED <<posts, enqueued, expiries>>
        PROVE Budgeted'
    <3>1. held[w] \in enqueued
      BY <2>7
    <3>2. \A m \in enqueued : Paid(m)
      <4> TAKE m \in enqueued
      <4>1. failures[m] \in Nat /\ expiries[m] \in Nat
        OBVIOUS
      <4>2. CASE m = held[w]
        <5>1. failures'[m] = failures[m] + 1 /\ expiries'[m] = expiries[m]
          BY <2>7, <4>2 DEF Retry
        <5>2. Earned(m)' = Earned(m) + 1
          BY <4>1, <5>1 DEF Earned
        <5>3. Earned(m) \in Nat
          BY <2>00
        <5>4. Earned(m)' >= Earned(m) + 1
          BY <5>2, <5>3
        <5>5. QED
          BY <5>4 DEF Paid
      <4>3. CASE m # held[w]
        BY <2>7, <4>1, <4>3 DEF Retry, Earned, Ack, Paid
      <4>4. QED
        BY <4>2, <4>3
    <3>3. Idle(w)
      BY <2>7 DEF Retry
    <3>4. QED
      BY <2>6, <2>7, <2>000, <3>2, <3>3, BudgetKept
  <2>8. ASSUME NEW w \in Worker, Consume(w), UNCHANGED <<posts, enqueued, expiries>> PROVE Budgeted'
    <3>1. UNCHANGED <<failures, expiries>> /\ (stored \ leased)' \subseteq stored \ leased /\ Idle(w)
      BY <2>8 DEF Consume, Ack
    <3>2. QED
      BY <2>6, <2>8, <3>1, <2>00, <2>000, BudgetKept DEF Earned, Paid
  <2>9. ASSUME NEW w \in Worker, Die(w) PROVE Budgeted'
    <3>1. Idle(w) /\ UNCHANGED <<posts, enqueued, stored, leased, failures, expiries>>
      BY <2>9 DEF Die
    <3>2. QED
      BY <2>6, <3>1, <2>00, <2>000, BudgetKept DEF Earned, Paid
  <2>10. ASSUME NEW m \in Message, LeaseExpires(m) PROVE Budgeted'
    <3>1. UNCHANGED <<posts, enqueued, stored, held, wpc, todo, failures>> /\ leased' = leased \ {m}
      BY <2>10 DEF LeaseExpires
    <3>2. \A n \in enqueued : IF n = m THEN Earned(n)' = Earned(n) + 1 ELSE Earned(n)' = Earned(n)
      BY <2>10, <3>1 DEF LeaseExpires, Earned
    <3>3. \A n \in enqueued, h \in Hook : Pending(n, h)' \subseteq Pending(n, h)
      BY <3>1 DEF Pending
    <3>4. \A n \in enqueued : Paid(n)
      <4> TAKE n \in enqueued
      <4>1. Earned(n) \in Nat
        BY <2>00
      <4>2. CASE n = m
        <5>1. Earned(n)' >= Earned(n) + 1
          BY <3>2, <4>1, <4>2
        <5>2. QED
          BY <5>1 DEF Paid
      <4>3. CASE n # m
        BY <3>1, <3>2, <4>1, <4>3 DEF Paid
      <4>4. QED
        BY <4>2, <4>3
    <3>5. QED
      BY <3>1, <3>3, <3>4, <2>000, BudgetKept
  <2>11. ASSUME NEW w \in Worker, NEW h \in Hook, Post(w, h), todo' = [todo EXCEPT ![w] = @ \ {h}],
                wpc' = wpc \/ wpc' = [wpc EXCEPT ![w] = "hung"]
         PROVE Budgeted'
    <3> SUFFICES ASSUME NEW m \in enqueued, NEW k \in Hook
                 PROVE  posts'[m][k] + Cardinality(Pending(m, k)') + Offered(m) =< Earned(m)
      BY <2>11 DEF Post, Budgeted, Earned, Offered
    <3>1. posts[m][k] + Cardinality(Pending(m, k)) + Offered(m) =< Earned(m)
      BY DEF Budgeted
    <3>2. Pending(m, k) \in SUBSET Worker
      BY DEF Pending
    <3>3. /\ Cardinality(Pending(m, k)) \in Nat /\ posts[m][k] \in Nat /\ Earned(m) \in Nat
          /\ Offered(m) \in 0..1
      BY <3>2, <2>00, WorkersAreFinite DEF Offered
    <3>4. CASE m = held[w] /\ k = h
      <4>1. w \in Pending(m, k) /\ Pending(m, k)' = Pending(m, k) \ {w}
        BY <2>11, <3>4 DEF Post, Pending
      <4>2. Cardinality(Pending(m, k)') = Cardinality(Pending(m, k)) - 1
        BY <3>2, <4>1, WorkersAreFinite
      <4>3. posts'[m][k] = posts[m][k] + 1
        BY <2>11, <3>4 DEF Post
      <4>4. QED
        BY <3>1, <3>3, <4>2, <4>3
    <3>5. CASE ~(m = held[w] /\ k = h)
      <4>1. Pending(m, k)' \subseteq Pending(m, k)
        BY <2>11, <3>5 DEF Post, Pending
      <4>2. posts'[m][k] = posts[m][k]
        BY <2>11, <3>5 DEF Post
      <4>3. Cardinality(Pending(m, k)') \in Nat /\ Cardinality(Pending(m, k)') =< Cardinality(Pending(m, k))
        BY <3>2, <4>1, WorkersAreFinite
      <4>4. QED
        BY <3>1, <3>3, <4>2, <4>3
    <3>6. QED
      BY <3>4, <3>5
  <2>12. ASSUME NEW w \in Worker, NEW h \in Hook, PostOk(w, h) \/ PostFails(w, h) \/ PostHangs(w, h)
         PROVE Budgeted'
    BY <2>11, <2>12 DEF PostOk, PostFails, PostHangs, Ends
  <2>13. ASSUME NEW w \in Worker, DropUnroutable(w) \/ ReadFails(w) \/ Settle(w) PROVE Budgeted'
    BY <2>7, <2>8, <2>13 DEF DropUnroutable, ReadFails, Settle
  <2>14. CASE UNCHANGED vars
    BY <2>1, <2>14 DEF vars
  <2>15. QED
    BY <2>2, <2>3, <2>4, <2>5, <2>9, <2>10, <2>12, <2>13, <2>14 DEF Next, Deliver
<1>3. QED
  BY <1>1, <1>2, TypesHold, ToSubscribersHolds, PTL DEF Spec

\* A message is posted only to registrations of its own tenant that asked for
\* its topic, and to each of them at most once more than deliveries of it failed
\* or leases of it ran out, however registrations come and go, workers die, hang
\* or overtake each other; and no copy of it outlives the attempt budget.
THEOREM EveryPostIsEarned == Spec => []PostsAreEarned
<1>1. Types /\ ToSubscribers /\ Budgeted => PostsAreEarned
  <2> SUFFICES ASSUME Types, ToSubscribers, Budgeted, NEW m \in Message, NEW h \in Hook
               PROVE posts[m][h] =< IF Subscribes(h, sent[m]) THEN Earned(m) ELSE 0
    BY DEF PostsAreEarned, Types, Earned
  <2>1. posts[m][h] \in Nat /\ Earned(m) \in Nat
    BY DEF Types, MoreTypes, Earned
  <2>2. CASE posts[m][h] = 0
    BY <2>1, <2>2
  <2>3. CASE posts[m][h] # 0
    <3>1. m \in enqueued /\ Subscribes(h, sent[m])
      BY <2>3 DEF ToSubscribers
    <3>2. posts[m][h] + Cardinality(Pending(m, h)) + Offered(m) =< Earned(m)
      BY <3>1 DEF Budgeted
    <3>3. Pending(m, h) \in SUBSET Worker /\ Offered(m) \in 0..1
      BY DEF Pending, Offered
    <3>4. Cardinality(Pending(m, h)) \in Nat
      BY <3>3, WorkersAreFinite
    <3>5. QED
      BY <2>1, <3>1, <3>2, <3>3, <3>4
  <2>4. QED
    BY <2>2, <2>3
<1>2. QED
  BY <1>1, TypesHold, ToSubscribersHolds, BudgetedHolds, PTL

-----------------------------------------------------------------------------
(* Every subscriber.                                                       *)

\* The subscribers a message has had all along are registered and would be read,
\* and a delivery that has not failed has posted to them or will.
Awaited ==
    /\ \A h \in active : reg[h].tenant \in Tenant
    /\ \A m \in Message \ enqueued : since[m] = {}
    /\ \A m \in enqueued \ consumed : \A h \in since[m] : h \in active /\ Subscribes(h, sent[m])
    /\ \A w \in Worker : wpc[w] = "posting" /\ failed[w] = FALSE
                       => since[held[w]] \subseteq accepted[held[w]] \cup todo[w]

SkipInv == Awaited /\ NobodySkipped

\* A message leaves the outbox as delivered only when every subscriber it has
\* had since it was enqueued has accepted it, in this attempt or an earlier one.
THEOREM NobodyIsSkipped == Spec => []NobodySkipped
<1> USE WebhooksAssumption
<1>1. Init => SkipInv
  BY DEF Init, SkipInv, Awaited, NobodySkipped
<1>2. Types /\ SkipInv /\ [Next]_vars => SkipInv'
  <2> SUFFICES ASSUME Types, SkipInv, [Next]_vars PROVE SkipInv'
    OBVIOUS
  <2>0. /\ active \subseteq Hook
        /\ \A h \in active : reg[h] # NoHook
        /\ reg \in [Hook -> Registration]
        /\ wpc \in [Worker -> {"idle", "claimed", "posting", "hung"}]
        /\ held \in [Worker -> Message \cup {NoMessage}]
        /\ todo \in [Worker -> SUBSET Hook]
        /\ failed \in [Worker -> BOOLEAN]
        /\ accepted \in [Message -> SUBSET Hook]
        /\ since \in [Message -> SUBSET Hook]
        /\ sent \in [Message -> [tenant : Tenant \cup {NoTenant}, topic : AnyTopic]]
        /\ enqueued \subseteq Message /\ consumed \subseteq enqueued
        /\ \A w \in Worker : held[w] \in enqueued \cup {NoMessage}
        /\ \A w \in Worker : held[w] = NoMessage <=> wpc[w] = "idle"
    BY DEF Types, TypeOK, MoreTypes, Holding
  <2> USE <2>0 DEF SkipInv, Awaited, NobodySkipped, hooks, rows, workers, history, budget
  <2>1. ASSUME NEW h \in Hook, NEW t \in Tenant, NEW topics \in SUBSET Topic,
               Register(h, t, topics)
        PROVE SkipInv'
    BY <2>1 DEF Register, Registration, Subscribes
  <2>2. ASSUME NEW h \in Hook, Unregister(h) PROVE SkipInv'
    BY <2>2 DEF Unregister, Subscribes
  <2>3. ASSUME NEW m \in Message, NEW t \in Tenant \cup {NoTenant}, NEW p \in Topic,
               Enqueue(m, [tenant |-> t, topic |-> p])
        PROVE SkipInv'
    BY <2>3 DEF Enqueue, Subscribes
  <2>4. ASSUME NEW w \in Worker, NEW m \in Message, Claim(w, m) PROVE SkipInv'
    BY <2>4 DEF Claim, Subscribes
  <2>5. ASSUME NEW w \in Worker, Idle(w), UNCHANGED <<hooks, sent, enqueued, consumed, since, accepted>>
        PROVE SkipInv'
    BY <2>5 DEF Idle, Subscribes
  <2>6. ASSUME NEW w \in Worker, ReadRegistrations(w) PROVE SkipInv'
    BY <2>6 DEF ReadRegistrations, ActiveForTopic, Subscribes
  <2>7. ASSUME NEW w \in Worker, held[w] \in consumed \/ since[held[w]] \subseteq accepted[held[w]], wpc[w] # "idle",
               Consume(w), UNCHANGED <<hooks, sent, enqueued, since, accepted>>
        PROVE SkipInv'
    BY <2>7 DEF Consume, Idle, Subscribes
  <2>8. ASSUME NEW w \in Worker, DropUnroutable(w) PROVE SkipInv'
    <3>1. held[w] \in consumed \/ since[held[w]] \subseteq accepted[held[w]]
      BY <2>8 DEF DropUnroutable, ActiveForTopic, Subscribes
    <3>2. QED
      BY <2>7, <2>8, <3>1 DEF DropUnroutable
  <2>9. ASSUME NEW w \in Worker, Settle(w) PROVE SkipInv'
    <3>1. CASE failed[w] = TRUE
      BY <2>5, <2>9, <3>1 DEF Settle, Retry
    <3>2. CASE failed[w] = FALSE
      <4>1. since[held[w]] \subseteq accepted[held[w]] /\ wpc[w] # "idle"
        BY <2>9, <3>2 DEF Settle
      <4>2. QED
        BY <2>7, <2>9, <3>2, <4>1 DEF Settle
    <3>3. failed[w] \in BOOLEAN
      OBVIOUS
    <3>4. QED
      BY <3>1, <3>2, <3>3
  <2>10. ASSUME NEW w \in Worker, NEW h \in Hook, PostOk(w, h) PROVE SkipInv'
    BY <2>10 DEF PostOk, Post, Ends, Subscribes
  <2>11. ASSUME NEW w \in Worker, NEW h \in Hook, PostFails(w, h) PROVE SkipInv'
    BY <2>11 DEF PostFails, Post, Ends, Subscribes
  <2>12. ASSUME NEW w \in Worker, NEW h \in Hook, PostHangs(w, h) PROVE SkipInv'
    BY <2>12 DEF PostHangs, Post, Subscribes
  <2>13. ASSUME NEW w \in Worker, ReadFails(w) \/ Die(w) PROVE SkipInv'
    BY <2>5, <2>13 DEF ReadFails, Retry, Die
  <2>14. ASSUME NEW m \in Message, LeaseExpires(m) PROVE SkipInv'
    BY <2>14 DEF LeaseExpires, Subscribes
  <2>15. CASE UNCHANGED vars
    BY <2>15 DEF vars, Subscribes
  <2>16. QED
    BY <2>1, <2>2, <2>3, <2>4, <2>6, <2>8, <2>9, <2>10, <2>11, <2>12, <2>13, <2>14, <2>15
       DEF Next, Deliver
<1>3. SkipInv => NobodySkipped
  BY DEF SkipInv
<1>4. QED
  BY <1>1, <1>2, <1>3, TypesHold, PTL DEF Spec
=============================================================================
