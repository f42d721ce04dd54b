---------------------------- MODULE OutboxProofs ----------------------------
(***************************************************************************)
(* Proofs about Outbox, for any number of messages, workers and faults,    *)
(* any attempt budget and both kinds of store.                             *)
(***************************************************************************)
EXTENDS Outbox, SequenceTheorems, TLAPS

\* No message is in s twice.
NoRepeat(s) == \A i, j \in 1..Len(s) : s[i] = s[j] => i = j

\* RemoveAt shifts what comes after i and leaves the rest alone.
LEMMA RemoveAtProperties ==
  ASSUME NEW S, NEW s \in Seq(S), NEW i \in 1..Len(s)
  PROVE  /\ RemoveAt(s, i) \in Seq(S)
         /\ Len(RemoveAt(s, i)) = Len(s) - 1
         /\ \A j \in 1..(Len(s) - 1) : RemoveAt(s, i)[j] = IF j < i THEN s[j] ELSE s[j + 1]
<1> DEFINE a == SubSeq(s, 1, i - 1)
           b == SubSeq(s, i + 1, Len(s))
           c == a \o b
<1>1. a \in Seq(S) /\ Len(a) = i - 1 /\ \A j \in 1..(i - 1) : a[j] = s[j]
  BY SubSeqProperties
<1>2. b \in Seq(S) /\ Len(b) = Len(s) - i /\ \A j \in 1..(Len(s) - i) : b[j] = s[i + j]
  BY SubSeqProperties
<1>3. /\ c \in Seq(S)
      /\ Len(c) = Len(a) + Len(b)
      /\ \A j \in 1..(Len(a) + Len(b)) : c[j] = IF j <= Len(a) THEN a[j] ELSE b[j - Len(a)]
  <2> HIDE DEF a, b
  <2>1. QED
    BY <1>1, <1>2, ConcatProperties
<1>4. RemoveAt(s, i) = c
  BY DEF RemoveAt
<1> HIDE DEF a, b, c
<1>5. Len(s) \in Nat /\ Len(a) + Len(b) = Len(s) - 1
  BY <1>1, <1>2
<1>6. Len(c) = Len(s) - 1
  BY <1>3, <1>5
<1>7. \A j \in 1..(Len(s) - 1) : c[j] = IF j < i THEN s[j] ELSE s[j + 1]
  <2> TAKE j \in 1..(Len(s) - 1)
  <2>1. c[j] = IF j <= Len(a) THEN a[j] ELSE b[j - Len(a)]
    BY <1>3, <1>5
  <2>2. CASE j < i
    BY <1>1, <2>1, <2>2
  <2>3. CASE ~(j < i)
    <3>1. j - Len(a) \in 1..(Len(s) - i) /\ i + (j - Len(a)) = j + 1
      BY <1>1, <2>3
    <3>2. c[j] = b[j - Len(a)]
      BY <1>1, <2>1, <2>3
    <3>3. b[j - Len(a)] = s[i + (j - Len(a))]
      BY <1>2, <3>1
    <3>4. QED
      BY <2>3, <3>1, <3>2, <3>3
  <2>4. QED
    BY <2>2, <2>3
<1>8. QED
  BY <1>3, <1>4, <1>6, <1>7

\* Removing one of a message that is there once removes just that message.
LEMMA RemoveAtRemoves ==
  ASSUME NEW S, NEW s \in Seq(S), NEW i \in 1..Len(s), NoRepeat(s)
  PROVE  /\ RemoveAt(s, i) \in Seq(S)
         /\ NoRepeat(RemoveAt(s, i))
         /\ \A e : Contains(RemoveAt(s, i), e) <=> (Contains(s, e) /\ e # s[i])
<1> DEFINE t == RemoveAt(s, i)
<1>1. /\ t \in Seq(S)
      /\ Len(t) = Len(s) - 1
      /\ \A j \in 1..(Len(s) - 1) : t[j] = IF j < i THEN s[j] ELSE s[j + 1]
  BY RemoveAtProperties
<1> HIDE DEF t
<1>2. NoRepeat(t)
  BY <1>1 DEF NoRepeat
<1>3. ASSUME NEW e, Contains(t, e) PROVE Contains(s, e) /\ e # s[i]
  BY <1>1, <1>3 DEF NoRepeat, Contains
<1>4. ASSUME NEW e, Contains(s, e), e # s[i] PROVE Contains(t, e)
  <2>1. PICK j \in 1..Len(s) : s[j] = e /\ j # i
    BY <1>4 DEF Contains
  <2>2. CASE j < i
    BY <1>1, <2>1, <2>2 DEF Contains
  <2>3. CASE j > i
    <3>1. j - 1 \in 1..(Len(s) - 1) /\ t[j - 1] = s[j]
      BY <1>1, <2>1, <2>3
    <3>2. QED
      BY <1>1, <2>1, <3>1 DEF Contains
  <2>4. QED
    BY <2>1, <2>2, <2>3
<1>5. QED
  BY <1>1, <1>2, <1>3, <1>4 DEF t

\* Appending a message that is not there adds just that message.
LEMMA AppendAdds ==
  ASSUME NEW S, NEW s \in Seq(S), NEW m \in S
  PROVE  /\ Append(s, m) \in Seq(S)
         /\ \A e : Contains(Append(s, m), e) <=> (Contains(s, e) \/ e = m)
         /\ NoRepeat(s) /\ ~Contains(s, m) => NoRepeat(Append(s, m))
<1> DEFINE t == Append(s, m)
<1>1. /\ t \in Seq(S)
      /\ Len(t) = Len(s) + 1
      /\ \A j \in 1..Len(s) : t[j] = s[j]
      /\ t[Len(s) + 1] = m
  BY AppendProperties
<1> HIDE DEF t
<1>2. ASSUME NEW e PROVE Contains(t, e) <=> (Contains(s, e) \/ e = m)
  BY <1>1 DEF Contains
<1>3. ASSUME NoRepeat(s), ~Contains(s, m) PROVE NoRepeat(t)
  BY <1>1, <1>3 DEF NoRepeat, Contains
<1>4. QED
  BY <1>1, <1>2, <1>3 DEF t

\* What enqueueing m makes of the queue.
LEMMA PutStores ==
  ASSUME queue \in Seq(Message), NoRepeat(queue), NEW m \in Message, NEW n, Put(m, n),
         Leases \/ ~Stored(m)
  PROVE  /\ queue' \in Seq(Message)
         /\ NoRepeat(queue')
         /\ \A e : Contains(queue', e) <=> (Contains(queue, e) \/ e = m)
<1>1. CASE Leases /\ Stored(m)
  <2>1. queue' = queue
    BY <1>1 DEF Put
  <2>2. QED
    BY <1>1, <2>1 DEF Stored
<1>2. CASE ~Stored(m)
  <2>1. queue' = Append(queue, m)
    BY <1>2 DEF Put
  <2>2. QED
    BY <1>2, <2>1, AppendAdds DEF Stored
<1>3. QED
  BY <1>1, <1>2

\* What deleting the row of m makes of it.
LEMMA DeleteRemoves ==
  ASSUME queue \in Seq(Message), NoRepeat(queue), NEW m, Delete(m)
  PROVE  /\ queue' \in Seq(Message)
         /\ NoRepeat(queue')
         /\ \A e : Contains(queue', e) <=> (Contains(queue, e) /\ e # m)
<1>1. CASE Stored(m)
  <2>1. PICK i \in 1..Len(queue) : queue[i] = m /\ queue' = RemoveAt(queue, i)
    BY <1>1 DEF Stored, Contains, Delete
  <2>2. QED
    BY <2>1, RemoveAtRemoves
<1>2. CASE ~Stored(m)
  <2>1. queue' = queue
    BY <1>2 DEF Delete
  <2>2. QED
    BY <1>2, <2>1 DEF Stored
<1>3. QED
  BY <1>1, <1>2

-----------------------------------------------------------------------------
(* Who has a message.                                                      *)

\* A worker holds a message exactly while it is busy, and a copy that can still
\* be offered again has not used up its attempts.
Shape ==
    /\ ~Leases => leased = {}
    /\ \A w \in Worker :
         /\ wpc[w] = "idle" <=> held[w] = NoMessage
         /\ wpc[w] \in {"deliver", "release"} => tries[w] =< MaxAttempts

\* Nothing is known of a message before its checkout enqueues it.
Known ==
    \A m \in Message \ enqueued :
        /\ ~Stored(m) /\ m \notin dead /\ m \notin replaying /\ delivered[m] = 0
        /\ \A w \in Worker : held[w] # m

\* w has still to decide what becomes of m.
Works(w, m) == held[w] = m /\ wpc[w] \in {"deliver", "bury", "release"}

\* The outbox is done with m, unless it is replayed.
Parked(m) == delivered[m] > 0 \/ m \in dead \/ m \in replaying

\* A popped message nobody else can get; a leased one nobody else gets before the
\* lease runs out.
Alone == ~Leases \/ (~slow /\ crashes = 0)

\* Then one worker at most works on a message, nobody can claim it meanwhile or
\* once it is parked, and it is parked in one place, delivered once.
Exclusive ==
    Alone =>
        \A m \in Message :
            /\ \A w \in Worker : Works(w, m) =>
                 /\ Stored(m) => m \in leased
                 /\ ~Parked(m)
                 /\ \A v \in Worker : Works(v, m) => v = w
            /\ Parked(m) /\ Stored(m) => m \in leased /\ \E w \in Worker : held[w] = m
            /\ m \in dead => delivered[m] = 0
            /\ m \in replaying => m \notin dead /\ delivered[m] = 0
            /\ delivered[m] =< 1

OwnInv == TypeOK /\ NoRepeat(queue) /\ Shape /\ Known /\ Exclusive

\* The inductive invariant behind the theorems of this module.
LEMMA OwnInvHolds == Spec => []OwnInv
<1> USE OutboxAssumption
<1>1. Init => OwnInv
  <2> SUFFICES ASSUME Init PROVE OwnInv
    OBVIOUS
  <2>1. queue \in Seq(Message) /\ NoRepeat(queue) /\ \A m : ~Stored(m)
    BY DEF Init, NoRepeat, Stored, Contains
  <2>2. QED
    BY <2>1 DEF Init, OwnInv, TypeOK, Shape, Known, Exclusive, Works, Parked
<1>2. OwnInv /\ [Next]_vars => OwnInv'
  <2> SUFFICES ASSUME OwnInv, [Next]_vars PROVE OwnInv'
    OBVIOUS
  <2> USE DEF OwnInv, TypeOK, Shape, Known, Exclusive, Works, Parked, Alone, Leases, Stored,
              workers, history, budget, Idle, Goto, CountFailure
  <2>1. ASSUME NEW m \in Message, Enqueue(m) PROVE OwnInv'
    <3>1. /\ queue' \in Seq(Message) /\ NoRepeat(queue')
          /\ \A e : Contains(queue', e) <=> (Contains(queue, e) \/ e = m)
      BY <2>1, PutStores DEF Enqueue
    <3>2. QED
      BY <2>1, <3>1, SMTT(60) DEF Enqueue, Put
  <2>2. ASSUME NEW m \in Message, LeaseExpires(m) PROVE OwnInv'
    BY <2>2 DEF LeaseExpires
  <2>3. ASSUME NEW m \in Message, ReplayTake(m) PROVE OwnInv'
    <3>1. TypeOK' /\ NoRepeat(queue')
      BY <2>3 DEF ReplayTake
    <3>2. Shape' /\ Known'
      BY <2>3 DEF ReplayTake
    <3>3. Exclusive'
      BY <2>3 DEF ReplayTake
    <3>4. QED
      BY <3>1, <3>2, <3>3
  <2>4. ASSUME NEW m \in Message, ReplayEnqueue(m) PROVE OwnInv'
    <3>1. /\ queue' \in Seq(Message) /\ NoRepeat(queue')
          /\ \A e : Contains(queue', e) <=> (Contains(queue, e) \/ e = m)
      BY <2>4, PutStores DEF ReplayEnqueue
    <3>2. QED
      BY <2>4, <3>1 DEF ReplayEnqueue, Put
  <2>5. ASSUME NEW m \in Message, ReplayCrash(m) PROVE OwnInv'
    BY <2>5, SMTT(60) DEF ReplayCrash
  <2>6. ASSUME NEW w \in Worker, Claim(w) PROVE OwnInv'
    <3>1. PICK i \in 1..Len(queue) :
            /\ Claimable(i)
            /\ held' = [held EXCEPT ![w] = queue[i]]
            /\ tries' = [tries EXCEPT ![w] = attempts[queue[i]]]
            /\ IF Leases
               THEN leased' = leased \cup {queue[i]} /\ UNCHANGED queue
               ELSE queue' = RemoveAt(queue, i) /\ UNCHANGED leased
      BY <2>6 DEF Claim
    <3>2. PICK m \in Message : m = queue[i] /\ m \notin leased /\ Contains(queue, m)
      BY <3>1, SMTT(60) DEF Claimable, Contains
    <3>3. /\ queue' \in Seq(Message) /\ NoRepeat(queue')
          /\ \A e : Contains(queue', e) <=> (Contains(queue, e) /\ (Leases \/ e # m))
      BY <3>1, <3>2, RemoveAtRemoves, SMTT(60)
    <3>4. /\ wpc[w] = "idle" /\ wpc' = [wpc EXCEPT ![w] = "deliver"]
          /\ held' = [held EXCEPT ![w] = m]
          /\ tries' = [tries EXCEPT ![w] = attempts[m]]
          /\ leased' = IF Leases THEN leased \cup {m} ELSE leased
          /\ UNCHANGED <<attempts, dead, replaying, history, budget>>
      BY <2>6, <3>1, <3>2 DEF Claim
    <3>5. TypeOK'
      <4>1. leased' \subseteq Message /\ attempts[m] \in 0..(MaxAttempts + 1)
        BY <3>2, <3>4, SMTT(60)
      <4>2. QED
        BY <3>2, <3>3, <3>4, <4>1
    <3>6. Shape' /\ Known'
      BY <3>2, <3>3, <3>4, SMTT(60)
    <3>7. Exclusive'
      <4>1. SUFFICES ASSUME Alone PROVE Exclusive'
        BY <3>4
      <4>2. ~Parked(m) /\ \A v \in Worker : ~Works(v, m)
        BY <3>2, <4>1
      <4>3. /\ \A v \in Worker : Works(v, m)' => v = w
            /\ \A n \in Message \ {m}, v \in Worker : Works(v, n)' => Works(v, n)
        BY <3>4, <4>2, ZenonT(60)
      <4>4. \A n \in Message, v \in Worker : held[v] = n => held'[v] = n
        BY <3>4
      <4>5. \A n \in Message : (Parked(n)' <=> Parked(n))
        BY <3>4
      <4>6. /\ Stored(m)' => m \in leased'
            /\ \A n \in Message \ {m} : (Stored(n)' <=> Stored(n))
            /\ leased \subseteq leased'
        BY <3>2, <3>3, <3>4
      <4> HIDE DEF Works, Parked, Stored, Alone
      <4>7. QED
        BY <3>4, <4>1, <4>2, <4>3, <4>4, <4>5, <4>6, SMTT(60)
    <3>8. QED
      BY <3>3, <3>5, <3>6, <3>7
  <2>7. ASSUME NEW w \in Worker, DeliverOk(w) PROVE OwnInv'
    BY <2>7, SMTT(60) DEF DeliverOk
  <2>8. ASSUME NEW w \in Worker, DeliverFails(w) PROVE OwnInv'
    <3>1. TypeOK' /\ NoRepeat(queue')
      BY <2>8, SMTT(60) DEF DeliverFails
    <3>2. Shape' /\ Known'
      BY <2>8 DEF DeliverFails
    <3>3. Exclusive'
      BY <2>8, SMTT(60) DEF DeliverFails
    <3>4. QED
      BY <3>1, <3>2, <3>3
  <2>9. ASSUME NEW w \in Worker, Bury(w) PROVE OwnInv'
    BY <2>9, SMTT(60) DEF Bury
  <2>10. ASSUME NEW w \in Worker, Ack(w) PROVE OwnInv'
    <3>1. /\ queue' \in Seq(Message) /\ NoRepeat(queue')
          /\ \A e : Contains(queue', e) <=> (Contains(queue, e) /\ (~Leases \/ e # held[w]))
      BY <2>10, DeleteRemoves DEF Ack
    <3>2. QED
      BY <2>10, <3>1 DEF Ack
  <2>11. ASSUME NEW w \in Worker, Release(w) PROVE OwnInv'
    <3>1. held[w] \in Message
      BY <2>11 DEF Release
    <3>2. /\ queue' \in Seq(Message) /\ NoRepeat(queue')
          /\ \A e : Contains(queue', e) <=> (Contains(queue, e) \/ e = held[w])
      BY <2>11, <3>1, PutStores DEF Release
    <3>3. QED
      BY <2>11, <3>1, <3>2 DEF Release, Put
  <2>12. ASSUME NEW w \in Worker, Crash(w) PROVE OwnInv'
    BY <2>12 DEF Crash
  <2>13. CASE UNCHANGED vars
    BY <2>13 DEF vars
  <2>14. QED
    BY <2>1, <2>2, <2>3, <2>4, <2>5, <2>6, <2>7, <2>8, <2>9, <2>10, <2>11, <2>12, <2>13
    DEF Next, Work
<1>3. QED
  BY <1>1, <1>2, PTL DEF Spec

\* No message is delivered twice while deliveries end within their lease and no
\* worker dies, however many workers claim, release, bury and replay at once.
THEOREM DeliveredAtMostOnce == Spec => []DeliveredOnce
<1>1. OwnInv => DeliveredOnce
  BY DEF OwnInv, Exclusive, Alone, DeliveredOnce
<1>2. QED
  BY <1>1, OwnInvHolds, PTL

-----------------------------------------------------------------------------
(* Attempts.                                                               *)

\* No copy of a message, stored or in hand, counts more attempts than failed
\* since the last replay; only a copy that used them up is buried.
Counted ==
    /\ replaying # {} => replays > 0
    /\ \A w \in Worker : wpc[w] = "bury" => tries[w] > MaxAttempts
    /\ replays = 0 \/ (~slow /\ crashes = 0) =>
         /\ \A m \in Message : attempts[m] =< failures[m]
         /\ \A w \in Worker :
              wpc[w] \in {"deliver", "bury", "release"} => tries[w] =< failures[held[w]]

AttemptInv == Counted /\ DeadLetterIsEarned

\* A message is dead-lettered only after more deliveries of it failed than
\* max_attempts allows, counted since its last replay, and no attempt count ever
\* leaves its range, whichever worker's copy is written back last.
THEOREM DeadLettersAreEarned == Spec => []DeadLetterIsEarned
<1> USE OutboxAssumption
<1>1. Init => AttemptInv
  <2>1. <<>> \in Seq(Message)
    OBVIOUS
  <2>2. QED
    BY <2>1 DEF Init, AttemptInv, Counted, DeadLetterIsEarned, TypeOK
<1>2. OwnInv /\ OwnInv' /\ AttemptInv /\ [Next]_vars => AttemptInv'
  <2> SUFFICES ASSUME OwnInv, OwnInv', AttemptInv, [Next]_vars PROVE AttemptInv'
    OBVIOUS
  <2>0. TypeOK' /\ Shape
    BY DEF OwnInv
  <2> USE <2>0 DEF AttemptInv, Counted, DeadLetterIsEarned, Shape,
              workers, history, budget, Idle, Goto, CountFailure
  <2>1. ASSUME NEW m \in Message, Enqueue(m) PROVE AttemptInv'
    BY <2>1 DEF Enqueue, Put, TypeOK
  <2>2. ASSUME NEW m \in Message, LeaseExpires(m) PROVE AttemptInv'
    BY <2>2 DEF LeaseExpires
  <2>3. ASSUME NEW m \in Message, ReplayTake(m) PROVE AttemptInv'
    BY <2>3 DEF ReplayTake, TypeOK
  <2>4. ASSUME NEW m \in Message, ReplayEnqueue(m) PROVE AttemptInv'
    <3>1. ~slow /\ crashes = 0 => m \notin dead /\ \A w \in Worker : ~Works(w, m)
      BY <2>4 DEF ReplayEnqueue, OwnInv, Exclusive, Alone, Parked
    <3>2. QED
      BY <2>4, <3>1, SMTT(60) DEF ReplayEnqueue, Put, Works, TypeOK
  <2>5. ASSUME NEW m \in Message, ReplayCrash(m) PROVE AttemptInv'
    BY <2>5 DEF ReplayCrash
  <2>6. ASSUME NEW w \in Worker, Claim(w) PROVE AttemptInv'
    <3>1. PICK i \in 1..Len(queue) : held' = [held EXCEPT ![w] = queue[i]] /\ tries' = [tries EXCEPT ![w] = attempts[queue[i]]]
      BY <2>6 DEF Claim
    <3>2. queue[i] \in Message
      BY DEF TypeOK
    <3>3. QED
      BY <2>6, <3>1, <3>2 DEF Claim, TypeOK
  <2>7. ASSUME NEW w \in Worker, DeliverOk(w) PROVE AttemptInv'
    BY <2>7 DEF DeliverOk
  <2>8. ASSUME NEW w \in Worker, DeliverFails(w) PROVE AttemptInv'
    <3>1. held[w] \in Message /\ tries[w] \in 0..MaxAttempts
      BY <2>8 DEF DeliverFails, OwnInv, TypeOK
    <3>2. failures \in [Message -> 0..(MaxAttempts + 1)] /\ tries \in [Worker -> 0..(MaxAttempts + 1)]
          /\ dead \subseteq Message /\ wpc \in [Worker -> {"idle", "deliver", "bury", "ack", "release"}]
          /\ held \in [Worker -> Message \cup {NoMessage}] /\ attempts \in [Message -> 0..MaxAttempts]
      BY DEF TypeOK
    <3>3. \A m \in Message : failures[m] =< failures'[m]
      BY <2>8, <3>1, <3>2 DEF DeliverFails
    <3>4. tries[w] =< failures[held[w]] => tries[w] + 1 =< failures'[held[w]]
      BY <2>8, <3>1, <3>2 DEF DeliverFails
    <3>5. Counted'
      BY <2>8, <3>1, <3>2, <3>3, <3>4 DEF DeliverFails
    <3>6. DeadLetterIsEarned'
      BY <2>8, <3>2, <3>3 DEF DeliverFails
    <3>7. QED
      BY <3>5, <3>6
  <2>9. ASSUME NEW w \in Worker, Bury(w) PROVE AttemptInv'
    BY <2>9 DEF Bury, TypeOK
  <2>10. ASSUME NEW w \in Worker, Ack(w) PROVE AttemptInv'
    BY <2>10 DEF Ack
  <2>11. ASSUME NEW w \in Worker, Release(w) PROVE AttemptInv'
    BY <2>11, SMTT(60) DEF Release, Put, TypeOK
  <2>12. ASSUME NEW w \in Worker, Crash(w) PROVE AttemptInv'
    BY <2>12, SMTT(60) DEF Crash, TypeOK
  <2>13. CASE UNCHANGED vars
    BY <2>13 DEF vars
  <2>14. QED
    BY <2>1, <2>2, <2>3, <2>4, <2>5, <2>6, <2>7, <2>8, <2>9, <2>10, <2>11, <2>12, <2>13
    DEF Next, Work
<1>3. AttemptInv => DeadLetterIsEarned
  BY DEF AttemptInv
<1>4. QED
  BY <1>1, <1>2, <1>3, OwnInvHolds, PTL DEF Spec

-----------------------------------------------------------------------------
(* No event is lost.                                                       *)

\* While nothing is replayed, a row is deleted only of a message that reached
\* its subscribers or dead-letter.
Accounted ==
    /\ replays = 0 => replaying = {}
    /\ replays = 0 => \A w \in Worker :
         wpc[w] = "ack" => held[w] \in dead \/ delivered[held[w]] > 0

LossInv == Accounted /\ NothingLost

\* No event is lost: what a checkout enqueued is stored, delivered or in
\* dead-letter, or in a worker's hands if the store pops.  Only a replay, or a
\* crash under a store that pops, can lose one.
THEOREM NoEventIsLost == Spec => []NothingLost
<1> USE OutboxAssumption
<1>1. Init => LossInv
  BY DEF Init, LossInv, Accounted, NothingLost
<1>2. OwnInv /\ LossInv /\ [Next]_vars => LossInv'
  <2> SUFFICES ASSUME OwnInv, LossInv, [Next]_vars PROVE LossInv'
    OBVIOUS
  <2>0. TypeOK /\ NoRepeat(queue) /\ Shape
    BY DEF OwnInv
  <2> USE <2>0 DEF LossInv, Accounted, NothingLost, GivenUp, Leases, Stored, Shape, TypeOK,
              workers, history, budget, Idle, Goto, CountFailure
  <2>1. ASSUME NEW m \in Message, Enqueue(m) PROVE LossInv'
    <3>1. \A e : Contains(queue', e) <=> (Contains(queue, e) \/ e = m)
      BY <2>1, PutStores DEF Enqueue, OwnInv, Known
    <3>2. QED
      BY <2>1, <3>1 DEF Enqueue
  <2>2. ASSUME NEW m \in Message, LeaseExpires(m) PROVE LossInv'
    BY <2>2 DEF LeaseExpires
  <2>3. ASSUME NEW m \in Message, ReplayTake(m) PROVE LossInv'
    BY <2>3 DEF ReplayTake
  <2>4. ASSUME NEW m \in Message, ReplayEnqueue(m) PROVE LossInv'
    BY <2>4 DEF ReplayEnqueue
  <2>5. ASSUME NEW m \in Message, ReplayCrash(m) PROVE LossInv'
    BY <2>5 DEF ReplayCrash
  <2>6. ASSUME NEW w \in Worker, Claim(w) PROVE LossInv'
    <3>1. PICK i \in 1..Len(queue) :
            /\ held' = [held EXCEPT ![w] = queue[i]]
            /\ queue' = IF Leases THEN queue ELSE RemoveAt(queue, i)
      BY <2>6 DEF Claim
    <3>2. PICK m \in Message : m = queue[i]
      OBVIOUS
    <3>3. \A e : Contains(queue', e) <=> (Contains(queue, e) /\ (Leases \/ e # m))
      BY <3>1, <3>2, RemoveAtRemoves, ZenonT(60)
    <3>4. /\ wpc[w] = "idle" /\ wpc' = [wpc EXCEPT ![w] = "deliver"]
          /\ held' = [held EXCEPT ![w] = m]
          /\ UNCHANGED <<attempts, dead, replaying, history, budget>>
      BY <2>6, <3>1, <3>2 DEF Claim
    <3>5. held[w] = NoMessage /\ \A n \in Message, v \in Worker : held[v] = n => held'[v] = n
      BY <3>4
    <3>6. Accounted'
      BY <3>4
    <3>7. NothingLost'
      <4>1. UNCHANGED <<dead, enqueued, delivered, crashes, replays, store>>
        BY <3>4
      <4>2. held'[w] = m
        BY <3>4
      <4>3. SUFFICES ASSUME ~GivenUp, NEW n \in enqueued
                     PROVE  \/ Contains(queue', n) \/ n \in dead \/ delivered[n] > 0
                            \/ ~Leases /\ \E v \in Worker : held'[v] = n
        BY <4>1
      <4>4. \/ Contains(queue, n) \/ n \in dead \/ delivered[n] > 0
            \/ ~Leases /\ \E v \in Worker : held[v] = n
        BY <4>3
      <4>5. n \in Message
        BY <4>3
      <4> HIDE DEF Leases
      <4>6. QED
        BY <3>3, <3>5, <4>2, <4>4, <4>5, Zenon
    <3>8. QED
      BY <3>6, <3>7
  <2>7. ASSUME NEW w \in Worker, DeliverOk(w) PROVE LossInv'
    BY <2>7 DEF DeliverOk
  <2>8. ASSUME NEW w \in Worker, DeliverFails(w) PROVE LossInv'
    BY <2>8 DEF DeliverFails
  <2>9. ASSUME NEW w \in Worker, Bury(w) PROVE LossInv'
    BY <2>9 DEF Bury
  <2>10. ASSUME NEW w \in Worker, Ack(w) PROVE LossInv'
    <3>1. \A e : Contains(queue', e) <=> (Contains(queue, e) /\ (~Leases \/ e # held[w]))
      BY <2>10, DeleteRemoves DEF Ack
    <3>2. QED
      BY <2>10, <3>1 DEF Ack
  <2>11. ASSUME NEW w \in Worker, Release(w) PROVE LossInv'
    <3>1. held[w] \in Message /\ (Leases \/ ~Stored(held[w]))
      BY <2>11 DEF Release, OwnInv, Exclusive, Alone, Works
    <3>2. \A e : Contains(queue', e) <=> (Contains(queue, e) \/ e = held[w])
      BY <2>11, <3>1, PutStores DEF Release
    <3>3. QED
      BY <2>11, <3>2 DEF Release
  <2>12. ASSUME NEW w \in Worker, Crash(w) PROVE LossInv'
    BY <2>12 DEF Crash
  <2>13. CASE UNCHANGED vars
    BY <2>13 DEF vars
  <2>14. QED
    BY <2>1, <2>2, <2>3, <2>4, <2>5, <2>6, <2>7, <2>8, <2>9, <2>10, <2>11, <2>12, <2>13
    DEF Next, Work
<1>3. LossInv => NothingLost
  BY DEF LossInv
<1>4. QED
  BY <1>1, <1>2, <1>3, OwnInvHolds, PTL DEF Spec
=============================================================================
