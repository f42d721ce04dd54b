---------------------------- MODULE GatewayProofs ---------------------------
(***************************************************************************)
(* Proofs about Gateway, and so about Deployment, for any number of        *)
(* tenants, requests and faults and, with all settings among the           *)
(* Deviations and nothing Pruned, for every configuration and traffic.     *)
(***************************************************************************)
EXTENDS Gateway, FiniteSetTheorems, TLAPS

-----------------------------------------------------------------------------
(* What each action leaves alone.                                          *)

\* The work of a request leaves the process as it is, but for a message that it
\* queues.
LEMMA WorkLeavesProcess ==
  ASSUME NEW r \in Request, Work(r), ~Queue(r)
  PROVE  UNCHANGED vars
BY DEF Work, Serve, CartCall, CheckoutCall, CreateCart, GetCart, EditCart, FulfilCart,
       StartCheckout, CancelCart, NotMine, RecordMandate, Claim, Settle, EditFails, SettleFails,
       Sell, Decline, Record, BuyFails, HangUp, vars

\* So does the arrival of one.
LEMMA ArrivalLeavesProcess ==
  ASSUME \/ \E surface, route : Arrive(surface, route)
         \/ \E surface, route, flaw : Turned(surface, route, flaw)
         \/ \E capability : Ask(capability)
  PROVE  UNCHANGED vars
BY DEF Arrive, Turned, Ask, vars

-----------------------------------------------------------------------------
(* Production.                                                             *)

\* A layer of settings whose values are such as the setting can have.
IsLayer(f) == f \in [Setting -> Value] /\ \A k \in Setting : f[k] \in Values(k)

\* Laying the environment over the file makes such a layer of two.
LEMMA OverrideType ==
  ASSUME NEW k, NEW f \in Values(k), NEW e \in Values(k)
  PROVE  Override(k, f, e) \in Values(k)
BY DEF Override, Values, Value

App ==
    [auth : {"none", "dev", "static", "jwt"}, token : Value, store : {"none", "memory", "postgres"},
     providers : SUBSET (Value \cup {"mock"}), signing : BOOLEAN, embedded : BOOLEAN,
     inbound : BOOLEAN, delegation : BOOLEAN, linking : BOOLEAN]

\* The configuration is one, from the start to the end, and the processor is
\* spawned once the facade was built.
Configured ==
    /\ IsLayer(file) /\ IsLayer(env) /\ IsLayer(config)
    /\ profile \in {"production", "development"} /\ authMode \in {"static", "jwt"}
    /\ app \in App
    /\ phase \in {"start", "loaded"} => processor = "none"
    /\ phase \in {"built", "assembled", "serving", "failing", "draining", "lingering"}
         => processor # "none"

\* What a production configuration that was accepted builds.
LEMMA ProductionAppIsGuarded ==
  ASSUME IsLayer(config), authMode \in {"static", "jwt"}, RequireProduction(config, authMode)
  PROVE  LET a == ProductionApp(config, authMode)
         IN  /\ a.auth \in {"static", "jwt"} /\ a.token = "good"
             /\ a.store = "postgres" /\ a.signing /\ a.providers = {"good"}
<1>1. \A k \in Components : config[k] = "good"
  BY DEF RequireProduction, Has, IsLayer, Setting, Components, Values, Value, Parsed
<1>2. {config[k] : k \in Components} = {"good"}
  BY <1>1 DEF Components
<1>3. AuthToken(config, authMode) = "good"
  BY DEF RequireProduction, AuthToken, Has, IsLayer, Setting, Values, Value, Parsed, Components
<1>4. QED
  BY <1>2, <1>3 DEF ProductionApp

GuardInv == Configured /\ ProductionIsGuarded

\* Layers over a base are layers.
LEMMA InitLayers ==
  ASSUME DeploymentInit
  PROVE  IsLayer(file) /\ IsLayer(env) /\ IsLayer(config)
<1>1. IsLayer(Unset) /\ \A b \in Bases : IsLayer(b)
  BY DEF IsLayer, Unset, Bases, Values, Value
<1>2. ASSUME NEW b, IsLayer(b), NEW ks, NEW l \in Layers(ks), ks \subseteq Setting
      PROVE  IsLayer(Over(b, l))
  BY <1>2 DEF IsLayer, Layers, Over
<1>3. \A ks \in Deviations : ks \subseteq Setting
  BY DeploymentAssumption
<1>4. PICK b \in Bases, ks \in Deviations :
        /\ file \in {Over(b, l) : l \in Layers(ks)}
        /\ env \in {Over(Unset, l) : l \in Layers(ks)}
  BY DEF DeploymentInit
<1>5. QED
  BY <1>1, <1>2, <1>3, <1>4 DEF DeploymentInit

\* The boundary between the process and its requests, and the process's own
\* steps: what GuardInv rests on does not change but where the process starts.
LEMMA GuardInvHolds == GatewaySpec => []GuardInv
<1>1. GatewayInit => GuardInv
  <2> SUFFICES ASSUME GatewayInit PROVE GuardInv
    OBVIOUS
  <2>1. app \in App
    BY DEF GatewayInit, DeploymentInit, NoApp, App, Value
  <2>2. QED
    BY <2>1, InitLayers DEF GatewayInit, DeploymentInit, GuardInv, Configured, ProductionIsGuarded
<1>2. GuardInv /\ [GatewayNext]_gvars => GuardInv'
  <2> SUFFICES ASSUME GuardInv, [GatewayNext]_gvars PROVE GuardInv'
    OBVIOUS
  <2> USE DEF GuardInv, Configured, ProductionIsGuarded, settings, outbox
  <2>1. CASE Load
    <3>1. file["document"] # "bad" => IsLayer(config')
      BY <2>1, OverrideType DEF Load, Effective, IsLayer, Values
    <3>2. IsLayer(Unset)
      BY DEF IsLayer, Unset, Values, Value
    <3>3. QED
      BY <2>1, <3>1, <3>2 DEF Load, Refuse
  <2>2. CASE Migrate
    BY <2>2 DEF Migrate
  <2>3. CASE Build
    <3>1. CASE profile = "production" /\ RequireProduction(config, authMode) /\ app' = ProductionApp(config, authMode)
      <4>1. /\ app'.auth \in {"static", "jwt"} /\ app'.token = "good" /\ app'.store = "postgres"
            /\ app'.signing /\ app'.providers = {"good"}
        BY <3>1, ProductionAppIsGuarded
      <4>2. app' \in App
        BY <3>1, <4>1 DEF ProductionApp, App, Value, Has
      <4>3. QED
        BY <2>3, <4>1, <4>2 DEF Build
    <3>2. CASE profile = "development" /\ app' = DevelopmentApp(config)
      <4>1. app' \in App
        BY <3>2 DEF DevelopmentApp, App, Value
      <4>2. QED
        BY <2>3, <3>2, <4>1 DEF Build
    <3>3. QED
      BY <2>3, <3>1, <3>2 DEF Build
  <2>4. CASE BuildRefused
    BY <2>4 DEF BuildRefused, Refuse
  <2>5. CASE Assemble
    <3>1. /\ app' \in App
          /\ app'.auth = app.auth /\ app'.token = app.token /\ app'.store = app.store
          /\ app'.signing = app.signing /\ app'.providers = app.providers
      BY <2>5 DEF Assemble, App, Has
    <3>2. IsLayer(Unset)
      BY DEF IsLayer, Unset, Values, Value
    <3>3. QED
      BY <2>5, <3>1, <3>2 DEF Assemble
  <2>6. CASE AssembleFails
    BY <2>6 DEF AssembleFails
  <2>7. CASE Bind \/ BindFails \/ Signal
    BY <2>7 DEF Bind, BindFails, Signal
  <2>8. CASE Shutdown \/ Exit
    BY <2>8 DEF Shutdown, DrainAwaited, DrainTimesOut, Exit
  <2>9. CASE Process
    BY <2>9 DEF Process, Deliver, LeasedElsewhere, LeaseEnds, DrainEnds, DrainGivesUp
  <2>10. ASSUME NEW r \in Request, Work(r) PROVE GuardInv'
    <3>1. CASE Queue(r)
      BY <3>1 DEF Queue
    <3>2. CASE ~Queue(r)
      BY <2>10, <3>2, WorkLeavesProcess DEF vars
    <3>3. QED
      BY <3>1, <3>2
  <2>11. CASE UNCHANGED vars
    BY <2>11 DEF vars
  <2>12. QED
    BY <2>1, <2>2, <2>3, <2>4, <2>5, <2>6, <2>7, <2>8, <2>9, <2>10, <2>11, ArrivalLeavesProcess
    DEF GatewayNext, Operate, Start, ExitUnderway, gvars
<1>3. QED
  BY <1>1, <1>2, PTL DEF GatewaySpec

\* Once the outbox processor may deliver in production, the process authenticates
\* with a real token, stores durably, signs and calls real providers, whatever
\* the file and the environment say, and until it exits.
THEOREM ProductionStaysGuarded == GatewaySpec => []ProductionIsGuarded
<1>1. GuardInv => ProductionIsGuarded
  BY DEF GuardInv
<1>2. QED
  BY <1>1, GuardInvHolds, PTL

-----------------------------------------------------------------------------
(* The end.                                                                *)

\* A drain that came to its end left nothing but what other workers had taken,
\* and what was queued since is late; main goes on before that only if it gives
\* the drain up.
DrainInv ==
    /\ ~cut /\ processor = "stopped" => queue \subseteq late \cup left
    /\ ~cut /\ phase = "lingering" => processor = "stopped"
    /\ DrainedAtExit

\* A shutdown whose drain was not given up leaves behind only messages that
\* another worker had taken when the drain ended, and messages of sales made while
\* the server went on answering after it.
THEOREM DrainedWhenExited == GatewaySpec => []DrainedAtExit
<1>1. GatewayInit => DrainInv
  BY DEF GatewayInit, DeploymentInit, DrainInv, DrainedAtExit
<1>2. DrainInv /\ [GatewayNext]_gvars => DrainInv'
  <2> SUFFICES ASSUME DrainInv, [GatewayNext]_gvars PROVE DrainInv'
    OBVIOUS
  <2> USE DEF DrainInv, DrainedAtExit, settings, outbox
  <2>1. CASE Start
    BY <2>1 DEF Start, Load, Migrate, Build, BuildRefused, Refuse, Assemble, AssembleFails
  <2>2. CASE Bind \/ BindFails \/ Signal
    BY <2>2 DEF Bind, BindFails, Signal
  <2>3. CASE Shutdown \/ Exit
    BY <2>3 DEF Shutdown, DrainAwaited, DrainTimesOut, Exit
  <2>4. CASE Process
    BY <2>4 DEF Process, Deliver, LeasedElsewhere, LeaseEnds, DrainEnds, DrainGivesUp
  <2>5. ASSUME NEW r \in Request, Work(r) PROVE DrainInv'
    <3>1. CASE Queue(r)
      BY <3>1 DEF Queue, At
    <3>2. CASE ~Queue(r)
      BY <2>5, <3>2, WorkLeavesProcess DEF vars
    <3>3. QED
      BY <3>1, <3>2
  <2>6. CASE UNCHANGED vars
    BY <2>6 DEF vars
  <2>7. QED
    BY <2>1, <2>2, <2>3, <2>4, <2>5, <2>6, ArrivalLeavesProcess
    DEF GatewayNext, Operate, ExitUnderway, gvars
<1>3. DrainInv => DrainedAtExit
  BY DEF DrainInv
<1>4. QED
  BY <1>1, <1>2, <1>3, PTL DEF GatewaySpec

-----------------------------------------------------------------------------
(* Requests and carts.                                                     *)

Line == Request \cup {Stored}

CartOps == {"create", "get", "add", "qty", "remove", "fulfil", "start", "cancel"}
BuyOps  == {"mandate", "claim", "settle", "sell", "queue", "record"}

\* Calls that a script does not end with.
Halfway == BuyOps \ {"record"}

Step == (CartOps \cup BuyOps) \X Line

Scripted ==
    {"command", "create", "create_checkout", "get", "start", "update", "fulfil", "complete",
     "acp_complete", "cancel"}

Job ==
    [route : Scripted \cup {"none"}, todo : Seq(Step), cart : Line, named : Line,
     tenant : Tenant, seen : Nat, key : Line, mandate : Line, keep : SUBSET Line]

\* What goes before and after a call in its script.  The rest of a script is in
\* the same order.
Follows(st, call, last) ==
    /\ call[1] # "create"
    /\ st /\ call[1] = "claim" => last[1] = "mandate"
    /\ call[1] = "settle" => last[1] = "claim"
    /\ call[1] = "sell" => last[1] = "settle"
    /\ call[1] = "queue" <=> last[1] = "sell"
    /\ call[1] = "record" <=> last[1] = "queue"
    /\ last[1] # "record"

Ordered(st, todo) ==
    /\ \A i \in 2..Len(todo) : Follows(st, todo[i], todo[i - 1])
    /\ \A i \in 1..Len(todo) : todo[i][1] \in Halfway => i # Len(todo)

\* A script that goes on to a checkout in a cart it has just edited, or in one
\* it was given: not the one of an ACP completion.
Direct(todo) ==
    \A i \in 2..Len(todo) :
        /\ todo[i][1] # "mandate"
        /\ todo[i][1] = "claim" => todo[i - 1][1] = "mandate"
        /\ todo[i][1] = "start" => todo[i - 1][1] = "add"

\* A script that claims has a key to claim.
Keyed(job) ==
    \A i \in 1..Len(job.todo) : job.todo[i][1] \in BuyOps => job.key \in Request

\* Some sequence of a finite set's elements there is.
LEMMA SetToSeqType ==
  ASSUME NEW S, IsFiniteSet(S)
  PROVE  SetToSeq(S) \in Seq(S)
<1>1. PICK f \in [1..Cardinality(S) -> S] : IsInjective(f)
  BY FS_CardinalityType DEF ExistsBijection, Bijection, Injection, IsInjective
<1>2. SetToSeq(S) \in [1..Cardinality(S) -> S]
  BY <1>1 DEF SetToSeq
<1>3. QED
  BY <1>2, FS_CardinalityType

\* The fields of a job that goes on.
LEMMA GoesFacts ==
  ASSUME NEW job \in Job, NEW rest \in Seq(Step), NEW v \in Nat, NEW j, j = Goes(job, rest, v)
  PROVE  /\ j \in Job /\ j.todo = rest /\ j.seen = v
         /\ j.route = job.route /\ j.cart = job.cart /\ j.named = job.named
         /\ j.tenant = job.tenant
         /\ j.key = job.key /\ j.mandate = job.mandate /\ j.keep = job.keep
BY DEF Goes, Job

\* The rest of a script, call by call.
LEMMA TailFacts ==
  ASSUME NEW todo \in Seq(Step), todo # <<>>
  PROVE  /\ Tail(todo) \in Seq(Step) /\ Len(Tail(todo)) = Len(todo) - 1
         /\ \A i \in 1..Len(Tail(todo)) : Tail(todo)[i] = todo[i + 1]
         /\ \A i \in 2..Len(Tail(todo)) :
              /\ i + 1 \in 2..Len(todo) /\ Tail(todo)[i] = todo[i + 1]
              /\ Tail(todo)[i - 1] = todo[(i + 1) - 1]
<1> DEFINE rest == Tail(todo)
           n == Len(todo)
<1>1. rest \in Seq(Step) /\ n \in Nat /\ Len(rest) = n - 1
  OBVIOUS
<1>2. \A i \in 1..Len(rest) : rest[i] = todo[i + 1]
  OBVIOUS
<1> HIDE DEF rest, n
<1>3. \A i \in 2..Len(rest) :
        /\ i + 1 \in 2..n /\ i \in 1..Len(rest) /\ i - 1 \in 1..Len(rest)
        /\ (i - 1) + 1 = (i + 1) - 1
  BY <1>1
<1>4. \A i \in 2..Len(rest) : rest[i] = todo[i + 1] /\ rest[i - 1] = todo[(i + 1) - 1]
  BY <1>2, <1>3
<1>5. QED
  BY <1>1, <1>2, <1>3, <1>4 DEF rest, n

\* The rest of a script keeps the order.
LEMMA TailOrdered ==
  ASSUME NEW todo \in Seq(Step), todo # <<>>, Ordered(strict, todo)
  PROVE  /\ Tail(todo) \in Seq(Step) /\ Ordered(strict, Tail(todo))
         /\ Len(Tail(todo)) = Len(todo) - 1
         /\ \A i \in 1..Len(Tail(todo)) : Tail(todo)[i] = todo[i + 1]
<1> DEFINE rest == Tail(todo)
           n == Len(todo)
<1>1. /\ rest \in Seq(Step) /\ Len(rest) = n - 1 /\ n \in Nat
      /\ \A i \in 1..Len(rest) : rest[i] = todo[i + 1]
      /\ \A i \in 2..Len(rest) :
           i + 1 \in 2..n /\ rest[i] = todo[i + 1] /\ rest[i - 1] = todo[(i + 1) - 1]
  BY TailFacts
<1>2. \A i \in 1..n : todo[i][1] \in Halfway => i # n
  BY DEF Ordered
<1> HIDE DEF rest, n
<1>3. \A i \in 1..Len(rest) : rest[i][1] \in Halfway => i # Len(rest)
  <2>1. \A i \in 1..Len(rest) : i + 1 \in 1..n /\ (i = Len(rest) => i + 1 = n)
    BY <1>1
  <2>2. QED
    BY <1>1, <1>2, <2>1
<1>4. Ordered(strict, rest)
  <2>1. \A i \in 2..n : Follows(strict, todo[i], todo[i - 1])
    BY DEF Ordered, n
  <2>2. \A i \in 2..Len(rest) : Follows(strict, rest[i], rest[i - 1])
    BY <1>1, <2>1
  <2>3. QED
    BY <1>3, <2>2 DEF Ordered
<1>5. QED
  BY <1>1, <1>4 DEF rest, n

\* A script has one call left, or more.
LEMMA LastOrNot ==
  ASSUME NEW todo \in Seq(Step), todo # <<>>
  PROVE  \/ Len(todo) = 1 /\ Tail(todo) = <<>>
         \/ Len(todo) > 1 /\ Tail(todo) # <<>>
<1>1. \A s \in Seq(Step) : s = <<>> <=> Len(s) = 0
  OBVIOUS
<1> DEFINE n == Len(todo)
           rest == Tail(todo)
<1>2. n \in Nat /\ n # 0 /\ rest \in Seq(Step) /\ Len(rest) = n - 1
  OBVIOUS
<1>3. rest = <<>> <=> n - 1 = 0
  BY <1>1, <1>2, Zenon
<1> HIDE DEF n, rest
<1>4. (n = 1 /\ rest = <<>>) \/ (n > 1 /\ rest # <<>>)
  BY <1>2, <1>3
<1>5. QED
  BY <1>4, Zenon DEF n, rest

\* A checkout goes on until its outcome is recorded, which is the last of it.
LEMMA OrderedEnds ==
  ASSUME NEW st, NEW todo \in Seq(Step), todo # <<>>, Ordered(st, todo)
  PROVE  /\ Head(todo)[1] \in Halfway => Tail(todo) # <<>>
         /\ Head(todo)[1] = "record" => Tail(todo) = <<>>
<1> DEFINE n == Len(todo)
<1>1. Head(todo) = todo[1] /\ n \in Nat /\ n > 0
  OBVIOUS
<1>2. \/ n = 1 /\ Tail(todo) = <<>>
      \/ n > 1 /\ Tail(todo) # <<>>
  BY LastOrNot
<1>3. /\ \A i \in 1..n : todo[i][1] \in Halfway => i # n
      /\ \A i \in 2..n : todo[i - 1][1] # "record"
  BY DEF Ordered, Follows
<1> HIDE DEF n
<1>4. n = 1 => todo[1][1] \notin Halfway
  BY <1>1, <1>3
<1>5. n > 1 => todo[1][1] # "record"
  <2>1. n > 1 => 2 \in 2..n /\ 2 - 1 = 1
    BY <1>1
  <2>2. QED
    BY <1>3, <2>1
<1>6. QED
  BY <1>1, <1>2, <1>4, <1>5

\* The calls of an update are edits of lines.
LEMMA UpdateCallsType ==
  ASSUME NEW r \in Request, req[r] \in Job, NEW lines \in SUBSET Line
  PROVE  LET u == UpdateCalls(r, lines)
         IN  /\ u \in Seq(Step) /\ u # <<>>
             /\ \A i \in 1..Len(u) : u[i][1] \in EditOps
<1> DEFINE gone == {<<"remove", l>> : l \in lines \ req[r].keep}
           kept == {<<"qty", l>> : l \in req[r].keep}
           E == EditOps \X Line
<1>1. ASSUME NEW op, NEW S \in SUBSET Line
      PROVE  IsFiniteSet({<<op, l>> : l \in S})
  <2>1. IsFiniteSet(S)
    BY FS_BoundedSetOfNaturals, GatewayAssumption DEF Line, Request, Stored
  <2> DEFINE f == [l \in S |-> <<op, l>>]
  <2>2. f \in Surjection(S, {<<op, l>> : l \in S})
    BY DEF Surjection
  <2>3. QED
    BY <2>1, <2>2, FS_Surjection
<1>2. gone \subseteq E /\ kept \subseteq E /\ <<"add", r>> \in E
  BY DEF EditOps, Job, Line
<1>3. SetToSeq(gone) \in Seq(E) /\ SetToSeq(kept) \in Seq(E)
  <2>1. SetToSeq(gone) \in Seq(gone) /\ SetToSeq(kept) \in Seq(kept)
    BY <1>1, SetToSeqType DEF Job
  <2>2. QED
    BY <1>2, <2>1
<1>4. /\ UpdateCalls(r, lines) \in Seq(E)
      /\ UpdateCalls(r, lines) # <<>>
  <2> HIDE DEF gone, kept, E
  <2>1. UpdateCalls(r, lines) = SetToSeq(gone) \o SetToSeq(kept) \o <<<<"add", r>>>>
    BY DEF UpdateCalls, gone, kept
  <2>2. QED
    BY <1>2, <1>3, <2>1
<1>5. E \subseteq Step
  BY DEF EditOps, Step, CartOps
<1>6. QED
  BY <1>4, <1>5

\* A script as it starts.
Opening(s, route) ==
    /\ s \in Seq(Step) /\ s # <<>> /\ Ordered(strict, s)
    /\ Head(s)[1] \notin {"settle", "sell", "queue", "record"}
    /\ strict => Head(s)[1] # "claim"
    /\ Head(s)[1] = "create" <=> route \in {"create", "create_checkout"}
    /\ \A i \in 1..Len(s) : s[i][1] \in BuyOps => route \in {"complete", "acp_complete"}
    /\ Head(s)[1] \in BuyOps \cup {"start"} => route \in {"start", "complete"}
    /\ route # "acp_complete" => Direct(s)
    /\ route = "update" => Head(s)[1] = "get"

\* A script made of calls that are not those of a checkout, and does not create
\* a cart but first, is such a start.
LEMMA CartScript ==
  ASSUME NEW route, NEW s \in Seq(Step), Len(s) > 0,
         \A i \in 1..Len(s) : s[i][1] \in CartOps,
         \A i \in 2..Len(s) : s[i][1] # "create",
         s[1][1] = "create" <=> route \in {"create", "create_checkout"},
         s[1][1] = "start" => route = "start",
         route = "update" => s[1][1] = "get",
         \A i \in 2..Len(s) : s[i][1] = "start" => s[i - 1][1] = "add"
  PROVE  Opening(s, route)
<1>1. s # <<>> /\ Head(s) = s[1] /\ Head(s)[1] \in CartOps
  OBVIOUS
<1>2. QED
  BY <1>1, SMTT(60) DEF Opening, Ordered, Follows, Direct, CartOps, BuyOps, Halfway

\* What a concatenation consists of.
LEMMA ConcatFacts ==
  ASSUME NEW S, NEW x \in Seq(S), NEW y \in Seq(S)
  PROVE  /\ x \o y \in Seq(S) /\ Len(x \o y) = Len(x) + Len(y)
         /\ \A i \in 1..Len(x) : (x \o y)[i] = x[i]
         /\ \A i \in 1..Len(y) : (x \o y)[Len(x) + i] = y[i]
OBVIOUS

\* The calls of a checkout, as elements of a sequence.
LEMMA CheckoutCallsType ==
  ASSUME strict \in BOOLEAN
  PROVE  LET s == CheckoutCalls
             n == IF strict THEN 1 ELSE 0
         IN  /\ s \in Seq(Step) /\ Len(s) = n + 5
             /\ strict => s[1][1] = "mandate"
             /\ s[n + 1][1] = "claim" /\ s[n + 2][1] = "settle" /\ s[n + 3][1] = "sell"
             /\ s[n + 4][1] = "queue" /\ s[n + 5][1] = "record"
<1> DEFINE pre == IF strict THEN <<Call("mandate")>> ELSE <<>>
           buy == RunnerCalls
<1>1. \A op \in BuyOps : Call(op) \in Step /\ Call(op)[1] = op
  BY DEF Call, Step, Line, Stored
<1>2. /\ buy \in Seq(Step) /\ Len(buy) = 5
      /\ buy[1][1] = "claim" /\ buy[2][1] = "settle" /\ buy[3][1] = "sell"
      /\ buy[4][1] = "queue" /\ buy[5][1] = "record"
  BY <1>1 DEF BuyOps, RunnerCalls
<1>3. /\ pre \in Seq(Step)
      /\ strict => Len(pre) = 1 /\ pre[1][1] = "mandate"
      /\ ~strict => Len(pre) = 0
  BY <1>1 DEF BuyOps
<1>4. CheckoutCalls = pre \o buy
  BY DEF CheckoutCalls
<1> HIDE DEF pre, buy
<1>5. /\ CheckoutCalls \in Seq(Step) /\ Len(CheckoutCalls) = Len(pre) + 5
      /\ \A i \in 1..Len(pre) : CheckoutCalls[i] = pre[i]
      /\ \A i \in 1..5 : CheckoutCalls[Len(pre) + i] = buy[i]
  <2>1. pre \in Seq(Step) /\ buy \in Seq(Step)
    BY <1>2, <1>3
  <2>2. /\ pre \o buy \in Seq(Step) /\ Len(pre \o buy) = Len(pre) + Len(buy)
        /\ \A i \in 1..Len(pre) : (pre \o buy)[i] = pre[i]
        /\ \A i \in 1..Len(buy) : (pre \o buy)[Len(pre) + i] = buy[i]
    BY <2>1, ConcatFacts
  <2>3. QED
    BY <1>2, <1>4, <2>1, <2>2
<1>6. CASE strict
  <2>1. Len(pre) = 1
    BY <1>3, <1>6, Zenon
  <2>2. /\ CheckoutCalls[1] = pre[1] /\ CheckoutCalls[2] = buy[1]
        /\ CheckoutCalls[3] = buy[2] /\ CheckoutCalls[4] = buy[3]
        /\ CheckoutCalls[5] = buy[4] /\ CheckoutCalls[6] = buy[5]
    BY <1>5, <2>1
  <2>3. QED
    BY <1>2, <1>3, <1>5, <1>6, <2>1, <2>2
<1>7. CASE ~strict
  BY <1>2, <1>3, <1>5, <1>7
<1>8. QED
  BY <1>6, <1>7

\* Every script starts as one.
LEMMA ScriptType ==
  ASSUME NEW r \in Request, NEW route \in Scripted, strict \in BOOLEAN
  PROVE  Opening(Script(route, r), route)
<1> DEFINE s == Script(route, r)
<1>1. \A op \in CartOps : Call(op) \in Step /\ Call(op)[1] = op
  BY DEF Call, Step, Line, Stored
<1>2. <<"add", r>> \in Step /\ <<"add", r>>[1] = "add"
  BY DEF Step, Line, CartOps
<1>0. SUFFICES Opening(s, route)
  BY DEF s
<1> HIDE DEF s
<1>3. CASE route = "create"
  <2>1. s = <<Call("create"), <<"add", r>>>>
    BY <1>3 DEF Script, s
  <2>2. s \in Seq(Step) /\ Len(s) = 2 /\ s[1][1] = "create" /\ s[2][1] = "add"
    BY <1>1, <1>2, <2>1 DEF CartOps
  <2>3. /\ Len(s) > 0
        /\ \A i \in 1..Len(s) : s[i][1] \in CartOps
        /\ \A i \in 2..Len(s) : s[i][1] # "create"
        /\ \A i \in 2..Len(s) : s[i][1] = "start" => s[i - 1][1] = "add"
    BY <2>2 DEF CartOps
  <2>4. /\ s[1][1] = "create" <=> route \in {"create", "create_checkout"}
        /\ s[1][1] = "start" => route = "start"
        /\ route = "update" => s[1][1] = "get"
    BY <1>3, <2>2
  <2>5. QED
    BY <2>2, <2>3, <2>4, CartScript, ZenonT(60)
<1>4. CASE route = "create_checkout"
  <2>1. s = <<Call("create"), <<"add", r>>, Call("start")>>
    BY <1>4 DEF Script, s
  <2>2. /\ s \in Seq(Step) /\ Len(s) = 3
        /\ s[1][1] = "create" /\ s[2][1] = "add" /\ s[3][1] = "start"
    BY <1>1, <1>2, <2>1 DEF CartOps
  <2>3. /\ Len(s) > 0
        /\ \A i \in 1..Len(s) : s[i][1] \in CartOps
        /\ \A i \in 2..Len(s) : s[i][1] # "create"
        /\ \A i \in 2..Len(s) : s[i][1] = "start" => s[i - 1][1] = "add"
    BY <2>2 DEF CartOps
  <2>4. /\ s[1][1] = "create" <=> route \in {"create", "create_checkout"}
        /\ s[1][1] = "start" => route = "start"
        /\ route = "update" => s[1][1] = "get"
    BY <1>4, <2>2
  <2>5. QED
    BY <2>2, <2>3, <2>4, CartScript, ZenonT(60)
<1>5. CASE route = "command"
  <2>1. s = <<<<"add", r>>>>
    BY <1>5 DEF Script, s
  <2>2. s \in Seq(Step) /\ Len(s) = 1 /\ s[1][1] = "add"
    BY <1>2, <2>1
  <2>3. /\ Len(s) > 0
        /\ \A i \in 1..Len(s) : s[i][1] \in CartOps
        /\ \A i \in 2..Len(s) : s[i][1] # "create"
        /\ \A i \in 2..Len(s) : s[i][1] = "start" => s[i - 1][1] = "add"
    BY <2>2 DEF CartOps
  <2>4. /\ s[1][1] = "create" <=> route \in {"create", "create_checkout"}
        /\ s[1][1] = "start" => route = "start"
        /\ route = "update" => s[1][1] = "get"
    BY <1>5, <2>2
  <2>5. QED
    BY <2>2, <2>3, <2>4, CartScript, ZenonT(60)
<1>6. CASE route \in {"get", "update"}
  <2>1. s = <<Call("get")>>
    BY <1>6 DEF Script, s
  <2>2. s \in Seq(Step) /\ Len(s) = 1 /\ s[1][1] = "get"
    BY <1>1, <2>1 DEF CartOps
  <2>3. /\ Len(s) > 0
        /\ \A i \in 1..Len(s) : s[i][1] \in CartOps
        /\ \A i \in 2..Len(s) : s[i][1] # "create"
        /\ \A i \in 2..Len(s) : s[i][1] = "start" => s[i - 1][1] = "add"
    BY <2>2 DEF CartOps
  <2>4. /\ s[1][1] = "create" <=> route \in {"create", "create_checkout"}
        /\ s[1][1] = "start" => route = "start"
        /\ route = "update" => s[1][1] = "get"
    BY <1>6, <2>2
  <2>5. QED
    BY <2>2, <2>3, <2>4, CartScript, ZenonT(60)
<1>7. CASE route \in {"start", "fulfil", "cancel"}
  <2>1. s = <<Call(route)>>
    BY <1>7 DEF Script, s
  <2>2. s \in Seq(Step) /\ Len(s) = 1 /\ s[1][1] = route
    BY <1>1, <1>7, <2>1 DEF CartOps
  <2>3. /\ Len(s) > 0
        /\ \A i \in 1..Len(s) : s[i][1] \in CartOps
        /\ \A i \in 2..Len(s) : s[i][1] # "create"
        /\ \A i \in 2..Len(s) : s[i][1] = "start" => s[i - 1][1] = "add"
    BY <1>7, <2>2 DEF CartOps
  <2>4. /\ s[1][1] = "create" <=> route \in {"create", "create_checkout"}
        /\ s[1][1] = "start" => route = "start"
        /\ route = "update" => s[1][1] = "get"
    BY <1>7, <2>2
  <2>5. QED
    BY <2>2, <2>3, <2>4, CartScript, ZenonT(60)
<1>8. CASE route = "complete"
  <2>1. s = CheckoutCalls
    BY <1>8 DEF Script, s
  <2>2. CASE strict
    <3>1. /\ s \in Seq(Step) /\ Len(s) = 6
          /\ s[1][1] = "mandate" /\ s[2][1] = "claim" /\ s[3][1] = "settle" /\ s[4][1] = "sell"
          /\ s[5][1] = "queue" /\ s[6][1] = "record"
      BY <2>1, <2>2, CheckoutCallsType
    <3>2. s # <<>> /\ Head(s) = s[1]
      <4>1. s \in Seq(Step) /\ Len(s) > 0
        BY <3>1
      <4>2. QED
        BY <4>1
    <3>3. /\ \A i \in 2..6 : i = 2 \/ i = 3 \/ i = 4 \/ i = 5 \/ i = 6
          /\ \A i \in 1..6 : i = 1 \/ i \in 2..6
      OBVIOUS
    <3>4. Ordered(strict, s) /\ Direct(s)
      BY <3>1, <3>3 DEF Ordered, Follows, Direct, Halfway, BuyOps
    <3>5. QED
      BY <1>8, <3>1, <3>2, <3>4 DEF Opening, s
  <2>3. CASE ~strict
    <3>1. /\ s \in Seq(Step) /\ Len(s) = 5
          /\ s[1][1] = "claim" /\ s[2][1] = "settle" /\ s[3][1] = "sell"
          /\ s[4][1] = "queue" /\ s[5][1] = "record"
      BY <2>1, <2>3, CheckoutCallsType
    <3>2. s # <<>> /\ Head(s) = s[1]
      <4>1. s \in Seq(Step) /\ Len(s) > 0
        BY <3>1
      <4>2. QED
        BY <4>1
    <3>3. /\ \A i \in 2..5 : i = 2 \/ i = 3 \/ i = 4 \/ i = 5
          /\ \A i \in 1..5 : i = 1 \/ i \in 2..5
      OBVIOUS
    <3>4. Ordered(strict, s) /\ Direct(s)
      BY <2>3, <3>1, <3>3 DEF Ordered, Follows, Direct, Halfway, BuyOps
    <3>5. QED
      BY <1>8, <2>3, <3>1, <3>2, <3>4 DEF Opening, s
  <2>4. QED
    BY <2>2, <2>3
<1>9. CASE route = "acp_complete"
  <2> DEFINE t == <<Call("get"), Call("start")>>
  <2>1. s = t \o CheckoutCalls
    BY <1>9 DEF Script, s
  <2>2. t \in Seq(Step) /\ Len(t) = 2 /\ t[1][1] = "get" /\ t[2][1] = "start"
    BY <1>1 DEF CartOps
  <2> HIDE DEF t
  <2>3. CheckoutCalls \in Seq(Step)
    BY CheckoutCallsType
  <2>4. /\ s \in Seq(Step) /\ Len(s) = 2 + Len(CheckoutCalls)
        /\ s[1][1] = "get" /\ s[2][1] = "start"
        /\ \A i \in 1..Len(CheckoutCalls) : s[2 + i] = CheckoutCalls[i]
    <3> DEFINE c == CheckoutCalls
    <3> HIDE DEF c
    <3>1. /\ t \o c \in Seq(Step) /\ Len(t \o c) = Len(t) + Len(c)
          /\ \A i \in 1..Len(t) : (t \o c)[i] = t[i]
          /\ \A i \in 1..Len(c) : (t \o c)[Len(t) + i] = c[i]
      BY <2>2, <2>3, ConcatFacts, SMTT(60) DEF c
    <3>2. s = t \o c
      BY <2>1 DEF c
    <3>3. QED
      BY <2>2, <3>1, <3>2 DEF c
  <2>5. CASE strict
    <3> DEFINE c == CheckoutCalls
    <3> HIDE DEF c
    <3>1. /\ Len(c) = 6
          /\ c[1][1] = "mandate" /\ c[2][1] = "claim" /\ c[3][1] = "settle" /\ c[4][1] = "sell"
          /\ c[5][1] = "queue" /\ c[6][1] = "record"
      BY <2>5, CheckoutCallsType DEF c
    <3>2. \A i \in 1..6 : s[2 + i] = c[i]
      BY <2>4, <3>1 DEF c
    <3>3. /\ s \in Seq(Step) /\ Len(s) = 8
          /\ s[1][1] = "get" /\ s[2][1] = "start" /\ s[3][1] = "mandate"
          /\ s[4][1] = "claim" /\ s[5][1] = "settle" /\ s[6][1] = "sell"
          /\ s[7][1] = "queue" /\ s[8][1] = "record"
      BY <2>4, <3>1, <3>2 DEF c
    <3>4. s # <<>> /\ Head(s) = s[1]
      <4>1. s \in Seq(Step) /\ Len(s) > 0
        BY <3>3
      <4>2. QED
        BY <4>1
    <3>5. /\ \A i \in 2..8 : i = 2 \/ i = 3 \/ i = 4 \/ i = 5 \/ i = 6 \/ i = 7 \/ i = 8
          /\ \A i \in 1..8 : i = 1 \/ i \in 2..8
      OBVIOUS
    <3>6. Ordered(strict, s)
      BY <3>3, <3>5 DEF Ordered, Follows, Halfway, BuyOps
    <3>7. QED
      BY <1>9, <3>3, <3>4, <3>6 DEF Opening, BuyOps, s
  <2>6. CASE ~strict
    <3> DEFINE c == CheckoutCalls
    <3> HIDE DEF c
    <3>1. /\ Len(c) = 5
          /\ c[1][1] = "claim" /\ c[2][1] = "settle" /\ c[3][1] = "sell"
          /\ c[4][1] = "queue" /\ c[5][1] = "record"
      BY <2>6, CheckoutCallsType DEF c
    <3>2. \A i \in 1..5 : s[2 + i] = c[i]
      BY <2>4, <3>1 DEF c
    <3>3. /\ s \in Seq(Step) /\ Len(s) = 7
          /\ s[1][1] = "get" /\ s[2][1] = "start"
          /\ s[3][1] = "claim" /\ s[4][1] = "settle" /\ s[5][1] = "sell"
          /\ s[6][1] = "queue" /\ s[7][1] = "record"
      BY <2>4, <3>1, <3>2 DEF c
    <3>4. s # <<>> /\ Head(s) = s[1]
      <4>1. s \in Seq(Step) /\ Len(s) > 0
        BY <3>3
      <4>2. QED
        BY <4>1
    <3>5. /\ \A i \in 2..7 : i = 2 \/ i = 3 \/ i = 4 \/ i = 5 \/ i = 6 \/ i = 7
          /\ \A i \in 1..7 : i = 1 \/ i \in 2..7
      OBVIOUS
    <3>6. Ordered(strict, s)
      BY <2>6, <3>3, <3>5 DEF Ordered, Follows, Halfway, BuyOps
    <3>7. QED
      BY <1>9, <2>6, <3>3, <3>4, <3>6 DEF Opening, BuyOps, s
  <2>7. QED
    BY <2>5, <2>6
<1>10. QED
  BY <1>3, <1>4, <1>5, <1>6, <1>7, <1>8, <1>9 DEF Scripted, s

\* The routes that are scripted are those that are not capabilities.
LEMMA ScriptedRoutes ==
  ASSUME NEW surface \in DOMAIN Routes, NEW route \in Routes[surface], route \notin Capability
  PROVE  route \in Scripted
BY DEF Routes, Capability, Scripted, RestRoutes, UcpRoutes, AcpRoutes, A2aRoutes, McpTools

-----------------------------------------------------------------------------
(* Requests.                                                               *)

Underway == {"serving", "draining", "lingering"}

Op(r)  == Head(req[r].todo)[1]
Arg(r) == Head(req[r].todo)[2]

\* There is nothing to do before the server listens and after it exits, nor once
\* the client has its answer.
RequestInv ==
    /\ TypeOK
    /\ strict \in BOOLEAN
    /\ arrived \in 0..MaxRequests
    /\ req \in [Request -> Job]
    /\ DOMAIN carts \subseteq Line
    /\ \A c \in DOMAIN carts : carts[c].version >= 1 /\ c <= arrived
    /\ \A r \in Request : Running(r) /\ Op(r) = "create" => req[r].cart = r /\ r \notin DOMAIN carts
    /\ \A r \in Request : Ordered(strict, req[r].todo) /\ Keyed(req[r])
    /\ \A r \in Request : Running(r) => answer[r] = "none"
    /\ \A r \in Request : r > arrived => req[r] = Idle /\ answer[r] = "none"
    /\ phase \notin Underway => \A r \in Request : req[r] = Idle
    /\ phase \notin Underway \cup {"exited"} => arrived = 0 /\ sold = {}

Answer ==
    {"none", "ok", "sold", "declined", "original", "replay", "conflict", "error", "refused",
     "unserved", "lost"}

\* The two ways a call of r can go: its script ends, or goes on in its order.
Ended(r)  == req'[r] = Idle
GoesOn(r) ==
    LET old == req[r]
        new == req'[r]
    IN  /\ new \in Job /\ new.todo # <<>>
        /\ Ordered(strict, new.todo) /\ Keyed(new)
        /\ new.route = old.route /\ new.cart = old.cart /\ new.named = old.named
        /\ new.tenant = old.tenant
        /\ new.key = old.key /\ new.mandate = old.mandate /\ new.keep = old.keep
        /\ Head(new.todo)[1] # "create"
        /\ strict /\ Head(new.todo)[1] = "claim" => Op(r) = "mandate"
        /\ Head(new.todo)[1] = "settle" => Op(r) = "claim"
        /\ Head(new.todo)[1] = "sell" => Op(r) = "settle"
        /\ Head(new.todo)[1] = "queue" <=> Op(r) = "sell"
        /\ Head(new.todo)[1] = "record" <=> Op(r) = "queue"
        /\ \/ new.todo = Rest(r)
           \/ \A i \in 1..Len(new.todo) : new.todo[i][1] \in EditOps
        /\ answer'[r] = answer[r]

Moves(r) ==
    /\ arrived' = arrived
    /\ req' = [req EXCEPT ![r] = req'[r]]
    /\ answer' = [answer EXCEPT ![r] = answer'[r]] /\ answer'[r] \in Answer
    /\ Ended(r) \/ GoesOn(r)

\* A request that has nothing to do is a job like the others.
LEMMA IdleIsJob == Idle \in Job /\ Keyed(Idle) /\ \A st : Ordered(st, Idle.todo)
<1>1. Idle \in Job
  <2>1. <<>> \in Seq(Step) /\ {} \in SUBSET Line /\ 0 \in Line /\ 0 \in Nat
    BY DEF Line, Stored
  <2>2. QED
    BY <2>1, GatewayAssumption DEF Idle, Job
<1>2. Idle.todo = <<>>
  BY DEF Idle
<1>3. QED
  BY <1>1, <1>2 DEF Ordered, Follows, Keyed

\* A call that ends the script does nothing to the other requests.
LEMMA EndMoves ==
  ASSUME RequestInv, NEW r \in Request, NEW a \in Answer, End(r, a)
  PROVE  Moves(r) /\ Ended(r) /\ answer'[r] = a
BY DEF RequestInv, TypeOK, End, Moves, Ended

\* Nor does one after which the script goes on, in its order.
LEMMA WentMoves ==
  ASSUME RequestInv, NEW r \in Request, Running(r), NEW v \in Nat, NEW rest, Went(r, v, rest),
         \/ rest = Rest(r)
         \/ /\ Op(r) = "get" /\ rest \in Seq(Step)
            /\ \A i \in 1..Len(rest) : rest[i][1] \in EditOps
  PROVE  Moves(r) /\ (rest # <<>> => req'[r].seen = v /\ req'[r].todo = rest)
<1>1. CASE rest = <<>>
  BY <1>1, EndMoves DEF Went, Answer
<1>2. CASE rest # <<>>
  <2> DEFINE todo == req[r].todo
  <2>1. req[r] \in Job /\ todo \in Seq(Step) /\ todo # <<>> /\ Ordered(strict, todo) /\ Keyed(req[r])
    BY DEF RequestInv, Job, Running
  <2>2. rest \in Seq(Step)
    BY <2>1, TailOrdered DEF Rest
  <2>3. req' = [req EXCEPT ![r] = Goes(req[r], rest, v)] /\ UNCHANGED <<arrived, answer>>
    BY <1>2 DEF Went
  <2>4. req'[r] = Goes(req[r], rest, v)
    BY <2>3 DEF RequestInv
  <2>5. /\ req'[r] \in Job /\ req'[r].todo = rest /\ req'[r].seen = v
        /\ req'[r].route = req[r].route /\ req'[r].cart = req[r].cart
        /\ req'[r].named = req[r].named /\ req'[r].tenant = req[r].tenant /\ req'[r].key = req[r].key
        /\ req'[r].mandate = req[r].mandate /\ req'[r].keep = req[r].keep
    <3> DEFINE j == req'[r]
    <3> HIDE DEF j
    <3> DEFINE job == req[r]
    <3> HIDE DEF job
    <3>1. job \in Job /\ j = Goes(job, rest, v)
      BY <2>1, <2>4 DEF j, job
    <3>2. /\ j \in Job /\ j.todo = rest /\ j.seen = v
          /\ j.route = job.route /\ j.cart = job.cart /\ j.named = job.named
          /\ j.tenant = job.tenant
          /\ j.key = job.key /\ j.mandate = job.mandate /\ j.keep = job.keep
      BY <2>2, <3>1, GoesFacts
    <3>3. QED
      BY <3>2 DEF j, job
  <2>6. /\ Ordered(strict, rest)
        /\ \A i \in 1..Len(rest) : rest[i][1] \in BuyOps => req[r].key \in Request
        /\ Head(rest)[1] # "create"
        /\ strict /\ Head(rest)[1] = "claim" => Op(r) = "mandate"
        /\ Head(rest)[1] = "settle" => Op(r) = "claim"
        /\ Head(rest)[1] = "sell" => Op(r) = "settle"
        /\ Head(rest)[1] = "queue" <=> Op(r) = "sell"
        /\ Head(rest)[1] = "record" <=> Op(r) = "queue"
    <3>1. CASE rest = Rest(r)
      <4>1. /\ Ordered(strict, rest) /\ Len(rest) = Len(todo) - 1
            /\ \A i \in 1..Len(rest) : rest[i] = todo[i + 1]
        BY <2>1, <3>1, TailOrdered DEF Rest
      <4>2. Len(rest) >= 1 /\ Head(rest) = todo[2] /\ 2 \in 2..Len(todo) /\ Op(r) = todo[2 - 1][1]
        BY <1>2, <2>1, <2>2, <4>1 DEF Op
      <4>3. /\ Head(rest)[1] # "create"
            /\ strict /\ Head(rest)[1] = "claim" => Op(r) = "mandate"
            /\ Head(rest)[1] = "settle" => Op(r) = "claim"
            /\ Head(rest)[1] = "sell" => Op(r) = "settle"
            /\ Head(rest)[1] = "queue" <=> Op(r) = "sell"
            /\ Head(rest)[1] = "record" <=> Op(r) = "queue"
        BY <2>1, <4>2 DEF Ordered, Follows
      <4>4. \A i \in 1..Len(rest) : rest[i][1] \in BuyOps => req[r].key \in Request
        <5>1. \A i \in 1..Len(todo) : todo[i][1] \in BuyOps => req[r].key \in Request
          BY <2>1 DEF Keyed
        <5>2. Len(todo) \in Nat /\ Len(rest) \in Nat
          BY <2>1, <2>2
        <5> HIDE DEF todo
        <5>3. \A i \in 1..Len(rest) : i + 1 \in 1..Len(todo)
          BY <4>1, <5>2
        <5>4. QED
          BY <4>1, <5>1, <5>3
      <4>5. QED
        BY <4>1, <4>3, <4>4
    <3>2. CASE Op(r) = "get" /\ \A i \in 1..Len(rest) : rest[i][1] \in EditOps
      <4>1. Head(rest) = rest[1] /\ 1 \in 1..Len(rest) /\ Len(rest) \in Nat
        BY <1>2, <2>2
      <4>2. \A i \in 1..Len(rest) : rest[i][1] \in {"add", "qty", "remove"}
        BY <3>2 DEF EditOps
      <4>3. \A i \in 2..Len(rest) : i \in 1..Len(rest) /\ i - 1 \in 1..Len(rest)
        BY <4>1
      <4>4. Ordered(strict, rest)
        BY <4>2, <4>3 DEF Ordered, Follows, BuyOps, Halfway
      <4>5. QED
        BY <3>2, <4>1, <4>2, <4>4 DEF BuyOps
    <3>3. QED
      BY <3>1, <3>2
  <2>7. GoesOn(r)
    BY <1>2, <2>3, <2>5, <2>6 DEF GoesOn, Keyed
  <2>8. QED
    BY <2>3, <2>4, <2>5, <2>7 DEF Moves, RequestInv, TypeOK, Answer
<1>3. QED
  BY <1>1, <1>2

\* What a call of a script that is under way does to the requests.
LEMMA WorkMoves ==
  ASSUME RequestInv, NEW r \in Request, Work(r)
  PROVE  /\ Running(r) /\ phase \in Underway /\ r <= arrived
         /\ Moves(r)
         /\ UNCHANGED <<phase, app, strict>>
<1> USE DEF RequestInv, TypeOK
<1>1. Running(r)
  BY DEF Work, Serve, CartCall, CheckoutCall, CreateCart, GetCart, EditCart, FulfilCart,
         StartCheckout, CancelCart, NotMine, RecordMandate, Claim, Settle, Sell, Queue, Record,
         EditFails, SettleFails, Decline, BuyFails, HangUp, At
<1>2. phase \in Underway /\ r <= arrived
  <2>1. req[r] # Idle
    BY <1>1 DEF Running, Idle
  <2>2. r \in Nat /\ arrived \in Nat
    BY GatewayAssumption DEF Request
  <2>3. QED
    BY <2>1, <2>2
<1>3. UNCHANGED <<phase, app, strict>>
  <2>1. CASE Queue(r)
    BY <2>1 DEF Queue, settings
  <2>2. CASE ~Queue(r)
    BY <2>2, WorkLeavesProcess DEF vars, settings
  <2>3. QED
    BY <2>1, <2>2
<1>4. Op(r) # "create" => req[r].cart \in DOMAIN carts
  BY <1>1 DEF Op
<1>5. req[r].seen \in Nat
  BY DEF Job
<1>6. Moves(r)
  <2> HIDE DEF RequestInv, TypeOK
  <2>1. CASE CreateCart(r)
    BY <1>1, <2>1, WentMoves DEF CreateCart
  <2>2. CASE GetCart(r)
    <3>1. CartOf(r).version \in Nat /\ DOMAIN CartOf(r).lines \in SUBSET Line
      BY <1>4, <2>2 DEF GetCart, At, Op, CartOf, RequestInv, TypeOK, Line
    <3>2. req[r] \in Job
      BY DEF RequestInv
    <3>3. CASE req[r].route = "update"
      <4> DEFINE u == UpdateCalls(r, DOMAIN CartOf(r).lines)
      <4>1. u \in Seq(Step) /\ \A i \in 1..Len(u) : u[i][1] \in EditOps
        BY <3>1, <3>2, UpdateCallsType
      <4>2. Went(r, CartOf(r).version, u)
        BY <2>2, <3>3 DEF GetCart
      <4> HIDE DEF u
      <4>3. Op(r) = "get"
        BY <2>2 DEF GetCart, At, Op
      <4>4. QED
        BY <1>1, <3>1, <4>1, <4>2, <4>3, WentMoves
    <3>4. CASE req[r].route # "update"
      <4>1. Went(r, CartOf(r).version, Rest(r))
        BY <2>2, <3>4 DEF GetCart
      <4>2. QED
        BY <1>1, <3>1, <4>1, WentMoves
    <3>5. QED
      BY <3>3, <3>4
  <2>3. CASE EditCart(r)
    <3>1. Op(r) # "create"
      BY <2>3 DEF EditCart, EditOps, Op
    <3>2. CartOf(r).version + 1 \in Nat
      BY <1>4, <3>1 DEF CartOf, RequestInv, TypeOK
    <3>3. Went(r, CartOf(r).version + 1, Rest(r)) \/ End(r, "error")
      BY <2>3 DEF EditCart
    <3>4. QED
      BY <1>1, <3>2, <3>3, WentMoves, EndMoves DEF Answer
  <2>4. CASE FulfilCart(r)
    <3>1. Op(r) # "create"
      BY <2>4 DEF FulfilCart, At, Op
    <3>2. CartOf(r).version + 1 \in Nat
      BY <1>4, <3>1 DEF CartOf, RequestInv, TypeOK
    <3>3. Went(r, CartOf(r).version + 1, Rest(r))
      BY <2>4 DEF FulfilCart
    <3>4. QED
      BY <1>1, <3>2, <3>3, WentMoves
  <2>5. CASE StartCheckout(r)
    <3>1. Went(r, req[r].seen, Rest(r)) \/ End(r, "error") \/ End(r, "conflict")
      BY <2>5 DEF StartCheckout
    <3>2. QED
      BY <1>1, <1>5, <3>1, WentMoves, EndMoves DEF Answer
  <2>6. CASE \/ CancelCart(r) \/ NotMine(r) \/ EditFails(r)
             \/ SettleFails(r) \/ Decline(r) \/ BuyFails(r) \/ HangUp(r)
    BY <2>6, EndMoves
    DEF CancelCart, NotMine, EditFails, SettleFails, Decline, BuyFails, HangUp, Answer
  <2>7. CASE RecordMandate(r) \/ Claim(r) \/ Settle(r) \/ Sell(r) \/ Queue(r) \/ Record(r)
    <3>1. Went(r, req[r].seen, Rest(r)) \/ \E a \in Answer : End(r, a)
      BY <2>7 DEF RecordMandate, Claim, Settle, Sell, Queue, Record, Answer
    <3>2. QED
      BY <1>1, <1>5, <3>1, WentMoves, EndMoves
  <2>8. QED
    BY <2>1, <2>2, <2>3, <2>4, <2>5, <2>6, <2>7 DEF Work, Serve, CartCall, CheckoutCall
<1>7. QED
  BY <1>1, <1>2, <1>3, <1>6

\* While the server takes requests there is a number for the next one.
LEMMA OpenNumber ==
  ASSUME RequestInv, Open
  PROVE  arrived + 1 \in Request
BY GatewayAssumption DEF RequestInv, Open, Traffic, Request

\* A request arrives with a script that starts and with a cart that is there or
\* that it is to create.
LEMMA ArriveFacts ==
  ASSUME RequestInv, NEW surface \in DOMAIN Routes, NEW route \in Routes[surface],
         Arrive(surface, route)
  PROVE  LET r == arrived + 1
         IN  /\ r \in Request /\ arrived' = r /\ phase \in Underway /\ route \in Scripted
             /\ req' = [req EXCEPT ![r] = req'[r]]
             /\ req'[r] \in Job /\ Opening(req'[r].todo, route) /\ Keyed(req'[r])
             /\ req'[r].route = route /\ req'[r].tenant \in Callers
             /\ IF route \in {"create", "create_checkout"} THEN req'[r].cart = r
                ELSE req'[r].cart \in DOMAIN carts
             /\ stale \subseteq stale' /\ stale' \subseteq stale \cup {r}
             /\ route \in {"start", "complete"} =>
                  req'[r].seen = carts[req'[r].cart].version \/ r \in stale'
             /\ route = "update" => req'[r].keep \subseteq DOMAIN carts[req'[r].cart].lines
<1> DEFINE r == arrived + 1
<1>1. arrived \in Nat /\ r \in Request /\ phase \in Underway
  BY GatewayAssumption DEF RequestInv, Arrive, Open, Traffic, Request, Underway
<1>2. route \in Scripted /\ strict \in BOOLEAN
  BY ScriptedRoutes DEF Arrive, RequestInv
<1>3. Opening(Script(route, r), route)
  BY <1>1, <1>2, ScriptType
<1> HIDE DEF r
<1>4. PICK t \in Callers, c \in IF route \in {"create", "create_checkout"} THEN {r} ELSE Known :
        \E v \in IF c = r THEN {0} ELSE Versions(route, c), k \in Tokens(route, r),
           keep \in IF c = r THEN {{}} ELSE Keeps(route, c), n \in Names(surface, route, c, r) :
          /\ req' = [req EXCEPT ![r] =
                      [route |-> route, todo |-> Script(route, r), cart |-> c, named |-> n,
                       tenant |-> t, seen |-> v, key |-> k[1], mandate |-> k[2], keep |-> keep]]
          /\ stale' = stale \cup (IF v # 0 /\ v # carts[c].version THEN {r} ELSE {})
  BY DEF Arrive, r
<1>5. PICK v \in IF c = r THEN {0} ELSE Versions(route, c), k \in Tokens(route, r),
           keep \in IF c = r THEN {{}} ELSE Keeps(route, c), n \in Names(surface, route, c, r) :
        /\ req' = [req EXCEPT ![r] =
                    [route |-> route, todo |-> Script(route, r), cart |-> c, named |-> n,
                     tenant |-> t, seen |-> v, key |-> k[1], mandate |-> k[2], keep |-> keep]]
        /\ stale' = stale \cup (IF v # 0 /\ v # carts[c].version THEN {r} ELSE {})
  BY <1>4
<1>6. /\ IF route \in {"create", "create_checkout"} THEN c = r ELSE c \in DOMAIN carts
      /\ c \in Line /\ n \in Line
  <2>1. c \in Line /\ r \in Line /\ Known \subseteq Line
    BY <1>1, <1>4 DEF Known, RequestInv, Line
  <2>2. n \in Line
    BY <1>5, <2>1 DEF Names
  <2>3. QED
    BY <1>4, <2>1, <2>2 DEF Known
<1>7. v \in Nat
  <2>1. CASE c = r
    BY <1>5, <2>1
  <2>2. CASE c # r
    <3>1. c \in DOMAIN carts /\ carts[c].version \in Nat /\ carts[c].version >= 1
      BY <1>6, <2>2 DEF RequestInv, TypeOK
    <3>2. v \in Versions(route, c)
      BY <1>5, <2>2
    <3>3. QED
      BY <3>1, <3>2 DEF Versions
  <2>3. QED
    BY <2>1, <2>2
<1>8. keep \in SUBSET Line
  BY <1>5, <1>6 DEF Keeps, RequestInv, TypeOK, Line
<1>9. /\ k[1] \in Line /\ k[2] \in Line
      /\ route \in {"complete", "acp_complete"} => k[1] \in Request
  <2>1. 1..r \subseteq Request /\ 0 \in Line /\ Request \subseteq Line
    BY <1>1, GatewayAssumption DEF Line, Stored, Request, r
  <2>2. CASE route \in {"complete", "acp_complete"}
    <3>1. k \in (1..r) \X (IF strict THEN 1..r ELSE {0})
      BY <1>5, <2>2 DEF Tokens
    <3>2. QED
      BY <2>1, <3>1
  <2>3. CASE route \notin {"complete", "acp_complete"}
    BY <1>5, <2>1, <2>3 DEF Tokens
  <2>4. QED
    BY <2>2, <2>3
<1>10. t \in Tenant
  BY <1>4, GatewayAssumption DEF Callers
<1> DEFINE job == [route |-> route, todo |-> Script(route, r), cart |-> c, named |-> n,
                   tenant |-> t, seen |-> v, key |-> k[1], mandate |-> k[2], keep |-> keep]
<1>11. req'[r] = job /\ req' = [req EXCEPT ![r] = req'[r]]
  BY <1>1, <1>5 DEF RequestInv
<1>12. job \in Job
  BY <1>2, <1>3, <1>6, <1>7, <1>8, <1>9, <1>10 DEF Job, Opening
<1>13. Keyed(job)
  BY <1>3, <1>9 DEF Keyed, Opening
<1>14. /\ stale \subseteq stale' /\ stale' \subseteq stale \cup {r}
       /\ route \in {"start", "complete"} => v = carts[c].version \/ r \in stale'
       /\ route = "update" => keep \subseteq DOMAIN carts[c].lines
  <2>1. stale \subseteq stale' /\ stale' \subseteq stale \cup {r}
    BY <1>5
  <2>2. ASSUME route \in {"start", "complete", "update"} PROVE c \in DOMAIN carts /\ c # r
    <3>1. c \in DOMAIN carts
      BY <1>6, <2>2
    <3>2. QED
      BY <1>1, <3>1 DEF RequestInv, r
  <2>3. ASSUME route \in {"start", "complete"} PROVE v = carts[c].version \/ r \in stale'
    <3>1. v # 0
      BY <1>5, <2>2, <2>3 DEF Versions
    <3>2. QED
      BY <1>5, <3>1
  <2>4. ASSUME route = "update" PROVE keep \subseteq DOMAIN carts[c].lines
    BY <1>5, <2>2, <2>4 DEF Keeps
  <2>5. QED
    BY <2>1, <2>3, <2>4
<1>15. QED
  BY <1>1, <1>2, <1>3, <1>4, <1>6, <1>11, <1>12, <1>13, <1>14 DEF Arrive, r

\* A cart as it is in the store.
Sound(cart) ==
    /\ cart.owner \in Tenant
    /\ cart.version \in Nat /\ cart.version >= 1
    /\ cart.state \in {"open", "stranded", "ready", "cancelled"}
    /\ DOMAIN cart.lines \subseteq Line

\* What a call of r does to the carts.
CartsKept(r) ==
    /\ DOMAIN carts \subseteq DOMAIN carts'
    /\ DOMAIN carts' \subseteq DOMAIN carts \cup {req[r].cart}
    /\ \A c \in DOMAIN carts' : Sound(carts'[c])
    /\ \A c \in DOMAIN carts : carts'[c].owner = carts[c].owner
    /\ \A c \in DOMAIN carts : c # req[r].cart => carts'[c] = carts[c]
    /\ DOMAIN carts' # DOMAIN carts => carts'[req[r].cart].owner = req[r].tenant
    /\ GoesOn(r) => req[r].cart \in DOMAIN carts'

\* A sound cart replaced by a sound cart leaves them all sound.
LEMMA StoreFacts ==
  ASSUME RequestInv, NEW r \in Request, req[r].cart \in DOMAIN carts, NEW cart, Store(r, cart),
         Sound(cart), cart.owner = CartOf(r).owner
  PROVE  CartsKept(r)
BY DEF RequestInv, TypeOK, Store, CartOf, CartsKept, Sound, Line

\* What every call leaves of the carts.
LEMMA WorkCarts ==
  ASSUME RequestInv, NEW r \in Request, Work(r)
  PROVE  CartsKept(r)
<1>1. Running(r) /\ (GoesOn(r) => req[r].cart = req'[r].cart)
  BY WorkMoves DEF GoesOn
<1>2. Op(r) # "create" => req[r].cart \in DOMAIN carts /\ Sound(CartOf(r))
  BY <1>1 DEF RequestInv, TypeOK, Op, CartOf, Sound, Line
<1>3. CASE UNCHANGED carts /\ Op(r) # "create"
  BY <1>2, <1>3 DEF RequestInv, TypeOK, CartsKept, Sound, Line
<1>4. CASE UNCHANGED carts /\ Ended(r)
  <2>1. ~GoesOn(r)
    BY <1>4 DEF Ended, GoesOn, Idle
  <2>2. QED
    BY <1>4, <2>1 DEF RequestInv, TypeOK, CartsKept, Sound, Line
<1>5. CASE CreateCart(r)
  <2>1. req[r].cart = r /\ r \notin DOMAIN carts /\ r \in Line
    BY <1>1, <1>5 DEF RequestInv, CreateCart, At, Op, Line
  <2> DEFINE new == [owner |-> req[r].tenant, version |-> 1, state |-> "open", lines |-> <<>>]
  <2>2. Sound(new)
    BY DEF Sound, RequestInv, Job
  <2>3. new.owner = req[r].tenant
    OBVIOUS
  <2>4. carts' = With(carts, r, new)
    BY <1>5 DEF CreateCart
  <2> HIDE DEF new
  <2>5. /\ DOMAIN carts' = DOMAIN carts \cup {r} /\ carts'[r] = new
        /\ \A c \in DOMAIN carts : carts'[c] = carts[c]
    BY <2>1, <2>4 DEF With
  <2>6. \A c \in DOMAIN carts : Sound(carts[c])
    BY DEF RequestInv, TypeOK, Sound, Line
  <2>7. QED
    BY <2>1, <2>2, <2>3, <2>5, <2>6 DEF CartsKept
<1>6. CASE GetCart(r)
  BY <1>3, <1>6 DEF GetCart, At, Op
<1>7. CASE EditCart(r)
  <2>1. Op(r) # "create"
    BY <1>7 DEF EditCart, EditOps, Op
  <2>2. CASE UNCHANGED carts
    BY <1>3, <2>1, <2>2
  <2>3. CASE Store(r, NextVersion(CartOf(r), Edited(r, Op(r), Arg(r)), "open"))
    <3>1. Arg(r) \in Line
      <4>1. req[r].todo \in Seq(Step) /\ req[r].todo # <<>>
        BY <1>1 DEF RequestInv, Job, Running
      <4>2. Head(req[r].todo) \in Step
        BY <4>1
      <4>3. QED
        BY <4>2 DEF Arg, Step
    <3>2. DOMAIN Edited(r, Op(r), Arg(r)) \subseteq Line
      BY <1>2, <2>1, <3>1 DEF Edited, With, Sound
    <3>3. Sound(NextVersion(CartOf(r), Edited(r, Op(r), Arg(r)), "open"))
      BY <1>2, <2>1, <3>2 DEF Sound, NextVersion
    <3>4. NextVersion(CartOf(r), Edited(r, Op(r), Arg(r)), "open").owner = CartOf(r).owner
      BY DEF NextVersion
    <3>5. QED
      BY <1>2, <2>1, <2>3, <3>3, <3>4, StoreFacts
  <2>4. QED
    BY <1>7, <2>2, <2>3 DEF EditCart, Op, Arg
<1>8. ASSUME NEW state \in {"open", "stranded", "ready", "cancelled"}, Op(r) # "create",
             Store(r, NextVersion(CartOf(r), CartOf(r).lines, state))
      PROVE  CartsKept(r)
  <2>1. Sound(NextVersion(CartOf(r), CartOf(r).lines, state))
    BY <1>2, <1>8 DEF Sound, NextVersion
  <2>2. NextVersion(CartOf(r), CartOf(r).lines, state).owner = CartOf(r).owner
    BY DEF NextVersion
  <2>3. QED
    BY <1>2, <1>8, <2>1, <2>2, StoreFacts
<1>9. CASE FulfilCart(r)
  BY <1>2, <1>8, <1>9 DEF FulfilCart, At, Op, Sound
<1>10. CASE StartCheckout(r)
  BY <1>2, <1>3, <1>8, <1>10 DEF StartCheckout, At, Op, Sound
<1>11. CASE CancelCart(r)
  BY <1>8, <1>11 DEF CancelCart, At, Op
<1>12. CASE EditFails(r)
  <2>1. Op(r) # "create"
    BY <1>12 DEF EditFails, EditOps, Op
  <2>2. PICK state \in {"open", "stranded"} : Store(r, Left(CartOf(r), state))
    BY <1>12 DEF EditFails
  <2>3. Sound(Left(CartOf(r), state)) /\ Left(CartOf(r), state).owner = CartOf(r).owner
    BY <1>2, <2>1 DEF Sound, Left
  <2>4. QED
    BY <1>2, <2>1, <2>2, <2>3, StoreFacts
<1>13. CASE NotMine(r) \/ HangUp(r)
  <2>1. Ended(r)
    BY <1>13, EndMoves DEF NotMine, HangUp, Answer
  <2>2. QED
    BY <1>4, <1>13, <2>1 DEF NotMine, HangUp
<1>14. CASE RecordMandate(r) \/ Claim(r) \/ Sell(r) \/ Decline(r) \/ Queue(r) \/ Record(r)
               \/ BuyFails(r)
  BY <1>3, <1>14 DEF RecordMandate, Claim, Sell, Decline, Queue, Record, BuyFails, At, Op
<1>15. CASE Settle(r) \/ SettleFails(r)
  <2>1. Op(r) # "create" /\ (Store(r, CartOf(r)) \/ UNCHANGED carts)
    BY <1>15 DEF Settle, SettleFails, At, Op
  <2>2. QED
    BY <1>2, <1>3, <2>1, StoreFacts
<1>16. QED
  BY <1>5, <1>6, <1>7, <1>9, <1>10, <1>11, <1>12, <1>13, <1>14, <1>15
  DEF Work, Serve, CartCall, CheckoutCall

\* The requests as a call of r leaves them.
LEMMA WorkKeepsRequests ==
  ASSUME RequestInv, NEW r \in Request, Work(r)
  PROVE  RequestInv'
<1>1. /\ Running(r) /\ phase \in Underway /\ r <= arrived /\ Moves(r)
      /\ UNCHANGED <<phase, app, strict>>
  BY WorkMoves
<1>2. CartsKept(r)
  BY WorkCarts
<1>3. arrived' = arrived /\ arrived \in Nat
  BY <1>1, GatewayAssumption DEF Moves, RequestInv
<1>4. /\ req' = [req EXCEPT ![r] = req'[r]] /\ answer' = [answer EXCEPT ![r] = answer'[r]]
      /\ answer'[r] \in Answer /\ (req'[r] = Idle \/ GoesOn(r))
  BY <1>1 DEF Moves, Ended
<1>5. /\ req'[r] \in Job /\ Ordered(strict, req'[r].todo) /\ Keyed(req'[r])
      /\ Ordered(strict, req[r].todo)' /\ Keyed(req[r])'
  <2>1. req'[r] \in Job /\ Ordered(strict, req'[r].todo) /\ Keyed(req'[r])
    BY <1>4, IdleIsJob DEF GoesOn
  <2>2. QED
    BY <1>1, <2>1 DEF Ordered, Follows, Keyed
<1>6. req' \in [Request -> Job] /\ answer' \in [Request -> Answer]
  BY <1>4, <1>5 DEF RequestInv, TypeOK, Answer
<1>7. \A q \in Request : q # r => req'[q] = req[q] /\ answer'[q] = answer[q]
  BY <1>4 DEF RequestInv, TypeOK
<1>8. (\A q \in Request : Ordered(strict, req[q].todo) /\ Keyed(req[q]))'
  <2> SUFFICES ASSUME NEW q \in Request PROVE (Ordered(strict, req[q].todo) /\ Keyed(req[q]))'
    OBVIOUS
  <2>1. CASE q = r
    BY <1>5, <2>1 DEF Ordered, Follows, Keyed
  <2>2. CASE q # r
    BY <1>1, <1>7, <2>2 DEF RequestInv, Ordered, Follows, Keyed
  <2>3. QED
    BY <2>1, <2>2
<1>9. keys' \in [Request -> {"free", "claimed", "sold", "declined"}]
  <2>1. keys \in [Request -> {"free", "claimed", "sold", "declined"}]
    BY DEF RequestInv, TypeOK
  <2>2. CASE Record(r) \/ Decline(r)
    BY <2>1, <2>2 DEF Record, Decline
  <2>3. CASE Claim(r)
    BY <2>1, <2>3 DEF Claim
  <2>4. CASE Settle(r) \/ SettleFails(r)
    BY <2>1, <2>4 DEF Settle, SettleFails, Release
  <2>5. CASE keys' = keys
    BY <2>1, <2>5
  <2>6. QED
    BY <2>2, <2>3, <2>4, <2>5
    DEF Work, Serve, CartCall, CheckoutCall, CreateCart, GetCart, EditCart, FulfilCart,
        StartCheckout, CancelCart, NotMine, RecordMandate, Sell, Queue, EditFails, BuyFails,
        HangUp, ledger
<1>10. processor' \in {"none", "running", "draining", "stopped", "killed"}
  <2>1. CASE Queue(r)
    BY <2>1 DEF Queue, RequestInv, TypeOK
  <2>2. CASE ~Queue(r)
    BY <2>2, WorkLeavesProcess DEF vars, RequestInv, TypeOK
  <2>3. QED
    BY <2>1, <2>2
<1>11. \A q \in Request : Running(q)' =>
          \/ Op(q)' = "create" /\ req'[q].cart = q /\ q \notin DOMAIN carts'
          \/ req'[q].cart \in DOMAIN carts' /\ Op(q)' # "create"
  <2> SUFFICES ASSUME NEW q \in Request, Running(q)'
               PROVE  \/ Op(q)' = "create" /\ req'[q].cart = q /\ q \notin DOMAIN carts'
                      \/ req'[q].cart \in DOMAIN carts' /\ Op(q)' # "create"
    OBVIOUS
  <2>1. CASE q = r
    <3>1. GoesOn(r)
      BY <1>4, <2>1 DEF Running, Idle
    <3>2. QED
      BY <1>2, <2>1, <3>1 DEF CartsKept, GoesOn, Op
  <2>2. CASE q # r
    <3>1. Running(q) /\ Op(q)' = Op(q) /\ req'[q] = req[q]
      BY <1>7, <2>2 DEF Running, Op
    <3>2. CASE Op(q) = "create"
      <4>1. req[q].cart = q /\ q \notin DOMAIN carts
        BY <3>1, <3>2 DEF RequestInv
      <4>2. req[r].cart # q
        <5>1. CASE Op(r) = "create"
          BY <1>1, <2>2, <5>1 DEF RequestInv
        <5>2. CASE Op(r) # "create"
          BY <1>1, <4>1, <5>2 DEF RequestInv, TypeOK, Op
        <5>3. QED
          BY <5>1, <5>2
      <4>3. QED
        BY <1>2, <3>1, <3>2, <4>1, <4>2 DEF CartsKept
    <3>3. CASE Op(q) # "create"
      BY <1>2, <3>1, <3>3 DEF CartsKept, RequestInv, TypeOK, Op
    <3>4. QED
      BY <3>2, <3>3
  <2>3. QED
    BY <2>1, <2>2
<1>12. DOMAIN carts' \subseteq Line /\ \A c \in DOMAIN carts' : c <= arrived
  <2>1. req[r].cart \in Line /\ (req[r].cart \in DOMAIN carts \/ req[r].cart = r)
    BY <1>1 DEF RequestInv, TypeOK, Op, Job
  <2>2. QED
    BY <1>1, <1>2, <2>1 DEF CartsKept, RequestInv
<1>13. TypeOK'
  <2>1. \A c \in DOMAIN carts' : Sound(carts'[c])
    BY <1>2 DEF CartsKept
  <2>2. \A q \in Request : Running(q)' => Head(req'[q].todo)[1] = "create" \/ req'[q].cart \in DOMAIN carts'
    BY <1>11 DEF Op
  <2>3. phase' = phase /\ TypeOK
    BY <1>1 DEF RequestInv
  <2>4. QED
    BY <1>6, <1>9, <1>10, <2>1, <2>2, <2>3 DEF TypeOK, Sound, Answer, Line
<1>14. /\ strict' \in BOOLEAN
       /\ \A c \in DOMAIN carts' : carts'[c].version >= 1
       /\ \A q \in Request : Running(q)' /\ Op(q)' = "create" => req'[q].cart = q /\ q \notin DOMAIN carts'
       /\ \A q \in Request : q > arrived => req'[q] = Idle /\ answer'[q] = "none"
       /\ \A q \in Request : Running(q)' => answer'[q] = "none"
  <2>1. \A q \in Request : q > arrived => q # r
    BY <1>1, <1>3 DEF Request
  <2>2. \A q \in Request : q > arrived => req'[q] = Idle /\ answer'[q] = "none"
    BY <1>7, <2>1 DEF RequestInv
  <2>3. \A q \in Request : Running(q)' => answer'[q] = "none"
    <3>1. Running(r)' => GoesOn(r)
      BY <1>4 DEF Running, Idle
    <3>2. Running(r)' => answer'[r] = "none"
      BY <1>1, <3>1 DEF GoesOn, RequestInv
    <3>3. QED
      BY <1>7, <3>2 DEF RequestInv, Running
  <2>4. QED
    BY <1>1, <1>2, <1>11, <2>2, <2>3 DEF RequestInv, CartsKept, Sound
<1>15. arrived \in 0..MaxRequests /\ phase' \in Underway
  BY <1>1 DEF RequestInv
<1>16. QED
  BY <1>3, <1>6, <1>8, <1>12, <1>13, <1>14, <1>15 DEF RequestInv

\* main's steps leave the requests, and pass through the phases in order.
LEMMA OperateFacts ==
  ASSUME Operate, TypeOK
  PROVE  /\ phase' \in {"start", "loaded", "migrated", "refused", "built", "assembled", "serving",
                        "failing", "draining", "lingering", "exited"}
         /\ processor' \in {"none", "running", "draining", "stopped", "killed"}
         /\ strict' = strict
         /\ phase \in Underway => phase' \in Underway
         /\ phase = "exited" <=> phase' = "exited"
         /\ phase \in Underway \cup {"exited"} => UNCHANGED app
<1> USE DEF TypeOK, Underway, settings
<1>1. CASE Start
  BY <1>1 DEF Start, Load, Migrate, Build, BuildRefused, Refuse, Assemble, AssembleFails
<1>2. CASE Bind \/ BindFails \/ Signal \/ Shutdown
  BY <1>2 DEF Bind, BindFails, Signal, Shutdown, DrainAwaited, DrainTimesOut
<1>3. CASE Process
  BY <1>3 DEF Process, Deliver, LeasedElsewhere, LeaseEnds, DrainEnds, DrainGivesUp
<1>4. QED
  BY <1>1, <1>2, <1>3 DEF Operate

\* A request that arrives takes the next place.
LEMMA ArriveKeepsRequests ==
  ASSUME RequestInv, NEW surface \in DOMAIN Routes, NEW route \in Routes[surface],
         Arrive(surface, route)
  PROVE  RequestInv'
<1> DEFINE r == arrived + 1
<1>1. /\ r \in Request /\ arrived' = r /\ phase \in Underway
      /\ req' = [req EXCEPT ![r] = req'[r]]
      /\ req'[r] \in Job /\ Opening(req'[r].todo, route) /\ Keyed(req'[r])
      /\ IF route \in {"create", "create_checkout"} THEN req'[r].cart = r
         ELSE req'[r].cart \in DOMAIN carts
  BY ArriveFacts
<1>2. UNCHANGED <<phase, processor, app, strict, answer, carts, keys, sold>>
  BY DEF Arrive, vars, settings, ledger
<1>3. arrived \in Nat /\ r \in Nat /\ r > arrived /\ r \in 0..MaxRequests
  BY <1>1, GatewayAssumption DEF RequestInv, Request
<1>4. r \notin DOMAIN carts
  BY <1>3 DEF RequestInv
<1> HIDE DEF r
<1>5. req' \in [Request -> Job] /\ \A q \in Request : q # r => req'[q] = req[q]
  BY <1>1 DEF RequestInv
<1>6. \A q \in Request : Ordered(strict', req'[q].todo) /\ Keyed(req'[q])
  BY <1>1, <1>2, <1>5 DEF RequestInv, Opening
<1>7. \A q \in Request : Running(q)' =>
        \/ Op(q)' = "create" /\ req'[q].cart = q /\ q \notin DOMAIN carts
        \/ req'[q].cart \in DOMAIN carts
  <2> SUFFICES ASSUME NEW q \in Request, Running(q)'
               PROVE  \/ Op(q)' = "create" /\ req'[q].cart = q /\ q \notin DOMAIN carts
                      \/ req'[q].cart \in DOMAIN carts
    OBVIOUS
  <2>1. CASE q = r
    BY <1>1, <1>4, <2>1 DEF Opening, Op
  <2>2. CASE q # r
    BY <1>5, <2>2 DEF RequestInv, TypeOK, Running, Op
  <2>3. QED
    BY <2>1, <2>2
<1>8. \A q \in Request : Running(q)' /\ Op(q)' = "create" => req'[q].cart = q /\ q \notin DOMAIN carts
  <2> SUFFICES ASSUME NEW q \in Request, Running(q)', Op(q)' = "create"
               PROVE  req'[q].cart = q /\ q \notin DOMAIN carts
    OBVIOUS
  <2>1. CASE q = r
    <3>1. route \in {"create", "create_checkout"}
      BY <1>1, <2>1 DEF Opening, Op
    <3>2. QED
      BY <1>1, <1>4, <2>1, <3>1
  <2>2. CASE q # r
    BY <1>5, <2>2 DEF RequestInv, Running, Op
  <2>3. QED
    BY <2>1, <2>2
<1>9. TypeOK'
  <2>1. \A q \in Request : Running(q)' => Head(req'[q].todo)[1] = "create" \/ req'[q].cart \in DOMAIN carts
    BY <1>7 DEF Op
  <2>2. TypeOK
    BY DEF RequestInv
  <2>3. QED
    BY <1>2, <2>1, <2>2 DEF TypeOK
<1>10. /\ \A c \in DOMAIN carts : carts[c].version >= 1 /\ c <= r
       /\ \A q \in Request : q > r => req'[q] = Idle /\ answer[q] = "none"
       /\ \A q \in Request : Running(q)' => answer[q] = "none"
  <2>1. \A q \in Request : q > r => q > arrived /\ q # r
    BY <1>3 DEF r, Request
  <2>2. \A c \in DOMAIN carts : c <= r
    BY <1>3 DEF r, RequestInv, Line, Request, Stored
  <2>3. \A q \in Request : Running(q)' => answer[q] = "none"
    BY <1>1, <1>3, <1>5 DEF RequestInv, Running
  <2>4. QED
    BY <1>5, <2>1, <2>2, <2>3 DEF RequestInv
<1>11. QED
  BY <1>1, <1>2, <1>3, <1>5, <1>6, <1>8, <1>9, <1>10 DEF RequestInv

\* The requests, the carts and the process fit together at all times.
LEMMA RequestInvHolds == GatewaySpec => []RequestInv
<1>1. GatewayInit => RequestInv
  <2> SUFFICES ASSUME GatewayInit PROVE RequestInv
    OBVIOUS
  <2>1. /\ req \in [Request -> Job]
        /\ \A r \in Request : req[r] = Idle /\ ~Running(r) /\ Ordered(strict, req[r].todo) /\ Keyed(req[r])
    BY IdleIsJob DEF GatewayInit, Running, Idle
  <2>2. \A c \in DOMAIN carts : c = Stored /\ Sound(carts[c])
    BY GatewayAssumption DEF GatewayInit, Sound, Line
  <2>3. TypeOK
    BY <2>1, <2>2 DEF TypeOK, GatewayInit, DeploymentInit, Sound, Line
  <2>4. /\ DOMAIN carts \subseteq Line /\ arrived = 0 /\ arrived \in 0..MaxRequests
        /\ \A c \in DOMAIN carts : carts[c].version >= 1 /\ c <= arrived
    BY <2>2, GatewayAssumption DEF GatewayInit, Sound, Line, Stored
  <2>5. sold = {} /\ strict \in BOOLEAN /\ \A r \in Request : answer[r] = "none"
    BY DEF GatewayInit, DeploymentInit
  <2>6. QED
    BY <2>1, <2>3, <2>4, <2>5 DEF RequestInv
<1>2. RequestInv /\ [GatewayNext]_gvars => RequestInv'
  <2> SUFFICES ASSUME RequestInv, [GatewayNext]_gvars PROVE RequestInv'
    OBVIOUS
  <2>0. ASSUME UNCHANGED <<phase, processor, strict, req, carts, keys, sold>>,
               arrived' = arrived + 1, arrived + 1 \in Request, phase \in Underway,
               NEW a \in Answer, answer' = [answer EXCEPT ![arrived + 1] = a]
        PROVE  RequestInv'
    <3>1. /\ answer' \in [Request -> Answer]
          /\ \A r \in Request : r > arrived + 1 => answer'[r] = "none"
      BY <2>0 DEF RequestInv, TypeOK, Answer, Request
    <3>2. TypeOK'
      BY <2>0, <3>1 DEF RequestInv, TypeOK, Running, Answer
    <3>3. \A r \in Request : Running(r)' => answer'[r] = "none"
      <4>1. req[arrived + 1].todo = <<>>
        BY <2>0 DEF RequestInv, Request, Idle
      <4>2. QED
        BY <2>0, <4>1 DEF RequestInv, TypeOK, Running
    <3>4. QED
      BY <2>0, <3>1, <3>2, <3>3 DEF RequestInv, Running, Op, Request, Line, Stored
  <2>1. ASSUME Operate, UNCHANGED <<requests, carts, ledger, stale, faults>> PROVE RequestInv'
    BY <2>1, OperateFacts
    DEF RequestInv, TypeOK, requests, ledger, Running, Op, Underway
  <2>2. CASE ExitUnderway
    <3>1. /\ phase' = "exited" /\ processor' = "killed" /\ strict' = strict
          /\ UNCHANGED <<arrived, sold>>
      BY <2>2 DEF ExitUnderway, Exit, settings
    <3>2. /\ req' = [r \in Request |-> Idle]
          /\ answer' = [r \in Request |-> IF Running(r) THEN "lost" ELSE answer[r]]
      BY <2>2 DEF ExitUnderway
    <3>3. /\ req' \in [Request -> Job]
          /\ \A r \in Request : req'[r] = Idle /\ ~Running(r)' /\ Ordered(strict', req'[r].todo) /\ Keyed(req'[r])
      <4>1. Idle.todo = <<>>
        BY DEF Idle
      <4>2. QED
        BY <3>2, <4>1, IdleIsJob DEF Running
    <3>4. /\ \A c \in DOMAIN carts' : c \in DOMAIN carts /\ carts'[c] = carts[c]
          /\ keys' \in [Request -> {"free", "claimed", "sold", "declined"}]
      BY <2>2 DEF ExitUnderway, RequestInv, TypeOK
    <3>5. answer' \in [Request -> Answer]
      BY <3>2 DEF RequestInv, TypeOK, Answer
    <3>6. \A r \in Request : r > arrived => answer'[r] = "none"
      BY <3>2 DEF RequestInv, Running, Idle
    <3>7. TypeOK'
      BY <3>1, <3>3, <3>4, <3>5 DEF RequestInv, TypeOK, Answer
    <3>8. QED
      BY <3>1, <3>3, <3>4, <3>6, <3>7 DEF RequestInv
  <2>3. ASSUME NEW surface \in DOMAIN Routes, NEW route \in Routes[surface], Arrive(surface, route)
        PROVE  RequestInv'
    BY <2>3, ArriveKeepsRequests
  <2>4. ASSUME NEW surface \in DOMAIN Routes, NEW route \in Routes[surface], NEW flaw \in Flaw,
               Turned(surface, route, flaw)
        PROVE  RequestInv'
    <3>1. /\ UNCHANGED <<phase, processor, strict, req, carts, keys, sold>>
          /\ arrived' = arrived + 1 /\ arrived + 1 \in Request /\ phase \in Underway
          /\ answer' = [answer EXCEPT ![arrived + 1] = "refused"]
      BY <2>4, OpenNumber DEF Turned, vars, settings, ledger, Open, Underway
    <3>2. "refused" \in Answer
      BY DEF Answer
    <3>3. QED
      BY <2>0, <3>1, <3>2
  <2>5. ASSUME NEW capability \in Capability, Ask(capability) PROVE RequestInv'
    <3>1. /\ UNCHANGED <<phase, processor, strict, req, carts, keys, sold>>
          /\ arrived' = arrived + 1 /\ arrived + 1 \in Request /\ phase \in Underway
      BY <2>5, OpenNumber DEF Ask, vars, settings, ledger, Open, Underway
    <3>2. PICK a \in Answer : answer' = [answer EXCEPT ![arrived + 1] = a]
      BY <2>5 DEF Ask, Answer
    <3>3. QED
      BY <2>0, <3>1, <3>2
  <2>6. ASSUME NEW r \in Request, Work(r) PROVE RequestInv'
    BY <2>6, WorkKeepsRequests
  <2>7. CASE UNCHANGED gvars
    BY <2>7 DEF gvars, vars, settings, requests, ledger, RequestInv, TypeOK, Running, Op
  <2>8. QED
    BY <2>1, <2>2, <2>3, <2>4, <2>5, <2>6, <2>7 DEF GatewayNext
<1>3. QED
  BY <1>1, <1>2, PTL DEF GatewaySpec

-----------------------------------------------------------------------------
(* Sales.                                                                  *)

\* Past its mandate and yet to sell; holding its key.
Paid(r)  == Running(r) /\ Op(r) \in {"claim", "settle", "sell"}
Holds(r) == Running(r) /\ Op(r) \in {"settle", "sell", "queue", "record"}

\* A mandate is recorded before its checkout goes on, for one request only,
\* and stays recorded.
MandateInv ==
    strict /\ phase # "exited" =>
        /\ \A s \in sold : s.mandate \in mandates
        /\ \A r \in Request :
             Paid(r) =>
                 /\ req[r].mandate \in mandates
                 /\ \A s \in sold : s.mandate # req[r].mandate
                 /\ \A q \in Request : Paid(q) /\ req[q].mandate = req[r].mandate => q = r

\* What becomes of a sale: its request is about to record it, has recorded it,
\* or never will.  In memory the key of the last kind stays claimed.
Pending(s) ==
    Running(s.by) /\ Op(s.by) \in {"queue", "record"} /\ req[s.by].key = s.key
Recorded(s) ==
    answer[s.by] = "sold" /\ keys[s.key] \in {"sold", "declined"}
Broken(s) ==
    /\ answer[s.by] \in {"error", "lost"}
    /\ app.store # "postgres" => keys[s.key] # "free"

SalesKnown ==
    \A s \in sold : s.by \in Request /\ s.key \in Request /\ (Pending(s) \/ Recorded(s) \/ Broken(s))

\* Two requests that hold one key know of each other, and only Postgres lets
\* them; elsewhere a key that is held is claimed.
KeysHeld ==
    \A r \in Request :
        Holds(r) =>
            /\ app.store # "postgres" => keys[req[r].key] = "claimed"
            /\ \A q \in Request :
                 q # r /\ Holds(q) /\ req[q].key = req[r].key =>
                     app.store = "postgres" /\ {q, r} \in shared

\* Who holds a key that another request sold under held it together with that one,
\* or that one never recorded its sale.
SalesBeside ==
    \A s \in sold, r \in Request :
        Holds(r) /\ r # s.by /\ req[r].key = s.key =>
            /\ app.store = "postgres"
            /\ {r, s.by} \in shared \/ answer[s.by] \in {"error", "lost"}

KeyInv == phase # "exited" => SalesKnown /\ KeysHeld /\ SalesBeside

SaleInv == RequestInv /\ MandateInv /\ KeyInv /\ OneSalePerMandate /\ OneSalePerKey

\* A call of r moves nobody else, and r itself only forwards.
LEMMA WorkForwards ==
  ASSUME RequestInv, NEW r \in Request, Work(r)
  PROVE  /\ \A q \in Request : q # r =>
              /\ req'[q] = req[q]
              /\ Paid(q)' <=> Paid(q)
              /\ Holds(q)' <=> Holds(q)
         /\ Paid(r)' \/ Holds(r)' =>
              req'[r].mandate = req[r].mandate /\ req'[r].key = req[r].key /\ Running(r) /\ ~Ended(r)
         /\ strict /\ Paid(r)' => Op(r) \in {"mandate", "claim", "settle"}
         /\ Holds(r)' => Op(r) \in {"claim", "settle", "sell", "queue"}
         /\ Op(r) = "sell" => ~Paid(r)'
         /\ \A q \in Request : answer[q] # "none" => answer'[q] = answer[q] /\ ~Running(q)
<1>1. Running(r) /\ Moves(r) /\ req \in [Request -> Job]
  BY WorkMoves DEF RequestInv
<1>2. \A q \in Request : q # r => req'[q] = req[q]
  BY <1>1 DEF Moves
<1>3. Running(r)' => GoesOn(r) /\ ~Ended(r)
  BY <1>1 DEF Moves, Ended, Running, Idle
<1>4. \A q \in Request : answer[q] # "none" => answer'[q] = answer[q] /\ ~Running(q)
  BY <1>1 DEF Moves, RequestInv, TypeOK
<1>5. /\ Paid(r)' \/ Holds(r)' =>
           req'[r].mandate = req[r].mandate /\ req'[r].key = req[r].key /\ Running(r) /\ ~Ended(r)
      /\ strict /\ Paid(r)' => Op(r) \in {"mandate", "claim", "settle"}
      /\ Holds(r)' => Op(r) \in {"claim", "settle", "sell", "queue"}
      /\ Op(r) = "sell" => ~Paid(r)'
  BY <1>1, <1>3 DEF Paid, Holds, Op, GoesOn
<1>6. QED
  BY <1>2, <1>4, <1>5 DEF Paid, Holds, Running, Op

\* The calls that change the ledger.
LEMMA LedgerCalls ==
  ASSUME RequestInv, NEW r \in Request, Work(r)
  PROVE  \/ RecordMandate(r) \/ Claim(r) \/ Settle(r) \/ SettleFails(r) \/ Sell(r) \/ Decline(r)
         \/ Queue(r) \/ Record(r)
         \/ UNCHANGED ledger /\ Op(r) \in CartOps
         \/ /\ UNCHANGED ledger /\ Ended(r)
            /\ Op(r) \in {"queue", "record"} => answer'[r] \in {"error", "lost"}
<1>1. CASE NotMine(r)
  BY <1>1, EndMoves DEF NotMine, Answer, Op
<1>2. CASE HangUp(r) \/ BuyFails(r)
  BY <1>2, EndMoves DEF HangUp, BuyFails, Answer
<1>3. CASE ~NotMine(r) /\ ~HangUp(r) /\ ~BuyFails(r)
  BY <1>3 DEF Work, Serve, CartCall, CheckoutCall, CreateCart, GetCart, EditCart, EditFails,
              FulfilCart, StartCheckout, CancelCart, At, Op, CartOps, EditOps
<1>4. QED
  BY <1>1, <1>2, <1>3

\* A call keeps the record of mandates: a sale was paid with one that is
\* recorded, which no request that has yet to sell holds too.
LEMMA WorkKeepsMandates ==
  ASSUME RequestInv, MandateInv, OneSalePerMandate, NEW r \in Request, Work(r)
  PROVE  MandateInv' /\ OneSalePerMandate'
<1>1. UNCHANGED <<phase, strict>> /\ phase # "exited"
  BY WorkMoves DEF Underway
<1>2. SUFFICES ASSUME strict PROVE MandateInv' /\ OneSalePerMandate'
  BY <1>1 DEF MandateInv, OneSalePerMandate
<1> USE DEF MandateInv, OneSalePerMandate
<1>3. CASE UNCHANGED <<mandates, sold>> /\ (Op(r) # "mandate" \/ Ended(r))
  BY <1>1, <1>2, <1>3, WorkForwards DEF Paid
<1>4. CASE RecordMandate(r)
  <2>1. sold' = sold /\ Op(r) = "mandate"
    BY <1>4 DEF RecordMandate, At, Op
  <2>2. CASE Ended(r) /\ mandates' = mandates
    BY <1>3, <2>1, <2>2
  <2>3. CASE req[r].mandate \notin mandates /\ mandates' = mandates \cup {req[r].mandate}
    BY <1>1, <1>2, <2>1, <2>3, WorkForwards DEF Paid
  <2>4. QED
    BY <1>4, <2>2, <2>3, EndMoves DEF RecordMandate, Answer
<1>5. CASE Sell(r)
  <2>1. /\ Op(r) = "sell" /\ Paid(r) /\ mandates' = mandates /\ ~Paid(r)'
    BY <1>2, <1>5, WorkForwards DEF Sell, At, Op, Paid
  <2>2. PICK s : sold' = sold \cup {s} /\ s.mandate = req[r].mandate
    <3> DEFINE s == [by |-> r, key |-> req[r].key, mandate |-> req[r].mandate]
    <3>1. sold' = sold \cup {s} /\ s.mandate = req[r].mandate
      BY <1>5 DEF Sell
    <3>2. QED
      BY <3>1
  <2>3. QED
    BY <1>1, <1>2, <2>1, <2>2, WorkForwards
<1>6. CASE Claim(r) \/ Settle(r) \/ SettleFails(r) \/ Decline(r) \/ Queue(r) \/ Record(r)
  BY <1>3, <1>6 DEF Claim, Settle, SettleFails, Decline, Queue, Record, ledger, At, Op
<1>7. CASE UNCHANGED ledger /\ (Op(r) \in CartOps \/ Ended(r))
  BY <1>3, <1>7 DEF ledger, CartOps
<1>8. QED
  BY <1>4, <1>5, <1>6, <1>7, LedgerCalls

\* The last calls of a checkout: the sale goes on to be queued, then to be
\* recorded, and with that the script ends.
LEMMA SaleGoesOn ==
  ASSUME RequestInv, NEW r \in Request, Work(r), Running(r), Op(r) \in {"sell", "queue", "record"}
  PROVE  /\ Went(r, req[r].seen, Rest(r)) /\ Op(r) \in {"sell", "queue"} =>
              /\ Running(r)' /\ req'[r].key = req[r].key /\ answer'[r] = answer[r]
              /\ Op(r) = "sell" => Op(r)' = "queue"
              /\ Op(r) = "queue" => Op(r)' = "record"
         /\ Op(r) = "record" => Rest(r) = <<>>
<1>1. /\ req[r].todo \in Seq(Step) /\ req[r].todo # <<>> /\ Ordered(strict, req[r].todo)
      /\ req[r].seen \in Nat
  BY DEF RequestInv, Job, Running
<1>2. /\ Op(r) \in {"sell", "queue"} => Rest(r) # <<>>
      /\ Op(r) = "record" => Rest(r) = <<>>
  BY <1>1, OrderedEnds DEF Op, Rest, Halfway, BuyOps
<1>3. ASSUME Went(r, req[r].seen, Rest(r)), Op(r) \in {"sell", "queue"}
      PROVE  /\ Running(r)' /\ req'[r].key = req[r].key /\ answer'[r] = answer[r]
             /\ Op(r) = "sell" => Op(r)' = "queue"
             /\ Op(r) = "queue" => Op(r)' = "record"
  <2>1. Moves(r) /\ req'[r].todo = Rest(r) /\ req'[r].todo # <<>>
    BY <1>1, <1>2, <1>3, WentMoves
  <2>2. GoesOn(r)
    BY <2>1 DEF Moves, Ended, Idle
  <2>3. QED
    BY <2>1, <2>2 DEF GoesOn, Running, Op
<1>4. QED
  BY <1>2, <1>3

\* Where a call leaves the sales of others: as they are, if it takes no key from
\* them that was sold under or, in memory, that somebody holds.
LEMMA OthersKept ==
  ASSUME RequestInv, NEW r \in Request, Work(r), NEW s \in sold, s.by \in Request, s.by # r,
         Pending(s) \/ Recorded(s) \/ Broken(s), UNCHANGED app,
         keys[s.key] \in {"sold", "declined"} => keys'[s.key] \in {"sold", "declined"},
         app.store # "postgres" /\ Broken(s) /\ keys[s.key] # "free" => keys'[s.key] # "free"
  PROVE  (Pending(s) \/ Recorded(s) \/ Broken(s))'
<1>1. req'[s.by] = req[s.by] /\ (answer[s.by] # "none" => answer'[s.by] = answer[s.by])
  BY WorkForwards
<1>2. CASE Pending(s)
  BY <1>1, <1>2 DEF Pending, Running, Op
<1>3. CASE Recorded(s)
  BY <1>1, <1>3 DEF Recorded
<1>4. CASE Broken(s)
  BY <1>1, <1>4 DEF Broken
<1>5. QED
  BY <1>2, <1>3, <1>4

\* A call keeps the record of keys: who is on the way to a sale holds the key,
\* alone where claims are exclusive, and a key that sold is not free.
LEMMA WorkKeepsKeys ==
  ASSUME RequestInv, KeyInv, OneSalePerKey, NEW r \in Request, Work(r)
  PROVE  KeyInv' /\ OneSalePerKey'
<1> DEFINE k == req[r].key
<1>1. UNCHANGED <<phase, app>> /\ phase # "exited" /\ Running(r)
  BY WorkMoves DEF Underway
<1>2. Op(r) \in BuyOps => k \in Request
  <2>1. req[r].todo \in Seq(Step) /\ req[r].todo # <<>>
    BY <1>1 DEF RequestInv, Job, Running
  <2>2. 1 \in 1..Len(req[r].todo) /\ Op(r) = req[r].todo[1][1]
    BY <2>1 DEF Op
  <2>3. QED
    BY <2>2 DEF RequestInv, Keyed
<1>3. keys \in [Request -> {"free", "claimed", "sold", "declined"}]
  BY DEF RequestInv, TypeOK
<1>4. SalesKnown /\ KeysHeld /\ SalesBeside
  BY <1>1 DEF KeyInv
<1>5. /\ \A q \in Request : q # r => req'[q] = req[q] /\ (Holds(q)' <=> Holds(q))
      /\ \A q \in Request : answer[q] # "none" => answer'[q] = answer[q]
      /\ Holds(r)' => req'[r].key = k /\ Op(r) \in {"claim", "settle", "sell", "queue"}
      /\ Holds(r)' => ~Ended(r)
  BY WorkForwards
<1>6. answer[r] = "none"
  BY <1>1 DEF RequestInv
<1>7. \A s \in sold : s.by = r => Pending(s) /\ s.key = k /\ Op(r) \in {"queue", "record"}
  BY <1>4, <1>6 DEF SalesKnown, Pending, Recorded, Broken
<1> HIDE DEF k
\* Sales keep to their requests whatever r does, unless it is r's own sale.
<1>8. ASSUME \A c \in Request :
               /\ keys[c] \in {"sold", "declined"} => keys'[c] \in {"sold", "declined"}
               /\ app.store # "postgres" /\ keys[c] # "free" => keys'[c] # "free" \/ (Holds(r) /\ c = k),
             sold \subseteq sold'
      PROVE  \A s \in sold : s.by # r => (Pending(s) \/ Recorded(s) \/ Broken(s))'
  <2> SUFFICES ASSUME NEW s \in sold, s.by # r PROVE (Pending(s) \/ Recorded(s) \/ Broken(s))'
    OBVIOUS
  <2>1. s.by \in Request /\ s.key \in Request /\ (Pending(s) \/ Recorded(s) \/ Broken(s))
    BY <1>4 DEF SalesKnown
  <2>2. keys[s.key] \in {"sold", "declined"} => keys'[s.key] \in {"sold", "declined"}
    BY <1>8, <2>1
  <2>3. app.store # "postgres" /\ Broken(s) /\ keys[s.key] # "free" => keys'[s.key] # "free"
    BY <1>4, <1>8, <2>1 DEF SalesBeside, k
  <2>4. QED
    BY <1>1, <2>1, <2>2, <2>3, OthersKept
\* So do the pairs that hold a key, and the sales beside a holder.
<1>9. ASSUME sold' = sold, shared \subseteq shared', Op(r) # "claim" \/ Ended(r)
      PROVE  /\ SalesBeside' /\ OneSalePerKey'
             /\ \A p, q \in Request :
                  p # q /\ Holds(p)' /\ Holds(q)' /\ req'[p].key = req'[q].key =>
                      app.store = "postgres" /\ {p, q} \in shared'
  <2>1. \A q \in Request : Holds(q)' => Holds(q) /\ req'[q].key = req[q].key
    BY <1>1, <1>5, <1>9 DEF Holds, k
  <2>2. \A s \in sold : s.by \in Request
    BY <1>4 DEF SalesKnown
  <2>3. SalesBeside'
    BY <1>1, <1>4, <1>5, <1>9, <2>1, <2>2 DEF SalesBeside
  <2>4. OneSalePerKey'
    BY <1>1, <1>5, <1>9, <2>2 DEF OneSalePerKey
  <2>5. \A p, q \in Request :
          p # q /\ Holds(p)' /\ Holds(q)' /\ req'[p].key = req'[q].key =>
              app.store = "postgres" /\ {p, q} \in shared'
    BY <1>4, <1>9, <2>1 DEF KeysHeld
  <2>6. QED
    BY <2>3, <2>4, <2>5
<1>10. CASE UNCHANGED <<keys, sold, shared>> /\ (Op(r) # "claim" \/ Ended(r))
              /\ \A s \in sold : s.by = r => (Pending(s) \/ Recorded(s) \/ Broken(s))'
  <2>1. SalesKnown'
    BY <1>4, <1>8, <1>10 DEF SalesKnown
  <2>2. \A q \in Request : Holds(q)' => Holds(q) /\ req'[q].key = req[q].key
    BY <1>1, <1>5, <1>10 DEF Holds, k
  <2>3. KeysHeld'
    BY <1>1, <1>4, <1>9, <1>10, <2>2 DEF KeysHeld
  <2>4. QED
    BY <1>9, <1>10, <2>1, <2>3 DEF KeyInv
\* r ends and does with its key what only a holder may do.
<1>11. ASSUME sold' = sold, shared' = shared, Ended(r), Holds(r), k \in Request,
              NEW x, keys' = [keys EXCEPT ![k] = x],
              keys[k] \in {"sold", "declined"} => x \in {"sold", "declined"},
              \A s \in sold : s.by = r => (Pending(s) \/ Recorded(s) \/ Broken(s))'
       PROVE  KeyInv' /\ OneSalePerKey'
  <2>1. SalesKnown'
    <3>1. \A c \in Request :
             /\ keys[c] \in {"sold", "declined"} => keys'[c] \in {"sold", "declined"}
             /\ app.store # "postgres" /\ keys[c] # "free" => keys'[c] # "free" \/ (Holds(r) /\ c = k)
      BY <1>3, <1>11
    <3>2. QED
      BY <1>4, <1>8, <1>11, <3>1 DEF SalesKnown
  <2>2. ~Holds(r)'
    BY <1>5, <1>11
  <2>3. KeysHeld'
    <3> SUFFICES ASSUME NEW q \in Request, Holds(q)', app.store # "postgres"
                 PROVE  keys'[req'[q].key] = "claimed"
      BY <1>1, <1>9, <1>11 DEF KeysHeld
    <3>1. q # r /\ Holds(q) /\ req'[q].key = req[q].key
      BY <1>5, <2>2
    <3>2. req[q].key # k /\ keys[req[q].key] = "claimed"
      BY <1>4, <1>11, <3>1 DEF KeysHeld, k
    <3>3. QED
      BY <1>3, <1>11, <3>1, <3>2
  <2>4. QED
    BY <1>9, <1>11, <2>1, <2>3 DEF KeyInv
<1>12. CASE Claim(r)
  <2>1. sold' = sold /\ Op(r) = "claim" /\ k \in Request
    BY <1>2, <1>12 DEF Claim, At, Op, BuyOps
  <2>2. \A s \in sold : s.by # r
    BY <1>7, <2>1
  <2>3. CASE Ended(r) /\ UNCHANGED <<keys, shared>>
    BY <1>10, <2>1, <2>2, <2>3
  <2>4. CASE /\ Claimable(k) /\ keys' = [keys EXCEPT ![k] = "claimed"]
             /\ shared' = shared \cup {{r, q} : q \in Beside(r)}
    <3>1. SalesKnown'
      <4>1. \A c \in Request :
              /\ keys[c] \in {"sold", "declined"} => keys'[c] \in {"sold", "declined"}
              /\ app.store # "postgres" /\ keys[c] # "free" => keys'[c] # "free" \/ (Holds(r) /\ c = k)
        BY <1>3, <2>1, <2>4 DEF Claimable
      <4>2. QED
        BY <1>4, <1>8, <2>1, <2>2, <4>1 DEF SalesKnown
    <3>2. ASSUME NEW q \in Request, q # r, Holds(q), req[q].key = k
          PROVE  app.store = "postgres" /\ {r, q} \in shared' /\ {q, r} \in shared'
      <4>1. q \in Beside(r)
        BY <3>2 DEF Beside, Holds, Op, k
      <4>2. {q, r} = {r, q}
        OBVIOUS
      <4>3. app.store = "postgres"
        BY <1>4, <2>4, <3>2 DEF KeysHeld, Claimable
      <4>4. QED
        BY <2>4, <4>1, <4>2, <4>3
    <3>3. KeysHeld'
      <4> SUFFICES ASSUME NEW q \in Request, Holds(q)'
                   PROVE  /\ app.store # "postgres" => keys'[req'[q].key] = "claimed"
                          /\ \A p \in Request :
                               p # q /\ Holds(p)' /\ req'[p].key = req'[q].key =>
                                   app.store = "postgres" /\ {p, q} \in shared'
        BY <1>1 DEF KeysHeld
      <4>1. app.store # "postgres" => keys'[req'[q].key] = "claimed"
        <5>1. CASE q = r
          BY <1>3, <1>5, <2>1, <2>4, <5>1
        <5>2. CASE q # r
          BY <1>3, <1>4, <1>5, <2>1, <2>4, <5>2 DEF KeysHeld
        <5>3. QED
          BY <5>1, <5>2
      <4>2. ASSUME NEW p \in Request, p # q, Holds(p)', req'[p].key = req'[q].key
            PROVE  app.store = "postgres" /\ {p, q} \in shared'
        <5>1. CASE q = r
          BY <1>5, <3>2, <4>2, <5>1
        <5>2. CASE p = r
          BY <1>5, <3>2, <4>2, <5>2
        <5>3. CASE p # r /\ q # r
          BY <1>4, <1>5, <2>4, <4>2, <5>3 DEF KeysHeld
        <5>4. QED
          BY <5>1, <5>2, <5>3
      <4>3. QED
        BY <4>1, <4>2
    <3>4. SalesBeside'
      <4> SUFFICES ASSUME NEW s \in sold, NEW q \in Request, Holds(q)', q # s.by, req'[q].key = s.key
                   PROVE  /\ app.store = "postgres"
                          /\ {q, s.by} \in shared' \/ answer'[s.by] \in {"error", "lost"}
        BY <1>1, <2>1 DEF SalesBeside
      <4>1. s.by \in Request /\ s.by # r /\ (Pending(s) \/ Recorded(s) \/ Broken(s))
        BY <1>4, <2>2 DEF SalesKnown
      <4>2. CASE q # r
        BY <1>4, <1>5, <2>4, <4>1, <4>2 DEF SalesBeside
      <4>3. CASE q = r
        <5>1. s.key = k
          BY <1>5, <4>3
        <5>2. CASE Pending(s)
          <6>1. Holds(s.by) /\ req[s.by].key = k
            BY <5>1, <5>2 DEF Pending, Holds
          <6>2. QED
            BY <3>2, <4>1, <4>3, <6>1
        <5>3. ~Recorded(s)
          BY <2>4, <5>1 DEF Recorded, Claimable
        <5>4. CASE Broken(s)
          BY <1>5, <2>4, <4>1, <5>1, <5>4 DEF Broken, Claimable
        <5>5. QED
          BY <4>1, <5>2, <5>3, <5>4
      <4>4. QED
        BY <4>2, <4>3
    <3>5. OneSalePerKey'
      <4>1. \A s \in sold : s.by \in Request
        BY <1>4 DEF SalesKnown
      <4>2. shared \subseteq shared'
        BY <2>4
      <4>3. QED
        BY <1>1, <1>5, <2>1, <4>1, <4>2 DEF OneSalePerKey
    <3>6. QED
      BY <3>1, <3>3, <3>4, <3>5 DEF KeyInv
  <2>5. QED
    BY <1>12, <2>3, <2>4, EndMoves DEF Claim, Answer, k
<1>13. CASE Settle(r) \/ SettleFails(r)
  <2>1. sold' = sold /\ shared' = shared /\ Op(r) = "settle" /\ Holds(r) /\ k \in Request
    BY <1>1, <1>2, <1>13 DEF Settle, SettleFails, At, Op, Holds, BuyOps
  <2>2. \A s \in sold : s.by # r
    BY <1>7, <2>1
  <2>3. CASE UNCHANGED keys
    BY <1>10, <2>1, <2>2, <2>3
  <2>4. CASE Release(r) /\ Ended(r)
    <3> DEFINE x == IF keys[k] = "claimed" THEN "free" ELSE keys[k]
    <3>1. keys' = [keys EXCEPT ![k] = x]
      BY <2>4 DEF Release, k
    <3>2. keys[k] \in {"sold", "declined"} => x \in {"sold", "declined"}
      OBVIOUS
    <3> HIDE DEF x
    <3>3. QED
      BY <1>11, <2>1, <2>2, <2>4, <3>1, <3>2
  <2>5. QED
    BY <1>13, <2>3, <2>4, EndMoves DEF Settle, SettleFails, Answer
<1>14. CASE Decline(r)
  <2>1. /\ sold' = sold /\ shared' = shared /\ Op(r) = "sell" /\ Holds(r) /\ k \in Request
        /\ Ended(r) /\ keys' = [keys EXCEPT ![k] = "declined"]
    BY <1>1, <1>2, <1>14, EndMoves DEF Decline, At, Op, Holds, BuyOps, Answer, k
  <2>2. \A s \in sold : s.by # r
    BY <1>7, <2>1
  <2>3. QED
    BY <1>11, <2>1, <2>2
<1>15. CASE Sell(r)
  <2>1. /\ Op(r) = "sell" /\ Holds(r) /\ k \in Request /\ UNCHANGED <<keys, shared>>
        /\ Went(r, req[r].seen, Rest(r))
    BY <1>1, <1>2, <1>15 DEF Sell, At, Op, Holds, BuyOps, k
  <2>2. Running(r)' /\ Op(r)' = "queue" /\ req'[r].key = k /\ answer'[r] = answer[r]
    BY <1>1, <2>1, SaleGoesOn DEF k
  <2>3. PICK s : sold' = sold \cup {s} /\ s.by = r /\ s.key = k
    <3> DEFINE s == [by |-> r, key |-> req[r].key, mandate |-> req[r].mandate]
    <3>1. sold' = sold \cup {s} /\ s.by = r /\ s.key = k
      BY <1>15 DEF Sell, k
    <3>2. QED
      BY <3>1
  <2>4. \A t \in sold : t.by # r
    BY <1>7, <2>1
  <2>5. SalesKnown'
    <3>1. \A t \in sold : (Pending(t) \/ Recorded(t) \/ Broken(t))'
      BY <1>8, <2>1, <2>3, <2>4
    <3>2. Pending(s)'
      BY <2>2, <2>3 DEF Pending
    <3>3. QED
      BY <1>4, <2>1, <2>3, <3>1, <3>2 DEF SalesKnown
  <2>6. \A q \in Request : Holds(q)' => Holds(q) /\ req'[q].key = req[q].key
    BY <1>5, <2>1 DEF k
  <2>7. KeysHeld'
    BY <1>1, <1>4, <2>1, <2>6 DEF KeysHeld
  <2>8. SalesBeside'
    <3> SUFFICES ASSUME NEW t \in sold', NEW q \in Request, Holds(q)', q # t.by, req'[q].key = t.key
                 PROVE  /\ app.store = "postgres"
                        /\ {q, t.by} \in shared \/ answer'[t.by] \in {"error", "lost"}
      BY <1>1, <2>1 DEF SalesBeside
    <3>1. CASE t \in sold
      BY <1>4, <1>5, <2>6, <3>1 DEF SalesBeside, SalesKnown
    <3>2. CASE t = s
      BY <1>4, <2>1, <2>3, <2>6, <3>2 DEF KeysHeld, k
    <3>3. QED
      BY <2>3, <3>1, <3>2
  <2>9. OneSalePerKey'
    <3>1. ASSUME NEW t \in sold, t.key = k
          PROVE  /\ app.store = "postgres"
                 /\ {r, t.by} \in shared \/ answer'[t.by] \in {"error", "lost"}
      BY <1>4, <1>5, <2>1, <2>4, <3>1 DEF SalesBeside, SalesKnown, k
    <3> SUFFICES ASSUME NEW t \in sold', NEW u \in sold', t # u, t.key = u.key
                 PROVE  /\ app.store = "postgres"
                        /\ \/ {t.by, u.by} \in shared
                           \/ {answer'[t.by], answer'[u.by]} \cap {"error", "lost"} # {}
      BY <1>1, <2>1 DEF OneSalePerKey
    <3>2. CASE t \in sold /\ u \in sold
      BY <1>4, <1>5, <3>2 DEF OneSalePerKey, SalesKnown
    <3>3. CASE t = s /\ u \in sold
      BY <2>3, <3>1, <3>3
    <3>4. CASE u = s /\ t \in sold
      <4>1. {t.by, u.by} = {r, t.by}
        BY <2>3, <3>4
      <4>2. QED
        BY <2>3, <3>1, <3>4, <4>1
    <3>5. QED
      BY <2>3, <3>2, <3>3, <3>4
  <2>10. QED
    BY <2>5, <2>7, <2>8, <2>9 DEF KeyInv
<1>16. CASE Queue(r)
  <2>1. /\ Op(r) = "queue" /\ UNCHANGED <<keys, sold, shared>>
        /\ Went(r, req[r].seen, Rest(r))
    BY <1>1, <1>16 DEF Queue, At, Op, ledger
  <2>2. Running(r)' /\ Op(r)' = "record" /\ req'[r].key = k
    BY <1>1, <2>1, SaleGoesOn DEF k
  <2>3. \A s \in sold : s.by = r => Pending(s)'
    BY <1>7, <2>2 DEF Pending
  <2>4. QED
    BY <1>10, <2>1, <2>3
<1>17. CASE Record(r)
  <2>1. /\ sold' = sold /\ shared' = shared /\ Op(r) = "record" /\ Holds(r) /\ k \in Request
        /\ keys' = [keys EXCEPT ![k] = "sold"]
    BY <1>1, <1>2, <1>17 DEF Record, At, Op, Holds, BuyOps, k
  <2>2. Rest(r) = <<>>
    BY <1>1, <2>1, SaleGoesOn
  <2>3. Ended(r) /\ answer'[r] = "sold"
    BY <1>17, <2>2, EndMoves DEF Record, Answer
  <2>4. \A s \in sold : s.by = r => Recorded(s)'
    BY <1>3, <1>7, <2>1, <2>3 DEF Recorded
  <2>5. QED
    BY <1>11, <2>1, <2>3, <2>4
<1>18. CASE RecordMandate(r)
  <2>1. Op(r) = "mandate" /\ UNCHANGED <<keys, sold, shared>>
    BY <1>18 DEF RecordMandate, At, Op
  <2>2. QED
    BY <1>7, <1>10, <2>1
<1>19. CASE UNCHANGED ledger /\ Op(r) \in CartOps
  BY <1>7, <1>10, <1>19 DEF ledger, CartOps
<1>20. CASE /\ UNCHANGED ledger /\ Ended(r)
            /\ Op(r) \in {"queue", "record"} => answer'[r] \in {"error", "lost"}
  <2>1. UNCHANGED <<keys, sold, shared>>
    BY <1>20 DEF ledger
  <2>2. \A s \in sold : s.by = r => Broken(s)'
    <3> SUFFICES ASSUME NEW s \in sold, s.by = r PROVE Broken(s)'
      OBVIOUS
    <3>1. Holds(r) /\ s.key = k /\ answer'[r] \in {"error", "lost"}
      BY <1>1, <1>7, <1>20 DEF Holds
    <3>2. app.store # "postgres" => keys[k] = "claimed"
      BY <1>4, <3>1 DEF KeysHeld, k
    <3>3. QED
      BY <1>1, <2>1, <3>1, <3>2 DEF Broken
  <2>3. QED
    BY <1>10, <1>20, <2>1, <2>2
<1>21. QED
  BY <1>12, <1>13, <1>14, <1>15, <1>16, <1>17, <1>18, <1>19, <1>20, LedgerCalls

\* The ledger and the requests together.
LEMMA SaleInvHolds == GatewaySpec => []SaleInv
<1>1. GatewayInit /\ RequestInv => SaleInv
  BY DEF GatewayInit, SaleInv, MandateInv, KeyInv, SalesKnown, KeysHeld, SalesBeside,
         OneSalePerMandate, OneSalePerKey, Paid, Holds, Running, Idle
<1>2. RequestInv /\ RequestInv' /\ SaleInv /\ [GatewayNext]_gvars => SaleInv'
  <2> SUFFICES ASSUME RequestInv, RequestInv', SaleInv, [GatewayNext]_gvars PROVE SaleInv'
    OBVIOUS
  <2> USE DEF SaleInv
  <2>0. ASSUME UNCHANGED <<app, req, answer, keys>>, NEW s
        PROVE  (Pending(s) \/ Recorded(s) \/ Broken(s))' <=> Pending(s) \/ Recorded(s) \/ Broken(s)
    BY <2>0 DEF Pending, Recorded, Broken, Running, Op
  <2>1. ASSUME NEW r \in Request, Work(r) PROVE SaleInv'
    BY <2>1, WorkKeepsMandates, WorkKeepsKeys
  <2>2. ASSUME Operate, UNCHANGED <<requests, carts, ledger, stale, faults>> PROVE SaleInv'
    <3>1. TypeOK
      BY DEF RequestInv
    <3>2. /\ strict' = strict /\ (phase = "exited" <=> phase' = "exited")
          /\ phase \in Underway \cup {"exited"} => UNCHANGED app
      BY <2>2, <3>1, OperateFacts
    <3>3. /\ UNCHANGED <<req, answer, sold, keys, mandates, shared>>
          /\ \A r \in Request : (Paid(r)' <=> Paid(r)) /\ (Holds(r)' <=> Holds(r))
      BY <2>2 DEF requests, ledger, Paid, Holds, Running, Op
    <3>4. phase \notin Underway \cup {"exited"} => sold = {} /\ \A r \in Request : ~Holds(r)
      BY DEF RequestInv, Holds, Running, Idle
    <3>5. MandateInv' /\ OneSalePerMandate' /\ OneSalePerKey'
      BY <3>2, <3>3, <3>4 DEF MandateInv, OneSalePerMandate, OneSalePerKey
    <3>6. KeyInv'
      BY <2>0, <3>2, <3>3, <3>4 DEF KeyInv, SalesKnown, KeysHeld, SalesBeside
    <3>7. QED
      BY <3>5, <3>6
  <2>3. CASE ExitUnderway
    <3>1. /\ phase' = "exited" /\ UNCHANGED <<strict, app, sold, shared>>
          /\ answer' = [r \in Request |-> IF Running(r) THEN "lost" ELSE answer[r]]
      BY <2>3 DEF ExitUnderway, Exit, settings
    <3>2. \A r \in Request : answer[r] # "none" => answer'[r] = answer[r]
      BY <3>1 DEF RequestInv
    <3>3. MandateInv' /\ KeyInv' /\ OneSalePerMandate'
      BY <3>1 DEF MandateInv, KeyInv, OneSalePerMandate
    <3>4. phase # "exited"
      BY <2>3 DEF ExitUnderway, Exit
    <3>5. \A s \in sold : s.by \in Request
      BY <3>4 DEF KeyInv, SalesKnown
    <3>6. OneSalePerKey'
      BY <3>1, <3>2, <3>5 DEF OneSalePerKey
    <3>7. QED
      BY <3>3, <3>6
  <2>4. ASSUME NEW surface \in DOMAIN Routes, NEW route \in Routes[surface], Arrive(surface, route)
        PROVE  SaleInv'
    <3>1. PICK r \in Request :
            /\ r = arrived + 1
            /\ req' = [req EXCEPT ![r] = req'[r]] /\ Opening(req'[r].todo, route)
      BY <2>4, ArriveFacts
    <3>2. UNCHANGED <<phase, app, strict, answer, keys, mandates, sold, shared>>
      BY <2>4 DEF Arrive, vars, settings, ledger
    <3>3. \A q \in Request : q # r => req'[q] = req[q] /\ (Paid(q)' <=> Paid(q)) /\ (Holds(q)' <=> Holds(q))
      BY <3>1 DEF RequestInv, Paid, Holds, Running, Op
    <3>4. ~Holds(r)' /\ ~Running(r)
      BY <3>1 DEF Opening, Holds, Op, RequestInv, Running, Idle
    <3>5. strict => ~Paid(r)'
      <4>1. /\ Op(r)' \notin {"settle", "sell"}
            /\ strict => Op(r)' # "claim"
        BY <3>1 DEF Opening, Op
      <4>2. QED
        BY <4>1 DEF Paid
    <3>6. MandateInv'
      BY <3>2, <3>3, <3>5 DEF MandateInv
    <3>7. KeyInv'
      <4>1. phase # "exited" => SalesKnown'
        <5>1. \A s \in sold : s.by \in Request => (Pending(s) => Pending(s)')
          BY <3>3, <3>4 DEF Pending, Running, Op
        <5>2. QED
          BY <3>2, <5>1 DEF KeyInv, SalesKnown, Recorded, Broken
      <4>2. phase # "exited" => KeysHeld' /\ SalesBeside'
        BY <3>2, <3>3, <3>4 DEF KeyInv, KeysHeld, SalesBeside
      <4>3. QED
        BY <3>2, <4>1, <4>2 DEF KeyInv
    <3>8. QED
      BY <3>2, <3>6, <3>7 DEF OneSalePerMandate, OneSalePerKey
  <2>5. ASSUME \/ \E surface, route, flaw : Turned(surface, route, flaw)
               \/ \E capability : Ask(capability)
        PROVE  SaleInv'
    <3>1. /\ UNCHANGED <<phase, app, strict, req, keys, mandates, sold, shared>>
          /\ phase # "exited"
          /\ \E a : answer' = [answer EXCEPT ![arrived + 1] = a]
      BY <2>5 DEF Turned, Ask, Open, vars, settings, ledger
    <3>2. \A q \in Request : (Paid(q)' <=> Paid(q)) /\ (Holds(q)' <=> Holds(q))
      BY <3>1 DEF Paid, Holds, Running, Op
    <3>3. \A q \in Request : answer[q] # "none" => answer'[q] = answer[q]
      <4>1. arrived + 1 \in Request => answer[arrived + 1] = "none"
        BY DEF RequestInv, Request
      <4>2. QED
        BY <3>1, <4>1 DEF RequestInv, TypeOK
    <3>4. SalesKnown /\ KeysHeld /\ SalesBeside
      BY <3>1 DEF KeyInv
    <3>5. SalesKnown'
      <4>1. \A s \in sold : s.by \in Request =>
              /\ Pending(s) => Pending(s)'
              /\ Recorded(s) => Recorded(s)'
              /\ Broken(s) => Broken(s)'
        BY <3>1, <3>3 DEF Pending, Recorded, Broken, Running, Op
      <4>2. QED
        BY <3>1, <3>4, <4>1 DEF SalesKnown
    <3>6. KeysHeld'
      BY <3>1, <3>2, <3>4 DEF KeysHeld
    <3>7. SalesBeside' /\ OneSalePerKey'
      BY <3>1, <3>2, <3>3, <3>4 DEF SalesBeside, SalesKnown, OneSalePerKey
    <3>8. MandateInv' /\ OneSalePerMandate'
      BY <3>1, <3>2 DEF MandateInv, OneSalePerMandate
    <3>9. QED
      BY <3>5, <3>6, <3>7, <3>8 DEF KeyInv
  <2>6. CASE UNCHANGED gvars
    <3>1. UNCHANGED <<phase, app, strict, req, answer, keys, mandates, sold, shared>>
      BY <2>6 DEF gvars, vars, settings, requests, ledger
    <3>2. \A q \in Request : (Paid(q)' <=> Paid(q)) /\ (Holds(q)' <=> Holds(q))
      BY <3>1 DEF Paid, Holds, Running, Op
    <3>3. QED
      BY <2>0, <3>1, <3>2 DEF MandateInv, OneSalePerMandate, OneSalePerKey, KeyInv, SalesKnown,
         KeysHeld, SalesBeside
  <2>7. QED
    BY <2>1, <2>2, <2>3, <2>4, <2>5, <2>6 DEF GatewayNext
<1>3. QED
  BY <1>1, <1>2, RequestInvHolds, PTL DEF GatewaySpec

\* However mandates, keys and carts are passed between the requests of any
\* surface, retried, refused and abandoned, a mandate pays once in strict mode,
\* and a key sells once, but for requests that hold it together in Postgres and
\* for one that comes after a sale whose request met an error or was dropped
\* before it recorded the outcome there.
THEOREM NothingIsSoldTwice == GatewaySpec => []SoldOnce
<1>1. SaleInv => SoldOnce
  BY DEF SaleInv, RequestInv, SoldOnce
<1>2. QED
  BY <1>1, SaleInvHolds, PTL

-----------------------------------------------------------------------------
(* Owners.                                                                 *)

Owns(r) == CartOf(r).owner = req[r].tenant

\* What is about to be sold was found to be the caller's, and a deployment
\* that keeps its carts in memory has one tenant.
OwnerInv ==
    /\ phase \in {"start", "loaded"} => app.store # "postgres"
    /\ \A r \in Request : Running(r) /\ Op(r) = "sell" => Owns(r)
    /\ app.store # "postgres" =>
         /\ app.auth # "jwt"
         /\ \A c \in DOMAIN carts : carts[c].owner = Home
         /\ \A r \in Request : req[r].tenant = Home

\* The owner was checked before, and no call changes the owner of a cart.
LEMMA OwnerInvHolds == GatewaySpec => []OwnerInv
<1> USE DEF OwnerInv
<1>1. GatewayInit => OwnerInv
  BY DEF GatewayInit, DeploymentInit, NoApp, Idle, Running
<1>2. RequestInv /\ OwnerInv /\ [GatewayNext]_gvars => OwnerInv'
  <2> SUFFICES ASSUME RequestInv, OwnerInv, [GatewayNext]_gvars PROVE OwnerInv'
    OBVIOUS
  <2>1. Idle.tenant = Home /\ Idle.todo = <<>>
    BY DEF Idle
  <2>2. ASSUME NEW r \in Request, Work(r) PROVE OwnerInv'
    <3>1. Running(r) /\ Moves(r) /\ UNCHANGED <<phase, app>>
      BY <2>2, WorkMoves
    <3>2. CartsKept(r)
      BY <2>2, WorkCarts
    <3>3. \A q \in Request : q # r => req'[q] = req[q]
      BY <3>1 DEF Moves, RequestInv
    <3>4. req'[r].tenant \in {Home, req[r].tenant}
      BY <2>1, <3>1 DEF Moves, Ended, GoesOn
    <3>5. ASSUME app.store # "postgres"
          PROVE  /\ \A c \in DOMAIN carts' : carts'[c].owner = Home
                 /\ \A q \in Request : req'[q].tenant = Home
      BY <3>2, <3>3, <3>4, <3>5 DEF CartsKept
    <3>6. ASSUME NEW q \in Request, Running(q)', Op(q)' = "sell" PROVE Owns(q)'
      <4>1. CASE q = r
        <5>1. GoesOn(r) /\ Op(r) = "settle"
          BY <2>1, <3>1, <3>6, <4>1 DEF Moves, Ended, Running, GoesOn, Op
        <5>2. Owns(r) /\ req[r].cart \in DOMAIN carts
          <6>1. Settle(r) \/ SettleFails(r) \/ HangUp(r)
            BY <2>2, <5>1 DEF Work, Serve, CartCall, CheckoutCall, CreateCart, GetCart, EditCart,
               EditOps, EditFails, FulfilCart, StartCheckout, CancelCart, NotMine, RecordMandate,
               Claim, Sell, Decline, Queue, Record, BuyFails, At, Op
          <6>2. ~Ended(r)
            BY <2>1, <5>1 DEF Ended, GoesOn
          <6>3. Owns(r)
            BY <6>1, <6>2, EndMoves DEF Settle, SettleFails, HangUp, Answer, Owns
          <6>4. QED
            BY <3>1, <5>1, <6>3 DEF RequestInv, TypeOK, Op
        <5>3. QED
          BY <3>2, <4>1, <5>1, <5>2 DEF Owns, CartOf, GoesOn, CartsKept
      <4>2. CASE q # r
        <5>1. Running(q) /\ Op(q) = "sell" /\ req'[q] = req[q]
          BY <3>3, <3>6, <4>2 DEF Running, Op
        <5>2. Owns(q) /\ req[q].cart \in DOMAIN carts
          BY <5>1 DEF RequestInv, TypeOK, Op
        <5>3. QED
          BY <3>2, <5>1, <5>2 DEF CartsKept, Owns, CartOf
      <4>3. QED
        BY <4>1, <4>2
    <3>7. QED
      BY <3>1, <3>5, <3>6
  <2>3. ASSUME Operate, UNCHANGED <<requests, carts, ledger, stale, faults>> PROVE OwnerInv'
    <3>1. UNCHANGED <<req, carts>>
      BY <2>3 DEF requests
    <3>2. /\ app'.store # "postgres" => app'.auth # "jwt" /\ app.store # "postgres"
          /\ phase' \in {"start", "loaded"} => app'.store # "postgres"
      <4>1. CASE Build
        BY <4>1 DEF Build, ProductionApp, DevelopmentApp
      <4>2. CASE Assemble
        BY <4>2 DEF Assemble
      <4>3. CASE ~Build /\ ~Assemble
        BY <2>3, <4>3 DEF Operate, Start, Load, Migrate, BuildRefused, Refuse, AssembleFails,
           Bind,
           BindFails, Signal, Shutdown, DrainAwaited, DrainTimesOut, Process, Deliver, LeasedElsewhere,
           LeaseEnds, DrainEnds, DrainGivesUp
      <4>4. QED
        BY <4>1, <4>2, <4>3
    <3>3. QED
      BY <3>1, <3>2 DEF Running, Op, Owns, CartOf
  <2>4. CASE ExitUnderway
    <3>1. /\ \A r \in Request : req'[r] = Idle
          /\ \A c \in DOMAIN carts' : c \in DOMAIN carts /\ carts'[c] = carts[c]
          /\ app' = app /\ phase' = "exited"
      BY <2>4 DEF ExitUnderway, Exit
    <3>2. QED
      BY <2>1, <3>1 DEF Running
  <2>5. ASSUME NEW surface \in DOMAIN Routes, NEW route \in Routes[surface], Arrive(surface, route)
        PROVE  OwnerInv'
    <3>1. PICK r \in Request :
            /\ req' = [req EXCEPT ![r] = req'[r]] /\ Opening(req'[r].todo, route)
            /\ req'[r].tenant \in Callers
      BY <2>5, ArriveFacts
    <3>2. UNCHANGED <<phase, app, carts>>
      BY <2>5 DEF Arrive, vars
    <3>3. \A q \in Request : q # r => req'[q] = req[q]
      BY <3>1 DEF RequestInv
    <3>4. Op(r)' # "sell"
      BY <3>1 DEF Opening, Op
    <3>5. app.store # "postgres" => req'[r].tenant = Home
      BY <3>1 DEF Callers
    <3>6. QED
      BY <3>2, <3>3, <3>4, <3>5 DEF Running, Op, Owns, CartOf
  <2>6. ASSUME NEW surface, NEW route, NEW flaw, Turned(surface, route, flaw) PROVE OwnerInv'
    BY <2>6 DEF Turned, vars, Running, Op, Owns, CartOf
  <2>7. ASSUME NEW capability \in Capability, Ask(capability) PROVE OwnerInv'
    BY <2>7 DEF Ask, vars, Running, Op, Owns, CartOf
  <2>8. CASE UNCHANGED gvars
    BY <2>8 DEF gvars, vars, requests, Running, Op, Owns, CartOf
  <2>9. QED
    BY <2>2, <2>3, <2>4, <2>5, <2>6, <2>7, <2>8 DEF GatewayNext
<1>3. QED
  BY <1>1, <1>2, RequestInvHolds, PTL DEF GatewaySpec

\* Only a call that was found to be of the caller's own cart ends well, on any
\* route: a checkout ends with its outcome.
LEMMA EndsWell ==
  ASSUME RequestInv, NEW r \in Request, Work(r), Running(r), Ends(r, "ok")
  PROVE  CreateCart(r) \/ (CartCall(r) /\ Mine(r))
<1>1. /\ req[r].todo \in Seq(Step) /\ req[r].todo # <<>> /\ Ordered(strict, req[r].todo)
      /\ answer[r] # answer'[r] /\ answer'[r] = "ok"
  BY DEF RequestInv, Job, Running, Ends
<1>2. \A a \in Answer : a # "ok" => ~End(r, a)
  BY <1>1, EndMoves
<1>3. Op(r) \in BuyOps => ~Went(r, req[r].seen, Rest(r)) \/ Op(r) = "record"
  <2>1. Op(r) \in Halfway => Rest(r) # <<>>
    BY <1>1, OrderedEnds DEF Op, Rest
  <2>2. Rest(r) # <<>> => ~Went(r, req[r].seen, Rest(r))
    BY <1>1 DEF Went
  <2>3. QED
    BY <2>1, <2>2 DEF Halfway
<1>4. Op(r) = "record" => Rest(r) = <<>>
  BY <1>1, OrderedEnds DEF Op, Rest
<1>5. ~CheckoutCall(r)
  BY <1>2, <1>3, <1>4 DEF CheckoutCall, RecordMandate, Claim, Settle, Sell, Queue, Record, At, Op,
     BuyOps, Answer
<1>6. CartCall(r)
  BY <1>2, <1>5 DEF Work, Serve, EditFails, SettleFails, Decline, BuyFails, HangUp, Answer
<1>7. ~NotMine(r)
  BY <1>2 DEF NotMine, Answer
<1>8. QED
  BY <1>6, <1>7 DEF CartCall, GetCart, EditCart, FulfilCart, StartCheckout, CancelCart

\* Of the requests that name one cart, none reads, changes or sells from a cart of
\* another tenant, on every surface and at every call of a script.
THEOREM OnlyForItsOwner == GatewaySpec => OwnersOnly
<1>1. RequestInv /\ OwnerInv /\ [GatewayNext]_gvars =>
        [\A r \in Request : req[r].named = req[r].cart => ~Trespasses(r)]_gvars
  <2> SUFFICES ASSUME RequestInv, OwnerInv, GatewayNext, NEW r \in Request,
                      req[r].named = req[r].cart,
                      carts' # carts \/ sold' # sold \/ Ends(r, "ok"),
                      Running(r), req'[r] # req[r], req[r].cart \in DOMAIN carts
               PROVE  Owns(r)
    BY DEF Trespasses, Owns
  <2>1. CASE Work(r)
    <3>1. Op(r) = "create" => req[r].cart = r /\ r \notin DOMAIN carts
      BY DEF RequestInv
    <3>2. ~CreateCart(r)
      BY <3>1 DEF CreateCart, At, Op
    <3>3. Mine(r) => Owns(r)
      BY DEF Mine, Owns, CartOf
    <3>4. CASE Ends(r, "ok")
      BY <2>1, <3>2, <3>3, <3>4, EndsWell
    <3>5. CASE Sell(r)
      BY <3>5 DEF Sell, At, Op, OwnerInv
    <3>6. CASE Settle(r) \/ SettleFails(r)
      BY <3>4, <3>6 DEF Settle, SettleFails, Owns
    <3>7. CASE ~Sell(r) /\ ~Settle(r) /\ ~SettleFails(r)
      BY <2>1, <3>2, <3>3, <3>4, <3>7 DEF Work, Serve, CartCall, CheckoutCall, GetCart, EditCart,
         EditFails, FulfilCart, StartCheckout, CancelCart, NotMine, RecordMandate, Claim, Decline,
         Queue, Record, BuyFails, HangUp, ledger
    <3>8. QED
      BY <3>5, <3>6, <3>7
  <2>2. ASSUME NEW q \in Request, Work(q) PROVE q = r
    BY <2>2, WorkMoves DEF Moves, RequestInv
  <2>3. CASE ExitUnderway
    <3>1. ~Ends(r, "ok") /\ sold' = sold
      BY <2>3 DEF ExitUnderway, Ends
    <3>2. app.store = "memory"
      BY <2>3, <3>1 DEF ExitUnderway
    <3>3. QED
      BY <3>2 DEF OwnerInv, Owns, CartOf
  <2>4. QED
    BY <2>1, <2>2, <2>3 DEF GatewayNext, Arrive, Turned, Ask, requests, ledger, Ends
<1>2. QED
  BY <1>1, RequestInvHolds, OwnerInvHolds, PTL DEF GatewaySpec, OwnersOnly

-----------------------------------------------------------------------------
(* Versions.                                                               *)

\* Whoever changes a cart marks the others that are working on it.
LEMMA WorkMarks ==
  ASSUME RequestInv, NEW r \in Request, Work(r)
  PROVE  /\ stale \subseteq stale' /\ (r \in stale' => r \in stale)
         /\ \A q \in Request :
              q # r /\ Running(q) /\ req[q].cart \in DOMAIN carts =>
                  carts'[req[q].cart] = carts[req[q].cart] \/ q \in stale'
<1>1. CASE UNCHANGED <<carts, stale>>
  BY <1>1
<1>2. CASE CreateCart(r)
  <2>1. r \notin DOMAIN carts
    BY <1>2 DEF RequestInv, CreateCart, At, Op
  <2>2. \A c \in DOMAIN carts : carts'[c] = carts[c]
    BY <1>2, <2>1 DEF CreateCart, With
  <2>3. QED
    BY <1>2, <2>2 DEF CreateCart
<1>3. ASSUME NEW cart, Store(r, cart)
      PROVE  /\ stale \subseteq stale' /\ (r \in stale' => r \in stale)
             /\ \A q \in Request :
                  q # r /\ Running(q) /\ req[q].cart \in DOMAIN carts =>
                      carts'[req[q].cart] = carts[req[q].cart] \/ q \in stale'
  BY <1>3 DEF Store
<1>4. \/ UNCHANGED <<carts, stale>> \/ CreateCart(r) \/ \E cart : Store(r, cart)
  BY DEF Work, Serve, CartCall, CheckoutCall, GetCart, EditCart, EditFails, FulfilCart,
         StartCheckout, CancelCart, NotMine, RecordMandate, Claim, Settle, Sell, SettleFails,
         Decline, Queue, Record, BuyFails, HangUp
<1>5. QED
  BY <1>1, <1>2, <1>3, <1>4

\* The rest of a direct script is direct.
LEMMA TailDirect ==
  ASSUME NEW todo \in Seq(Step), todo # <<>>, Direct(todo)
  PROVE  Direct(Tail(todo))
BY TailFacts DEF Direct

\* A request on its way to a version check knows the version, unless it was
\* marked.
FreshInv ==
    \A r \in Request :
        req[r].route # "acp_complete" =>
            /\ Direct(req[r].todo)
            /\ Running(r) /\ Op(r) \in BuyOps \cup {"start"} =>
                 r \in stale \/ req[r].seen = CartOf(r).version

\* It holds because whoever stores a cart marks the others that work on it.
LEMMA FreshInvHolds == GatewaySpec => []FreshInv
<1>1. GatewayInit => FreshInv
  BY DEF GatewayInit, FreshInv, Idle, Running, Direct
<1>2. RequestInv /\ FreshInv /\ [GatewayNext]_gvars => FreshInv'
  <2> SUFFICES ASSUME RequestInv, FreshInv, [GatewayNext]_gvars, NEW q \in Request,
                      req'[q].route # "acp_complete"
               PROVE  /\ Direct(req'[q].todo)
                      /\ Running(q)' /\ Op(q)' \in BuyOps \cup {"start"} =>
                           q \in stale' \/ req'[q].seen = CartOf(q)'.version
    BY DEF FreshInv
  <2> DEFINE Goal == /\ Direct(req'[q].todo)
                     /\ Running(q)' /\ Op(q)' \in BuyOps \cup {"start"} =>
                          q \in stale' \/ req'[q].seen = CartOf(q)'.version
  <2>1. ASSUME req'[q].todo = <<>> PROVE Goal
    BY <2>1 DEF Direct, Running
  <2>2. ASSUME req'[q] = req[q], stale \subseteq stale',
               Running(q) /\ req[q].cart \in DOMAIN carts =>
                   carts'[req[q].cart] = carts[req[q].cart] \/ q \in stale'
        PROVE  Goal
    <3>1. Running(q)' => Running(q) /\ Op(q)' = Op(q)
      BY <2>2 DEF Running, Op
    <3>2. Running(q) /\ Op(q) \in BuyOps \cup {"start"} => req[q].cart \in DOMAIN carts
      BY DEF RequestInv, TypeOK, Op, BuyOps
    <3>3. QED
      BY <2>2, <3>1, <3>2 DEF FreshInv, CartOf
  <2> HIDE DEF Goal
  <2>3. ASSUME NEW r \in Request, Work(r) PROVE Goal
    <3>1. Running(r) /\ Moves(r)
      BY <2>3, WorkMoves
    <3>2. CASE q # r
      <4>1. req'[q] = req[q]
        BY <3>1, <3>2 DEF Moves, RequestInv
      <4>2. QED
        BY <2>2, <2>3, <3>2, <4>1, WorkMarks
    <3>3. CASE q = r /\ Ended(r)
      BY <2>1, <3>3 DEF Ended, Idle
    <3>4. CASE q = r /\ GoesOn(r)
      <4> DEFINE old == req[q].todo
                 new == req'[q].todo
      <4>1. /\ new \in Seq(Step) /\ old \in Seq(Step) /\ old # <<>> /\ new # <<>>
            /\ req[q].route # "acp_complete" /\ Direct(old)
        BY <3>1, <3>4 DEF GoesOn, RequestInv, Job, Running, FreshInv
      <4>2. CASE \A i \in 1..Len(new) : new[i][1] \in EditOps
        <5>1. Head(new) = new[1] /\ 1 \in 1..Len(new)
          BY <4>1
        <5>2. Op(q)' \in EditOps
          BY <4>2, <5>1 DEF Op
        <5>3. Direct(new)
          <6>1. \A i \in 2..Len(new) : i \in 1..Len(new)
            BY <4>1
          <6>2. \A i \in 2..Len(new) : new[i][1] \in EditOps
            BY <4>2, <6>1
          <6>3. QED
            BY <6>2 DEF Direct, EditOps
        <5>4. QED
          BY <5>2, <5>3 DEF Goal, EditOps, BuyOps
      <4>3. CASE new = Tail(old)
        <5>1. /\ Len(new) = Len(old) - 1 /\ \A i \in 1..Len(new) : new[i] = old[i + 1]
          BY <4>1, <4>3
        <5>2. Direct(new)
          BY <4>1, <4>3, TailDirect
        <5>3. Head(new) = old[2] /\ 2 \in 2..Len(old) /\ Op(q) = old[2 - 1][1]
          BY <4>1, <5>1 DEF Op
        <5>4. /\ Op(q)' # "mandate"
              /\ Op(q)' = "claim" => Op(q) = "mandate"
              /\ Op(q)' = "start" => Op(q) = "add"
          BY <4>1, <5>3 DEF Direct, Op
        <5>5. Op(q)' = "settle" => Op(q) = "claim"
          BY <3>4 DEF GoesOn, Op
        <5>6. /\ Op(q)' = "sell" => Op(q) = "settle"
              /\ Op(q)' = "queue" => Op(q) = "sell"
              /\ Op(q)' = "record" => Op(q) = "queue"
          BY <3>4 DEF GoesOn, Op
        <5>7. ~Ended(q)
          BY <3>4 DEF GoesOn, Ended, Idle
        <5>8. new = Rest(q) /\ new # <<>> /\ req'[q].cart = req[q].cart
          BY <3>4, <4>1, <4>3 DEF Rest, GoesOn
        <5>9. CASE Op(q)' = "start"
          <6>1. Op(q) = "add" /\ Work(q) /\ q \in Request
            BY <2>3, <3>4, <5>4, <5>9
          <6>2. EditCart(q)
            <7>1. EditCart(q) \/ EditFails(q) \/ HangUp(q) \/ NotMine(q)
              BY <6>1 DEF Work, Serve, CartCall, CheckoutCall, CreateCart, GetCart, FulfilCart,
                 StartCheckout, CancelCart, RecordMandate, Claim, Settle, Sell, SettleFails, Decline,
                 Queue, Record, BuyFails, At, Op
            <7>2. QED
              BY <5>7, <7>1, EndMoves DEF EditFails, HangUp, NotMine, Answer
          <6>3. /\ Store(q, NextVersion(CartOf(q), Edited(q, Op(q), Arg(q)), "open"))
                /\ Went(q, CartOf(q).version + 1, Rest(q))
            BY <5>7, <6>2, EndMoves DEF EditCart, Answer, Op, Arg
          <6>4. req[q].cart \in DOMAIN carts /\ CartOf(q).version \in Nat
            BY <3>1, <3>4, <6>1 DEF RequestInv, TypeOK, Op, CartOf
          <6>5. req'[q].seen = CartOf(q).version + 1
            <7>1. CartOf(q).version + 1 \in Nat
              BY <6>4
            <7>2. QED
              BY <3>1, <3>4, <5>8, <6>3, <7>1, WentMoves
          <6>6. carts'[req[q].cart].version = CartOf(q).version + 1
            BY <6>3, <6>4 DEF Store, NextVersion
          <6>7. QED
            BY <5>2, <5>8, <6>5, <6>6 DEF Goal, CartOf
        <5>10. CASE Op(q)' \in {"claim", "settle", "sell", "queue", "record"}
          <6>1. /\ Op(q) \in {"mandate", "claim", "settle", "sell", "queue"} /\ Work(q) /\ Running(q)
                /\ req[q].cart \in DOMAIN carts
            <7>1. Op(q) \in {"mandate", "claim", "settle", "sell", "queue"} /\ Work(q) /\ Running(q)
              BY <2>3, <3>1, <3>4, <5>4, <5>5, <5>6, <5>10, SMTT(60)
            <7>2. QED
              BY <7>1 DEF RequestInv, TypeOK, Op
          <6>2. /\ Went(q, req[q].seen, Rest(q)) \/ \E a \in Answer : End(q, a)
                /\ carts' = carts \/ Store(q, CartOf(q))
                /\ stale \subseteq stale'
            BY <6>1 DEF Work, Serve, CartCall, CheckoutCall, CreateCart, GetCart, EditCart,
               EditOps, EditFails, FulfilCart, StartCheckout, CancelCart, NotMine, RecordMandate,
               Claim, Settle, Sell, Queue, Record, SettleFails, Decline, BuyFails, HangUp, Store,
               At, Op, Answer
          <6>3. req[q].seen \in Nat
            BY DEF RequestInv, Job
          <6>4. req'[q].seen = req[q].seen
            BY <5>7, <5>8, <6>1, <6>2, <6>3, WentMoves, EndMoves
          <6>5. q \in stale \/ req[q].seen = CartOf(q).version
            BY <4>1, <6>1 DEF FreshInv, BuyOps
          <6>6. carts'[req[q].cart] = carts[req[q].cart]
            BY <6>1, <6>2 DEF Store, CartOf
          <6>7. QED
            BY <5>2, <5>8, <6>2, <6>4, <6>5, <6>6 DEF Goal, CartOf
        <5>11. CASE Op(q)' \notin BuyOps \cup {"start"}
          BY <5>2, <5>11 DEF Goal
        <5>12. QED
          BY <5>4, <5>9, <5>10, <5>11 DEF BuyOps
      <4>4. QED
        BY <3>4, <4>2, <4>3 DEF GoesOn, Rest
    <3>5. QED
      BY <3>1, <3>2, <3>3, <3>4 DEF Moves
  <2>4. ASSUME Operate, UNCHANGED <<requests, carts, ledger, stale, faults>> PROVE Goal
    BY <2>2, <2>4 DEF requests
  <2>5. ASSUME ExitUnderway PROVE Goal
    <3>1. req'[q] = Idle /\ Idle.todo = <<>>
      BY <2>5 DEF ExitUnderway, Idle
    <3>2. QED
      BY <2>1, <3>1
  <2>6. ASSUME NEW surface \in DOMAIN Routes, NEW route \in Routes[surface], Arrive(surface, route)
        PROVE  Goal
    <3>1. PICK r \in Request :
            /\ req' = [req EXCEPT ![r] = req'[r]] /\ Opening(req'[r].todo, route)
            /\ req'[r].route = route /\ stale \subseteq stale'
            /\ route \in {"start", "complete"} =>
                 req'[r].seen = carts[req'[r].cart].version \/ r \in stale'
      BY <2>6, ArriveFacts
    <3>2. carts' = carts
      BY <2>6 DEF Arrive
    <3>3. CASE q # r
      <4>1. req'[q] = req[q]
        BY <3>1, <3>3 DEF RequestInv
      <4>2. QED
        BY <2>2, <3>1, <3>2, <4>1
    <3>4. CASE q = r
      BY <3>1, <3>2, <3>4 DEF Goal, Opening, Op, CartOf
    <3>5. QED
      BY <3>3, <3>4
  <2>7. ASSUME NEW surface, NEW route, NEW flaw, Turned(surface, route, flaw) PROVE Goal
    BY <2>2, <2>7 DEF Turned
  <2>8. ASSUME NEW capability \in Capability, Ask(capability) PROVE Goal
    BY <2>2, <2>8 DEF Ask
  <2>9. ASSUME UNCHANGED gvars PROVE Goal
    <3>1. UNCHANGED <<req, carts, stale>>
      BY <2>9 DEF gvars, requests
    <3>2. QED
      BY <2>2, <3>1
  <2>10. QED
    BY <2>3, <2>4, <2>5, <2>6, <2>7, <2>8, <2>9 DEF GatewayNext, Goal
<1>3. QED
  BY <1>1, <1>2, RequestInvHolds, PTL DEF GatewaySpec

\* A version conflict is somebody else's doing, on every route but the ACP
\* completion.
THEOREM ConflictsAreEarned == GatewaySpec => ConflictIsEarned
<1>1. RequestInv /\ FreshInv /\ [GatewayNext]_gvars =>
        [\A r \in Request :
           req[r].route # "acp_complete" /\ Ends(r, "conflict") => r \in stale]_gvars
  <2> SUFFICES ASSUME RequestInv, FreshInv, GatewayNext, NEW r \in Request,
                      req[r].route # "acp_complete", answer[r] # "conflict", answer'[r] = "conflict"
               PROVE  r \in stale
    BY DEF Ends
  <2>1. ASSUME NEW q \in Request, Work(q) PROVE r \in stale
    <3>1. q = r /\ Running(r)
      BY <2>1, WorkMoves DEF Moves, RequestInv, TypeOK
    <3>2. \A a \in Answer : End(r, a) => a = "conflict"
      BY EndMoves
    <3>3. \A v, rest : Went(r, v, rest) => FALSE
      BY EndMoves DEF Went, Answer
    <3>4. /\ CartOf(r).version # req[r].seen
          /\ Op(r) \in {"start", "settle"}
      BY <2>1, <3>1, <3>2, <3>3
      DEF Work, Serve, CartCall, CheckoutCall, CreateCart, GetCart, EditCart, EditFails,
         FulfilCart,
          StartCheckout, CancelCart, NotMine, RecordMandate, Claim, Settle, Sell, SettleFails,
          Decline, Queue, Record, BuyFails, HangUp, Answer, At, Op
    <3>5. QED
      BY <3>1, <3>4 DEF FreshInv, BuyOps
  <2>2. ~ExitUnderway
    BY DEF ExitUnderway, RequestInv, TypeOK
  <2>3. ASSUME NEW surface, NEW route, NEW flaw, Turned(surface, route, flaw) PROVE FALSE
    BY <2>3 DEF Turned, RequestInv, TypeOK
  <2>4. ASSUME NEW capability, Ask(capability) PROVE FALSE
    BY <2>4 DEF Ask, RequestInv, TypeOK
  <2>5. answer' # answer
    OBVIOUS
  <2>6. QED
    BY <2>1, <2>2, <2>3, <2>4, <2>5 DEF GatewayNext, Arrive, requests
<1>2. QED
  BY <1>1, RequestInvHolds, FreshInvHolds, PTL DEF GatewaySpec, ConflictIsEarned

-----------------------------------------------------------------------------
(* Updates.                                                                *)

\* A sequence of a finite set has all of it.
LEMMA SetToSeqCovers ==
  ASSUME NEW S, IsFiniteSet(S)
  PROVE  \A x \in S : \E i \in 1..Len(SetToSeq(S)) : SetToSeq(S)[i] = x
<1> DEFINE n == Cardinality(S)
<1>1. n \in Nat /\ \E f \in [1..n -> S] : IsInjective(f)
  BY FS_CardinalityType DEF ExistsBijection, Bijection, Injection, IsInjective
<1>2. SetToSeq(S) \in [1..n -> S] /\ IsInjective(SetToSeq(S))
  BY <1>1 DEF SetToSeq
<1>3. SetToSeq(S) \in Injection(1..n, S)
  BY <1>2 DEF Injection
<1>4. Cardinality(1..n) = n
  BY <1>1, FS_Interval
<1>5. SetToSeq(S) \in Surjection(1..n, S)
  BY <1>3, <1>4, FS_Injection
<1>6. Len(SetToSeq(S)) = n
  BY <1>1, <1>2
<1>7. QED
  BY <1>5, <1>6 DEF Surjection

\* The calls with which r makes of lines what it keeps and its own.
Removal(keep) == {<<"remove", l>> : l \in Line \ keep}
Resetting(keep) == {<<"qty", l>> : l \in keep}

Planned(r, todo, lines, keep) ==
    /\ todo[Len(todo)] = <<"add", r>>
    /\ \A i \in 1..(Len(todo) - 1) : todo[i] \in Removal(keep) \cup Resetting(keep)
    /\ keep \subseteq DOMAIN lines
    /\ \A l \in DOMAIN lines \ keep : \E i \in 1..Len(todo) : todo[i] = <<"remove", l>>
    /\ \A l \in keep : lines[l] = r \/ \E i \in 1..Len(todo) : todo[i] = <<"qty", l>>

\* What it asked for.
Asked(r, keep) == [l \in keep \cup {r} |-> r]

\* What an update is left with once it has read the cart.
LEMMA UpdateCallsPlanned ==
  ASSUME NEW r \in Request, req[r] \in Job, NEW lines, DOMAIN lines \subseteq Line,
         req[r].keep \subseteq DOMAIN lines
  PROVE  Planned(r, UpdateCalls(r, DOMAIN lines), lines, req[r].keep)
<1> DEFINE keep == req[r].keep
           gone == {<<"remove", l>> : l \in DOMAIN lines \ keep}
           kept == {<<"qty", l>> : l \in keep}
           E == EditOps \X Line
           a == SetToSeq(gone)
           b == SetToSeq(kept)
           c == <<<<"add", r>>>>
           u == UpdateCalls(r, DOMAIN lines)
<1>1. ASSUME NEW op, NEW S \in SUBSET Line
      PROVE  IsFiniteSet({<<op, l>> : l \in S})
  <2>1. IsFiniteSet(S)
    BY FS_BoundedSetOfNaturals, GatewayAssumption DEF Line, Request, Stored
  <2> DEFINE f == [l \in S |-> <<op, l>>]
  <2>2. f \in Surjection(S, {<<op, l>> : l \in S})
    BY DEF Surjection
  <2>3. QED
    BY <2>1, <2>2, FS_Surjection
<1>2. keep \in SUBSET Line
  BY DEF Job
<1>3. IsFiniteSet(gone) /\ IsFiniteSet(kept)
  BY <1>1, <1>2
<1>4. gone \subseteq E /\ kept \subseteq E /\ <<"add", r>> \in E
  BY <1>2 DEF EditOps, Line
<1>5. gone \subseteq Removal(keep) /\ kept \subseteq Resetting(keep)
  BY DEF Removal, Resetting
<1>6. u = (a \o b) \o c
  BY DEF UpdateCalls
<1>7. a \in Seq(gone) /\ b \in Seq(kept)
  BY <1>3, SetToSeqType
<1>8. /\ \A x \in gone : \E i \in 1..Len(a) : a[i] = x
      /\ \A x \in kept : \E i \in 1..Len(b) : b[i] = x
  BY <1>3, SetToSeqCovers
<1>9. c \in Seq(E) /\ Len(c) = 1 /\ c[1] = <<"add", r>>
  BY <1>4
<1>10. /\ \A l \in DOMAIN lines \ keep : <<"remove", l>> \in gone
       /\ \A l \in keep : <<"qty", l>> \in kept
  OBVIOUS
<1> HIDE DEF keep, gone, kept, E, a, b, c, u
<1>11. a \in Seq(E) /\ b \in Seq(E)
  BY <1>4, <1>7
<1>12. /\ a \o b \in Seq(E) /\ Len(a \o b) = Len(a) + Len(b)
       /\ \A i \in 1..Len(a) : (a \o b)[i] = a[i]
       /\ \A i \in 1..Len(b) : (a \o b)[Len(a) + i] = b[i]
  BY <1>11, ConcatFacts
<1>13. /\ u \in Seq(E) /\ Len(u) = Len(a \o b) + 1
       /\ \A i \in 1..Len(a \o b) : u[i] = (a \o b)[i]
       /\ u[Len(u)] = <<"add", r>>
  <2> DEFINE ab == a \o b
  <2> HIDE DEF ab
  <2>1. ab \in Seq(E) /\ u = ab \o c
    BY <1>6, <1>12 DEF ab
  <2>2. /\ ab \o c \in Seq(E) /\ Len(ab \o c) = Len(ab) + Len(c)
        /\ \A i \in 1..Len(ab) : (ab \o c)[i] = ab[i]
        /\ \A i \in 1..Len(c) : (ab \o c)[Len(ab) + i] = c[i]
    BY <1>9, <2>1, ConcatFacts
  <2>3. (ab \o c)[Len(ab) + 1] = c[1]
    BY <1>9, <2>2
  <2>4. QED
    BY <1>9, <2>1, <2>2, <2>3 DEF ab
<1>14. /\ Len(a) \in Nat /\ Len(b) \in Nat /\ Len(u) = Len(a) + Len(b) + 1
       /\ \A i \in 1..Len(a) : u[i] = a[i] /\ a[i] \in gone
       /\ \A i \in 1..Len(b) : u[Len(a) + i] = b[i] /\ b[i] \in kept
  <2>1. /\ Len(a) \in Nat /\ \A i \in 1..Len(a) : a[i] \in gone
        /\ Len(b) \in Nat /\ \A i \in 1..Len(b) : b[i] \in kept
    BY <1>7
  <2> DEFINE ab == a \o b
  <2> HIDE DEF ab
  <2>2. /\ Len(ab) = Len(a) + Len(b)
        /\ \A i \in 1..Len(a) : ab[i] = a[i]
        /\ \A i \in 1..Len(b) : ab[Len(a) + i] = b[i]
    BY <1>12 DEF ab
  <2>3. /\ Len(u) = Len(ab) + 1
        /\ \A i \in 1..Len(ab) : u[i] = ab[i]
    BY <1>13 DEF ab
  <2>4. \A i \in 1..Len(a) : u[i] = a[i]
    BY <2>1, <2>2, <2>3
  <2>5. \A i \in 1..Len(b) : u[Len(a) + i] = b[i]
    <3> SUFFICES ASSUME NEW i \in 1..Len(b) PROVE u[Len(a) + i] = b[i]
      OBVIOUS
    <3>1. Len(a) + i \in 1..Len(ab)
      BY <2>1, <2>2
    <3>2. QED
      BY <2>2, <2>3, <3>1
  <2>6. QED
    BY <2>1, <2>2, <2>3, <2>4, <2>5
<1>15. \A i \in 1..(Len(u) - 1) : u[i] \in Removal(keep) \cup Resetting(keep)
  <2> SUFFICES ASSUME NEW i \in 1..(Len(u) - 1) PROVE u[i] \in Removal(keep) \cup Resetting(keep)
    OBVIOUS
  <2>1. CASE i <= Len(a)
    BY <1>5, <1>14, <2>1
  <2>2. CASE i > Len(a)
    <3>1. i - Len(a) \in 1..Len(b) /\ Len(a) + (i - Len(a)) = i
      BY <1>14, <2>2
    <3>2. QED
      BY <1>5, <1>14, <3>1
  <2>3. QED
    BY <1>14, <2>1, <2>2
<1>16. \A x \in gone : \E i \in 1..Len(u) : u[i] = x
  BY <1>8, <1>14
<1>17. \A x \in kept : \E i \in 1..Len(u) : u[i] = x
  <2> SUFFICES ASSUME NEW x \in kept PROVE \E i \in 1..Len(u) : u[i] = x
    OBVIOUS
  <2>1. PICK i \in 1..Len(b) : b[i] = x
    BY <1>8
  <2>2. Len(a) + i \in 1..Len(u) /\ u[Len(a) + i] = x
    BY <1>14, <2>1
  <2>3. QED
    BY <2>2
<1>18. keep \subseteq DOMAIN lines
  BY DEF keep
<1>19. QED
  BY <1>10, <1>13, <1>15, <1>16, <1>17, <1>18 DEF Planned, keep, u

\* One of the calls is made of a cart that is as the last one left it.
LEMMA PlannedStep ==
  ASSUME NEW r, NEW todo \in Seq(Step), Len(todo) > 1, NEW lines, NEW keep,
         Planned(r, todo, lines, keep)
  PROVE  /\ \/ /\ Head(todo)[1] = "remove"
               /\ Planned(r, Tail(todo), [x \in DOMAIN lines \ {Head(todo)[2]} |-> lines[x]], keep)
            \/ /\ Head(todo)[1] = "qty"
               /\ Planned(r, Tail(todo), With(lines, Head(todo)[2], r), keep)
<1> DEFINE rest == Tail(todo)
           call == Head(todo)
           l == call[2]
           dropped == [x \in DOMAIN lines \ {l} |-> lines[x]]
           set == With(lines, l, r)
<1>1. /\ rest \in Seq(Step) /\ Len(rest) = Len(todo) - 1 /\ Len(rest) \in Nat
      /\ \A i \in 1..Len(rest) : rest[i] = todo[i + 1]
      /\ call = todo[1] /\ Len(todo) \in Nat
  OBVIOUS
<1>2. call \in Removal(keep) \cup Resetting(keep)
  BY <1>1 DEF Planned
<1>3. rest[Len(rest)] = <<"add", r>>
  BY <1>1 DEF Planned
<1>4. \A i \in 1..(Len(rest) - 1) : rest[i] \in Removal(keep) \cup Resetting(keep)
  <2> SUFFICES ASSUME NEW i \in 1..(Len(rest) - 1)
               PROVE  rest[i] \in Removal(keep) \cup Resetting(keep)
    OBVIOUS
  <2>1. rest[i] = todo[i + 1] /\ i + 1 \in 1..(Len(todo) - 1)
    BY <1>1
  <2>2. QED
    BY <2>1 DEF Planned
<1>5. ASSUME NEW x, x # call, \E i \in 1..Len(todo) : todo[i] = x
      PROVE  \E i \in 1..Len(rest) : rest[i] = x
  <2>1. PICK i \in 1..Len(todo) : todo[i] = x
    BY <1>5
  <2>2. i - 1 \in 1..Len(rest) /\ rest[i - 1] = x
    <3>1. i # 1
      BY <1>1, <1>5, <2>1
    <3>2. i - 1 \in 1..Len(rest) /\ (i - 1) + 1 = i
      BY <1>1, <3>1
    <3>3. QED
      BY <1>1, <2>1, <3>2
  <2>3. QED
    BY <2>2
<1>6. /\ keep \subseteq DOMAIN lines
      /\ \A x \in DOMAIN lines \ keep : \E i \in 1..Len(todo) : todo[i] = <<"remove", x>>
      /\ \A x \in keep : lines[x] = r \/ \E i \in 1..Len(todo) : todo[i] = <<"qty", x>>
  BY DEF Planned
<1> HIDE DEF rest
<1>7. CASE call \in Removal(keep)
  <2>1. l \notin keep /\ call = <<"remove", l>> /\ call[1] = "remove"
    BY <1>7 DEF Removal
  <2>2. DOMAIN dropped = DOMAIN lines \ {l} /\ \A x \in keep : dropped[x] = lines[x]
    BY <1>6, <2>1
  <2> HIDE DEF dropped, l, call
  <2>3. \A x \in DOMAIN dropped \ keep : \E i \in 1..Len(rest) : rest[i] = <<"remove", x>>
    BY <1>5, <1>6, <2>1, <2>2
  <2>4. \A x \in keep : dropped[x] = r \/ \E i \in 1..Len(rest) : rest[i] = <<"qty", x>>
    <3> SUFFICES ASSUME NEW x \in keep, lines[x] # r
                 PROVE  \E i \in 1..Len(rest) : rest[i] = <<"qty", x>>
      BY <2>2
    <3>1. <<"qty", x>> # call
      BY <2>1
    <3>2. QED
      BY <1>5, <1>6, <3>1
  <2>5. Planned(r, rest, dropped, keep)
    BY <1>3, <1>4, <1>6, <2>1, <2>2, <2>3, <2>4 DEF Planned
  <2>6. QED
    BY <2>1, <2>5 DEF rest, dropped, l, call
<1>8. CASE call \in Resetting(keep)
  <2>1. l \in keep /\ call = <<"qty", l>> /\ call[1] = "qty"
    BY <1>8 DEF Resetting
  <2>2. DOMAIN set = DOMAIN lines /\ set[l] = r /\ \A x \in keep : x # l => set[x] = lines[x]
    BY <1>6, <2>1 DEF With
  <2> HIDE DEF set, l, call
  <2>3. \A x \in DOMAIN set \ keep : \E i \in 1..Len(rest) : rest[i] = <<"remove", x>>
    <3> SUFFICES ASSUME NEW x \in DOMAIN lines \ keep
                 PROVE  \E i \in 1..Len(rest) : rest[i] = <<"remove", x>>
      BY <2>2
    <3>1. <<"remove", x>> # call
      BY <2>1
    <3>2. QED
      BY <1>5, <1>6, <3>1
  <2>4. \A x \in keep : set[x] = r \/ \E i \in 1..Len(rest) : rest[i] = <<"qty", x>>
    BY <1>5, <1>6, <2>1, <2>2
  <2>5. Planned(r, rest, set, keep)
    BY <1>3, <1>4, <1>6, <2>2, <2>3, <2>4 DEF Planned
  <2>6. QED
    BY <2>1, <2>5 DEF rest, set, l, call
<1>9. QED
  BY <1>2, <1>7, <1>8

\* The last of them leaves what was asked for.
LEMMA PlannedEnd ==
  ASSUME NEW r, NEW todo \in Seq(Step), Len(todo) = 1, NEW lines, NEW keep,
         Planned(r, todo, lines, keep)
  PROVE  /\ Head(todo) = <<"add", r>>
         /\ With(lines, r, r) = Asked(r, keep)
<1>1. todo[1] = <<"add", r>> /\ Head(todo) = todo[1] /\ todo[1][1] = "add"
  BY DEF Planned
<1>2. \A i \in 1..Len(todo) : todo[i][1] = "add"
  BY <1>1
<1>3. DOMAIN lines \subseteq keep
  BY <1>2 DEF Planned
<1>4. \A l \in keep : lines[l] = r
  BY <1>2 DEF Planned
<1>5. keep \subseteq DOMAIN lines
  BY DEF Planned
<1>6. QED
  BY <1>1, <1>3, <1>4, <1>5 DEF With, Asked

\* An update that nobody disturbed has what it keeps before it and, once it has
\* read the cart, is left with the calls that make of it what was asked for.
UpdateInv ==
    \A r \in Request :
        req[r].route = "update" /\ Running(r) /\ r \notin stale =>
            \/ Op(r) = "get" /\ req[r].keep \subseteq DOMAIN CartOf(r).lines
            \/ Planned(r, req[r].todo, CartOf(r).lines, req[r].keep)

\* The next call of an update that has read the cart is an edit.
LEMMA PlannedOp ==
  ASSUME RequestInv, NEW r \in Request, Running(r),
         Planned(r, req[r].todo, CartOf(r).lines, req[r].keep)
  PROVE  Op(r) \in EditOps
<1> DEFINE todo == req[r].todo
<1>1. todo \in Seq(Step) /\ todo # <<>>
  BY DEF RequestInv, Job, Running
<1>2. Planned(r, todo, CartOf(r).lines, req[r].keep)
  OBVIOUS
<1> HIDE DEF todo
<1>3. CASE Len(todo) = 1
  <2>1. Head(todo) = <<"add", r>>
    BY <1>1, <1>2, <1>3, PlannedEnd
  <2>2. QED
    BY <2>1 DEF Op, EditOps, todo
<1>4. CASE Len(todo) > 1
  <2>1. Head(todo)[1] = "remove" \/ Head(todo)[1] = "qty"
    BY <1>1, <1>2, <1>4, PlannedStep
  <2>2. QED
    BY <2>1 DEF Op, EditOps, todo
<1>5. QED
  BY <1>1, <1>3, <1>4, LastOrNot

\* The calls of an update that has read the cart are edits, the last of which
\* is the only one that can end it well.
LEMMA PlannedWork ==
  ASSUME RequestInv, NEW r \in Request, Work(r), Running(r),
         \A a \in Answer \ {"ok"} : ~End(r, a),
         Planned(r, req[r].todo, CartOf(r).lines, req[r].keep)
  PROVE  LET lines == carts'[req[r].cart].lines
             todo  == req[r].todo
         IN  \/ /\ req'[r].todo = Tail(todo) /\ req'[r].todo # <<>>
                /\ Planned(r, Tail(todo), lines, req[r].keep)
             \/ Ended(r) /\ lines = Asked(r, req[r].keep)
<1> DEFINE todo == req[r].todo
           old == CartOf(r).lines
           keep == req[r].keep
<1>1. todo \in Seq(Step) /\ todo # <<>> /\ Len(todo) \in Nat /\ Len(todo) >= 1
  BY DEF RequestInv, Job, Running
<1>2. Planned(r, todo, old, keep) /\ Op(r) = Head(todo)[1] /\ Arg(r) = Head(todo)[2]
      /\ Rest(r) = Tail(todo)
  BY DEF Op, Arg, Rest
<1> HIDE DEF todo, old, keep
<1>a. \/ Len(todo) = 1 /\ Tail(todo) = <<>>
      \/ Len(todo) > 1 /\ Tail(todo) # <<>>
  BY <1>1, LastOrNot
<1>3. Len(todo) = 1 => Op(r) = "add" /\ Arg(r) = r /\ With(old, r, r) = Asked(r, keep)
  <2> SUFFICES ASSUME Len(todo) = 1
               PROVE  Op(r) = "add" /\ Arg(r) = r /\ With(old, r, r) = Asked(r, keep)
    OBVIOUS
  <2>1. Head(todo) = <<"add", r>> /\ With(old, r, r) = Asked(r, keep)
    <3>1. todo \in Seq(Step)
      BY <1>1
    <3>2. Planned(r, todo, old, keep)
      BY <1>2
    <3>3. QED
      BY <3>1, <3>2, PlannedEnd
  <2>2. QED
    BY <1>2, <2>1
<1>4. Len(todo) > 1 =>
        \/ /\ Op(r) = "remove"
           /\ Planned(r, Tail(todo), [x \in DOMAIN old \ {Arg(r)} |-> old[x]], keep)
        \/ Op(r) = "qty" /\ Planned(r, Tail(todo), With(old, Arg(r), r), keep)
  BY <1>1, <1>2, PlannedStep
<1>5. Op(r) \in EditOps
  BY <1>a, <1>3, <1>4 DEF EditOps
<1>6. /\ Store(r, NextVersion(CartOf(r), Edited(r, Op(r), Arg(r)), "open"))
      /\ Went(r, CartOf(r).version + 1, Rest(r))
  <2>1. EditCart(r) \/ EditFails(r) \/ HangUp(r) \/ NotMine(r)
    BY <1>5 DEF Work, Serve, CartCall, CheckoutCall, CreateCart, GetCart, FulfilCart,
       StartCheckout, CancelCart, RecordMandate, Claim, Settle, Sell, SettleFails, Decline,
       Queue, Record, BuyFails, At, Op, EditOps
  <2>2. EditCart(r)
    BY <2>1 DEF EditFails, HangUp, NotMine, Answer
  <2>3. QED
    BY <2>2 DEF EditCart, Answer, Op, Arg
<1>7. req[r].cart \in DOMAIN carts /\ CartOf(r).version + 1 \in Nat
  BY <1>5 DEF RequestInv, TypeOK, Op, CartOf, EditOps
<1>8. carts'[req[r].cart].lines = Edited(r, Op(r), Arg(r))
  BY <1>6, <1>7 DEF Store, NextVersion
<1>9. CASE Len(todo) > 1
  <2>1. Rest(r) # <<>> /\ Rest(r) = Tail(todo)
    BY <1>2, <1>9, <1>a
  <2>2. req'[r].todo = Tail(todo)
    BY <1>6, <1>7, <2>1, WentMoves
  <2>3. Planned(r, Tail(todo), carts'[req[r].cart].lines, keep)
    BY <1>4, <1>8, <1>9 DEF Edited, old
  <2>4. QED
    BY <2>1, <2>2, <2>3 DEF todo, keep
<1>10. CASE Len(todo) = 1
  <2>1. Rest(r) = <<>>
    BY <1>2, <1>10, <1>a
  <2>2. Ended(r)
    BY <1>6, <2>1, EndMoves DEF Went, Answer
  <2>3. carts'[req[r].cart].lines = Asked(r, keep)
    BY <1>3, <1>8, <1>10 DEF Edited, old
  <2>4. QED
    BY <2>2, <2>3 DEF todo, keep
<1>11. QED
  BY <1>a, <1>9, <1>10

\* It is so for as long as the requests run: whoever changes the cart in
\* between marks the update.
LEMMA UpdateInvHolds == GatewaySpec => []UpdateInv
<1>1. GatewayInit => UpdateInv
  BY DEF GatewayInit, UpdateInv, Idle
<1>2. RequestInv /\ UpdateInv /\ [GatewayNext]_gvars => UpdateInv'
  <2> SUFFICES ASSUME RequestInv, UpdateInv, [GatewayNext]_gvars, NEW q \in Request,
                      req'[q].route = "update", Running(q)', q \notin stale'
               PROVE  \/ Op(q)' = "get" /\ req'[q].keep \subseteq DOMAIN CartOf(q)'.lines
                      \/ Planned(q, req'[q].todo, CartOf(q)'.lines, req'[q].keep)
    BY DEF UpdateInv
  <2> DEFINE Goal == \/ Op(q)' = "get" /\ req'[q].keep \subseteq DOMAIN CartOf(q)'.lines
                     \/ Planned(q, req'[q].todo, CartOf(q)'.lines, req'[q].keep)
  <2>1. req'[q].todo # <<>>
    BY DEF Running
  <2>2. ASSUME req'[q] = req[q], stale \subseteq stale',
               Running(q) /\ req[q].cart \in DOMAIN carts =>
                   carts'[req[q].cart] = carts[req[q].cart] \/ q \in stale'
        PROVE  Goal
    <3>1. Running(q) /\ Op(q)' = Op(q)
      BY <2>1, <2>2 DEF Running, Op
    <3>2. \/ Op(q) = "get" /\ req[q].keep \subseteq DOMAIN CartOf(q).lines
          \/ Planned(q, req[q].todo, CartOf(q).lines, req[q].keep)
      BY <2>2, <3>1 DEF UpdateInv
    <3>3. Op(q) # "create"
      BY <3>1, <3>2, PlannedOp DEF EditOps
    <3>4. CartOf(q)' = CartOf(q)
      BY <2>2, <3>1, <3>3 DEF RequestInv, TypeOK, Op, CartOf
    <3>5. QED
      BY <2>2, <3>1, <3>2, <3>4
  <2> HIDE DEF Goal
  <2>3. ASSUME NEW r \in Request, Work(r) PROVE Goal
    <3>1. Running(r) /\ Moves(r)
      BY <2>3, WorkMoves
    <3>2. CASE q # r
      <4>1. req'[q] = req[q]
        BY <3>1, <3>2 DEF Moves, RequestInv
      <4>2. QED
        BY <2>2, <2>3, <3>2, <4>1, WorkMarks
    <3>3. CASE q = r
      <4>1. ~Ended(q)
        BY <2>1 DEF Ended, Idle
      <4>2. \A a \in Answer : ~End(q, a)
        BY <4>1, EndMoves
      <4>3. GoesOn(q) /\ Running(q) /\ Work(q)
        BY <2>3, <3>1, <3>3, <4>1 DEF Moves
      <4>4. req[q].route = "update" /\ req'[q].keep = req[q].keep /\ req'[q].cart = req[q].cart
        BY <4>3 DEF GoesOn
      <4>5. q \notin stale
        BY <2>3, <3>3, WorkMarks
      <4>6. CartOf(q)' = carts'[req[q].cart]
        BY <4>4 DEF CartOf
      <4>7. CASE Planned(q, req[q].todo, CartOf(q).lines, req[q].keep)
        <5>1. /\ req'[q].todo = Tail(req[q].todo)
              /\ Planned(q, Tail(req[q].todo), carts'[req[q].cart].lines, req[q].keep)
          BY <4>1, <4>2, <4>3, <4>7, PlannedWork
        <5>2. QED
          BY <4>4, <4>6, <5>1 DEF Goal
      <4>8. CASE Op(q) = "get" /\ req[q].keep \subseteq DOMAIN CartOf(q).lines
        <5>1. GetCart(q) \/ NotMine(q) \/ HangUp(q)
          BY <4>3, <4>8 DEF Work, Serve, CartCall, CheckoutCall, CreateCart, EditCart, EditOps,
             EditFails, FulfilCart, StartCheckout, CancelCart, RecordMandate, Claim, Settle, Sell,
             SettleFails, Decline, Queue, Record, BuyFails, At, Op
        <5>2. GetCart(q)
          BY <4>2, <5>1 DEF NotMine, HangUp, Answer
        <5> DEFINE new == UpdateCalls(q, DOMAIN CartOf(q).lines)
        <5>3. Went(q, CartOf(q).version, new) /\ carts' = carts
          BY <4>4, <5>2 DEF GetCart
        <5>4. req[q].cart \in DOMAIN carts
          BY <4>3, <4>8 DEF RequestInv, TypeOK, Op
        <5>5. CartOf(q).version \in Nat /\ DOMAIN CartOf(q).lines \subseteq Line /\ req[q] \in Job
          BY <5>4 DEF RequestInv, TypeOK, CartOf, Line
        <5>6. /\ new \in Seq(Step) /\ new # <<>>
              /\ \A i \in 1..Len(new) : new[i][1] \in EditOps
          BY <5>5, UpdateCallsType
        <5>7. Planned(q, new, CartOf(q).lines, req[q].keep)
          BY <4>8, <5>5, UpdateCallsPlanned
        <5> HIDE DEF new
        <5>8. req'[q].todo = new
          BY <4>3, <4>8, <5>3, <5>5, <5>6, WentMoves
        <5>9. CartOf(q)' = CartOf(q)
          BY <4>6, <5>3 DEF CartOf
        <5>10. QED
          BY <4>4, <5>7, <5>8, <5>9 DEF Goal
      <4>9. QED
        BY <4>3, <4>4, <4>5, <4>7, <4>8 DEF UpdateInv
    <3>4. QED
      BY <3>2, <3>3
  <2>4. ASSUME Operate, UNCHANGED <<requests, carts, ledger, stale, faults>> PROVE Goal
    BY <2>2, <2>4 DEF requests
  <2>5. ASSUME ExitUnderway PROVE Goal
    <3>1. req'[q] = Idle /\ Idle.todo = <<>>
      BY <2>5 DEF ExitUnderway, Idle
    <3>2. QED
      BY <2>1, <3>1
  <2>6. ASSUME NEW surface \in DOMAIN Routes, NEW route \in Routes[surface], Arrive(surface, route)
        PROVE  Goal
    <3>1. PICK r \in Request :
            /\ req' = [req EXCEPT ![r] = req'[r]] /\ Opening(req'[r].todo, route)
            /\ req'[r].route = route /\ stale \subseteq stale'
            /\ route = "update" => req'[r].keep \subseteq DOMAIN carts[req'[r].cart].lines
      BY <2>6, ArriveFacts
    <3>2. carts' = carts
      BY <2>6 DEF Arrive
    <3>3. CASE q # r
      <4>1. req'[q] = req[q]
        BY <3>1, <3>3 DEF RequestInv
      <4>2. QED
        BY <2>2, <3>1, <3>2, <4>1
    <3>4. CASE q = r
      BY <3>1, <3>2, <3>4 DEF Goal, Opening, Op, CartOf
    <3>5. QED
      BY <3>3, <3>4
  <2>7. ASSUME NEW surface, NEW route, NEW flaw, Turned(surface, route, flaw) PROVE Goal
    BY <2>2, <2>7 DEF Turned
  <2>8. ASSUME NEW capability \in Capability, Ask(capability) PROVE Goal
    BY <2>2, <2>8 DEF Ask
  <2>9. ASSUME UNCHANGED gvars PROVE Goal
    <3>1. UNCHANGED <<req, carts, stale>>
      BY <2>9 DEF gvars, requests
    <3>2. QED
      BY <2>2, <3>1
  <2>10. QED
    BY <2>3, <2>4, <2>5, <2>6, <2>7, <2>8, <2>9 DEF GatewayNext, Goal
<1>3. QED
  BY <1>1, <1>2, RequestInvHolds, PTL DEF GatewaySpec

\* An update that nobody disturbed leaves exactly the lines it asked for, with
\* the quantities it gave, whatever the cart had.
THEOREM UpdatesAreExact == GatewaySpec => UpdateIsExact
<1>1. RequestInv /\ UpdateInv /\ [GatewayNext]_gvars =>
        [\A r \in Request :
           req[r].route = "update" /\ Ends(r, "ok") /\ r \notin stale
               => carts'[req[r].cart].lines = [l \in req[r].keep \cup {r} |-> r]]_gvars
  <2> SUFFICES ASSUME RequestInv, UpdateInv, GatewayNext, NEW r \in Request,
                      req[r].route = "update", answer[r] = "none", answer'[r] = "ok", r \notin stale
               PROVE  carts'[req[r].cart].lines = Asked(r, req[r].keep)
    BY DEF Ends, Asked
  <2>1. ASSUME NEW q \in Request, Work(q)
        PROVE  carts'[req[r].cart].lines = Asked(r, req[r].keep)
    <3>1. q = r /\ Running(r) /\ Moves(r)
      BY <2>1, WorkMoves DEF Moves, RequestInv, TypeOK
    <3>2. \A a \in Answer \ {"ok"} : ~End(r, a)
      BY EndMoves
    <3>3. CASE Planned(r, req[r].todo, CartOf(r).lines, req[r].keep)
      <4>1. Ended(r)
        BY <3>1 DEF Moves, GoesOn
      <4>2. QED
        BY <2>1, <3>1, <3>2, <3>3, <4>1, PlannedWork DEF Ended, Idle, Running
    <3>4. CASE Op(r) = "get"
      <4>1. GetCart(r) \/ NotMine(r) \/ HangUp(r)
        BY <2>1, <3>1, <3>4 DEF Work, Serve, CartCall, CheckoutCall, CreateCart, EditCart,
           EditOps,
           EditFails, FulfilCart, StartCheckout, CancelCart, RecordMandate, Claim, Settle, Sell,
           SettleFails, Decline, Queue, Record, BuyFails, At, Op
      <4>2. GetCart(r)
        BY <3>2, <4>1 DEF NotMine, HangUp, Answer
      <4>3. req[r].cart \in DOMAIN carts /\ req[r] \in Job
        BY <3>1, <3>4 DEF RequestInv, TypeOK, Op
      <4>4. DOMAIN CartOf(r).lines \subseteq Line
        BY <4>3 DEF RequestInv, TypeOK, CartOf, Line
      <4>5. UpdateCalls(r, DOMAIN CartOf(r).lines) # <<>>
        BY <4>3, <4>4, UpdateCallsType
      <4>6. answer' = answer
        BY <4>2, <4>5 DEF GetCart, Went
      <4>7. QED
        BY <4>6
    <3>5. QED
      BY <3>1, <3>3, <3>4 DEF UpdateInv
  <2>2. ~ExitUnderway
    BY DEF ExitUnderway, RequestInv, TypeOK
  <2>3. ASSUME NEW surface, NEW route, NEW flaw, Turned(surface, route, flaw) PROVE FALSE
    BY <2>3 DEF Turned, RequestInv, TypeOK
  <2>4. ASSUME NEW capability, Ask(capability) PROVE FALSE
    <3>1. r = arrived + 1
      BY <2>4 DEF Ask, RequestInv, TypeOK
    <3>2. req[r].route = "none"
      BY <3>1 DEF RequestInv, Idle, Request
    <3>3. QED
      BY <3>2
  <2>5. answer' # answer
    OBVIOUS
  <2>6. QED
    BY <2>1, <2>2, <2>3, <2>4, <2>5 DEF GatewayNext, Arrive, requests
<1>2. QED
  BY <1>1, RequestInvHolds, UpdateInvHolds, PTL DEF GatewaySpec, UpdateIsExact
=============================================================================
