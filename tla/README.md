# Verification of the commerce orchestrator

TLA+ models of the orchestrator, from its stores to its protocol surfaces, the TLC runs that check them on small
instances, and TLAPS proofs of what matters most for instances of every size.
Paths below are relative to `src/`; `runtime`, `core`, `api`, `http` and
`adapters` stand for `crates/orchestrator-runtime/src`,
`crates/orchestrator-core/src`, `crates/orchestrator-api/src`,
`crates/orchestrator-http/src` and `crates/integration-adapters/src`, and `mcp`
for `crates/orchestrator-mcp/src`.

`PROJECT.json` lists the components, runs, mutants, findings, hazards and
theorems, and maps every definition that models code to its lines.

## 1. Inventory

| Component | State it keeps | Operations | Hard behaviour |
|---|---|---|---|
| Checkout (`runtime/runner.rs execute_checkout`) | none of its own; a handler's locals between awaits | claim, settle, reserve, policy, authorize, commit, capture, order, receipt, finalize, enqueue, complete, payment state | calls with one key in parallel, retries, errors half way, dropped handlers |
| Idempotency stores (`runtime/idempotency.rs`, `persistence/*`) | one row per (tenant, merchant, key): InFlight or Completed | claim, complete, release | two callers at once; release racing complete |
| Cart (`dispatch_cart_command`, `core/state_machine.rs`) | a snapshot, a state-machine row and an event stream per cart | create, add, update, remove, adjust, select fulfillment, get, start checkout, cancel | read-modify-write over many awaits, two rows that are written apart |
| Stores (`runtime/store_traits.rs`, `inventory.rs`, `effects.rs`, `persistence/*`) | snapshots, cart events, commits, reservations, inbox, dead-letter, orders, payment states, mandates, registrations; each in memory, in a JSON file or in a table | put, append, remove, accept once, record mandate, update all, sweep | a crash between truncation and write; rows read by one statement and written back by another |
| Outbox, processor, dead-letter (`runtime/outbox_processor.rs`, `runner.rs`, stores) | queue of messages with attempt counts and leases; dead-letter | enqueue, claim, ack, release, put, take, replay, drain | leases that run out, crashes, two workers, an operator's replay |
| Webhooks (`runtime/webhooks.rs`) | registrations per tenant | register, unregister, list, deliver | several subscribers, one of which fails or never answers; registrations that change between attempts; workers that die or outlast their lease |
| Provider client (`adapters/client.rs`, `circuit.rs`, `auth.rs`) | a breaker per provider, an OAuth token cache | acquire, on_success, on_failure, the retry loop, token refresh | late answers, dropped probes, retries of requests already carried out |
| Payment lifecycle, reconciliation (`runner.rs`) | the payment state per transaction | capture, void, refund, reconcile | racing each other and the checkout's own write; lost answers; a pass beside them |
| Facade, authorization, AP2 (`api/facade.rs`, `authz.rs`, `ap2_verification.rs`) | the mandate replay store | every public call | the mandate is recorded before the key is claimed |
| Protocol surfaces (`http/routes`, `api/*_mapping.rs`, `mcp`) | none | REST, UCP, ACP, A2A and MCP requests | handlers that make several facade calls in a row, with nothing held in between; bodies that name a cart twice |
| Configuration and process (`http/config.rs`, `main.rs`, `lib.rs`) | settings, the built application, readiness | load, validate, build, bind, signal, drain, exit | two layers of settings, a processor that runs before the port is bound, requests during the drain, messages another replica has leased |
| Signing, observability, mocks | keys, counters | | none that a model would reach |

How they interact: the HTTP and MCP surfaces call the facade, which authorizes
the caller and calls the `Runner`. The runner holds every store behind a trait
object and calls the providers through the client. No lock is held across an
await, so handlers of one replica interleave exactly like handlers of several
replicas, and the stores are the only shared state. The outbox processor of
each replica polls the outbox a checkout filled and posts webhooks; operators
replay from dead-letter through `/ops`.

What makes each part correct:

* checkout: a key is executed once, every caller of it gets the same answer, an
  answer is backed by what the stores and the provider hold, claims and stock do
  not hang;
* cart: the version a caller names stands for contents it was shown; edits stay;
  totals and geo verdict belong to the lines and the destination beside them;
  a cancelled cart stays closed; edits are not refused for ever;
* outbox: no event is lost, dead-lettered early or delivered twice; each is
  handled in the end;
* stores: what was answered is there after a restart, a once-only call says yes
  once, no update undoes another, no call waits for ever;
* webhooks: only subscribers are told, all of them are, repeats are earned, one
  bad endpoint does not starve the others;
* payments: what is recorded happened, records and provider part company only
  after a race or a loss, and reconciliation reports what it can see;
* surfaces and process: production starts only complete, a tenant touches only
  its own carts, a request does what it says or is refused for a reason, a key
  and a mandate sell once, the shutdown drains and ends;
* provider client: a request that is not idempotent is carried out at most once;
  the breaker opens on consecutive failures only, and never locks the provider
  out for good.

## 2. Modules

| Module | Models | Composed with |
|---|---|---|
| `IdempotentExecution` | the promise of the idempotency key, abstractly | refined by `Checkout` |
| `Checkout` | `execute_checkout`, the idempotency stores, and the rows it writes in the others | |
| `Cart` | `dispatch_cart_command`, `transition_cart`, `settle_cart_for_checkout` on one cart | |
| `Outbox` | outbox and dead-letter stores, `process_outbox_once_reporting`, `replay_from_dead_letter` | |
| `ProviderClient` | `execute_with_retry` over `CircuitBreaker` | |
| `Stores` | every store behind the runner, in its three implementations | |
| `Webhooks` | registrations, and the fan-out that is one step in `Outbox` | |
| `Payments` | capture, void, refund, the checkout's own record, `run_reconciliation` | |
| `Deployment` | configuration, start-up, the processor's drain and the exit | extended by `Gateway` |
| `Gateway` | the routes and tools of the five surfaces, as scripts of facade calls | over `Deployment` |
| `MCCheckout`, `MCCart`, ..., `MCGateway` | the instances for TLC | |
| `CheckoutProofs`, `CartProofs`, `OutboxProofs`, `ProviderClientProofs`, `StoresProofs`, `WebhooksProofs`, `PaymentsProofs`, `GatewayProofs` | the proofs, each over the module it is named after (`GatewayProofs` over `Deployment` too) | |

A definition named `X_Something` beside `X` is a plausible bug in the code
that `X` models; `PROJECT.json` says which property it must break.

### Checkout

`pc[r]` is the await at which call `r` of `execute_checkout` is; each await is
one step. `idem`/`stored` are the idempotency rows, `version` the cart's
snapshot (only its version matters here), `reservation`, `commits`, `orders`,
`outbox`, `payState` the rows of the other stores, `authorized`/`captured` the
payment provider's own books. Ids are fresh UUIDs, so a row is named by the call
that minted it. `backend`, one of `Backends`, is the idempotency store: `claim` of
the memory and file stores is exclusive, `claim` of the Postgres store answers
"yours" for any row that reads back InFlight. `ProviderError` is an `Err` from
authorize, capture or the receipt provider, after which a request that timed out
may have had its effect all the same. `Cancel` is a handler dropped at any await,
a replica that died, or a store call that failed; the rows stay as they are (what
a crash does to a file is in `Stores`). Init chooses whether a behaviour is `calm`:
errors and drops happen only in those that are not, and the two liveness
properties speak of the calm ones. `Faulty` bounds for which backends the others
are considered. `MutateCart` stands for a cart
command that finished in between. The records of a cart in the reservation
store are taken together, and carts have at least one line.

### Cart

One cart. A command reads the snapshot into `copy[c]`, works on it across its
provider calls, and writes it back whole; `state` is the state machine's row,
which `transition_cart` reads (`GetState`) and writes (`SetState`) in two
awaits. A projection is abstracted to the edits it includes, the edits its
totals account for, its destination, the destination its geo verdict is about,
its version and its status. `given` holds every projection handed to a caller: a
caller that starts a checkout names the version of one of them. The event stream
is left out, because nothing reads it back. `Concurrent` says whether commands
overlap, `MayFail` whether they may be cut short.

### Outbox

`queue`, `attempts` and `leased` are the outbox rows, `dead` the dead-letter
store. `store` is the Postgres store (claim stamps the row, ack
deletes it, release ends the lease and stores the count) or one that pops
(claim removes, ack does nothing, release appends: the file and in-process
stores). A worker is one pass of
`process_outbox_once_reporting`, by an `OutboxProcessor` or by
`POST /ops/outbox/process`; it carries its own copy of the attempt count
(`tries`). Initially it is chosen whether deliveries are `slow`: only then may a
lease run out while its message is being delivered. Workers die and operators
replay, `MaxFaults` times together. `GivenUp` says when the code does not keep
a message: a store that pops has lost what a dead worker held, and a replay
removes the message from dead-letter before it puts it back in the outbox.
Delivery to the subscribers is one step that succeeds or fails.

### ProviderClient

`state`, `fails` and `elapsed` are the breaker; each call of `acquire`,
`on_success` and `on_failure` is atomic because of its mutex. A task runs the
retry loop; answers arrive as late as they like. `MayApply` is the provider: it
may or may not have carried out a request, whatever became of the answer. A
connection that was refused is told apart from every other transport failure,
because `allows_transport_retry` does so.

### Stores

One store per behaviour: Init chooses the implementation and, for each call, one
of the operations that store offers (`EventStore` ... `WebhookStore`) and the
row it names. A row is the set of calls whose effect it holds. The in-process
stores change their map under a mutex and are done (`Apply`); the file stores
change it under the write lock, drop the lock, and save the whole map under the
read lock in three steps (`SaveCreate` truncates, `SaveWrite`, `SaveSync`), so
that several saves overlap; each SQL statement of the Postgres stores is a step.
`Fail` is an error or a dropped call at any step. The blocking file operation of a
call that was dropped runs on after its lock is gone: it is `adrift`, and
`Straggle` is its later arrival in the file, over and beside the saves of others
(`overrun` since the file was last created). `Crash` is a restart that reloads what
the file holds.

### Webhooks

`active` are the registrations in the store, `reg` what each asked for. A worker
claims a message with a lease and its own copy of the count (`tries`), reads the
registrations once (`ReadRegistrations`), posts to each in any order and whatever
became of the others (`PostOk`, `PostFails`), and settles: consumed if none failed,
otherwise offered again or dead-lettered (`Retry`). The client has no time-out, so a
request may never end (`PostHangs`), and its worker with it; a worker may `Die` at
any await; a lease may run out while its delivery goes on (`LeaseExpires`). The
last three offer the message again with the count it had. `since` records who
subscribed from the enqueueing on, `Healthy` whose endpoints always answer.

### Payments

`prov` is the provider's state of a transaction (its own rules are external),
`ours` the payment-state store's. An operation first calls the provider and
records in a later await; a checkout does the same after it has completed its
key. An answer or a handler may be lost after the provider acted, and a put that
fails is hidden. `dirty` collects the transactions where one of these happened or
where two callers were between the two awaits at once. `run_reconciliation`
reads, per transaction, our record and then the provider.

### Deployment

`file` and `env` are the two layers; `Override` is what `apply_env_overrides`
does with an unset, an empty and a set variable. `config` is the result,
`RequireProduction` the validation (of every provider's credentials, shared and
own: `Credentials`), `app` what `main` built. `processor` is the
outbox processor's task, `phase` how far `main` has come. Other workers, of other
replicas or requests to `/ops/outbox/process`, take messages and hand them back
(`LeasedElsewhere`, `LeaseEnds`); a drain ends when there is nothing left that it
can claim, so what they hold at that moment stays (`left`). Between the signal and
the exit requests are still served; what they queue after the drain is `late`.

### Gateway

A request is a script of facade calls (`Script`, `UpdateCalls`); each call is one
step, so requests interleave call by call. A cart has an owner, a version, a
state and its lines, each line marked with the request that last set it. A request
acts on `cart` and names `named` in the envelope of its command: REST and A2A
bodies carry both ids (`Names`), and `Mine`, the facade's tenant check, looks at the
second. The checkout is `RecordMandate`, `Claim`, `Settle` (which writes the cart
back), `Sell` (the charge), `Queue` (order, receipt, event) and `Record`; between any
two of them an error (`BuyFails`) or a dropped handler (`HangUp`) leaves the key
claimed and what was done in place. The finer steps are left to `Checkout`.
`Turned` is a request refused before any call, for one flaw of those its
surface looks at; `Ask` is a request for an optional capability. `stale` records
the requests that named a version that had passed or whose cart changed under
them.

## 3. Runs

Runs that pass:

| Run | Shows |
|---|---|
| `Checkout` | two calls of one key and a third with another key on the same cart. Over exclusive claims, with provider errors, dropped handlers and a cart change anywhere: one execution per key, answers backed, stock of a paid order sold, and the refinement of `IdempotentExecution`, which says that all callers of a key get one answer and that outcomes are final. Over the shared claims of Postgres as well: a recorded key stays recorded and answers are backed. Where nothing fails: every claim and every reservation is settled |
| `CartSequential` | six commands one after another, each of which may fail at any await: versions name contents, edits stay, a cancelled cart takes no edits |
| `CartRaces` | two edits, a start and a checkout interleaved at every await: only whole carts are stored, returned or sold, and the cart comes out of the states that refuse edits |
| `Outbox` | two messages and two workers over both kinds of store, deliveries that end in time or outlast their lease, and a crash or a replay anywhere: nothing is lost unless `GivenUp`, nothing is dead-lettered early or, in time, delivered twice; every message is handled and stale copies do not circulate for ever |
| `ProviderCalls` | three tasks over one breaker, late answers, dropped tasks: opening is earned, failures are counted, nothing is applied twice, the breaker lets a call through again in the end |
| `Stores` | three calls to one store of each kind and implementation with an error or a dropped call, whose write may arrive late, and a crash: the file is the map once saves are over, an answered call is found after a restart that finds the last save, inbox and mandate say yes once, an update is undone only in Postgres and only if it came between another call's SELECT and UPDATE or such an UPDATE had already replaced it, and the locks let every call end |
| `Webhooks` | two registrations of two tenants that come and go while two workers deliver a message, endpoints and the store failing, requests that never end, workers that die or outlast their lease: only subscribers are told, nobody who stayed is skipped, an endpoint sees a message again only once per failed delivery or expired lease, and one that answers is served unless every worker hangs |
| `Payments` | two transactions, their checkouts, two operations and a pass: a record is something the provider did, it differs from the provider's state only after a race or a loss, and a pass that nothing disturbed reports exactly the differences it can see |
| `Gateway` | the process from its configuration to its exit with up to three requests: production is guarded, a request that names one cart gets at its own tenant's only, an undisturbed update leaves exactly the lines it asked for, conflicts are somebody else's doing, a mandate sells once, a key sells again only over Postgres and there only to requests that held it together or after a sale whose outcome was not recorded, the drain leaves only what others hold and what came after it unless it is given up, and a signalled process exits |

The types (`TypeOK`) of all modules are proved: those of `Checkout`, `Cart` and
`ProviderClient` as theorems, those of the others as a part of an inductive
invariant.

Runs that show a disagreement between the code and what the repository says of
it (the quotations are in `PROJECT.json`, "findings"):

| Run | Counterexample |
|---|---|
| `CheckoutDoubleRun` | Postgres: two calls of one key both claim it, charge and order |
| `CartTenancy` | a command whose envelope names the caller's own cart, or one that does not exist, and whose payload names another tenant's cart reads, starts or cancels the latter: the facade checks the first and the runner acts on the second |
| `AcpComplete` | an ACP completion of an undisturbed session ends in a version conflict: `start_checkout` has raised the version that `execute_checkout` is then given |

The models also contain behaviour a reader of the code should know of, which the
properties name as exceptions or do not claim:

* an error of the payment or receipt provider after settlement leaves the key
  InFlight for ever (`ProviderError` in `Checkout`); a retry is refused by the
  memory and file stores, while over Postgres it claims the key again and sells a
  second time (`BuyFails` and `OneSalePerKey` in `Gateway`);
* a checkout's settlement writes its old snapshot over a later cart version
  (`SettleWrite`); two racing commands store different contents under one
  version, and a checkout that names it sells contents its caller never saw
  (`PutSnapshot`; hence `StaleVersionIsRefused` in `CartSequential` only);
* `start_checkout` on a cancelled cart is refused only after it has stored the
  cart as checkout_ready (`PutSnapshot` before `InvalidTransition`);
* a delivery that outlasts its 60 s lease is made again (`slow` in
  `DeliveredOnce`); a replay between `dead_letter.put` and `outbox.ack` is
  deleted by the ack, and with the stores that pop a process that dies while
  delivering has lost the event (`GivenUp`);
* an endpoint that never answers holds its worker for good, and those behind it in
  the loop wait for the lease to run out and for another worker
  (`PostHangs`; the exception in `HealthyIsServed`);
* `docs/runbooks/retries-and-outbox.md:58` and the comment at `main.rs:288` say that
  new work stops on the signal; requests are answered until the exit, and what they
  queue after the drain stays in the outbox (`late` in `DrainedAtExit`), as do the
  messages another worker holds when the drain finds nothing to claim (`left`);
* a crash between the truncation of a file and its write opens as an empty store
  (`forgot` in `Stores`), and so may a file that a dropped call wrote over
  (`overrun`); an update between another call's SELECT and UPDATE is
  undone (`late` in `NoLostUpdate`), and a call that was replaced in this way can
  in turn be brought back and lost by an UPDATE that read before (`replaced`);
* a payment whose record was lost altogether is in no reconciliation report
  (`ReportIsExact` speaks of transactions of which both sides have a state);
* a mandate whose checkout failed afterwards is spent (`RecordMandate`);
* a late success closes an open circuit inside its window (`OnSuccess`).

### Bounds

* Checkout: three calls, two keys, one cart, two versions. Two calls of one key
  are what exclusivity is about; the third meets both on the cart. Errors and cart
  changes are considered over the exclusive store only (`Faulty`) in the passing
  run, and over Postgres in `CheckoutDoubleRun`. The proofs cover every number and
  every backend with errors.
* Cart: two edits and one command of each other kind. Two edits are needed for a
  lost one and for two contents under one version. `CartRaces` leaves out the
  cancellation and the fulfillment selection; `CartIsWhole` is proved for all
  kinds. Version numbers are bounded by the number of commands.
* Outbox: two messages, two workers, `max_attempts` 1, one crash or replay. Two
  workers are what a lease arbitrates between; a second message shows that the
  queue's order and skipped rows matter; one retry separates early from earned.
* Provider client: three tasks, threshold 2, two retries. A late answer, a probe
  and a third caller are all that a window can meet; the proofs cover every number
  of tasks, threshold and retry budget.
* Stores: three calls, two rows, one error or dropped call and one crash. Two writers and a third that reads
  between them are all the interleavings of one row; the second row is for the
  calls that write a whole cart's.
* Webhooks: one message, two workers, two registration ids of which one is healthy,
  two tenants, one topic (a registration has it in its filter or not),
  `max_attempts` 1, one store error and two faults of any kind: enough for both
  workers to hang, or for one to die while the other outlasts its lease. Messages
  do not share anything, so one is enough.
* Payments: two transactions, two operations, one fault, one pass. Two operations
  and the checkout of one transaction race; the second transaction is what a pass
  goes on to. Symmetry over both sets.
* Gateway: configurations that are one setting (or one signing key) away from a
  complete or an empty one (`Deviations`), at most three requests, one failing call
  or hang-up, one flaw per refused request. `Pruned` leaves out combinations of
  features that have nothing to do with each other: the first request creates the
  cart if one is created, and is the one that is refused or asks for a capability;
  a client names the current version or the one before, and two carts only where
  there are two tenants; other workers are met in the drain; strict servers are not
  stopped and do not use JWT; a deployment without an optional part gets one
  request. The proofs do without either: with `Deviations = {Setting}` and
  `Pruned = FALSE` they speak of every two layers of settings and all traffic.
  Three requests give an update two
  others that get between its calls; every setting is met unset, empty, good and
  bad in both layers. `AcpComplete` needs one tenant, `CartTenancy` two; both need two
  requests and no fault.

Deadlock is checked for `Cart` and `ProviderClient`, whose readers and callers
can always go on. It is not for the others: their calls, messages and requests are
finite, and once all are done the system rightly stops. Symmetry is used in
safety runs only, over commands of one kind, transactions and operations that
the models treat alike.

### Fairness

* `Checkout`, `Cart`: the runtime polls a handler whose await has completed
  (weak fairness of each call's steps). No fairness for the arrival of calls, for
  errors or for cart changes.
* `Outbox`: every replica's processor polls for as long as it is up, a replay
  that was started goes on, and leases run out (weak fairness of each). That a
  delivery ends is part of this; the webhook client has no time-out, so an
  endpoint that hangs for ever is outside `EventuallyHandled` and `OutboxDrains`.
* `Stores`: the runtime polls every call that can go on (weak fairness of each
  call's steps); errors, crashes and the expiry of mandates are not forced.
* `Webhooks`: each worker that is not stuck in a request keeps claiming and posting
  (weak fairness of `Deliver` per worker), and a lease runs out by the clock once no
  delivery that will end is under way (weak fairness of that part of `LeaseExpires`).
  Nothing makes a request end or a hung worker die; registrations, new messages and
  store errors are not forced.
* `Gateway`: `main`'s timers run out (weak fairness of `Leave`). Nothing is
  assumed of requests, of the outbox processor, of clients or of the operator.
* `ProviderClient`: the client has a time-out and its back-off sleeps end (weak
  fairness of each task inside a call), and time passes. Nothing makes a task
  call again.

## 4. Proofs

TLAPS checks the theorems below for every number of calls, keys, carts, commands,
tasks, messages, workers, registrations, transactions, tenants, requests and
faults. They cover every property of the passing runs that is not liveness.

The assumptions are the named `ASSUME`s of the modules, which TLC evaluates on
each run. They say that parameters have their types and that a "none" value is
not a member of the set it stands beside (`CheckoutAssumption`, `CartAssumption`,
`ClientAssumption`, `OutboxAssumption`, `WebhooksAssumption`), and besides:
`PaymentsAssumption`, that transactions and operations have different names;
`StoresAssumption`, that the contents of a half-written file are no map;
`DeploymentAssumption` and `GatewayAssumption`, that deviations are sets of
settings and that there is at least one request and the home tenant.

| Theorem | States | For |
|---|---|---|
| `TypeCorrect` | types of `Checkout` | every backend |
| `ClaimsAreExclusive` | the ownership invariant | not Postgres |
| `ExecutesOnce`, `AnswersAgree`, `OutcomesAreFinal` | one execution, one answer, final outcomes | not Postgres |
| `CheckoutRefines` | `Checkout` implements `IdempotentExecution` | not Postgres |
| `SoldStockStaysSold` | `SoldStaysSold` | not Postgres |
| `AnswersAreBacked`, `RecordedKeysAreKept` | recorded and returned results are backed; a recorded key stays recorded | every backend |
| `CartTypeCorrect`, `CartStaysWhole` | types of `Cart`; only whole carts are stored, given or sold | all races |
| `StaleVersionsAreRefused`, `EditsAreKept`, `CancelledStaysClosed` | `StaleVersionIsRefused`, `EditIsKept`, `CancelledIsClosed` | commands that take turns |
| `ClientTypeCorrect` | types of `ProviderClient`, at most 1 + `max_retries` attempts | |
| `OpeningIsEarned`, `FailuresCounted` | the breaker's state and count agree with the reported answers | |
| `AppliedAtMostOnce` | no request that is not idempotent is carried out twice | |
| `DeliveredAtMostOnce`, `DeadLettersAreEarned`, `NoEventIsLost` | `DeliveredOnce`, `DeadLetterIsEarned`, `NothingLost` | both kinds of store |
| `FileStaysCurrent`, `UpdatesAreKept`, `AnsweredStaysStored`, `AcceptedAtMostOnce` | `FileIsCurrent`, `NoLostUpdate`, `AnsweredIsStored`, `AcceptedOnce` | all stores in all implementations |
| `EveryPostIsEarned`, `NobodyIsSkipped` | `PostsAreEarned`, `NobodySkipped` | |
| `RecordsWereTrue`, `AgreeUnlessRaced`, `ReportsAreExact` | `RecordWasTrue`, `AgreesUnlessRaced`, `ReportIsExact` | |
| `ProductionStaysGuarded`, `DrainedWhenExited` | `ProductionIsGuarded`, `DrainedAtExit` | every configuration |
| `NothingIsSoldTwice` | `SoldOnce` | every configuration |
| `OnlyForItsOwner`, `UpdatesAreExact`, `ConflictsAreEarned` | the action properties `OwnersOnly`, `UpdateIsExact`, `ConflictIsEarned` | every configuration |

The arguments, by module. TLC checked each inductive invariant on the module's
instance before it was proved.

*Checkout.*

* One execution. `OneExecutionPerKey` is not inductive: it does not say why a
  second call cannot begin. `ExclusiveClaims` adds that whoever is between claim
  and completion holds the row InFlight and alone (`OneOwner`), that a key of
  which a call has gone past settlement never has an absent row again
  (`BegunOnce`: `release` is reached from settlement only), and that rows and
  replies hold the result of that call (`RecordedOnce`). The hypothesis on
  `backend` is needed: `CheckoutDoubleRun` is the counterexample without it.
* Refinement. Going past settlement is `Begin`, completing the row is
  `Record`, a replay and the executor's own return are `Answer`; `QuietSteps`
  says that every other step leaves the mapped variables alone.
* Backed answers. `BackedInv` says, for each await, what the call has done so
  far (`SoFar`) and that a result that was recorded or returned is settled and
  is not touched again. It needs no exclusivity, so it holds over Postgres too.
* Stock. `StockInv`: from `finalize_cart` on the reservation of an order's cart is
  finalized, or a call of another key worked on the same cart.
  A call of the same key cannot, which is `ExclusiveClaims` again.

*Cart.*

* Whole carts. `WholeInv` says for each await how much of the working copy is
  already worked out (`Progress`); the snapshot is only ever replaced by a copy at
  `put`, which is whole.
* Turns. The other three properties fail when commands race, as section 3 says, and
  are proved for `Concurrent = FALSE`, with commands that may still be cut short at
  any await. `TurnInv` says that at most one command is active, where it can be
  given its kind and the state machine's row (`Place`), that its copy is the
  snapshot, or the snapshot with its own edit and the next version (`Draft`), that
  a projection ever handed out has no edit the snapshot lacks and, if it has the
  snapshot's version, the snapshot's contents (`Known`), and that a checkout past
  the version check has the contents its caller saw (`Shown`).
  `MovesAreValid` is `next_cart_state` read backwards: nothing leads out of
  Cancelled.

*ProviderClient.*

* The breaker. Opening is earned because a closed circuit has counted right,
  and it has counted right because an open one was earned: the two are inductive
  only together (`BreakerInv`).
* Applied once. A task that is not idempotent and still in its loop has had
  nothing carried out, since every outcome that may have applied leaves the loop.

*Outbox.*

* `OwnInv`: ids are in the queue at most once, each worker's state has the shape its
  step requires, and while deliveries end within their lease and nobody dies a
  message has one holder (`Exclusive`): the queue unleased, one worker, dead-letter
  or nobody.
* `AttemptInv`: every count, in a row or in a worker's hands, is at most the number
  of deliveries that failed since the last replay (`Counted`); a message goes to
  dead-letter when such a count exceeds the budget.
* `LossInv`: as long as nothing was replayed, a worker that is about to ack, which is
  what deletes a leased row, has delivered or dead-lettered the message
  (`Accounted`).

*Stores.*

* `FileInv`: what a call is about to write is the whole map as it is now, since it
  holds the read lock while it writes; so the file is the map once nobody has still
  to truncate or write, whichever of several overlapping saves came last, unless a
  save was broken off since (an error, a dropped call, or a write of one that
  arrived late).
* `UpdateInv`: between its SELECT and its UPDATE a call knows all that the row holds
  except what came late or was replaced (`Selected`), so its UPDATE takes away
  nothing else. The first attempt at this proof failed for
  a reason: with four calls an UPDATE can also bring back and lose what was
  replaced before, which three calls do not show. `NoLostUpdate` now says so.
* `StoredInv`: until a call replaces it, a call's effect is in the map from the
  change on, and from its own write on in the file, unless that is torn or a dropped
  call's write went over it (`overrun`).
* `OnceInv`: neither the map, nor the file, nor what a dropped call may still leave
  there has two calls that were told yes for one id, and a yes is taken back by
  expiry only.

*Webhooks.*

* `ToSubscribers`: a delivery posts only to subscribers of its message.
* `Budgeted`: the posts a registration got, plus the workers that may still post to
  it, plus one if the message can be claimed, are at most one more than failures and
  expired leases. A count of workers is needed because after an expiry several
  deliver one message at once; a worker that dies or hangs only lowers it.
* `SkipInv`: who subscribed from the enqueueing on is still registered, and in a
  delivery that has not failed has accepted or is still to be posted to (`Awaited`),
  whichever of several deliveries consumes the message.

*Payments.* `TrueInv`: what a caller carries from the provider to the record, the
provider did (`Promised`). `OrderInv`: the caller whom the provider obeyed last carries
the provider's state, and unless there was a race or a loss nobody else has still to
record (`Fresh`, `LastIsRight`, `CleanIsLast`). `PassInv`: as long as nothing disturbed the pass, what
it read of a transaction is still so, and its report covers what it has gone through.

*Deployment and Gateway.*

* `GuardInv`: file, environment and configuration are layers, and the processor runs
  only after `Build`. `ProductionAppIsGuarded` is `require_production` read through
  `Override`: what it accepts has no mock, no empty token and no missing key.
* `DrainInv`: a drain that came to its end left nothing but what other workers had
  taken, what was queued since is late, and `main` goes on before the end only by
  giving up.
* `RequestInv`: what is left of a script is in the code's order (`Ordered`), a script
  that claims has a key (`Keyed`), a running request's cart exists or is yet to be
  made by it, and requests that have not arrived are idle.
* `MandateInv`: a request past `mandate` has recorded its own mandate, and nobody else
  with that mandate got so far or sold.
* `KeyInv`: a sale is about to be recorded by its request, has been recorded, or its
  request ended in an error or was dropped (`Pending`, `Recorded`, `Broken`), and then
  outside Postgres the key is not free; two requests that hold one key know of each other
  (`KeysHeld`); who holds a key another request sold under held it together with that
  one, or that one never recorded (`SalesBeside`).
* `OwnerInv`: a request about to sell has been found to own its cart, which
  keeps its owner, and a server without Postgres has one tenant. For cart commands
  `OwnersOnly` needs the hypothesis that envelope and command name one cart;
  `CartTenancy` is the counterexample without it.
* `FreshInv`: a request that is not stale knows its cart's version, at each call of a
  script that goes straight from what it read or edited to the checkout (`Direct`).
  The ACP completion's is not such a script; `AcpComplete` is the counterexample.
* `UpdateInv`: of the calls left to an undisturbed update the last adds the new line,
  every line it does not keep has its removal still to come, and every line it keeps
  is set or has that still to come (`Planned`), whatever sequence `SetToSeq` chose:
  `UpdateCallsPlanned` for the calls as they are made up, `PlannedStep` for each,
  `PlannedEnd` when none is left.

Only model-checked, because fairness and ENABLED are outside this prover's reach:
the liveness properties `ClaimIsSettled`, `StockIsSettled`, `EditsResume`,
`EventuallyHandled`, `OutboxDrains`, `NeverWedged`, `EveryCallEnds`,
`HealthyIsServed` and `ShutdownEnds`. The three violation runs are counterexamples and
have nothing to prove.

## 5. What is not modelled, and why

* Cryptography, header canonicalisation, the contents of tokens and mandates: in
  `Gateway` they are valid or not.
* Field-by-field mappings between the protocols' documents and the facade's
  types, OpenAPI, metrics, traces and redaction: no state depends on them.
* Reads of orders and of the catalogue, which change nothing.
* Numeric settings (time-outs, budgets, pool sizes), and file values that consist
  of spaces only, which the code takes for values.
* The finer steps between authorization and the order, and charges whose answer was
  lost, are in `Checkout`, not again in `Gateway`.
* Whether discovery advertises what is served: both ask the same accessors, so
  nothing could be checked that the definitions do not already say.
* A second hung request of the same endpoint at every retry: `MaxFaults` bounds them
  together, and `HealthyIsServed` makes an exception once all workers hang.
* The OAuth token cache: one value under a mutex, refreshed by whoever finds it
  expired.
* Amounts, prices, tax and discount arithmetic: `Cart` keeps which edits the
  totals account for. `total_discount_minor` and `retry_delay` are worth an
  operator and a run (below).
* The pace of the outbox processor and of back-offs: lengths of time are left to
  fairness.
* `sweep_expired` has no caller, so reservations do not expire in `Checkout`; the
  operation itself is in `Stores`.

## 6. Plan

Done: all components above modelled and checked, and every safety and action
property of the passing runs proved. Left:

1. `Gateway`'s checkout as a refinement of `IdempotentExecution`, as `Checkout` is,
   so that the two models of one facade call are held together by a theorem.
2. `Webhooks` as the delivery step of `Outbox`: the fan-out refines the one step that
   succeeds or fails.
3. What can be said of keys over Postgres beyond `AnswersAreBacked` and
   `RecordedKeysAreKept`: two executions need two claims of a row that was InFlight.
4. The OAuth token cache with its expiry, and the pure functions `retry_delay`,
   `total_discount_minor` and the policy limits against reference definitions
   over bounded inputs.
