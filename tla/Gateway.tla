------------------------------ MODULE Gateway -------------------------------
(***************************************************************************)
(* The protocol surfaces on top of the facade: requests of REST, UCP, ACP, *)
(* A2A and MCP clients, served by the process of Deployment.               *)
(*                                                                         *)
(* A handler is a script of facade calls, one await each, and nothing      *)
(* holds the cart between two of them: requests interleave call by call,   *)
(* an error ends the script where it is, and so does a client that hangs   *)
(* up or a process that exits.  What happens inside a cart command is in   *)
(* module Cart, inside a checkout in module Checkout; here each is one     *)
(* step, or one per await that another request can get between.            *)
(***************************************************************************)
EXTENDS Deployment, Sequences, SequencesExt

CONSTANTS
    Tenant, Home,  \* tenants, and the one a static token or development has
    MaxRequests,   \* bound: requests in all
    MaxFaults      \* bound: failing calls, refusals and hang-ups

ASSUME GatewayAssumption ==
    /\ Home \in Tenant
    /\ MaxRequests \in Nat \ {0} /\ MaxFaults \in Nat

\* A request also names the cart and the cart line it creates, its own
\* idempotency key, its own AP2 mandate and the message its sale queues; 0 is a
\* cart of an earlier process and the line it has.  As a cart, the number of a
\* request that creates none is an id that no cart has.
Request == 1..MaxRequests
Stored  == 0

VARIABLES
    arrived,   \* requests so far
    req,       \* req[r]: what r has still to do
    answer,    \* answer[r]: what it was told
    carts,     \* the carts there are, by id
    keys,      \* keys[k]: the idempotency record of key k
    mandates,  \* mandate ids recorded
    sold,      \* sales: which request, under which key and mandate
    shared,    \* history: pairs of requests that had one key at the same time
    stale,     \* history: requests whose cart is not as they know it
    faults

requests == <<arrived, req, answer>>
ledger   == <<keys, mandates, sold, shared>>
gvars    == <<vars, requests, carts, ledger, stale, faults>>

Idle == [route |-> "none", todo |-> <<>>, cart |-> 0, named |-> 0, tenant |-> Home,
         seen |-> 0, key |-> 0, mandate |-> 0, keep |-> {}]

GatewayInit ==
    /\ DeploymentInit
    /\ arrived = 0
    /\ req = [r \in Request |-> Idle]
    /\ answer = [r \in Request |-> "none"]
    /\ carts = [c \in IF profile = "production" THEN {Stored} ELSE {} |->
                   [owner |-> Home, version |-> 1, state |-> "open",
                    lines |-> [l \in {Stored} |-> Stored]]]
    /\ keys = [k \in Request |-> "free"]
    /\ mandates = {}
    /\ sold = {}
    /\ shared = {}
    /\ stale = {}
    /\ faults = 0

Running(r) == req[r].todo # <<>>
Fault      == faults < MaxFaults /\ faults' = faults + 1

-----------------------------------------------------------------------------
(* What each surface offers, and what it asks of a request.                *)

Capability == {"embedded", "delegation", "linking"}

RestRoutes == {"command", "create", "get", "start", "cancel", "complete"}
UcpRoutes  == {"create", "create_checkout", "get", "update", "fulfil", "complete", "cancel",
               "embedded"}
AcpRoutes  == {"create", "get", "update", "acp_complete", "cancel", "delegation"}
A2aRoutes  == {"command", "create", "get", "start", "cancel", "complete", "linking"}
McpTools   == {"command", "create", "get", "start", "fulfil", "complete"}

Routes == [rest |-> RestRoutes, ucp |-> UcpRoutes, acp |-> AcpRoutes, a2a |-> A2aRoutes,
           mcp |-> McpTools]

\* Middleware: every /api/v1 request is signed when agents' keys are configured.
Unsigned == app.inbound

\* AuthContextExtractor: development runs without a resolver.
Unauthenticated == app.auth # "dev"

\* API-Version, A2A-Version and the MCP protocol version.
WrongVersion(surface) == surface \in {"acp", "a2a", "mcp"}

\* require_acp_idempotency_key: every mutating POST, which an update is not.
Unkeyed(surface, route) == surface = "acp" /\ route \notin {"get", "update"}

\* The tenant a body names must be the caller's, where a body names one.
OtherTenant(route) == route \in {"complete", "acp_complete", "delegation", "linking"}

\* verify_ap2_strict, before anything else of a checkout.
Unmandated(route) == strict /\ route \in {"complete", "acp_complete"}

\* Bound: a request has at most one flaw.  One that is not refused is harmless.
Flaw == {"unsigned", "unauthenticated", "version", "unkeyed", "tenant", "unmandated", "malformed"}

Refuses(flaw, surface, route) ==
    CASE flaw = "unsigned"        -> Unsigned
      [] flaw = "unauthenticated" -> Unauthenticated
      [] flaw = "version"         -> WrongVersion(surface)
      [] flaw = "unkeyed"         -> Unkeyed(surface, route)
      [] flaw = "tenant"          -> OtherTenant(route)
      [] flaw = "unmandated"      -> Unmandated(route)
      [] flaw = "malformed"       -> TRUE

-----------------------------------------------------------------------------
(* Scripts.  A call is a pair: what to do and, for some, the line.         *)

Call(op) == <<op, 0>>

\* The parts of Runner::execute_checkout that another request can get between.
RunnerCalls == <<Call("claim"), Call("settle"), Call("sell"), Call("queue"), Call("record")>>

\* Mutant: in strict mode the mandate is recorded once the checkout went through.
CheckoutCalls_RecordsLast ==
    RunnerCalls \o (IF strict THEN <<Call("mandate")>> ELSE <<>>)

\* OrchestratorFacade::execute_checkout.
CheckoutCalls ==
    (IF strict THEN <<Call("mandate")>> ELSE <<>>) \o RunnerCalls

Script(route, r) ==
    CASE route = "create"          -> <<Call("create"), <<"add", r>>>>
      [] route = "create_checkout" -> <<Call("create"), <<"add", r>>, Call("start")>>
      [] route = "command"         -> <<<<"add", r>>>>
      [] route \in {"get", "update", "embedded"} -> <<Call("get")>>
      [] route = "complete"        -> CheckoutCalls
      [] route = "acp_complete"    -> <<Call("get"), Call("start")>> \o CheckoutCalls
      [] OTHER                     -> <<Call(route)>>

\* Mutant: a line the client keeps is taken out and not put back.
UpdateCalls_DropsKept(r, lines) ==
    SetToSeq({<<"remove", l>> : l \in lines})
        \o SetToSeq({<<"qty", l>> : l \in req[r].keep \ lines})
        \o <<<<"add", r>>>>

\* The rest of an update once the cart was read: drop the lines that are not
\* wanted, set the quantity of those that are, add the new one.
UpdateCalls(r, lines) ==
    SetToSeq({<<"remove", l>> : l \in lines \ req[r].keep})
        \o SetToSeq({<<"qty", l>> : l \in req[r].keep})
        \o <<<<"add", r>>>>

-----------------------------------------------------------------------------
(* Arrival.                                                                *)

\* Carts a client can know of.
Known == {c \in DOMAIN carts : c = Stored \/ answer[c] = "ok"}

\* Pruned: a deployment that lacks an optional part, which no other request can
\* notice, gets one request; a production server, which has a cart already, one
\* less than a development server.  A server with static tokens that is not strict
\* sees nothing that one with tenants' own tokens does not.
Traffic ==
    IF ~Pruned THEN MaxRequests
    ELSE IF app.inbound /\ app.embedded /\ app.signing
         THEN IF profile = "development" THEN MaxRequests
              ELSE IF app.delegation /\ app.linking /\ (app.auth = "jwt" \/ strict)
                   THEN MaxRequests - 1 ELSE 1
         ELSE 1

Callers == IF app.auth = "jwt" THEN Tenant ELSE {Home}

\* A client that names a version has read it; it may since have changed.
\* Pruned: the current one or the one before.
Versions(route, c) ==
    IF route \in {"start", "complete"}
    THEN {v \in 1..carts[c].version : Pruned => v >= carts[c].version - 1}
    ELSE {0}

\* It may be repeating a request, with its key or only with its mandate.
Tokens(route, r) ==
    IF route \in {"complete", "acp_complete"}
    THEN (1..r) \X (IF strict THEN 1..r ELSE {0}) ELSE {<<0, 0>>}

\* The body of a cart command names a cart twice, in the envelope and in some
\* commands; nothing makes them agree.  Pruned: they do if there is one tenant.
Names(surface, route, c, r) ==
    IF /\ surface \in {"rest", "a2a"} /\ route \in {"get", "start", "cancel"}
       /\ Pruned => app.auth = "jwt"
    THEN Known \cup {r} ELSE {c}

Keeps(route, c) == IF route = "update" THEN SUBSET DOMAIN carts[c].lines ELSE {{}}

Open == phase \in {"serving", "draining", "lingering"} /\ arrived < Traffic

\* The request is refused before it reaches the facade: nothing changes.
\* Pruned: only the first, since the others cannot tell.
Turned(surface, route, flaw) ==
    /\ Open /\ (Pruned => arrived = 0)
    /\ route \in Routes[surface]
    /\ Refuses(flaw, surface, route)
    /\ arrived' = arrived + 1
    /\ answer' = [answer EXCEPT ![arrived + 1] = "refused"]
    /\ UNCHANGED <<vars, req, carts, ledger, stale, faults>>

\* A capability the deployment has is served by one call that changes nothing
\* here; one it lacks is answered 501.  Pruned: as above.
Ask(capability) ==
    /\ Open /\ (Pruned => arrived = 0)
    /\ \E surface \in DOMAIN Routes : capability \in Routes[surface]
    /\ arrived' = arrived + 1
    /\ answer' = [answer EXCEPT ![arrived + 1] =
                    IF Served(app, capability) THEN "ok" ELSE "unserved"]
    /\ UNCHANGED <<vars, req, carts, ledger, stale, faults>>

\* Pruned: only the first request makes a cart, since carts are independent.
Arrive(surface, route) ==
    LET r == arrived + 1
    IN  /\ Open
        /\ Pruned /\ route \in {"create", "create_checkout"} => r = 1
        /\ route \in Routes[surface] \ Capability
        /\ arrived' = r
        /\ \E t \in Callers,
              c \in IF route \in {"create", "create_checkout"} THEN {r} ELSE Known :
             \E v \in IF c = r THEN {0} ELSE Versions(route, c), k \in Tokens(route, r),
                keep \in IF c = r THEN {{}} ELSE Keeps(route, c), n \in Names(surface, route, c, r) :
               /\ req' = [req EXCEPT ![r] =
                            [route |-> route, todo |-> Script(route, r), cart |-> c, named |-> n,
                             tenant |-> t, seen |-> v, key |-> k[1], mandate |-> k[2],
                             keep |-> keep]]
               /\ stale' = stale \cup (IF v # 0 /\ v # carts[c].version THEN {r} ELSE {})
        /\ UNCHANGED <<vars, answer, carts, ledger, faults>>

-----------------------------------------------------------------------------
(* Facade calls.                                                           *)

At(r, op) == Running(r) /\ Head(req[r].todo)[1] = op /\ phase # "exited"

\* The script ends; what it had still to do is forgotten.
End(r, a) ==
    /\ answer' = [answer EXCEPT ![r] = a]
    /\ req' = [req EXCEPT ![r] = Idle]
    /\ UNCHANGED arrived

\* What a handler that has read version v is left with.
Goes(job, rest, v) == [job EXCEPT !.todo = rest, !.seen = v]

\* Mutant: the handler goes on with the first projection it got.
Went_KeepsFirst(r, v, rest) ==
    IF rest = <<>>
    THEN End(r, "ok")
    ELSE /\ req' = [req EXCEPT ![r] = Goes(@, rest, IF @.seen = 0 THEN v ELSE @.seen)]
         /\ UNCHANGED <<arrived, answer>>

\* The call succeeded and the handler has read version v.
Went(r, v, rest) ==
    IF rest = <<>>
    THEN End(r, "ok")
    ELSE /\ req' = [req EXCEPT ![r] = Goes(@, rest, v)]
         /\ UNCHANGED <<arrived, answer>>

Rest(r) == Tail(req[r].todo)

CartOf(r) == carts[req[r].cart]

\* Mutant: the tenant is not looked at.
Mine_Anybody(r) == TRUE

\* assert_cart_belongs_to, of the cart the envelope names.  One that does not
\* exist is left to the command, which looks for its own.
Mine(r) ==
    req[r].named \in DOMAIN carts => carts[req[r].named].owner = req[r].tenant

\* f with x mapped to y.
With(f, x, y) == [z \in DOMAIN f \cup {x} |-> IF z = x THEN y ELSE f[z]]

\* The next version of a cart, and the same version in another state.
NextVersion(cart, lines, state) ==
    [owner |-> cart.owner, version |-> cart.version + 1, state |-> state, lines |-> lines]
Left(cart, state) ==
    [owner |-> cart.owner, version |-> cart.version, state |-> state, lines |-> cart.lines]

\* r's cart is replaced; whoever else is working on it has not seen that.
Store(r, cart) ==
    /\ carts' = [carts EXCEPT ![req[r].cart] = cart]
    /\ stale' = stale \cup {s \in Request \ {r} : Running(s) /\ req[s].cart = req[r].cart}

NotMine(r) ==
    /\ Running(r) /\ phase # "exited"
    /\ Head(req[r].todo)[1] \in {"get", "add", "qty", "remove", "fulfil", "start", "cancel"}
    /\ ~Mine(r)
    /\ End(r, "error")
    /\ UNCHANGED <<vars, carts, ledger, stale, faults>>

CreateCart(r) ==
    /\ At(r, "create")
    /\ carts' = With(carts, r, [owner |-> req[r].tenant, version |-> 1, state |-> "open",
                                lines |-> <<>>])
    /\ Went(r, 1, Rest(r))
    /\ UNCHANGED <<vars, ledger, stale, faults>>

GetCart(r) ==
    /\ At(r, "get") /\ Mine(r)
    /\ Went(r, CartOf(r).version,
            IF req[r].route = "update" THEN UpdateCalls(r, DOMAIN CartOf(r).lines) ELSE Rest(r))
    /\ UNCHANGED <<vars, carts, ledger, stale, faults>>

\* The lines after an edit; line l becomes r's.
Edited(r, op, l) ==
    IF op = "remove"
    THEN [x \in DOMAIN CartOf(r).lines \ {l} |-> CartOf(r).lines[x]]
    ELSE With(CartOf(r).lines, l, r)

\* A quantity needs its line, an edit a cart that can be changed: a cancelled
\* one cannot, nor one an earlier edit left half recalculated.
Editable(r, op, l) ==
    /\ op = "qty" => l \in DOMAIN CartOf(r).lines
    /\ CartOf(r).state \in {"open", "ready"}

EditOps == {"add", "qty", "remove"}

\* AddItem, UpdateItemQty, RemoveItem.
EditCart(r) ==
    /\ Running(r) /\ phase # "exited"
    /\ LET op == Head(req[r].todo)[1]
           l  == Head(req[r].todo)[2]
       IN  /\ op \in EditOps /\ Mine(r)
           /\ \/ /\ Editable(r, op, l)
                 /\ Store(r, NextVersion(CartOf(r), Edited(r, op, l), "open"))
                 /\ Went(r, CartOf(r).version + 1, Rest(r))
              \/ /\ ~Editable(r, op, l)
                 /\ End(r, "error")
                 /\ UNCHANGED <<carts, stale>>
    /\ UNCHANGED <<vars, ledger, faults>>

\* A provider fails half way: the snapshot is not stored, the cart's state stays
\* where the recalculation was.
EditFails(r) ==
    /\ Running(r) /\ phase # "exited"
    /\ Head(req[r].todo)[1] \in EditOps /\ Mine(r)
    /\ Editable(r, Head(req[r].todo)[1], Head(req[r].todo)[2])
    /\ Fault
    /\ \E s \in {"open", "stranded"} : Store(r, Left(CartOf(r), s))
    /\ End(r, "error")
    /\ UNCHANGED <<vars, ledger>>

\* SetFulfillmentSelection asks nothing of the cart's state.
FulfilCart(r) ==
    /\ At(r, "fulfil") /\ Mine(r)
    /\ Store(r, NextVersion(CartOf(r), CartOf(r).lines, CartOf(r).state))
    /\ Went(r, CartOf(r).version + 1, Rest(r))
    /\ UNCHANGED <<vars, ledger, faults>>

\* The snapshot is stored before the state machine is asked.  An ACP completion
\* goes on with the version it read before.
StartCheckout(r) ==
    /\ At(r, "start") /\ Mine(r)
    /\ \/ /\ CartOf(r).version # req[r].seen
          /\ End(r, "conflict")
          /\ UNCHANGED <<carts, stale>>
       \/ /\ CartOf(r).version = req[r].seen
          /\ \/ /\ CartOf(r).state \in {"open", "stranded"}
                /\ Store(r, NextVersion(CartOf(r), CartOf(r).lines, "ready"))
                /\ Went(r, req[r].seen, Rest(r))
             \/ /\ CartOf(r).state \in {"ready", "cancelled"}
                /\ Store(r, NextVersion(CartOf(r), CartOf(r).lines, CartOf(r).state))
                /\ End(r, "error")
    /\ UNCHANGED <<vars, ledger, faults>>

CancelCart(r) ==
    /\ At(r, "cancel") /\ Mine(r)
    /\ Store(r, NextVersion(CartOf(r), CartOf(r).lines, "cancelled"))
    /\ End(r, IF CartOf(r).state = "cancelled" THEN "error" ELSE "ok")
    /\ UNCHANGED <<vars, ledger, faults>>

\* record_mandate: exclusive, and never taken back.
RecordMandate(r) ==
    /\ At(r, "mandate")
    /\ \/ /\ req[r].mandate \in mandates
          /\ End(r, "replay")
          /\ UNCHANGED mandates
       \/ /\ req[r].mandate \notin mandates
          /\ mandates' = mandates \cup {req[r].mandate}
          /\ Went(r, req[r].seen, Rest(r))
    /\ UNCHANGED <<vars, carts, keys, sold, shared, stale, faults>>

\* Requests other than r that have r's key.
Beside(r) ==
    {s \in Request \ {r} :
        /\ Running(s) /\ req[s].key = req[r].key
        /\ Head(req[s].todo)[1] \in {"settle", "sell", "queue", "record"}}

\* In memory a claim is exclusive; Postgres hands out an open one again.
Claimable(k) == keys[k] = "free" \/ (keys[k] = "claimed" /\ app.store = "postgres")

\* IdempotencyStore::claim.  A completed record is the answer, an open one that
\* cannot be had is AlreadyInFlight.
Claim(r) ==
    LET k == req[r].key
    IN  /\ At(r, "claim")
        /\ \/ /\ ~Claimable(k)
              /\ End(r, IF keys[k] = "claimed" THEN "error" ELSE "original")
              /\ UNCHANGED <<keys, shared>>
           \/ /\ Claimable(k)
              /\ keys' = [keys EXCEPT ![k] = "claimed"]
              /\ shared' = shared \cup {{r, s} : s \in Beside(r)}
              /\ Went(r, req[r].seen, Rest(r))
        /\ UNCHANGED <<vars, carts, mandates, sold, stale, faults>>

\* IdempotencyStore::release, of an open claim only.
Release(r) ==
    keys' = [keys EXCEPT ![req[r].key] = IF @ = "claimed" THEN "free" ELSE @]

\* settle_cart_for_checkout: the owner, then the version; the repriced cart is
\* written back.
Settle(r) ==
    LET mine == CartOf(r).owner = req[r].tenant
    IN  /\ At(r, "settle")
        /\ \/ /\ mine /\ CartOf(r).version = req[r].seen
              /\ Store(r, CartOf(r))
              /\ Went(r, req[r].seen, Rest(r))
              /\ UNCHANGED keys
           \/ /\ ~mine
              /\ Release(r)
              /\ End(r, "error")
              /\ UNCHANGED <<carts, stale>>
           \/ /\ mine /\ CartOf(r).version # req[r].seen
              /\ Release(r)
              /\ End(r, "conflict")
              /\ UNCHANGED <<carts, stale>>
        /\ UNCHANGED <<vars, mandates, sold, shared, faults>>

\* A provider or the store fails or, once the cart is written back, the
\* destination is blocked or the amount is not the total.
SettleFails(r) ==
    /\ At(r, "settle")
    /\ Fault
    /\ \/ /\ CartOf(r).owner = req[r].tenant /\ CartOf(r).version = req[r].seen
          /\ Store(r, CartOf(r))
       \/ UNCHANGED <<carts, stale>>
    /\ Release(r)
    /\ End(r, "error")
    /\ UNCHANGED <<vars, mandates, sold, shared>>

\* The payment is authorized and captured.  (A charge whose answer was lost is in
\* module Checkout.)
Sell(r) ==
    /\ At(r, "sell")
    /\ sold' = sold \cup {[by |-> r, key |-> req[r].key, mandate |-> req[r].mandate]}
    /\ Went(r, req[r].seen, Rest(r))
    /\ UNCHANGED <<vars, carts, keys, mandates, shared, stale, faults>>

\* The policy rejects or the payment is declined, and that is recorded.
Decline(r) ==
    /\ At(r, "sell")
    /\ Fault
    /\ keys' = [keys EXCEPT ![req[r].key] = "declined"]
    /\ End(r, "declined")
    /\ UNCHANGED <<vars, carts, mandates, sold, shared, stale>>

\* The order is stored, the receipt generated and the order's event queued.
Queue(r) ==
    /\ At(r, "queue")
    /\ queue' = queue \cup {r}
    /\ late' = IF processor = "stopped" THEN late \cup {r} ELSE late
    /\ Went(r, req[r].seen, Rest(r))
    /\ UNCHANGED <<settings, phase, app, processor, leased, left, cut, carts, ledger, stale, faults>>

\* IdempotencyStore::complete.
Record(r) ==
    /\ At(r, "record")
    /\ keys' = [keys EXCEPT ![req[r].key] = "sold"]
    /\ IF Rest(r) = <<>> THEN End(r, "sold") ELSE Went(r, req[r].seen, Rest(r))
    /\ UNCHANGED <<vars, carts, mandates, sold, shared, stale, faults>>

\* The payment or receipt provider or a store fails on the way, and the error is
\* returned: what was done stays, and the key stays claimed.
BuyFails(r) ==
    /\ At(r, "sell") \/ At(r, "queue") \/ At(r, "record")
    /\ Fault
    /\ End(r, "error")
    /\ UNCHANGED <<vars, carts, ledger, stale>>

\* The client hangs up and the handler is dropped at an await.
HangUp(r) ==
    /\ Running(r) /\ phase # "exited"
    /\ Fault
    /\ End(r, "lost")
    /\ UNCHANGED <<vars, carts, ledger, stale>>

-----------------------------------------------------------------------------

\* The process exits under the requests it is serving.  What was kept in memory
\* goes with it; the queue stays, to be compared with what should have left it.
ExitUnderway ==
    /\ Exit
    /\ req' = [r \in Request |-> Idle]
    /\ answer' = [r \in Request |-> IF Running(r) THEN "lost" ELSE answer[r]]
    /\ IF app.store = "memory"
       THEN /\ carts' = <<>>
            /\ keys' = [k \in Request |-> "free"]
            /\ mandates' = {}
       ELSE UNCHANGED <<carts, keys, mandates>>
    /\ UNCHANGED <<arrived, sold, shared, stale, faults>>

CartCall(r) ==
    CreateCart(r) \/ GetCart(r) \/ EditCart(r) \/ FulfilCart(r) \/ StartCheckout(r)
        \/ CancelCart(r) \/ NotMine(r)

CheckoutCall(r) ==
    RecordMandate(r) \/ Claim(r) \/ Settle(r) \/ Sell(r) \/ Queue(r) \/ Record(r)

Serve(r) == CartCall(r) \/ CheckoutCall(r)

Work(r) ==
    Serve(r) \/ EditFails(r) \/ SettleFails(r) \/ Decline(r) \/ BuyFails(r) \/ HangUp(r)

Operate == Start \/ Bind \/ BindFails \/ Signal \/ Shutdown \/ Process

GatewayNext ==
    \/ Operate /\ UNCHANGED <<requests, carts, ledger, stale, faults>>
    \/ ExitUnderway
    \/ \E surface \in DOMAIN Routes :
         \/ \E route \in Routes[surface] : Arrive(surface, route)
         \/ \E route \in Routes[surface], flaw \in Flaw : Turned(surface, route, flaw)
    \/ \E capability \in Capability : Ask(capability)
    \/ \E r \in Request : Work(r)

\* main's own steps once it was signalled.
Leave ==
    \/ Shutdown /\ UNCHANGED <<requests, carts, ledger, stale, faults>>
    \/ ExitUnderway

\* main's timers run out.  Nothing is assumed of the processor, which waits for
\* endpoints and stores, nor of the requests it exits under.
GatewaySpec ==
    /\ GatewayInit
    /\ [][GatewayNext]_gvars
    /\ WF_gvars(Leave)

-----------------------------------------------------------------------------
(* Properties.                                                             *)

\* Types; a request works on a cart that is there.
TypeOK ==
    /\ phase \in {"start", "loaded", "migrated", "refused", "built", "assembled", "serving",
                  "failing", "draining", "lingering", "exited"}
    /\ processor \in {"none", "running", "draining", "stopped", "killed"}
    /\ answer \in [Request -> {"none", "ok", "sold", "declined", "original", "replay", "conflict",
                               "error", "refused", "unserved", "lost"}]
    /\ keys \in [Request -> {"free", "claimed", "sold", "declined"}]
    /\ \A c \in DOMAIN carts :
         /\ carts[c].owner \in Tenant
         /\ carts[c].version \in Nat
         /\ carts[c].state \in {"open", "stranded", "ready", "cancelled"}
         /\ DOMAIN carts[c].lines \subseteq Request \cup {Stored}
    /\ \A r \in Request :
         Running(r) => Head(req[r].todo)[1] = "create" \/ req[r].cart \in DOMAIN carts

Ends(r, a) == answer[r] = "none" /\ answer'[r] = a

\* r's step reads a cart to its client, changes one or sells from it, and the
\* cart is another tenant's.
Trespasses(r) ==
    /\ carts' # carts \/ sold' # sold \/ Ends(r, "ok")
    /\ Running(r) /\ req'[r] # req[r]
    /\ req[r].cart \in DOMAIN carts
    /\ CartOf(r).owner # req[r].tenant

\* Of the requests that name one cart, none reads, changes or sells from a cart of
\* another tenant, whoever made it and whatever the others do meanwhile
\* (assert_cart_belongs_to on every call, and settle_cart_for_checkout).
OwnersOnly ==
    [][\A r \in Request : req[r].named = req[r].cart => ~Trespasses(r)]_gvars

\* The same of all requests.  docs/consumption-guide.md and
\* dispatch_cart_command_for_tenant say that every cart command is refused unless
\* the cart belongs to the caller's tenant.
TenantsApart ==
    [][\A r \in Request : ~Trespasses(r)]_gvars

\* An update that nobody disturbed leaves exactly the lines it asked for, with
\* the quantities it gave (ucp_update_cart, acp_update_session).
UpdateIsExact ==
    [][\A r \in Request :
         req[r].route = "update" /\ Ends(r, "ok") /\ r \notin stale
             => carts'[req[r].cart].lines = [l \in req[r].keep \cup {r} |-> r]]_gvars

\* A version conflict is somebody else's doing: the client named a version that
\* had passed, or the cart was changed by another request while this one ran.
ConflictIsEarned ==
    [][\A r \in Request :
         req[r].route # "acp_complete" /\ Ends(r, "conflict") => r \in stale]_gvars

\* The same of POST /acp/checkout_sessions/:id/complete, which docs/standards/
\* conformance-matrix.md maps to start_checkout and execute_checkout_authorized.
AcpConflictIsEarned ==
    [][\A r \in Request :
         req[r].route = "acp_complete" /\ Ends(r, "conflict") => r \in stale]_gvars

\* In strict mode a mandate pays once, whatever keys it comes with.
OneSalePerMandate ==
    strict => \A s, t \in sold : s.mandate = t.mandate => s = t

\* One sale per idempotency key, retried or repeated on any surface.  Only the
\* Postgres store sells twice: to two requests that had the key at the same time,
\* or again after a sale whose outcome was never recorded, because its request
\* met an error or was dropped between the capture and IdempotencyStore::complete.
OneSalePerKey ==
    \A s, t \in sold :
        s # t /\ s.key = t.key =>
            /\ app.store = "postgres"
            /\ {s.by, t.by} \in shared \/ {answer[s.by], answer[t.by]} \cap {"error", "lost"} # {}

\* The stores stay well-formed and nothing is paid for or sold twice, however
\* mandate, key and cart are passed between requests, retried and abandoned
\* (execute_checkout_authorized: record_mandate, then claim, then the sale).
SoldOnce == TypeOK /\ OneSalePerMandate /\ OneSalePerKey
=============================================================================
