----------------------------- MODULE Deployment -----------------------------
(***************************************************************************)
(* One server process, from its configuration to its exit (main.rs).       *)
(*                                                                         *)
(* ServerConfig::load reads a file and lays the environment over it.       *)
(* Production validates the result and connects to Postgres; development   *)
(* uses mocks and in-memory stores.  The outbox processor is spawned       *)
(* before the rest of AppState is assembled and before the port is bound.  *)
(* On a signal the processor drains the outbox while the server goes on    *)
(* serving: main waits for it, at most drain_timeout, sleeps and exits.    *)
(***************************************************************************)
EXTENDS Naturals, FiniteSets

CONSTANTS
    Deviations,  \* bound: sets of settings that a layer may have of its own
    Pruned       \* bound: whether combinations of unrelated features are left out

\* What a layer says of a setting.  "good" stands for a value that can be used,
\* "bad" for one that is there and cannot, "blank" for an empty one.
Value == {"unset", "blank", "good", "bad"}

Components == {"catalog", "pricing", "tax", "geo", "payment", "receipt"}

\* "document" is the YAML file as such; default_auth and own_auth are the
\* credentials all providers share and one provider's own section.
Setting ==
    Components \cup
    {"document", "public_url", "database_url", "bearer_token", "jwt_secret",
     "default_auth", "own_auth", "key_id", "key", "agent_keys",
     "payment_handlers", "embedded_url", "fulfillment", "delegation", "linking"}

ASSUME DeploymentAssumption == Deviations \subseteq SUBSET Setting /\ Pruned \in BOOLEAN

\* Settings whose value is parsed or tried while the server starts.
Parsed ==
    {"document", "database_url", "default_auth", "own_auth", "key", "agent_keys",
     "payment_handlers", "embedded_url"}

\* Settings an empty environment variable clears.  Of the others an empty
\* variable is ignored.
Clearable ==
    Components \cup {"fulfillment", "delegation", "linking", "embedded_url", "payment_handlers"}

VARIABLES
    profile,    \* ENV: "production" or "development"
    mode,       \* RunMode: "serve" or "migrate"
    authMode,   \* auth.mode: "static" or "jwt"
    strict,     \* AP2_STRICT
    file, env,  \* the two layers, [Setting -> Value]
    config,     \* ServerConfig after load
    phase,      \* how far main has come
    app,        \* what the facade and AppState were built with
    processor,  \* the outbox processor: "none", "running", "draining", "stopped", "killed"
    queue,      \* messages in the outbox
    leased,     \* of these, the ones another worker has taken
    left,       \* history: the ones another worker had when the drain ended
    late,       \* history: messages queued after the processor's drain ended
    cut         \* history: the drain was given up, on a timeout or a store error

settings == <<profile, mode, authMode, strict, file, env, config>>
outbox   == <<queue, leased, left, late, cut>>
vars     == <<settings, phase, app, processor, outbox>>

-----------------------------------------------------------------------------
(* Configuration.                                                          *)

Values(k) == IF k \in Parsed THEN Value ELSE Value \ {"bad"}

Unset == [k \in Setting |-> "unset"]

\* A complete file, and none at all.
Bases == {[k \in Setting |-> "good"], Unset}

\* What a layer can say of the settings ks.  With all settings among the
\* Deviations, file and environment are any two layers.
Layers(ks) == {l \in [ks -> Value] : \A k \in ks : l[k] \in Values(k)}

Over(base, l) == [k \in Setting |-> IF k \in DOMAIN l THEN l[k] ELSE base[k]]

\* apply_env_overrides, of one setting.
Override(k, f, e) ==
    CASE e = "unset" -> f
      [] e = "blank" -> IF k \in Clearable THEN "unset" ELSE f
      [] OTHER -> e

Effective == [k \in Setting |-> Override(k, file[k], env[k])]

Has(c, k) == c[k] \notin {"unset", "blank"}

\* to_keyring: "none" without a key, "bad" when half of it is missing.
Keyring(c) ==
    CASE Has(c, "key_id") /\ Has(c, "key") -> c["key"]
      [] ~Has(c, "key_id") /\ ~Has(c, "key") -> "none"
      [] OTHER -> "bad"

\* for_provider, of every provider: a section that sets anything replaces the
\* default for its own provider; the others share the default.
Credentials(c) ==
    {c["default_auth"], IF c["own_auth"] = "unset" THEN c["default_auth"] ELSE c["own_auth"]}

\* Mutant: the check that the token is not empty is lost.
AuthToken_MayBeEmpty(c, m) == c[IF m = "jwt" THEN "jwt_secret" ELSE "bearer_token"]

\* The token of the mode in use; an empty one counts as none.
AuthToken(c, m) ==
    LET k == IF m = "jwt" THEN "jwt_secret" ELSE "bearer_token"
    IN  IF Has(c, k) THEN c[k] ELSE "unset"

\* require_production.
RequireProduction(c, m) ==
    /\ Has(c, "public_url")
    /\ Has(c, "database_url")
    /\ AuthToken(c, m) # "unset"
    /\ \A k \in Components : Has(c, k)
    /\ "bad" \notin Credentials(c)
    /\ Keyring(c) \notin {"none", "bad"}

-----------------------------------------------------------------------------
(* What is built.                                                          *)

\* The two ways main builds the facade, and the part of AppState that follows
\* from the configuration alone.
ProductionApp(c, m) ==
    [auth |-> m, token |-> AuthToken(c, m), store |-> "postgres",
     providers |-> {c[k] : k \in Components},
     signing |-> TRUE, embedded |-> FALSE, inbound |-> FALSE,
     delegation |-> Has(c, "delegation"), linking |-> Has(c, "linking")]

DevelopmentApp(c) ==
    [auth |-> "dev", token |-> "unset", store |-> "memory",
     providers |-> {"mock"},
     signing |-> Keyring(c) = "good", embedded |-> FALSE, inbound |-> FALSE,
     delegation |-> FALSE, linking |-> FALSE]

NoApp ==
    [auth |-> "none", token |-> "unset", store |-> "none", providers |-> {},
     signing |-> FALSE, embedded |-> FALSE, inbound |-> FALSE,
     delegation |-> FALSE, linking |-> FALSE]

\* The handlers' own tests: embedded_checkout() asks for both halves, the
\* facade for its provider.
Served(a, capability) ==
    CASE capability = "embedded" -> a.embedded /\ a.signing
      [] capability = "delegation" -> a.delegation
      [] capability = "linking" -> a.linking

-----------------------------------------------------------------------------

DeploymentInit ==
    /\ profile \in {"production", "development"}
    /\ mode \in {"serve", "migrate"}
    /\ authMode \in {"static", "jwt"}
    /\ strict \in BOOLEAN
    /\ profile = "development" => authMode = "static"   \* not looked at
    /\ mode = "migrate" => ~strict                      \* nor is this
    /\ Pruned /\ authMode = "jwt" => ~strict
    /\ \E base \in Bases, ks \in Deviations :
         /\ file \in {Over(base, l) : l \in Layers(ks)}
         /\ env \in {Over(Unset, l) : l \in Layers(ks)}
    /\ env["document"] = "unset"
    /\ file["document"] \notin {"blank"}
    /\ config = Unset
    /\ phase = "start"
    /\ app = NoApp
    /\ processor = "none"
    /\ queue = {}
    /\ leased = {}
    /\ left = {}
    /\ late = {}
    /\ cut = FALSE

Refuse == phase' = "refused" /\ UNCHANGED <<app, processor>>

\* ServerConfig::load.  No file is a default configuration, a file that does
\* not parse is an error.
Load ==
    /\ phase = "start"
    /\ file' = Unset /\ env' = Unset   \* not looked at again
    /\ \/ /\ file["document"] # "bad"
          /\ config' = Effective
          /\ phase' = "loaded"
          /\ UNCHANGED <<app, processor>>
       \/ /\ file["document"] = "bad"
          /\ Refuse
          /\ UNCHANGED config
    /\ UNCHANGED <<profile, mode, authMode, strict, outbox>>

\* --migrate: apply the migrations and stop.
Migrate ==
    /\ phase = "loaded"
    /\ mode = "migrate"
    /\ phase' = IF config["database_url"] = "good" THEN "migrated" ELSE "refused"
    /\ UNCHANGED <<settings, app, processor, outbox>>

\* Validate, connect, build the facade and spawn the outbox processor.
Build ==
    /\ phase = "loaded"
    /\ mode = "serve"
    /\ \/ /\ profile = "production"
          /\ RequireProduction(config, authMode)
          /\ config["database_url"] = "good"
          /\ app' = ProductionApp(config, authMode)
       \/ /\ profile = "development"
          /\ Keyring(config) # "bad"
          /\ app' = DevelopmentApp(config)
    /\ phase' = "built"
    /\ processor' = "running"
    /\ UNCHANGED <<settings, outbox>>

BuildRefused ==
    /\ phase = "loaded"
    /\ mode = "serve"
    /\ \/ /\ profile = "production"
          /\ ~RequireProduction(config, authMode) \/ config["database_url"] = "bad"
       \/ /\ profile = "development"
          /\ Keyring(config) = "bad"
    /\ Refuse
    /\ UNCHANGED <<settings, outbox>>

\* payment_handlers, the embedded URL and the agents' keys are parsed now.  An
\* empty embedded URL in the file is not a URL.
Assembles(c) ==
    /\ c["payment_handlers"] # "bad"
    /\ c["embedded_url"] \notin {"bad", "blank"}
    /\ c["agent_keys"] # "bad"

Assemble ==
    /\ phase = "built"
    /\ Assembles(config)
    /\ app' = [app EXCEPT !.embedded = Has(config, "embedded_url"),
                          !.inbound = Has(config, "agent_keys")]
    /\ config' = Unset   \* main keeps what it needs
    /\ phase' = "assembled"
    /\ UNCHANGED <<profile, mode, authMode, strict, file, env, processor, outbox>>

\* main returns the error; the processor it has spawned dies with the runtime.
AssembleFails ==
    /\ phase = "built"
    /\ ~Assembles(config)
    /\ phase' = "refused"
    /\ processor' = "killed"
    /\ UNCHANGED <<settings, app, outbox>>

Bind ==
    /\ phase = "assembled"
    /\ phase' = "serving"
    /\ UNCHANGED <<settings, app, processor, outbox>>

\* The address does not parse, or is taken: the server task ends, and the
\* processor is told to drain and is waited for.
BindFails ==
    /\ phase = "assembled"
    /\ \/ phase' = "refused" /\ processor' = "killed"
       \/ phase' = "failing" /\ processor' = "draining"
    /\ UNCHANGED <<settings, app, outbox>>

-----------------------------------------------------------------------------
(* The processor and the end.                                              *)

\* Mandates and the shutdown have nothing to do with each other.
MayStop == Pruned => ~strict

Alive == phase \notin {"exited", "refused"}

\* process_outbox_once: a message is delivered, or dead-lettered after its
\* attempts.  A retry leaves it where it is.
Deliver ==
    /\ processor \in {"running", "draining"}
    /\ Alive
    /\ \E m \in queue \ leased : queue' = queue \ {m}
    /\ UNCHANGED <<settings, phase, app, processor, leased, left, late, cut>>

\* Another worker claims a message: the processor of another replica, or a
\* request to POST /ops/outbox/process.  Pruned: during the drain of a
\* production server, which is the first to notice.
LeasedElsewhere ==
    /\ Alive /\ (Pruned => processor = "draining" /\ profile = "production")
    /\ \E m \in queue \ leased : leased' = leased \cup {m}
    /\ UNCHANGED <<settings, phase, app, processor, queue, left, late, cut>>

\* It is done with the message, or the message is offered again: the delivery
\* failed, or the worker died and its lease ran out.
LeaseEnds ==
    /\ Alive
    /\ \E m \in leased : leased' = leased \ {m} /\ queue' \in {queue, queue \ {m}}
    /\ UNCHANGED <<settings, phase, app, processor, left, late, cut>>

\* Mutant: one batch is all that is drained.
DrainEnds_OneBatch ==
    /\ processor = "draining"
    /\ processor' = "stopped"
    /\ left' = leased
    /\ UNCHANGED <<settings, phase, app, queue, leased, late, cut>>

\* drain: a batch that handles nothing is the last.  It finds the outbox empty,
\* or nothing in it that can be claimed.
DrainEnds ==
    /\ processor = "draining"
    /\ queue \subseteq leased
    /\ processor' = "stopped"
    /\ left' = leased
    /\ UNCHANGED <<settings, phase, app, queue, leased, late, cut>>

\* The processor's own deadline passes between two batches, or the store fails.
DrainGivesUp ==
    /\ processor = "draining"
    /\ processor' = "stopped"
    /\ cut' = TRUE
    /\ UNCHANGED <<settings, phase, app, queue, leased, left, late>>

\* SIGTERM or SIGINT: readiness turns to 503 and the processor is told.
Signal ==
    /\ phase = "serving"
    /\ MayStop
    /\ phase' = "draining"
    /\ processor' = "draining"
    /\ UNCHANGED <<settings, app, outbox>>

\* The processor's task has ended.
DrainAwaited ==
    /\ phase = "draining"
    /\ processor = "stopped"
    /\ phase' = "lingering"
    /\ UNCHANGED <<settings, app, processor, outbox>>

\* Mutant: main awaits the processor without a timeout.
DrainTimesOut_Never == FALSE /\ UNCHANGED vars

\* drain_timeout: the processor goes on while main sleeps.
DrainTimesOut ==
    /\ phase = "draining"
    /\ phase' = "lingering"
    /\ cut' = TRUE
    /\ UNCHANGED <<settings, app, processor, queue, leased, left, late>>

\* std::process::exit, five seconds later, or the end of main after a failed bind.
Exit ==
    /\ \/ phase = "lingering"
       \/ phase = "failing" /\ processor = "stopped"
    /\ phase' = "exited"
    /\ processor' = "killed"
    /\ UNCHANGED <<settings, app, outbox>>

Start    == Load \/ Migrate \/ Build \/ BuildRefused \/ Assemble \/ AssembleFails
Shutdown == DrainAwaited \/ DrainTimesOut
Process  == Deliver \/ LeasedElsewhere \/ LeaseEnds \/ DrainEnds \/ DrainGivesUp

-----------------------------------------------------------------------------
(* Properties.                                                             *)

\* require_production, through both layers and up to main's choices: once the
\* processor may deliver in production, and as long as the process lives, it
\* authenticates with a real token, stores durably, signs, and calls real
\* providers.
ProductionIsGuarded ==
    profile = "production" /\ processor # "none" =>
        /\ app.auth \in {"static", "jwt"} /\ app.token = "good"
        /\ app.store = "postgres"
        /\ app.signing
        /\ app.providers = {"good"}

\* A drain that was not given up leaves only messages that another worker had
\* taken when it ended, and messages queued after it.  There are some of those:
\* main.rs says it stops taking new work and docs/runbooks/retries-and-outbox.md
\* that the server stops accepting it, but it answers requests until it exits.
DrainedAtExit ==
    phase = "exited" /\ ~cut => queue \subseteq late \cup left

\* Once signalled, the process exits, whatever the processor is waiting for.
ShutdownEnds == phase = "draining" ~> phase = "exited"
=============================================================================
