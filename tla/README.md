# Verification of cerberus-db-mcp

TLA+ models of the two servers of this repository (`cmd/cerberus-db-mcp`, a
gated reader of MySQL, PostgreSQL and SQL Server; `cmd/cerberus-cache-mcp`, the
same for Redis), TLC configurations that check them on small instances, and
TLAPS proofs of the main safety properties for every value of the constants.
`PROJECT.json` lists the components, runs, hazards and theorems, and maps each
definition to the source lines it stands for.

Contents: [1 the system](#1-the-system), [2 the models](#2-the-models),
[3 the runs](#3-the-runs), [4 fairness](#4-fairness-and-the-liveness-properties),
[5 the proofs](#5-the-proofs), [6 where code and documentation differ](#6-where-the-code-and-its-documentation-differ),
[7 not modelled](#7-not-modelled), [8 the plan](#8-the-plan).

To check: `tlc -config ServerCalls.cfg MCServer.tla`, and so on for each cfg with
the module section 3 names; `tlapm M.tla` for each module `M` of section 5.

## 1 The system

An agent speaks MCP over HTTP. A request passes the admission middleware, then
reaches a tool handler on a goroutine of its own; the handler asks a gate whether
the statement is a read, borrows a connection, runs the statement in a
transaction that is always rolled back, and writes one audit event before it
answers. Beside the MCP endpoint the process is its own OAuth authorization
server in front of Google. One goroutine (`Run`) serves, reloads and shuts down.

| Component | State it keeps | Operations | What is hard | What makes it correct |
|---|---|---|---|---|
| Token validator (`internal/auth/tokeninfo.go`) | LRU list and its index of accepted tokens, semaphore of slots | `validate`, `cached`, `store`, `remainingLifetime` | calls for one token race each other, Google's answer and the clock; nine return paths hold a slot | slots come back; list and index agree; a revoked or expired token stops working within a bound; only tokens of this client pass |
| Authorization flow (`internal/authflow`) | none: sealed values in the clients' hands, the sealing secret | `/authorize`, `/callback`, the two grants of `/token` | crossed tabs, replays, restarts with another configuration, Google rotating refresh tokens, calls failing half way | a session belongs to the flow it began in; the running configuration decides; revocation reaches every session; only Google ends one |
| Sealed credentials (`internal/auth/sealing.go`) | the keys | seal, unseal per purpose | four purposes under one secret | a value opens only for its purpose and under its secret |
| Admission middleware (`internal/auth/middleware.go`, `assertion.go`, `identity.go`) | none | one decision per request over three kinds of credential | three branches that must agree on what an identity is; time bounds of assertions | whoever is admitted is verified and allowed; a transient fault is not a challenge |
| Statement gate (`internal/gate`) | the compiled ruleset behind an atomic pointer | `Validate`, `Reload` | merge of an overlay, cross checks over the whole, a token walk | no statement that is not a read is allowed; a reload is all or nothing |
| Executor (`internal/db`) | one pool per alias | `Execute`, `ListDatabases`, `SearchSchema`, `DescribeTable`, the lookup of similar names | timeouts at every point, rollback after the context has ended, second connections | gate before socket; every connection comes back; a call ends |
| Tool handlers and audit (`internal/mcp`) | the audit stream | five tools, `refuseOrFail` | one of several statements fails; a lookup behind a failure | each answered call has one true event |
| Result shaping (`internal/mcp/rows.go`, `internal/db/schema.go`, `describe.go`, `databases.go`) | none | cutting to row cap and byte budgets | sizes at the boundary | never above the budget, never cut without need, nothing half a row |
| Names near a missing one (`internal/db/missing.go`) | none | parsing engine messages and the statement, ranking by edit distance | a hand-written scanner per dialect | the name offered exists; nothing of the statement leaks to another alias |
| Lifecycle (`internal/mcpserve/server.go`, `internal/mcp/overlay.go`) | phase, one-place SIGHUP channel, drain context | `Run`, reload, shutdown, close | signals while reloading or draining, clients that hold requests | no reload lost; drain before close; the process ends |
| Redis executor and tools (`internal/redisdb`, `internal/redismcp`) | one client per alias | `Execute`, `scanKeys`, `inspectKey`, `boundReply` | several commands per tool while keys change; reply bounds | replies within bounds; an answer about one key is about that key |
| Redis command gate (`internal/redisgate`) | limits | `Validate`, one option parser per command family | bounds hidden in options, duplicates, negative indexes | what is admitted replies with a bounded number of elements |
| Configuration, wiring, logging (`*/config.go`, `cmd/`, `httplog`, `refuse`, `mcpserve/caller.go`, `authflow/metadata.go`) | none after start | parsing at start, one log line per refusal | cross-variable rules | a process that starts is configured as it says |
| Tools, deployment, CI (`tools/`, `deploy/`, `.github/`) | none | - | - | outside the running server |

Interactions. The middleware calls the validator and unseals the credentials the
flow issues. The flow calls Google three times (exchange, renewal, identity) and
shares the allowlist and the secret with the middleware. Handlers read the
gate's pointer at each `Validate`, so a reload may fall between two statements
of one call. The pool is shared by the handlers and closed by `Run`. The
handlers and the drain are bounded by independent timers: each statement has a
context of its own, each rollback of PostgreSQL five seconds more (those of the
other engines have no bound), and the drain a context derived from neither.

## 2 The models

| Module | Models | State | Actions |
|---|---|---|---|
| `TokenValidator` | `tokeninfo.go` | `slots`, `cache` (the list), `entries` (keys of the index), `call` (one goroutine each), `now`; Google's `validUntil`, `revokedAt` | one per stretch of `validate` between two points where somebody else may act: `FirstLookup`, `TakeSlot`, `SecondLookup`, `Receive`, `Store`, `RequestFails`; external `GoogleAnswers`, `Revoke`, `Tick` |
| `AuthFlow` | `exchange.go`, `token.go`, `flow.go`, `sealing.go` | what has been sealed (`codes`, `refreshes`, `accesses`, `state`), the running `config` and `secret`, the handlers `req`; Google's record of each grant | `Authorize`, `Callback`, `Exchange`, `Redirect`, `Renew`, `IssueFromRenewal`, `IssueFromCode` and their failures; external `Consent`, `Revoke`, `GoogleVouches`, `Tick`; `Restart` |
| `ToolCalls` | `tools.go`, `db.go`, `execute.go`, the three engines' `withTx`, `missing.go` (when and how often), `errors.go`, `audit.go` | `call` (a handler: place, statement, timers, result), `inUse` (borrowed connections), `sent`, `cleared`, `trail` | `Arrive`, `Validate`, `Begin`, `NoSession`, `QueryReturns`, `TimesOut`, `Rollback`, `Naming`, `Unbuildable`, `Answer` |
| `Server` | `mcpserve.Server.Run`, `reloadGate`, `Gate.Reload`, `Executor.Close`; extends `ToolCalls` | `phase`, `drainFor`, `why`, `term`, `hangup` (the one-place channel), `loading`, the overlay file | `StartReload`, `FinishReload`, `BeginShutdown`, `Drained`, `DrainExpires`, `ServeFails`, `Exit`; `Hangup`, `Term`, `EditOverlay`, `Tick` |
| `AuditedCalls` | the promise of the tool layer (abstract) | `policy`, `running`, and of each call `stage`, `permitted`, `sent`, `denied`, `events` | `Open`, `Permit`, `Deny`, `Send`, `Record`, `ChangePolicy`, `Stop` |
| `Admission` | `middleware.go`, `assertion.go`, `identity.go`, `config.go` of `internal/auth`; extends `TokenValidator` | `config`, `phase`, `request`, `response` | `Load`, `Receives`, `Decide`, `Judge`, and the steps of the validator |
| `Ruleset` | `internal/gate/ruleset.go`: `merge`, `validate`, `compile`, the difference to the baseline, the exemptions | none (operators) | |
| `GateAnalyse` | `internal/gate/gate.go`: `analyse` as a fold over tokens, `Validate`, grants | none (operators) | |
| `Shaping` | `mcp/rows.go`, `db/schema.go`, `db/describe.go`: what is kept of an answer | none (operators) | |
| `Query` | `gate.New`, `Reload`, the log of a load (`mcp/overlay.go`), one decision and one answer; extends the two above | `gate`, `loaded`, `call` | `New`, `reloadGate`, `Ask`, `Approve`, `executeQuery`, `SearchSchema`, `DescribeTable`, `Done` |
| `RedisGate` | `internal/redisgate`: the allowlist and every option parser | none (operators) | |
| `RedisReply` | `redisdb/reply.go`, `redismcp/encode.go`: the bounded reply and its encoding | none (operators) | |
| `RedisServer` | Redis, as far as the code depends on it: what a command replies with and how many elements it walks | none (operators) | |
| `RedisCalls` | `redismcp/tools.go`, `audit.go`, `redisdb/redisdb.go`, `errors.go` | `keyspace`, `writes`, `call`, `events`, `asked`, `sent`, `agent` | `ExecuteCommand`, `ScanKeys`, `InspectKey`, `Execute`, `DeadlinePasses`, `DoFails`, `Failed`, `FailedSince`, the three that receive a reply, `FollowUp`; external `Write`, `RedisReplies`, `HangUp` |
| `MCTokenValidator`, `MCAuthFlow`, `MCServer`, `MCAdmission`, `MCQuery`, `MCRedis` | instances | | |
| `TokenValidatorProofs`, `AuthFlowProofs`, `ServerProofs`, `AuditedProofs`, `AdmissionProofs`, `QueryProofs`, `RedisProofs` | theorems about the module each is named for (`AuditedProofs`: that `Server` implements `AuditedCalls`) | | |
| `Induction` | induction over the natural numbers, and that a finite set of them has a greatest one, for the proofs about recursive functions | | |

Correspondence worth knowing before reading them:

- **A token, a credential, a statement is a model value.** A token stands for its
  SHA-256; a sealed value is a record with the secret it was sealed under, and
  unsealing compares secret and purpose: which set a record belongs to is its
  purpose, and a client may present a member of any of them at any endpoint.
- **Time.** `TokenValidator` and `AuthFlow` have a clock, and each call to Google
  carries the instant by which it ends (the HTTP client's timeout). `Server`
  counts timers down instead, because only differences matter there. In all
  three, `Tick` waits for whoever has reached a bound: this is the assumption
  that Go's timers fire and that a goroutine is not starved for whole seconds.
  `TokenValidator` relaxes it between the two readings of the clock around the
  store by `Pause` ticks.
- **`Handlers.deadline`** is `statementDeadline` (QueryTimeout, plus TimeoutGrace
  where the engine has a bound of its own): one context for all statements of a
  describe, one more per lookup of similar names. It runs while the call waits
  for a connection, as it does in `db.go`. `rollbackBy` is `rollbackTimeout` with
  PostgreSQL, and nothing with the engines of `database/sql`.
- **`QueryReturns`** covers any answer of a driver. A failed lookup and one that
  found names both settle the failure; one that found none leaves it `missing`
  and may lead to the second lookup.
- **`Validate` of `ToolCalls`** asks whether the statement is in `ruleset`, the set
  of statements the ruleset in force allows: its properties hold whatever the gate
  decides. What it decides is `GateAnalyse!Validate`, in `Query`.
- **A statement is its tokens.** The lexer is outside: a statement of `Query` has,
  for each engine, the tokens that engine's lexer yields, or an error. Where the
  engines read one text differently (a quoted name of one is a string of the other)
  its token sequences differ.
- **A ruleset is a record with the lists of the file**, a rule its match, engines,
  identity and the reasons it states. `compile` is what the code compiles, maps and
  sets instead of tries and slices.
- **Sizes stand for contents** in `Shaping` and `RedisReply`: of a row, a name or a
  string only its size in bytes and whether it decodes (or is UTF-8). In `RedisReply`
  a string has a word besides, so that a tool can tell names and types apart; what a
  cut leaves of a name is the word `prefix`.
- **A reply is a tree of at most four levels**, the deepest that a command of the
  allowlist gives. `boundReply` is a recursive function over that set, and the walk
  over the items of one array another; `leaves` and `CappedLeaves` are the reference
  the property compares with.
- **Numbers of Redis commands are words** (`min`, `minus1`, `zero` .. `max`, not a
  number), with `Word` the width of an integer: windows and pages wrap as they do in
  64 bits. `RedisServer` then counts what Redis replies with and walks for the same
  argv, from what the Redis commands do and not from what the gate computes.
- **Admission** composes with the validator: a request that is neither a sealed
  credential nor an assertion becomes a call of `TokenValidator`, and is answered by
  what that call decides.
- **`Unseal` failures, malformed requests and refusals that change no state** are
  the negations in the guards, with the answer the code gives.
- **The refinement.** `Server!Audited` reads a handler's place as the stage of its
  call (before the gate and after the event included), `cleared` as `permitted`,
  the result `refused` as `denied`, `trail` as `events`. `Begin` is `Send`, a
  positive `Validate` or `Naming` is `Permit`, a negative one `Deny`, `Answer` is
  `Record`, `Exit` is `Stop`, `FinishReload` is `ChangePolicy`; everything else --
  pool, timers, rollbacks, signals, drain -- is invisible.
- **History variables** exist only to state properties: `stranded` (AuthFlow), the
  grants whose live refresh token was lost, and how; `early` (RedisCalls); `sent`, `cleared`,
  `spent`, `why` (Server); `vouched` and `holder` inside credentials.

## 3 The runs

Passing (module in brackets where the name does not say it):

| Run | States | What it shows |
|---|---|---|
| `validator_cache` | 194,213 | Two calls, three tokens, a cache of two entries, one slot: with more keys than entries and fewer slots than calls, eviction by age, eviction by capacity, refusal for want of a slot and slot return all happen. `TypeOK`, `SlotsAccounted`, `IndexMatchesList`; under fairness `EveryCallIsDecided`. |
| `validator_race` | 1,382,440 | Two calls hold slots at once, on one token or with a foreign one; an answer may be in flight for a tick and a goroutine lose one, with a TTL of two: every order of answer, revocation, rejection of the other call and store fits. Two calls that missed the cache together both store, so the second refreshes the entry of the first in a cache that is full: `IndexMatchesList` again. `Freshness`, `OnlyOursAccepted`, `RevocationTail`, `ExpiryTail`. |
| `authflow_mix` | 246,952 | Two flows, two users, two configurations that differ in allowlist and registry, a replaced secret: every crossing of state, code and verifier across restarts. `SessionOfItsFlow`, `SecretEndsSessions`, `RunningConfigDecides`, `EveryHandlerAnswers`. |
| `authflow_race` | 599,814 | Two handlers on one session while Google rotates, refuses for its own reasons, a call fails at each point and the account is revoked; four instants, so that code lifetime, access lifetime and call timeout can elapse one after another. `TypeOK`, `RevocationTail`, `GrantReachable`. |
| `server_calls` (`MCServer`) | 167,567 | Two calls of three tools over one connection with real timers (deadline 2, rollback 1, drain 4, so that the drain exceeds deadline plus rollback but not three of them), on PostgreSQL, whose rollback is bounded and whose close waits for the pool. `TypeOK`, `PoolAccounted`, `AuditMatches`, `DrainCoversOneStatement`; under fairness `ShutdownEnds`, `EveryCallEnds`. |
| `server_reload` (`MCServer`) | 1,174,730 | Two rulesets, an overlay that does not load, two edits (so that a signal can meet a reload of older content), two calls between gate and database on two connections of MySQL, whose rollback may never return. `GateBeforeSocket`, `ReloadNotLost`, `DrainBeforeClose`, and the refinement `CallsAreAudited`. |
| `admission` (`MCAdmission`) | 394,326 | One request after another with every credential that has at most one fault, assertions with every pair of times around each comparison and around both wraps, under each configuration that serves and each that must not; tokens expire and are revoked meanwhile. `AdmissionIsGrounded`: whoever gets an identity holds a proof that is good now, and is allowed unless the gateway vouches. `ChallengeIsFinal`: a client is sent to authenticate again only where neither a later instant nor a recovery of Google admits the credential it has. `RefusalNamesTheRemedy`: the converse, with the status of each refusal. |
| `query` (`MCQuery`) | 245,393 | Thirty-five overlays, each of which changes or breaks one thing; statements of up to three tokens over ten words, and about a hundred longer ones; answers at every distance from their budgets. `VerdictIsEarned`: the token walk against a definition of *one read* that speaks of positions and not of flags. `LooseningIsLogged`: a statement that the baseline denies and the rules in force do not is accounted for by the difference that was logged. `AnswersSayWhatTheyLack`: the longest beginning that fits, and every short entry says so. |
| `redis` (`MCRedis`) | 515,269 | Every argv of every command family with its options in every order of two, each against what Redis replies with and walks; replies with nested arrays around the element cap and the byte budget; the three tools beside another writer, with hang-ups, deadlines and network errors at each command. `AdmittedIsBounded`, `KeptIsLongestPrefix`, `TextStaysText`, `RecordIsTrue`, `InspectIsOfOneKey`, `ScanMissesNothing`; under fairness `EveryCallIsAnswered`. |

Violations, each explained in section 6: `authflow_replaced` (`MCAuthFlow`),
`server_verdict` (`MCServer`), `gate_ruleset` (`MCQuery`).

Bounds. `Start`/`MaxTime`, `MaxRotations`, `MaxSecret`, `MaxEdits`, `Pause` bound
counters and the clock, and are named in the modules. `authflow_mix` has no
clock at all (`MaxTime = 0`): its properties compare identities and secrets, and
leaving out time buys the second flow and user. `server_reload` gives timers one
unit, so that they may expire at each point but proportions do not matter to its
properties. Calls are made once each: a handler keeps nothing across requests.
The code's values are 128 entries, 8 slots, 5 minutes and 3 seconds in the
validator; 5 minutes, an hour and 10 seconds in the flow; 4 connections, a 25 s
deadline, 5 s rollback and 30 s drain in the server. Two instances show more
than scale would: what differs between the configurations is which bound is
exhausted first, and the runs make each of them the first once. The proofs of
section 5 then remove the bounds for the safety properties they state: sets of any
size, every value of the limits and timers, clocks that do not stop.

`admission` gives the validator one call, one slot, one cache entry and no time in
flight: what may happen inside it is the question of the two runs above, and the
middleware waits for it in one place. Its integers have eight bits, and the offset
`time.Unix` adds is scaled so that it wraps within them. `query` has 40 bytes for
rows and 24 for catalogs with parts of 1 to 20 bytes, so that the cut falls before,
between and behind each part; two engines are as many as a rule needs to hold on
one and not on the other; two rows open or extend an entry and a third opens
another. The statements up to three tokens hold every pair of adjacent tokens that
the walk compares; the longer ones are built around CTEs, prefixes, set operators
and names of up to five parts. `redis` has `MaxElements = MaxCount = 2` and a byte
budget of 7: an array of three elements and strings of 1, 2, 7 and 8 bytes, of
runes of one byte and of two, meet each of them from every side that a `cut`
distinguishes, an array cut to the cap before a string cut by the budget among them;
`Compact = 1`, `Chain = 2` and streams of no or three groups separate what a command
replies with from what it walks; and three keys in two buckets make
SCAN return a page longer than its count. `MaxWrites = 2` lets a key go and come
back between two commands of `inspect_key`.

Symmetry is used where the set is fully interchangeable and no liveness property
is checked: handlers in `authflow_race`, calls in `server_reload`.

`DrainCoversOneStatement` says of every call that an expired drain cut off that it
was looking for similar names, and requires the drain to be strictly longer than a
deadline plus a rollback. The defaults are exactly equal (30 = 25 + 5): there the
call and the drain end at the same instant, and which wins is the scheduler's
choice.

## 4 Fairness and the liveness properties

- `TokenValidator!FairSpec`, `AuthFlow!FairSpec`: weak fairness of each handler's
  own steps. The runtime schedules goroutines; `RequestFails`, `IdentityFails`
  and their like are enabled as long as a call waits, which is what
  `http.Client.Timeout` gives. Google answering is never fair.
- `Server!FairSpec`: weak fairness of a handler's own steps (`Serve`), of the
  steps of `Run` that nothing disables, and of `Tick`: the clock runs. Strong
  fairness of `BeginShutdown` alone: it competes with `StartReload` in one
  `select`, and Go picks among ready cases at random, so an operator who keeps
  sending SIGHUP cannot keep a pending SIGTERM waiting. The steps of the
  database, the network and the client (`Begin`, `NoSession`, `QueryReturns`, and
  `Rollback` where nothing bounds it),
  the operator's (`EditOverlay`, `Hangup`, `Term`) and `ServeFails` have none:
  calls end because contexts do. A rollback is part of what ends a call, and only
  `pgConn.withTx` bounds it (`postgres.go:294`): `Rollback` is fair, and counts down
  `rollbackTimeout`, where `BoundsRollback` holds. On MySQL and SQL Server
  (`execute.go:109`) it may never happen, and `EveryCallEnds` therefore excepts a call
  that is itself in such a rollback, while `DrainCoversOneStatement` speaks of
  PostgreSQL alone.
- `RedisCalls!FairSpec`: weak fairness of the handler's own `Execute`, `Failed` and
  `FailedSince`, of `DeadlinePasses`, and of `DoFails` once the deadline is past: go-redis returns
  when its context ends. A reply, its reception, a network error before the
  deadline, a hang-up, other clients' writes and the agent's next request are never
  fair.
- `Admission` and `Query` state no liveness: a request there waits for the validator
  alone, and a decision for nothing.
- `server_calls` runs with PostgreSQL, where the exceptions are empty and
  `pgxpool.Close` waits for every borrowed connection, which `sql.DB.Close` does not;
  the safety properties of `server_reload` are checked with MySQL.

## 5 The proofs

Each safety invariant and action property below is proved for every value of the
constants that the named assumptions admit; TLC evaluates the assumptions on every
run. The inductive invariants of `TokenValidator` and `Server` were also checked as
invariants of the runs above, the refinement in `server_reload`.

`TokenValidatorProofs` (1123 obligations), from `CallsAssumption`,
`BoundsAssumption`, `ExpReadingsDisjoint`, `ClockAssumption`:

- *Bookkeeping* is inductive: types, one slot per call in `Holders`, list and
  index equal as sets of keys without duplicates, length within the capacity.
  Lemmas say what `Remove`, `PushFront`, `MoveToFront` do to a list and its
  index. Theorems `SlotsTheorem`, `TypeTheorem`, `CacheTheorem`.
- *Freshness*, on top of it: a positive answer was true when Google wrote it, so
  its call's deadline is tied to the token's revocation and expiry, and so is
  the end of each cache entry. `RevocationTail` and `ExpiryTail` are properties
  of a step; they are not inductive, since they say nothing of what is in
  flight, and follow from `Freshness` at the accepting step. Theorems
  `FreshnessTheorem`, `RevocationTheorem`, `ExpiryTheorem`, `AudienceTheorem`.

`AuthFlowProofs` (1248), from `NamesAssumption`, `ConfigsAssumption`,
`NumbersAssumption`. The server keeps nothing, so the invariant speaks of what it
has sealed and of each handler that may seal more:

- *IInv*: every code, refresh and access token, and every handler from Google's
  answer on, goes back to a flow that was begun under its secret, consented to and
  redeemed, and holds that flow's own grant and identity; a handler's call to Google
  has not timed out. What this refers to only moves onward (a begun flow keeps its
  state, consent and redemption are for good, an account is lost at the present
  moment), so a credential stays good while others act: one lemma for that, and one
  per action for the credential it seals. `RevocationTail` is not inductive: that an
  access token is at most a call and a lifetime from the loss of the account needs
  `vouched <= now` and the call's start in the handler. Theorems `Invariance`,
  `TypeCorrect`, `SessionsNeverCross`, `SecretEndsThemAll`, `RevocationReaches`.
- *Where the live token is*: the live refresh token of a grant is in a sealed value,
  with a handler, or was lost in one of the four ways the code has: with an answer of
  Google that did not arrive, with an identity call that failed after it, with an
  identity the server itself refused after it, or with the process (`Losses`;
  `stranded` records which), kept beside `IInv` (`TokensReachable`).
  `TheRunningConfigDecides` is about the steps that issue.

`ServerProofs` (1657), from `ToolsAssumption`, `LimitsAssumption`,
`OverlaysAssumption`, `ServerAssumption`:

- *CallsInv*: every handler is `Good` (typed; `Gated`: what the gate has allowed
  where the call is; `Ran`: what has been sent where it is; `Recorded`: its
  event) and `inUse` is the number of open transactions, within the pool.
  `GateBeforeSocket` alone is not inductive: that `Begin` sends an allowed
  statement needs that the whole plan was allowed before `begin`, which is
  `Covers(cleared, step)`. `AuditMatches` needs how far a call has come. A lemma
  per action shows that the acting handler stays good and accounts for its
  connection, `OneCallLemma` that this suffices, `TickLemma` and `ExitLemma`
  treat the two actions that touch every call. Theorems `CallsInvariant`,
  `GateFirst`, `PoolIsAccounted`, `AuditIsTrue`.
- *RunInv*: the flags and values of `Run`, that the gates are closed in order,
  that a signal not yet heard or a reload in progress accounts for any
  difference between file and ruleset, and what a finished drain leaves behind.
  Theorems `RunInvariant`, `TypeCorrect`, `ReloadIsNotLost`, `DrainComesFirst`.
- *DrainInv* compares every call's timers with how long the drain has lasted: a
  call that looks for no similar names has `deadline + Elapsed` within a statement's
  deadline, and its rollback within one rollback more; the timers and the drain run
  off together, and the gate takes none of the drain. Theorem `DrainCovers`, for
  every length of the three, on the engine whose rollback is bounded: the theorem
  and the property say so with `BoundsRollback`.

`AuditedProofs` (554), from the same assumptions: `Server` implements
`AuditedCalls`. The mapped state moves with one handler at a time (`ImageLemma`);
a lemma per action names the abstract step it is, from what `CallsInv` says of the
acting handler: that `Begin` is a `Send` needs the plan or the lookup in `cleared`,
that `Answer` is a `Record` needs all of `Gated` and `Ran`, that a refused call has
sent nothing makes its refusal a `Deny`. One more conjunct is needed, `Unasked`: a
call of an unknown alias has been allowed nothing. `RunInv` gives the type of the
ruleset a reload installs. Theorem `CallsAreAuditedTheorem`.

`AdmissionProofs` (902), from `AdmissionAssumption`, `CredentialsAssumption`,
`ClaimsAssumption` and those of the validator:

- The middleware is a caller of the validator like any other: each of its steps is a
  step of `TokenValidator` or leaves the validator alone (`ValidatorIsUnchanged`), so
  everything proved of the validator holds here as it stands.
- *AdmissionInv*: the validator works for a request while it waits and only then; a
  result that waits to be judged is still good, because the clock waits for the
  judgement; an answer is the judgement of the request's credential at some past
  instant, under a configuration that passed `validate`. `AdmissionIsGrounded` is
  about the answering step and takes the instant from it; `ChallengeIsFinal` and
  `RefusalNamesTheRemedy` are about answers that stand, and take what a later instant
  cannot undo. Lemmas say what the wrapping arithmetic of an assertion's times comes
  to, for every width. Theorems `AdmissionsAreGrounded`, `ChallengesAreFinal`,
  `RefusalsNameTheRemedy`.

`QueryProofs` (6376), from `RulesetsAssumption`, `StatementsAssumption`,
`BaselineAssumption`, `BudgetsAssumption`, `ResultsAssumption` and
`CatalogAssumption`. The first two, and the types in the last two, say what a file,
a lexer and a decoded row are. The other two are facts of the code:
`BaselineAssumption`, that the compiled-in rules passed `validate`
(`BaselineRuleset`) and do not say of one keyword on one engine both that it
introduces a statement and that it does not; `CatalogAssumption`, that the rows of a
schema search come ordered by table, which their `ORDER BY` does (`mssql.go:199`,
`mysql.go:160`, `postgres.go:206`; two names the catalog's collation holds equal are
one name to it). Nothing is assumed about the order in which a describe is answered.

- `analyse` is a recursive function over the tokens. `WalkLemma` shows that it has a
  value for statements of every length, and *Consistent* what it has established after
  `i` tokens without a terminal obstacle: the depth of the parentheses, no separator
  behind which something follows, no forbidden word or name so far
  (`CleanAt`), as many body and prefix flags as the first word explains
  (`CountsParts`, `BodyAhead`), and the set of unknown calls. At the end this is the
  definition of a single read that the property compares with.
- *GateInv*, *CallInv*: the gate in force is what `compile` makes of its source, and a
  decision that is not stale is the one it gives. Theorem `VerdictsAreEarned`: for
  every baseline, overlay, statement and grants, whatever lists the rules hold.
- *Two walks* (`LooseningsAreLogged`): the baseline's and that of the rules in force
  go over the same tokens. `Traced` says, until the second meets a terminal obstacle:
  the depths are equal; an obstacle that only the baseline has met comes from a rule
  that the diff shows as removed or replaced; and while the diff touches no rule that
  introduces a body or makes a function safe, flags and unknown calls agree. It takes
  of `merge` and `validate` that a rule of the baseline which is in the diff neither
  as removed nor as replaced is in force with its engines, and that the later of two
  rules of one name decides.
- *Answers* (`AnswersAreHonest`): `execute_query`, `search_schema` and
  `describe_table` are folds over rows, each a recursion that is first shown to have a
  value (`Solvable`) for any number of rows. Then an invariant per stage: sums of
  sizes only grow, so the rows kept of a query are the most that fit; after each read
  of a describe its entries show of every table exactly the columns, keys and indexes
  read so far (`Shows`), and charging shortens the last entry that fits and no other
  (`ChargedSoFar`); the entries of a search are complete until the budget is met
  (`Growing`) and from then on each is whole for its table or the last one, and cut
  (`Settled`), which is where the order of the rows is needed.

`RedisProofs` (4957), from `LimitsPositive`, `RedisAssumption`,
`KeyspacesAssumption` and `ArgvsAssumption`, that an argv is a sequence:

- *RInv* (`RecordsAreTrue`) counts events against argvs where the call is, and is
  independent of the gate and of the replies. What it says of kinds is kept between
  the two contexts that `classify` reads one after the other: a call that is
  `classifying` had not been hung up on when its command ended.
- *KeptInv* (`RepliesAreKept`, `TextsStayText`): what waits to be received is a reply
  with whole strings and at most four levels, which is proved of every reply
  `RedisServer` gives to an argv the gate admits (`RepliesLemma`), and then what is
  shown is what `BoundReplyLemma` says: a text stays a text, unless it is the last
  leaf kept, cut by the budget, of a reply that the element cap had cut before.
  Its induction is over the levels of a reply:
  `boundReply` and the lists of leaves have a value on one level if they have on the
  one below (`LevelsLemma`), and on every level the leaves kept are a beginning of
  all leaves, the last one cut to what is left, or all of them (`Keeps`, `Ends`);
  `WalkLemma` and `Sofar` carry this along the items of one array. Sums and
  concatenations of leaves have lemmas of their own.
- *The gate* (`VisitsAreBounded`, `AdmissionsAreBounded`). `Options` is a recursion
  over positions with the slots filled so far; it has a value because each turn moves
  on (`LoopLemma`), and *Filled* holds of its result: a slot that is filled has the
  position of an option of its own whose value was checked. The first check that
  refuses decides (`FirstLemma`) and none answers with the verdict of an allowed
  command, so an argv is allowed only when all checks of its family passed, and those
  checked the numbers that Redis will read: one lemma per family for the window, the
  count, the limit or the number of arguments, and `RepliedLemma`, `WalkedLemma`,
  `AttachedLemma` over all names of the allowlist. `VisitsAreBounded` says this for
  any sequence, a value of any length and a stream of any groups, the theorem about
  runs adds that what is on its way was allowed.
  `RepliesLemma` uses it too: what Redis replies to an allowed argv has a length.
- *ScanInv* (`ScansMissNothing`): every key that existed all along in a bucket behind
  the agent's cursor has been seen, and a page on its way holds those of its buckets.
  It needs of the reply that a page called whole is whole, which `KeptInv` gives.
- *InspectInv* (`InspectionsAreOfOneKey`): the fields read so far are those of the key
  as it is, unless somebody wrote to it. Its hypothesis `InspectionAdmitted`, that the
  gate lets the commands of `inspect_key` through, is evaluated by `MCRedis`; under
  limits so low that it fails, the tool answers with a refusal for every key.

Induction. The library's induction theorems take operators as parameters, which the
provers cannot instantiate. `Induction` (48) therefore states induction of sets: from
`WFMin` and `NatLessThanWellFounded`, a set of naturals that holds 0 and is closed
under successors holds them all. Each proof about a recursive function defines the
set of numbers up to which its claim holds; that a function with the given recursion
exists on all of them is such a claim as well, and has to be proved before the
definition can be used.

Only model-checked, and why:

- all liveness (`EveryCallIsDecided`, `EveryHandlerAnswers`, `EveryCallEnds`,
  `ShutdownEnds`, `EveryCallIsAnswered`): reasoning about fairness and ENABLED is out
  of the prover's reach. Every safety property of a passing run has a theorem.

## 6 Where the code and its documentation differ

| Run | The text says | The code does |
|---|---|---|
| `gate_ruleset` | a safe function whose name is a forbidden keyword disables that rule, so it has to be argued for on the rule (`ruleset.go:336-339`) | `validate` keeps "every engine" as an empty list and appends to it: a second allowance of the same name for one engine leaves a list of that engine alone (`ruleset.go:328`), the overlap with the keyword on the others is not seen, and the overlay loads |
| `authflow_replaced` | "an upstream hiccup must not evict every connected client" (`flow.go:362`) | if Google replaces the refresh token and the identity call then fails (`token.go:241`), the only live token goes with the handler, and the retry that the 503 asks for is answered `invalid_grant` |
| `server_verdict` | the verdict is "copied from the decision that produced the outcome" (`audit.go:79`) | `describe_table` asks the gate again after its statements (`db.go:432`); a reload in between is audited |

What does hold beside each: the loosening of `gate_ruleset` is still in the logged
difference (`LooseningIsLogged`); a live refresh token is lost in the four ways of
`GrantReachable` and in no fifth; `AuditMatches` and `CallsAreAudited` say what the
event of an answered call does say.

Differences that were met without a run of their own; the properties state the rule as
the code has it, and name the exception:

- `invalid_grant` "is the answer only when this server or Google has actually decided
  the grant is unusable" (`flow.go:359`), but `renew` reads every status from 400 to
  499 as that decision (`exchange.go:484`): 408, 429 and a refusal of the server's own
  client included (`RenewalRefused` has no other guard). The live token is not lost
  with it (`GrantReachable`).
- "A schema-qualified name matches only that same qualification" (`README.md:512`),
  but `qualifiedName` joins the parts with dots (`gate.go:511`) and a delimited
  identifier keeps its own (`lexer.go:220`): the call `[dbo.f](...)` passes under the
  safe name `dbo.f`, and `VerdictIsEarned` compares names as they are joined.
- "rollbackTimeout bounds the rollback issued on the way out of an execution"
  (`execute.go:66`), but `runSQLTx` rolls back without a context (`execute.go:109`): with
  MySQL and SQL Server nothing in the repository bounds it (section 4).
- A deadline is "the command outlived its deadline" (`redisdb/errors.go:31`), but a
  caller who hangs up between the two contexts that `classify` reads
  (`errors.go:102-105`) is recorded as one: `KindIsTrue` says of that kind that the
  deadline passed or the caller has gone.
- A byte budget cut inside a rune keeps the valid prefix (`encode_test.go:65`), but not
  when an array was cut to the element cap before: the first reason is kept
  (`reply.go:52`) and `encodeReply` trims under `byte_budget` only (`encode.go:22`), so
  the text goes out as base64. `TextStaysText` excepts that last leaf and nothing else.
- With a seconds-left `exp` a cache entry outlives its token by the time the answer
  was in flight, at most the client's 3 s, though the cache "never outlives the
  token" (`tokeninfo.go:369`); `ExpiryTail` bounds it.
- Each query is audited (`README.md:8`), except one whose process ends on an expired
  drain; `AuditedCalls!Stop` is the only way to such a loss.
- The default drain is long enough "that an ordinary in-flight call finishes"
  (`mcpserve/config.go:52`): a failed query that looks for similar names may take three
  deadlines and three rollbacks; `DrainCoversOneStatement` says whom a drain can cut
  off, where the rollback is bounded.
- "An Identity only exists for an address whose `email_verified` was true"
  (`identity.go:45`), but the gateway's assertion is admitted by its own checks alone
  (`middleware.go:210`, as `README.md:5` says): `AdmissionIsGrounded` states the rule as the code has it.
- The budget is "the most bytes" of an answer (`tools.go:80-82`): columns that alone
  exceed it are sent all the same, without rows and reported as `byte_budget`, even
  for a result that had no row.

## 7 Not modelled

- Inside Google, browsers, database engines, drivers and go-redis: external, as
  the code sees them. The SDK's own HTTP behaviour, and requests on connections
  accepted before the shutdown, are not modelled.
- A client that hangs up is a failed call (`NoSession`, `QueryReturns`): the
  handler runs on and is audited the same.
- `list_connections` reads configuration only. Rendering of rows, logging and
  wording of messages; errors of `json.Marshal` on values that have just been
  made marshalable.
- A crash of the process other than the end of `Run` in `Server`; `AuthFlow`
  restarts at any point.
- Cryptography: sealing, PKCE and signatures are ideal.
- The lexer: it is about every byte string, which small instances hardly reach, and
  the repository fuzzes it. Likewise the scanners and the ranking of `missing.go`,
  and the rendering of driver values (`jsonValue`).
- The names `list_databases` returns, the two `list_connections`, the reading of
  environment variables, construction and wiring, discovery documents, logging.
- The components marked `not_modelled` in `PROJECT.json`, each with its reason.

What the newer modules assume, or show beside their properties:

- *Gate.* A forbidden dotted name matches only when written bare or in full, at most
  four parts; the baseline has none of that kind. Of two rules with the same match
  the later one decides. Grants are empty on every path of the server: `Approve` is
  what a caller of the package does with `Decision.Pending`.
- *Shaping.* Catalog rows come grouped by table, as their `ORDER BY` makes them.
- *Admission.* A nil sealer or validator cannot be reached after `validate`. An
  assertion of a trusted gateway dated further ahead of the instant of judgement than
  the skew is challenged although waiting would help it too.
- *Redis.* With `MaxElements = 1` every `scan_keys` fails, since SCAN replies with
  two elements; a page longer than `MaxElements` at a count of one leaves an agent
  at its cursor; a byte budget smaller than a type name makes `inspect_key` read a
  cut name. A key that expires between the commands of `inspect_key` gives a ttl of -2
  or an error, and one that is replaced an answer about both: the code promises
  nothing else, and `InspectIsOfOneKey` is about keys nobody wrote to.
  The gate does not bound the area of a GEOSEARCH, which Redis collects before it
  counts, nor the consumer groups of a stream; `AdmittedIsBounded` says so. Its other
  bounds count elements, not bytes, and HSCAN and ZSCAN may exceed their count by the
  last step of the cursor (`Chain`).
- *Server.* Drivers are taken to honour a statement's context. The goroutine with
  which `database/sql` itself rolls back a transaction whose context has ended is not
  separate from the deferred rollback: both are `Rollback`, which nothing bounds.
- *Names.* A token is the sequence of what the dots in it separate, as far as names
  are compared; what else a delimited identifier may hold is opaque.

## 8 The plan

Done: `TokenValidator`, `AuthFlow`, `ToolCalls` and `Server`; the abstract
specification `AuditedCalls` with the refinement and its proof; `Admission`;
`Ruleset`, `GateAnalyse`, `Shaping` and `Query`; `RedisGate`, `RedisReply`,
`RedisServer` and `RedisCalls`; the proofs of section 5. What is left:

1. The lexer and the scanner of `missing.go`, as far as classes of characters carry a
   property.

Pure algorithms are written as recursive functions or folds, without RECURSIVE,
wherever a theorem is planned.
