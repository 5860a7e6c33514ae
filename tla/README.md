# Verification of the Blockchain-Python backend

TLA+ models of the stateful parts of this repository (`src/app`, a FastAPI
backend of about 15,000 lines), TLC runs on small instances, and TLAPS proofs
for every value of the constants.  Every definition is written from the code;
`PROJECT.json` maps each one to its lines.

## 1. Inventory

The services live in asyncio processes (`src/app/main.py` builds most of them in
its lifespan, the Ethereum and Bitcoin services have applications of their own,
and routers take them from `app.state`); several such processes may run against
the same PostgreSQL, Redis and DynamoDB.  Within one process the code between two
`await`s that really suspend is atomic, except for the handlers of the auxiliary
services: they are plain functions, which run in a thread pool.

| Component | State | Operations | Hard behaviour | What makes it correct |
|---|---|---|---|---|
| Ethereum RPC failover (`blockchain/ethereum/infrastructure`) | one circuit breaker per provider: state, failure count, date of last failure | `_call_with_failover`, `_guarded`, `record_success/failure`, lazy `state` | calls overlap: snapshot of availability used after awaits, late answers, timeouts | state agrees with count; no provider forgotten; priority; quarantine; the primary comes back |
| Authentication tokens (`auth_service.py`, `auth/api`) | signed JWT (client side) and a row of `auth_tokens`; a pool of 5 connections | generate, validate, revoke; `get_current_token` = verify, SELECT, DELETE | requests racing with one token, pool waits, crash between statements, lost answer of a DELETE | a token admits at most one request; a refusal is deserved; nobody waits for ever |
| Provider health (`HealthService`) | one row per provider: status, last block, date of the check | `check_health`, `_is_stale`, `_safe_upsert` | overlapping checks, late answers and writes, failing repository | no invented staleness; (not kept: stuck nodes are found, last block is the most recent) |
| Market data (`defi/infrastructure/market_data`) | one breaker per adapter, a Redis counter per provider and minute | `MultiMarketDataProvider._call_with_failover`, `RedisRateLimiter.check_and_increment`, the adapters' retries | retries inside failover, window changes and counters expire under a running call, Redis failing half-way | budget per window; an all-failed answer is earned; every call ends |
| Template catalog (`TemplateCatalogService`) | templates by id: status, content, version, parent, approval | create, clone, seed, update, archive, submit, approve, activate, deprecate, bump | read-check-write of whole records from several processes | approvals cover the content; lineages end; retired templates do not come back; (not kept: names are unique) |
| Bitcoin node service (`blockchain/bitcoin`) | a breaker per node, rows of node health | `GET /health` (all nodes at once, then the height), `GET /network` (three failover calls) | requests move each other's breakers between two calls of one response | the halves of a response belong together unless a node failed |
| Auxiliary DynamoDB services (`aux/application`) | tables for sessions, KYC profiles, rate limits, users, metadata, audit, positions, candles | queries through indices, then writes by key without conditions, in a thread pool | read-modify-write races, indices that lag, items deleted meanwhile | "active" is earned; a logout is final; no version or count is invented; a record stays reachable |
| DynamoDB table scripts (`src/queries/dynamodb`) | the tables and their indices | four scripts, run one after the other, again after a failure | tables that exist are skipped with the indices they lack | after a clean run every query has its index |
| Recommendation choices, LLM reorder | choices in DynamoDB, a copy in PostgreSQL; the catalog they list | list, reorder, save | the model's answer is arbitrary; the catalog changes meanwhile; the copy may fail; a crash between the saves | nothing invented or lost; DynamoDB holds what was confirmed; (not kept: choices do not disturb the listing) |
| Recommendation, diagnosis, journey | a history of diagnoses; nothing between requests | start, select strategy, select template | each request diagnoses again, the first with a language model and the others by keywords | no dead end; the plan is for what was chosen; the history tells the answer |
| Wallet sessions, sanctions guard | Redis sessions with a TTL; a deny list | connect, get, disconnect | guard and service read the address separately | a sanctioned account has no session |
| Platform secrets (`defi/.../platform_secrets_service.py`, `admin_router.py`) | one row per key | create, update, delete | statements that wait for each other's row | no silent replacement, no lost description, no false conflict |
| Quotes and indices, chain adapters, chain configuration, contract generator, routers, persistence mappings | none of their own, or not reachable | translation to web3, SQL, HTTP | - | section 7 |

Interactions: routers call `get_current_token` first, then a service.
`HealthService` calls the same provider objects, and so the same breakers, as
the failover (`Probe` in `RpcFailover`).  The Bitcoin service and market data use
twins of the breaker class, which is why `CircuitBreaker` is a module of its own.
The journey calls diagnosis and then recommendation; the choices read the
catalog and, in one wiring, share its table; the DynamoDB services query the
indices the table scripts create.

## 2. Modules

| Module | Models | EXTENDS / instantiates |
|---|---|---|
| `CircuitBreaker` | the breaker as a record and one operator per method | |
| `CircuitBreakerLemmas` | proofs about those operators | `CircuitBreaker`, `TLAPS` |
| `RpcFailover` | concurrent calls and probes over breakers | `CircuitBreaker` |
| `RpcFailoverProofs` | theorems of `RpcFailover` | `RpcFailover`, `CircuitBreakerLemmas` |
| `OneTimeToken` | abstract: what a one-time token promises | |
| `AuthToken` | the token service, statement by statement | instantiates `OneTimeToken` |
| `AuthTokenProofs` | theorems of `AuthToken` | `AuthToken`, `TLAPS` |
| `HealthService` | the health checks of one provider | |
| `HealthServiceProofs` | theorems of `HealthService` | `HealthService`, `TLAPS` |
| `MarketData` | failover, rate limiter and retries of the adapters | `CircuitBreaker` |
| `MarketDataProofs` | theorems of `MarketData` | `MarketData`, `CircuitBreakerLemmas` |
| `TemplateCatalog` | the catalog service over one store | |
| `TemplateCatalogProofs` | theorems of `TemplateCatalog` | `TemplateCatalog`, `TLAPS` |
| `TokenModel` | pure: the rules for token models | |
| `NodeRequests` | the two requests of the Bitcoin service over its failover | `CircuitBreaker` |
| `PlatformSecrets` | one secret under concurrent transactions | |
| `DynamoTable` | a table whose indices lag, and unconditional writes | |
| `AuxSessions`, `AuxKyc`, `RateLimits`, `AuxUsers` | the auxiliary services, their handlers in threads | `DynamoTable` |
| `SchemaDeploy` | the table scripts against the queries of the services | |
| `Diagnosis`, `Recommendation` | pure: keywords and replies to a category; strategies, scores, rankings, plans | |
| `Journey` | the three routes of the journey | `Diagnosis`, `Recommendation` |
| `Choices` | listing, reordering and storing choices | |
| `WalletSessions` | wallet sessions behind the sanctions guard | |
| `AuxServices` | the auxiliary services, the table scripts and the Bitcoin requests side by side | `NodeRequests`, instantiates the others |
| `AuxServicesProofs` | its theorems, a section for each part | `AuxServices`, `CircuitBreakerLemmas` |
| `Flows` | the journey, the choices, the wallets and the secrets side by side | `PlatformSecrets`, instantiates the others |
| `FlowsProofs` | its theorems, a section for each part | `Flows` |
| `MCAux`, `MCFlows` | the two for TLC, one part at a time | `AuxServices`; `Flows` |
| other `MC*` | instances for TLC; `MCHealthStale` adds one history variable | the above |

### State and actions against the code

**CircuitBreaker.**  `_last_failure_time` is kept as an age, saturating at the
first value past the recovery timeout; the count saturates at `MaxFailures`
(bound), at least the threshold.  `state` is a property with a side effect
(OPEN becomes HALF_OPEN when read late enough); `Peeked` is that read and every
action that reads the state in the code applies it.

**RpcFailover.**  A call awaits only the answer of the provider it has sent a
request to, so one step is everything between two answers: `Begin` is the
snapshot `_available()` plus the first request; `Fail` is `record_failure`, the
`continue`, and the walk past providers whose `_guarded` raises at once;
`Succeed` is `record_success` and the return.  `rest` is the part of the
snapshot not yet reached; `fate` and `result` remember what the call saw, so
that properties can speak of it.

**AuthToken.**  Each statement has its wait for a connection (`Acquire...`), its
execution and its failure (`...Fails`: a failed DELETE or INSERT may have been
executed).  `expires` is both the JWT's `exp` and the row's `expires_at`, tested
with `<=` and `<` as PyJWT and the code do (`exp` is cut to whole seconds; the
unit of the clock is that second).  `Crash` loses everything but the rows.
Tokens with bad signatures and wrong credentials end before any shared state is
touched and are left out.  The branch of `get_current_token` without a service
cannot be reached in the application (`lifespan` always sets it).  Expired rows
are never deleted by the code, nor by the model.

**HealthService.**  One provider; `block` and `draft` are the locals of a check.
`NodeAnswers` is the moment the node reads its head, `ReadRecord` the arrival of
that answer together with the repository read.  `still` is a history variable:
how long the node had stood at that block, as far as it can be known.

**MarketData.**  `Metered` and `Attempts` say which adapters have a limiter and
how often they try.  A try charges the counter (`Incr`), waits for the `EXPIRE`
too if the count is one (`SetExpiry`), sends, and on a `RateLimitError` from
counter or answer pauses and tries again.  `Escapes` is every exception outside
`_FAILOVER_ERRORS`.  `counter` is the key in Redis: what it counts, whether an
`EXPIRE` has given it an end (`mortal`), whether it has ended once (`expired`), and,
as history, what was `sent` on its charge.  A key lives 60 s from its `EXPIRE`, so
it ends in the window after its own, perhaps under an `INCR` that still names it
(`KeyExpires`), which then starts again at one.  Only the current window and the
last are kept (bound: `INCR` and `EXPIRE` of a try are over by the end of the
window after its own), and the last one only while a call names it.  Of an
answered call nothing is remembered.

**TemplateCatalog.**  An operation is a read-and-check step that prepares the
record, then `Write` (or `WriteFails`).  `clone_template` reads twice.  The store
has the semantics of `InMemoryTemplateRepository` (reads see the last write);
the interleaving is that of several processes on one such store, for one user.
`stale` is a history variable: another worker has written the id since it was
read.  Descriptions, characteristics, rules and token model are one `content`;
`_validate_token_model_consistency` is membership of `Consistent`.  `TokenModel`
has the rules themselves, and what `create_template` makes of a request;
`MCTemplateCatalog` takes its contents from it, and TLC evaluates on small models
that a default model is never refused, that correcting the decimals adds no
error, and that what passes the rules keeps within its cap.  One seed
stands for the list of them, and names that differ only in case are one name.

**NodeRequests.**  The failover of `RpcFailover` written smaller (a call waits for
one node, `rest` are the nodes after it), because here the question is about
several calls of one request.  `StartHealth`, `CheckOne`, `CheckSucceeds` and
`CheckFails` are the concurrent probes, `GetHeight` the call that follows them;
`GetNetwork` begins the three calls, of which `left` remain.  `failed` is a
history variable.  The lifespan makes one node, and the factory takes a list.
The Ethereum service makes two such calls in `/network`; the composition is the
same and is modelled here.

**DynamoTable and the auxiliary services.**  Handlers are plain functions that
FastAPI runs in threads, so every call to DynamoDB is a step of its own.  The
services find items through global secondary indices only, which DynamoDB
updates later: a table keeps for each item the versions its indices have not
passed (`MaxLag`, a bound), a query reads the first, a write appends to the last.
An update of a deleted item creates an item with the key and the attributes it
sets (`Orphan`).  All indices of a table move together, and no index that the
modelled queries use shows an orphan; the sessions' index on `expires_at` would,
and no modelled operation queries it.  Session durations and counts are small
numbers; `touched`, `granted`, `increments`, `written`, `deleted` and
`overlapped` are history variables.  A resolved user stands for
`_resolve_user_id` by e-mail; the services that store a record for a user, or
for a symbol, differ only in the `kind` of the record.

**SchemaDeploy.**  The state is which indices each table has; a script is a loop
over tables, each of which is created (or skipped if it exists), gets its missing
indices, or fails, as in the script.  `OldTables` are the tables, without
indices, that an older deployment left.

**Diagnosis, Recommendation, Journey.**  Texts are sets of keywords,
`Diagnose` is the first category, in the code's order, of the greatest weight;
`Descriptions` in `MCFlows` reach every category, ties, keywords inside others,
and none.  Scores are in hundredths, and Python's stable sort is `Ranked`.  The
strategies and the seed templates are the tables of the code.

**Choices.**  `waiting` is where a request has stopped: for the model or for
Postgres.  A reply is any short sequence of names, listed or not, or no answer.
Two wirings: templates in memory, as the default, or read from DynamoDB.

**WalletSessions.**  `Writings` are the ways an address can be sent; the guard and
the service normalise it separately (`IsSanctioned`, `Valid`).  `screening`
is `compliance_screening_enabled`, either value; disabled, the guard lets all pass
and `SessionsScreened` says nothing.

**PlatformSecrets.**  `seenId` is the row a statement has found when it began;
`owner` and `draft` are the uncommitted transaction.  Every other statement on
the row waits (its actions are disabled) and then looks at the row again.

## 3. Runs

| Run | Instance | Checks | Result |
|---|---|---|---|
| `rpc_failover` | 2 callers, 2 providers with priorities against configuration order, threshold 2, recovery 1 | `TypeOK`, `BreakerAgreesWithCount`, `FailoverComplete`, `PriorityRespected`, `Quarantine`, `PrimaryRejoins` | hold, 46,683 states |
| `auth_token` | 2 tokens, 2 requests, pool of 1, TTL 2, clock to 3 | `TypeOK`, `AtMostOnce`, `RefusedOnlyIfBeaten`, `ImplementsOneTime`, `EveryRequestEnds` | hold, 222,132 states |
| `health` | 2 overlapping checks, threshold 2, 2 blocks | `TypeOK`, `StaleIsGenuine` | hold, 36,777 states |
| `health_stale` | 1 check at a time, nothing fails | `StaleBlockDetected` | violated |
| `health_last_seen` | as `health` | `LastSeenIsMostRecent` | violated |
| `market_data` | 2 calls, one metered adapter with 2 tries and one unmetered with 1, 2 requests per window, threshold 1, recovery 0 | `TypeOK`, `BudgetRespected`, `FailureIsEarned`, `EveryCallEnds` | hold, 394,842 states |
| `market_error` | same adapters, no limiter, threshold 2 | `NoClientFacingError` | violated |
| `template` | 2 processes, a seed and one more id, 2 names, 3 contents of which 2 are consistent, 1 bump | `TypeOK`, `ApprovalCoversContent`, `LineageEnds`, `SetBackOnlyByRace` | hold, 1,000,239 states |
| `template_names` | 1 process, same sets | `NamesUnique` | violated |
| `aux_services` | 2 threads or requests and 2 rows per table; lag 2 (sessions and users 1), clock to 2, 3 increments, 1 record; 2 nodes, threshold 2, recovery 0; tables of an older deployment or none, 1 failure | `AuxTypeOK`, `ActiveIsEarned`, `LogoutIsFinal`, `VersionsAccounted`, `LostOnlyByReset`, `NeverOverCounted`, `RecordsReachable`, `RightUserUpdated`, `EveryQueryHasIndex`, `HeightLostOnlyByFailure`, `MixedOnlyByFailover` | hold, 512,984 states |
| `flows` | 29 objectives, the replies of the model; 2 requests, 2 choices, 2 templates, replies of up to 2 names, both wirings; 2 addresses of which one sanctioned, screening on or off, TTL 2; 2 transactions, 2 row ids, 2 descriptions | `FlowTypeOK`, `NoDeadEnd`, `PlanIsForChoice`, `HistoryTellsAnswer`, `ReorderIsComplete`, `CopyFollowsChoice`, `SessionsScreened`, `SecretKept` | hold, 109,672 states |
| `choice_listing` | as `flows` | `TemplatesStayListed` | violated |

`aux_services` and `flows` hold several services that share no state
(`AuxServices`, `Flows`, where their steps interleave).  For TLC a variable
`focus`, chosen at the start, says which of them a behaviour exercises: the state
space is their sum and not their product.  The proofs are about `AuxSpec` and
`FlowSpec`, where every part moves.

**Why the bounds are enough.**  Two callers are what it takes for a snapshot to
go stale and for answers to arrive out of order; two providers with crossed
priorities exercise order, failover and exhaustion; a threshold of 2 separates
"one failure" from "open", a recovery of 1 separates "too early" from
"elapsed"; the saturations are one past the value compared with.  For the token
service two requests on one token are the race, two tokens check that a request
is not judged by another's row, and a pool of 1 is the smallest that could
deadlock.  The clock reaches past the TTL.  In `market_data` a limit of 2 tells the
count that is followed by an `EXPIRE` from the last one allowed, and two calls are
enough for one to be late while the other has let the counter expire.  The breaker in `market_data` is at
its smallest because its own transitions are checked and proved elsewhere.

`LineageEnds` is checked with two ids only, where a chain has one link; three ids
and two processes exceed the time of a run.  The proof has no such bound.

### What the violations show

* `health_stale` — README.md:317 says stale blocks are detected.  `_is_stale`
  compares the threshold with the time since the last *check*, and every check
  renews that date, so a node that is polled more often than the threshold may
  stand still for ever and be reported healthy.
* `health_last_seen` — the migration says the column holds the most recent block
  fetched.  A failed check writes NULL, and overlapping checks may write an
  older block last.
* `market_error` — the kanban's acceptance criterion asks for failover with no
  client-facing error.  Network errors, 4xx answers and unexpected bodies are
  not among `_FAILOVER_ERRORS`.
* `template_names` — names are looked up as sent and stripped when stored, so a
  padded name makes a duplicate.
* `choice_listing` — the choice repository's comment calls its marker one "to
  distinguish from template catalog items".  The choices lie in the table the
  template repository scans, and `list_all` there does not look at the marker:
  after one choice it meets an item that is no template.

Also seen while modelling, and kept in the models as the code has it: half-open
admits any number of requests; a late success closes a breaker opened by newer
failures; the market data loop does not ask a breaker again after its snapshot
(no quarantine there); an `INCR` that reaches Redis after the counter of its
window has expired starts it again, and late calls can so send up to twice the
limit on the charge of one window (`BudgetRespected` says exactly when), although
github-kanban.md:453 wants the limits of the plan respected; a request may be admitted after its token expired if it
waited for the second connection; whole-record writes from two processes lose
updates (`SetBackOnlyByRace` says precisely when that can be); two KYC increments
that overlap, or follow each other faster than the index, count as one
(`overlapped` in `VersionsAccounted`); one e-mail address or one wallet may get
two users in the same way (`RecordsReachable`); the strategy route falls back
silently to the best strategy for a code it does not find, which happens to an
offered strategy when model and keywords disagree (the hypothesis of
`PlanIsForChoice`).

## 4. Fairness

* `RpcFailover`: `WF(Succeed(c) \/ Fail(c))` — httpx has a timeout, so each
  request ends one way or the other; `WF(Tick)` — time passes.  Nothing obliges
  anyone to begin a call: `PrimaryRejoins` takes "calls keep beginning" and "the
  primary fails only finitely often" as hypotheses.
* `AuthToken`: weak fairness of the steps of each request and generation.  The
  event loop runs ready tasks, statements end, and asyncpg's pool serves waiters
  in order (weak fairness suffices with finitely many requests, each of which
  holds a connection for one statement).  No fairness of `Present`, `Sign`,
  `Tick` or `Crash`.
* `MarketData`: weak fairness of each call's steps; HTTP, Redis and the pause
  are finite (`SetExpiry` is one of them).  No fairness of `Begin`, `KeyExpires` or
  `NextWindow`.
* All other modules: only safety, no fairness.

## 5. Proofs

All theorems hold for every value of the constants that satisfies what its
module says of them in its `ASSUME` (in a module that others instantiate, a
definition such as `KycAssumption`, which the `ASSUME` of `AuxServices` or `Flows`
names).  TLC evaluates each of them.  They are: numbers are naturals, the
threshold is at least 1 and at most the saturation bound, lags are at least 1,
sets of tokens, of requests and of rate limit items are finite, and the markers
for nothing (`None`, `Gone`, `Orphan`, `NoTable`) are none of the values they are
told from.  A text contains finitely many of the keywords.  One of them says
something of the system: an older deployment has
tables without indices only among those that `add_dynamodb_gsis.py` and
`add_gsis_extra.py` upgrade (`OldTables`, `Upgraded` in `SchemaDeploy`).  For
another table the scripts have no remedy, since a creation skips what exists.

**`CircuitBreakerLemmas`** — every operation returns a breaker; every operation
preserves "closed exactly while fewer failures than the threshold" (this needs
`Threshold <= MaxFailures`: the bound must not hide the opening); reading twice
is reading once; a failure never shortens a quarantine.

**`RpcFailoverProofs`**
* `TypeCorrect` — `TypeOK` is inductive.
* `FailoverIsComplete`, `PriorityIsRespected` — from the inductive invariant
  `IInv`: for each call, the providers still queued are exactly `rest`, at most
  the provider being asked is `sent`, a call that is idle has neither
  (`Accounted`); and a waiting failover call has every better provider refused or
  failed while all of `rest` comes after it (`Ordered`).  The properties alone
  are not inductive, because they do not say where the providers that are not
  yet decided are.  The loop, which appears in `Begin`, `Probe` and `Fail`, is
  treated once (`SendAccounts`, `GiveUpAccounts`).
* `StateAgreesWithCount` — every step applies one of the breaker's operations to
  each breaker or none (`BreakerStep`), and all of them keep the agreement.
* `QuarantineHolds` — an action property: a step that puts a request in flight
  has found the breaker not open, and within the timeout a read does not change
  that.

**`AuthTokenProofs`**
* `TypeCorrect`.
* `AdmittedAtMostOnce`, `RefusalIsDeserved` — from `IInv`: where a request may be
  (`Placed`), that a token's row exists from its issue until a request has taken
  it (`Kept`), and that at most one request took it, after which the row is gone
  for good (`Spent`, `TakenOnce`).
* `KeepsThePromise` — refinement: `rows` are the live tokens, a DELETE that took
  the row is `Spend`, `Settle` on success is `Admit`, INSERT is `Issue`, every
  other step stutters.

**`HealthServiceProofs`**
* `TypeCorrect`.
* `StalenessIsGenuine` — the verdict compares the age of a record with a
  threshold, the property speaks of how long the node has stood still.  `IInv`
  relates the two: no record, stored or about to be written, is older than its
  block is as the head of the node (`NotAhead`), nor than what a check that got
  the same block knows (`NotOlder`, `AnswersAgree`).  All ages saturate at one
  bound, which the arithmetic of `OlderFacts` has to respect.

**`MarketDataProofs`**
* `TypeCorrect` — not inductive by itself: a call that pauses must have a try
  left (`Tired`).
* `BudgetIsRespected` — an action property, from `Charged`: what is sent on a key
  is covered by what it counts, up to the limit, and by the limit once more after
  it has expired (`Covered`); a call that waits for the `EXPIRE` of a key has its
  charge still to spend and is the only one that waits for it (`Owing`); a key that
  has an end counts something and has not expired before, so that it expires at
  most once.
* `FailureIsDeserved` — what is known of each adapter agrees with where the call
  is (`Walked`): the queued ones are in `rest`, the tried one is `at`.

**`TemplateCatalogProofs`**
* `TypeCorrect`.
* `ApprovalIsForContent` — the rules hold of drafts in flight (`DraftsSound`) as
  well as of stored templates, since a draft is written whole.
* `OnlyRacesSetBack` — an action property: a draft that no other worker has
  overtaken does not set back the record it replaces (`Follows`).
* `NoEndlessLineage` — `LineageEnds` says that each set of stored templates has
  one whose parent is outside it, which is how "no cycle" is said without paths.
  It is inductive with `Descends`: the parent of a draft is that of the record it
  will replace, or a template that is stored while the draft's id is not.

**`AuxServicesProofs`**, where the parts share no variable and each has an
invariant of its own module's specification, which `AuxSpec` implies
(`KycFollows`, ...).  The lemmas on tables come first: what a write appends, what
an index drops when it catches up, and that the last version, which is what the
table holds, is not lost by that.
* `ServicesTyped` — `AuxTypeOK`, from all the invariants together.
* `NoVersionIsLost` — `KycInv`: a thread about to raise a profile goes no further
  than the increments acknowledged (`RaisesInOrder`); while nothing overlapped it
  is alone and goes exactly one further (`OneByOne`).
* `ActiveNeedsUse`, `LogoutLasts` — `SessionInv`: every version of a session, shown
  or not yet, was used no later than `touched` and lasts no longer than `granted`
  (`Earned`), and an id about to be written for a new session is nobody else's
  (`CreatesAnew`).  The logout itself is an action property of the writes.
* `IndicesComplete` — `DeployInv`: what the running script has done so far and what
  those that have ended did (`DoneSoFar`), that nothing is ever taken away
  (`Grows`), and that a table which no script upgrades was created whole
  (`CreatedWhole`).  The thirteen tables and their loops are evaluated by lemmas
  of their own (`TablesListed`, `LoopsListed`).
* `RecordsStayListed`, `StatusReachesUser` — `UserInv`: no item changes its wallet or
  address (`SameUser`), what a thread has resolved stays so (`Founded`), and while
  no creations overlap, a user about to be created is not there and all others
  are in the index (`InTurn`).
* `NoIncrementIsLost`, `CountsAreWritten` — the table's sum is a fold, and a proof
  by induction over the fold is out of reach; so a count of n is taken as the n
  pairs `<<item, 1>>`, ..., `<<item, n>>`, its grains, and a sum of counts is the
  cardinality of their union (`SumIsGrains`, by a smallest counterexample).
  `LimitInv`: the grains of all versions, old ones included, are no more than the
  increments (`AllGrains`), those of the last versions as many unless an item was
  deleted (`HeldGrains`), and an item is created once (`OnceMade`).
* `TypeCorrect`, `HeightNeedsFailure`, `MixNeedsFailover` (of `NodeRequests`) - the
  nodes a request may trust, those that answered it and have not failed since,
  have closed breakers whatever the other requests do (`TrustedClosed`), so that
  every failover call has them in reach (`AllInReach`) and comes to them in order.

**`FlowsProofs`**, in the same manner.
* `TypeCorrect`, `SecretsAreKept` (of `PlatformSecrets`) - the uncommitted row keeps
  what it must of the committed one (`DraftFollows`), its transaction found a row
  if it needs one (`Owned`), and a request remembers truly whether there was a
  row (`Remembered`).
* `SessionsAreScreened` — `WalletInv`: a connect that waits for Redis has passed the
  guard, where screening is enabled, with the account it will store
  (`ConnectsScreened`, `Admissible`).
* `ReorderKeepsAll`, `CopiesFollowChoices` — `ChoiceInv`: a waiting copy is of a stored
  choice with the same name (`CopiesHold`).  That the
  filtered reply and what it misses have the same elements as the listing, for
  replies of any length, is a lemma on the filter (`ThoseAre`), whose recursion on
  positions is followed by way of a smallest counterexample.
* `HistoryIsTold`, `PlanFollowsChoice` — `JourneyInv`: what the client has been offered
  is what its last diagnosis yields, and what it was shown is what its last
  choice yields.
* `FlowsTyped` — `FlowTypeOK`, of all four parts.  For the journey (`JourneyTyped`)
  it takes lemmas on the operators: a ranking has as many entries as it ranks and
  each is one of them (`RankedOnly`, from `EveryRank`: in a finite set with a
  strict order each rank is taken, by a pigeon-hole argument); the first greatest
  of the scores exists, so that every text has a category (`DiagnosisIsCategory`);
  each category's strategies are one or two of known codes (`Menus`), which is
  also why a client can send a code that is not offered.
* `NoJourneyIsStuck` — the action property `NoDeadEnd`, for every text, industry and
  size: each of the 14 codes is the kind of one of the 11 seeds (`SeedsListed`),
  which scores at least 40 for it whatever the category (`ScoreEnough`), and what
  a strategy shows depends on its code alone (`TemplatesOfCode`).

`Ranked`, `CATEGORY_STRATEGIES`, `strategy_map` and `CategoryScore` are written with
ranks, cardinalities and one function over all codes: the provers know nothing
of `SortSeq`, of `@@` or of sums over sets.

**Only model-checked.**  Liveness under fairness (`PrimaryRejoins`,
`EveryRequestEnds`, `EveryCallEnds`) is outside what the prover does.  Every
invariant and every action property that a passing run checks is proved.

## 6. Plan

The modules planned at the outset are written, and the safety properties that
the passing runs check are proved.  What a next step would take up: `RpcFailover`
as an abstract specification of `NodeRequests`; that a ranking is in order and
lists nobody twice, as lemmas on `Ranked`.

## 7. Not modelled, and why

* Quotes and indices: their repositories open each connection with
  `async with await asyncpg.connect(...)`, which asyncpg's connection does not
  support, and the price oracle that is wired is never fed.  What the service
  answers then depends on asyncpg, not on this code.
* Chain adapters (Uniswap, Chainlink, web3): stateless translations to external
  calls, which no lifespan wires.
* Chain configuration and the Redis wrapper: reads of the settings, and thin
  calls; the wallet sessions model the Redis they use.
* `contract_generator.py`, `token_services.py`: string templates.
* Routers, schemas, `main.py`: wiring and error texts; the guards that matter sit
  in the modelled handlers, and the wiring decides which repositories the
  modules consider.
* Template persistence, but for the listing in `Choices`: the DynamoDB mapping
  reads `characteristics.category`, a field the entity does not have, so that it
  never writes a template, and the PostgreSQL repository, which nothing wires,
  does not have the signatures of the interface.  The catalog is therefore
  modelled over the semantics of the in-memory repository.
* The staleness of a Bitcoin node against its row: written as in the Ethereum
  service, and modelled there.
* Reasonings, features, risks and steps of recommendations: wording.  Searches,
  reads of a secret's metadata and the audit log: they change no modelled state.
* Cryptography, HTTP and SQL themselves.
