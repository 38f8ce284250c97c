# Fireworks2API: a TLA+ model of the gateway

Fireworks2API is an OpenAI- and Anthropic-compatible gateway in front of the
Fireworks API. It holds a pool of Fireworks keys, chooses for every client
request an ordered list of candidate keys, tries them one after another until
one answers, and remembers what failures say about keys and accounts.
Administrators change the pool while requests are in flight.

The process is one asyncio event loop. Its state lives in SQLite, behind
`app/control/repository.py`, where every method is one synchronous transaction.
Two consequences carry the whole model: a handler is atomic between two
`await`s, and everything it remembered before an `await` may be stale after it.

All paths below are relative to `app/` unless they start with another directory
of the repository.

## Inventory

### Key repository: `control/repository.py`, `platform/storage/db.py`
State: tables `keys` (name is the primary key, fingerprint is UNIQUE),
`fireworks_key_snapshots` (by fingerprint), `fireworks_account_quota_snapshots`
and `fireworks_account_cooldowns` (by account), `response_key_routes` (by
response id), and further tables for logs, models, settings and debugging.
Operations: upsert, delete, rename and rotate a key, enable and disable, key and
account cooldowns, snapshots (two transactions: the key's row, then the quota
columns copied to the account's row), response routes.
Hard: a fingerprint links three tables without foreign keys, so every change of
a secret must forget what hangs on it; quota columns are merged column by column
from two rows of different age; routes keep name and fingerprint but are followed
by name only. Correct when fingerprints stay unique and no snapshot or route
outlives its secret.

### Sticky routing: `dataplane/routing/sticky_router.py`
Stateless over the tables and the clock. Healthy keys are grouped in buckets (the
account, or the fingerprint of a key of unknown account), gated buckets drop out,
the rest are ordered by rendezvous hashing and handed out round robin.
Correct when a used-up account gets no request, failover spreads over buckets
before it returns to one, and a client keeps its key while that key is usable.

### Failures: `dataplane/fireworks/error_contracts.py`, `dataplane/routing/failover.py`
A failed answer is classified by an ordered list of rules over status, keywords
of the text and exception kind; the class decides failover, cooldown and
disabling; the scope (key or account) is decided with the account the snapshot
table names at that moment. Hard: keywords can override the status, and the
decision about a key that was chosen earlier is applied by name later.

### Proxy: `dataplane/fireworks/proxy.py`, `dataplane/fireworks/stream_proxy.py`
Per request: the selected candidates, the index, `blocked_account_ids`, the
one-shot retry without `previous_response_id`, the last error, the log row.
Steps: send, fail and move on, skip blocked accounts, succeed, stream, finalize.
Hard: administrators, other requests and restarts at every await; several exits
that must each write one log row. Correct when every request is answered once
and logged once with the same status after at most `MAX_UPSTREAM_ATTEMPTS` keys,
gives up only when no candidate is left, and always ends.

### Responses handlers: `products/openai/responses.py`, `products/openai/context.py`
Choose the candidates: the key a response is bound to, or the router's; drop a
route when Fireworks no longer knows the response; bind new responses.

### Key administration: `products/admin/keys.py`
Create (single and bulk, with or without a validating probe that is awaited),
patch, enable, disable, clear a cooldown, delete, and clean up invalid keys.
The clean-up lists the keys once, deletes the malformed ones and those of
accounts listed as exhausted, probes the others one after another, and forgets
quota and cooldown of the accounts that have no key left.
Hard: checks before the probe, writes after it, by a name listed earlier.
Correct when a clean-up never forgets what is known of an account that still has
a key, and never deletes a secret it has not judged.

### Start-up: `platform/bootstrap.py`, `main.py`
Stores the environment's keys, one transaction each, if the table is empty or
syncing is on; an IntegrityError ends the process. Hard: a crash between two
keys; rows of earlier runs that administrators changed.

### Quota refresh: `products/admin/fireworks.py`
A call lists the keys, takes a global lock, and starts one task per chosen key; a
task takes a slot of a semaphore, asks Fireworks for the key's account, takes the
lock of that account, asks for the quota or copies a row that another task has
just refreshed, leaves the lock, and stores what it learnt. A refusal may disable
the key or all keys of the account; an exception keeps the columns of the key's
snapshot, if it has one.
Hard: nested locks; a background call, administrators' calls and changes of the
pool at each await; the row is stored after the lock is released. Correct when
every call ends, a task disables only keys its answer is about, and a failure to
ask opens no account that is known to be used up, except through a key without
snapshot.

### Stream conversion: `products/openai/responses_stream.py`, `products/anthropic/responses_bridge.py`
Per streamed answer a generator of `dataplane/fireworks/stream_proxy.py` feeds the
upstream's bytes to a transform and yields what it emits; on a regular end the
transform is flushed, on a read error or when the client goes away it is not.
Three transforms keep state between events: Chat Completions chunks become
Responses events, irregular Responses events are completed, held back or dropped
for the client, and Responses events become an Anthropic message.
Hard: the upstream interleaves items, leaves out announcements and endings,
repeats pieces after an item was closed, or stops anywhere. Correct when every
item is announced once, filled while open and closed once, the terminal event is
the last one and lists what was announced, no finished call is lost, and a stream
that ends without a terminal event still gets one.

### Payloads: `products/openai/responses_priority_fallback.py`, `products/openai/fireworks_native/responses.py`
What `POST /v1/responses` makes of a body: a chat request for models that are
unstable on the Responses endpoint and for the priority tier, else a request in
the native form; and an answer of the chat endpoint rewritten as a response.
Hard: replayed conversations whose calls and outputs are apart, missing or
repeated. Correct when every call that reaches Fireworks is followed by its answer
and every output has its call.

### Web search loop: `products/openai/websearch_loop.py`
State per request: the round, the input so far, the items of every round. A round
asks Fireworks, runs the searches it called for and asks again with the results;
the tool is offered in every round, and an answer that still searches in the last one
is given back with the searches that were run. Hard: the input is rebuilt every round
and `previous_response_id` is dropped after the first. Correct when every search is
answered once and the loop ends after the configured rounds.

### Usage accounting: `dataplane/usage.py`, `dataplane/usage_estimator.py`
Token counts of a request out of bodies, stream events, headers and estimates.
Hard: several formats and partial reports. Correct when no count that is read is
lost, estimates lower none, and they are marked.

### Catalogue and lookup: `products/admin/models.py`, `control/model_resolver.py`
State: the table `model_mappings`. Operations: create, patch (with a rename),
delete, import, seed at start-up, look up. Hard: aliases are unique without regard
to case, while the table's key is the spelling, and a rename is two transactions.
Correct when no two rows differ in spelling only and a disabled model is enabled
by a patch only.

### Settings: `platform/runtime_config.py`, `products/admin/config.py`
State: the settings object of the process and the table `settings`, which overrides
the environment at start-up; the affinity secret is made once. Correct when a
restart brings back what the process used.

### Request log and billing: `control/repository.py`, `products/admin/requests.py`, `overview.py`, `costs.py`, `cache.py`, `billing.py`
State: rows up to a retention, totals that outlive them, imported billing rows.
Operations: insert with eviction, seed the totals of an older database, the pages.
Hard: the test of failure exists in Python and in SQL, and totals and rows are
two truths. Correct when the pages agree with each other.

### Others
Client affinity (`dataplane/routing/affinity.py`), HTTP clients and headers,
authentication, admin pages. PROJECT.json says of each component whether and how
it is modelled; its "hazards" list what is hard to test, line by line.

### Interaction
The routers of `products/` build a context, ask sticky routing for candidates
and call the proxy. The proxy calls Fireworks and, after each await, failover and
the repository. Admin handlers, refreshes and start-up write to the same
repository. Requests share no other state, and only refreshes take locks, against
each other. A transform belongs to one stream, a search loop to one request.

## Modules

| module | code | state and steps |
|---|---|---|
| `KeyStore` | `control/repository.py` | no variables; a database is a record of tables, each repository method an operator from database to database |
| `StickyRouter` | `dataplane/routing/sticky_router.py` | operators: `Healthy`, `Bucket`, `Gated`, `Open`, `SelectCandidates` |
| `ErrorContracts` | `error_contracts.py`, `classify_upstream_failure` | operators over answers: `ErrorType`, `Decision` |
| `Failover` | `dataplane/routing/failover.py` | operators: `ApplyFailureToCandidate`, `Retryable` |
| `KeyPool` | `products/admin/keys.py`, `bootstrap.py` | `db`, `now`, creations in flight, start-up progress; one action per handler, two for handlers that await |
| `KeyCleanup` | `cleanup_invalid_keys` of `products/admin/keys.py` | `cleanups`: the keys left, the one being probed, `cleaned_accounts`; one step from await to await |
| `QuotaRefresh` | `products/admin/fireworks.py` | `calls` (lock holder and waiters) and `tasks` (stage and payload so far); one action per stretch between awaits |
| `Maintenance` | the three above together | clean-ups, refreshes, administrators, start-up and restarts over one database |
| `RequestContract` | the promise of the proxy | abstract: `stage`, `tries`, `answer`, `rows` per request |
| `Gateway` | `proxy.py`, `stream_proxy.py`, `responses.py` | `KeyPool` and `Failover` plus `req`, one record per request; one action per stretch between awaits |
| `ResponseEvents`, `MessageEvents` | what the readers of a stream rely on | abstract: `begun`, `items`, `ended`, `last`; one action per kind of event |
| `ChatStream` | `ChatCompletionsToResponsesSSE` | operators: a converter and a chunk give a converter and events (`Feed`, `Flush`) |
| `NativeStream` | `ResponsesSSECanonicalizer` | the same for Responses events (`Canonicalize`) |
| `MessageStream` | `ResponsesToAnthropicStreamAdapter` | the same for Anthropic (`Adapt`, `FlushMessage`) |
| `Streams` | `build_passthrough_stream_response` | one stream: `conv` the transform's state, `sent` what the upstream sent, `pending` what is on its way, `items` what the client has read |
| `Catalogue` | `products/admin/models.py`, `model_resolver.py` | `models`, and of a handler in progress `put`, `left`, `seeds`; one step per transaction |
| `RuntimeConfig` | `runtime_config.py`, `products/admin/config.py` | `memory`, `stored`, `updates`; one step per stored setting |
| `RequestLog` | log and billing | operators over a log of rows and totals |
| `Records` | the three above with start-up and crashes | `up`, `log`, `billing` |
| `ChatFallback`, `NativeAdapter` | `responses_priority_fallback.py`, `fireworks_native/responses.py`, the choice in `responses.py` | operators: `Path`, `ChatPayload`, `NativePayload`, `SynthesizedOutput` |
| `Selections` | `WHERE` and list comprehensions | one recursive function, `Where`: the elements of a sequence at given places, in their order |
| `SearchLoop` | `websearch_loop.py` | `search`: phase, round, what was asked, what is answered; one action per await |
| `UsageAccounting` | `usage.py`, `usage_estimator.py`, the collector of `stream_proxy.py` | operators: `Reported`, `Accounted`, `LoggedUsage` |
| `KeyPoolProofs`, `GatewayProofs`, `MaintenanceProofs`, `RecordsProofs`, `ContractsProofs`, `StreamsProofs`, `FallbackProofs`, `DataProofs` | | lemmas and theorems, see Proofs |
| `Contracts` | the algorithms without shared state | `answer`, `body`, `search`, `tally`: one input of one of four kinds, which grows step by step, and the properties of `ErrorContracts`, `ChatFallback`, `NativeAdapter`, `SearchLoop` and `UsageAccounting` |
| `MCKeyPool`, `MCGateway`, `MCMaintenance`, `MCStreams`, `MCRecords`, `MCContracts` | | instances for TLC |

`Gateway` EXTENDS `KeyPool` and `Failover`, which EXTEND `StickyRouter` and
`KeyStore`. `Maintenance` EXTENDS `KeyCleanup` and `QuotaRefresh`, and so `KeyPool`
and `Failover`: failures of requests and maintenance meet in the same operators,
but no instance runs both, which would multiply two large state spaces.
`Gateway` implements `RequestContract` under the mapping `Stage`,
tries, status and log rows (`KeepsContract`). `Streams` EXTENDS the three
transforms and implements `ResponseEvents` for converted chat completions and
`MessageEvents` for Anthropic messages; a native stream has no abstract
specification, since what is irregular on the way in may stay so on the way out.
`Records` EXTENDS `Catalogue`, `RuntimeConfig` and `RequestLog`: a logged request
reads the retention of the settings.

Abstractions. Names, secrets, accounts and response ids are model values; a
fingerprint is its secret. sha256 rendezvous scores are two arbitrary injective
rankings per route key, one of buckets and one of keys. Time is a number of
seconds that only `Tick` moves. An error text is the set of keyword families that
occur in it. Of the quota columns the gate's inputs are kept: the status, whether
the summary has budget left, and the status code. Cooldown 0 stands for NULL.
In `Gateway` the text of log rows, usage figures and traces are left out. Refresh timestamps are
left open: whether a snapshot is stale, and whether an account's row is recent
enough to copy, is a free choice. The clean-up goes through the keys in any order.
A lock has no variable: its holder is the task in the stage the lock protects,
since `async with` leaves it on every exit. In `Streams` texts, names and
arguments are there or not; an event has a type, the place of its item and the
item's kind. Item stages, not bytes, are what the contracts speak of. In
`ChatFallback` and `NativeAdapter` a text is a number and a call its id. Settings
that differ in nothing but their name are represented by four of them. In
`RequestLog` one column of tokens stands for each of the three, and rows are kept
in the order of insertion. In `SearchLoop` Fireworks answers any sequence of at
most `MaxOutputs` outputs. The tokenizer is any of three kinds: absent, failing, or
one that counts.

Definitions preceded by a comment that begins with "Mutant" are plausible
defects, used only to show that a property notices them.

## Runs

| run | instance | shows |
|---|---|---|
| `routing` | 3 keys, 2 accounts, 2 route keys with opposite rankings, 2 attempts; five pools: all good, account exhausted, cooling, suspended, refused with 412 | `ExhaustedAccountIdle`, `FailoverSpreads`, `StickyPrimary` |
| `admin` | an empty pool and two pools with room; 3 administrators' calls, 2 overlapping creations, 1 restart at any moment; an environment that names one key twice | `PoolTypeOK`, `FingerprintsUnique`, `SnapshotsOwned`, `RoutesOwned`, `BootSyncs` |
| `failover` | 1 request of every kind (plain, streamed create, create, delete) against 9 classes of failure, 3 candidates, one administrator's call, one restart | `GatewayTypeOK`, `ExhaustsCandidates`, `KeepsContract` (refinement), `EventuallyAnswered` |
| `races` | 2 requests that overlap, one administrator's call (also a creation with an awaited probe) and one tick; failures 401, 402, 429 with and without quota | `AccountCooldownGrows`, `NoSecondStrike`, `FailureContained` |
| `contracts` | every status the rules name and a neighbour of each range, with all 128 combinations of keyword families, and every kind of missing response; conversations of up to 4 items, replayed answers of the fallback included, on each path a body can take; the search loop with 2 rounds and answers of up to 2 outputs; reports of tokens over up to 2 events in every combination of parts and headers | `FailureLeavesMark`, `ThrottlingNeverDisables`, `NoResponseFailsOver`, `CallsStayPaired`, `SearchesPaired`, `ReportedCountsStand` |
| `streams` | chunks with any mixture of reasoning, text and up to two calls out of order; native answers with two calls, a text and a call, or reasoning, their events in any order and incomplete; bridged answers with two items of different kinds; every stream cut off at any point | `StreamTypeOK`, `FallbackKeepsContract` and `BridgeKeepsContract` (refinements), `AnnouncedFirst`, `WholeCalls`, `FinishedCallsArrive`, `FinalListsItems`, `StreamsEnd` |
| `records` | 3 aliases of which two differ in case only, 2 default models, imports that respell and swap; 3 administrators' calls, 2 requests, a crash between any two transactions; logs of an older version | `AliasesUnique`, `ResolvedAsListed`, `DisabledStays`, `SettingsPersisted`, `AffinityStable`, `PagesAgree` |
| `maintenance` | pools of one or two keys of one account, in order, exhausted, refused and cooling, with a malformed key or one of unknown account; up to 2 refresh calls (forced or automatic), one clean-up, one administrator's call, one restart; refusals 401, 412 and 503, exceptions with and without a word of authentication, auto-disabling on or off | `MaintenanceTypeOK`, `RefreshContained`, `OutageOpensOnlyUnknown`, `CleanupNeverReopens`, `RefreshEnds` |
| `resend`, `cleanup_rotated`, `uncounted`, `question_lost` | see Findings | one property each that TLC refutes |

Why the bounds are enough. Three keys in two accounts are the smallest pool in
which "another key of the same account", "a key of another account" and
"a key of unknown account" all exist. Two route keys with opposite rankings let
every bucket come first. Two creations in flight are what a check-then-write race
needs, and a third call lets an administrator change what they collide on. Two
requests suffice for every race over one key or account, since a request's writes
are single transactions. In `maintenance` the constant `Loads` says what one
behaviour mixes: each load pairs two kinds of actor, for the hazards are between
two (a refresh and an administrator, a clean-up and a refresh, two refreshes and a
restart, a clean-up and an administrator). Two keys of one account are what the
account's lock, the disabling of siblings and orphaned accounts need, and one key
more or less tells an account that is emptied from one that is not. One clean-up
suffices, as two share nothing but the database. With a semaphore of 2 both tasks
of a call overlap, and with one of 1 (the load `Narrow`) one waits for the other's
slot. Exceptions whose text speaks of throttling are left out of this instance:
for them the code re-reads the account's state from the summary, and may call it
unknown by design. Ticks of 60 seconds against cooldowns of 15, 120 and 3600 let
the short ones expire and the long ones overlap.

In `streams` two items are what interleaving, a wrong index and a call beside a
text need, and one event per stage of each is what the upstream can leave out; the
length of a text does not matter to a transform, which keeps no count of it. Two
indexes in either order tell a converter that confuses a call's index with its
output index. In `records` three calls let an import meet a rename and a deletion,
two requests with retentions of 1 and 2 evict a row or keep both, and one crash
suffices, as nothing of a handler survives it. In `contracts` four items hold two
calls with two outputs in any order, or one call with an output, a text and a
repetition; two rounds are one whose searches are followed by another request and
one whose searches end the loop; two events give a later report the chance to lower an earlier
one, and the payloads have every combination of the four parts a report may come in,
with the larger numbers in either. In `records` the billing page lists two imports
instead of ten (`RecentImports`), so that three calls reach one it no longer lists.

`MaxNow`, `MaxAdminOps`,
`MaxAdding` and `MaxRestarts`, a load's `admin` and `restarts`, `Calls`, `Requests`,
`Restarts`, `MaxItems` and `MaxEvents` bound the counters in the guards. Runs stop when the bounds are used up, so deadlock is
not checked; that requests, refreshes and streams do not get stuck is
`EventuallyAnswered`, `RefreshEnds` and `StreamsEnd`.

Fairness. `FairGatewaySpec` assumes weak fairness of `Proceed(r)`, what a request
does once Fireworks answers: httpx calls have timeouts, so an await ends with an
answer or an exception, and the event loop resumes a task that can run. Nothing
is assumed of clients, administrators, restarts, the clock, or the end of a
stream, whose length is the upstream's. `FairMaintenanceSpec` assumes weak fairness
of `RefreshMoves`, all that refreshes do once they are started, for the same
reasons: management calls have timeouts, and the event loop resumes a task whose
lock or slot is free. Nothing is assumed of which task goes first. `StreamSpec`
assumes weak fairness of `Deliver` and `FlushTransform`: the server goes on with the
generator as long as its client reads. Nothing is assumed of the upstream, which may
send nothing more for ever, so `StreamsEnd` speaks of streams the upstream closed.

## Findings

* `resend`: if the retry without `previous_response_id` fails retryably, the next
  candidate is asked with the missing id again (`dataplane/fireworks/proxy.py:212`).
* `cleanup_rotated`: the clean-up deletes by name after its probe; a key rotated
  during the probe loses its new secret unprobed (`products/admin/keys.py:346`).
* `uncounted`: the arguments of a call that is held back for sub2api are never
  collected, so an answer of calls only whose terminal event has no token count
  reaches the client without one, although it is estimated "so the downstream
  client never sees zero output tokens" (`products/openai/responses_stream.py:910`).
* `question_lost`: a search loop replaces an input that is a string by an empty
  list and drops `previous_response_id`: its second round is asked without the
  question (`products/openai/websearch_loop.py:306`).

Other behaviours were met while modelling. No text promises the contrary clearly
enough to check it, or the models contain them without a property; some are hazards
in PROJECT.json.

Keys and routing:
* `create_key` checks the name before it awaits the probe and upserts by name after
  it: the second of two overlapping creations replaces the first one's key
  (`products/admin/keys.py:41`), and its snapshot overwrites the quota row of an
  exhausted account (`products/admin/keys.py:57`).
* A route is followed by name only, so a response bound by a request in flight
  during a rotation is later routed to another secret (`control/repository.py:341`).
* A refresh under way stores the snapshot of a key that was deleted meanwhile
  (`products/admin/fireworks.py:662`), and a 503 of the management API replaces an
  account's known exhaustion (`fireworks.py:326`). An exception keeps it for a key that
  has a snapshot. For a key without one the payload so far is stored, with the quota
  `unavailable`, and opens the account that was just learnt (`fireworks.py:587-589`,
  `626-662`); an exception whose text speaks of throttling may open it in either case.
* An environment secret that is stored under another name makes every syncing
  start-up fail (`control/repository.py:151`).
* A key chosen before an administrator disabled it is still tried by a request in
  flight; disabling an account's keys overwrites the reason `admin_disabled`
  (`failover.py:78`); a late network error shortens the cooldown of a key of unknown
  account (`failover.py:106`); only healthy keys' snapshots gate a suspended account
  (`sticky_router.py:195`); the cooldowns an administrator configures are not what
  `failover.py:41` applies.

Streams, payloads and usage:
* Items of a Responses stream that overlap are not kept apart by the Anthropic
  bridge: with `Interleaved = TRUE` `BridgeKeepsContract` does not hold. Fireworks
  sends them one after the other, and the run assumes it.
* The retry without `previous_response_id` keeps the outputs whose calls were in the
  response it no longer names (`responses.py:45-63`). The search loop binds the ids
  of intermediate responses only, and drops a client's own call in a round that
  searched. Of two outputs of one call the last one wins.
* Reported counts are to be left alone by estimates (`usage.py:391`, `411`). If input or
  output is missing, `maybe_estimate_usage` takes the larger of report and estimate for
  both (428-434), so that a reported count may be raised; `ReportedCountsStand` allows
  it there and nowhere else. Tool messages are counted twice (245-249).
* Of a payload `extract_usage` reads one usage and the metrics beside it
  (`usage.py:158-173`): a `usage` hides the `response` altogether, a usage of the response
  hides the metrics of the payload, and metrics of a response without a usage are not
  read. `HiddenParts` of `Contracts` names what is lost in this way.
  `prepare_log_payload` never hands on `estimated` (`products/openai/logging.py:14`).

Records:
* `request_log_retention: null` is stored and makes every later insertion fail.
* The billing page sums up all rows and lists the ten newest imports only
  (`control/repository.py:1502`): with more of them the list falls short of the totals.
* A crash between the two transactions of a rename loses the mapping, and one in
  the middle of the seeding leaves defaults that are never completed.

## Proofs

TLAPS proves 39 theorems; each states a property some run checks, for every value
of the constants and every bound. The assumptions are those the modules name:
`NoneAssumption` (None is not a value of another type), `KeyPoolAssumption` (types;
what an earlier run left has unique fingerprints), `RankAssumption` (scores have
no ties), `GatewayAssumption` (a failed answer has a status of an error, or none),
`CatalogueAssumption`, `ConfigAssumption`, `RecordsAssumption` (types; default models
differ in more than case; no patch names the affinity secret), `StatusesAssumption`
(statuses are numbers), and the types in `CleanupAssumption`, `RefreshAssumption`,
`MaintenanceAssumption`, `SearchAssumption`, `StreamAssumption`, `ReportsAssumption`
(parts, headers and contents are numbers) and `RecentAssumption`. `RowsAssumption`
types the rows of requests, older versions and imports: counts of tokens and a
retention are not negative, as the handler of the settings demands (0 stands for a
retention of null). Four hypotheses stand in theorems:

| hypothesis | where | why |
|---|---|---|
| `IsFiniteSet(Names)` | requests, routing | a table has finitely many rows |
| `CooldownsRecent` | `LateFailuresKeepCooldowns` | a cooldown an earlier process stored was counted from its own time, which is past |
| `NoThrottling` | `OutagesOpenOnlyUnknown` | see the instance of `maintenance`: throttled exceptions may call an account unknown by design |
| `~Interleaved` | bridged streams | see Findings: without it the property is false |

`KeyPoolProofs`: `PoolTypeCorrect`, `FingerprintsStayUnique`,
`SnapshotsGoWithTheirSecret`, `RoutesGoWithTheirSecret`, `StartUpsSync`.
Its first part proves of each repository method that it returns a database, keeps
fingerprints unique when the written secret is free, and keeps ownership (`Owned`).
`Kept(d, e)` says that `e` is in order whenever `d` is, and one lemma per handler
shows `Kept(db, db')`. The invariant is `PoolTypeOK` with unique fingerprints:
neither half is inductive for `Owned` alone, because a deletion forgets by secret,
which is right only if no other row carries it. The two theorems about ownership
suppose it of the databases an earlier run left; `EmptyInOrder` shows that the empty
one is such a database. `StartUpsSync` needs what a start-up has stored so far: of
the keys it has passed, each name has the secret given last (`StoredUpTo`), which
the next key extends (`StoreNext`), also when it repeats a name.

`KeyPoolProofs`, routing, for finitely many names: `UsedUpAccountsStayIdle`,
`FailoverAlwaysSpreads`, `ClientsStayWithTheirKey`. `select_candidates` sorts twice,
keys within a bucket and then all keys by round and bucket, and the model counts
predecessors instead. `RankOnto` says once that counting the predecessors in a
strict total order of a finite set gives every number below its size, once
(the pigeonhole argument is `FS_Injection` of the library). From it come the rounds
of a bucket (`RoundOrder`), the places of all keys (`PlaceOrder`) and what is
selected (`Selection`). Spreading follows since the second key of a bucket comes in a
later round than the first key of any; stickiness since the front key has the best
bucket and the best score in it (`FrontKey`), which no other key can change.

`GatewayProofs`: `GatewayTypeCorrect`, `FingerprintsStayUniqueUnderLoad`,
`RequestsExhaustCandidates`, `FailuresStayContained`, `NoAccountFailsARequestTwice`,
`LateFailuresKeepCooldowns`, `GatewayKeepsContract`. `GatewayInv` adds to the pool's
invariant what a request knows of itself (`Consistent`): while it waits for
Fireworks the candidates up to the current one are those it tried or skipped, what
it skipped is owed to an account it blocked, and it has a log row when, and only
when, it was answered. `ExhaustsCandidates` alone is not inductive, as nothing in it
says where a request in flight is. The refinement of `RequestContract` has one lemma
per action; the failing answer is the hard one, as it may go on, skip any number of
candidates, resend, give up or be passed on, in one step. Containment follows from
`Affected`, computed with the database the failure found and not the one the
request was chosen with; that an account is not asked twice, from its being
looked up when a candidate is tried and not when it was chosen. That late failures keep cooldowns rests on a fact about the numbers:
the one cooldown a handler gives an account is the longest, so that no stored one
is later than it (`CooldownsBounded`).

`MaintenanceProofs`: `MaintenanceTypeCorrect`, `FingerprintsStayUniqueInMaintenance`,
`CleanupsReopenNoAccount`, `RefreshesStayContained`, `OutagesOpenOnlyUnknown`.
`MaintenanceInv` adds to the pool's invariant what survives an await: a clean-up
that probes knows the key it listed, and a task that waits for an account's lock has
an account. `Disables` and `Shrinks` say once what a refresh and a clean-up may do to
the tables; one lemma per handler shows it. That an outage opens no account but
the one it learnt for a key without snapshot follows since what is known of any other
key is read again when its failure is stored, merged with its account's row
(`MergedBlocks`), and since no class of exception but throttling turns a blocking
status into another kind (`RaisedBlocks`).

`RecordsProofs`: `AliasesStayUnique`, `ModelsFoundAsListed`, `DisabledStaysDisabled`,
`SettingsStayPersisted`, `SecretNeverChanges`. `AliasesUnique` is not inductive, since
a rename stores its row a transaction after it deleted the old one: `CatalogueInv`
adds that the row to be put, and every default that is left to be seeded, has an
alias that is free. `ModelsFoundAsListed` follows from unique aliases: the lookup by
exact spelling and the one by any spelling meet the same row. `SettingsInv` says
that memory and database agree at all times, not only between two calls.

`RecordsProofs`, the log: `PagesStayInAgreement`. `LogInv` says of the totals that they
are those of the rows that are retained and of some rows that are gone (`Outlived`): an
eviction moves a row from the first to the second, and start-up seeds the totals of an
older database with nothing gone. Nothing less is inductive, since the rows alone do not
tell the totals. It needs `RetentionInv`, that every retention in memory, stored or about
to be, is a number. The pages then agree by computation: each number a page shows is a
total over a filtered list, the filters of one page split the list by a label (a key, an
alias, a usage type), and the total of a list is the sum of those of its parts
(`PartsTotal`). The two tests of failure, in Python and in SQL, are shown to be one. The
imports the billing page lists are the last `RecentImports` (`NewestAreLast`); their rows
and those of the imports before them make up the totals, and none is left out while the
list has room.

`ContractsProofs`: `EveryFailureLeavesMark`, `ThrottlingNeverDisablesAKey`,
`EveryMissingResponseFailsOver`, for all statuses and texts; `SearchesStayPaired`, for
every setting of the rounds and every answer. `SearchInv` says in the middle of a
round which searches are still owed: each of the others is answered once, behind its
call, and ids of different rounds differ. `ReportsAreNeverLowered` is for any numbers in
any part of a payload and in the headers: what is read is, field by field, the largest
number in a part that is not hidden (`ReportedLargest`, an induction over the events),
and an estimate lowers nothing, keeps the cached count, is marked, and leaves input and
output alone when both were reported (`Estimated`).

`ContractsProofs`, payloads: `ConversationsStayPaired`. The invariant `BodyInv` is only
that a client sends items, whatever it replays; the rest is about the operators, for
every body (`Sent`). On the way to the chat endpoint two things are shown apart. Nothing
said is lost or moved, and the instructions come first: what an item does to the
mapping is to append what it says, if it
says something aloud (`Follows`), and normalising drops and inserts silent messages only
(`AnswersSilent`). Every call is answered: a message with the answers put behind it is a
conversation in which each call has its one answer (`WithAnswersWhole`), and such
conversations stay so when they are joined (`WholeJoined`), so that the order and the
number of the client's outputs do not matter. On the way to the Responses endpoint every
call the client sent is kept (`NativeKeepsCalls`), which gives each output its call
unless the request continues a response that has it.

`DataProofs` has what the proofs need of folds and sorted enumerations. The community
modules define `FoldLeft` by the choice of a recursive function, and the induction
theorems of the library cannot be instantiated here. The module states induction for
a set of numbers instead of a predicate (`Induction`), shows that functions that take
the last element of a prefix and step by it exist for prefixes of each length
(`FoldExists`), and that such a function steps along the prefixes of a sequence
(`FoldPrefixes`). An invariant of the fold then is one of its step. `Enumerated` says
that numbering the elements of a finite set of integers by the elements up to them
lists each once, in order. Its second part is about lists: induction over sequences
(`SeqInduction`), what a filter keeps (`WhereKeeps`) and what one more element adds to it
(`KeptMore`), to a flattened list (`FlattenMore`), to a total (`TotalMore`) and to a list
of values (`PickedMore`); and that totals add up over joined lists, over an element's
membership and over the values of a label (`TotalJoined`, `TotalSplit`, `PartsTotal`).
`SelectSeq` is built into the prover and cannot be expanded, which is why the models
filter with `Where`.

`StreamsProofs`, native streams: `PiecesAreAnnounced`, `CallsArriveWhole`,
`NoFinishedCallIsLost`. `NativeInv` relates three views of an item that are never
equal for long: what the canonicalizer notes (`started`, `held`, `closed`), what is
on its way (`pending`), and what the client has read (`items`). An item that is
started is open for the client once it has read what is pending (`StartedOpen`); a
call whose arguments are not complete is held with them (`CallsHeld`); a call that
is due was read or is arriving (`DueArrive`).

`StreamsProofs`, bridged streams: `BridgesKeepTheContract`, the refinement of
`MessageEvents`. `Reads(p, e, q)` says what a reader may read where it is in a message,
`Leads(p, out, q)` extends this to a sequence of events, and each operation of the
adapter has a lemma: what it writes leads from where the adapter was to where it is
(`InStep`). The invariant is that the events on their way lead the client to the
adapter (`ClientFollows`), so that delivering one is a step of the contract whatever
the upstream does next. It needs that the call that is under way has the open block
(`BlocksFollow`), which is where items that overlap break it.

`FallbackProofs`, converted chat completions: `ConversionsKeepTheContract`, the
refinement of `ResponseEvents`, `NoItemIsForgotten`, and `StreamsTypeCorrect`, which
joins the three routes. The argument is that of the bridge: `Admits(p, e, q)` says what
a client may read where it is, and each operation of the converter writes what leads
from where the converter was to where it is (`Speaks`). Where the converter is (`Shown`)
is computed from its own fields: reasoning is open or closed, the message and the calls
are open until the end. That needs that every announced index belongs to reasoning, to
the message or to one call, and to one of them only (`ItemsDistinct`). The deltas of a
chunk and the calls at the end are folds: the first keeps `Speaks`, the second closes the
calls one by one, in the order of their indexes, while the others stay as they are
(`CloseToolsOK`). That the output of the terminal event lists each item once is a count
of the sequence's places (`OutputLists`).

Every invariant and every action property of the runs is stated by a theorem, and so
are the three refinements. Only model-checked is liveness (`EventuallyAnswered`,
`RefreshEnds`, `StreamsEnd`), which is out of this prover's reach, and what the four runs
under Findings refute.

## Plan

What is left, in order of importance:

1. `Affinity`: the stable key a client is given, against a reference definition.
2. A run in which requests and a clean-up share one pool, if it can be kept small.

## Not modelled

Chat completions, completions, embeddings and rerank pass a body on after checks of
its fields. Of the Anthropic bridge the conversion of requests, of answers without
a stream and of errors is stateless rewriting; so are header filtering and the
messages of errors. The HTTP clients are I/O. Authentication is a comparison of
tokens; the pages are static. Client affinity is a pure function of headers and
body; routing takes its result as the route key. Sha256, JSON, tokenizers and SQLite are
taken to work. Of the repository the records of transform debugging, session
bindings (which no handler writes) and the migration of older quota tables
(`platform/storage/db.py:397-441`) are left out; of the quota refresh the timestamps
that make a snapshot stale are open, and the pool summary and the model import are
left out. Scripts under `scripts/` talk to a running gateway from outside.
