------------------------------- MODULE Records ------------------------------
(***************************************************************************)
(* What the process keeps beside the keys: the model catalogue, its        *)
(* settings and the request log, under administrators' calls, requests and *)
(* restarts (app/platform/bootstrap.py, app/main.py).                      *)
(*                                                                         *)
(* A handler runs without an await, so that handlers do not interleave;    *)
(* its transactions do, with a crash.                                      *)
(***************************************************************************)
EXTENDS Catalogue, RuntimeConfig, RequestLog

CONSTANTS
  Rows,          \* rows a request may leave
  Imports,       \* bodies of model imports
  Patches,       \* bodies of configuration patches
  Csvs,          \* bodies of billing imports
  OldRows,       \* logs that an older version may have left, without totals
  Calls,         \* bound: administrators' calls
  Requests,      \* bound: requests
  Restarts       \* bound: restarts

\* No patch names the affinity secret.
ASSUME RecordsAssumption ==
  /\ Imports \subseteq Seq(Entries)
  /\ \A patch \in Patches : DOMAIN patch \subseteq PersistedConfigKeys \ {"affinity"}

\* The rows a request or an older version left, and those of billing imports.
LoggedRows == Rows \cup UNION {{old[i] : i \in DOMAIN old} : old \in OldRows}
Metrics == UNION {{csv.rows[i] : i \in DOMAIN csv.rows} : csv \in Csvs}

\* Counts of tokens and a retention are never negative.
ASSUME RowsAssumption ==
  /\ OldRows \subseteq Seq(LoggedRows)
  /\ \A row \in LoggedRows : row.status \in Nat /\ row.tokens \in Nat
  /\ \A csv \in Csvs : csv.rows \in Seq(Metrics)
  /\ \A row \in Metrics : row.tokens \in Nat
  /\ Environment.retention \in Nat
  /\ \A patch \in Patches : "retention" \in DOMAIN patch => patch.retention \in Nat

VARIABLES
  up,      \* the process runs
  log,     \* the request log and its totals
  billing, \* the rows of every billing import
  calls, requests, restarts    \* how many there were

records == <<models, put, left, seeds, memory, stored, updates, made, up, log, billing,
             calls, requests, restarts>>

RecordsInit ==
  /\ CatalogueInit /\ ConfigInit
  /\ up = FALSE
  /\ log \in {[rows |-> old, totals |-> NoTotals] : old \in OldRows}
  /\ billing = <<>>
  /\ calls = 0 /\ requests = 0 /\ restarts = 0

Ready == up /\ Idle /\ updates = <<>>

\* bootstrap_app_state: the totals, the settings, and the default models, which
\* SeedModel stores before the process serves.
Start ==
  /\ ~up
  /\ up' = TRUE
  /\ log' = SeedRequestLogTotals(log)
  /\ StartSettings
  /\ seeds' = StartSeeding
  /\ UNCHANGED <<models, put, left, billing, calls, requests, restarts>>

\* The process dies, maybe in the middle of a handler.
Crash ==
  /\ up /\ restarts < Restarts
  /\ restarts' = restarts + 1
  /\ up' = FALSE
  /\ put' = NoPut /\ left' = <<>> /\ seeds' = <<>> /\ updates' = <<>>
  /\ UNCHANGED <<models, memory, stored, made, log, billing, calls, requests>>

ModelCall ==
  \/ \E a \in Aliases, u \in Upstreams, e \in BOOLEAN : CreateModel(a, u, e)
  \/ \E a, b \in Aliases, u \in Upstreams, e \in BOOLEAN : PatchModel(a, b, u, e)
  \/ \E a \in Aliases : DeleteModel(a)
  \/ \E entries \in Imports : ImportModels(entries)

ConfigCall ==
  \/ \E patch \in Patches : PatchConfig(patch)
  \/ GenerateProxyKey
  \/ \E key \in memory.proxyKeys : DeleteProxyKey(key)

AdminCall ==
  /\ Ready /\ calls < Calls
  /\ calls' = calls + 1
  /\ \/ ModelCall /\ UNCHANGED <<config, billing>>
     \/ ConfigCall /\ UNCHANGED <<catalogue, billing>>
     \/ \E csv \in Csvs : /\ Acceptable(csv)
                         /\ billing' = Append(billing, csv.rows)
                         /\ UNCHANGED <<catalogue, config>>
  /\ UNCHANGED <<up, log, requests, restarts>>

HandlerStep ==
  /\ up
  /\ \/ (ImportStep \/ PutModel \/ SeedModel) /\ UNCHANGED config
     \/ PatchStep /\ UNCHANGED catalogue
  /\ UNCHANGED <<up, log, billing, calls, requests, restarts>>

\* A request leaves its row.  Without a retention (null) SQLite refuses the
\* eviction, the transaction is rolled back and the request fails.
LogRequest ==
  /\ Ready /\ requests < Requests
  /\ requests' = requests + 1
  /\ \E row \in Rows :
       log' = IF memory.retention = NoValue THEN log
              ELSE InsertRequestLog(log, row, memory.retention)
  /\ UNCHANGED <<catalogue, config, up, billing, calls, restarts>>

RecordsNext == Start \/ Crash \/ AdminCall \/ HandlerStep \/ LogRequest

RecordsSpec == RecordsInit /\ [][RecordsNext]_records

-----------------------------------------------------------------------------
\* No two mappings differ in the spelling of their alias only, whatever imports,
\* renames and restarts do.
AliasesUnique ==
  \A a, b \in Stored(models) : Fold[a] = Fold[b] => a = b

\* A request finds a model under any spelling if and only if /v1/models lists
\* it, and finds one upstream model only.
ResolvedAsListed ==
  \A a \in Aliases :
    /\ Cardinality(Resolutions(a, FALSE)) <= 1
    /\ Resolutions(a, FALSE) # {} <=> \E b \in ListedModels : Fold[b] = Fold[a]

\* Between two calls the settings in memory are those a restart would bring back.
SettingsPersisted == Ready => memory = Overridden

\* The secret that maps clients to keys survives every restart.
AffinityStable ==
  [][memory.affinity # NoValue => memory'.affinity = memory.affinity]_records

\* Only a patch enables a model that is disabled: an import that renames it, a
\* start-up and a crash in the middle of either leave it disabled or gone.
View == IF put = NoPut THEN models ELSE With(models, put)
Disabled(table, key) == \E b \in DOMAIN table : Fold[b] = key /\ ~table[b].enabled
Enabled(table, key) == \E b \in DOMAIN table : Fold[b] = key /\ table[b].enabled
DisabledStays ==
  [][\A a \in Aliases :
       /\ Disabled(View, Fold[a]) /\ Enabled(View', Fold[a])
       => \E b, c \in Aliases, u \in Upstreams : PatchModel(b, c, u, TRUE)]_records

\* What is retained is part of the totals, and all of it until a row was evicted.
RetainedInTotals ==
  up => LET page == Overview(log)
        IN  /\ \A c \in Columns : page.retained[c] <= page.all[c]
            /\ page.retained.requests = page.all.requests => page.retained = page.all

\* Every request of a key failed or succeeded.
UsageAddsUp ==
  \A key \in {row.key : row \in LoggedRows} \ {None} :
    LET usage == KeyUsage(log, key) IN usage.successes + usage.failures = usage.requests

SumOf(parts, c) == MapThenSumSet(LAMBDA v : parts[v][c], DOMAIN parts)
PartsAddUp(parts, totals) == \A c \in DOMAIN totals : SumOf(parts, c) = totals[c]

\* The parts of an estimate of costs add up to its totals.
EstimatesAddUp ==
  LET page == CostEstimate(log.rows)
  IN  PartsAddUp(page.models, page.totals) /\ PartsAddUp(page.keys, page.totals)

\* The usages of a billing summary add up to its totals.  The imports it lists
\* are the newest, so that they fall short of the totals by the rows of those
\* that are too old to be listed, and by no other row.
BillingAddsUp ==
  LET page   == BillingSummary(billing)
      listed == Len(page.imports)
      older  == SubSeq(billing, 1, Len(billing) - listed)
  IN  /\ PartsAddUp(page.usages, page.totals)
      /\ SumOf(page.imports, "rows") + Len(FlattenSeq(older)) = page.totals.rows
      /\ listed <= RecentImports
      /\ older # <<>> => listed = RecentImports

\* Models and keys have as many requests as the pages that list them, and a
\* client is dispersed over keys there are.
ListsAgree ==
  LET aliases == ByModel(log.rows)
      keys == ByKey(log.rows)
      clients == Sticky(log.rows)
  IN  /\ PartsAddUp(aliases, SqlSums(Known(log.rows, "alias")))
      /\ \A a \in DOMAIN aliases :
           Len(ListRequestLogs(log, Len(log.rows), a, None)) = aliases[a].requests
      /\ \A k \in DOMAIN keys : keys[k].requests = KeyUsage(log, k).requests
      /\ "dispersed" \in {clients[c] : c \in DOMAIN clients} => Cardinality(DOMAIN keys) > 1

\* Whatever page an administrator opens, its numbers agree with each other and
\* with those of the other pages.
PagesAgree ==
  RetainedInTotals /\ UsageAddsUp /\ EstimatesAddUp /\ BillingAddsUp /\ ListsAgree

=============================================================================
