----------------------------- MODULE RequestLog -----------------------------
(***************************************************************************)
(* The request log of app/control/repository.py: rows that are evicted     *)
(* beyond the retention, totals that outlive them, and what the            *)
(* administrators' pages compute from both.                                *)
(*                                                                         *)
(* A row's absent fields are None.  Rows are kept in the order of their    *)
(* timestamps, which is that of their insertion.  Tokens stand for each of *)
(* the columns input, output and cached tokens; latencies are left out.    *)
(***************************************************************************)
EXTENDS Integers, Sequences, FiniteSets, SequencesExt, FiniteSetsExt, Selections

CONSTANT RecentImports   \* billing imports on a page: 10

ASSUME RecentAssumption == RecentImports \in Nat

None == "none"
NoStatus == 0

Columns == {"requests", "errors", "tokens", "estimated"}
NoTotals == [requests |-> -1]

\* Mutant: a request that was refused without a status is no error.
AnsweredError(row) ==
  row.error # None \/ (row.status # NoStatus /\ (row.status < 200 \/ row.status >= 300))

\* _request_log_is_error, and the condition of every query.
IsError(row) ==
  row.error # None \/ row.status = NoStatus \/ row.status < 200 \/ row.status >= 300
SqlError(row) ==
  row.error # None \/ row.status = NoStatus \/ row.status < 200 \/ row.status >= 300

Sums(rows, failed) ==
  [requests  |-> Len(rows),
   errors    |-> failed,
   tokens    |-> FoldLeft(LAMBDA n, row : n + row.tokens, 0, rows),
   estimated |-> FoldLeft(LAMBDA n, row : IF row.estimated THEN n + row.tokens ELSE n, 0, rows)]

\* What a query sums up.
Errors(rows) == Where(rows, {i \in DOMAIN rows : SqlError(rows[i])})
SqlSums(rows) == Sums(rows, Len(Errors(rows)))

Counted(row) == Sums(<<row>>, IF IsError(row) THEN 1 ELSE 0)
Zero == Sums(<<>>, 0)

NewestRows(rows, n) == SubSeq(rows, IF n < Len(rows) THEN Len(rows) - n + 1 ELSE 1, Len(rows))

\* insert_request_log, one transaction.
InsertRequestLog(log, row, retention) ==
  LET old == IF log.totals = NoTotals THEN Zero ELSE log.totals
      new == Counted(row)
  IN  [log EXCEPT !.rows = NewestRows(Append(@, row), retention),
                  !.totals = [c \in Columns |-> old[c] + new[c]]]

\* init_db: totals of a database that has none are those of its rows.
SeedRequestLogTotals(log) ==
  IF log.totals # NoTotals THEN log ELSE [log EXCEPT !.totals = SqlSums(log.rows)]

RequestLogTotals(log) == IF log.totals = NoTotals THEN Zero ELSE log.totals

-----------------------------------------------------------------------------
(* The pages.                                                              *)
Overview(log) == [all |-> RequestLogTotals(log), retained |-> SqlSums(log.rows)]

RowsOf(rows, field, v) == Where(rows, {i \in DOMAIN rows : rows[i][field] = v})

Succeeded(row) == row.error = None /\ row.status >= 200 /\ row.status <= 299
KeyUsage(log, key) ==
  LET rows == RowsOf(log.rows, "key", key)
  IN  [requests  |-> Len(rows),
       failures  |-> Len(Errors(rows)),
       successes |-> Len(Where(rows, {i \in DOMAIN rows : Succeeded(rows[i])}))]

\* The rows of each value of a field; cache_analysis leaves out the rows without.
GroupBy(rows, field) ==
  [v \in {rows[i][field] : i \in DOMAIN rows} |-> SqlSums(RowsOf(rows, field, v))]
Known(rows, field) == Where(rows, {i \in DOMAIN rows : rows[i][field] # None})

ByModel(rows) == GroupBy(Known(rows, "alias"), "alias")
ByKey(rows) == GroupBy(Known(rows, "key"), "key")

\* A client whose requests for a model used one key at most is stable.
Clients(rows) ==
  {<<rows[i].client, rows[i].alias>> : i \in {j \in DOMAIN rows : rows[j].client # None}}
KeysUsed(rows, client) ==
  {rows[i].key : i \in {j \in DOMAIN rows : <<rows[j].client, rows[j].alias>> = client}} \ {None}
Sticky(rows) ==
  [client \in Clients(rows) |->
     IF Cardinality(KeysUsed(rows, client)) <= 1 THEN "stable" ELSE "dispersed"]

CostEstimate(rows) ==
  [totals |-> SqlSums(rows),
   models |-> GroupBy(rows, "alias"),
   keys   |-> GroupBy(rows, "key")]

\* The metrics of one billing import are stored in one transaction, or not at
\* all: a column that is missing or a number that does not parse refuses it.
Acceptable(csv) == csv.columns /\ \A i \in DOMAIN csv.rows : csv.rows[i].parses

\* The totals are those of all imports, the list is that of the newest.
BillingCount(rows) == [rows |-> Len(rows), tokens |-> FoldLeft(LAMBDA n, r : n + r.tokens, 0, rows)]
BillingSummary(billing) ==
  LET rows  == FlattenSeq(billing)
      shown == NewestRows(billing, RecentImports)
  IN  [totals  |-> BillingCount(rows),
       usages  |-> [u \in {rows[i].usage : i \in DOMAIN rows} |->
                      BillingCount(RowsOf(rows, "usage", u))],
       imports |-> [i \in DOMAIN shown |-> [rows |-> Len(shown[i])]]]

\* list_request_logs: the newest rows that pass the filters (None: no filter).
ListRequestLogs(log, limit, alias, error) ==
  NewestRows(Where(log.rows, {i \in DOMAIN log.rows :
    /\ alias = None \/ log.rows[i].alias = alias
    /\ error = None \/ log.rows[i].error = error}), limit)

=============================================================================
