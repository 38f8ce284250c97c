-------------------------- MODULE MaintenanceProofs --------------------------
(***************************************************************************)
(* Clean-ups and quota refreshes for every pool, every number of calls and *)
(* every interleaving with administrators and restarts (keys.py and        *)
(* fireworks.py of app/products/admin).                                    *)
(***************************************************************************)
EXTENDS Maintenance, KeyPoolProofs

-----------------------------------------------------------------------------
(* What a clean-up does to the database.                                   *)

\* Rows of the key table are kept as they are or deleted.
Shrinks(d, e) ==
  e \in Database /\ \A n \in Names : e.keys[n] \in {d.keys[n], None}

\* Quotas and cooldowns of accounts that have a key are kept.
KeepsAccounts(d, e) ==
  \A a \in Accounts : KeysForAccount(e, a) # {} =>
    e.quota[a] = d.quota[a] /\ e.cooldowns[a] = d.cooldowns[a]

\* Deleting keeps secrets unique.
LEMMA ShrinkUnique ==
  ASSUME NEW d, NEW e, Shrinks(d, e), UniqueSecrets(d)
  PROVE  UniqueSecrets(e)
BY DEF Shrinks, UniqueSecrets, StoredNames

\* What the listing keeps of a key.
LEMMA ListingType ==
  ASSUME NEW d \in Database
  PROVE  Listing(d) \subseteq Listed
<1> SUFFICES ASSUME NEW n \in StoredNames(d), NEW verdict \in {"malformed", "exhausted", "probe"}
             PROVE  [key |-> CandidateOf(d, n), verdict |-> verdict,
                     account |-> AccountOf(d, d.keys[n].secret)] \in Listed
  BY DEF Listing
<1>1. n \in Names /\ d.keys[n].secret \in Secrets
  BY StoredRow
<1>2. CandidateOf(d, n) \in Candidate
  BY <1>1 DEF CandidateOf, Candidate
<1>3. AccountOf(d, d.keys[n].secret) \in Accounts \cup {None}
  BY <1>1 DEF AccountOf, Database, SnapshotRow
<1> QED BY <1>2, <1>3 DEF Listed

\* delete_key for every name of a set.
LEMMA DeleteKeysShrinks ==
  ASSUME NEW d \in Database, NEW names
  PROVE  /\ Shrinks(d, DeleteKeys(d, names))
         /\ DeleteKeys(d, names).quota = d.quota
         /\ DeleteKeys(d, names).cooldowns = d.cooldowns
<1> DEFINE e == DeleteKeys(d, names)
           gone == {d.keys[n].secret : n \in names \cap StoredNames(d)}
           keys == [n \in Names |-> IF n \in names THEN None ELSE d.keys[n]]
           snapshots == [s \in Secrets |-> IF s \in gone THEN None ELSE d.snapshots[s]]
           routes == [p \in Responses |->
                        IF d.routes[p] # None /\ d.routes[p].secret \in gone
                        THEN None ELSE d.routes[p]]
<1>1. e = [d EXCEPT !.keys = keys, !.snapshots = snapshots, !.routes = routes]
  BY DEF DeleteKeys
<1>2. /\ keys \in [Names -> KeyRow \cup {None}]
      /\ snapshots \in [Secrets -> SnapshotRow \cup {None}]
      /\ routes \in [Responses -> Candidate \cup {None}]
  BY DatabaseFields
<1>3. \A n \in Names : keys[n] \in {d.keys[n], None}
  OBVIOUS
<1> HIDE DEF e, gone, keys, snapshots, routes
<1>4. e.keys = keys /\ e.quota = d.quota /\ e.cooldowns = d.cooldowns
  BY <1>1 DEF Database
<1>5. e \in Database
  BY <1>1, <1>2 DEF Database
<1>6. Shrinks(d, e)
  BY <1>3, <1>4, <1>5 DEF Shrinks
<1> QED BY <1>4, <1>6 DEF e

\* delete_key.
LEMMA DeleteKeyShrinks ==
  ASSUME NEW d \in Database, NEW n \in Names
  PROVE  /\ Shrinks(d, DeleteKey(d, n))
         /\ DeleteKey(d, n).quota = d.quota
         /\ DeleteKey(d, n).cooldowns = d.cooldowns
<1>1. DeleteKey(d, n) \in Database
  BY DeleteKeyType
<1>2. \A m \in Names : DeleteKey(d, n).keys[m] \in {d.keys[m], None}
  BY DEF DeleteKey, ForgetSecret, WithRow, Database
<1>3. DeleteKey(d, n).quota = d.quota /\ DeleteKey(d, n).cooldowns = d.cooldowns
  BY DEF DeleteKey, ForgetSecret, WithRow, Database
<1> QED BY <1>1, <1>2, <1>3 DEF Shrinks

\* Forgetting accounts that have no key.
LEMMA ForgetAccountsKeeps ==
  ASSUME NEW d \in Database, NEW orphans, \A a \in orphans : KeysForAccount(d, a) = {}
  PROVE  /\ Shrinks(d, ForgetAccounts(d, orphans))
         /\ KeepsAccounts(d, ForgetAccounts(d, orphans))
<1> DEFINE e == ForgetAccounts(d, orphans)
           quota == [a \in Accounts |-> IF a \in orphans THEN None ELSE d.quota[a]]
           cooldowns == [a \in Accounts |-> IF a \in orphans THEN 0 ELSE d.cooldowns[a]]
<1>1. e = [d EXCEPT !.quota = quota, !.cooldowns = cooldowns]
  BY DEF ForgetAccounts
<1>2. quota \in [Accounts -> Quota \cup {None}] /\ cooldowns \in [Accounts -> Nat]
  BY DatabaseFields
<1>3. \A a \in Accounts \ orphans : quota[a] = d.quota[a] /\ cooldowns[a] = d.cooldowns[a]
  OBVIOUS
<1> HIDE DEF e, quota, cooldowns
<1>4. /\ e.keys = d.keys /\ e.snapshots = d.snapshots
      /\ e.quota = quota /\ e.cooldowns = cooldowns
  BY <1>1 DEF Database
<1>5. e \in Database
  BY <1>1, <1>2 DEF Database
<1>6. \A a \in Accounts : KeysForAccount(e, a) = KeysForAccount(d, a)
  BY <1>4 DEF KeysForAccount, StoredNames, AccountOf
<1>7. KeepsAccounts(d, e)
  BY <1>3, <1>4, <1>6 DEF KeepsAccounts
<1>8. Shrinks(d, e)
  BY <1>4, <1>5 DEF Shrinks
<1> QED BY <1>7, <1>8 DEF e

\* A clean-up that waits for a probe knows which key is probed.
FineCleanup == {x \in Cleanup : x.stage = "probing" => x.probed \in Listed}

\* A pass from one await to the next.
LEMMA SweepKeeps ==
  ASSUME NEW c \in Cleaners, NEW d \in Database, NEW left \in SUBSET Listed,
         NEW cleaned \in SUBSET Accounts, cleanups \in [Cleaners -> FineCleanup],
         Sweep(c, d, left, cleaned)
  PROVE  /\ cleanups' \in [Cleaners -> FineCleanup]
         /\ Shrinks(d, db') /\ KeepsAccounts(d, db')
<1> DEFINE doomed == {k \in left : k.verdict # "probe"}
           named(ks) == {k.key.name : k \in ks}
           emptied(ks) == cleaned \cup
             {k.account : k \in {l \in ks : l.verdict = "exhausted" /\ l.account # None}}
<1>1. ASSUME NEW ks \in SUBSET doomed PROVE emptied(ks) \in SUBSET Accounts
  <2>1. \A k \in ks : k.account \in Accounts \cup {None}
    BY DEF Listed
  <2> QED BY <2>1
<1>2. ASSUME NEW batch \in SUBSET doomed, NEW p \in left \ doomed,
             db' = DeleteKeys(d, named(batch)),
             cleanups' = [cleanups EXCEPT ![c] =
                [stage |-> "probing", left |-> left \ (batch \cup {p}),
                 probed |-> p, cleaned |-> emptied(batch)]]
      PROVE  /\ cleanups' \in [Cleaners -> FineCleanup]
             /\ Shrinks(d, db') /\ KeepsAccounts(d, db')
  <2> DEFINE x == [stage |-> "probing", left |-> left \ (batch \cup {p}),
                   probed |-> p, cleaned |-> emptied(batch)]
  <2>1. emptied(batch) \in SUBSET Accounts /\ p \in Listed
    BY <1>1
  <2> HIDE DEF emptied
  <2>2. x \in FineCleanup
    BY <2>1 DEF FineCleanup, Cleanup
  <2> HIDE DEF x, named
  <2>3. cleanups' \in [Cleaners -> FineCleanup]
    BY <1>2, <2>2 DEF x
  <2>4. Shrinks(d, db') /\ db'.quota = d.quota /\ db'.cooldowns = d.cooldowns
    BY <1>2, DeleteKeysShrinks
  <2> QED BY <2>3, <2>4 DEF KeepsAccounts
<1>3. ASSUME LET gone == DeleteKeys(d, named(doomed))
             IN  db' = ForgetAccounts(gone, Orphans(gone, emptied(doomed))),
             cleanups' = [cleanups EXCEPT ![c] = [NoCleanup EXCEPT !.stage = "done"]]
      PROVE  /\ cleanups' \in [Cleaners -> FineCleanup]
             /\ Shrinks(d, db') /\ KeepsAccounts(d, db')
  <2> DEFINE gone == DeleteKeys(d, named(doomed))
             x == [NoCleanup EXCEPT !.stage = "done"]
             orphans == Orphans(gone, emptied(doomed))
  <2>1. x \in FineCleanup
    BY DEF NoCleanup, FineCleanup, Cleanup
  <2> HIDE DEF x
  <2>2. cleanups' \in [Cleaners -> FineCleanup]
    BY <1>3, <2>1 DEF x
  <2>3. db' = ForgetAccounts(gone, orphans)
    BY <1>3
  <2>4. Shrinks(d, gone) /\ gone.quota = d.quota /\ gone.cooldowns = d.cooldowns
    <3> HIDE DEF named
    <3> QED BY DeleteKeysShrinks
  <2>5. \A a \in orphans : KeysForAccount(gone, a) = {}
    BY DEF Orphans
  <2> HIDE DEF gone, orphans
  <2>6. Shrinks(gone, db') /\ KeepsAccounts(gone, db')
    BY <2>3, <2>4, <2>5, ForgetAccountsKeeps DEF Shrinks
  <2> QED BY <2>2, <2>4, <2>6 DEF Shrinks, KeepsAccounts
<1> HIDE DEF doomed, named, emptied
<1> QED BY <1>2, <1>3 DEF Sweep, doomed, named, emptied

\* A clean-up leaves its first listing, or the answer to its probe, behind it.
LEMMA CleanupMovesKeeps ==
  ASSUME NEW c \in Cleaners, PoolInv, cleanups \in [Cleaners -> FineCleanup],
         CleanupMoves(c)
  PROVE  /\ cleanups' \in [Cleaners -> FineCleanup]
         /\ Shrinks(db, db') /\ KeepsAccounts(db, db')
<1>1. db \in Database
  BY DEF PoolInv, PoolTypeOK
<1>2. CASE StartCleanup(c)
  <2>1. Listing(db) \in SUBSET Listed /\ {} \in SUBSET Accounts
    BY <1>1, ListingType
  <2>2. Sweep(c, db, Listing(db), {})
    BY <1>2 DEF StartCleanup
  <2> QED BY <1>1, <2>1, <2>2, SweepKeeps
<1>3. ASSUME NEW refused \in BOOLEAN, CleanupProbed(c, refused)
      PROVE  /\ cleanups' \in [Cleaners -> FineCleanup]
             /\ Shrinks(db, db') /\ KeepsAccounts(db, db')
  <2> DEFINE x == cleanups[c]
             d == IF refused THEN DeleteKey(db, x.probed.key.name) ELSE db
  <2>1. x \in FineCleanup /\ x.stage = "probing" /\ Sweep(c, d, x.left, x.cleaned)
    BY <1>3 DEF CleanupProbed
  <2>2. /\ x.left \in SUBSET Listed /\ x.cleaned \in SUBSET Accounts
        /\ x.probed \in Listed
    BY <2>1 DEF FineCleanup, Cleanup
  <2>3. x.probed.key.name \in Names
    BY <2>2 DEF Listed, Candidate
  <2>4. Shrinks(db, d) /\ d.quota = db.quota /\ d.cooldowns = db.cooldowns
    <3>1. Shrinks(db, db)
      BY <1>1 DEF Shrinks
    <3> HIDE DEF x
    <3> QED BY <1>1, <2>3, <3>1, DeleteKeyShrinks
  <2> HIDE DEF d, x
  <2>5. d \in Database
    BY <2>4 DEF Shrinks
  <2>6. /\ cleanups' \in [Cleaners -> FineCleanup]
        /\ Shrinks(d, db') /\ KeepsAccounts(d, db')
    BY <2>1, <2>2, <2>5, SweepKeeps
  <2> QED BY <2>4, <2>6 DEF Shrinks, KeepsAccounts
<1> QED BY <1>2, <1>3 DEF CleanupMoves

-----------------------------------------------------------------------------
(* What a refresh does to the database.                                    *)

\* A task that needs the lock of an account has an account.
FineTask ==
  {t \in Task : t.stage \in {"locking", "quota"} => t.row.account # None}

\* Only keys of hit are written, and written to disable them.
Disables(d, e, hit) ==
  /\ e \in Database
  /\ \A n \in Names : e.keys[n] # d.keys[n] =>
       /\ n \in hit
       /\ d.keys[n] # None /\ e.keys[n] # None
       /\ ~e.keys[n].enabled
       /\ e.keys[n].secret = d.keys[n].secret

\* Disabling keys keeps secrets unique.
LEMMA DisabledUnique ==
  ASSUME NEW d, NEW e, NEW hit, Disables(d, e, hit), UniqueSecrets(d)
  PROVE  UniqueSecrets(e)
<1>1. StoredNames(e) \subseteq StoredNames(d)
  BY DEF Disables, StoredNames
<1>2. \A n \in StoredNames(d) : e.keys[n] = d.keys[n] \/ e.keys[n].secret = d.keys[n].secret
  BY DEF Disables, StoredNames
<1> QED BY <1>1, <1>2 DEF UniqueSecrets

\* set_key_enabled with FALSE.
LEMMA SetDisabled ==
  ASSUME NEW d \in Database, NEW n \in Names, NEW reason \in Reasons,
         NEW error \in ErrorTypes
  PROVE  Disables(d, SetKeyEnabled(d, n, FALSE, reason, error), {n})
<1> DEFINE e == SetKeyEnabled(d, n, FALSE, reason, error)
<1>1. e \in Database
  <2>1. FALSE \in BOOLEAN /\ reason \in Reasons \cup {None} /\ error \in ErrorTypes \cup {None}
    OBVIOUS
  <2> QED BY <2>1, SetKeyEnabledType
<1>2. CASE d.keys[n] = None
  <2>1. e = d
    BY <1>2 DEF SetKeyEnabled
  <2> HIDE DEF e
  <2>2. Disables(d, e, {n})
    BY <2>1 DEF Disables
  <2> QED BY <2>2 DEF e
<1>3. CASE d.keys[n] # None
  <2> DEFINE row == [d.keys[n] EXCEPT !.enabled = FALSE, !.reason = reason, !.lastError = error]
  <2>1. d.keys[n] \in KeyRow
    BY <1>3 DEF Database
  <2>2. ~row.enabled /\ row.secret = d.keys[n].secret
    BY <2>1 DEF KeyRow
  <2>3. row \in KeyRow
    BY <2>1 DEF KeyRow
  <2>4. e = WithRow(d, n, row)
    BY <1>3 DEF SetKeyEnabled
  <2> HIDE DEF e, row
  <2>5. e.keys = [d.keys EXCEPT ![n] = row]
    BY <2>4 DEF WithRow, Database
  <2>6. row # None
    BY <2>3, NoneAssumption
  <2>7. Disables(d, e, {n})
    BY <1>1, <1>3, <2>2, <2>5, <2>6, DatabaseFields DEF Disables, e
  <2> QED BY <2>7 DEF e
<1> QED BY <1>2, <1>3

\* Disabling the keys of several names.
LEMMA KeysDisabled ==
  ASSUME NEW d \in Database, NEW names, NEW reason \in Reasons, NEW error \in ErrorTypes
  PROVE  Disables(d, DisableKeys(d, names, reason, error), names)
<1> DEFINE e == DisableKeys(d, names, reason, error)
           new(n) == [d.keys[n] EXCEPT !.enabled = FALSE, !.reason = reason,
                                       !.lastError = error]
           keys == [n \in Names |-> IF n \in names /\ d.keys[n] # None
                                    THEN new(n) ELSE d.keys[n]]
<1>1. e = [d EXCEPT !.keys = keys]
  BY DEF DisableKeys
<1>2. ASSUME NEW n \in Names, d.keys[n] # None
      PROVE  /\ new(n) \in KeyRow /\ ~new(n).enabled
             /\ new(n).secret = d.keys[n].secret /\ new(n) # None
  <2>1. d.keys[n] \in KeyRow
    BY <1>2 DEF Database
  <2>2. new(n) \in KeyRow /\ ~new(n).enabled /\ new(n).secret = d.keys[n].secret
    BY <2>1 DEF KeyRow
  <2> QED BY <2>2, NoneAssumption
<1> HIDE DEF e, new
<1>3. keys \in [Names -> KeyRow \cup {None}]
  BY <1>2, DatabaseFields
<1>4. \A n \in Names : keys[n] # d.keys[n] =>
        n \in names /\ d.keys[n] # None /\ keys[n] = new(n)
  OBVIOUS
<1> HIDE DEF keys
<1>5. e \in Database /\ e.keys = keys
  BY <1>1, <1>3 DEF Database
<1>6. Disables(d, e, names)
  BY <1>2, <1>4, <1>5 DEF Disables
<1> QED BY <1>6 DEF e

\* The keys a task may disable: the key of its name or secret, and the keys of
\* the account its answer is about.
Blamed(t) ==
  {n \in Names :
     \/ n = t.key.name
     \/ db.keys[n].secret = t.key.secret
     \/ /\ AccountOf(db, db.keys[n].secret) # None
        /\ AccountOf(db, db.keys[n].secret) \in {t.row.account, AccountOf(db, t.key.secret)}}

\* An error response stores its row and may disable keys.
LEMMA RefusalDisables ==
  ASSUME NEW t \in Task, NEW row \in SnapshotRow, NEW a, NEW auto, db \in Database,
         row.account \in {t.row.account, AccountOf(db, t.key.secret)},
         StoreRefusal(t, row, a, auto)
  PROVE  Disables(db, db', Blamed(t)) /\ tasks' = tasks \ {t} /\ UNCHANGED calls
<1> DEFINE stored == UpsertKeySnapshot(db, t.key.secret, row)
           family == IF row.account = None THEN {} ELSE KeysForAccount(stored, row.account)
           e == DisableRefused(stored, t.key, row.account, a)
<1>1. t.key.name \in Names /\ t.key.secret \in Secrets
  BY DEF Task, Candidate
<1>2. stored \in Database /\ stored.keys = db.keys
  BY <1>1, UpsertKeySnapshotType, UpsertKeySnapshotKeys
<1>3. /\ tasks' = tasks \ {t} /\ UNCHANGED calls
      /\ db' = IF auto THEN e ELSE stored
  BY DEF StoreRefusal, End
<1>4. family \subseteq Blamed(t)
  <2>1. stored.snapshots = [db.snapshots EXCEPT ![t.key.secret] = row]
    BY DEF UpsertKeySnapshot, Database
  <2> HIDE DEF stored
  <2>2. ASSUME NEW n \in family PROVE n \in Blamed(t)
    <3>1. /\ row.account # None /\ n \in StoredNames(stored)
          /\ AccountOf(stored, stored.keys[n].secret) = row.account
      BY DEF KeysForAccount
    <3>2. n \in StoredNames(db) /\ db.keys[n].secret \in Secrets /\ n \in Names
      BY <1>2, <3>1, StoredRow DEF StoredNames
    <3>3. CASE db.keys[n].secret = t.key.secret
      BY <3>2, <3>3 DEF Blamed
    <3>4. CASE db.keys[n].secret # t.key.secret
      <4>1. stored.snapshots[db.keys[n].secret] = db.snapshots[db.keys[n].secret]
        BY <1>1, <2>1, <3>2, <3>4, DatabaseFields
      <4>2. AccountOf(db, db.keys[n].secret) = row.account
        BY <1>2, <3>1, <4>1 DEF AccountOf
      <4> QED BY <3>1, <3>2, <4>2 DEF Blamed
    <3> QED BY <3>3, <3>4
  <2> QED BY <2>2
<1>5. t.key.name \in Blamed(t)
  BY <1>1 DEF Blamed
<1>6. {"upstream_auth_failed", "upstream_account_unavailable"} \subseteq Reasons
      /\ {"auth_error", "quota_exhausted"} \subseteq ErrorTypes
  BY DEF Reasons, ErrorTypes
<1>7. Disables(stored, e, Blamed(t))
  <2> DEFINE one == SetKeyEnabled(stored, t.key.name, FALSE, "upstream_auth_failed", "auth_error")
             some == DisableKeys(stored, {t.key.name} \cup family,
                                 "upstream_account_unavailable", "quota_exhausted")
  <2>1. e \in {one, some, stored}
    BY DEF DisableRefused
  <2> HIDE DEF stored, e, family
  <2>2. Disables(stored, one, {t.key.name})
    BY <1>1, <1>2, <1>6, SetDisabled
  <2>3. Disables(stored, some, {t.key.name} \cup family)
    BY <1>2, <1>6, KeysDisabled
  <2>4. Disables(stored, stored, {})
    BY <1>2 DEF Disables
  <2> HIDE DEF one, some
  <2> QED BY <1>4, <1>5, <2>1, <2>2, <2>3, <2>4 DEF Disables
<1> HIDE DEF stored, e, family
<1>8. Disables(stored, db', Blamed(t))
  BY <1>2, <1>3, <1>7 DEF Disables
<1>9. Disables(db, db', Blamed(t))
  BY <1>2, <1>8 DEF Disables
<1> QED BY <1>3, <1>9

\* What an error response says about the quota.
LEMMA RefusedQuotaType == ASSUME NEW a PROVE RefusedQuota(a) \in Quota
<1>1. \A t : (IF t \in {"quota_exhausted", "auth_error"} THEN t ELSE "unavailable")
               \in {"ok", "unavailable", "spent", "auth_error", "quota_exhausted"}
  OBVIOUS
<1>2. (IF a.status \in {402, 412} THEN 412 ELSE 200) \in {None, 200, 412}
  OBVIOUS
<1> QED BY <1>1, <1>2 DEF RefusedQuota, Quota

\* The merged quota of a key.
LEMMA MergedQuotaType ==
  ASSUME NEW d \in Database, NEW s \in Secrets, d.snapshots[s] # None
  PROVE  /\ d.snapshots[s] \in SnapshotRow
         /\ MergedQuota(d, s) \in Quota
<1> DEFINE a == AccountOf(d, s)
           own == d.snapshots[s].quota
<1>1. d.snapshots[s] \in SnapshotRow
  BY DEF Database
<1>2. own \in Quota /\ a \in Accounts \cup {None}
  BY <1>1 DEF SnapshotRow, AccountOf
<1>3. CASE a = None \/ d.quota[a] = None
  <2>1. MergedQuota(d, s) = own
    BY <1>3 DEF MergedQuota
  <2> QED BY <1>1, <1>2, <2>1
<1>4. CASE ~(a = None \/ d.quota[a] = None)
  <2>1. d.quota[a] \in Quota
    BY <1>2, <1>4 DEF Database
  <2>2. MergedQuota(d, s) = [status |-> d.quota[a].status,
                             code |-> IF d.quota[a].code = None THEN own.code
                                      ELSE d.quota[a].code]
    BY <1>4 DEF MergedQuota
  <2> HIDE DEF a, own
  <2>3. MergedQuota(d, s) \in Quota
    BY <1>2, <2>1, <2>2 DEF Quota
  <2> QED BY <1>1, <2>3
<1> QED BY <1>3, <1>4

\* What a task knows when its call failed without a response.
LEMMA LastKnownType ==
  ASSUME NEW t \in Task, db \in Database
  PROVE  LastKnown(t) \in SnapshotRow
<1>1. t.key.secret \in Secrets /\ t.row \in SnapshotRow
  BY DEF Task, Candidate
<1>2. CASE db.snapshots[t.key.secret] = None
  BY <1>1, <1>2 DEF LastKnown
<1>3. CASE db.snapshots[t.key.secret] # None
  <2> DEFINE old == db.snapshots[t.key.secret]
             quota == MergedQuota(db, t.key.secret)
  <2>1. old \in SnapshotRow /\ quota \in Quota
    BY <1>1, <1>3, MergedQuotaType
  <2>2. LastKnown(t) = [old EXCEPT !.quota = quota]
    BY <1>3 DEF LastKnown
  <2> HIDE DEF old, quota
  <2> QED BY <2>1, <2>2 DEF SnapshotRow
<1> QED BY <1>2, <1>3

\* The statuses that an exception leaves.
LEMMA RaisedStatusesType ==
  ASSUME NEW q \in Quota, NEW class
  PROVE  RaisedStatuses(q.status, class)
           \subseteq {"ok", "unavailable", "spent", "auth_error", "quota_exhausted"}
<1>1. q.status \in {"ok", "unavailable", "spent", "auth_error", "quota_exhausted"}
  BY DEF Quota
<1>2. CASE class \in {"quota_exhausted", "auth_error"}
  BY <1>2 DEF RaisedStatuses
<1>3. CASE class = "rate_limit"
  BY <1>1, <1>3 DEF RaisedStatuses
<1>4. CASE class \notin {"quota_exhausted", "auth_error", "rate_limit"}
  BY <1>1, <1>4 DEF RaisedStatuses
<1> QED BY <1>2, <1>3, <1>4

\* A task that moves on keeps its key.
LEMMA AdvanceTasks ==
  ASSUME NEW t \in Task, tasks \in SUBSET FineTask, t \in tasks, db \in Database,
         NEW stage \in {"account", "locking", "quota", "storing", "failing"},
         NEW row \in SnapshotRow,
         stage \in {"locking", "quota"} => row.account # None,
         Advance(t, stage, row)
  PROVE  /\ tasks' \in SUBSET FineTask /\ UNCHANGED calls
         /\ Disables(db, db', Blamed(t))
         /\ \A u \in tasks \ tasks' : u = t
<1> DEFINE v == [t EXCEPT !.stage = stage, !.row = row]
<1>1. v \in FineTask
  BY DEF FineTask, Task
<1>2. tasks' = (tasks \ {t}) \cup {v} /\ UNCHANGED <<db, calls>>
  BY DEF Advance
<1> HIDE DEF v
<1>3. Disables(db, db', Blamed(t))
  BY <1>2 DEF Disables
<1> QED BY <1>1, <1>2, <1>3

\* A task that ends by storing a row.
LEMMA StoringTasks ==
  ASSUME NEW t \in Task, tasks \in SUBSET FineTask, t \in tasks, db \in Database,
         NEW row \in SnapshotRow, End(t, UpsertKeySnapshot(db, t.key.secret, row))
  PROVE  /\ tasks' \in SUBSET FineTask /\ UNCHANGED calls
         /\ Disables(db, db', Blamed(t))
         /\ \A u \in tasks \ tasks' : u = t
<1>1. t.key.secret \in Secrets
  BY DEF Task, Candidate
<1>2. /\ tasks' = tasks \ {t} /\ UNCHANGED calls
      /\ db' = UpsertKeySnapshot(db, t.key.secret, row)
  BY DEF End
<1>3. db' \in Database /\ db'.keys = db.keys
  BY <1>1, <1>2, UpsertKeySnapshotType, UpsertKeySnapshotKeys
<1>4. Disables(db, db', Blamed(t))
  BY <1>3 DEF Disables
<1> QED BY <1>2, <1>4

\* A task writes only keys it may blame, and ends alone.
LEMMA TaskStepKeeps ==
  ASSUME tasks \in SUBSET FineTask, db \in Database, NEW t \in tasks, TaskStep(t)
  PROVE  /\ tasks' \in SUBSET FineTask /\ UNCHANGED calls
         /\ Disables(db, db', Blamed(t))
         /\ \A u \in tasks \ tasks' : u = t
<1> DEFINE Goal == /\ tasks' \in SUBSET FineTask /\ UNCHANGED calls
                   /\ Disables(db, db', Blamed(t))
                   /\ \A u \in tasks \ tasks' : u = t
<1>1. /\ t \in Task /\ t.row \in SnapshotRow /\ t.key.secret \in Secrets
      /\ t.stage \in {"locking", "quota"} => t.row.account \in Accounts
  BY DEF FineTask, Task, Candidate, SnapshotRow
<1>2. ASSUME BeginTask(t) PROVE Goal
  <2>1. Advance(t, "account", t.row)
    BY <1>2 DEF BeginTask
  <2> QED BY <1>1, <2>1, AdvanceTasks
<1>3. ASSUME NEW a \in Owners[t.key.secret], NEW state \in AccountStates,
             AccountKnown(t, a, state)
      PROVE  Goal
  <2> DEFINE stage == IF a = None THEN "storing" ELSE "locking"
             row == [t.row EXCEPT !.account = a, !.state = state]
  <2>1. a \in Accounts \cup {None}
    BY <1>1, RefreshAssumption
  <2>2. row \in SnapshotRow /\ row.account = a
    BY <1>1, <2>1 DEF SnapshotRow
  <2>3. Advance(t, stage, row)
    BY <1>3 DEF AccountKnown
  <2>4. stage \in {"storing", "locking"} /\ (stage = "locking" => a # None)
    OBVIOUS
  <2> HIDE DEF stage, row
  <2> QED BY <1>1, <2>2, <2>3, <2>4, AdvanceTasks
<1>4. ASSUME NEW recent \in BOOLEAN, EnterAccount(t, recent) PROVE Goal
  <2> DEFINE known == db.quota[t.row.account]
             row == [t.row EXCEPT !.quota = known]
  <2>1. t.row.account \in Accounts /\ t.row.account # None
    BY <1>1, <1>4, NoneAssumption DEF EnterAccount, At
  <2>2. CASE recent
    <3>1. known # None /\ Advance(t, "storing", row)
      BY <1>4, <2>2 DEF EnterAccount
    <3>2. known \in Quota
      BY <2>1, <3>1 DEF Database
    <3> HIDE DEF known
    <3>3. row \in SnapshotRow
      BY <1>1, <3>2 DEF SnapshotRow
    <3> HIDE DEF row
    <3> QED BY <1>1, <3>1, <3>3, AdvanceTasks
  <2>3. CASE ~recent
    <3>1. Advance(t, "quota", t.row)
      BY <1>4, <2>3 DEF EnterAccount
    <3> QED BY <1>1, <2>1, <3>1, AdvanceTasks
  <2> QED BY <2>2, <2>3
<1>5. ASSUME NEW q \in Quota, NEW stage \in {"storing", "failing"},
             Advance(t, stage, [t.row EXCEPT !.quota = q])
      PROVE  Goal
  <2> DEFINE row == [t.row EXCEPT !.quota = q]
  <2>1. row \in SnapshotRow
    BY <1>1 DEF SnapshotRow
  <2> HIDE DEF row
  <2>2. Advance(t, stage, row)
    BY <1>5 DEF row
  <2> QED BY <1>1, <2>1, <2>2, AdvanceTasks
<1>6. ASSUME NEW q \in ReadableQuotas, QuotaKnown(t, q) PROVE Goal
  <2>1. q \in Quota
    BY DEF ReadableQuotas, Quota
  <2>2. Advance(t, "storing", [t.row EXCEPT !.quota = q])
    BY <1>6 DEF QuotaKnown
  <2> QED BY <1>5, <2>1, <2>2
<1>7. ASSUME Raised(t) PROVE Goal
  <2>1. CASE Advance(t, "failing", t.row)
    BY <1>1, <2>1, AdvanceTasks
  <2>2. ASSUME NEW q \in {Unknown, [status |-> "ok", code |-> 200]},
               Advance(t, "failing", [t.row EXCEPT !.quota = q])
        PROVE  Goal
    <3>1. q \in Quota
      BY DEF Unknown, Quota
    <3> QED BY <1>5, <2>2, <3>1
  <2> QED BY <1>7, <2>1, <2>2 DEF Raised
<1>8. ASSUME StoreRow(t) PROVE Goal
  <2>1. End(t, UpsertKeySnapshot(db, t.key.secret, t.row))
    BY <1>8 DEF StoreRow
  <2> QED BY <1>1, <2>1, StoringTasks
<1>9. ASSUME NEW row \in SnapshotRow, NEW a, NEW auto,
             row.account \in {t.row.account, AccountOf(db, t.key.secret)},
             StoreRefusal(t, row, a, auto)
      PROVE  Goal
  <2>1. Disables(db, db', Blamed(t)) /\ tasks' = tasks \ {t} /\ UNCHANGED calls
    BY <1>1, <1>9, RefusalDisables
  <2> QED BY <2>1
<1>10. ASSUME NEW a \in Refusals, NEW auto \in AutoDisable, AccountRefused(t, a, auto)
       PROVE  Goal
  <2> DEFINE row == [account |-> AccountOf(db, t.key.secret),
                     state   |-> IF ErrorType(a) = "quota_exhausted" THEN "suspended"
                                 ELSE "active",
                     quota   |-> RefusedQuota(a)]
  <2>1. AccountOf(db, t.key.secret) \in Accounts \cup {None}
    BY <1>1 DEF AccountOf, Database, SnapshotRow
  <2>2. row \in SnapshotRow
    BY <2>1, RefusedQuotaType DEF SnapshotRow, AccountStates
  <2>3. StoreRefusal(t, row, a, auto) /\ row.account = AccountOf(db, t.key.secret)
    BY <1>10 DEF AccountRefused
  <2> HIDE DEF row
  <2> QED BY <1>9, <2>2, <2>3
<1>11. ASSUME NEW a \in Refusals, NEW auto \in AutoDisable, QuotaRefused(t, a, auto)
       PROVE  Goal
  <2>1. PICK state \in {t.row.state, "suspended"} :
          StoreRefusal(t, [t.row EXCEPT !.state = state, !.quota = RefusedQuota(a)], a, auto)
    BY <1>11 DEF QuotaRefused
  <2> DEFINE row == [t.row EXCEPT !.state = state, !.quota = RefusedQuota(a)]
  <2>2. state \in AccountStates
    BY <1>1 DEF SnapshotRow, AccountStates
  <2>3. row \in SnapshotRow /\ row.account = t.row.account
    BY <1>1, <2>2, RefusedQuotaType DEF SnapshotRow
  <2>4. StoreRefusal(t, row, a, auto)
    BY <2>1
  <2> HIDE DEF row
  <2> QED BY <1>9, <2>3, <2>4
<1>12. ASSUME NEW words \in RaisedTexts, StoreFailure(t, words) PROVE Goal
  <2> DEFINE old == LastKnown(t)
             class == ErrorType([status |-> NoStatus, words |-> words, exc |-> "none"])
  <2>1. PICK status \in RaisedStatuses(old.quota.status, class) :
          End(t, UpsertKeySnapshot(db, t.key.secret, [old EXCEPT !.quota.status = status]))
    BY <1>12 DEF StoreFailure
  <2>2. old \in SnapshotRow
    BY <1>1, LastKnownType
  <2> HIDE DEF old, class
  <2>3. old.quota \in Quota
    BY <2>2 DEF SnapshotRow
  <2>4. status \in {"ok", "unavailable", "spent", "auth_error", "quota_exhausted"}
    BY <2>1, <2>3, RaisedStatusesType
  <2> DEFINE quota == [old.quota EXCEPT !.status = status]
             row == [old EXCEPT !.quota = quota]
  <2>5. quota \in Quota
    BY <2>3, <2>4 DEF Quota
  <2>6. row = [old EXCEPT !.quota.status = status]
    OBVIOUS
  <2> HIDE DEF quota
  <2>7. row \in SnapshotRow
    BY <2>2, <2>5 DEF SnapshotRow
  <2>8. End(t, UpsertKeySnapshot(db, t.key.secret, row))
    BY <2>1, <2>6
  <2> HIDE DEF row
  <2> QED BY <1>1, <2>7, <2>8, StoringTasks
<1> HIDE DEF Goal
<1>13. Goal
  BY <1>2, <1>3, <1>4, <1>6, <1>7, <1>8, <1>10, <1>11, <1>12 DEF TaskStep
<1> QED BY <1>13 DEF Goal

-----------------------------------------------------------------------------
(* The invariant.                                                          *)

\* The pool is in order; a clean-up that probes knows its key; and a task that
\* needs the lock of an account has an account.
MaintenanceInv ==
  /\ PoolInv
  /\ cleanups \in [Cleaners -> FineCleanup]
  /\ calls \in [Calls -> Call]
  /\ tasks \in SUBSET FineTask
  /\ load \in Loads

\* The tasks of a call start with the keys it chose.
LEMMA NewTasksFine ==
  ASSUME NEW keys \in SUBSET Candidate
  PROVE  NewTasks(keys) \in SUBSET FineTask
<1> SUFFICES ASSUME NEW k \in keys
             PROVE  [key |-> k, stage |-> "queued",
                     row |-> [account |-> None, state |-> "active", quota |-> Unknown]]
                      \in FineTask
  BY DEF NewTasks
<1>1. [account |-> None, state |-> "active", quota |-> Unknown] \in SnapshotRow
  <2>1. Unknown \in Quota
    BY DEF Unknown, Quota
  <2> QED BY <2>1 DEF SnapshotRow, AccountStates
<1> QED BY <1>1 DEF FineTask, Task

\* A call starts with keys that are stored.
LEMMA StartRefreshKeeps ==
  ASSUME MaintenanceInv, NEW c \in Calls, NEW force \in BOOLEAN,
         NEW slots \in Concurrency, StartRefresh(c, force, slots)
  PROVE  /\ calls' \in [Calls -> Call]
         /\ tasks' \in SUBSET FineTask
         /\ UNCHANGED db
<1> DEFINE free == Running \cup Waiting = {}
<1>1. PICK keys \in Selections(force) :
        /\ calls' = [calls EXCEPT ![c] =
             [stage |-> IF free THEN "running" ELSE "waiting", keys |-> keys,
              slots |-> slots]]
        /\ tasks' = IF free THEN NewTasks(keys) ELSE tasks
  BY DEF StartRefresh
<1>2. keys \in SUBSET Candidate
  <2>1. \A n \in StoredNames(db) : CandidateOf(db, n) \in Candidate
    BY StoredRow DEF MaintenanceInv, PoolInv, PoolTypeOK, CandidateOf, Candidate
  <2> QED BY <2>1 DEF Selections
<1> HIDE DEF free
<1>3. [stage |-> IF free THEN "running" ELSE "waiting", keys |-> keys, slots |-> slots]
        \in Call
  BY <1>2 DEF Call
<1>4. calls' \in [Calls -> Call]
  BY <1>1, <1>3 DEF MaintenanceInv
<1>5. tasks' \in SUBSET FineTask
  BY <1>1, <1>2, NewTasksFine DEF MaintenanceInv
<1> QED BY <1>4, <1>5 DEF StartRefresh

\* What a refresh does by itself.
LEMMA ProgressKeeps ==
  ASSUME MaintenanceInv, RefreshProgress
  PROVE  /\ calls' \in [Calls -> Call]
         /\ tasks' \in SUBSET FineTask
         /\ db' = db \/ \E t \in tasks : /\ TaskStep(t)
                                         /\ Disables(db, db', Blamed(t))
                                         /\ \A u \in tasks \ tasks' : u = t
<1>1. db \in Database /\ calls \in [Calls -> Call] /\ tasks \in SUBSET FineTask
  BY DEF MaintenanceInv, PoolInv, PoolTypeOK
<1>2. ASSUME NEW c \in Calls, AcquireRefresh(c)
      PROVE  calls' \in [Calls -> Call] /\ tasks' \in SUBSET FineTask /\ db' = db
  <2>1. calls[c].keys \in SUBSET Candidate
    BY <1>1 DEF Call
  <2>2. [calls[c] EXCEPT !.stage = "running"] \in Call
    BY <1>1 DEF Call
  <2> QED BY <1>1, <1>2, <2>1, <2>2, NewTasksFine DEF AcquireRefresh
<1>3. ASSUME NEW c \in Calls, FinishRefresh(c)
      PROVE  calls' \in [Calls -> Call] /\ tasks' \in SUBSET FineTask /\ db' = db
  <2>1. [NoCall EXCEPT !.stage = "done"] \in Call
    BY DEF NoCall, Call
  <2> QED BY <1>1, <1>3, <2>1 DEF FinishRefresh
<1>4. ASSUME NEW t \in tasks, TaskStep(t)
      PROVE  /\ calls' = calls /\ tasks' \in SUBSET FineTask
             /\ Disables(db, db', Blamed(t)) /\ \A u \in tasks \ tasks' : u = t
  BY <1>1, <1>4, TaskStepKeeps
<1> QED BY <1>1, <1>2, <1>3, <1>4 DEF RefreshProgress

\* The pool of a database in order is in order.
LEMMA PoolInvOf ==
  ASSUME PoolInv, db' \in Database, UniqueSecrets(db'),
         UNCHANGED <<now, adding, phase, nextEnv, adminOps, restarts>>
  PROVE  PoolInv'
BY DEF PoolInv, PoolTypeOK, UniqueSecrets, StoredNames

\* The start.
LEMMA MaintenanceInitInv == MaintenanceInit => MaintenanceInv
<1> SUFFICES ASSUME MaintenanceInit PROVE MaintenanceInv
  OBVIOUS
<1>1. PoolInv
  BY InitInv DEF MaintenanceInit
<1>2. NoCleanup \in FineCleanup
  BY DEF NoCleanup, FineCleanup, Cleanup
<1>3. NoCall \in Call
  BY DEF NoCall, Call
<1> QED BY <1>1, <1>2, <1>3 DEF MaintenanceInit, MaintenanceInv, CleanupInit, RefreshInit

\* The inductive step, one case per action.
LEMMA MaintenanceStepInv == MaintenanceInv /\ [MaintenanceNext]_vars => MaintenanceInv'
<1> SUFFICES ASSUME MaintenanceInv, [MaintenanceNext]_vars PROVE MaintenanceInv'
  OBVIOUS
<1>1. PoolInv /\ db \in Database /\ UniqueSecrets(db)
  BY DEF MaintenanceInv, PoolInv, PoolTypeOK
<1>2. load.cleaners \subseteq Cleaners /\ load.calls \subseteq Calls
      /\ load.slots \subseteq Concurrency
  BY MaintenanceAssumption DEF MaintenanceInv
<1>3. [PoolNext]_poolVars => PoolInv'
  BY <1>1, StepInv
<1>4. CASE AdminStep \/ BootStep
  <2>1. PoolNext
    BY <1>4 DEF AdminStep, BootStep, PoolNext, ProcessNext
  <2> QED BY <1>3, <1>4, <2>1 DEF AdminStep, BootStep, MaintenanceInv
<1>5. CASE CleanupActs
  <2>1. PICK c \in Cleaners : CleanupMoves(c)
    BY <1>2, <1>5 DEF CleanupActs
  <2>2. cleanups' \in [Cleaners -> FineCleanup] /\ Shrinks(db, db')
    BY <1>1, <2>1, CleanupMovesKeeps DEF MaintenanceInv
  <2>3. db' \in Database /\ UniqueSecrets(db')
    BY <1>1, <2>2, ShrinkUnique DEF Shrinks
  <2>4. PoolInv'
    BY <1>1, <1>5, <2>3, PoolInvOf DEF CleanupActs
  <2> QED BY <1>5, <2>2, <2>4 DEF CleanupActs, MaintenanceInv
<1>6. CASE RefreshStarts
  <2>1. PICK c \in Calls, force \in BOOLEAN, slots \in Concurrency :
          StartRefresh(c, force, slots)
    BY <1>2, <1>6 DEF RefreshStarts
  <2>2. calls' \in [Calls -> Call] /\ tasks' \in SUBSET FineTask /\ UNCHANGED db
    BY <2>1, StartRefreshKeeps
  <2>3. PoolInv'
    BY <1>1, <1>6, <2>2, PoolInvOf DEF RefreshStarts
  <2> QED BY <1>6, <2>2, <2>3 DEF RefreshStarts, MaintenanceInv
<1>7. CASE RefreshMoves
  <2>1. /\ calls' \in [Calls -> Call] /\ tasks' \in SUBSET FineTask
        /\ db' = db \/ \E t \in tasks : Disables(db, db', Blamed(t))
    BY <1>7, ProgressKeeps DEF RefreshMoves
  <2>2. db' \in Database /\ UniqueSecrets(db')
    BY <1>1, <2>1, DisabledUnique DEF Disables
  <2>3. PoolInv'
    BY <1>1, <1>7, <2>2, PoolInvOf DEF RefreshMoves
  <2> QED BY <1>7, <2>1, <2>3 DEF RefreshMoves, MaintenanceInv
<1>8. CASE MaintenanceRestart
  <2>1. PoolInv'
    BY <1>3, <1>8 DEF MaintenanceRestart, PoolNext, ProcessNext
  <2>2. NoCleanup \in FineCleanup /\ NoCall \in Call
    BY DEF NoCleanup, FineCleanup, Cleanup, NoCall, Call
  <2> QED BY <1>8, <2>1, <2>2 DEF MaintenanceRestart, MaintenanceInv
<1>9. CASE UNCHANGED vars
  BY <1>3, <1>9 DEF vars, MaintenanceInv
<1> QED BY <1>4, <1>5, <1>6, <1>7, <1>8, <1>9 DEF MaintenanceNext

\* MaintenanceInv is an invariant.
LEMMA MaintenanceInvariant == MaintenanceSpec => []MaintenanceInv
BY MaintenanceInitInv, MaintenanceStepInv, PTL DEF MaintenanceSpec

-----------------------------------------------------------------------------
(* What a failed refresh leaves.                                           *)

\* No exception of the management API speaks of throttling.
NoThrottling == \A words \in RaisedTexts : "throttle" \notin words

\* The class of such an exception is not throttling.
LEMMA RaisedClass ==
  ASSUME NEW words, "throttle" \notin words
  PROVE  ErrorType([status |-> NoStatus, words |-> words, exc |-> "none"]) # "rate_limit"
BY DEF ErrorType, NoStatus

\* Then a status that blocked blocks, whatever the exception's class is.
LEMMA RaisedBlocks ==
  ASSUME NEW q \in Quota, ExhaustedQuota(q), NEW class, class # "rate_limit",
         NEW r \in Quota, r.status \in RaisedStatuses(q.status, class), r.code = q.code
  PROVE  ExhaustedQuota(r)
<1>1. CASE class \in {"quota_exhausted", "auth_error"}
  BY <1>1 DEF RaisedStatuses, ExhaustedQuota
<1>2. CASE class \notin {"quota_exhausted", "auth_error"}
  <2>1. r.status = q.status
    BY <1>2 DEF RaisedStatuses
  <2> QED BY <2>1 DEF ExhaustedQuota
<1> QED BY <1>1, <1>2

\* What a blocked account's keys are said to have left is nothing.
LEMMA MergedBlocks ==
  ASSUME NEW d \in Database, NEW s \in Secrets, d.snapshots[s] # None,
         AccountOf(d, s) # None, d.quota[AccountOf(d, s)] # None,
         ExhaustedQuota(d.quota[AccountOf(d, s)])
  PROVE  ExhaustedQuota(MergedQuota(d, s))
<1>1. d.quota[AccountOf(d, s)].code = 412 => d.quota[AccountOf(d, s)].code # None
  BY NoneAssumption
<1> QED BY <1>1 DEF MergedQuota, ExhaustedQuota

\* A failure keeps blocked what is blocked, unless it is the account that the
\* task learnt for a key of which nothing is known.
LEMMA FailureBlocks ==
  ASSUME NoThrottling, db \in Database, NEW t \in Task,
         NEW words \in RaisedTexts, StoreFailure(t, words),
         NEW a \in Accounts, db.quota[a] # None, ExhaustedQuota(db.quota[a]),
         db.snapshots[t.key.secret] # None \/ t.row.account # a
  PROVE  ExhaustedQuota(db'.quota[a])
<1> DEFINE s == t.key.secret
           old == LastKnown(t)
           class == ErrorType([status |-> NoStatus, words |-> words, exc |-> "none"])
<1>1. PICK status \in RaisedStatuses(old.quota.status, class) :
        db' = UpsertKeySnapshot(db, s, [old EXCEPT !.quota.status = status])
  BY DEF StoreFailure, End
<1>2. s \in Secrets /\ old \in SnapshotRow
  BY LastKnownType DEF Task, Candidate
<1>3. class # "rate_limit"
  BY RaisedClass DEF NoThrottling
<1>4. db.snapshots[s] = None => old = t.row
  BY DEF LastKnown
<1>5. ASSUME db.snapshots[s] # None
      PROVE  old.account = AccountOf(db, s) /\ old.quota = MergedQuota(db, s)
  <2>1. /\ old = [db.snapshots[s] EXCEPT !.quota = MergedQuota(db, s)]
        /\ db.snapshots[s] \in SnapshotRow /\ MergedQuota(db, s) \in Quota
    BY <1>2, <1>5, MergedQuotaType DEF LastKnown
  <2> QED BY <1>5, <2>1 DEF SnapshotRow, AccountOf
<1> HIDE DEF old, class, s
<1> DEFINE quota == [old.quota EXCEPT !.status = status]
           row == [old EXCEPT !.quota = quota]
<1>6. old.quota \in Quota
  BY <1>2 DEF SnapshotRow
<1>7. status \in {"ok", "unavailable", "spent", "auth_error", "quota_exhausted"}
  BY <1>6, RaisedStatusesType
<1>8. quota \in Quota /\ quota.status = status /\ quota.code = old.quota.code
  BY <1>6, <1>7 DEF Quota
<1>9. row = [old EXCEPT !.quota.status = status]
  OBVIOUS
<1> HIDE DEF quota
<1>10. row.account = old.account /\ row.quota = quota
  BY <1>2 DEF SnapshotRow
<1> HIDE DEF row
<1>11. db'.quota = IF row.account = None THEN db.quota
                   ELSE [db.quota EXCEPT ![row.account] = row.quota]
  BY <1>1, <1>9 DEF UpsertKeySnapshot, Database
<1>12. db.snapshots[s] = None => old.account # a
  BY <1>4 DEF s
<1>13. CASE row.account # a
  BY <1>11, <1>13, DatabaseFields
<1>14. CASE row.account = a
  <2>1. a # None /\ db.snapshots[s] # None
    BY <1>10, <1>14, <1>12, NoneAssumption
  <2>2. ExhaustedQuota(old.quota)
    BY <1>2, <1>5, <1>10, <1>14, <2>1, MergedBlocks
  <2>3. ExhaustedQuota(quota)
    BY <1>3, <1>6, <1>8, <2>2, RaisedBlocks
  <2>4. db'.quota[a] = quota
    BY <1>10, <1>11, <1>14, <2>1, DatabaseFields
  <2> QED BY <2>3, <2>4
<1> QED BY <1>13, <1>14

-----------------------------------------------------------------------------
(* The theorems.                                                           *)

\* The tables, the passes of the clean-up and the tasks of the refresh stay
\* well-formed: what they kept across an await is still a key they may act on.
THEOREM MaintenanceTypeCorrect == MaintenanceSpec => []MaintenanceTypeOK
<1>1. MaintenanceInv => MaintenanceTypeOK
  BY DEF MaintenanceInv, PoolInv, MaintenanceTypeOK, CleanupTypeOK, RefreshTypeOK,
         FineCleanup, FineTask
<1> QED BY <1>1, MaintenanceInvariant, PTL

\* Maintenance never brings two rows to the same Fireworks key either.
THEOREM FingerprintsStayUniqueInMaintenance == MaintenanceSpec => []FingerprintsUnique
<1>1. MaintenanceInv => FingerprintsUnique
  BY DEF MaintenanceInv, PoolInv, FingerprintsUnique
<1> QED BY <1>1, MaintenanceInvariant, PTL

\* cleanup_invalid_keys never forgets what is known of an account that has a
\* key by then, however administrators and refreshes change the pool while the
\* clean-up waits for a probe.
THEOREM CleanupsReopenNoAccount == MaintenanceSpec => CleanupNeverReopens
<1> DEFINE Kept1 == \A c \in Cleaners : CleanupStep(c) =>
                      \A a \in Accounts : KeysForAccount(db', a) # {} =>
                        /\ db'.quota[a] = db.quota[a]
                        /\ db'.cooldowns[a] = db.cooldowns[a]
<1>1. MaintenanceInv /\ [MaintenanceNext]_vars => [Kept1]_cleanupVars
  <2> SUFFICES ASSUME MaintenanceInv, [MaintenanceNext]_vars,
                      NEW c \in Cleaners, CleanupStep(c)
               PROVE  KeepsAccounts(db, db')
    BY DEF KeepsAccounts
  <2>1. ASSUME UNCHANGED cleanups PROVE FALSE
    BY <2>1 DEF CleanupStep
  <2>2. CASE CleanupActs
    <3>1. PICK e \in Cleaners : CleanupMoves(e)
      BY <2>2, MaintenanceAssumption DEF CleanupActs, MaintenanceInv
    <3> QED BY <3>1, CleanupMovesKeeps DEF MaintenanceInv
  <2>3. ~MaintenanceRestart
    BY DEF MaintenanceRestart, Restart, CleanupStep
  <2> QED BY <2>1, <2>2, <2>3
      DEF MaintenanceNext, AdminStep, BootStep, RefreshStarts, RefreshMoves, vars
<1> QED BY <1>1, MaintenanceInvariant, PTL DEF MaintenanceSpec, CleanupNeverReopens

\* _refresh_fireworks_key_snapshot only disables keys, and only the key of the
\* task's name or secret and the keys of the account that its answer is about,
\* although its keys were listed before administrators changed them.
THEOREM RefreshesStayContained == MaintenanceSpec => RefreshContained
<1> DEFINE Hit(t, n) == /\ db'.keys[n] # None
                        /\ ~db'.keys[n].enabled
                        /\ db'.keys[n].secret = db.keys[n].secret
                        /\ \/ n = t.key.name
                           \/ db.keys[n].secret = t.key.secret
                           \/ /\ AccountOf(db, db.keys[n].secret) # None
                              /\ AccountOf(db, db.keys[n].secret)
                                   \in {t.row.account, AccountOf(db, t.key.secret)}
           Held == \A t \in Ended : phase' = "up" =>
                     \A n \in StoredNames(db) : db'.keys[n] # db.keys[n] => Hit(t, n)
<1>1. MaintenanceInv /\ [MaintenanceNext]_vars => [Held]_refreshVars
  <2> SUFFICES ASSUME MaintenanceInv, [MaintenanceNext]_vars, NEW t \in Ended,
                      phase' = "up", NEW n \in StoredNames(db), db'.keys[n] # db.keys[n]
               PROVE  Hit(t, n)
    OBVIOUS
  <2>1. t \in tasks \ tasks' /\ n \in Names
    BY DEF Ended, StoredNames
  <2>2. CASE RefreshMoves
    <3>1. PICK u \in tasks : /\ Disables(db, db', Blamed(u))
                             /\ \A v \in tasks \ tasks' : v = u
      BY <2>2, ProgressKeeps DEF RefreshMoves
    <3> QED BY <2>1, <3>1 DEF Disables, Blamed
  <2>3. ~RefreshStarts
    BY DEF RefreshStarts, StartRefresh
  <2>4. ~MaintenanceRestart
    BY DEF MaintenanceRestart, Restart
  <2> QED BY <2>1, <2>2, <2>3, <2>4
      DEF MaintenanceNext, AdminStep, BootStep, CleanupActs, vars
<1> QED BY <1>1, MaintenanceInvariant, PTL DEF MaintenanceSpec, RefreshContained

\* A refresh that failed without an answer, and not for throttling, leaves every
\* blocked account blocked, whatever changed since it began, except the account
\* it learnt for a key that has no snapshot: _refresh_fireworks_key_snapshot then
\* writes the unknown quota of its payload.
THEOREM OutagesOpenOnlyUnknown ==
  ASSUME NoThrottling
  PROVE  MaintenanceSpec => OutageOpensOnlyUnknown
<1> DEFINE Blocked == \A t \in Ended :
             phase' = "up" /\ t.stage = "failing" =>
             \A a \in Accounts :
               db.quota[a] # None /\ ExhaustedQuota(db.quota[a]) =>
                 \/ ExhaustedQuota(db'.quota[a])
                 \/ db.snapshots[t.key.secret] = None /\ t.row.account = a
<1>1. MaintenanceInv /\ [MaintenanceNext]_vars => [Blocked]_refreshVars
  <2> SUFFICES ASSUME MaintenanceInv, [MaintenanceNext]_vars, NEW t \in Ended,
                      phase' = "up", t.stage = "failing", NEW a \in Accounts,
                      db.quota[a] # None, ExhaustedQuota(db.quota[a]),
                      db.snapshots[t.key.secret] # None \/ t.row.account # a
               PROVE  ExhaustedQuota(db'.quota[a])
    OBVIOUS
  <2>1. t \in tasks \ tasks' /\ t \in Task /\ db \in Database
    BY DEF Ended, MaintenanceInv, FineTask, PoolInv, PoolTypeOK
  <2>2. CASE RefreshMoves
    <3>1. CASE db' = db
      BY <3>1
    <3>2. CASE \E u \in tasks : TaskStep(u) /\ \A v \in tasks \ tasks' : v = u
      <4>1. TaskStep(t)
        BY <2>1, <3>2
      <4>2. PICK words \in RaisedTexts : StoreFailure(t, words)
        BY <4>1 DEF TaskStep, BeginTask, AccountKnown, EnterAccount, QuotaKnown,
                    Raised, StoreRow, AccountRefused, QuotaRefused, At
      <4> QED BY <2>1, <4>2, FailureBlocks
    <3>3. db' = db \/ \E u \in tasks : TaskStep(u) /\ \A v \in tasks \ tasks' : v = u
      BY <2>2, ProgressKeeps DEF RefreshMoves
    <3> QED BY <3>1, <3>2, <3>3
  <2>3. ~RefreshStarts \/ db' = db
    BY DEF RefreshStarts, StartRefresh
  <2>4. ~MaintenanceRestart
    BY DEF MaintenanceRestart, Restart
  <2> QED BY <2>1, <2>2, <2>3, <2>4
      DEF MaintenanceNext, AdminStep, BootStep, CleanupActs, vars
<1> QED BY <1>1, MaintenanceInvariant, PTL DEF MaintenanceSpec, OutageOpensOnlyUnknown

=============================================================================
