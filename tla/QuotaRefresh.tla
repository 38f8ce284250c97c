---------------------------- MODULE QuotaRefresh ----------------------------
(***************************************************************************)
(* The quota refresh, in the background or asked for by an administrator:  *)
(* list_fireworks_key_quota_summaries and _refresh_fireworks_key_snapshot  *)
(* of app/products/admin/fireworks.py.                                     *)
(*                                                                         *)
(* A call lists the keys, waits for the global lock and starts one task per*)
(* key it chose.  A task waits for a slot of the semaphore, awaits the     *)
(* account of its key, waits for the lock of that account, awaits the quota*)
(* and stores what it learnt after it has let go of the lock.  Both locks  *)
(* are left on every exit of their block: a lock is held by whoever is in  *)
(* the stage that needs it.                                                *)
(***************************************************************************)
EXTENDS KeyPool, Failover

CONSTANTS
  Calls,        \* calls of the refresh
  Concurrency,  \* the values that the limit of tasks may have when it is read
  AutoDisable,  \* the values that auto-disabling may have when it is read
  Refusals,     \* error responses of the management API
  RaisedTexts,  \* texts of the exceptions that a call of it may raise
  Owners        \* the accounts that it may report for a key

ASSUME RefreshAssumption ==
  /\ Concurrency \subseteq Nat \ {0}
  /\ AutoDisable \subseteq BOOLEAN
  /\ \A a \in Refusals :
       a \in Answer /\ a.status \in 400..599 /\ a.exc = "none"
  /\ RaisedTexts \subseteq SUBSET WordFamilies
  /\ Owners \in [Secrets -> SUBSET (Accounts \cup {None})]

VARIABLES
  calls,  \* the state of every call
  tasks   \* the tasks of the call that holds the global lock

Call == [stage : {"idle", "waiting", "running", "done"},
         keys  : SUBSET Candidate,     \* the keys it chose when it listed them
         slots : Concurrency \cup {0}]  \* the limit of its semaphore

Task == [key   : Candidate,
         stage : {"queued", "account", "locking", "quota", "storing", "failing"},
         row   : SnapshotRow]          \* the payload so far

NoCall == [stage |-> "idle", keys |-> {}, slots |-> 0]

RefreshInit == calls = [c \in Calls |-> NoCall] /\ tasks = {}

RefreshTypeOK == calls \in [Calls -> Call] /\ tasks \in SUBSET Task

-----------------------------------------------------------------------------
(* Calls.                                                                  *)

Running == {c \in Calls : calls[c].stage = "running"}
Waiting == {c \in Calls : calls[c].stage = "waiting"}

Unknown == [status |-> "unavailable", code |-> None]

NewTasks(keys) ==
  {[key |-> k, stage |-> "queued",
    row |-> [account |-> None, state |-> "active", quota |-> Unknown]] : k \in keys}

\* A forced refresh takes every key; an automatic one the enabled keys without
\* snapshot, and those whose snapshot is stale or incomplete.
Selections(force) ==
  LET stored  == {CandidateOf(db, n) : n \in StoredNames(db)}
      enabled == {k \in stored : db.keys[k.name].enabled}
      missing == {k \in enabled : db.snapshots[k.secret] = None}
  IN  IF force THEN {stored} ELSE {keys \in SUBSET enabled : missing \subseteq keys}

(* Keys and snapshots are listed before the lock is taken.  An automatic   *)
(* call that finds it taken answers at once and changes nothing.           *)
StartRefresh(c, force, slots) ==
  /\ phase = "up"
  /\ calls[c].stage = "idle"
  /\ ~force => Running = {}
  /\ \E keys \in Selections(force) :
       LET free == Running \cup Waiting = {}
       IN  /\ calls' = [calls EXCEPT ![c] =
                [stage |-> IF free THEN "running" ELSE "waiting", keys |-> keys,
                 slots |-> slots]]
           /\ tasks' = IF free THEN NewTasks(keys) ELSE tasks
  /\ UNCHANGED db

AcquireRefresh(c) ==
  /\ phase = "up"
  /\ calls[c].stage = "waiting"
  /\ Running = {}
  /\ calls' = [calls EXCEPT ![c].stage = "running"]
  /\ tasks' = NewTasks(calls[c].keys)
  /\ UNCHANGED db

FinishRefresh(c) ==
  /\ phase = "up"
  /\ calls[c].stage = "running"
  /\ tasks = {}
  /\ calls' = [calls EXCEPT ![c] = [NoCall EXCEPT !.stage = "done"]]
  /\ UNCHANGED <<db, tasks>>

-----------------------------------------------------------------------------
(* Tasks: a task moves on, or it ends.                                     *)

At(t, stage) == phase = "up" /\ t \in tasks /\ t.stage = stage

Advance(t, stage, row) ==
  /\ tasks' = (tasks \ {t}) \cup {[t EXCEPT !.stage = stage, !.row = row]}
  /\ UNCHANGED <<db, calls>>

End(t, d) ==
  /\ tasks' = tasks \ {t}
  /\ db' = d
  /\ UNCHANGED calls

BeginTask(t) ==
  /\ At(t, "queued")
  /\ \E c \in Running :
       Cardinality({u \in tasks : u.stage # "queued"}) < calls[c].slots
  /\ Advance(t, "account", t.row)

\* Without an account there is no quota to ask for.
AccountKnown(t, a, state) ==
  /\ At(t, "account")
  /\ Advance(t, IF a = None THEN "storing" ELSE "locking",
             [t.row EXCEPT !.account = a, !.state = state])

\* Mutant: a task that waits for the lock keeps its siblings out as well.
AccountQuiet(t) ==
  \A u \in tasks \ {t} :
    u.stage \in {"locking", "quota"} => u.row.account # t.row.account

AccountFree(t) ==
  \A u \in tasks : u.stage = "quota" => u.row.account # t.row.account

(* Under the lock of the account: the row is copied if another task has    *)
(* refreshed it since this one began (timestamps are left open), and asked *)
(* for otherwise.                                                          *)
EnterAccount(t, recent) ==
  /\ At(t, "locking")
  /\ AccountFree(t)
  /\ LET known == db.quota[t.row.account]
     IN  IF recent
         THEN known # None /\ Advance(t, "storing", [t.row EXCEPT !.quota = known])
         ELSE Advance(t, "quota", t.row)

QuotaKnown(t, q) ==
  /\ At(t, "quota")
  /\ Advance(t, "storing", [t.row EXCEPT !.quota = q])

\* The call raised, or its body could not be read; the client is closed next.
Raised(t) ==
  \/ At(t, "account") /\ Advance(t, "failing", t.row)
  \/ /\ At(t, "quota")
     /\ \E q \in {Unknown, [status |-> "ok", code |-> 200]} :
          Advance(t, "failing", [t.row EXCEPT !.quota = q])

StoreRow(t) == At(t, "storing") /\ End(t, UpsertKeySnapshot(db, t.key.secret, t.row))

-----------------------------------------------------------------------------
(* Errors.                                                                 *)

\* Mutant: the class of the error is written as the status.
RawRefusedQuota(a) ==
  [status |-> ErrorType(a), code |-> IF a.status \in {402, 412} THEN 412 ELSE 200]

\* _apply_management_error: what a refusal says about the quota.
RefusedQuota(a) ==
  [status |-> IF ErrorType(a) \in {"quota_exhausted", "auth_error"}
              THEN ErrorType(a) ELSE "unavailable",
   code   |-> IF a.status \in {402, 412} THEN 412 ELSE 200]

DisableKeys(d, names, reason, error) ==
  [d EXCEPT !.keys = [n \in Names |->
     IF n \in names /\ @[n] # None
     THEN [@[n] EXCEPT !.enabled = FALSE, !.reason = reason, !.lastError = error]
     ELSE @[n]]]

\* Mutant: a refused payment disables the keys of every account.
DisableRefusedEverywhere(d, k, account, a) ==
  IF ErrorType(a) = "auth_error"
  THEN SetKeyEnabled(d, k.name, FALSE, "upstream_auth_failed", "auth_error")
  ELSE IF ErrorType(a) = "quota_exhausted" /\ a.status \in {402, 412}
  THEN DisableKeys(d, Names, "upstream_account_unavailable", "quota_exhausted")
  ELSE d

\* The key is addressed by its listed name, its siblings by their account now.
DisableRefused(d, k, account, a) ==
  IF ErrorType(a) = "auth_error"
  THEN SetKeyEnabled(d, k.name, FALSE, "upstream_auth_failed", "auth_error")
  ELSE IF ErrorType(a) = "quota_exhausted" /\ a.status \in {402, 412}
  THEN DisableKeys(d, {k.name} \cup
         (IF account = None THEN {} ELSE KeysForAccount(d, account)),
         "upstream_account_unavailable", "quota_exhausted")
  ELSE d

StoreRefusal(t, row, a, auto) ==
  LET stored == UpsertKeySnapshot(db, t.key.secret, row)
  IN  End(t, IF auto THEN DisableRefused(stored, t.key, row.account, a) ELSE stored)

\* /v1/accounts was refused: the account is the one the snapshot names.
AccountRefused(t, a, auto) ==
  /\ At(t, "account")
  /\ StoreRefusal(t,
       [account |-> AccountOf(db, t.key.secret),
        state   |-> IF ErrorType(a) = "quota_exhausted" THEN "suspended" ELSE "active",
        quota   |-> RefusedQuota(a)], a, auto)

\* The quota was refused, under the lock: an exhausted account is suspended
\* unless Fireworks has stated its suspend state.
QuotaRefused(t, a, auto) ==
  /\ At(t, "quota")
  /\ \E state \in IF ErrorType(a) = "quota_exhausted"
                  THEN {t.row.state, "suspended"} ELSE {t.row.state} :
       StoreRefusal(t, [t.row EXCEPT !.state = state, !.quota = RefusedQuota(a)],
                    a, auto)

\* The status an exception leaves, by the class of its text.  After throttling
\* only a summary without budget left still tells that the account is used up.
RaisedStatuses(status, class) ==
  CASE class \in {"quota_exhausted", "auth_error"} -> {class}
    [] class = "rate_limit" /\ status = "spent" -> {"spent"}
    [] class = "rate_limit" /\ status \in {"quota_exhausted", "auth_error"} ->
         {"spent", "unavailable"}
    [] class = "rate_limit" /\ status \notin {"spent", "quota_exhausted", "auth_error"} ->
         {"unavailable"}
    [] OTHER -> {status}

\* Mutant: the payload of the failed attempt is stored as it is.
PayloadSoFar(t) == t.row

\* What the tables know now takes the place of the payload.
LastKnown(t) ==
  LET s == t.key.secret
  IN  IF db.snapshots[s] = None THEN t.row
      ELSE [db.snapshots[s] EXCEPT !.quota = MergedQuota(db, s)]

StoreFailure(t, words) ==
  /\ At(t, "failing")
  /\ LET row   == LastKnown(t)
         class == ErrorType([status |-> NoStatus, words |-> words, exc |-> "none"])
     IN  \E status \in RaisedStatuses(row.quota.status, class) :
           End(t, UpsertKeySnapshot(db, t.key.secret,
                    [row EXCEPT !.quota.status = status]))

-----------------------------------------------------------------------------

\* The quotas a response that is no error may show.
ReadableQuotas == {[status |-> "ok", code |-> 200], [status |-> "spent", code |-> 200],
                   [status |-> "unavailable", code |-> 200]}

TaskStep(t) ==
  \/ BeginTask(t)
  \/ \E a \in Owners[t.key.secret], state \in AccountStates : AccountKnown(t, a, state)
  \/ \E recent \in BOOLEAN : EnterAccount(t, recent)
  \/ \E q \in ReadableQuotas : QuotaKnown(t, q)
  \/ Raised(t)
  \/ StoreRow(t)
  \/ \E a \in Refusals, auto \in AutoDisable : AccountRefused(t, a, auto)
  \/ \E a \in Refusals, auto \in AutoDisable : QuotaRefused(t, a, auto)
  \/ \E words \in RaisedTexts : StoreFailure(t, words)

\* What a call does by itself once Fireworks answers.
RefreshProgress ==
  \/ \E c \in Calls : AcquireRefresh(c)
  \/ \E c \in Calls : FinishRefresh(c)
  \/ \E t \in tasks : TaskStep(t)

RefreshNext ==
  \/ \E c \in Calls, force \in BOOLEAN, slots \in Concurrency :
       StartRefresh(c, force, slots)
  \/ RefreshProgress

-----------------------------------------------------------------------------
(* What must hold.                                                         *)

refreshVars == <<poolVars, calls, tasks>>

\* Every call ends unless the process dies: neither the global lock, nor the
\* semaphore, nor the locks of the accounts make tasks wait for each other.
RefreshEnds ==
  \A c \in Calls :
    calls[c].stage \in {"waiting", "running"} ~> calls[c].stage \in {"done", "idle"}

\* The task a step ends.
Ended == {t \in tasks \ tasks' : \A u \in tasks' : u.key # t.key}

\* A refresh that ends touches no key but to disable it, and only the key of
\* its name and the keys of the account its answer is about, whatever
\* administrators have done since it listed the keys.
RefreshContained ==
  [][\A t \in Ended : phase' = "up" =>
       \A n \in StoredNames(db) : db'.keys[n] # db.keys[n] =>
         /\ db'.keys[n] # None
         /\ ~db'.keys[n].enabled
         /\ db'.keys[n].secret = db.keys[n].secret
         /\ \/ n = t.key.name
            \/ db.keys[n].secret = t.key.secret
            \/ /\ AccountOf(db, db.keys[n].secret) # None
               /\ AccountOf(db, db.keys[n].secret)
                    \in {t.row.account, AccountOf(db, t.key.secret)}]_refreshVars

\* A refresh that failed without an answer leaves every used-up account blocked,
\* except the one it had just learnt of for a key without snapshot: there it has
\* nothing to fall back on and stores the quota as unknown.  (An exception whose
\* text speaks of throttling opens an account in any case: RaisedTexts has none.)
OutageOpensOnlyUnknown ==
  [][\A t \in Ended :
       phase' = "up" /\ t.stage = "failing" =>
       \A a \in Accounts :
         db.quota[a] # None /\ ExhaustedQuota(db.quota[a]) =>
           \/ ExhaustedQuota(db'.quota[a])
           \/ db.snapshots[t.key.secret] = None /\ t.row.account = a]_refreshVars

=============================================================================
