------------------------------ MODULE KeyStore ------------------------------
(***************************************************************************)
(* The tables of the SQLite repository that routing and failover read and  *)
(* write: keys, fireworks_key_snapshots, fireworks_account_quota_snapshots,*)
(* fireworks_account_cooldowns and response_key_routes                     *)
(* (app/control/repository.py).                                            *)
(*                                                                         *)
(* A database is one record, and a repository method is an operator from a *)
(* database to a database: every method runs in its own synchronous SQLite *)
(* transaction, and the event loop cannot switch inside one.  A handler    *)
(* that calls several methods between two awaits composes the operators.   *)
(***************************************************************************)
EXTENDS Naturals, FiniteSets

CONSTANTS
  Names,      \* admin-visible key names, the primary key of table keys
  Secrets,    \* Fireworks API keys; a fingerprint identifies its secret
  Accounts,   \* normalised Fireworks account ids
  Responses,  \* response ids of the Responses API
  None        \* SQL NULL, or no row

Reasons == {"admin_disabled", "upstream_auth_failed",
            "upstream_account_unavailable"}

ErrorTypes == {"validation_error", "auth_error", "model_not_found",
               "quota_exhausted", "rate_limit", "timeout_error",
               "network_error", "capacity_error", "server_error",
               "upstream_error"}

(* The quota columns: quota_status with the summary ("spent" is a summary  *)
(* with no budget left), and quota_status_code (412 stands for 402 too).   *)
Quota == [status : {"ok", "unavailable", "spent", "auth_error",
                    "quota_exhausted"},
          code   : {None, 200, 412}]

ExhaustedQuota(q) ==
  \/ q.status \in {"spent", "auth_error", "quota_exhausted"}
  \/ q.code = 412

\* account_state and suspend_state of a key's account, as the gate reads them.
AccountStates == {"active", "suspended"}

(* cooldown = 0 is a NULL cooldown_until.                                  *)
KeyRow == [secret    : Secrets,
           enabled   : BOOLEAN,
           reason    : Reasons \cup {None},
           lastError : ErrorTypes \cup {None},
           cooldown  : Nat]

SnapshotRow == [account : Accounts \cup {None},
                state   : AccountStates,
                quota   : Quota]

\* A candidate: the part of a KeyRecord that a request carries with it.
Candidate == [name : Names, secret : Secrets]

Database == [keys      : [Names -> KeyRow \cup {None}],
             snapshots : [Secrets -> SnapshotRow \cup {None}],
             quota     : [Accounts -> Quota \cup {None}],
             cooldowns : [Accounts -> Nat],
             routes    : [Responses -> Candidate \cup {None}]]

ASSUME NoneAssumption ==
  /\ None \notin Names \cup Secrets \cup Accounts \cup Responses \cup BOOLEAN
  /\ None \notin {200, 412}
  /\ None \notin KeyRow /\ None \notin SnapshotRow
  /\ None \notin Quota /\ None \notin Candidate

EmptyDatabase == [keys      |-> [n \in Names |-> None],
                  snapshots |-> [s \in Secrets |-> None],
                  quota     |-> [a \in Accounts |-> None],
                  cooldowns |-> [a \in Accounts |-> 0],
                  routes    |-> [p \in Responses |-> None]]

-----------------------------------------------------------------------------
(* Reads.                                                                  *)

StoredNames(db) == {n \in Names : db.keys[n] # None}

StoredSecrets(db) == {db.keys[n].secret : n \in StoredNames(db)}

CandidateOf(db, n) == [name |-> n, secret |-> db.keys[n].secret]

\* account_id of the key snapshot, None without snapshot or account.
AccountOf(db, s) ==
  IF db.snapshots[s] = None THEN None ELSE db.snapshots[s].account

\* The merged select takes every column from the account's row if it is not
\* NULL there, else from the key's row: a code may survive its status.
MergedQuota(db, s) ==
  LET a   == AccountOf(db, s)
      own == db.snapshots[s].quota
  IN  IF a = None \/ db.quota[a] = None THEN own
      ELSE [status |-> db.quota[a].status,
            code   |-> IF db.quota[a].code = None THEN own.code
                       ELSE db.quota[a].code]

\* The stored route is followed by key name only; its fingerprint is ignored.
RoutedKey(db, p) ==
  IF db.routes[p] = None \/ db.keys[db.routes[p].name] = None
  THEN None
  ELSE CandidateOf(db, db.routes[p].name)

KeysForAccount(db, a) ==
  {n \in StoredNames(db) : AccountOf(db, db.keys[n].secret) = a}

-----------------------------------------------------------------------------
(* What a database should be.                                              *)

\* The UNIQUE constraint on the fingerprint of table keys.
UniqueSecrets(db) ==
  \A m, n \in StoredNames(db) : db.keys[m].secret = db.keys[n].secret => m = n

\* No snapshot, and no route, of a secret that no key carries.
OwnedSnapshots(db) ==
  \A s \in Secrets : db.snapshots[s] # None => s \in StoredSecrets(db)

OwnedRoutes(db) ==
  \A p \in Responses :
    db.routes[p] # None => db.routes[p].secret \in StoredSecrets(db)

-----------------------------------------------------------------------------
(* Writes.  An UPDATE or DELETE that matches no row changes nothing.       *)

\* Mutant: only enabled rows are compared.
SecretOfNoEnabledKey(db, n, s) ==
  \A m \in StoredNames(db) :
    db.keys[m].secret = s /\ db.keys[m].enabled => m = n

\* UNIQUE(fingerprint): the statement raises IntegrityError otherwise.
SecretFree(db, n, s) ==
  \A m \in StoredNames(db) : db.keys[m].secret = s => m = n

\* Mutants: one of the two DELETE statements is missing.
ForgetRoutesOnly(db, s) ==
  [db EXCEPT !.routes = [p \in Responses |->
     IF @[p] # None /\ @[p].secret = s THEN None ELSE @[p]]]

ForgetSnapshotOnly(db, s) == [db EXCEPT !.snapshots = [@ EXCEPT ![s] = None]]

\* What goes with a fingerprint that its key row no longer carries.
ForgetSecret(db, s) ==
  [db EXCEPT
    !.snapshots = [@ EXCEPT ![s] = None],
    !.routes    = [p \in Responses |->
                     IF @[p] # None /\ @[p].secret = s THEN None ELSE @[p]]]

WithRow(db, n, row) == [db EXCEPT !.keys = [@ EXCEPT ![n] = row]]

\* INSERT ... ON CONFLICT(name) DO UPDATE: cooldown, reason and last error of
\* a row that was already there survive.
UpsertKey(db, n, s, enabled) ==
  IF db.keys[n] = None
  THEN WithRow(db, n, [secret |-> s, enabled |-> enabled, reason |-> None,
                       lastError |-> None, cooldown |-> 0])
  ELSE LET stored == WithRow(db, n, [db.keys[n] EXCEPT !.secret  = s,
                                                       !.enabled = enabled])
       IN  IF db.keys[n].secret = s
           THEN stored ELSE ForgetSecret(stored, db.keys[n].secret)

\* Mutant: the reason is written to last_error_type as well.
SetKeyEnabledShifted(db, n, enabled, reason, error) ==
  IF db.keys[n] = None THEN db
  ELSE WithRow(db, n, [db.keys[n] EXCEPT
                         !.enabled   = enabled,
                         !.reason    = IF enabled THEN None ELSE reason,
                         !.lastError = reason])

SetKeyEnabled(db, n, enabled, reason, error) ==
  IF db.keys[n] = None THEN db
  ELSE WithRow(db, n, [db.keys[n] EXCEPT
                         !.enabled   = enabled,
                         !.reason    = IF enabled THEN None ELSE reason,
                         !.lastError = error])

DeleteKey(db, n) ==
  IF db.keys[n] = None THEN db
  ELSE ForgetSecret(WithRow(db, n, None), db.keys[n].secret)

\* One UPDATE of name and secret; routes keep the old name after a rename.
UpdateKeyIdentity(db, n, newName, newSecret) ==
  LET old   == db.keys[n]
      moved == [db EXCEPT !.keys = [m \in Names |->
                  IF m = newName THEN [old EXCEPT !.secret = newSecret]
                  ELSE IF m = n THEN None ELSE @[m]]]
  IN  IF old.secret = newSecret THEN moved
      ELSE ForgetSecret(moved, old.secret)

SetKeyCooldown(db, n, until, error) ==
  IF db.keys[n] = None THEN db
  ELSE WithRow(db, n, [db.keys[n] EXCEPT !.cooldown = until, !.lastError = error])

ClearKeyCooldown(db, n) ==
  IF db.keys[n] = None THEN db
  ELSE WithRow(db, n, [db.keys[n] EXCEPT !.cooldown = 0])

SetAccountCooldown(db, a, until) ==
  [db EXCEPT !.cooldowns = [@ EXCEPT ![a] = until]]

ClearAccountCooldown(db, a) == SetAccountCooldown(db, a, 0)

\* The key's row first, then the quota columns copied to the account's row.
UpsertKeySnapshot(db, s, row) ==
  [db EXCEPT
    !.snapshots = [@ EXCEPT ![s] = row],
    !.quota     = IF row.account = None THEN @
                  ELSE [@ EXCEPT ![row.account] = row.quota]]

DeleteAccountQuota(db, a) == [db EXCEPT !.quota = [@ EXCEPT ![a] = None]]

UpsertRoute(db, p, k) == [db EXCEPT !.routes = [@ EXCEPT ![p] = k]]

DeleteRoute(db, p) == [db EXCEPT !.routes = [@ EXCEPT ![p] = None]]

=============================================================================
