------------------------------- MODULE KeyPool -------------------------------
(***************************************************************************)
(* The key pool under its administrators and under restarts: the handlers  *)
(* of app/products/admin/keys.py that change keys, and the start-up of     *)
(* app/platform/bootstrap.py.                                              *)
(*                                                                         *)
(* A handler is atomic between its awaits.  Creating a key with validation *)
(* awaits the Fireworks probe, so it is two actions and other handlers run *)
(* between them; all the other handlers never await.                       *)
(***************************************************************************)
EXTENDS StickyRouter, Sequences

CONSTANTS
  InitialDatabases,  \* what an earlier run may have left on disk
  EnvKeys,           \* FIREWORKS_API_KEYS, then FIREWORKS_API_KEYS_JSON
  SyncEnv,           \* SYNC_ENV_KEYS_ON_STARTUP
  MaxAttempts,       \* MAX_UPSTREAM_ATTEMPTS
  TickSizes,         \* by how much the clock may move, in seconds
  MaxNow,            \* bound of the clock
  MaxAdminOps,       \* bound of the administrators' calls
  MaxAdding,         \* bound of concurrent key creations
  MaxRestarts        \* bound of process restarts

ASSUME KeyPoolAssumption ==
  /\ \A d \in InitialDatabases : d \in Database /\ UniqueSecrets(d)
  /\ EnvKeys \in Seq(Candidate)
  /\ SyncEnv \in BOOLEAN
  /\ MaxAttempts \in Nat \ {0}
  /\ TickSizes \subseteq Nat \ {0}
  /\ {MaxNow, MaxAdminOps, MaxAdding, MaxRestarts} \subseteq Nat

VARIABLES
  db,        \* the database
  now,       \* the wall clock, in seconds
  adding,    \* creations waiting for the Fireworks probe
  phase,     \* the process: "booting", "up", or "failed" to start
  nextEnv,   \* the next key bootstrap_from_env will store
  adminOps,  \* administrators' calls so far
  restarts   \* restarts so far

poolVars == <<db, now, adding, phase, nextEnv, adminOps, restarts>>

\* A creation with no chosen name is an item of a bulk creation.
Addition == [name : Names \cup {None}, secret : Secrets, enabled : BOOLEAN]

PoolTypeOK ==
  /\ db \in Database
  /\ now \in Nat
  /\ adding \in SUBSET Addition
  /\ phase \in {"booting", "up", "failed"}
  /\ nextEnv \in 1 .. Len(EnvKeys) + 1
  /\ adminOps \in 0 .. MaxAdminOps
  /\ restarts \in 0 .. MaxRestarts

\* Mutant: stored keys stop the import even when syncing is on.
FirstEnvUnsynced(d) == IF StoredNames(d) = {} THEN 1 ELSE Len(EnvKeys) + 1

\* bootstrap_from_env returns at once when keys exist and syncing is off.
FirstEnv(d) == IF StoredNames(d) = {} \/ SyncEnv THEN 1 ELSE Len(EnvKeys) + 1

PoolInit ==
  /\ db \in InitialDatabases
  /\ now = 0
  /\ adding = {}
  /\ phase = "booting"
  /\ nextEnv = FirstEnv(db)
  /\ adminOps = 0
  /\ restarts = 0

-----------------------------------------------------------------------------
(* The process.                                                            *)

Tick(d) ==
  /\ now + d <= MaxNow
  /\ now' = now + d
  /\ UNCHANGED <<db, adding, phase, nextEnv, adminOps, restarts>>

(* Each environment key is a transaction of its own; an IntegrityError is  *)
(* not caught and ends create_app.                                         *)
BootKey ==
  /\ phase = "booting"
  /\ nextEnv <= Len(EnvKeys)
  /\ LET k == EnvKeys[nextEnv]
     IN  IF SecretFree(db, k.name, k.secret)
         THEN /\ db' = UpsertKey(db, k.name, k.secret, TRUE)
              /\ nextEnv' = nextEnv + 1
              /\ UNCHANGED phase
         ELSE /\ phase' = "failed"
              /\ UNCHANGED <<db, nextEnv>>
  /\ UNCHANGED <<now, adding, adminOps, restarts>>

BootDone ==
  /\ phase = "booting"
  /\ nextEnv > Len(EnvKeys)
  /\ phase' = "up"
  /\ UNCHANGED <<db, now, adding, nextEnv, adminOps, restarts>>

\* A crash or a restart, at any moment; only the database survives.
Restart ==
  /\ restarts < MaxRestarts
  /\ restarts' = restarts + 1
  /\ phase' = "booting"
  /\ nextEnv' = FirstEnv(db)
  /\ adding' = {}
  /\ UNCHANGED <<db, now, adminOps>>

-----------------------------------------------------------------------------
(* The administrators.                                                     *)

AdminCall ==
  /\ phase = "up"
  /\ adminOps < MaxAdminOps
  /\ adminOps' = adminOps + 1
  /\ UNCHANGED <<now, phase, nextEnv, restarts>>

\* create_key up to the probe: _unique_key_name has picked a free name.
StartCreate(n, s, enabled) ==
  /\ AdminCall
  /\ Cardinality(adding) < MaxAdding
  /\ n \notin StoredNames(db)
  /\ adding' = adding \cup {[name |-> n, secret |-> s, enabled |-> enabled]}
  /\ UNCHANGED db

\* One item of bulk_create_keys up to the probe.
StartBulkCreate(s, enabled) ==
  /\ AdminCall
  /\ Cardinality(adding) < MaxAdding
  /\ s \notin StoredSecrets(db)
  /\ adding' = adding \cup {[name |-> None, secret |-> s, enabled |-> enabled]}
  /\ UNCHANGED db

(* The probe answered.  A valid key may come with the account's data; an   *)
(* invalid one is stored disabled.  A used secret is a 409 (or a duplicate *)
(* of the bulk result); a used name is not noticed any more.               *)
FinishCreate(c, valid, snapshot) ==
  /\ phase = "up"
  /\ c \in adding
  /\ adding' = adding \ {c}
  /\ \E n \in IF c.name # None THEN {c.name} ELSE Names \ StoredNames(db) :
       IF ~SecretFree(db, n, c.secret)
       THEN UNCHANGED db
       ELSE LET enabled == c.enabled /\ valid
                stored  == UpsertKey(db, n, c.secret, enabled)
            IN  db' = IF snapshot # None /\ enabled
                      THEN UpsertKeySnapshot(stored, c.secret, snapshot)
                      ELSE stored
  /\ UNCHANGED <<now, phase, nextEnv, adminOps, restarts>>

\* create_key without validation never awaits.
CreateUnchecked(n, s, enabled) ==
  /\ AdminCall
  /\ n \notin StoredNames(db)
  /\ SecretFree(db, n, s)
  /\ db' = UpsertKey(db, n, s, enabled)
  /\ UNCHANGED adding

\* enabled = None leaves the flag alone.
PatchKey(n, newName, newSecret, enabled) ==
  /\ AdminCall
  /\ n \in StoredNames(db)
  /\ newName = n \/ newName \notin StoredNames(db)
  /\ SecretFree(db, n, newSecret)
  /\ LET moved == UpdateKeyIdentity(db, n, newName, newSecret)
     IN  db' = IF enabled = None THEN moved
               ELSE SetKeyEnabled(moved, newName, enabled,
                                  "admin_disabled", None)
  /\ UNCHANGED adding

EnableKey(n) ==
  /\ AdminCall
  /\ n \in StoredNames(db)
  /\ db' = SetKeyEnabled(db, n, TRUE, None, None)
  /\ UNCHANGED adding

DisableKey(n) ==
  /\ AdminCall
  /\ n \in StoredNames(db)
  /\ db' = SetKeyEnabled(db, n, FALSE, "admin_disabled", None)
  /\ UNCHANGED adding

ClearCooldown(n) ==
  /\ AdminCall
  /\ n \in StoredNames(db)
  /\ db' = ClearKeyCooldown(db, n)
  /\ UNCHANGED adding

RemoveKey(n) ==
  /\ AdminCall
  /\ n \in StoredNames(db)
  /\ db' = DeleteKey(db, n)
  /\ UNCHANGED adding

\* What the probe's /v1/accounts answer tells of a key's account.
ProbedSnapshots == [account : Accounts \cup {None}, state : AccountStates,
                    quota : {[status |-> "unavailable", code |-> None]}]

AdminNext ==
  \/ \E n \in Names, s \in Secrets, e \in BOOLEAN : StartCreate(n, s, e)
  \/ \E s \in Secrets, e \in BOOLEAN : StartBulkCreate(s, e)
  \/ \E c \in adding : FinishCreate(c, FALSE, None)
  \/ \E c \in adding, snapshot \in ProbedSnapshots \cup {None} :
       FinishCreate(c, TRUE, snapshot)
  \/ \E n \in Names, s \in Secrets, e \in BOOLEAN : CreateUnchecked(n, s, e)
  \/ \E n, m \in Names, s \in Secrets, e \in BOOLEAN \cup {None} :
       PatchKey(n, m, s, e)
  \/ \E n \in Names : EnableKey(n)
  \/ \E n \in Names : DisableKey(n)
  \/ \E n \in Names : ClearCooldown(n)
  \/ \E n \in Names : RemoveKey(n)

ProcessNext ==
  \/ \E d \in TickSizes : Tick(d)
  \/ BootKey
  \/ BootDone
  \/ Restart

PoolNext == AdminNext \/ ProcessNext

PoolSpec == PoolInit /\ [][PoolNext]_poolVars

-----------------------------------------------------------------------------
(* What must hold.                                                         *)

\* Two rows never carry the same Fireworks key, whatever creations, renames,
\* rotations and start-ups interleave.
FingerprintsUnique == UniqueSecrets(db)

\* A snapshot never outlives its secret: after a rotation, a deletion or a
\* replacement no quota data is left that a later key could inherit.
SnapshotsOwned == OwnedSnapshots(db)

\* Nor does the route of a response, as long as no request binds one late.
RoutesOwned == OwnedRoutes(db)

Selected(rk) == SelectCandidates(db, now, rk, MaxAttempts)

\* A request is never given a key of an account whose quota is known to be
\* used up, however its keys were created, disabled or renamed.
ExhaustedAccountIdle ==
  \A rk \in RouteKeys :
    LET sel  == Selected(rk)
        a(i) == AccountOf(db, sel[i].secret)
    IN  \A i \in DOMAIN sel :
          a(i) # None =>
            /\ db.quota[a(i)] # None => ~ExhaustedQuota(db.quota[a(i)])
            /\ db.cooldowns[a(i)] <= now

\* Failover spreads: the second key of an account is tried only after every
\* usable account, or key of unknown account, was tried once.
FailoverSpreads ==
  \A rk \in RouteKeys :
    LET sel  == Selected(rk)
        b(i) == Bucket(db, sel[i].name)
    IN  \A i, j \in DOMAIN sel :
          i < j /\ b(i) = b(j) =>
            \A n \in Open(db, now) : \E k \in 1 .. j - 1 : b(k) = Bucket(db, n)

\* A client sticks to its key: if its first candidate stays usable and keeps
\* its identity, a key that was usable before does not take its place.
StickyStep ==
  \A rk \in RouteKeys :
    LET old == Selected(rk)
        new == Selected(rk)'
        kept == {n \in Open(db, now) \cap Open(db, now)' :
                   /\ CandidateOf(db, n)' = CandidateOf(db, n)
                   /\ Bucket(db, n)' = Bucket(db, n)}
    IN  /\ old # <<>> /\ old[1].name \in kept
        /\ new # <<>> /\ new[1].name \in kept
        => new[1] = old[1]

StickyPrimary == [][StickyStep]_poolVars

\* With syncing on, a start-up that succeeds leaves every environment key
\* stored, enabled and with the secret the environment gave last, even after
\* crashes in the middle of earlier start-ups.
EnvStored ==
  \A i \in DOMAIN EnvKeys :
    LET last == CHOOSE j \in DOMAIN EnvKeys :
                  /\ EnvKeys[j].name = EnvKeys[i].name
                  /\ \A k \in DOMAIN EnvKeys :
                       EnvKeys[k].name = EnvKeys[i].name => k <= j
        n    == EnvKeys[i].name
    IN  /\ n \in StoredNames(db)
        /\ db.keys[n].secret = EnvKeys[last].secret
        /\ db.keys[n].enabled

BootSyncs == [][phase = "booting" /\ phase' = "up" /\ SyncEnv => EnvStored]_poolVars

=============================================================================
