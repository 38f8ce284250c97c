---------------------------- MODULE RuntimeConfig ---------------------------
(***************************************************************************)
(* The settings of the running process and their persisted overrides:      *)
(* app/platform/runtime_config.py, app/products/admin/config.py.  Three    *)
(* settings that administrators change and the secret the process makes    *)
(* stand for all of them: retention, passthrough and proxyKeys, affinity.  *)
(***************************************************************************)
EXTENDS Naturals, FiniteSets

CONSTANT Environment    \* the settings' values without overrides

\* None, and the empty secret; random values and numbers are positive.
NoValue == 0

VARIABLES
  memory,    \* the settings object of the process
  stored,    \* the rows of the table settings
  updates,   \* what a patch has yet to set and store
  made       \* how many random values were made so far

config == <<memory, stored, updates, made>>

Put(table, key, value) ==
  [k \in DOMAIN table \cup {key} |-> IF k = key THEN value ELSE table[k]]

PersistedConfigKeys == {"retention", "passthrough", "proxyKeys", "affinity"}

ASSUME ConfigAssumption ==
  Environment = [k \in PersistedConfigKeys |-> Environment[k]]

ConfigInit ==
  /\ memory = Environment /\ stored = <<>> /\ updates = <<>> /\ made = 0

Overridden ==
  [k \in DOMAIN Environment |->
     IF k \in DOMAIN stored \cap PersistedConfigKeys THEN stored[k] ELSE Environment[k]]

Secret == IF Overridden.affinity # NoValue THEN Overridden.affinity ELSE made + 1

\* Mutant: a secret that was made is not stored.
KeepInMemory ==
  /\ memory' = [Overridden EXCEPT !.affinity = Secret]
  /\ made' = IF Secret = made + 1 THEN Secret ELSE made
  /\ UNCHANGED stored

\* apply_persisted_config_overrides, then ensure_affinity_hash_secret.
LoadSettings ==
  /\ memory' = [Overridden EXCEPT !.affinity = Secret]
  /\ made' = IF Secret = made + 1 THEN Secret ELSE made
  /\ stored' = Put(stored, "affinity", Secret)

StartSettings == LoadSettings /\ updates' = <<>>

\* A patch sets and stores one setting after the other; null is a value.
PatchConfig(patch) ==
  /\ updates = <<>>
  /\ updates' = patch
  /\ UNCHANGED <<memory, stored, made>>

SetSetting(k, value) ==
  /\ memory' = Put(memory, k, value)
  /\ stored' = Put(stored, k, value)

PatchStep ==
  /\ \E k \in DOMAIN updates :
       /\ SetSetting(k, updates[k])
       /\ updates' = [j \in DOMAIN updates \ {k} |-> updates[j]]
  /\ UNCHANGED made

\* Mutant: the shortened list stays in memory.
ForgetProxyKey(keys) == memory' = [memory EXCEPT !.proxyKeys = keys] /\ UNCHANGED stored

StoreProxyKeys(keys) == SetSetting("proxyKeys", keys)

GenerateProxyKey ==
  /\ updates = <<>>
  /\ made' = made + 1
  /\ StoreProxyKeys(memory.proxyKeys \cup {made'})
  /\ UNCHANGED updates

DeleteProxyKey(key) ==
  /\ updates = <<>>
  /\ key \in memory.proxyKeys
  /\ StoreProxyKeys(memory.proxyKeys \ {key})
  /\ UNCHANGED <<updates, made>>

=============================================================================
