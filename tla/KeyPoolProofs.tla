---------------------------- MODULE KeyPoolProofs ----------------------------
(***************************************************************************)
(* The key pool's invariants for every set of names, secrets, accounts and *)
(* responses, every environment and every bound, and what                  *)
(* select_candidates hands to a request, for every ranking (sticky_router  *)
(* .py).                                                                   *)
(***************************************************************************)
EXTENDS KeyPool, DataProofs, FiniteSetTheorems, TLAPS

-----------------------------------------------------------------------------
(* What the operations of the repository do to the tables.                 *)

\* Schema, and the fields of a database one by one.
LEMMA DatabaseFields ==
  ASSUME NEW d \in Database
  PROVE  /\ d.keys \in [Names -> KeyRow \cup {None}]
         /\ d.snapshots \in [Secrets -> SnapshotRow \cup {None}]
         /\ d.quota \in [Accounts -> Quota \cup {None}]
         /\ d.cooldowns \in [Accounts -> Nat]
         /\ d.routes \in [Responses -> Candidate \cup {None}]
  BY DEF Database

\* A row of the key table is the row of a stored name.
LEMMA StoredRow ==
  ASSUME NEW d \in Database, NEW n \in StoredNames(d)
  PROVE  n \in Names /\ d.keys[n] \in KeyRow /\ d.keys[n].secret \in Secrets
  BY DEF Database, StoredNames, KeyRow

\* Writing a well-formed row gives a database.
LEMMA WithRowType ==
  ASSUME NEW d \in Database, NEW n \in Names, NEW row \in KeyRow \cup {None}
  PROVE  WithRow(d, n, row) \in Database
  BY DEF Database, WithRow

\* The two DELETE statements of a fingerprint give a database.
LEMMA ForgetSecretType ==
  ASSUME NEW d \in Database, NEW s \in Secrets
  PROVE  ForgetSecret(d, s) \in Database
  BY DEF Database, ForgetSecret

\* upsert_key gives a database.
LEMMA UpsertKeyType ==
  ASSUME NEW d \in Database, NEW n \in Names, NEW s \in Secrets,
         NEW e \in BOOLEAN
  PROVE  UpsertKey(d, n, s, e) \in Database
<1>1. CASE d.keys[n] = None
  <2>1. [secret |-> s, enabled |-> e, reason |-> None, lastError |-> None,
         cooldown |-> 0] \in KeyRow
    BY DEF KeyRow
  <2> QED BY <1>1, <2>1, WithRowType DEF UpsertKey
<1>2. CASE d.keys[n] # None
  <2>1. d.keys[n] \in KeyRow
    BY <1>2 DEF Database
  <2>2. [d.keys[n] EXCEPT !.secret = s, !.enabled = e] \in KeyRow
    BY <2>1 DEF KeyRow
  <2>3. d.keys[n].secret \in Secrets
    BY <2>1 DEF KeyRow
  <2> QED BY <1>2, <2>2, <2>3, WithRowType, ForgetSecretType DEF UpsertKey
<1> QED BY <1>1, <1>2

\* set_key_enabled gives a database.
LEMMA SetKeyEnabledType ==
  ASSUME NEW d \in Database, NEW n \in Names, NEW e \in BOOLEAN,
         NEW reason \in Reasons \cup {None}, NEW error \in ErrorTypes \cup {None}
  PROVE  SetKeyEnabled(d, n, e, reason, error) \in Database
<1>1. CASE d.keys[n] = None
  BY <1>1 DEF SetKeyEnabled
<1>2. CASE d.keys[n] # None
  <2>1. d.keys[n] \in KeyRow
    BY <1>2 DEF Database
  <2>2. [d.keys[n] EXCEPT !.enabled = e, !.reason = IF e THEN None ELSE reason,
                          !.lastError = error] \in KeyRow
    BY <2>1 DEF KeyRow
  <2> QED BY <1>2, <2>2, WithRowType DEF SetKeyEnabled
<1> QED BY <1>1, <1>2

\* delete_key gives a database.
LEMMA DeleteKeyType ==
  ASSUME NEW d \in Database, NEW n \in Names
  PROVE  DeleteKey(d, n) \in Database
<1>1. CASE d.keys[n] = None
  BY <1>1 DEF DeleteKey
<1>2. CASE d.keys[n] # None
  <2>1. d.keys[n].secret \in Secrets
    BY <1>2 DEF Database, KeyRow
  <2> QED BY <1>2, <2>1, WithRowType, ForgetSecretType DEF DeleteKey
<1> QED BY <1>1, <1>2

\* clear_key_cooldown gives a database.
LEMMA ClearKeyCooldownType ==
  ASSUME NEW d \in Database, NEW n \in Names
  PROVE  ClearKeyCooldown(d, n) \in Database
<1>1. CASE d.keys[n] = None
  BY <1>1 DEF ClearKeyCooldown
<1>2. CASE d.keys[n] # None
  <2>1. d.keys[n] \in KeyRow
    BY <1>2 DEF Database
  <2>2. [d.keys[n] EXCEPT !.cooldown = 0] \in KeyRow
    BY <2>1 DEF KeyRow
  <2> QED BY <1>2, <2>2, WithRowType DEF ClearKeyCooldown
<1> QED BY <1>1, <1>2

\* update_key_identity of a stored key gives a database.
LEMMA UpdateKeyIdentityType ==
  ASSUME NEW d \in Database, NEW n \in StoredNames(d), NEW m \in Names,
         NEW s \in Secrets
  PROVE  UpdateKeyIdentity(d, n, m, s) \in Database
<1> DEFINE moved == [d EXCEPT !.keys = [k \in Names |->
                      IF k = m THEN [d.keys[n] EXCEPT !.secret = s]
                      ELSE IF k = n THEN None ELSE @[k]]]
<1>1. d.keys[n] \in KeyRow /\ d.keys[n].secret \in Secrets
  BY StoredRow
<1>2. [d.keys[n] EXCEPT !.secret = s] \in KeyRow
  BY <1>1 DEF KeyRow
<1>3. moved \in Database
  BY <1>2 DEF Database
<1> QED BY <1>1, <1>3, ForgetSecretType DEF UpdateKeyIdentity

\* upsert_fireworks_key_snapshot gives a database.
LEMMA UpsertKeySnapshotType ==
  ASSUME NEW d \in Database, NEW s \in Secrets, NEW row \in SnapshotRow
  PROVE  UpsertKeySnapshot(d, s, row) \in Database
<1>1. row.account \in Accounts \cup {None} /\ row.quota \in Quota
  BY DEF SnapshotRow
<1>2. (IF row.account = None THEN d.quota
       ELSE [d.quota EXCEPT ![row.account] = row.quota])
      \in [Accounts -> Quota \cup {None}]
  BY <1>1 DEF Database
<1> QED BY <1>2 DEF Database, UpsertKeySnapshot

-----------------------------------------------------------------------------
(* The UNIQUE constraint.                                                  *)

\* Deleting snapshots and routes leaves the key table alone.
LEMMA ForgetSecretKeys ==
  ASSUME NEW d \in Database, NEW s \in Secrets
  PROVE  ForgetSecret(d, s).keys = d.keys
  BY DEF Database, ForgetSecret

\* The key table after an upsert: one row changes, and it carries the secret.
LEMMA UpsertKeyKeys ==
  ASSUME NEW d \in Database, NEW n \in Names, NEW s \in Secrets,
         NEW e \in BOOLEAN
  PROVE  \E row \in KeyRow :
           /\ row.secret = s /\ row.enabled = e
           /\ UpsertKey(d, n, s, e).keys = [d.keys EXCEPT ![n] = row]
<1>1. CASE d.keys[n] = None
  <2> DEFINE row == [secret |-> s, enabled |-> e, reason |-> None,
                     lastError |-> None, cooldown |-> 0]
  <2>1. row \in KeyRow /\ row.secret = s /\ row.enabled = e
    BY DEF KeyRow
  <2>2. UpsertKey(d, n, s, e).keys = [d.keys EXCEPT ![n] = row]
    BY <1>1 DEF UpsertKey, WithRow, Database
  <2> QED BY <2>1, <2>2
<1>2. CASE d.keys[n] # None
  <2> DEFINE row == [d.keys[n] EXCEPT !.secret = s, !.enabled = e]
             stored == WithRow(d, n, row)
  <2>1. d.keys[n] \in KeyRow /\ d.keys[n].secret \in Secrets
    BY <1>2 DEF Database, KeyRow
  <2>2. row \in KeyRow /\ row.secret = s /\ row.enabled = e
    BY <2>1 DEF KeyRow
  <2>3. stored \in Database /\ stored.keys = [d.keys EXCEPT ![n] = row]
    BY <2>2, WithRowType DEF WithRow, Database
  <2>4. UpsertKey(d, n, s, e) \in {stored, ForgetSecret(stored, d.keys[n].secret)}
    BY <1>2 DEF UpsertKey
  <2> HIDE DEF row, stored
  <2>5. UpsertKey(d, n, s, e).keys = [d.keys EXCEPT ![n] = row]
    BY <2>1, <2>3, <2>4, ForgetSecretKeys
  <2> QED BY <2>2, <2>5
<1> QED BY <1>1, <1>2

\* An upsert of a free secret keeps fingerprints unique.
LEMMA UpsertKeyUnique ==
  ASSUME NEW d \in Database, NEW n \in Names, NEW s \in Secrets,
         NEW e \in BOOLEAN, UniqueSecrets(d), SecretFree(d, n, s)
  PROVE  UniqueSecrets(UpsertKey(d, n, s, e))
<1>1. PICK row \in KeyRow :
        /\ row.secret = s
        /\ UpsertKey(d, n, s, e).keys = [d.keys EXCEPT ![n] = row]
  BY UpsertKeyKeys
<1>2. d.keys \in [Names -> KeyRow \cup {None}]
  BY DatabaseFields
<1> QED BY <1>1, <1>2 DEF UniqueSecrets, SecretFree, StoredNames

\* set_key_enabled keeps fingerprints unique.
LEMMA SetKeyEnabledUnique ==
  ASSUME NEW d \in Database, NEW n \in Names, NEW e \in BOOLEAN,
         NEW reason, NEW error, UniqueSecrets(d)
  PROVE  UniqueSecrets(SetKeyEnabled(d, n, e, reason, error))
<1>1. CASE d.keys[n] = None
  BY <1>1 DEF SetKeyEnabled
<1>2. CASE d.keys[n] # None
  <2> DEFINE row == [d.keys[n] EXCEPT !.enabled = e,
                       !.reason = IF e THEN None ELSE reason, !.lastError = error]
  <2>1. d.keys[n] \in KeyRow /\ d.keys \in [Names -> KeyRow \cup {None}]
    BY <1>2 DEF Database
  <2>2. row.secret = d.keys[n].secret
    BY <2>1 DEF KeyRow
  <2>3. SetKeyEnabled(d, n, e, reason, error).keys = [d.keys EXCEPT ![n] = row]
    BY <1>2 DEF SetKeyEnabled, WithRow, Database
  <2> HIDE DEF row
  <2> QED BY <1>2, <2>1, <2>2, <2>3 DEF UniqueSecrets, StoredNames
<1> QED BY <1>1, <1>2

\* clear_key_cooldown keeps fingerprints unique.
LEMMA ClearKeyCooldownUnique ==
  ASSUME NEW d \in Database, NEW n \in Names, UniqueSecrets(d)
  PROVE  UniqueSecrets(ClearKeyCooldown(d, n))
<1>1. CASE d.keys[n] = None
  BY <1>1 DEF ClearKeyCooldown
<1>2. CASE d.keys[n] # None
  <2> DEFINE row == [d.keys[n] EXCEPT !.cooldown = 0]
  <2>1. d.keys[n] \in KeyRow /\ d.keys \in [Names -> KeyRow \cup {None}]
    BY <1>2 DEF Database
  <2>2. row.secret = d.keys[n].secret
    BY <2>1 DEF KeyRow
  <2>3. ClearKeyCooldown(d, n).keys = [d.keys EXCEPT ![n] = row]
    BY <1>2 DEF ClearKeyCooldown, WithRow, Database
  <2> HIDE DEF row
  <2> QED BY <1>2, <2>1, <2>2, <2>3 DEF UniqueSecrets, StoredNames
<1> QED BY <1>1, <1>2

\* The key table after a deletion.
LEMMA DeleteKeyKeys ==
  ASSUME NEW d \in Database, NEW n \in Names
  PROVE  DeleteKey(d, n).keys = [d.keys EXCEPT ![n] = None]
<1>1. CASE d.keys[n] = None
  BY <1>1 DEF DeleteKey, Database
<1>2. CASE d.keys[n] # None
  <2>1. d.keys[n].secret \in Secrets
    BY <1>2 DEF Database, KeyRow
  <2>2. WithRow(d, n, None) \in Database
    BY WithRowType
  <2>3. WithRow(d, n, None).keys = [d.keys EXCEPT ![n] = None]
    BY DEF WithRow, Database
  <2> QED BY <1>2, <2>1, <2>2, <2>3, ForgetSecretKeys DEF DeleteKey
<1> QED BY <1>1, <1>2

\* delete_key keeps fingerprints unique.
LEMMA DeleteKeyUnique ==
  ASSUME NEW d \in Database, NEW n \in Names, UniqueSecrets(d)
  PROVE  UniqueSecrets(DeleteKey(d, n))
<1>1. d.keys \in [Names -> KeyRow \cup {None}]
  BY DatabaseFields
<1>2. DeleteKey(d, n).keys = [d.keys EXCEPT ![n] = None]
  BY DeleteKeyKeys
<1>3. \A k \in StoredNames(DeleteKey(d, n)) :
        k \in StoredNames(d) /\ DeleteKey(d, n).keys[k] = d.keys[k]
  BY <1>1, <1>2 DEF StoredNames
<1> QED BY <1>3 DEF UniqueSecrets

\* The key table after a rename or a rotation: the row moves to the new name.
LEMMA UpdateKeyIdentityKeys ==
  ASSUME NEW d \in Database, NEW n \in StoredNames(d), NEW m \in Names,
         NEW s \in Secrets
  PROVE  \E row \in KeyRow :
           /\ row = [d.keys[n] EXCEPT !.secret = s]
           /\ row.secret = s
           /\ UpdateKeyIdentity(d, n, m, s).keys =
                [k \in Names |-> IF k = m THEN row
                                 ELSE IF k = n THEN None ELSE d.keys[k]]
<1> DEFINE row == [d.keys[n] EXCEPT !.secret = s]
           moved == [d EXCEPT !.keys = [k \in Names |->
                      IF k = m THEN row ELSE IF k = n THEN None ELSE @[k]]]
<1>1. d.keys[n] \in KeyRow /\ d.keys[n].secret \in Secrets
  BY StoredRow
<1>2. row \in KeyRow /\ row.secret = s
  BY <1>1 DEF KeyRow
<1>3. moved \in Database
  BY <1>2 DEF Database
<1>4. moved.keys = [k \in Names |-> IF k = m THEN row
                                   ELSE IF k = n THEN None ELSE d.keys[k]]
  BY DEF Database
<1>5. UpdateKeyIdentity(d, n, m, s) \in {moved, ForgetSecret(moved, d.keys[n].secret)}
  BY DEF UpdateKeyIdentity
<1> HIDE DEF moved, row
<1>6. UpdateKeyIdentity(d, n, m, s).keys = moved.keys
  BY <1>1, <1>3, <1>5, ForgetSecretKeys
<1>7. row = [d.keys[n] EXCEPT !.secret = s]
  BY DEF row
<1> QED BY <1>2, <1>4, <1>6, <1>7

\* Moving a key to a free name with a free secret keeps fingerprints unique.
LEMMA UpdateKeyIdentityUnique ==
  ASSUME NEW d \in Database, NEW n \in StoredNames(d), NEW m \in Names,
         NEW s \in Secrets, m = n \/ m \notin StoredNames(d),
         UniqueSecrets(d), SecretFree(d, n, s)
  PROVE  UniqueSecrets(UpdateKeyIdentity(d, n, m, s))
<1>1. PICK row \in KeyRow :
        /\ row.secret = s
        /\ UpdateKeyIdentity(d, n, m, s).keys =
             [k \in Names |-> IF k = m THEN row
                              ELSE IF k = n THEN None ELSE d.keys[k]]
  BY UpdateKeyIdentityKeys
<1> QED BY <1>1 DEF UniqueSecrets, SecretFree, StoredNames

\* A snapshot leaves the key table alone.
LEMMA UpsertKeySnapshotKeys ==
  ASSUME NEW d \in Database, NEW s \in Secrets, NEW row
  PROVE  UpsertKeySnapshot(d, s, row).keys = d.keys
  BY DEF UpsertKeySnapshot, Database

-----------------------------------------------------------------------------
(* Nothing outlives its secret.                                            *)

Owned(d) == OwnedSnapshots(d) /\ OwnedRoutes(d)

\* A step that keeps every stored secret, and all snapshots and routes.
LEMMA KeepingOwned ==
  ASSUME NEW d \in Database, NEW e \in Database, Owned(d),
         e.snapshots = d.snapshots, e.routes = d.routes,
         StoredSecrets(d) \subseteq StoredSecrets(e)
  PROVE  Owned(e)
  BY DEF Owned, OwnedSnapshots, OwnedRoutes

\* A step that may lose one secret, and forgets it.
LEMMA ForgettingOwned ==
  ASSUME NEW d \in Database, NEW e \in Database, NEW x \in Secrets, Owned(d),
         e.snapshots = d.snapshots, e.routes = d.routes,
         StoredSecrets(d) \subseteq StoredSecrets(e) \cup {x}
  PROVE  Owned(ForgetSecret(e, x))
<1> DEFINE f == ForgetSecret(e, x)
<1>1. f.keys = e.keys
  BY ForgetSecretKeys
<1>2. StoredSecrets(f) = StoredSecrets(e)
  BY <1>1 DEF StoredSecrets, StoredNames
<1>3. f.snapshots = [d.snapshots EXCEPT ![x] = None]
  BY DEF ForgetSecret, Database
<1>4. f.routes = [p \in Responses |->
                   IF d.routes[p] # None /\ d.routes[p].secret = x
                   THEN None ELSE d.routes[p]]
  BY DEF ForgetSecret, Database
<1>5. d.snapshots \in [Secrets -> SnapshotRow \cup {None}]
  BY DatabaseFields
<1> HIDE DEF f
<1>6. OwnedSnapshots(f)
  BY <1>2, <1>3, <1>5 DEF Owned, OwnedSnapshots
<1>7. OwnedRoutes(f)
  BY <1>2, <1>4 DEF Owned, OwnedRoutes
<1> QED BY <1>6, <1>7 DEF Owned, f

\* Writing a key row leaves the other tables alone.
LEMMA WithRowOthers ==
  ASSUME NEW d \in Database, NEW n \in Names, NEW row
  PROVE  /\ WithRow(d, n, row).snapshots = d.snapshots
         /\ WithRow(d, n, row).routes = d.routes
         /\ WithRow(d, n, row).keys = [d.keys EXCEPT ![n] = row]
  BY DEF WithRow, Database

\* Rewriting a row keeps every secret but the row's own.
LEMMA WithRowSecrets ==
  ASSUME NEW d \in Database, NEW n \in Names, NEW row \in KeyRow \cup {None}
  PROVE  /\ d.keys[n] = None =>
               StoredSecrets(d) \subseteq StoredSecrets(WithRow(d, n, row))
         /\ d.keys[n] # None =>
               StoredSecrets(d) \subseteq
                 StoredSecrets(WithRow(d, n, row)) \cup {d.keys[n].secret}
<1> DEFINE e == WithRow(d, n, row)
<1>1. e.keys = [d.keys EXCEPT ![n] = row] /\ d.keys \in [Names -> KeyRow \cup {None}]
  BY WithRowOthers, DatabaseFields
<1> HIDE DEF e
<1>2. \A k \in Names \ {n} : e.keys[k] = d.keys[k]
  BY <1>1
<1>3. \A k \in StoredNames(d) \ {n} : d.keys[k].secret \in StoredSecrets(e)
  BY <1>2 DEF StoredSecrets, StoredNames
<1>4. \A s \in StoredSecrets(d) :
        s \in StoredSecrets(e) \/ (d.keys[n] # None /\ s = d.keys[n].secret)
  BY <1>3 DEF StoredSecrets, StoredNames
<1> QED BY <1>4 DEF e

\* The row's own secret is kept as well if the new row still carries it.
LEMMA SameSecret ==
  ASSUME NEW d \in Database, NEW n \in Names, NEW row \in KeyRow,
         d.keys[n] # None, row.secret = d.keys[n].secret
  PROVE  StoredSecrets(d) \subseteq StoredSecrets(WithRow(d, n, row))
<1> DEFINE e == WithRow(d, n, row)
<1>1. e.keys = [d.keys EXCEPT ![n] = row] /\ d.keys \in [Names -> KeyRow \cup {None}]
  BY WithRowOthers, DatabaseFields
<1>2. row # None
  BY NoneAssumption
<1> HIDE DEF e
<1>3. d.keys[n].secret \in StoredSecrets(e)
  BY <1>1, <1>2 DEF StoredSecrets, StoredNames
<1>4. StoredSecrets(d) \subseteq StoredSecrets(e) \cup {d.keys[n].secret}
  BY WithRowSecrets DEF e
<1> QED BY <1>3, <1>4 DEF e

\* Inserting a row, or rewriting one that keeps its secret.
LEMMA RewriteOwned ==
  ASSUME NEW d \in Database, NEW n \in Names, NEW row \in KeyRow, Owned(d),
         d.keys[n] = None \/ row.secret = d.keys[n].secret
  PROVE  Owned(WithRow(d, n, row))
<1> DEFINE e == WithRow(d, n, row)
<1>1. e \in Database
  BY WithRowType
<1>2. e.snapshots = d.snapshots /\ e.routes = d.routes
  BY WithRowOthers
<1>3. StoredSecrets(d) \subseteq StoredSecrets(e)
  <2>1. CASE d.keys[n] = None
    BY <2>1, WithRowSecrets
  <2>2. CASE d.keys[n] # None
    BY <2>2, SameSecret
  <2> QED BY <2>1, <2>2
<1> HIDE DEF e
<1>4. Owned(e)
  BY <1>1, <1>2, <1>3, KeepingOwned
<1> QED BY <1>4 DEF e

\* Removing a row, or giving it another secret, and forgetting the old one.
LEMMA ReplaceOwned ==
  ASSUME NEW d \in Database, NEW n \in Names, NEW row \in KeyRow \cup {None},
         Owned(d), d.keys[n] # None
  PROVE  Owned(ForgetSecret(WithRow(d, n, row), d.keys[n].secret))
<1> DEFINE e == WithRow(d, n, row)
           x == d.keys[n].secret
<1>1. e \in Database
  BY WithRowType
<1>2. e.snapshots = d.snapshots /\ e.routes = d.routes
  BY WithRowOthers
<1>3. x \in Secrets
  BY DEF Database, KeyRow
<1>4. StoredSecrets(d) \subseteq StoredSecrets(e) \cup {x}
  BY WithRowSecrets
<1> HIDE DEF e, x
<1>5. Owned(ForgetSecret(e, x))
  BY <1>1, <1>2, <1>3, <1>4, ForgettingOwned
<1> QED BY <1>5 DEF e, x

\* upsert_key forgets the secret it replaces.
LEMMA UpsertKeyOwned ==
  ASSUME NEW d \in Database, NEW n \in Names, NEW s \in Secrets,
         NEW e \in BOOLEAN, Owned(d)
  PROVE  Owned(UpsertKey(d, n, s, e))
<1>1. CASE d.keys[n] = None
  <2> DEFINE row == [secret |-> s, enabled |-> e, reason |-> None,
                     lastError |-> None, cooldown |-> 0]
  <2>1. row \in KeyRow
    BY DEF KeyRow
  <2> HIDE DEF row
  <2>2. Owned(WithRow(d, n, row))
    BY <1>1, <2>1, RewriteOwned
  <2> QED BY <1>1, <2>2 DEF UpsertKey, row
<1>2. CASE d.keys[n] # None
  <2> DEFINE row == [d.keys[n] EXCEPT !.secret = s, !.enabled = e]
  <2>1. d.keys[n] \in KeyRow /\ d.keys[n].secret \in Secrets
    BY <1>2 DEF Database, KeyRow
  <2>2. row \in KeyRow /\ row.secret = s
    BY <2>1 DEF KeyRow
  <2> HIDE DEF row
  <2>3. CASE d.keys[n].secret = s
    <3>1. Owned(WithRow(d, n, row))
      BY <2>2, <2>3, RewriteOwned
    <3> QED BY <1>2, <2>3, <3>1 DEF UpsertKey, row
  <2>4. CASE d.keys[n].secret # s
    <3>1. Owned(ForgetSecret(WithRow(d, n, row), d.keys[n].secret))
      BY <1>2, <2>2, ReplaceOwned
    <3> QED BY <1>2, <2>4, <3>1 DEF UpsertKey, row
  <2> QED BY <2>3, <2>4
<1> QED BY <1>1, <1>2

\* set_key_enabled keeps every secret.
LEMMA SetKeyEnabledOwned ==
  ASSUME NEW d \in Database, NEW n \in Names, NEW e \in BOOLEAN,
         NEW reason \in Reasons \cup {None}, NEW error \in ErrorTypes \cup {None},
         Owned(d)
  PROVE  Owned(SetKeyEnabled(d, n, e, reason, error))
<1>1. CASE d.keys[n] = None
  BY <1>1 DEF SetKeyEnabled
<1>2. CASE d.keys[n] # None
  <2> DEFINE row == [d.keys[n] EXCEPT !.enabled = e,
                       !.reason = IF e THEN None ELSE reason, !.lastError = error]
  <2>1. d.keys[n] \in KeyRow
    BY <1>2 DEF Database
  <2>2. row \in KeyRow /\ row.secret = d.keys[n].secret
    BY <2>1 DEF KeyRow
  <2> HIDE DEF row
  <2>3. Owned(WithRow(d, n, row))
    BY <2>2, RewriteOwned
  <2> QED BY <1>2, <2>3 DEF SetKeyEnabled, row
<1> QED BY <1>1, <1>2

\* clear_key_cooldown keeps every secret.
LEMMA ClearKeyCooldownOwned ==
  ASSUME NEW d \in Database, NEW n \in Names, Owned(d)
  PROVE  Owned(ClearKeyCooldown(d, n))
<1>1. CASE d.keys[n] = None
  BY <1>1 DEF ClearKeyCooldown
<1>2. CASE d.keys[n] # None
  <2> DEFINE row == [d.keys[n] EXCEPT !.cooldown = 0]
  <2>1. d.keys[n] \in KeyRow
    BY <1>2 DEF Database
  <2>2. row \in KeyRow /\ row.secret = d.keys[n].secret
    BY <2>1 DEF KeyRow
  <2> HIDE DEF row
  <2>3. Owned(WithRow(d, n, row))
    BY <2>2, RewriteOwned
  <2> QED BY <1>2, <2>3 DEF ClearKeyCooldown, row
<1> QED BY <1>1, <1>2

\* delete_key forgets the secret it removes.
LEMMA DeleteKeyOwned ==
  ASSUME NEW d \in Database, NEW n \in Names, Owned(d)
  PROVE  Owned(DeleteKey(d, n))
<1>1. CASE d.keys[n] = None
  BY <1>1 DEF DeleteKey
<1>2. CASE d.keys[n] # None
  <2>1. Owned(ForgetSecret(WithRow(d, n, None), d.keys[n].secret))
    BY <1>2, ReplaceOwned
  <2> QED BY <1>2, <2>1 DEF DeleteKey
<1> QED BY <1>1, <1>2

\* update_key_identity forgets the secret it rotates away.
LEMMA UpdateKeyIdentityOwned ==
  ASSUME NEW d \in Database, NEW n \in StoredNames(d), NEW m \in Names,
         NEW s \in Secrets, m = n \/ m \notin StoredNames(d), Owned(d)
  PROVE  Owned(UpdateKeyIdentity(d, n, m, s))
<1> DEFINE row == [d.keys[n] EXCEPT !.secret = s]
           moved == [d EXCEPT !.keys = [k \in Names |->
                      IF k = m THEN row ELSE IF k = n THEN None ELSE @[k]]]
<1>1. d.keys[n] \in KeyRow /\ d.keys[n].secret \in Secrets /\ n \in Names
  BY StoredRow
<1>2. row \in KeyRow /\ row.secret = s
  BY <1>1 DEF KeyRow
<1>3. moved \in Database
  BY <1>2 DEF Database
<1>4. /\ moved.snapshots = d.snapshots
      /\ moved.routes = d.routes
      /\ moved.keys = [k \in Names |-> IF k = m THEN row
                                      ELSE IF k = n THEN None ELSE d.keys[k]]
  BY DEF Database
<1>5. UpdateKeyIdentity(d, n, m, s) =
        IF d.keys[n].secret = s THEN moved ELSE ForgetSecret(moved, d.keys[n].secret)
  BY DEF UpdateKeyIdentity
<1>6. row # None
  BY <1>2, NoneAssumption
<1> HIDE DEF row, moved
<1>7. s \in StoredSecrets(moved)
  BY <1>2, <1>4, <1>6 DEF StoredSecrets, StoredNames
<1>8. \A k \in StoredNames(d) \ {n} : d.keys[k].secret \in StoredSecrets(moved)
  BY <1>4 DEF StoredSecrets, StoredNames
<1>9. StoredSecrets(d) \subseteq StoredSecrets(moved) \cup {d.keys[n].secret}
  BY <1>8 DEF StoredSecrets
<1>10. CASE d.keys[n].secret = s
  BY <1>3, <1>4, <1>5, <1>7, <1>9, <1>10, KeepingOwned
<1>11. CASE d.keys[n].secret # s
  BY <1>1, <1>3, <1>4, <1>5, <1>9, <1>11, ForgettingOwned
<1> QED BY <1>10, <1>11

\* A snapshot is owned if its key is stored when it is written.
LEMMA UpsertKeySnapshotOwned ==
  ASSUME NEW d \in Database, NEW s \in StoredSecrets(d), NEW row \in SnapshotRow,
         Owned(d)
  PROVE  Owned(UpsertKeySnapshot(d, s, row))
<1> DEFINE e == UpsertKeySnapshot(d, s, row)
<1>1. /\ e.keys = d.keys
      /\ e.routes = d.routes
      /\ e.snapshots = [d.snapshots EXCEPT ![s] = row]
  BY DEF UpsertKeySnapshot, Database
<1>2. d.snapshots \in [Secrets -> SnapshotRow \cup {None}]
  BY DatabaseFields
<1> HIDE DEF e
<1>3. StoredSecrets(e) = StoredSecrets(d)
  BY <1>1 DEF StoredSecrets, StoredNames
<1>4. OwnedSnapshots(e)
  BY <1>1, <1>2, <1>3 DEF Owned, OwnedSnapshots
<1>5. OwnedRoutes(e)
  BY <1>1, <1>3 DEF Owned, OwnedRoutes
<1> QED BY <1>4, <1>5 DEF Owned, e

-----------------------------------------------------------------------------
(* What the handlers and the start-up do to them.                          *)

\* What one handler owes the database it finds.
Kept(d, e) ==
  /\ e \in Database
  /\ UniqueSecrets(e)
  /\ Owned(d) => Owned(e)

PoolInv == PoolTypeOK /\ UniqueSecrets(db)

\* The empty database of a first start is in order.
LEMMA EmptyInOrder ==
  /\ EmptyDatabase \in Database
  /\ UniqueSecrets(EmptyDatabase)
  /\ Owned(EmptyDatabase)
<1>1. EmptyDatabase \in Database
  BY DEF EmptyDatabase, Database
<1>2. StoredNames(EmptyDatabase) = {}
  BY DEF EmptyDatabase, StoredNames
<1>3. Owned(EmptyDatabase)
  BY DEF Owned, OwnedSnapshots, OwnedRoutes, EmptyDatabase
<1> QED BY <1>1, <1>2, <1>3 DEF UniqueSecrets

\* upsert_key keeps the database in order when the secret is free.
LEMMA UpsertKeyKept ==
  ASSUME NEW d \in Database, NEW n \in Names, NEW s \in Secrets,
         NEW e \in BOOLEAN, UniqueSecrets(d), SecretFree(d, n, s)
  PROVE  Kept(d, UpsertKey(d, n, s, e))
BY UpsertKeyType, UpsertKeyUnique, UpsertKeyOwned DEF Kept

\* set_key_enabled keeps the database in order.
LEMMA SetKeyEnabledKept ==
  ASSUME NEW d \in Database, NEW n \in Names, NEW e \in BOOLEAN,
         NEW reason \in Reasons \cup {None}, UniqueSecrets(d)
  PROVE  Kept(d, SetKeyEnabled(d, n, e, reason, None))
<1>1. None \in ErrorTypes \cup {None}
  OBVIOUS
<1>2. SetKeyEnabled(d, n, e, reason, None) \in Database
  BY <1>1, SetKeyEnabledType
<1>3. UniqueSecrets(SetKeyEnabled(d, n, e, reason, None))
  BY SetKeyEnabledUnique
<1>4. Owned(d) => Owned(SetKeyEnabled(d, n, e, reason, None))
  BY <1>1, SetKeyEnabledOwned
<1> QED BY <1>2, <1>3, <1>4 DEF Kept

\* clear_key_cooldown keeps the database in order.
LEMMA ClearKeyCooldownKept ==
  ASSUME NEW d \in Database, NEW n \in Names, UniqueSecrets(d)
  PROVE  Kept(d, ClearKeyCooldown(d, n))
BY ClearKeyCooldownType, ClearKeyCooldownUnique, ClearKeyCooldownOwned DEF Kept

\* delete_key keeps the database in order.
LEMMA DeleteKeyKept ==
  ASSUME NEW d \in Database, NEW n \in Names, UniqueSecrets(d)
  PROVE  Kept(d, DeleteKey(d, n))
BY DeleteKeyType, DeleteKeyUnique, DeleteKeyOwned DEF Kept

\* update_key_identity keeps the database in order when the new name and the
\* new secret are free.
LEMMA UpdateKeyIdentityKept ==
  ASSUME NEW d \in Database, NEW n \in StoredNames(d), NEW m \in Names,
         NEW s \in Secrets, m = n \/ m \notin StoredNames(d),
         UniqueSecrets(d), SecretFree(d, n, s)
  PROVE  Kept(d, UpdateKeyIdentity(d, n, m, s))
BY UpdateKeyIdentityType, UpdateKeyIdentityUnique, UpdateKeyIdentityOwned DEF Kept

\* A snapshot of a stored secret keeps the database in order.
LEMMA UpsertKeySnapshotKept ==
  ASSUME NEW d \in Database, NEW s \in StoredSecrets(d), NEW row \in SnapshotRow,
         UniqueSecrets(d)
  PROVE  Kept(d, UpsertKeySnapshot(d, s, row))
<1>1. s \in Secrets
  BY StoredRow DEF StoredSecrets
<1>2. UpsertKeySnapshot(d, s, row) \in Database
  BY <1>1, UpsertKeySnapshotType
<1>3. UpsertKeySnapshot(d, s, row).keys = d.keys
  BY <1>1, UpsertKeySnapshotKeys
<1>4. UniqueSecrets(UpsertKeySnapshot(d, s, row))
  BY <1>3 DEF UniqueSecrets, StoredNames
<1>5. Owned(d) => Owned(UpsertKeySnapshot(d, s, row))
  BY UpsertKeySnapshotOwned
<1> QED BY <1>2, <1>4, <1>5 DEF Kept

\* Keeping order composes, as the calls of one handler do.
LEMMA KeptCompose ==
  ASSUME NEW c, NEW d, NEW e, Kept(c, d), Kept(d, e)
  PROVE  Kept(c, e)
BY DEF Kept

\* The secret that upsert_key stores is a stored secret.
LEMMA UpsertKeyStores ==
  ASSUME NEW d \in Database, NEW n \in Names, NEW s \in Secrets, NEW e \in BOOLEAN
  PROVE  s \in StoredSecrets(UpsertKey(d, n, s, e))
<1>1. PICK row \in KeyRow :
        /\ row.secret = s
        /\ UpsertKey(d, n, s, e).keys = [d.keys EXCEPT ![n] = row]
  BY UpsertKeyKeys
<1>2. UpsertKey(d, n, s, e).keys[n] = row
  BY <1>1, DatabaseFields
<1>3. n \in StoredNames(UpsertKey(d, n, s, e))
  BY <1>2, NoneAssumption DEF StoredNames
<1> QED BY <1>1, <1>2, <1>3 DEF StoredSecrets

\* What the probe tells is a snapshot row.
LEMMA ProbedRow == ProbedSnapshots \subseteq SnapshotRow
<1>1. [status |-> "unavailable", code |-> None] \in Quota
  BY DEF Quota
<1> QED BY <1>1 DEF ProbedSnapshots, SnapshotRow

-----------------------------------------------------------------------------
(* Every handler keeps the database in order.                              *)

\* One environment key: stored, or refused by UNIQUE(fingerprint).
LEMMA BootKeyKept ==
  ASSUME PoolInv, BootKey
  PROVE  Kept(db, db')
<1> DEFINE k == EnvKeys[nextEnv]
<1>1. k \in Candidate
  BY KeyPoolAssumption DEF PoolInv, PoolTypeOK, BootKey
<1>2. k.name \in Names /\ k.secret \in Secrets
  BY <1>1 DEF Candidate
<1>3. db \in Database /\ UniqueSecrets(db)
  BY DEF PoolInv, PoolTypeOK
<1>4. CASE SecretFree(db, k.name, k.secret)
  <2>1. db' = UpsertKey(db, k.name, k.secret, TRUE)
    BY <1>4 DEF BootKey
  <2> HIDE DEF k
  <2> QED BY <1>2, <1>3, <1>4, <2>1, UpsertKeyKept
<1>5. CASE ~SecretFree(db, k.name, k.secret)
  <2>1. db' = db
    BY <1>5 DEF BootKey
  <2> QED BY <1>3, <2>1 DEF Kept
<1> QED BY <1>4, <1>5

\* The end of a creation: the key, then its probed snapshot.
LEMMA FinishCreateKept ==
  ASSUME PoolInv, NEW c \in adding, NEW valid \in BOOLEAN,
         NEW snapshot \in ProbedSnapshots \cup {None},
         FinishCreate(c, valid, snapshot)
  PROVE  Kept(db, db')
<1>1. db \in Database /\ UniqueSecrets(db) /\ c \in Addition
  BY DEF PoolInv, PoolTypeOK
<1>2. c.secret \in Secrets /\ c.enabled \in BOOLEAN /\ c.name \in Names \cup {None}
  BY <1>1 DEF Addition
<1> DEFINE free == IF c.name # None THEN {c.name} ELSE Names \ StoredNames(db)
           e == c.enabled /\ valid
           stored(n) == UpsertKey(db, n, c.secret, e)
<1>3. PICK n \in free :
        IF ~SecretFree(db, n, c.secret) THEN UNCHANGED db
        ELSE db' = IF snapshot # None /\ e
                   THEN UpsertKeySnapshot(stored(n), c.secret, snapshot)
                   ELSE stored(n)
  BY DEF FinishCreate
<1>4. n \in Names
  BY <1>2 DEF StoredNames
<1>5. e \in BOOLEAN
  BY <1>2
<1>6. CASE ~SecretFree(db, n, c.secret)
  BY <1>1, <1>3, <1>6 DEF Kept
<1>7. CASE SecretFree(db, n, c.secret)
  <2> HIDE DEF e
  <2>1. Kept(db, stored(n)) /\ c.secret \in StoredSecrets(stored(n))
    BY <1>1, <1>2, <1>4, <1>5, <1>7, UpsertKeyKept, UpsertKeyStores
  <2>2. stored(n) \in Database /\ UniqueSecrets(stored(n))
    BY <2>1 DEF Kept
  <2>3. CASE snapshot # None /\ e
    <3>1. snapshot \in SnapshotRow
      BY <2>3, ProbedRow
    <3>2. db' = UpsertKeySnapshot(stored(n), c.secret, snapshot)
      BY <1>3, <1>7, <2>3
    <3> HIDE DEF stored
    <3>3. Kept(stored(n), UpsertKeySnapshot(stored(n), c.secret, snapshot))
      BY <2>1, <2>2, <3>1, UpsertKeySnapshotKept
    <3> QED BY <2>1, <3>2, <3>3, KeptCompose
  <2>4. CASE ~(snapshot # None /\ e)
    BY <1>3, <1>7, <2>1, <2>4
  <2> QED BY <2>3, <2>4
<1> QED BY <1>6, <1>7

\* A patch: the identity first, then the flag when one is given.
LEMMA PatchKeyKept ==
  ASSUME PoolInv, NEW n \in Names, NEW m \in Names, NEW s \in Secrets,
         NEW e \in BOOLEAN \cup {None}, PatchKey(n, m, s, e)
  PROVE  Kept(db, db')
<1> DEFINE moved == UpdateKeyIdentity(db, n, m, s)
<1>1. db \in Database /\ UniqueSecrets(db)
  BY DEF PoolInv, PoolTypeOK
<1>2. /\ n \in StoredNames(db)
      /\ m = n \/ m \notin StoredNames(db)
      /\ SecretFree(db, n, s)
      /\ db' = IF e = None THEN moved
               ELSE SetKeyEnabled(moved, m, e, "admin_disabled", None)
  BY DEF PatchKey
<1> HIDE DEF moved
<1>3. Kept(db, moved)
  BY <1>1, <1>2, UpdateKeyIdentityKept DEF moved
<1>4. CASE e = None
  BY <1>2, <1>3, <1>4
<1>5. CASE e # None
  <2>1. e \in BOOLEAN /\ "admin_disabled" \in Reasons \cup {None}
    BY <1>5 DEF Reasons
  <2>2. Kept(moved, SetKeyEnabled(moved, m, e, "admin_disabled", None))
    BY <1>3, <2>1, SetKeyEnabledKept DEF Kept
  <2>3. db' = SetKeyEnabled(moved, m, e, "admin_disabled", None)
    BY <1>2, <1>5
  <2> QED BY <1>3, <2>2, <2>3, KeptCompose
<1> QED BY <1>4, <1>5

\* Every step of the pool keeps the database in order.
LEMMA StepKept ==
  ASSUME PoolInv, [PoolNext]_poolVars
  PROVE  Kept(db, db')
<1>1. db \in Database /\ UniqueSecrets(db)
  BY DEF PoolInv, PoolTypeOK
<1>2. db' = db => Kept(db, db')
  BY <1>1 DEF Kept
<1>3. ASSUME NEW n \in Names, NEW s \in Secrets, NEW e \in BOOLEAN,
             StartCreate(n, s, e)
      PROVE  Kept(db, db')
  BY <1>2, <1>3 DEF StartCreate
<1>4. ASSUME NEW s \in Secrets, NEW e \in BOOLEAN, StartBulkCreate(s, e)
      PROVE  Kept(db, db')
  BY <1>2, <1>4 DEF StartBulkCreate
<1>5. ASSUME NEW c \in adding, FinishCreate(c, FALSE, None)
      PROVE  Kept(db, db')
  BY <1>5, FinishCreateKept
<1>6. ASSUME NEW c \in adding, NEW snapshot \in ProbedSnapshots \cup {None},
             FinishCreate(c, TRUE, snapshot)
      PROVE  Kept(db, db')
  BY <1>6, FinishCreateKept
<1>7. ASSUME NEW n \in Names, NEW s \in Secrets, NEW e \in BOOLEAN,
             CreateUnchecked(n, s, e)
      PROVE  Kept(db, db')
  <2>1. SecretFree(db, n, s) /\ db' = UpsertKey(db, n, s, e)
    BY <1>7 DEF CreateUnchecked
  <2> QED BY <1>1, <2>1, UpsertKeyKept
<1>8. ASSUME NEW n \in Names, NEW m \in Names, NEW s \in Secrets,
             NEW e \in BOOLEAN \cup {None}, PatchKey(n, m, s, e)
      PROVE  Kept(db, db')
  BY <1>8, PatchKeyKept
<1>9. ASSUME NEW n \in Names, EnableKey(n)
      PROVE  Kept(db, db')
  <2>1. db' = SetKeyEnabled(db, n, TRUE, None, None)
    BY <1>9 DEF EnableKey
  <2>2. TRUE \in BOOLEAN /\ None \in Reasons \cup {None}
    OBVIOUS
  <2> QED BY <1>1, <2>1, <2>2, SetKeyEnabledKept
<1>10. ASSUME NEW n \in Names, DisableKey(n)
       PROVE  Kept(db, db')
  <2>1. db' = SetKeyEnabled(db, n, FALSE, "admin_disabled", None)
    BY <1>10 DEF DisableKey
  <2>2. FALSE \in BOOLEAN /\ "admin_disabled" \in Reasons \cup {None}
    BY DEF Reasons
  <2> QED BY <1>1, <2>1, <2>2, SetKeyEnabledKept
<1>11. ASSUME NEW n \in Names, ClearCooldown(n)
       PROVE  Kept(db, db')
  BY <1>1, <1>11, ClearKeyCooldownKept DEF ClearCooldown
<1>12. ASSUME NEW n \in Names, RemoveKey(n)
       PROVE  Kept(db, db')
  BY <1>1, <1>12, DeleteKeyKept DEF RemoveKey
<1>13. CASE AdminNext
  BY <1>13, <1>3, <1>4, <1>5, <1>6, <1>7, <1>8, <1>9, <1>10, <1>11, <1>12
     DEF AdminNext
<1>14. CASE ProcessNext
  <2>1. BootKey => Kept(db, db')
    BY BootKeyKept
  <2> QED BY <1>2, <1>14, <2>1 DEF ProcessNext, Tick, BootDone, Restart
<1>15. CASE UNCHANGED poolVars
  BY <1>2, <1>15 DEF poolVars
<1> QED BY <1>13, <1>14, <1>15 DEF PoolNext

-----------------------------------------------------------------------------
(* The theorems.                                                           *)

\* The environment pointer starts within the environment's keys.
LEMMA FirstEnvType == ASSUME NEW d PROVE FirstEnv(d) \in 1 .. Len(EnvKeys) + 1
<1>1. Len(EnvKeys) \in Nat
  BY KeyPoolAssumption
<1> QED BY <1>1 DEF FirstEnv

\* The pool starts well-formed, with unique secrets.
LEMMA InitInv == PoolInit => PoolInv
<1> SUFFICES ASSUME PoolInit PROVE PoolInv
  OBVIOUS
<1>1. db \in Database /\ UniqueSecrets(db)
  BY KeyPoolAssumption DEF PoolInit
<1>2. nextEnv \in 1 .. Len(EnvKeys) + 1
  BY FirstEnvType DEF PoolInit
<1>3. MaxAdminOps \in Nat /\ MaxRestarts \in Nat
  BY KeyPoolAssumption
<1> QED BY <1>1, <1>2, <1>3 DEF PoolInit, PoolInv, PoolTypeOK

\* Everything but the database stays well-formed, action by action.
LEMMA StepTyped ==
  ASSUME PoolInv, [PoolNext]_poolVars
  PROVE  /\ now' \in Nat
         /\ adding' \in SUBSET Addition
         /\ phase' \in {"booting", "up", "failed"}
         /\ nextEnv' \in 1 .. Len(EnvKeys) + 1
         /\ adminOps' \in 0 .. MaxAdminOps
         /\ restarts' \in 0 .. MaxRestarts
<1> DEFINE Typed == /\ now' \in Nat
                    /\ adding' \in SUBSET Addition
                    /\ phase' \in {"booting", "up", "failed"}
                    /\ nextEnv' \in 1 .. Len(EnvKeys) + 1
                    /\ adminOps' \in 0 .. MaxAdminOps
                    /\ restarts' \in 0 .. MaxRestarts
<1> USE DEF PoolInv, PoolTypeOK
<1>1. Len(EnvKeys) \in Nat /\ MaxAdminOps \in Nat /\ MaxRestarts \in Nat
  BY KeyPoolAssumption
<1>2. AdminCall => /\ adminOps' \in 0 .. MaxAdminOps
                   /\ UNCHANGED <<now, phase, nextEnv, restarts>>
  BY <1>1 DEF AdminCall
<1>3. ASSUME NEW n \in Names, NEW s \in Secrets, NEW e \in BOOLEAN,
             StartCreate(n, s, e)
      PROVE  Typed
  <2>1. [name |-> n, secret |-> s, enabled |-> e] \in Addition
    BY DEF Addition
  <2> QED BY <1>2, <1>3, <2>1 DEF StartCreate
<1>4. ASSUME NEW s \in Secrets, NEW e \in BOOLEAN, StartBulkCreate(s, e)
      PROVE  Typed
  <2>1. [name |-> None, secret |-> s, enabled |-> e] \in Addition
    BY DEF Addition
  <2> QED BY <1>2, <1>4, <2>1 DEF StartBulkCreate
<1>5. ASSUME NEW c \in adding, NEW valid, NEW snapshot,
             FinishCreate(c, valid, snapshot)
      PROVE  Typed
  BY <1>5 DEF FinishCreate
<1>6. ASSUME AdminCall, UNCHANGED adding PROVE Typed
  BY <1>2, <1>6
<1>7. ASSUME NEW n \in Names, NEW s \in Secrets, NEW e \in BOOLEAN,
             CreateUnchecked(n, s, e)
      PROVE  Typed
  <2>1. AdminCall /\ UNCHANGED adding
    BY <1>7 DEF CreateUnchecked
  <2> QED BY <1>6, <2>1
<1>8. ASSUME NEW n \in Names, NEW m \in Names, NEW s \in Secrets,
             NEW e \in BOOLEAN \cup {None}, PatchKey(n, m, s, e)
      PROVE  Typed
  <2>1. AdminCall /\ UNCHANGED adding
    BY <1>8 DEF PatchKey
  <2> QED BY <1>6, <2>1
<1>9. ASSUME NEW n \in Names,
             EnableKey(n) \/ DisableKey(n) \/ ClearCooldown(n) \/ RemoveKey(n)
      PROVE  Typed
  <2>1. AdminCall /\ UNCHANGED adding
    BY <1>9 DEF EnableKey, DisableKey, ClearCooldown, RemoveKey
  <2> QED BY <1>6, <2>1
<1>10. ASSUME AdminNext PROVE Typed
  <2> HIDE DEF Typed, PoolInv, PoolTypeOK
  <2> QED BY <1>3, <1>4, <1>5, <1>7, <1>8, <1>9, <1>10 DEF AdminNext
<1>11. ASSUME NEW d \in TickSizes, Tick(d) PROVE Typed
  <2>1. d \in Nat
    BY KeyPoolAssumption
  <2> QED BY <1>11, <2>1 DEF Tick
<1>12. ASSUME BootKey PROVE Typed
  <2>1. nextEnv <= Len(EnvKeys) /\ nextEnv' \in {nextEnv, nextEnv + 1}
    BY <1>12, Zenon DEF BootKey
  <2>2. phase' \in {"booting", "up", "failed"}
    BY <1>12 DEF BootKey
  <2>3. UNCHANGED <<now, adding, adminOps, restarts>>
    BY <1>12 DEF BootKey
  <2> QED BY <1>1, <2>1, <2>2, <2>3
<1>13. ASSUME BootDone PROVE Typed
  BY <1>13 DEF BootDone
<1>14. ASSUME Restart PROVE Typed
  <2>1. nextEnv' \in 1 .. Len(EnvKeys) + 1
    BY <1>14, FirstEnvType DEF Restart
  <2> QED BY <1>1, <1>14, <2>1 DEF Restart
<1>15. ASSUME UNCHANGED poolVars PROVE Typed
  BY <1>15 DEF poolVars
<1> HIDE DEF Typed, PoolInv, PoolTypeOK
<1>16. Typed
  BY <1>10, <1>11, <1>12, <1>13, <1>14, <1>15 DEF PoolNext, ProcessNext
<1> QED BY <1>16 DEF Typed

\* The inductive step.
LEMMA StepInv == PoolInv /\ [PoolNext]_poolVars => PoolInv'
<1> SUFFICES ASSUME PoolInv, [PoolNext]_poolVars PROVE PoolInv'
  OBVIOUS
<1>1. db' \in Database /\ UniqueSecrets(db')
  BY StepKept DEF Kept
<1> QED BY <1>1, StepTyped DEF PoolInv, PoolTypeOK, UniqueSecrets, StoredNames

\* PoolInv is an invariant of the key pool.
LEMMA PoolInvariant == PoolSpec => []PoolInv
BY InitInv, StepInv, PTL DEF PoolSpec

\* The tables and the process stay well-formed under every interleaving of
\* start-ups, crashes and the administrators' handlers of keys.py.
THEOREM PoolTypeCorrect == PoolSpec => []PoolTypeOK
<1>1. PoolInv => PoolTypeOK
  BY DEF PoolInv
<1> QED BY <1>1, PoolInvariant, PTL

\* Two rows never carry the same Fireworks key: UNIQUE(fingerprint) of db.py
\* is respected by every handler of keys.py and by bootstrap_from_env.
THEOREM FingerprintsStayUnique == PoolSpec => []FingerprintsUnique
<1>1. PoolInv => FingerprintsUnique
  BY DEF PoolInv, FingerprintsUnique
<1> QED BY <1>1, PoolInvariant, PTL

\* From databases in order, every reachable database is in order.
LEMMA OwnedInvariant ==
  ASSUME \A d \in InitialDatabases : Owned(d)
  PROVE  PoolSpec => []Owned(db)
<1>1. PoolInit => Owned(db)
  BY DEF PoolInit
<1>2. PoolInv /\ Owned(db) /\ [PoolNext]_poolVars => Owned(db)'
  <2> SUFFICES ASSUME PoolInv, Owned(db), [PoolNext]_poolVars
               PROVE  Owned(db)'
    OBVIOUS
  <2>1. Owned(db')
    BY StepKept DEF Kept
  <2> QED BY <2>1 DEF Owned, OwnedSnapshots, OwnedRoutes, StoredSecrets, StoredNames
<1> QED BY <1>1, <1>2, PoolInvariant, PTL DEF PoolSpec

\* When no snapshot outlives its secret at the start, none ever does: what is
\* known of a secret goes with the key that carried it, however keys.py rotates,
\* renames, replaces and deletes keys.
THEOREM SnapshotsGoWithTheirSecret ==
  ASSUME \A d \in InitialDatabases : Owned(d)
  PROVE  PoolSpec => []SnapshotsOwned
<1>1. Owned(db) => SnapshotsOwned
  BY DEF Owned, SnapshotsOwned
<1> QED BY <1>1, OwnedInvariant, PTL

\* Nor does the route of a response, while no request binds one.
THEOREM RoutesGoWithTheirSecret ==
  ASSUME \A d \in InitialDatabases : Owned(d)
  PROVE  PoolSpec => []RoutesOwned
<1>1. Owned(db) => RoutesOwned
  BY DEF Owned, RoutesOwned
<1> QED BY <1>1, OwnedInvariant, PTL

-----------------------------------------------------------------------------
(* Start-ups.                                                              *)

\* Of the first environment keys, up to place k, the j-th is the last with the
\* name of the i-th.
LastNamed(i, j, k) ==
  /\ j \in 1 .. k /\ EnvKeys[j].name = EnvKeys[i].name
  /\ \A l \in 1 .. k : EnvKeys[l].name = EnvKeys[i].name => l <= j

\* The first k keys are stored as the last of each name gives them.
StoredUpTo(d, k) ==
  \A i \in 1 .. k : \E j \in 1 .. k :
    /\ LastNamed(i, j, k)
    /\ d.keys[EnvKeys[i].name] # None
    /\ d.keys[EnvKeys[i].name].secret = EnvKeys[j].secret
    /\ d.keys[EnvKeys[i].name].enabled

BootInv == phase = "booting" /\ SyncEnv => StoredUpTo(db, nextEnv - 1)

\* upsert_key leaves the row it was asked for, and the other rows alone.
LEMMA UpsertedRow ==
  ASSUME NEW d \in Database, NEW n \in Names, NEW s \in Secrets, NEW e \in BOOLEAN
  PROVE  LET u == UpsertKey(d, n, s, e)
         IN  /\ u.keys[n] # None /\ u.keys[n].secret = s /\ u.keys[n].enabled = e
             /\ \A m \in Names \ {n} : u.keys[m] = d.keys[m]
<1>1. PICK row \in KeyRow :
        /\ row.secret = s /\ row.enabled = e
        /\ UpsertKey(d, n, s, e).keys = [d.keys EXCEPT ![n] = row]
  BY UpsertKeyKeys
<1>2. d.keys \in [Names -> KeyRow \cup {None}] /\ row # None
  BY DatabaseFields, NoneAssumption
<1>3. /\ UpsertKey(d, n, s, e).keys[n] = row
      /\ \A m \in Names \ {n} : UpsertKey(d, n, s, e).keys[m] = d.keys[m]
  BY <1>1, <1>2
<1> QED BY <1>1, <1>2, <1>3

\* Storing the next key extends what is stored, also over an earlier key of the
\* same name.
LEMMA StoreNext ==
  ASSUME NEW d \in Database, NEW k \in 1 .. Len(EnvKeys), StoredUpTo(d, k - 1)
  PROVE  StoredUpTo(UpsertKey(d, EnvKeys[k].name, EnvKeys[k].secret, TRUE), k)
<1> DEFINE n == EnvKeys[k].name
           e == UpsertKey(d, n, EnvKeys[k].secret, TRUE)
<1>1. Len(EnvKeys) \in Nat /\ \A i \in 1 .. Len(EnvKeys) : EnvKeys[i] \in Candidate
  BY KeyPoolAssumption
<1>2. k \in Nat /\ \A i \in 1 .. k : EnvKeys[i].name \in Names
  BY <1>1 DEF Candidate
<1>3. n \in Names /\ EnvKeys[k].secret \in Secrets /\ TRUE \in BOOLEAN
  BY <1>1 DEF Candidate
<1> HIDE DEF n
<1>4. /\ e.keys[n] # None /\ e.keys[n].secret = EnvKeys[k].secret /\ e.keys[n].enabled
      /\ \A m \in Names \ {n} : e.keys[m] = d.keys[m]
  <2>1. \A b \in BOOLEAN :
          LET u == UpsertKey(d, n, EnvKeys[k].secret, b)
          IN  /\ u.keys[n] # None /\ u.keys[n].secret = EnvKeys[k].secret
              /\ u.keys[n].enabled = b
              /\ \A m \in Names \ {n} : u.keys[m] = d.keys[m]
    BY <1>3, UpsertedRow
  <2>2. e.keys[n].enabled = TRUE
    BY <1>3, <2>1, Zenon
  <2> QED BY <1>3, <2>1, <2>2, Zenon
<1> HIDE DEF e
<1>6. ASSUME NEW i \in 1 .. k, EnvKeys[i].name = n
      PROVE  \E j \in 1 .. k :
               /\ LastNamed(i, j, k)
               /\ e.keys[EnvKeys[i].name] # None
               /\ e.keys[EnvKeys[i].name].secret = EnvKeys[j].secret
               /\ e.keys[EnvKeys[i].name].enabled
  <2>1. LastNamed(i, k, k)
    BY <1>2, <1>6 DEF LastNamed, n
  <2> QED BY <1>2, <1>4, <1>6, <2>1
<1>7. ASSUME NEW i \in 1 .. k, EnvKeys[i].name # n
      PROVE  \E j \in 1 .. k :
               /\ LastNamed(i, j, k)
               /\ e.keys[EnvKeys[i].name] # None
               /\ e.keys[EnvKeys[i].name].secret = EnvKeys[j].secret
               /\ e.keys[EnvKeys[i].name].enabled
  <2>1. i \in 1 .. k - 1
    BY <1>2, <1>7 DEF n
  <2>2. PICK j \in 1 .. k - 1 :
          /\ LastNamed(i, j, k - 1)
          /\ d.keys[EnvKeys[i].name] # None
          /\ d.keys[EnvKeys[i].name].secret = EnvKeys[j].secret
          /\ d.keys[EnvKeys[i].name].enabled
    BY <2>1 DEF StoredUpTo
  <2>3. j \in 1 .. k /\ LastNamed(i, j, k)
    BY <1>2, <1>7, <2>2 DEF LastNamed, n
  <2>4. e.keys[EnvKeys[i].name] = d.keys[EnvKeys[i].name]
    BY <1>2, <1>4, <1>7
  <2> QED BY <2>2, <2>3, <2>4
<1>8. StoredUpTo(e, k)
  BY <1>6, <1>7 DEF StoredUpTo
<1> QED BY <1>8 DEF e, n

\* A start-up that syncs has stored every key it has passed, whatever restarts
\* interrupted it before.
LEMMA BootInvariant == PoolSpec => []BootInv
<1>1. ASSUME NEW d PROVE SyncEnv => StoredUpTo(d, FirstEnv(d) - 1)
  BY DEF FirstEnv, StoredUpTo
<1>2. PoolInit => BootInv
  BY <1>1 DEF PoolInit, BootInv
<1>3. PoolInv /\ BootInv /\ [PoolNext]_poolVars => BootInv'
  <2> SUFFICES ASSUME PoolInv, BootInv, [PoolNext]_poolVars, phase' = "booting", SyncEnv
               PROVE  StoredUpTo(db', nextEnv' - 1)
    BY DEF BootInv, StoredUpTo, LastNamed
  <2>1. CASE Restart
    BY <1>1, <2>1 DEF Restart
  <2>2. CASE BootKey
    <3>1. /\ phase = "booting" /\ nextEnv <= Len(EnvKeys) /\ nextEnv' = nextEnv + 1
          /\ db' = UpsertKey(db, EnvKeys[nextEnv].name, EnvKeys[nextEnv].secret, TRUE)
      BY <2>2 DEF BootKey
    <3>2. db \in Database /\ nextEnv \in 1 .. Len(EnvKeys) /\ nextEnv' - 1 = nextEnv
      BY <3>1, KeyPoolAssumption DEF PoolInv, PoolTypeOK
    <3>3. StoredUpTo(db, nextEnv - 1)
      BY <3>1 DEF BootInv
    <3> QED BY <3>1, <3>2, <3>3, StoreNext
  <2>3. AdminNext => phase' = "up"
    BY DEF AdminNext, AdminCall, StartCreate, StartBulkCreate, FinishCreate, CreateUnchecked,
           PatchKey, EnableKey, DisableKey, ClearCooldown, RemoveKey
  <2>4. BootDone => phase' = "up"
    BY DEF BootDone
  <2>5. ASSUME UNCHANGED <<db, phase, nextEnv>> PROVE StoredUpTo(db', nextEnv' - 1)
    BY <2>5 DEF BootInv
  <2>6. (\E d \in TickSizes : Tick(d)) \/ UNCHANGED poolVars => UNCHANGED <<db, phase, nextEnv>>
    BY DEF Tick, poolVars
  <2> QED BY <2>1, <2>2, <2>3, <2>4, <2>5, <2>6 DEF PoolNext, ProcessNext
<1> QED BY <1>2, <1>3, PoolInvariant, PTL DEF PoolSpec

\* For every environment, also one that names a key more than once, and after any
\* number of crashes in the middle of bootstrap_from_env: a start-up that syncs
\* and reaches its end has stored and enabled what the environment gave last.
THEOREM StartUpsSync == PoolSpec => BootSyncs
<1> DEFINE Synced == phase = "booting" /\ phase' = "up" /\ SyncEnv => EnvStored
<1>1. PoolInv /\ BootInv /\ [PoolNext]_poolVars => Synced
  <2> SUFFICES ASSUME PoolInv, BootInv, [PoolNext]_poolVars,
                      phase = "booting", phase' = "up", SyncEnv
               PROVE  EnvStored
    OBVIOUS
  <2>1. nextEnv > Len(EnvKeys)
    BY DEF PoolNext, ProcessNext, AdminNext, AdminCall, StartCreate, StartBulkCreate,
           FinishCreate, CreateUnchecked, PatchKey, EnableKey, DisableKey, ClearCooldown,
           RemoveKey, Tick, BootKey, BootDone, Restart, poolVars
  <2>2. Len(EnvKeys) \in Nat /\ DOMAIN EnvKeys = 1 .. Len(EnvKeys)
    BY KeyPoolAssumption
  <2>3. StoredUpTo(db, Len(EnvKeys))
    BY <2>1, <2>2 DEF PoolInv, PoolTypeOK, BootInv
  <2>4. \A i \in DOMAIN EnvKeys : EnvKeys[i].name \in Names
    <3>1. \A i \in DOMAIN EnvKeys : EnvKeys[i] \in Candidate
      BY <2>2, KeyPoolAssumption
    <3> QED BY <3>1 DEF Candidate
  <2> SUFFICES ASSUME NEW i \in DOMAIN EnvKeys
               PROVE  LET last == CHOOSE j \in DOMAIN EnvKeys :
                                    /\ EnvKeys[j].name = EnvKeys[i].name
                                    /\ \A k \in DOMAIN EnvKeys :
                                         EnvKeys[k].name = EnvKeys[i].name => k <= j
                          n    == EnvKeys[i].name
                      IN  /\ n \in StoredNames(db)
                          /\ db.keys[n].secret = EnvKeys[last].secret
                          /\ db.keys[n].enabled
    BY DEF EnvStored
  <2>5. PICK j \in DOMAIN EnvKeys :
          /\ LastNamed(i, j, Len(EnvKeys))
          /\ db.keys[EnvKeys[i].name] # None
          /\ db.keys[EnvKeys[i].name].secret = EnvKeys[j].secret
          /\ db.keys[EnvKeys[i].name].enabled
    BY <2>2, <2>3 DEF StoredUpTo
  <2>6. \A l \in DOMAIN EnvKeys :
          /\ EnvKeys[l].name = EnvKeys[i].name
          /\ \A k \in DOMAIN EnvKeys : EnvKeys[k].name = EnvKeys[i].name => k <= l
          => l = j
    BY <2>2, <2>5 DEF LastNamed
  <2>7. (CHOOSE l \in DOMAIN EnvKeys :
           /\ EnvKeys[l].name = EnvKeys[i].name
           /\ \A k \in DOMAIN EnvKeys : EnvKeys[k].name = EnvKeys[i].name => k <= l) = j
    BY <2>2, <2>5, <2>6 DEF LastNamed
  <2> QED BY <2>4, <2>5, <2>7 DEF StoredNames
<1> QED BY <1>1, PoolInvariant, BootInvariant, PTL DEF PoolSpec, BootSyncs

-----------------------------------------------------------------------------
(* The orders that select_candidates sorts by: the keys of a bucket by     *)
(* their score (Round), and all open keys by round and bucket (Place).     *)
(* RankOnto of DataProofs says what counting the predecessors in such an   *)
(* order gives: every number below the size of the set, once.              *)

\* A bucket of a stored key has a rank.
LEMMA BucketType ==
  ASSUME NEW d \in Database, NEW n \in StoredNames(d)
  PROVE  Bucket(d, n) \in Buckets /\ CandidateOf(d, n) \in Candidate
<1>1. n \in Names /\ d.keys[n].secret \in Secrets
  BY StoredRow
<1>2. d.snapshots[d.keys[n].secret] \in SnapshotRow \cup {None}
  BY <1>1 DEF Database
<1>3. AccountOf(d, d.keys[n].secret) \in Accounts \cup {None}
  BY <1>2 DEF AccountOf, SnapshotRow
<1> QED BY <1>1, <1>3 DEF Bucket, Buckets, CandidateOf, Candidate

\* A candidate carries the name of its key.
LEMMA CandidateName == \A d, n : CandidateOf(d, n).name = n
BY DEF CandidateOf

\* A score is a number, and no two keys have the same.
LEMMA Scores ==
  ASSUME NEW d \in Database, NEW rk \in RouteKeys, NEW m \in StoredNames(d),
         NEW n \in StoredNames(d)
  PROVE  /\ KeyRank[rk][CandidateOf(d, m)] \in Nat
         /\ KeyRank[rk][CandidateOf(d, m)] = KeyRank[rk][CandidateOf(d, n)] => m = n
         /\ BucketRank[rk][Bucket(d, m)] \in Nat
         /\ BucketRank[rk][Bucket(d, m)] = BucketRank[rk][Bucket(d, n)]
              => Bucket(d, m) = Bucket(d, n)
<1>1. /\ Bucket(d, m) \in Buckets /\ CandidateOf(d, m) \in Candidate
      /\ Bucket(d, n) \in Buckets /\ CandidateOf(d, n) \in Candidate
  BY BucketType
<1>2. CandidateOf(d, m) = CandidateOf(d, n) => m = n
  BY DEF CandidateOf
<1> QED BY <1>1, <1>2, RankAssumption

\* Within its bucket a key is handed out in the round its score gives it, and
\* every bucket has a key for the first round.
LEMMA RoundOrder ==
  ASSUME NEW d \in Database, NEW rk \in RouteKeys,
         NEW open \in SUBSET StoredNames(d), IsFiniteSet(open)
  PROVE  /\ \A n \in open : Round(d, open, rk, n) \in Nat
         /\ \A m, n \in open :
              Bucket(d, m) = Bucket(d, n) =>
                (Outranks(d, rk, m, n) <=> Round(d, open, rk, m) < Round(d, open, rk, n))
         /\ \A n \in open : \E m \in open :
              Bucket(d, m) = Bucket(d, n) /\ Round(d, open, rk, m) = 0
<1> DEFINE R == {p \in open \X open : Outranks(d, rk, p[1], p[2])}
           T(n) == {m \in open : Bucket(d, m) = Bucket(d, n)}
<1>1. ASSUME NEW n \in open
      PROVE  StrictTotal(T(n), R) /\ IsFiniteSet(T(n)) /\ n \in T(n)
  <2>1. T(n) \in SUBSET open
    OBVIOUS
  <2>2. \A x, y \in open : <<x, y>> \in R <=> Outranks(d, rk, x, y)
    OBVIOUS
  <2>3. \A x, y \in open :
          /\ KeyRank[rk][CandidateOf(d, x)] \in Nat
          /\ KeyRank[rk][CandidateOf(d, x)] = KeyRank[rk][CandidateOf(d, y)] => x = y
    BY Scores
  <2> HIDE DEF R
  <2>4. \A x, y \in open :
          <<x, y>> \in R <=> KeyRank[rk][CandidateOf(d, x)] > KeyRank[rk][CandidateOf(d, y)]
    BY <2>2 DEF Outranks
  <2>5. StrictTotal(T(n), R)
    BY <2>3, <2>4 DEF StrictTotal
  <2> QED BY <2>1, <2>5, FS_Subset
<1>2. ASSUME NEW n \in open, NEW m \in T(n)
      PROVE  Round(d, open, rk, m) = Cardinality(Under(T(n), R, m))
  <2>1. Under(T(n), R, m) = {k \in open : Bucket(d, k) = Bucket(d, m) /\ Outranks(d, rk, k, m)}
    BY <1>2 DEF Under
  <2> QED BY <2>1 DEF Round
<1> HIDE DEF R
<1>3. ASSUME NEW n \in open
      PROVE  /\ Round(d, open, rk, n) \in Nat
             /\ \A m \in T(n) : <<m, n>> \in R <=> Round(d, open, rk, m) < Round(d, open, rk, n)
             /\ \E m \in T(n) : Round(d, open, rk, m) = 0
  <2>1. /\ \A x \in T(n) : Cardinality(Under(T(n), R, x)) \in Nat
        /\ \A x, y \in T(n) : <<x, y>> \in R <=>
             Cardinality(Under(T(n), R, x)) < Cardinality(Under(T(n), R, y))
        /\ \A k \in 0..(Cardinality(T(n)) - 1) :
             \E x \in T(n) : Cardinality(Under(T(n), R, x)) = k
    BY <1>1, RankOnto
  <2>2. 0 \in 0..(Cardinality(T(n)) - 1)
    BY <1>1, FS_EmptySet, FS_CardinalityType
  <2> QED BY <1>1, <1>2, <2>1, <2>2
<1>4. \A m, n \in open : <<m, n>> \in R <=> Outranks(d, rk, m, n)
  BY DEF R
<1> QED BY <1>3, <1>4

\* Round first, bucket second: a strict total order of the open keys, so that
\* every place is taken once.
LEMMA PlaceOrder ==
  ASSUME NEW d \in Database, NEW rk \in RouteKeys,
         NEW open \in SUBSET StoredNames(d), IsFiniteSet(open)
  PROVE  /\ \A n \in open : Place(d, open, rk, n) \in Nat
         /\ \A m, n \in open :
              Before(d, open, rk, m, n) <=> Place(d, open, rk, m) < Place(d, open, rk, n)
         /\ \A k \in 0..(Cardinality(open) - 1) : \E n \in open : Place(d, open, rk, n) = k
         /\ \A m, n \in open : Place(d, open, rk, m) = Place(d, open, rk, n) => m = n
<1> DEFINE R == {p \in open \X open : Before(d, open, rk, p[1], p[2])}
<1>1. \A m, n \in open : <<m, n>> \in R <=> Before(d, open, rk, m, n)
  OBVIOUS
<1>2. \A m, n \in open :
        /\ Round(d, open, rk, m) \in Nat
        /\ BucketRank[rk][Bucket(d, m)] \in Nat
        /\ /\ Round(d, open, rk, m) = Round(d, open, rk, n)
           /\ BucketRank[rk][Bucket(d, m)] = BucketRank[rk][Bucket(d, n)]
           => m = n
  <2> SUFFICES ASSUME NEW m \in open, NEW n \in open
      PROVE  /\ Round(d, open, rk, m) \in Nat
             /\ BucketRank[rk][Bucket(d, m)] \in Nat
             /\ /\ Round(d, open, rk, m) = Round(d, open, rk, n)
                /\ BucketRank[rk][Bucket(d, m)] = BucketRank[rk][Bucket(d, n)]
                => m = n
    OBVIOUS
  <2>1. Round(d, open, rk, m) \in Nat
    BY RoundOrder
  <2>2. BucketRank[rk][Bucket(d, m)] \in Nat
    BY Scores
  <2>3. ASSUME Round(d, open, rk, m) = Round(d, open, rk, n),
               BucketRank[rk][Bucket(d, m)] = BucketRank[rk][Bucket(d, n)]
        PROVE  m = n
    <3>1. Bucket(d, m) = Bucket(d, n)
      BY <2>3, Scores
    <3>2. ~Outranks(d, rk, m, n) /\ ~Outranks(d, rk, n, m)
      BY <2>1, <2>3, <3>1, RoundOrder
    <3>3. /\ KeyRank[rk][CandidateOf(d, m)] \in Nat
          /\ KeyRank[rk][CandidateOf(d, n)] \in Nat
          /\ KeyRank[rk][CandidateOf(d, m)] = KeyRank[rk][CandidateOf(d, n)] => m = n
      BY Scores
    <3> QED BY <3>2, <3>3 DEF Outranks
  <2> QED BY <2>1, <2>2, <2>3
<1> HIDE DEF R
<1>3. StrictTotal(open, R)
  BY <1>1, <1>2 DEF StrictTotal, Before
<1>4. \A n \in open : Place(d, open, rk, n) = Cardinality(Under(open, R, n))
  <2>1. ASSUME NEW n \in open
        PROVE  Under(open, R, n) = {m \in open : Before(d, open, rk, m, n)}
    BY <1>1 DEF Under
  <2> QED BY <2>1 DEF Place
<1>5. /\ \A x \in open : Cardinality(Under(open, R, x)) \in Nat
      /\ \A x, y \in open :
           <<x, y>> \in R <=> Cardinality(Under(open, R, x)) < Cardinality(Under(open, R, y))
      /\ \A k \in 0..(Cardinality(open) - 1) :
           \E x \in open : Cardinality(Under(open, R, x)) = k
  BY <1>3, RankOnto
<1>6. ASSUME NEW m \in open, NEW n \in open,
             Place(d, open, rk, m) = Place(d, open, rk, n)
      PROVE  m = n
  <2>1. <<m, n>> \notin R /\ <<n, m>> \notin R
    BY <1>4, <1>5, <1>6
  <2> QED BY <1>3, <2>1 DEF StrictTotal
<1>7. \A n \in open : Place(d, open, rk, n) \in Nat
  BY <1>4, <1>5
<1>8. \A m, n \in open :
        Before(d, open, rk, m, n) <=> Place(d, open, rk, m) < Place(d, open, rk, n)
  BY <1>1, <1>4, <1>5
<1>9. \A k \in 0..(Cardinality(open) - 1) : \E n \in open : Place(d, open, rk, n) = k
  BY <1>4, <1>5
<1> QED BY <1>6, <1>7, <1>8, <1>9, Zenon

\* What select_candidates returns: the open keys in the order of their places,
\* from the first, each at most once and no more than asked for.
LEMMA Selection ==
  ASSUME NEW d \in Database, NEW t \in Nat, NEW rk \in RouteKeys, NEW max \in Nat,
         IsFiniteSet(Names)
  PROVE  LET open == Open(d, t)
             sel  == SelectCandidates(d, t, rk, max)
         IN  /\ open \in SUBSET StoredNames(d) /\ IsFiniteSet(open)
             /\ \A i \in DOMAIN sel : i \in Nat /\ i > 0
             /\ sel # <<>> => 1 \in DOMAIN sel
             /\ \A i \in DOMAIN sel, j \in Nat : 0 < j /\ j < i => j \in DOMAIN sel
             /\ \A i \in DOMAIN sel : \E n \in open :
                  Place(d, open, rk, n) = i - 1 /\ sel[i] = CandidateOf(d, n)
<1> DEFINE open == Open(d, t)
           count == Cardinality(open)
           kept == IF max > 0 /\ max < count THEN max ELSE count
           sel == SelectCandidates(d, t, rk, max)
           at(i) == CHOOSE n \in open : Place(d, open, rk, n) = i - 1
<1>1. open \in SUBSET StoredNames(d) /\ open \in SUBSET Names
  BY DEF Open, Healthy, StoredNames
<1>2. IsFiniteSet(open) /\ count \in Nat
  BY <1>1, FS_Subset, FS_CardinalityType
<1>3. kept \in Nat /\ kept <= count
  BY <1>2
<1>4. sel = [i \in 1..kept |-> CandidateOf(d, at(i))]
  BY DEF SelectCandidates
<1>5. ASSUME NEW i \in 1..kept
      PROVE  at(i) \in open /\ Place(d, open, rk, at(i)) = i - 1
  <2>1. i - 1 \in 0..(count - 1)
    BY <1>2, <1>3
  <2>2. \E n \in open : Place(d, open, rk, n) = i - 1
    <3> HIDE DEF open
    <3> QED BY <1>1, <1>2, <2>1, PlaceOrder
  <2> QED BY <2>2
<1>6. DOMAIN sel = 1..kept
  BY <1>4
<1> HIDE DEF open, kept, at, sel
<1>7. \A i \in DOMAIN sel : i \in Nat /\ i > 0
  BY <1>3, <1>6
<1>8. \A i \in DOMAIN sel, j \in Nat : 0 < j /\ j < i => j \in DOMAIN sel
  BY <1>3, <1>6
<1>9. \A i \in DOMAIN sel : \E n \in open :
        Place(d, open, rk, n) = i - 1 /\ sel[i] = CandidateOf(d, n)
  BY <1>4, <1>5, <1>6
<1>10. sel # <<>> => 1 \in DOMAIN sel
  BY <1>3, <1>4, <1>6
<1> QED BY <1>1, <1>2, <1>7, <1>8, <1>9, <1>10 DEF open, sel

\* The key at the front of the order: no open key has a better bucket, and none
\* of its own bucket a better score.
LEMMA FrontKey ==
  ASSUME NEW d \in Database, NEW rk \in RouteKeys,
         NEW open \in SUBSET StoredNames(d), IsFiniteSet(open),
         NEW n \in open, Place(d, open, rk, n) = 0, NEW m \in open
  PROVE  /\ BucketRank[rk][Bucket(d, m)] <= BucketRank[rk][Bucket(d, n)]
         /\ Bucket(d, m) = Bucket(d, n) =>
              KeyRank[rk][CandidateOf(d, m)] <= KeyRank[rk][CandidateOf(d, n)]
<1>1. \A k \in open : ~Before(d, open, rk, k, n)
  BY PlaceOrder
<1>2. ASSUME NEW k \in open
      PROVE  /\ Round(d, open, rk, k) \in Nat
             /\ BucketRank[rk][Bucket(d, k)] \in Nat
             /\ KeyRank[rk][CandidateOf(d, k)] \in Nat
  BY RoundOrder, Scores
<1>3. \A k \in open : \E l \in open : Bucket(d, l) = Bucket(d, k) /\ Round(d, open, rk, l) = 0
  BY RoundOrder
<1>4. Round(d, open, rk, n) = 0
  BY <1>1, <1>2, <1>3 DEF Before
<1>5. PICK l \in open : Bucket(d, l) = Bucket(d, m) /\ Round(d, open, rk, l) = 0
  BY <1>3
<1>6. BucketRank[rk][Bucket(d, m)] <= BucketRank[rk][Bucket(d, n)]
  BY <1>1, <1>2, <1>4, <1>5 DEF Before
<1>7. ASSUME Bucket(d, m) = Bucket(d, n)
      PROVE  KeyRank[rk][CandidateOf(d, m)] <= KeyRank[rk][CandidateOf(d, n)]
  <2>1. ~Outranks(d, rk, m, n)
    BY <1>2, <1>4, <1>7, RoundOrder
  <2> QED BY <1>2, <2>1 DEF Outranks
<1> QED BY <1>6, <1>7

-----------------------------------------------------------------------------
\* A request is never given a key of an account whose quota is known to be used
\* up or that cools down, for any number of keys (the gate of
\* sticky_router.py:138-175).
THEOREM UsedUpAccountsStayIdle ==
  ASSUME IsFiniteSet(Names)
  PROVE  PoolSpec => []ExhaustedAccountIdle
<1>1. PoolInv => ExhaustedAccountIdle
  <2> SUFFICES ASSUME PoolInv, NEW rk \in RouteKeys,
                      NEW i \in DOMAIN Selected(rk),
                      AccountOf(db, Selected(rk)[i].secret) # None
               PROVE  LET a == AccountOf(db, Selected(rk)[i].secret)
                      IN  /\ db.quota[a] # None => ~ExhaustedQuota(db.quota[a])
                          /\ db.cooldowns[a] <= now
    BY DEF ExhaustedAccountIdle
  <2>1. db \in Database /\ now \in Nat /\ MaxAttempts \in Nat
    BY KeyPoolAssumption DEF PoolInv, PoolTypeOK
  <2>2. PICK n \in Open(db, now) : Selected(rk)[i] = CandidateOf(db, n)
    BY <2>1, Selection DEF Selected
  <2> DEFINE s == db.keys[n].secret
             a == AccountOf(db, s)
  <2>3. Selected(rk)[i].secret = s /\ a # None
    BY <2>2 DEF CandidateOf
  <2>4. n \in Healthy(db, now) /\ n \in StoredNames(db) /\ ~Gated(db, now, Bucket(db, n))
    BY DEF Open, Healthy
  <2>5. s \in Secrets
    BY <2>1, <2>4, StoredRow
  <2>6. /\ db.snapshots[s] # None /\ db.snapshots[s] \in SnapshotRow
        /\ a = db.snapshots[s].account /\ a \in Accounts
    <3>1. db.snapshots[s] \in SnapshotRow \cup {None}
      BY <2>1, <2>5 DEF Database
    <3> QED BY <2>3, <3>1 DEF AccountOf, SnapshotRow
  <2>7. Bucket(db, n) = a
    BY <2>3 DEF Bucket
  <2>8. ~(db.cooldowns[a] > now) /\ ~SnapshotBlocked(db, s)
    BY <2>4, <2>6, <2>7 DEF Gated
  <2>9. db.cooldowns[a] \in Nat
    BY <2>1, <2>6 DEF Database
  <2>10. ASSUME db.quota[a] # None PROVE ~ExhaustedQuota(db.quota[a])
    <3>1. MergedQuota(db, s) = [status |-> db.quota[a].status,
                                code |-> IF db.quota[a].code = None
                                         THEN db.snapshots[s].quota.code
                                         ELSE db.quota[a].code]
      BY <2>3, <2>10 DEF MergedQuota
    <3>2. ~ExhaustedQuota(MergedQuota(db, s))
      BY <2>6, <2>8 DEF SnapshotBlocked
    <3>3. db.quota[a].code = 412 => MergedQuota(db, s).code = 412
      BY <3>1, NoneAssumption
    <3> QED BY <3>1, <3>2, <3>3 DEF ExhaustedQuota
  <2>11. AccountOf(db, Selected(rk)[i].secret) = a
    BY <2>3
  <2> HIDE DEF a, s
  <2> QED BY <2>1, <2>8, <2>9, <2>10, <2>11
<1> QED BY <1>1, PoolInvariant, PTL

\* Failover visits every usable bucket before it returns to one, for any pool
\* and any ranking (the round robin of sticky_router.py:178-216).
THEOREM FailoverAlwaysSpreads ==
  ASSUME IsFiniteSet(Names)
  PROVE  PoolSpec => []FailoverSpreads
<1>1. PoolInv => FailoverSpreads
  <2> SUFFICES ASSUME PoolInv, NEW rk \in RouteKeys,
                      NEW i \in DOMAIN Selected(rk), NEW j \in DOMAIN Selected(rk),
                      i < j,
                      Bucket(db, Selected(rk)[i].name) = Bucket(db, Selected(rk)[j].name),
                      NEW n \in Open(db, now)
               PROVE  \E k \in 1 .. j - 1 : Bucket(db, Selected(rk)[k].name) = Bucket(db, n)
    BY DEF FailoverSpreads
  <2> DEFINE open == Open(db, now)
             place(m) == Place(db, open, rk, m)
             round(m) == Round(db, open, rk, m)
  <2>1. db \in Database /\ now \in Nat /\ MaxAttempts \in Nat
    BY KeyPoolAssumption DEF PoolInv, PoolTypeOK
  <2>2. /\ open \in SUBSET StoredNames(db) /\ IsFiniteSet(open)
        /\ \A k \in DOMAIN Selected(rk) : k \in Nat /\ k > 0
        /\ \A k \in DOMAIN Selected(rk), l \in Nat : 0 < l /\ l < k => l \in DOMAIN Selected(rk)
        /\ \A k \in DOMAIN Selected(rk) : \E m \in open :
             place(m) = k - 1 /\ Selected(rk)[k] = CandidateOf(db, m)
    BY <2>1, Selection DEF Selected
  <2>3. PICK m \in open : place(m) = i - 1 /\ Selected(rk)[i].name = m
    BY <2>2 DEF CandidateOf
  <2>4. PICK l \in open : place(l) = j - 1 /\ Selected(rk)[j].name = l
    BY <2>2 DEF CandidateOf
  <2>5. PICK h \in open : Bucket(db, h) = Bucket(db, n) /\ round(h) = 0
    BY <2>1, <2>2, RoundOrder
  <2>6. /\ \A x \in open : place(x) \in Nat /\ round(x) \in Nat
        /\ \A x \in open : BucketRank[rk][Bucket(db, x)] \in Nat
        /\ \A x, y \in open : Before(db, open, rk, x, y) <=> place(x) < place(y)
        /\ \A x, y \in open : place(x) = place(y) => x = y
    BY <2>1, <2>2, PlaceOrder, RoundOrder, Scores
  <2>7. i \in Nat /\ j \in Nat /\ i > 0
    BY <2>2
  <2> HIDE DEF open, place, round
  <2>8. Before(db, open, rk, m, l)
    BY <2>3, <2>4, <2>6, <2>7
  <2>9. round(m) < round(l)
    BY <2>3, <2>4, <2>6, <2>8 DEF Before, round
  <2>10. place(h) < place(l)
    BY <2>5, <2>6, <2>9 DEF Before, round
  <2> DEFINE k == place(h) + 1
  <2>11. k \in 1 .. j - 1 /\ place(h) = k - 1
    BY <2>4, <2>6, <2>7, <2>10
  <2> HIDE DEF k
  <2>12. k \in DOMAIN Selected(rk)
    BY <2>2, <2>7, <2>11
  <2>13. PICK x \in open : place(x) = k - 1 /\ Selected(rk)[k] = CandidateOf(db, x)
    BY <2>2, <2>12, Zenon
  <2>14. x = h
    BY <2>6, <2>11, <2>13
  <2>15. Bucket(db, Selected(rk)[k].name) = Bucket(db, n)
    BY <2>5, <2>13, <2>14, CandidateName
  <2> QED BY <2>11, <2>15
<1> QED BY <1>1, PoolInvariant, PTL

\* A client keeps its first key while that key is usable and keeps its secret
\* and account, whatever happens to the other keys (the rendezvous hashing of
\* sticky_router.py:203).
THEOREM ClientsStayWithTheirKey ==
  ASSUME IsFiniteSet(Names)
  PROVE  PoolSpec => StickyPrimary
<1>1. PoolInv /\ PoolInv' /\ [PoolNext]_poolVars => StickyStep
  <2> DEFINE old(rk) == Selected(rk)
             new(rk) == SelectCandidates(db', now', rk, MaxAttempts)
             open == Open(db, now)
             opened == Open(db', now')
  <2> SUFFICES ASSUME PoolInv, PoolInv', NEW rk \in RouteKeys,
                      old(rk) # <<>>, new(rk) # <<>>,
                      NEW n \in open \cap opened, old(rk)[1].name = n,
                      NEW m \in open \cap opened, new(rk)[1].name = m,
                      CandidateOf(db', n) = CandidateOf(db, n),
                      CandidateOf(db', m) = CandidateOf(db, m),
                      Bucket(db', n) = Bucket(db, n),
                      Bucket(db', m) = Bucket(db, m)
               PROVE  new(rk)[1] = old(rk)[1]
    BY DEF StickyStep, Selected
  <2>1. /\ db \in Database /\ now \in Nat /\ MaxAttempts \in Nat
        /\ db' \in Database /\ now' \in Nat
    BY KeyPoolAssumption DEF PoolInv, PoolTypeOK
  <2>2. /\ open \in SUBSET StoredNames(db) /\ IsFiniteSet(open)
        /\ old(rk) # <<>> => \E l \in open :
             Place(db, open, rk, l) = 0 /\ old(rk)[1] = CandidateOf(db, l)
    BY <2>1, Selection DEF Selected
  <2>3. /\ opened \in SUBSET StoredNames(db') /\ IsFiniteSet(opened)
        /\ new(rk) # <<>> => \E l \in opened :
             Place(db', opened, rk, l) = 0 /\ new(rk)[1] = CandidateOf(db', l)
    BY <2>1, Selection DEF Selected
  <2> HIDE DEF old, new, open, opened
  <2>4. Place(db, open, rk, n) = 0 /\ old(rk)[1] = CandidateOf(db, n)
    BY <2>2, CandidateName
  <2>5. Place(db', opened, rk, m) = 0 /\ new(rk)[1] = CandidateOf(db', m)
    BY <2>3, CandidateName
  <2>6. /\ BucketRank[rk][Bucket(db, m)] <= BucketRank[rk][Bucket(db, n)]
        /\ Bucket(db, m) = Bucket(db, n) =>
             KeyRank[rk][CandidateOf(db, m)] <= KeyRank[rk][CandidateOf(db, n)]
    BY <2>1, <2>2, <2>4, FrontKey
  <2>7. /\ BucketRank[rk][Bucket(db', n)] <= BucketRank[rk][Bucket(db', m)]
        /\ Bucket(db', n) = Bucket(db', m) =>
             KeyRank[rk][CandidateOf(db', n)] <= KeyRank[rk][CandidateOf(db', m)]
    BY <2>1, <2>3, <2>5, FrontKey
  <2>8. /\ BucketRank[rk][Bucket(db, m)] \in Nat /\ BucketRank[rk][Bucket(db, n)] \in Nat
        /\ KeyRank[rk][CandidateOf(db, m)] \in Nat /\ KeyRank[rk][CandidateOf(db, n)] \in Nat
        /\ BucketRank[rk][Bucket(db, m)] = BucketRank[rk][Bucket(db, n)]
             => Bucket(db, m) = Bucket(db, n)
        /\ KeyRank[rk][CandidateOf(db, m)] = KeyRank[rk][CandidateOf(db, n)] => m = n
    BY <2>1, <2>2, Scores
  <2>9. m = n
    BY <2>6, <2>7, <2>8
  <2> QED BY <2>4, <2>5, <2>9
<1> QED BY <1>1, PoolInvariant, PTL DEF PoolSpec, StickyPrimary

=============================================================================
