----------------------------- MODULE KeyCleanup -----------------------------
(***************************************************************************)
(* The clean-up of invalid keys: cleanup_invalid_keys of                   *)
(* app/products/admin/keys.py.                                             *)
(*                                                                         *)
(* One pass over the keys listed at the start.  A malformed key, or a key  *)
(* of an account listed as exhausted, is deleted at once; every other key  *)
(* is probed, and the probe is awaited.  What was listed is not read again *)
(* after an await, and a key is always deleted by its listed name.         *)
(***************************************************************************)
EXTENDS KeyPool

CONSTANTS
  Cleaners,   \* calls of the clean-up
  Malformed   \* secrets that cannot be Fireworks keys by their shape

ASSUME CleanupAssumption == Malformed \subseteq Secrets

VARIABLE cleanups   \* the state of every clean-up

\* What the pass keeps of a listed key.
Listed == [key     : Candidate,
           verdict : {"malformed", "exhausted", "probe"},
           account : Accounts \cup {None}]

Cleanup == [stage   : {"idle", "probing", "done"},
            left    : SUBSET Listed,         \* keys the pass has yet to reach
            probed  : Listed \cup {None},    \* the key whose probe is awaited
            cleaned : SUBSET Accounts]       \* cleaned_accounts

NoCleanup == [stage |-> "idle", left |-> {}, probed |-> None, cleaned |-> {}]

CleanupInit == cleanups = [c \in Cleaners |-> NoCleanup]

CleanupTypeOK == cleanups \in [Cleaners -> Cleanup]

-----------------------------------------------------------------------------

ListedExhausted(d, n) ==
  LET row == d.keys[n]
      a   == AccountOf(d, row.secret)
  IN  \/ a # None /\ d.quota[a] # None /\ d.quota[a].status = "quota_exhausted"
      \/ /\ ~row.enabled
         /\ row.reason = "upstream_account_unavailable"
         /\ row.lastError = "quota_exhausted"

Listing(d) ==
  {[key     |-> CandidateOf(d, n),
    verdict |-> IF d.keys[n].secret \in Malformed THEN "malformed"
                ELSE IF ListedExhausted(d, n) THEN "exhausted" ELSE "probe",
    account |-> AccountOf(d, d.keys[n].secret)] : n \in StoredNames(d)}

\* One DELETE per name, with no await between them.
DeleteKeys(d, names) ==
  LET gone == {d.keys[n].secret : n \in names \cap StoredNames(d)}
  IN  [d EXCEPT
        !.keys      = [n \in Names |-> IF n \in names THEN None ELSE @[n]],
        !.snapshots = [s \in Secrets |-> IF s \in gone THEN None ELSE @[s]],
        !.routes    = [p \in Responses |->
                         IF @[p] # None /\ @[p].secret \in gone
                         THEN None ELSE @[p]]]

\* Mutant: an account is taken for an orphan because its listed keys are gone.
ListedOrphans(d, cleaned) == cleaned

\* Accounts whose keys are all gone, also those stored since the listing.
Orphans(d, cleaned) == {a \in cleaned : KeysForAccount(d, a) = {}}

ForgetAccounts(d, orphans) ==
  [d EXCEPT
    !.quota     = [a \in Accounts |-> IF a \in orphans THEN None ELSE @[a]],
    !.cooldowns = [a \in Accounts |-> IF a \in orphans THEN 0 ELSE @[a]]]

(* The pass from one await to the next: in the order of the names, which is*)
(* left open, it deletes the doomed keys that come before the next key to  *)
(* probe, or all of them and then what is left of their accounts.          *)
Sweep(c, d, left, cleaned) ==
  LET doomed      == {k \in left : k.verdict # "probe"}
      named(ks)   == {k.key.name : k \in ks}
      emptied(ks) == cleaned \cup
        {k.account : k \in {l \in ks : l.verdict = "exhausted" /\ l.account # None}}
  IN  \/ \E batch \in SUBSET doomed, p \in left \ doomed :
           /\ db' = DeleteKeys(d, named(batch))
           /\ cleanups' = [cleanups EXCEPT ![c] =
                [stage |-> "probing", left |-> left \ (batch \cup {p}),
                 probed |-> p, cleaned |-> emptied(batch)]]
      \/ /\ left = doomed
         /\ LET gone == DeleteKeys(d, named(doomed))
            IN  db' = ForgetAccounts(gone, Orphans(gone, emptied(doomed)))
         /\ cleanups' = [cleanups EXCEPT ![c] = [NoCleanup EXCEPT !.stage = "done"]]

StartCleanup(c) ==
  /\ phase = "up"
  /\ cleanups[c].stage = "idle"
  /\ Sweep(c, db, Listing(db), {})

\* Only 401 and 403 condemn a key; every other answer, or none, keeps it.
CleanupProbed(c, refused) ==
  /\ phase = "up"
  /\ cleanups[c].stage = "probing"
  /\ LET x == cleanups[c]
     IN  Sweep(c, IF refused THEN DeleteKey(db, x.probed.key.name) ELSE db,
               x.left, x.cleaned)

CleanupMoves(c) ==
  \/ StartCleanup(c)
  \/ \E refused \in BOOLEAN : CleanupProbed(c, refused)

-----------------------------------------------------------------------------
(* What must hold.                                                         *)

cleanupVars == <<poolVars, cleanups>>

CleanupStep(c) == cleanups'[c] # cleanups[c] /\ phase' = "up"

\* A clean-up never forgets the exhaustion or the cooldown of an account that
\* still has a key, also one that was stored while the clean-up was probing.
CleanupNeverReopens ==
  [][\A c \in Cleaners : CleanupStep(c) =>
       \A a \in Accounts : KeysForAccount(db', a) # {} =>
         /\ db'.quota[a] = db.quota[a]
         /\ db'.cooldowns[a] = db.cooldowns[a]]_cleanupVars

\* tests/test_admin_api.py:198-200 keeps every key whose own probe was not
\* refused: a clean-up deletes only secrets that it has listed and judged.
CleanupDeletesJudged ==
  [][\A c \in Cleaners : CleanupStep(c) =>
       LET x == cleanups[c]
           judged == IF x.stage = "idle" THEN StoredSecrets(db)
                     ELSE {k.key.secret : k \in x.left \cup {x.probed}}
       IN  \A n \in StoredNames(db) :
             db'.keys[n] = None => db.keys[n].secret \in judged]_cleanupVars

=============================================================================
