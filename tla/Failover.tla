------------------------------ MODULE Failover ------------------------------
(***************************************************************************)
(* What a failed attempt does to the key pool                              *)
(* (app/dataplane/routing/failover.py).                                    *)
(***************************************************************************)
EXTENDS KeyStore, ErrorContracts

\* Mutant: keys of every account are disabled.
DisableAllKeys(db, a, d) ==
  [db EXCEPT !.keys = [n \in Names |->
     IF n \in StoredNames(db) THEN [@[n] EXCEPT !.enabled = FALSE] ELSE @[n]]]

\* Every stored key whose snapshot names the account, whatever its state: one
\* UPDATE per key, with no await between them.
DisableAccountKeys(db, a, d) ==
  [db EXCEPT !.keys = [n \in Names |->
     IF n \in KeysForAccount(db, a)
     THEN [@[n] EXCEPT !.enabled = FALSE, !.reason = d.reason,
                       !.lastError = d.errorType]
     ELSE @[n]]]

\* The key is addressed by the name the request remembers.
ApplyFailureToKey(db, now, n, d) ==
  IF d.disable THEN SetKeyEnabled(db, n, FALSE, d.reason, d.errorType)
  ELSE IF d.cooldown = 0 THEN db
  ELSE SetKeyCooldown(db, n, now + d.cooldown, d.errorType)

(* The scope is decided with the account the snapshot table names now for  *)
(* the fingerprint the request remembers.                                  *)
FailureScope(db, k, d) ==
  LET known == AccountOf(db, k.secret) # None
  IN  IF d.disable
      THEN IF d.errorType = "quota_exhausted" /\ known THEN "account" ELSE "key"
      ELSE IF d.errorType \in {"quota_exhausted", "rate_limit"} /\ known
           THEN "account"
      ELSE IF d.errorType = "quota_exhausted" \/ d.cooldown > 0 THEN "key"
      ELSE "none"

ApplyFailureToCandidate(db, now, k, d) ==
  LET a == AccountOf(db, k.secret)
      scope == FailureScope(db, k, d)
  IN  IF scope = "none" THEN db
      ELSE IF scope = "key" THEN ApplyFailureToKey(db, now, k.name, d)
      ELSE IF d.disable THEN DisableAccountKeys(db, a, d)
      ELSE SetAccountCooldown(db, a, now + d.cooldown)

\* AppliedFailure.retryable: a cooldown always asks for the next candidate.
Retryable(db, k, d) ==
  \/ d.retryable
  \/ ~d.disable /\ FailureScope(db, k, d) # "none"

=============================================================================
