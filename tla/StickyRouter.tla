---------------------------- MODULE StickyRouter ----------------------------
(***************************************************************************)
(* Which keys a request may use and in which order                         *)
(* (app/dataplane/routing/sticky_router.py).                               *)
(*                                                                         *)
(* sha256(route key : identity) is abstracted to two rankings per route    *)
(* key, one of buckets and one of keys, arbitrary but without ties.        *)
(***************************************************************************)
EXTENDS KeyStore

CONSTANTS
  RouteKeys,   \* affinity hashes of clients and models
  BucketRank,  \* rendezvous_identity_score of a bucket
  KeyRank      \* rendezvous_score of a key

\* A key of unknown account is a bucket of its own, named by its fingerprint.
Buckets == Accounts \cup Secrets

ASSUME RankAssumption ==
  /\ Accounts \cap Secrets = {}
  /\ BucketRank \in [RouteKeys -> [Buckets -> Nat]]
  /\ KeyRank \in [RouteKeys -> [Candidate -> Nat]]
  /\ \A r \in RouteKeys :
       /\ \A b, c \in Buckets :
            BucketRank[r][b] = BucketRank[r][c] => b = c
       /\ \A k, l \in Candidate : KeyRank[r][k] = KeyRank[r][l] => k = l

-----------------------------------------------------------------------------

Healthy(db, now) ==
  {n \in StoredNames(db) : db.keys[n].enabled /\ db.keys[n].cooldown <= now}

Bucket(db, n) ==
  LET s == db.keys[n].secret
  IN  IF AccountOf(db, s) = None THEN s ELSE AccountOf(db, s)

\* Mutant: the key's own quota column, stale since another key refreshed.
OwnQuotaBlocked(db, s) ==
  /\ db.snapshots[s] # None
  /\ \/ ExhaustedQuota(db.snapshots[s].quota)
     \/ db.snapshots[s].state = "suspended"

\* The gate of one snapshot; freshness does not matter.
SnapshotBlocked(db, s) ==
  /\ db.snapshots[s] # None
  /\ \/ ExhaustedQuota(MergedQuota(db, s))
     \/ db.snapshots[s].state = "suspended"

\* Only account buckets are gated, and only by the snapshots of healthy keys.
Gated(db, now, b) ==
  /\ b \in Accounts
  /\ \/ db.cooldowns[b] > now
     \/ \E n \in Healthy(db, now) :
          Bucket(db, n) = b /\ SnapshotBlocked(db, db.keys[n].secret)

Open(db, now) == {n \in Healthy(db, now) : ~Gated(db, now, Bucket(db, n))}

-----------------------------------------------------------------------------
(* Round robin over the buckets: first the best key of every bucket, best  *)
(* bucket first, then the second key of every bucket that has one, ...     *)

Outranks(db, rk, m, n) ==
  KeyRank[rk][CandidateOf(db, m)] > KeyRank[rk][CandidateOf(db, n)]

\* The round in which the bucket of n hands out n, counted from 0.
Round(db, open, rk, n) ==
  Cardinality({m \in open : /\ Bucket(db, m) = Bucket(db, n)
                            /\ Outranks(db, rk, m, n)})

\* Mutant: all keys of the best bucket first.
BucketFirst(db, open, rk, m, n) ==
  \/ BucketRank[rk][Bucket(db, m)] > BucketRank[rk][Bucket(db, n)]
  \/ Bucket(db, m) = Bucket(db, n) /\ Outranks(db, rk, m, n)

\* Mutant: large accounts first, whatever the client.
LargestFirst(db, open, rk, m, n) ==
  LET size(k) == Cardinality({l \in open : Bucket(db, l) = Bucket(db, k)})
  IN  \/ size(m) > size(n)
      \/ /\ size(m) = size(n)
         /\ \/ BucketRank[rk][Bucket(db, m)] > BucketRank[rk][Bucket(db, n)]
            \/ Bucket(db, m) = Bucket(db, n) /\ Outranks(db, rk, m, n)

Before(db, open, rk, m, n) ==
  \/ Round(db, open, rk, m) < Round(db, open, rk, n)
  \/ /\ Round(db, open, rk, m) = Round(db, open, rk, n)
     /\ BucketRank[rk][Bucket(db, m)] > BucketRank[rk][Bucket(db, n)]

\* How many open keys come before n.
Place(db, open, rk, n) ==
  Cardinality({m \in open : Before(db, open, rk, m, n)})

SelectCandidates(db, now, rk, maxAttempts) ==
  LET open  == Open(db, now)
      count == Cardinality(open)
      kept  == IF maxAttempts > 0 /\ maxAttempts < count
               THEN maxAttempts ELSE count
  IN  [i \in 1..kept |->
         CandidateOf(db, CHOOSE n \in open : Place(db, open, rk, n) = i - 1)]

=============================================================================
