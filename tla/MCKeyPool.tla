------------------------------ MODULE MCKeyPool ------------------------------
(***************************************************************************)
(* Small instances of the key pool.                                        *)
(***************************************************************************)
EXTENDS KeyPool, TLC

CONSTANTS n1, n2, n3, s1, s2, s3, a1, a2, p1, r1, r2

\* r1 and r2 rank buckets and keys in opposite orders.
NameRank == n1 :> 0 @@ n2 :> 1 @@ n3 :> 2
SecretRank == s1 :> 0 @@ s2 :> 1 @@ s3 :> 2
BucketPlace == a1 :> 1 @@ a2 :> 4 @@ s1 :> 0 @@ s2 :> 2 @@ s3 :> 3

MCBucketRank ==
  r1 :> [b \in Buckets |-> BucketPlace[b]] @@
  r2 :> [b \in Buckets |-> 5 - BucketPlace[b]]

Place3(k) == 3 * SecretRank[k.secret] + NameRank[k.name]

MCKeyRank ==
  r1 :> [k \in Candidate |-> Place3(k)] @@
  r2 :> [k \in Candidate |-> 9 - Place3(k)]

Good == [status |-> "ok", code |-> 200]
UsedUp == [status |-> "spent", code |-> 200]
Unpaid == [status |-> "quota_exhausted", code |-> 412]

Snapshot(a, state, quota) == [account |-> a, state |-> state, quota |-> quota]

\* Two keys of a1, the first bound to a response, one key of a2.
Bound ==
  UpsertRoute(
    UpsertKeySnapshot(UpsertKeySnapshot(UpsertKeySnapshot(
      UpsertKey(UpsertKey(UpsertKey(EmptyDatabase,
        n1, s1, TRUE), n2, s2, TRUE), n3, s3, TRUE),
      s1, Snapshot(a1, "active", Good)),
      s2, Snapshot(a1, "active", Good)),
      s3, Snapshot(a2, "active", Good)),
    p1, [name |-> n1, secret |-> s1])

\* The same with one account exhausted, or cooling, or its keys unknown.
Exhausted == UpsertKeySnapshot(Bound, s1, Snapshot(a1, "active", UsedUp))
Cooling == SetKeyCooldown(SetAccountCooldown(Bound, a1, 120), n3, 60, "rate_limit")
Suspended == UpsertKeySnapshot(Bound, s2, Snapshot(a1, "suspended", Good))
Refused == UpsertKeySnapshot(Bound, s1, Snapshot(a1, "active", Unpaid))

\* Two stored keys and room for a third.
Roomy == DeleteKey(Bound, n3)
RoomyExhausted == DeleteKey(Exhausted, n3)

FullDatabases == {Bound, Exhausted, Cooling, Suspended, Refused}
RoomyDatabases == {EmptyDatabase, Roomy, RoomyExhausted}

AllDatabases == FullDatabases \cup RoomyDatabases

NoEnv == <<>>
\* fw-1 and fw-2 of the comma list, then fw-2 again in the JSON list.
CleanEnv == <<[name |-> n1, secret |-> s1], [name |-> n2, secret |-> s2],
              [name |-> n2, secret |-> s3]>>

=============================================================================
