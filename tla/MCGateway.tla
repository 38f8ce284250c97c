------------------------------ MODULE MCGateway ------------------------------
(***************************************************************************)
(* Small instances of the gateway: two concurrent requests over three keys.*)
(***************************************************************************)
EXTENDS Gateway, TLC

CONSTANTS n1, n2, n3, s1, s2, s3, a1, a2, p0, p1, p2, r1, q1, q2

MCBucketRank ==
  r1 :> (a1 :> 4 @@ a2 :> 1 @@ s1 :> 0 @@ s2 :> 2 @@ s3 :> 3)

NameRank == n1 :> 2 @@ n2 :> 1 @@ n3 :> 0
SecretRank == s1 :> 2 @@ s2 :> 1 @@ s3 :> 0

MCKeyRank ==
  r1 :> [k \in Candidate |-> 3 * SecretRank[k.secret] + NameRank[k.name]]

Keys3 == UpsertKey(UpsertKey(UpsertKey(EmptyDatabase,
           n1, s1, TRUE), n2, s2, TRUE), n3, s3, TRUE)

FromAccount(a) ==
  [account |-> a, state |-> "active", quota |-> [status |-> "ok", code |-> 200]]

\* Two keys of a1 and one of a2; two of a1 and one of unknown account.  An
\* earlier response p0 is bound to n1.
TwoAccounts ==
  UpsertRoute(UpsertKeySnapshot(UpsertKeySnapshot(UpsertKeySnapshot(Keys3,
    s1, FromAccount(a1)), s2, FromAccount(a1)), s3, FromAccount(a2)),
    p0, [name |-> n1, secret |-> s1])

UnknownAccount ==
  UpsertKeySnapshot(UpsertKeySnapshot(Keys3, s1, FromAccount(a1)), s2, FromAccount(a1))

\* n1 and n2 are of a1, which is cooling; only n3 can be used now.
CoolingAccount == SetAccountCooldown(TwoAccounts, a1, 120)

MCDatabases == {TwoAccounts, UnknownAccount, CoolingAccount}

\* One key of a1 and room for another secret.
RoomyDatabases == {DeleteKey(TwoAccounts, n3)}

ClientJob(kind, stream, prev) ==
  [kind |-> kind, stream |-> stream, prev |-> prev, rk |-> r1]

MixedJobs == {ClientJob("plain", FALSE, None), ClientJob("create", TRUE, p0),
              ClientJob("create", FALSE, p2), ClientJob("get", FALSE, p0),
              ClientJob("delete", FALSE, p1)}
PlainJobs == {ClientJob("plain", FALSE, None)}

MCResponseOf == [r \in Requests |-> IF r = q1 THEN p1 ELSE p2]

Status(code, words) == [status |-> code, words |-> words, exc |-> "none"]
NoResponse(kind) == [status |-> NoStatus, words |-> {}, exc |-> kind]

\* One answer per class of failure.
AllFailures == {Status(401, {}), Status(402, {}), Status(412, {"payment"}),
                Status(429, {}), Status(429, {"quota"}), Status(503, {}),
                Status(503, {"missing"}), Status(404, {"missing"}),
                NoResponse("timeout")}
AccountFailures == {Status(401, {}), Status(402, {}), Status(429, {}),
                    Status(429, {"quota"})}

NoEnv == <<>>

=============================================================================
