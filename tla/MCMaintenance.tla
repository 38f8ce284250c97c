---------------------------- MODULE MCMaintenance ----------------------------
(***************************************************************************)
(* Small instances of the maintenance of the pool.                         *)
(***************************************************************************)
EXTENDS Maintenance, TLC

CONSTANTS n1, n2, s1, s2, s3, a1, c1, k1, k2

MCRank == [r \in RouteKeys |-> <<>>]

Snapshot(a, status, code) ==
  [account |-> a, state |-> "active", quota |-> [status |-> status, code |-> code]]

\* Two keys of a1.
Siblings ==
  UpsertKeySnapshot(UpsertKeySnapshot(
    UpsertKey(UpsertKey(EmptyDatabase, n1, s1, TRUE), n2, s2, TRUE),
    s1, Snapshot(a1, "ok", 200)), s2, Snapshot(a1, "ok", 200))

\* a1 has spent its budget, or has been refused for it and is cooling.
Spent == UpsertKeySnapshot(Siblings, s1, Snapshot(a1, "spent", 200))
Refused == SetAccountCooldown(
             UpsertKeySnapshot(Siblings, s1, Snapshot(a1, "quota_exhausted", 412)),
             a1, 120)

\* The same with the account of n2 unknown; with n2 malformed and disabled by
\* hand; and without n2.
Stray == ForgetSecret(Refused, s2)
Rotten == SetKeyEnabled(UpsertKey(Refused, n2, s3, FALSE), n2, FALSE,
                        "admin_disabled", None)
Lone == DeleteKey(Spent, n2)

MCDatabases == {Siblings, Spent, Refused, Stray, Rotten, Lone}

Load(start, cleaners, refreshes, admin, restart) ==
  [start |-> start, cleaners |-> cleaners, calls |-> refreshes, slots |-> {2},
   admin |-> admin, restarts |-> restart]

\* One task at a time.
Narrow == [Load(Spent, {}, {k1}, 0, 0) EXCEPT !.slots = {1}]

MCLoads == {Load(Spent, {}, {k1}, 1, 0), Load(Refused, {}, {k1}, 1, 0),
            Load(Lone, {}, {k1}, 1, 0), Load(Lone, {}, {k1, k2}, 0, 1),
            Load(Stray, {c1}, {k1}, 0, 0), Load(Rotten, {c1}, {k1}, 0, 0),
            Load(Stray, {c1}, {}, 1, 0), Load(Siblings, {c1}, {}, 1, 0), Narrow}
RotatedLoads == {Load(Siblings, {c1}, {}, 1, 0)}

MCOwners == s1 :> {a1} @@ s2 :> {a1, None} @@ s3 :> {a1}

Status(code, words) == [status |-> code, words |-> words, exc |-> "none"]

MCRefusals == {Status(401, {}), Status(412, {"payment"}), Status(503, {})}
Outage == {Status(503, {})}
MCRaised == {{}, {"auth"}}

NoEnv == <<>>

=============================================================================
