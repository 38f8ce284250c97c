---------------------------- MODULE GatewayProofs ----------------------------
(***************************************************************************)
(* Requests on their way through the key pool, for every number of requests*)
(* and keys, every bound, and every interleaving with administrators and   *)
(* restarts (proxy.py, failover.py).                                       *)
(***************************************************************************)
EXTENDS Gateway, KeyPoolProofs, WellFoundedInduction, SequenceTheorems

-----------------------------------------------------------------------------
(* What a failed attempt does to the database.                             *)

\* The keys of e are the keys of d; only rows of hit were written, and none
\* was enabled or given another secret.
Spares(d, e, hit) ==
  /\ StoredNames(e) = StoredNames(d)
  /\ \A n \in StoredNames(d) :
       /\ e.keys[n].secret = d.keys[n].secret
       /\ e.keys[n].enabled => d.keys[n].enabled
       /\ e.keys[n] # d.keys[n] => n \in hit

\* The rows a failure of candidate k may write.
Reach(d, k) ==
  {k.name} \cup (IF AccountOf(d, k.secret) = None THEN {}
                 ELSE KeysForAccount(d, AccountOf(d, k.secret)))

\* Keys that keep their secrets keep them unique.
LEMMA SparedUnique ==
  ASSUME NEW d, NEW e, NEW hit, Spares(d, e, hit), UniqueSecrets(d)
  PROVE  UniqueSecrets(e)
BY DEF Spares, UniqueSecrets

\* Rewriting one stored row that keeps its secret and is not enabled.
LEMMA RewriteSpares ==
  ASSUME NEW d \in Database, NEW n \in StoredNames(d), NEW row \in KeyRow,
         row.secret = d.keys[n].secret, row.enabled => d.keys[n].enabled
  PROVE  /\ WithRow(d, n, row) \in Database
         /\ WithRow(d, n, row).cooldowns = d.cooldowns
         /\ Spares(d, WithRow(d, n, row), {n})
<1> DEFINE e == WithRow(d, n, row)
<1>1. n \in Names /\ row # None
  BY NoneAssumption DEF StoredNames
<1>2. e \in Database
  BY <1>1, WithRowType
<1>3. e.keys = [d.keys EXCEPT ![n] = row] /\ d.keys \in [Names -> KeyRow \cup {None}]
  BY <1>1, WithRowOthers, DatabaseFields
<1>4. e.cooldowns = d.cooldowns
  BY DEF WithRow, Database
<1> HIDE DEF e
<1>5. StoredNames(e) = StoredNames(d)
  BY <1>1, <1>3 DEF StoredNames
<1>6. \A m \in StoredNames(d) : m # n => e.keys[m] = d.keys[m]
  BY <1>3 DEF StoredNames
<1>7. e.keys[n] = row
  BY <1>1, <1>3
<1>8. Spares(d, e, {n})
  BY <1>5, <1>6, <1>7, Zenon DEF Spares
<1> QED BY <1>2, <1>4, <1>8 DEF e

\* A decision is well-formed, and one that cools an account down lasts
\* RateLimitCooldown.
LEMMA DecisionType ==
  ASSUME NEW a \in Answer
  PROVE  /\ Decision(a).errorType \in ErrorTypes
         /\ Decision(a).reason \in Reasons
         /\ Decision(a).disable \in BOOLEAN
         /\ Decision(a).cooldown \in Nat
         /\ ~Decision(a).disable /\ Decision(a).errorType \in {"quota_exhausted", "rate_limit"}
              => Decision(a).cooldown = RateLimitCooldown
<1>1. ErrorType(a) \in ErrorTypes
  BY DEF ErrorType, ErrorTypes
<1>2. DisableReason(a) \in Reasons
  BY DEF DisableReason, Reasons
<1>3. DisablesKey(a) \in BOOLEAN
  BY DEF DisablesKey, ShouldDisableKey
<1>4. CooldownSeconds(a) \in Nat
  BY DEF CooldownSeconds, RateLimitCooldown, TransientCooldown, LongCooldown
<1>5. ErrorType(a) \in {"quota_exhausted", "rate_limit"}
        => CooldownSeconds(a) = RateLimitCooldown
  BY DEF CooldownSeconds, ShouldCooldown, Harmless
<1> QED BY <1>1, <1>2, <1>3, <1>4, <1>5 DEF Decision

\* Disabling the keys of an account writes their rows only.
LEMMA DisableAccountSpares ==
  ASSUME NEW d \in Database, NEW b \in Accounts, NEW x,
         x.reason \in Reasons, x.errorType \in ErrorTypes
  PROVE  /\ DisableAccountKeys(d, b, x) \in Database
         /\ DisableAccountKeys(d, b, x).cooldowns = d.cooldowns
         /\ Spares(d, DisableAccountKeys(d, b, x), KeysForAccount(d, b))
<1> DEFINE e == DisableAccountKeys(d, b, x)
           K == KeysForAccount(d, b)
           new(n) == [d.keys[n] EXCEPT !.enabled = FALSE, !.reason = x.reason,
                                       !.lastError = x.errorType]
<1>1. e.keys = [n \in Names |-> IF n \in K THEN new(n) ELSE d.keys[n]]
  BY DEF DisableAccountKeys, Database
<1>2. K \subseteq StoredNames(d) /\ K \subseteq Names
  BY DEF KeysForAccount, StoredNames
<1>3. ASSUME NEW n \in K
      PROVE  /\ new(n) \in KeyRow /\ new(n).secret = d.keys[n].secret
             /\ ~new(n).enabled
  <2>1. d.keys[n] \in KeyRow
    BY <1>2, StoredRow
  <2> QED BY <2>1 DEF KeyRow
<1>4. d.keys \in [Names -> KeyRow \cup {None}]
  BY DatabaseFields
<1> HIDE DEF K, new
<1>5. e.keys \in [Names -> KeyRow \cup {None}]
  BY <1>1, <1>3, <1>4
<1>6. e \in Database /\ e.cooldowns = d.cooldowns
  <2>1. e = [d EXCEPT !.keys = e.keys]
    BY DEF DisableAccountKeys, Database
  <2> HIDE DEF e
  <2> QED BY <1>5, <2>1 DEF Database
<1> HIDE DEF e
<1>7. \A n \in K : new(n) # None
  BY <1>3, NoneAssumption
<1>8. StoredNames(e) = StoredNames(d)
  BY <1>1, <1>2, <1>7 DEF StoredNames
<1>9. \A n \in StoredNames(d) : n \notin K => e.keys[n] = d.keys[n]
  BY <1>1 DEF StoredNames
<1>10. \A n \in K : e.keys[n] = new(n)
  BY <1>1, <1>2
<1>11. Spares(d, e, K)
  BY <1>3, <1>8, <1>9, <1>10, Zenon DEF Spares
<1> QED BY <1>6, <1>11 DEF e, K

\* The account of a secret.
LEMMA AccountType ==
  ASSUME NEW d \in Database, NEW s \in Secrets
  PROVE  AccountOf(d, s) \in Accounts \cup {None}
<1>1. d.snapshots[s] \in SnapshotRow \cup {None}
  BY DEF Database
<1> QED BY <1>1 DEF AccountOf, SnapshotRow

\* What a handler of requests owes the database: rows are written in place, and
\* account cooldowns are kept or set to t.
Marks(d, e, hit, t) ==
  /\ e \in Database
  /\ Spares(d, e, hit)
  /\ \A b \in Accounts : e.cooldowns[b] \in {d.cooldowns[b], t}

\* Writing nothing.
LEMMA SameMarks ==
  ASSUME NEW d \in Database, NEW e \in Database, NEW hit, NEW t,
         e.keys = d.keys, e.cooldowns = d.cooldowns
  PROVE  Marks(d, e, hit, t)
<1>1. Spares(d, e, hit)
  BY DEF Spares, StoredNames
<1> QED BY <1>1 DEF Marks

\* Writing less.
LEMMA WiderMarks ==
  ASSUME NEW d, NEW e, NEW few, NEW hit, NEW t,
         e \in Database, Spares(d, e, few), few \subseteq hit,
         e.cooldowns = d.cooldowns
  PROVE  Marks(d, e, hit, t)
<1>1. Spares(d, e, hit)
  BY DEF Spares
<1> QED BY <1>1 DEF Marks

\* apply_failure_to_key writes the row of its key.
LEMMA KeyFailureMarks ==
  ASSUME NEW d \in Database, NEW t \in Nat, NEW n \in Names, NEW a \in Answer,
         NEW u
  PROVE  Marks(d, ApplyFailureToKey(d, t, n, Decision(a)), {n}, u)
<1> DEFINE x == Decision(a)
           e == ApplyFailureToKey(d, t, n, x)
<1> SUFFICES Marks(d, e, {n}, u)
  OBVIOUS
<1>1. /\ x.errorType \in ErrorTypes /\ x.reason \in Reasons
      /\ x.disable \in BOOLEAN /\ x.cooldown \in Nat
  BY DecisionType
<1> HIDE DEF x
<1>2. CASE e = d
  <2>1. Marks(d, d, {n}, u)
    BY SameMarks
  <2> QED BY <1>2, <2>1, Zenon
<1>3. CASE e # d
  <2>1. n \in StoredNames(d)
    BY <1>3 DEF ApplyFailureToKey, SetKeyEnabled, SetKeyCooldown, StoredNames
  <2>2. d.keys[n] \in KeyRow
    BY <2>1, StoredRow
  <2>3. d.keys[n] # None
    BY <2>1 DEF StoredNames
  <2>4. CASE x.disable
    <3> DEFINE row == [d.keys[n] EXCEPT
                         !.enabled = FALSE,
                         !.reason = IF FALSE THEN None ELSE x.reason,
                         !.lastError = x.errorType]
    <3>1. row \in KeyRow /\ row.secret = d.keys[n].secret /\ ~row.enabled
      BY <1>1, <2>2 DEF KeyRow
    <3>2. e = WithRow(d, n, row)
      BY <2>3, <2>4 DEF ApplyFailureToKey, SetKeyEnabled
    <3> HIDE DEF row, e
    <3>3. /\ WithRow(d, n, row) \in Database
          /\ WithRow(d, n, row).cooldowns = d.cooldowns
          /\ Spares(d, WithRow(d, n, row), {n})
      BY <2>1, <3>1, RewriteSpares
    <3>4. Marks(d, WithRow(d, n, row), {n}, u)
      BY <3>3, WiderMarks
    <3> QED BY <3>2, <3>4, Zenon
  <2>5. CASE ~x.disable
    <3> DEFINE until == t + x.cooldown
               row == [d.keys[n] EXCEPT !.cooldown = until, !.lastError = x.errorType]
    <3>3. e = WithRow(d, n, row)
      BY <1>3, <2>3, <2>5 DEF ApplyFailureToKey, SetKeyCooldown
    <3>4. until \in Nat
      BY <1>1
    <3> HIDE DEF until, e
    <3>1. row \in KeyRow /\ row.secret = d.keys[n].secret
      BY <1>1, <2>2, <3>4 DEF KeyRow
    <3>2. row.enabled = d.keys[n].enabled
      BY <2>2 DEF KeyRow
    <3> HIDE DEF row
    <3>5. /\ WithRow(d, n, row) \in Database
          /\ WithRow(d, n, row).cooldowns = d.cooldowns
          /\ Spares(d, WithRow(d, n, row), {n})
      BY <2>1, <3>1, <3>2, RewriteSpares
    <3>6. Marks(d, WithRow(d, n, row), {n}, u)
      BY <3>5, WiderMarks
    <3> QED BY <3>3, <3>6, Zenon
  <2> QED BY <2>4, <2>5
<1> QED BY <1>2, <1>3

\* apply_failure_to_candidate writes the rows of the candidate's key or of its
\* account, and sets an account's cooldown to RateLimitCooldown from now.
LEMMA FailureMarks ==
  ASSUME NEW d \in Database, NEW t \in Nat, NEW k \in Candidate, NEW a \in Answer
  PROVE  Marks(d, ApplyFailureToCandidate(d, t, k, Decision(a)), Reach(d, k),
               t + RateLimitCooldown)
<1> DEFINE x == Decision(a)
           b == AccountOf(d, k.secret)
           e == ApplyFailureToCandidate(d, t, k, x)
           u == t + RateLimitCooldown
<1>1. /\ x.errorType \in ErrorTypes /\ x.reason \in Reasons
      /\ x.disable \in BOOLEAN /\ x.cooldown \in Nat
      /\ ~x.disable /\ x.errorType \in {"quota_exhausted", "rate_limit"}
           => x.cooldown = RateLimitCooldown
  BY DecisionType
<1>2. k.name \in Names /\ k.secret \in Secrets
  BY DEF Candidate
<1>3. b \in Accounts \cup {None}
  BY <1>2, AccountType
<1>4. CASE FailureScope(d, k, x) = "none"
  <2>1. e = d
    BY <1>4 DEF ApplyFailureToCandidate
  <2> QED BY <2>1, SameMarks
<1>5. CASE FailureScope(d, k, x) = "key"
  <2>1. e = ApplyFailureToKey(d, t, k.name, x)
    BY <1>5 DEF ApplyFailureToCandidate
  <2>2. Marks(d, e, {k.name}, u)
    BY <1>2, <2>1, KeyFailureMarks
  <2>3. Spares(d, e, {k.name}) => Spares(d, e, Reach(d, k))
    BY DEF Spares, Reach
  <2> QED BY <2>2, <2>3 DEF Marks
<1>6. CASE FailureScope(d, k, x) = "account"
  <2>1. b \in Accounts
    BY <1>3, <1>6 DEF FailureScope
  <2>2. KeysForAccount(d, b) \subseteq Reach(d, k)
    BY <2>1, NoneAssumption DEF Reach
  <2>3. CASE x.disable
    <3>1. e = DisableAccountKeys(d, b, x)
      BY <1>6, <2>3 DEF ApplyFailureToCandidate
    <3> HIDE DEF x, b, e, u
    <3>2. /\ e \in Database /\ e.cooldowns = d.cooldowns
          /\ Spares(d, e, KeysForAccount(d, b))
      BY <1>1, <2>1, <3>1, DisableAccountSpares
    <3>3. Marks(d, e, Reach(d, k), u)
      BY <2>2, <3>2, WiderMarks
    <3> QED BY <3>3 DEF x, e, u
  <2>4. CASE ~x.disable
    <3>1. e = SetAccountCooldown(d, b, t + x.cooldown)
      BY <1>6, <2>4 DEF ApplyFailureToCandidate
    <3>2. x.cooldown = RateLimitCooldown
      BY <1>1, <1>6, <2>4 DEF FailureScope
    <3> HIDE DEF x, b, e
    <3>3. e = SetAccountCooldown(d, b, u) /\ u \in Nat
      BY <3>1, <3>2 DEF RateLimitCooldown
    <3> HIDE DEF u
    <3>4. e \in Database /\ e.keys = d.keys
      BY <2>1, <3>3 DEF SetAccountCooldown, Database
    <3>5. e.cooldowns = [d.cooldowns EXCEPT ![b] = u]
      BY <3>3 DEF SetAccountCooldown, Database
    <3>6. \A c \in Accounts : e.cooldowns[c] \in {d.cooldowns[c], u}
      BY <3>5, DatabaseFields
    <3>7. Spares(d, e, Reach(d, k))
      BY <3>4 DEF Spares, StoredNames
    <3>8. Marks(d, e, Reach(d, k), u)
      BY <3>4, <3>6, <3>7 DEF Marks
    <3> QED BY <3>8 DEF x, e, u
  <2> QED BY <2>3, <2>4
<1> QED BY <1>4, <1>5, <1>6 DEF FailureScope

\* Binding and forgetting a response writes the routes only.
LEMMA RouteWrites ==
  ASSUME NEW d \in Database, NEW p, NEW k \in Candidate
  PROVE  /\ UpsertRoute(d, p, k) \in Database
         /\ UpsertRoute(d, p, k).keys = d.keys
         /\ UpsertRoute(d, p, k).cooldowns = d.cooldowns
         /\ DeleteRoute(d, p) \in Database
         /\ DeleteRoute(d, p).keys = d.keys
         /\ DeleteRoute(d, p).cooldowns = d.cooldowns
BY DEF UpsertRoute, DeleteRoute, Database

\* select_candidates returns at most max candidates.
LEMMA SelectionType ==
  ASSUME NEW d \in Database, NEW t \in Nat, NEW rk \in RouteKeys,
         NEW max \in Nat \ {0}, IsFiniteSet(Names)
  PROVE  /\ SelectCandidates(d, t, rk, max) \in Seq(Candidate)
         /\ Len(SelectCandidates(d, t, rk, max)) <= max
<1> DEFINE count == Cardinality(Open(d, t))
           kept == IF max > 0 /\ max < count THEN max ELSE count
           sel == SelectCandidates(d, t, rk, max)
<1>1. /\ Open(d, t) \in SUBSET StoredNames(d) /\ IsFiniteSet(Open(d, t))
      /\ \A i \in DOMAIN sel : \E n \in Open(d, t) : sel[i] = CandidateOf(d, n)
  BY Selection
<1>2. count \in Nat
  BY <1>1, FS_CardinalityType
<1>3. kept \in Nat /\ kept <= max
  BY <1>2
<1>4. DOMAIN sel = 1..kept /\ sel = [i \in 1..kept |-> sel[i]]
  BY DEF SelectCandidates
<1> HIDE DEF kept, count, sel
<1>5. \A i \in 1..kept : sel[i] \in Candidate
  BY <1>1, <1>4, BucketType
<1>6. sel \in [1..kept -> Candidate]
  BY <1>4, <1>5
<1>7. sel \in Seq(Candidate) /\ Len(sel) = kept
  BY <1>3, <1>6
<1> QED BY <1>3, <1>7 DEF sel

\* A bound key is a candidate.
LEMMA RoutedType ==
  ASSUME NEW d \in Database, NEW p \in Responses, RoutedKey(d, p) # None
  PROVE  RoutedKey(d, p) \in Candidate
<1>1. d.routes[p] # None /\ d.keys[d.routes[p].name] # None
      /\ RoutedKey(d, p) = CandidateOf(d, d.routes[p].name)
  BY DEF RoutedKey
<1>2. d.routes[p] \in Candidate
  BY <1>1 DEF Database
<1>3. d.routes[p].name \in StoredNames(d)
  BY <1>1, <1>2 DEF Candidate, StoredNames
<1> QED BY <1>1, <1>3, BucketType

-----------------------------------------------------------------------------
(* The invariant of a request.                                             *)

\* A request that gave up with a 503 has no candidate left.
GaveUp(x) ==
  x.status = 503 /\ x.error \notin {"validation_error", "model_not_found"}
    => x.tried \cup x.skipped = DOMAIN x.sel

(* While a request works, the candidates up to the current one are those it*)
(* tried or skipped; what it skipped belongs to an account it blocked; and *)
(* it has a log row when, and only when, it was answered.                  *)
Consistent(x) ==
  /\ x.pc = "idle" => x = Idle
  /\ x.pc # "idle" => x.job \in Jobs
  /\ Len(x.sel) <= MaxAttempts
  /\ x.tried \subseteq DOMAIN x.sel
  /\ x.skipped # {} => x.blocked # {}
  /\ x.pc \in {"sent", "closing"} =>
       /\ x.idx \in DOMAIN x.sel
       /\ x.tried \cup x.skipped = 1 .. x.idx
       /\ x.status = NoStatus
  /\ x.pc = "streaming" => x.idx \in DOMAIN x.sel /\ x.status = 200
  /\ x.pc \in {"sent", "closing", "streaming"} => x.log = <<>>
  /\ x.pc \in {"deleting", "done"} => x.log # <<>>
  /\ x.pc = "deleting" => x.status = 200
  /\ x.pc = "done" => GaveUp(x)

Fine(x) == x \in RequestState /\ Consistent(x)

GatewayInv == PoolInv /\ req \in [Requests -> {x \in RequestState : Consistent(x)}]

\* A request that nobody made yet.
LEMMA IdleFine == Fine(Idle)
<1>1. MaxAttempts \in Nat
  BY KeyPoolAssumption
<1>2. <<>> \in Seq(Candidate) /\ <<>> \in Seq(LogRow) /\ Len(<<>>) = 0
  OBVIOUS
<1>3. Idle \in RequestState
  BY <1>2 DEF Idle, RequestState, NoStatus
<1>4. Consistent(Idle)
  BY <1>1, <1>2 DEF Idle, Consistent
<1> QED BY <1>3, <1>4 DEF Fine

\* The handlers update some fields of a request, each with a value of its set.
\* The sets are hidden: what they are does not matter to the record.
LEMMA FieldsType ==
  ASSUME NEW x \in RequestState
  PROVE  /\ \A p \in Running \cup {"idle", "done", "abandoned", "lost"} :
              [x EXCEPT !.pc = p] \in RequestState
         /\ \A p \in Running \cup {"idle", "done", "abandoned", "lost"},
               status \in 100..599 \cup {NoStatus} :
              [x EXCEPT !.pc = p, !.status = status] \in RequestState
         /\ \A p \in Running \cup {"idle", "done", "abandoned", "lost"},
               i \in Nat, tried \in SUBSET Nat, carries \in BOOLEAN :
              [x EXCEPT !.pc = p, !.idx = i, !.tried = tried, !.carries = carries]
                \in RequestState
         /\ \A j \in Jobs \cup {None}, sel \in Seq(Candidate) :
              [x EXCEPT !.job = j, !.sel = sel] \in RequestState
         /\ \A skipped \in SUBSET Nat :
              [x EXCEPT !.skipped = skipped] \in RequestState
         /\ \A resent, carries \in BOOLEAN :
              [x EXCEPT !.resent = resent, !.carries = carries] \in RequestState
         /\ \A error \in ErrorTypes \cup {None}, blocked \in SUBSET Accounts :
              [x EXCEPT !.error = error, !.blocked = blocked] \in RequestState
<1> DEFINE Phases == Running \cup {"idle", "done", "abandoned", "lost"}
           JobsOrNone == Jobs \cup {None}
           Selections == Seq(Candidate)
           Numbers == Nat
           NumberSets == SUBSET Nat
           AccountSets == SUBSET Accounts
           Flags == BOOLEAN
           Errors == ErrorTypes \cup {None}
           StatusOrNone == 100..599 \cup {NoStatus}
           Logs == Seq(LogRow)
           State == [pc : Phases, job : JobsOrNone, sel : Selections, idx : Numbers,
                     tried : NumberSets, skipped : NumberSets, blocked : AccountSets,
                     resent : Flags, carries : Flags, error : Errors,
                     status : StatusOrNone, log : Logs]
<1>1. RequestState = State
  BY Zenon DEF RequestState
<1>2. x \in State
  BY <1>1, Zenon
<1> HIDE DEF Phases, JobsOrNone, Selections, Numbers, NumberSets, AccountSets, Flags,
             Errors, StatusOrNone, Logs
<1>4. \A p \in Phases : [x EXCEPT !.pc = p] \in State
  BY ONLY <1>2
<1>5. \A p \in Phases, status \in StatusOrNone :
        [x EXCEPT !.pc = p, !.status = status] \in State
  BY ONLY <1>2
<1>6. \A p \in Phases, i \in Numbers, tried \in NumberSets, carries \in Flags :
        [x EXCEPT !.pc = p, !.idx = i, !.tried = tried, !.carries = carries] \in State
  BY ONLY <1>2
<1>7. \A j \in JobsOrNone, sel \in Selections : [x EXCEPT !.job = j, !.sel = sel] \in State
  BY ONLY <1>2
<1>8. \A skipped \in NumberSets : [x EXCEPT !.skipped = skipped] \in State
  BY ONLY <1>2
<1>9. \A resent, carries \in Flags : [x EXCEPT !.resent = resent, !.carries = carries] \in State
  BY ONLY <1>2
<1>10. \A error \in Errors, blocked \in AccountSets :
         [x EXCEPT !.error = error, !.blocked = blocked] \in State
  BY ONLY <1>2
<1> HIDE DEF State
<1>11. \A p \in Phases : [x EXCEPT !.pc = p] \in RequestState
  BY <1>1, <1>4, Zenon
<1>12. \A p \in Phases, status \in StatusOrNone :
         [x EXCEPT !.pc = p, !.status = status] \in RequestState
  BY <1>1, <1>5, Zenon
<1>13. \A p \in Phases, i \in Numbers, tried \in NumberSets, carries \in Flags :
         [x EXCEPT !.pc = p, !.idx = i, !.tried = tried, !.carries = carries]
           \in RequestState
  BY <1>1, <1>6, Zenon
<1>14. /\ \A j \in JobsOrNone, sel \in Selections :
            [x EXCEPT !.job = j, !.sel = sel] \in RequestState
       /\ \A skipped \in NumberSets : [x EXCEPT !.skipped = skipped] \in RequestState
  BY <1>1, <1>7, <1>8, Zenon
<1>15. /\ \A resent, carries \in Flags :
            [x EXCEPT !.resent = resent, !.carries = carries] \in RequestState
       /\ \A error \in Errors, blocked \in AccountSets :
            [x EXCEPT !.error = error, !.blocked = blocked] \in RequestState
  BY <1>1, <1>9, <1>10, Zenon
<1> QED BY ONLY <1>11, <1>12, <1>13, <1>14, <1>15, Zenon
        DEF Phases, JobsOrNone, Selections, Numbers, NumberSets, AccountSets, Flags,
            Errors, StatusOrNone

\* The fields that sending sets.
LEMMA SendType ==
  ASSUME NEW x \in RequestState, NEW i \in Nat, NEW tried \in SUBSET Nat,
         NEW carries \in BOOLEAN
  PROVE  [x EXCEPT !.pc = "sent", !.idx = i, !.tried = tried, !.carries = carries]
           \in RequestState
<1>1. "sent" \in Running \cup {"idle", "done", "abandoned", "lost"}
  BY DEF Running
<1> QED BY <1>1, FieldsType, Zenon

\* Sending to candidate i, when all before it were tried or skipped.
LEMMA SendFine ==
  ASSUME NEW x \in RequestState, NEW i \in DOMAIN x.sel,
         x.job \in Jobs, Len(x.sel) <= MaxAttempts,
         x.tried \cup x.skipped = 1 .. i - 1, x.skipped # {} => x.blocked # {},
         x.status = NoStatus, x.log = <<>>
  PROVE  Fine(Send(x, i))
<1> DEFINE y == Send(x, i)
<1>1. x.sel \in Seq(Candidate) /\ DOMAIN x.sel = 1 .. Len(x.sel) /\ Len(x.sel) \in Nat
  BY DEF RequestState
<1>2. i \in Nat /\ i > 0 /\ i <= Len(x.sel)
  BY <1>1
<1>3. /\ y.pc = "sent" /\ y.job = x.job /\ y.sel = x.sel /\ y.idx = i
      /\ y.tried = x.tried \cup {i} /\ y.skipped = x.skipped
      /\ y.blocked = x.blocked /\ y.status = x.status /\ y.log = x.log
  BY DEF Send, RequestState
<1>4. y \in RequestState
  <2> DEFINE c == x.job.kind = "create" /\ x.job.prev # None
             tried == x.tried \cup {i}
  <2>1. y = [x EXCEPT !.pc = "sent", !.idx = i, !.tried = tried, !.carries = c]
    BY DEF Send, RequestState
  <2>2. c \in BOOLEAN
    OBVIOUS
  <2>3. tried \in SUBSET Nat
    BY <1>2 DEF RequestState
  <2>4. i \in Nat
    BY <1>2
  <2> HIDE DEF c, tried, y
  <2> QED BY <2>1, <2>2, <2>3, <2>4, SendType, Zenon
<1> HIDE DEF y
<1>5. y.tried \cup y.skipped = 1 .. i
  BY <1>2, <1>3
<1>6. y.tried \subseteq DOMAIN y.sel
  BY <1>1, <1>2, <1>3
<1>7. Consistent(y)
  BY <1>3, <1>5, <1>6 DEF Consistent
<1> QED BY <1>4, <1>7 DEF Fine, y

\* Answering a request.
LEMMA AnsweredFine ==
  ASSUME NEW x \in RequestState, NEW status \in 100 .. 599, NEW error \in LogErrors,
         x.job \in Jobs, Len(x.sel) <= MaxAttempts, x.tried \subseteq DOMAIN x.sel,
         x.skipped # {} => x.blocked # {},
         status = 503 /\ x.error \notin {"validation_error", "model_not_found"}
           => x.tried \cup x.skipped = DOMAIN x.sel
  PROVE  Fine(Answered(x, status, error))
<1> DEFINE y == Answered(x, status, error)
           row == [status |-> status, error |-> error]
<1>1. row \in LogRow
  BY DEF LogRow
<1>2. x.log \in Seq(LogRow)
  BY DEF RequestState
<1> HIDE DEF row
<1>3. Append(x.log, row) \in Seq(LogRow) /\ Append(x.log, row) # <<>>
  BY <1>1, <1>2
<1>4. /\ y.pc = "done" /\ y.job = x.job /\ y.sel = x.sel /\ y.tried = x.tried
      /\ y.skipped = x.skipped /\ y.blocked = x.blocked /\ y.error = x.error
      /\ y.status = status /\ y.log = Append(x.log, row)
  BY DEF Answered, Log, RequestState, row
<1>5. y \in RequestState
  BY <1>3, ZenonT(60) DEF Answered, Log, RequestState, row
<1> HIDE DEF y
<1>6. Consistent(y)
  BY <1>3, <1>4 DEF Consistent, GaveUp
<1> QED BY <1>5, <1>6 DEF Fine, y

-----------------------------------------------------------------------------
(* What one handler does to its request and to the database.               *)

\* The handler of request r writes only rows that a failure may write, leaves
\* the process alone, and leaves its own request in order.
Handles(r) ==
  /\ \E hit : /\ \A n \in hit : Affected(n)
              /\ Marks(db, db', hit, now + RateLimitCooldown)
  /\ PoolStays
  /\ \E y : Fine(y) /\ req' = [req EXCEPT ![r] = y]

\* A request of a consistent gateway.
LEMMA RequestFacts ==
  ASSUME GatewayInv, NEW r \in Requests
  PROVE  /\ req[r] \in RequestState /\ Consistent(req[r])
         /\ db \in Database /\ now \in Nat
BY DEF GatewayInv, PoolInv, PoolTypeOK

\* A handler that leaves keys and cooldowns alone.
LEMMA QuietHandles ==
  ASSUME GatewayInv, NEW r \in Requests, NEW y, Fine(y),
         req' = [req EXCEPT ![r] = y], PoolStays, db' \in Database,
         db'.keys = db.keys, db'.cooldowns = db.cooldowns
  PROVE  Handles(r)
<1>1. Marks(db, db', {}, now + RateLimitCooldown)
  BY RequestFacts, SameMarks
<1> QED BY <1>1 DEF Handles

\* The candidates that the handler of a request chooses.
LEMMA CandidatesType ==
  ASSUME GatewayInv, NEW j \in Jobs, IsFiniteSet(Names)
  PROVE  Candidates(j) \in Seq(Candidate) /\ Len(Candidates(j)) <= MaxAttempts
<1>1. db \in Database /\ now \in Nat
  BY DEF GatewayInv, PoolInv, PoolTypeOK
<1>2. j.prev \in Responses \cup {None} /\ j.rk \in RouteKeys
  BY GatewayAssumption DEF Job
<1>3. MaxAttempts \in Nat \ {0}
  BY KeyPoolAssumption
<1> DEFINE routed == IF j.kind = "plain" \/ j.prev = None
                     THEN None ELSE RoutedKey(db, j.prev)
<1>4. CASE routed # None
  <2>1. routed \in Candidate
    BY <1>1, <1>2, <1>4, RoutedType
  <2> HIDE DEF routed
  <2>2. <<routed>> \in Seq(Candidate) /\ Len(<<routed>>) = 1
    BY <2>1
  <2> QED BY <1>3, <1>4, <2>2 DEF Candidates, routed
<1>5. CASE routed = None
  BY <1>1, <1>2, <1>3, <1>5, SelectionType DEF Candidates
<1> QED BY <1>4, <1>5

\* The fields that choosing candidates sets.
LEMMA ChosenType ==
  ASSUME NEW x \in RequestState, NEW j \in Jobs, NEW sel \in Seq(Candidate)
  PROVE  [x EXCEPT !.job = j, !.sel = sel] \in RequestState
<1>1. j \in Jobs \cup {None}
  OBVIOUS
<1> QED BY <1>1, FieldsType, Zenon

\* A new request is sent to its first candidate, or answered with a 503.
LEMMA ArriveHandles ==
  ASSUME GatewayInv, NEW r \in Requests, NEW j \in Jobs, Arrive(r, j),
         IsFiniteSet(Names)
  PROVE  Handles(r)
<1> DEFINE sel == Candidates(j)
           x == [req[r] EXCEPT !.job = j, !.sel = sel]
           y == IF x.sel = <<>> THEN Answered(x, 503, "no_healthy_keys")
                ELSE Send(x, 1)
<1>1. req[r] = Idle /\ Idle \in RequestState
  BY RequestFacts DEF Arrive, Consistent
<1>2. sel \in Seq(Candidate) /\ Len(sel) <= MaxAttempts
  BY CandidatesType
<1>3. req' = [req EXCEPT ![r] = y] /\ UNCHANGED poolVars
  BY DEF Arrive
<1> HIDE DEF sel
<1>4. x \in RequestState
  BY <1>1, <1>2, ChosenType
<1>5. /\ x.job = j /\ x.sel = sel /\ x.tried = {} /\ x.skipped = {}
      /\ x.status = NoStatus /\ x.log = <<>>
  BY <1>1 DEF Idle
<1> HIDE DEF x
<1>6. CASE sel = <<>>
  <2>1. /\ x.tried \cup x.skipped = DOMAIN x.sel
        /\ x.tried \subseteq DOMAIN x.sel /\ Len(x.sel) <= MaxAttempts
    BY <1>2, <1>5, <1>6
  <2>2. 503 \in 100 .. 599 /\ "no_healthy_keys" \in LogErrors
    BY DEF LogErrors
  <2>3. Fine(Answered(x, 503, "no_healthy_keys"))
    BY <1>4, <1>5, <2>1, <2>2, AnsweredFine, ZenonT(60)
  <2> QED BY <1>3, <1>5, <1>6, <2>3, QuietHandles, RequestFacts
      DEF PoolStays, poolVars
<1>7. CASE sel # <<>>
  <2>1. 1 \in DOMAIN x.sel /\ Len(x.sel) <= MaxAttempts /\ 1 .. (1 - 1) = {}
    BY <1>2, <1>5, <1>7
  <2>2. Fine(Send(x, 1))
    BY <1>4, <1>5, <2>1, SendFine
  <2> QED BY <1>3, <1>5, <1>7, <2>2, QuietHandles, RequestFacts
      DEF PoolStays, poolVars
<1> QED BY <1>6, <1>7

\* The attempt without the previous response goes to the same candidate.
LEMMA PreviousNotFoundHandles ==
  ASSUME GatewayInv, NEW r \in Requests, PreviousNotFound(r)
  PROVE  Handles(r)
<1> DEFINE x == req[r]
           y == [x EXCEPT !.resent = TRUE, !.carries = FALSE]
<1>1. x \in RequestState /\ Consistent(x) /\ db \in Database /\ x.pc = "sent"
  BY RequestFacts DEF PreviousNotFound
<1>2. req' = [req EXCEPT ![r] = y]
  <2>1. req \in [Requests -> RequestState]
    BY DEF GatewayInv
  <2> QED BY <2>1 DEF PreviousNotFound
<1>3. Fine(y)
  <2>1. y \in RequestState
    BY <1>1, FieldsType, Zenon
  <2>2. Consistent(y)
    BY <1>1 DEF Consistent, RequestState
  <2> QED BY <2>1, <2>2 DEF Fine
<1>4. /\ db' \in Database /\ db'.keys = db.keys /\ db'.cooldowns = db.cooldowns
      /\ PoolStays
  <2>1. db' = DeleteRoute(db, x.job.prev) /\ PoolStays
    BY DEF PreviousNotFound
  <2> QED BY <1>1, <2>1 DEF DeleteRoute, Database
<1> HIDE DEF y
<1> QED BY <1>2, <1>3, <1>4, QuietHandles

\* An answer that is passed on is an answer of Fireworks, and a 503 only if its
\* text names a client error.
LEMMA PassedOn ==
  ASSUME NEW a \in FailedAnswers, ~Decision(a).retryable
  PROVE  /\ a.exc = "none" /\ a.status \in 400 .. 599
         /\ a.status = 503 => Decision(a).errorType \in {"validation_error", "model_not_found"}
<1>1. /\ a \in Answer /\ a.words \subseteq WordFamilies /\ a.exc \in Exceptions
      /\ IF a.exc = "none" THEN a.status \in 400 .. 599
         ELSE a.status = NoStatus /\ a.words = {}
  BY GatewayAssumption DEF Answer
<1>2. Harmless(a) /\ Decision(a).errorType = ErrorType(a)
  BY DEF Decision, ShouldFailover
<1>3. a.exc = "none"
  <2>1. CASE a.exc # "none"
    <3>1. a.status = 0 /\ a.words = {}
      BY <1>1, <2>1 DEF NoStatus
    <3>2. ErrorType(a) \in {"timeout_error", "network_error"}
      BY <1>1, <2>1, <3>1 DEF ErrorType, Exceptions
    <3> QED BY <1>2, <3>2 DEF Harmless
  <2> QED BY <2>1
<1>4. a.status = 503 => ErrorType(a) \in {"validation_error", "model_not_found"}
  BY <1>2 DEF Harmless
<1> QED BY <1>1, <1>2, <1>3, <1>4

\* The fields that a failure sets.
LEMMA FailedType ==
  ASSUME NEW x \in RequestState, NEW error \in ErrorTypes,
         NEW blocked \in SUBSET Accounts
  PROVE  /\ [x EXCEPT !.error = error, !.blocked = blocked] \in RequestState
         /\ [x EXCEPT !.pc = "closing"] \in RequestState
<1>1. "closing" \in Running \cup {"idle", "done", "abandoned", "lost"}
  BY DEF Running
<1>2. [x EXCEPT !.error = error, !.blocked = blocked] \in RequestState
  <2>1. error \in ErrorTypes \cup {None}
    OBVIOUS
  <2> QED BY <2>1, FieldsType, Zenon
<1>3. [x EXCEPT !.pc = "closing"] \in RequestState
  BY <1>1, FieldsType, Zenon
<1> QED BY <1>2, <1>3

\* A failed attempt is followed by another candidate or by the answer.
LEMMA FailHandles ==
  ASSUME GatewayInv, NEW r \in Requests, NEW a \in FailedAnswers, Fail(r, a)
  PROVE  Handles(r)
<1> DEFINE o == req[r]
           k == Trying(o)
           d == Decision(a)
           b == AccountOf(db, k.secret)
           blocked == IF FailureScope(db, k, d) = "account"
                      THEN o.blocked \cup {b} ELSE o.blocked
           x == [o EXCEPT !.error = d.errorType, !.blocked = blocked]
           z == [x EXCEPT !.pc = "closing"]
           y == IF ~Retryable(db, k, d) THEN Answered(x, a.status, d.errorType)
                ELSE IF LastCandidate(x) THEN Answered(x, 503, d.errorType)
                ELSE z
<1>1. /\ o \in RequestState /\ Consistent(o) /\ db \in Database /\ now \in Nat
      /\ o.pc = "sent"
  BY RequestFacts DEF Fail
<1>2. /\ req' = [req EXCEPT ![r] = y]
      /\ db' = ApplyFailureToCandidate(db, now, k, d)
      /\ PoolStays
  BY DEF Fail
<1>3. a \in Answer /\ d.errorType \in ErrorTypes
  BY GatewayAssumption, DecisionType
<1>4. o.idx \in DOMAIN o.sel /\ o.sel \in Seq(Candidate)
  BY <1>1 DEF Consistent, RequestState
<1>5. k \in Candidate /\ k.secret \in Secrets
  <2>1. o.sel[o.idx] \in Candidate
    BY <1>4
  <2> QED BY <2>1 DEF Trying, Candidate
<1>6. Marks(db, db', Reach(db, k), now + RateLimitCooldown)
  BY <1>1, <1>2, <1>3, <1>5, FailureMarks
<1>7. \A n \in Reach(db, k) : Affected(n)
  BY <1>1 DEF Reach, Affected
<1>8. blocked \in SUBSET Accounts /\ (o.blocked # {} => blocked # {})
  <2>1. FailureScope(db, k, d) = "account" => b # None
    BY DEF FailureScope
  <2>2. b \in Accounts \cup {None} /\ o.blocked \in SUBSET Accounts
    BY <1>1, <1>5, AccountType DEF RequestState
  <2> QED BY <2>1, <2>2
<1> HIDE DEF blocked, d, k
<1>9. x \in RequestState
  BY <1>1, <1>3, <1>8, FailedType
<1>10. /\ x.pc = "sent" /\ x.job = o.job /\ x.sel = o.sel /\ x.idx = o.idx
       /\ x.tried = o.tried /\ x.skipped = o.skipped /\ x.status = o.status
       /\ x.log = o.log /\ x.error = d.errorType /\ x.blocked = blocked
  BY <1>1 DEF RequestState
<1> HIDE DEF x, o
<1>11. /\ x.job \in Jobs /\ Len(x.sel) <= MaxAttempts
       /\ x.tried \subseteq DOMAIN x.sel /\ (x.skipped # {} => x.blocked # {})
       /\ x.tried \cup x.skipped = 1 .. x.idx /\ x.idx \in DOMAIN x.sel
       /\ x.status = NoStatus /\ x.log = <<>>
  BY <1>1, <1>8, <1>10 DEF Consistent
<1>12. Fine(y)
  <2>1. d.errorType \in LogErrors
    BY <1>3 DEF LogErrors
  <2>2. CASE ~Retryable(db, k, d)
    <3>1. ~Decision(a).retryable
      BY <2>2 DEF Retryable, d
    <3>2. /\ a.status \in 400 .. 599
          /\ a.status = 503 => d.errorType \in {"validation_error", "model_not_found"}
      BY <3>1, PassedOn DEF d
    <3>3. a.status \in 100 .. 599
      BY <3>2
    <3>4. Fine(Answered(x, a.status, d.errorType))
      BY <1>9, <1>10, <1>11, <2>1, <3>2, <3>3, AnsweredFine, ZenonT(60)
    <3> QED BY <2>2, <3>4
  <2>3. CASE Retryable(db, k, d) /\ LastCandidate(x)
    <3>1. x.sel \in Seq(Candidate) /\ x.idx = Len(x.sel)
      BY <1>9, <2>3 DEF RequestState, LastCandidate
    <3>2. x.tried \cup x.skipped = DOMAIN x.sel
      BY <1>11, <3>1
    <3>3. 503 \in 100 .. 599
      OBVIOUS
    <3>4. Fine(Answered(x, 503, d.errorType))
      BY <1>9, <1>11, <2>1, <3>2, <3>3, AnsweredFine
    <3> QED BY <2>3, <3>4
  <2>4. CASE Retryable(db, k, d) /\ ~LastCandidate(x)
    <3>1. z \in RequestState
      BY <1>9, FailedType, <1>3
    <3>2. /\ z.pc = "closing" /\ z.job = x.job /\ z.sel = x.sel /\ z.idx = x.idx
          /\ z.tried = x.tried /\ z.skipped = x.skipped /\ z.blocked = x.blocked
          /\ z.status = x.status /\ z.log = x.log
      BY <1>9 DEF RequestState
    <3> HIDE DEF z
    <3>3. Consistent(z)
      BY <1>11, <3>2 DEF Consistent
    <3> QED BY <2>4, <3>1, <3>3 DEF Fine
  <2> QED BY <2>2, <2>3, <2>4
<1> HIDE DEF y
<1> QED BY <1>2, <1>6, <1>7, <1>12 DEF Handles

\* A set of numbers has a least one.
LEMMA LeastNumber ==
  ASSUME NEW S, S \subseteq Nat, S # {}
  PROVE  \E m \in S : \A n \in S : m <= n
<1>1. PICK m \in S : \A n \in S : <<n, m>> \notin OpToRel(<, Nat)
  BY NatLessThanWellFounded, WFMin
<1>2. ASSUME NEW n \in S PROVE m <= n
  <2>1. n < m => <<n, m>> \in OpToRel(<, Nat)
    BY DEF OpToRel
  <2>2. ~(n < m)
    BY <1>1, <2>1
  <2> QED BY <2>2
<1> QED BY <1>2

\* The fields that skipping sets.
LEMMA SkippedType ==
  ASSUME NEW x \in RequestState, NEW past \in SUBSET Nat
  PROVE  [x EXCEPT !.skipped = x.skipped \cup past] \in RequestState
<1>1. x.skipped \cup past \in SUBSET Nat
  BY DEF RequestState
<1> QED BY <1>1, FieldsType, Zenon

\* The first usable candidate of the rest is tried, or the request gives up.
LEMMA NextAttemptHandles ==
  ASSUME GatewayInv, NEW r \in Requests, NextAttempt(r)
  PROVE  Handles(r)
<1> DEFINE x == req[r]
           left == {i \in Rest(x) : Usable(x, i)}
           skip(past) == [x EXCEPT !.skipped = x.skipped \cup past]
           i == CHOOSE m \in left : \A j \in left : m <= j
           y == IF left = {} THEN Answered(skip(Rest(x)), 503, x.error)
                ELSE Send(skip(x.idx + 1 .. i - 1), i)
<1>1. /\ x \in RequestState /\ Consistent(x) /\ db \in Database /\ x.pc = "closing"
  BY RequestFacts DEF NextAttempt
<1>2. req' = [req EXCEPT ![r] = y] /\ UNCHANGED poolVars
  BY DEF NextAttempt
<1>3. /\ x.job \in Jobs /\ Len(x.sel) <= MaxAttempts
      /\ x.tried \subseteq DOMAIN x.sel /\ (x.skipped # {} => x.blocked # {})
      /\ x.tried \cup x.skipped = 1 .. x.idx /\ x.idx \in DOMAIN x.sel
      /\ x.status = NoStatus /\ x.log = <<>>
  BY <1>1 DEF Consistent
<1>4. /\ x.sel \in Seq(Candidate) /\ Len(x.sel) \in Nat /\ DOMAIN x.sel = 1 .. Len(x.sel)
      /\ x.idx \in Nat /\ x.idx > 0 /\ x.idx <= Len(x.sel)
      /\ x.error \in ErrorTypes \cup {None}
  BY <1>1, <1>3 DEF RequestState
<1>5. \A n \in Rest(x) : n \in Nat /\ n > x.idx /\ n \in DOMAIN x.sel
  BY <1>4 DEF Rest
<1>6. ASSUME NEW past \in SUBSET Nat
      PROVE  LET z == skip(past)
             IN  /\ z \in RequestState /\ z.job = x.job /\ z.sel = x.sel /\ z.tried = x.tried
                 /\ z.skipped = x.skipped \cup past /\ z.blocked = x.blocked
                 /\ z.status = x.status /\ z.log = x.log /\ z.error = x.error
  <2>1. skip(past) \in RequestState
    BY <1>1, SkippedType
  <2> QED BY <1>1, <2>1 DEF RequestState
<1>7. \A n \in Rest(x) \ left : x.blocked # {}
  BY DEF Usable
<1>8. CASE left = {}
  <2> DEFINE z == skip(Rest(x))
  <2>1. Rest(x) \in SUBSET Nat
    BY <1>5
  <2>2. /\ z \in RequestState /\ z.job = x.job /\ z.sel = x.sel /\ z.tried = x.tried
        /\ z.skipped = x.skipped \cup Rest(x) /\ z.blocked = x.blocked
        /\ z.status = x.status /\ z.log = x.log /\ z.error = x.error
    BY <1>6, <2>1
  <2> HIDE DEF z
  <2>3. z.tried \cup z.skipped = DOMAIN z.sel
    BY <1>3, <1>4, <2>2 DEF Rest
  <2>4. z.skipped # {} => z.blocked # {}
    BY <1>3, <1>7, <1>8, <2>2
  <2>5. 503 \in 100 .. 599 /\ x.error \in LogErrors
    BY <1>4 DEF LogErrors
  <2>6. z.job \in Jobs /\ Len(z.sel) <= MaxAttempts /\ z.tried \subseteq DOMAIN z.sel
    BY <1>3, <2>2
  <2>7. Fine(Answered(z, 503, x.error))
    BY <2>2, <2>3, <2>4, <2>5, <2>6, AnsweredFine, ZenonT(60)
  <2>8. req' = [req EXCEPT ![r] = Answered(z, 503, x.error)]
    BY <1>2, <1>8 DEF z
  <2> QED BY <1>1, <1>2, <2>7, <2>8, QuietHandles DEF PoolStays, poolVars
<1>9. CASE left # {}
  <2>1. i \in left /\ \A j \in left : i <= j
    <3>1. left \subseteq Nat
      BY <1>5
    <3>2. \E m \in left : \A j \in left : m <= j
      <4> HIDE DEF left
      <4> QED BY <1>9, <3>1, LeastNumber
    <3> QED BY <3>2
  <2> DEFINE past == x.idx + 1 .. i - 1
             z == skip(past)
  <2>2. i \in Nat /\ i > x.idx /\ i \in DOMAIN x.sel /\ i <= Len(x.sel)
    BY <1>4, <1>5, <2>1
  <2>3. past \subseteq Nat /\ past \subseteq Rest(x) /\ past \cap left = {}
    <3> HIDE DEF i
    <3>1. \A j \in past : j \in Nat /\ j \in Rest(x) /\ ~(i <= j)
      BY <1>4, <2>2 DEF Rest
    <3> HIDE DEF past, left
    <3> QED BY <2>1, <3>1
  <2>4. (1 .. x.idx) \cup past = 1 .. i - 1
    <3> HIDE DEF i
    <3> QED BY <1>4, <2>2
  <2> HIDE DEF past, i
  <2>5. /\ z \in RequestState /\ z.job = x.job /\ z.sel = x.sel /\ z.tried = x.tried
        /\ z.skipped = x.skipped \cup past /\ z.blocked = x.blocked
        /\ z.status = x.status /\ z.log = x.log
    BY <1>6, <2>3
  <2> HIDE DEF z
  <2>6. z.tried \cup z.skipped = 1 .. i - 1
    BY <1>3, <2>4, <2>5
  <2>7. z.skipped # {} => z.blocked # {}
    <3> HIDE DEF left
    <3> QED BY <1>3, <1>7, <2>3, <2>5
  <2>8. i \in DOMAIN z.sel /\ z.job \in Jobs /\ Len(z.sel) <= MaxAttempts
        /\ z.status = NoStatus /\ z.log = <<>>
    BY <1>3, <2>2, <2>5
  <2>9. Fine(Send(z, i))
    BY <2>5, <2>6, <2>7, <2>8, SendFine
  <2>10. req' = [req EXCEPT ![r] = Send(z, i)]
    BY <1>2, <1>9 DEF z, past, i
  <2> QED BY <1>1, <1>2, <2>9, <2>10, QuietHandles DEF PoolStays, poolVars
<1> QED BY <1>8, <1>9

\* The fields that waiting and ending set.
LEMMA PhaseType ==
  ASSUME NEW x \in RequestState, NEW p \in Running \cup {"idle", "done", "abandoned", "lost"}
  PROVE  /\ [x EXCEPT !.pc = p] \in RequestState
         /\ [x EXCEPT !.pc = p].pc = p
         /\ LET y == [x EXCEPT !.pc = p]
            IN  /\ y.job = x.job /\ y.sel = x.sel /\ y.idx = x.idx /\ y.tried = x.tried
                /\ y.skipped = x.skipped /\ y.blocked = x.blocked /\ y.error = x.error
                /\ y.status = x.status /\ y.log = x.log
<1>1. [x EXCEPT !.pc = p] \in RequestState
  BY FieldsType, Zenon
<1>2. [x EXCEPT !.pc = p].pc = p
  BY DEF RequestState
<1> QED BY <1>1, <1>2 DEF RequestState

\* What binds or forgets a route leaves keys and cooldowns alone.
Quiet ==
  /\ db' \in Database /\ db'.keys = db.keys /\ db'.cooldowns = db.cooldowns
  /\ PoolStays

\* A stream or a sent request names a candidate.
LEMMA TryingType ==
  ASSUME GatewayInv, NEW r \in Requests, req[r].pc \in {"sent", "streaming"}
  PROVE  Trying(req[r]) \in Candidate
<1>1. req[r].idx \in DOMAIN req[r].sel /\ req[r].sel \in Seq(Candidate)
  BY RequestFacts DEF Consistent, RequestState
<1>2. req[r].sel[req[r].idx] \in Candidate
  BY <1>1
<1> QED BY <1>2 DEF Trying

\* A whole answer ends a request; a delete still returns to its handler.
LEMMA SucceedHandles ==
  ASSUME GatewayInv, NEW r \in Requests, NEW identified \in BOOLEAN,
         Succeed(r, identified)
  PROVE  Handles(r)
<1> DEFINE x == req[r]
           z == Answered(x, 200, None)
           p == IF x.job.kind = "delete" THEN "deleting" ELSE "done"
           y == [z EXCEPT !.pc = p]
<1>1. /\ x \in RequestState /\ Consistent(x) /\ db \in Database /\ x.pc = "sent"
  BY RequestFacts DEF Succeed
<1>2. req' = [req EXCEPT ![r] = y]
  <2>1. req \in [Requests -> RequestState]
    BY DEF GatewayInv
  <2> QED BY <2>1 DEF Succeed
<1>3. Quiet
  <2>1. /\ PoolStays
        /\ \/ db' = UpsertRoute(db, ResponseOf[r], Trying(x))
           \/ db' = DeleteRoute(db, x.job.prev)
           \/ db' = db
    BY DEF Succeed
  <2> QED BY <1>1, <2>1, TryingType, RouteWrites DEF Quiet
<1>4. Fine(y)
  <2>1. 200 \in 100 .. 599 /\ None \in LogErrors /\ 200 # 503
    BY DEF LogErrors
  <2>2. /\ x.job \in Jobs /\ Len(x.sel) <= MaxAttempts
        /\ x.tried \subseteq DOMAIN x.sel /\ (x.skipped # {} => x.blocked # {})
    BY <1>1 DEF Consistent
  <2>3. Fine(z)
    <3>1. 200 = 503 /\ x.error \notin {"validation_error", "model_not_found"}
            => x.tried \cup x.skipped = DOMAIN x.sel
      OBVIOUS
    <3> HIDE DEF x
    <3> QED BY <1>1, <2>1, <2>2, <3>1, AnsweredFine
  <2>4. z \in RequestState /\ Consistent(z) /\ z.pc = "done" /\ z.status = 200
    BY <1>1, <2>3 DEF Fine, Answered, RequestState
  <2>5. p \in Running \cup {"idle", "done", "abandoned", "lost"} /\ p \in {"deleting", "done"}
    BY DEF Running
  <2> HIDE DEF z, p
  <2>6. /\ y \in RequestState /\ y.pc = p
        /\ y.job = z.job /\ y.sel = z.sel /\ y.idx = z.idx /\ y.tried = z.tried
        /\ y.skipped = z.skipped /\ y.blocked = z.blocked /\ y.error = z.error
        /\ y.status = z.status /\ y.log = z.log
    BY <2>4, <2>5, PhaseType
  <2> HIDE DEF y
  <2>7. Consistent(y)
    BY <2>4, <2>5, <2>6 DEF Consistent, GaveUp
  <2> QED BY <2>6, <2>7 DEF Fine
<1> HIDE DEF y
<1> QED BY <1>2, <1>3, <1>4, QuietHandles DEF Quiet

\* The delete handler forgets the route again.
LEMMA FinishDeleteHandles ==
  ASSUME GatewayInv, NEW r \in Requests, FinishDelete(r)
  PROVE  Handles(r)
<1> DEFINE x == req[r]
           y == [x EXCEPT !.pc = "done"]
<1>1. /\ x \in RequestState /\ Consistent(x) /\ db \in Database /\ x.pc = "deleting"
  BY RequestFacts DEF FinishDelete
<1>2. req' = [req EXCEPT ![r] = y]
  <2>1. req \in [Requests -> RequestState]
    BY DEF GatewayInv
  <2> QED BY <2>1 DEF FinishDelete
<1>3. Quiet
  <2>1. PoolStays /\ (db' = DeleteRoute(db, x.job.prev) \/ db' = db)
    BY DEF FinishDelete
  <2> QED BY <1>1, <2>1 DEF DeleteRoute, Database, Quiet
<1>4. /\ y \in RequestState /\ y.pc = "done" /\ y.job = x.job /\ y.sel = x.sel
      /\ y.tried = x.tried /\ y.skipped = x.skipped /\ y.blocked = x.blocked
      /\ y.status = x.status /\ y.log = x.log
  BY <1>1, PhaseType
<1> HIDE DEF y
<1>5. Fine(y)
  BY <1>1, <1>4 DEF Fine, Consistent, GaveUp
<1> QED BY <1>2, <1>3, <1>5, QuietHandles DEF Quiet

\* A stream begins.
LEMMA OpenStreamHandles ==
  ASSUME GatewayInv, NEW r \in Requests, OpenStream(r)
  PROVE  Handles(r)
<1> DEFINE x == req[r]
           y == [x EXCEPT !.pc = "streaming", !.status = 200]
<1>1. /\ x \in RequestState /\ Consistent(x) /\ db \in Database /\ x.pc = "sent"
  BY RequestFacts DEF OpenStream
<1>2. req' = [req EXCEPT ![r] = y] /\ UNCHANGED poolVars
  <2>1. req \in [Requests -> RequestState]
    BY DEF GatewayInv
  <2> QED BY <2>1 DEF OpenStream
<1>3. /\ "streaming" \in Running \cup {"idle", "done", "abandoned", "lost"}
      /\ 200 \in 100 .. 599 \cup {NoStatus}
  BY DEF Running
<1>4. y \in RequestState
  <2> HIDE DEF x
  <2>1. \A p \in Running \cup {"idle", "done", "abandoned", "lost"},
           status \in 100 .. 599 \cup {NoStatus} :
          [x EXCEPT !.pc = p, !.status = status] \in RequestState
    BY <1>1, FieldsType, Zenon
  <2> QED BY <1>3, <2>1
<1>5. /\ y.pc = "streaming" /\ y.job = x.job /\ y.sel = x.sel /\ y.idx = x.idx
      /\ y.tried = x.tried /\ y.skipped = x.skipped /\ y.blocked = x.blocked
      /\ y.status = 200 /\ y.log = x.log
  BY <1>1 DEF RequestState
<1> HIDE DEF y
<1>6. Fine(y)
  BY <1>1, <1>4, <1>5 DEF Fine, Consistent
<1> QED BY <1>1, <1>2, <1>6, QuietHandles DEF PoolStays, poolVars

\* A stream ends.
LEMMA EndStreamHandles ==
  ASSUME GatewayInv, NEW r \in Requests, NEW identified \in BOOLEAN,
         NEW error \in {None, "client_cancelled", "stream_error"},
         EndStream(r, error, identified)
  PROVE  Handles(r)
<1> DEFINE x == req[r]
           y == Answered(x, 200, error)
<1>1. /\ x \in RequestState /\ Consistent(x) /\ db \in Database /\ x.pc = "streaming"
  BY RequestFacts DEF EndStream
<1>2. req' = [req EXCEPT ![r] = y]
  <2>1. req \in [Requests -> RequestState]
    BY DEF GatewayInv
  <2> QED BY <2>1 DEF EndStream
<1>3. Quiet
  <2>1. PoolStays /\ (db' = UpsertRoute(db, ResponseOf[r], Trying(x)) \/ db' = db)
    BY DEF EndStream
  <2> QED BY <1>1, <2>1, TryingType, RouteWrites DEF Quiet
<1>4. Fine(y)
  <2>1. error \in LogErrors
    BY DEF LogErrors
  <2>2. 200 \in 100 .. 599
    OBVIOUS
  <2>3. /\ x.job \in Jobs /\ Len(x.sel) <= MaxAttempts
        /\ x.tried \subseteq DOMAIN x.sel /\ (x.skipped # {} => x.blocked # {})
    BY <1>1 DEF Consistent
  <2>4. 200 = 503 /\ x.error \notin {"validation_error", "model_not_found"}
          => x.tried \cup x.skipped = DOMAIN x.sel
    OBVIOUS
  <2>5. Fine(Answered(x, 200, error))
    <3> HIDE DEF x
    <3>1. x \in RequestState
      BY <1>1
    <3> QED BY <2>1, <2>2, <2>3, <2>4, <3>1, AnsweredFine
  <2> QED BY <2>5
<1> HIDE DEF y
<1> QED BY <1>2, <1>3, <1>4, QuietHandles DEF Quiet

\* A request that is given up, by its stream or by the process.
LEMMA GivenUpFine ==
  ASSUME NEW x \in RequestState, Consistent(x), x.pc # "idle"
  PROVE  Fine([x EXCEPT !.pc = "abandoned"]) /\ Fine([x EXCEPT !.pc = "lost"])
<1>1. ASSUME NEW p \in {"abandoned", "lost"} PROVE Fine([x EXCEPT !.pc = p])
  <2> DEFINE y == [x EXCEPT !.pc = p]
  <2>1. /\ y \in RequestState /\ y.pc = p /\ y.job = x.job /\ y.sel = x.sel
        /\ y.tried = x.tried /\ y.skipped = x.skipped /\ y.blocked = x.blocked
    BY PhaseType
  <2> HIDE DEF y
  <2>2. Consistent(y)
    BY <2>1 DEF Consistent
  <2> QED BY <2>1, <2>2 DEF Fine, y
<1> QED BY <1>1

\* A stream that nobody reads.
LEMMA DropStreamHandles ==
  ASSUME GatewayInv, NEW r \in Requests, DropStream(r)
  PROVE  Handles(r)
<1> DEFINE y == [req[r] EXCEPT !.pc = "abandoned"]
<1>1. /\ req[r] \in RequestState /\ Consistent(req[r]) /\ db \in Database
      /\ req[r].pc = "streaming"
  BY RequestFacts DEF DropStream
<1>2. req' = [req EXCEPT ![r] = y] /\ UNCHANGED poolVars
  <2>1. req \in [Requests -> RequestState]
    BY DEF GatewayInv
  <2> QED BY <2>1 DEF DropStream
<1>3. Fine(y)
  BY <1>1, GivenUpFine
<1> HIDE DEF y
<1> QED BY <1>1, <1>2, <1>3, QuietHandles DEF PoolStays, poolVars


\* Every handler of requests.
LEMMA RequestHandles ==
  ASSUME GatewayInv, NEW r \in Requests, RequestNext(r), IsFiniteSet(Names)
  PROVE  Handles(r)
<1>1. ASSUME NEW j \in Jobs, Arrive(r, j) PROVE Handles(r)
  BY <1>1, ArriveHandles
<1>2. ASSUME Proceed(r) PROVE Handles(r)
  <2>1. ASSUME NEW a \in FailedAnswers, Fail(r, a) PROVE Handles(r)
    BY <2>1, FailHandles
  <2>2. ASSUME NEW identified \in BOOLEAN, Succeed(r, identified) PROVE Handles(r)
    BY <2>2, SucceedHandles
  <2> QED BY <1>2, <2>1, <2>2, PreviousNotFoundHandles, NextAttemptHandles,
             FinishDeleteHandles, OpenStreamHandles DEF Proceed
<1>3. ASSUME NEW error \in {None, "client_cancelled", "stream_error"},
             NEW identified \in BOOLEAN, EndStream(r, error, identified)
      PROVE  Handles(r)
  BY <1>3, EndStreamHandles
<1>4. ASSUME DropStream(r) PROVE Handles(r)
  BY <1>4, DropStreamHandles
<1> QED BY <1>1, <1>2, <1>3, <1>4 DEF RequestNext

-----------------------------------------------------------------------------
(* The invariant of the gateway.                                           *)

\* A handler of requests keeps the invariant.
LEMMA HandlesInv ==
  ASSUME GatewayInv, NEW r \in Requests, Handles(r)
  PROVE  GatewayInv'
<1>1. PICK hit : Marks(db, db', hit, now + RateLimitCooldown)
  BY DEF Handles
<1>2. db' \in Database /\ Spares(db, db', hit)
  BY <1>1 DEF Marks
<1>3. PoolInv /\ UniqueSecrets(db) /\ PoolTypeOK
  BY DEF GatewayInv, PoolInv
<1>4. UniqueSecrets(db')
  BY <1>2, <1>3, SparedUnique
<1>5. PoolStays
  BY DEF Handles
<1>6. PoolInv'
  BY <1>2, <1>3, <1>4, <1>5
  DEF PoolInv, PoolTypeOK, PoolStays, UniqueSecrets, StoredNames
<1>7. PICK y : Fine(y) /\ req' = [req EXCEPT ![r] = y]
  BY DEF Handles
<1>8. req' \in [Requests -> {x \in RequestState : Consistent(x)}]
  BY <1>7 DEF GatewayInv, Fine
<1> QED BY <1>6, <1>8 DEF GatewayInv, Consistent, RequestState, GaveUp


\* A restart loses the requests that were running.
LEMMA RestartInv ==
  ASSUME GatewayInv, GatewayRestart
  PROVE  GatewayInv'
<1> DEFINE lost(r) == IF req[r].pc \in Running THEN [req[r] EXCEPT !.pc = "lost"]
                      ELSE req[r]
<1>1. PoolInv'
  BY StepInv DEF GatewayInv, GatewayRestart, PoolNext, ProcessNext
<1>2. ASSUME NEW r \in Requests PROVE Fine(lost(r))
  <2>1. Fine(req[r])
    BY RequestFacts DEF Fine
  <2>2. req[r].pc \in Running => Fine([req[r] EXCEPT !.pc = "lost"])
    BY <2>1, GivenUpFine DEF Fine, Running
  <2> QED BY <2>1, <2>2
<1>3. req' = [r \in Requests |-> lost(r)]
  BY DEF GatewayRestart
<1> HIDE DEF lost
<1>4. req' \in [Requests -> {x \in RequestState : Consistent(x)}]
  BY <1>2, <1>3 DEF Fine
<1> QED BY <1>1, <1>4 DEF GatewayInv, Consistent, RequestState, GaveUp

\* Administrators, the clock and the start-up leave requests alone.
LEMMA PoolStepIsPool == PoolStep => PoolNext /\ UNCHANGED req
BY DEF PoolStep, PoolNext, ProcessNext

\* A step that leaves requests alone.
LEMMA PoolInvStep ==
  ASSUME GatewayInv, [PoolNext]_poolVars, UNCHANGED req
  PROVE  GatewayInv'
<1>1. PoolInv'
  BY StepInv DEF GatewayInv
<1> QED BY <1>1 DEF GatewayInv, Consistent, RequestState, GaveUp

\* The gateway starts in order.
LEMMA GatewayInitInv == GatewayInit => GatewayInv
<1> SUFFICES ASSUME GatewayInit PROVE GatewayInv
  OBVIOUS
<1>1. PoolInv
  BY InitInv DEF GatewayInit
<1>2. Fine(Idle) /\ req = [r \in Requests |-> Idle]
  BY IdleFine DEF GatewayInit
<1>3. Idle \in {x \in RequestState : Consistent(x)}
  BY <1>2 DEF Fine
<1> HIDE DEF GatewayInit
<1> QED BY <1>1, <1>2, <1>3 DEF GatewayInv

\* The inductive step.
LEMMA GatewayStepInv ==
  ASSUME IsFiniteSet(Names)
  PROVE  GatewayInv /\ [GatewayNext]_vars => GatewayInv'
<1> SUFFICES ASSUME GatewayInv, [GatewayNext]_vars PROVE GatewayInv'
  OBVIOUS
<1>1. ASSUME NEW r \in Requests, RequestNext(r) PROVE GatewayInv'
  BY <1>1, RequestHandles, HandlesInv
<1>2. CASE PoolStep
  BY <1>2, PoolStepIsPool, PoolInvStep
<1>3. CASE GatewayRestart
  BY <1>3, RestartInv
<1>4. CASE UNCHANGED vars
  BY <1>4, PoolInvStep DEF vars
<1> QED BY <1>1, <1>2, <1>3, <1>4 DEF GatewayNext

\* GatewayInv is an invariant of the gateway.
LEMMA GatewayInvariant ==
  ASSUME IsFiniteSet(Names)
  PROVE  GatewaySpec => []GatewayInv
BY GatewayInitInv, GatewayStepInv, PTL DEF GatewaySpec

-----------------------------------------------------------------------------
(* The theorems.                                                           *)

\* The tables, the process and the requests stay well-formed: every answer
\* that reaches a client, and every log row, carries an HTTP status.
THEOREM GatewayTypeCorrect ==
  ASSUME IsFiniteSet(Names)
  PROVE  GatewaySpec => []GatewayTypeOK
<1>1. GatewayInv => GatewayTypeOK
  BY DEF GatewayInv, PoolInv, GatewayTypeOK
<1> QED BY <1>1, GatewayInvariant, PTL

\* A request that gave up with a 503 tried every candidate it was given, or
\* skipped it for an account that had failed it (proxy.py:167-291), for any
\* number of candidates and whatever the pool becomes meanwhile.
THEOREM RequestsExhaustCandidates ==
  ASSUME IsFiniteSet(Names)
  PROVE  GatewaySpec => []ExhaustsCandidates
<1>1. GatewayInv => ExhaustsCandidates
  <2> SUFFICES ASSUME GatewayInv, NEW r \in Requests, req[r].pc = "done",
                      req[r].status = 503,
                      req[r].error \notin {"validation_error", "model_not_found"}
               PROVE  /\ req[r].tried \cup req[r].skipped = DOMAIN req[r].sel
                      /\ req[r].skipped # {} => req[r].blocked # {}
    BY DEF ExhaustsCandidates
  <2>1. Consistent(req[r])
    BY RequestFacts
  <2> QED BY <2>1 DEF Consistent, GaveUp
<1> QED BY <1>1, GatewayInvariant, PTL

\* Failed requests never bring two rows to the same Fireworks key either.
THEOREM FingerprintsStayUniqueUnderLoad ==
  ASSUME IsFiniteSet(Names)
  PROVE  GatewaySpec => []FingerprintsUnique
<1>1. GatewayInv => FingerprintsUnique
  BY DEF GatewayInv, PoolInv, FingerprintsUnique
<1> QED BY <1>1, GatewayInvariant, PTL

\* A failed request changes rows of its key or of that key's account only, and
\* never enables, re-keys, stores or removes a key (failover.py), while
\* administrators rotate, rename and delete keys between its awaits.
THEOREM FailuresStayContained ==
  ASSUME IsFiniteSet(Names)
  PROVE  GatewaySpec => FailureContained
<1> DEFINE Contained ==
      /\ StoredNames(db)' = StoredNames(db)
      /\ \A n \in StoredNames(db) :
           /\ db'.keys[n].secret = db.keys[n].secret
           /\ db'.keys[n].enabled => db.keys[n].enabled
           /\ db'.keys[n] # db.keys[n] => Affected(n)
<1>1. GatewayInv /\ [GatewayNext]_vars => [RequestStep => Contained]_vars
  <2> SUFFICES ASSUME GatewayInv, GatewayNext, RequestStep PROVE Contained
    OBVIOUS
  <2>1. ASSUME NEW r \in Requests, RequestNext(r) PROVE Contained
    <3>1. PICK hit : /\ \A n \in hit : Affected(n)
                     /\ Marks(db, db', hit, now + RateLimitCooldown)
      BY <2>1, RequestHandles DEF Handles
    <3>2. StoredNames(db)' = StoredNames(db')
      BY DEF StoredNames
    <3> QED BY <3>1, <3>2 DEF Marks, Spares
  <2>2. ~PoolStep
    BY DEF PoolStep, RequestStep
  <2>3. ~GatewayRestart
    <3>1. restarts \in Nat
      BY KeyPoolAssumption DEF GatewayInv, PoolInv, PoolTypeOK
    <3> QED BY <3>1 DEF GatewayRestart, Restart, RequestStep
  <2> QED BY <2>1, <2>2, <2>3 DEF GatewayNext
<1> QED BY <1>1, GatewayInvariant, PTL DEF GatewaySpec, FailureContained


-----------------------------------------------------------------------------
(* Accounts that failed.                                                   *)

\* What a handler newly tries is of no account its request blocked.
Spared(r) ==
  \A i \in req'[r].tried \ req[r].tried :
    AccountOf(db, req'[r].sel[i].secret) \notin req[r].blocked

\* Only two handlers try a candidate.
LEMMA NewlyTried ==
  ASSUME GatewayInv, NEW r \in Requests, RequestNext(r), IsFiniteSet(Names)
  PROVE  Spared(r)
<1> DEFINE x == req[r]
<1>1. x \in RequestState /\ Consistent(x) /\ req \in [Requests -> RequestState]
  BY RequestFacts DEF GatewayInv
<1>2. req'[r].tried \subseteq x.tried => Spared(r)
  BY DEF Spared
<1>3. ASSUME NEW j \in Jobs, Arrive(r, j) PROVE Spared(r)
  <2>1. x.blocked = {}
    BY <1>1, <1>3 DEF Arrive, Consistent, Idle
  <2> QED BY <2>1 DEF Spared
<1>4. ASSUME PreviousNotFound(r) PROVE Spared(r)
  <2>1. req'[r].tried = x.tried
    BY <1>1, <1>4 DEF PreviousNotFound, RequestState
  <2> QED BY <1>2, <2>1
<1>5. ASSUME NEW a \in FailedAnswers, Fail(r, a) PROVE Spared(r)
  <2>1. req'[r].tried = x.tried
    BY <1>1, <1>5 DEF Fail, Answered, RequestState
  <2> QED BY <1>2, <2>1
<1>6. ASSUME NextAttempt(r) PROVE Spared(r)
  <2> DEFINE left == {i \in Rest(x) : Usable(x, i)}
             i == CHOOSE m \in left : \A j \in left : m <= j
             skip(past) == [x EXCEPT !.skipped = x.skipped \cup past]
  <2>1. req'[r] = IF left = {} THEN Answered(skip(Rest(x)), 503, x.error)
                  ELSE Send(skip(x.idx + 1 .. i - 1), i)
    BY <1>1, <1>6 DEF NextAttempt
  <2>2. CASE left = {}
    <3>1. req'[r].tried = x.tried
      BY <1>1, <2>1, <2>2 DEF Answered, RequestState
    <3> QED BY <1>2, <3>1
  <2>3. CASE left # {}
    <3>1. i \in left
      <4>1. left \subseteq Nat
        BY <1>1 DEF Rest, RequestState
      <4>2. \E m \in left : \A j \in left : m <= j
        <5> HIDE DEF left
        <5> QED BY <2>3, <4>1, LeastNumber
      <4> QED BY <4>2
    <3>2. AccountOf(db, x.sel[i].secret) \notin x.blocked
      BY <3>1 DEF Usable
    <3> HIDE DEF i
    <3>3. req'[r].tried = x.tried \cup {i} /\ req'[r].sel = x.sel
      <4> DEFINE z == skip(x.idx + 1 .. i - 1)
      <4>1. z.tried = x.tried /\ z.sel = x.sel /\ DOMAIN z = DOMAIN x
        BY <1>1 DEF RequestState
      <4>2. req'[r] = Send(z, i)
        BY <2>1, <2>3 DEF i
      <4>3. {"tried", "sel"} \subseteq DOMAIN z
        BY <1>1, <4>1 DEF RequestState
      <4> HIDE DEF z
      <4> QED BY <4>1, <4>2, <4>3 DEF Send
    <3> QED BY <3>2, <3>3 DEF Spared
  <2> QED BY <2>2, <2>3
<1>7. ASSUME NEW identified \in BOOLEAN, Succeed(r, identified) PROVE Spared(r)
  <2>1. req'[r].tried = x.tried
    BY <1>1, <1>7 DEF Succeed, Answered, RequestState
  <2> QED BY <1>2, <2>1
<1>8. ASSUME FinishDelete(r) \/ OpenStream(r) \/ DropStream(r) PROVE Spared(r)
  <2>1. req'[r].tried = x.tried
    BY <1>1, <1>8 DEF FinishDelete, OpenStream, DropStream, RequestState
  <2> QED BY <1>2, <2>1
<1>9. ASSUME NEW error \in {None, "client_cancelled", "stream_error"},
             NEW identified \in BOOLEAN, EndStream(r, error, identified)
      PROVE  Spared(r)
  <2>1. req'[r].tried = x.tried
    BY <1>1, <1>9 DEF EndStream, Answered, RequestState
  <2> QED BY <1>2, <2>1
<1>10. ASSUME Proceed(r) PROVE Spared(r)
  BY <1>4, <1>5, <1>6, <1>7, <1>8, <1>10 DEF Proceed
<1> QED BY <1>3, <1>8, <1>9, <1>10 DEF RequestNext

\* An account that failed a request as a whole is not asked again by that
\* request, although its snapshots may learn the account only later
\* (blocked_account_ids, proxy.py).
THEOREM NoAccountFailsARequestTwice ==
  ASSUME IsFiniteSet(Names)
  PROVE  GatewaySpec => NoSecondStrike
<1>1. GatewayInv /\ [GatewayNext]_vars =>
        [\A r \in Requests : \A i \in req'[r].tried \ req[r].tried :
           AccountOf(db, req'[r].sel[i].secret) \notin req[r].blocked]_vars
  <2> SUFFICES ASSUME GatewayInv, GatewayNext, NEW r \in Requests
               PROVE  Spared(r)
    BY DEF Spared
  <2>1. req'[r].tried = req[r].tried => Spared(r)
    BY DEF Spared
  <2>2. ASSUME NEW q \in Requests, RequestNext(q) PROVE Spared(r)
    <3>1. CASE q = r
      BY <2>2, <3>1, NewlyTried
    <3>2. CASE q # r
      <4>1. \E y : req' = [req EXCEPT ![q] = y]
        BY <2>2, RequestHandles DEF Handles
      <4>2. req'[r] = req[r]
        BY <3>2, <4>1 DEF GatewayInv
      <4> QED BY <2>1, <4>2
    <3> QED BY <3>1, <3>2
  <2>3. PoolStep => req' = req
    BY DEF PoolStep
  <2>4. CASE GatewayRestart
    <3>1. req[r] \in RequestState
      BY RequestFacts
    <3>2. req'[r].tried = req[r].tried
      BY <2>4, <3>1 DEF GatewayRestart, RequestState
    <3> QED BY <2>1, <3>2
  <2> QED BY <2>1, <2>2, <2>3, <2>4 DEF GatewayNext
<1> QED BY <1>1, GatewayInvariant, PTL DEF GatewaySpec, NoSecondStrike


\* The writes of administrators and of the start-up leave account cooldowns
\* alone.
LEMMA KeyWritesCooldowns ==
  ASSUME NEW d \in Database, NEW n, NEW m, NEW s, NEW e, NEW reason, NEW error
  PROVE  /\ UpsertKey(d, n, s, e).cooldowns = d.cooldowns
         /\ SetKeyEnabled(d, n, e, reason, error).cooldowns = d.cooldowns
         /\ ClearKeyCooldown(d, n).cooldowns = d.cooldowns
         /\ DeleteKey(d, n).cooldowns = d.cooldowns
         /\ UpdateKeyIdentity(d, n, m, s).cooldowns = d.cooldowns
         /\ UpsertKeySnapshot(d, s, e).cooldowns = d.cooldowns
<1>1. ASSUME NEW row PROVE WithRow(d, n, row).cooldowns = d.cooldowns
  BY DEF WithRow, Database
<1>2. ASSUME NEW row, NEW t PROVE ForgetSecret(WithRow(d, n, row), t).cooldowns = d.cooldowns
  BY DEF ForgetSecret, WithRow, Database
<1>3. UpsertKey(d, n, s, e).cooldowns = d.cooldowns
  BY <1>1, <1>2 DEF UpsertKey
<1>4. SetKeyEnabled(d, n, e, reason, error).cooldowns = d.cooldowns
  BY <1>1 DEF SetKeyEnabled
<1>5. ClearKeyCooldown(d, n).cooldowns = d.cooldowns
  BY <1>1 DEF ClearKeyCooldown
<1>6. DeleteKey(d, n).cooldowns = d.cooldowns
  BY <1>2 DEF DeleteKey
<1>7. UpdateKeyIdentity(d, n, m, s).cooldowns = d.cooldowns
  BY DEF UpdateKeyIdentity, ForgetSecret, Database
<1>8. UpsertKeySnapshot(d, s, e).cooldowns = d.cooldowns
  BY DEF UpsertKeySnapshot, Database
<1> QED BY <1>3, <1>4, <1>5, <1>6, <1>7, <1>8

\* Nor does the clock go back.
LEMMA PoolCooldowns ==
  ASSUME PoolInv, [PoolNext]_poolVars
  PROVE  db'.cooldowns = db.cooldowns /\ now' \in Nat /\ now' >= now
<1> DEFINE Same == db'.cooldowns = db.cooldowns
<1>1. db \in Database /\ now \in Nat
  BY DEF PoolInv, PoolTypeOK
<1>2. now' \in Nat /\ now' >= now
  <2>1. ASSUME NEW d \in TickSizes, Tick(d) PROVE now' >= now /\ now' \in Nat
    BY <1>1, <2>1, KeyPoolAssumption DEF Tick
  <2>2. AdminNext => now' = now
    BY DEF AdminNext, StartCreate, StartBulkCreate, FinishCreate, CreateUnchecked,
           PatchKey, EnableKey, DisableKey, ClearCooldown, RemoveKey, AdminCall
  <2>3. BootKey \/ BootDone \/ Restart \/ UNCHANGED poolVars => now' = now
    BY DEF BootKey, BootDone, Restart, poolVars
  <2> QED BY <1>1, <2>1, <2>2, <2>3 DEF PoolNext, ProcessNext
<1>3. ASSUME NEW c \in adding, NEW valid, NEW snapshot, FinishCreate(c, valid, snapshot)
      PROVE  Same
  <2>1. CASE db' = db
    BY <2>1
  <2>2. CASE db' # db
    <3>1. PICK n \in Names : \E stored :
            /\ stored = UpsertKey(db, n, c.secret, c.enabled /\ valid)
            /\ SecretFree(db, n, c.secret)
            /\ \/ db' = UpsertKeySnapshot(stored, c.secret, snapshot)
               \/ db' = stored
      <4>1. c \in Addition
        BY DEF PoolInv, PoolTypeOK
      <4>2. \A n \in (IF c.name # None THEN {c.name} ELSE Names \ StoredNames(db)) : n \in Names
        BY <4>1 DEF Addition
      <4> QED BY <1>3, <2>2, <4>2 DEF FinishCreate
    <3>2. PICK stored : /\ stored = UpsertKey(db, n, c.secret, c.enabled /\ valid)
                        /\ \/ db' = UpsertKeySnapshot(stored, c.secret, snapshot)
                           \/ db' = stored
      BY <3>1
    <3>3. stored.cooldowns = db.cooldowns
      BY <1>1, <3>2, KeyWritesCooldowns
    <3>4. UpsertKeySnapshot(stored, c.secret, snapshot).cooldowns = stored.cooldowns
      <4>1. {"cooldowns"} \subseteq DOMAIN stored
        BY <1>1, <3>2 DEF UpsertKey, ForgetSecret, WithRow, Database
      <4> QED BY <4>1 DEF UpsertKeySnapshot
    <3> QED BY <3>2, <3>3, <3>4
  <2> QED BY <2>1, <2>2
<1>4. ASSUME NEW n \in Names, NEW m \in Names, NEW s \in Secrets,
             NEW e \in BOOLEAN \cup {None}, PatchKey(n, m, s, e)
      PROVE  Same
  <2> DEFINE moved == UpdateKeyIdentity(db, n, m, s)
  <2>1. /\ n \in StoredNames(db)
        /\ db' = IF e = None THEN moved
                 ELSE SetKeyEnabled(moved, m, e, "admin_disabled", None)
    BY <1>4 DEF PatchKey
  <2>2. moved \in Database /\ moved.cooldowns = db.cooldowns
    BY <1>1, <2>1, UpdateKeyIdentityType, KeyWritesCooldowns
  <2> HIDE DEF moved
  <2>3. SetKeyEnabled(moved, m, e, "admin_disabled", None).cooldowns = moved.cooldowns
    BY <2>2, KeyWritesCooldowns
  <2> QED BY <2>1, <2>2, <2>3
<1>5. AdminNext => Same
  <2>1. ASSUME NEW n \in Names, NEW s \in Secrets, NEW e \in BOOLEAN,
               StartCreate(n, s, e) \/ StartBulkCreate(s, e) \/ CreateUnchecked(n, s, e)
        PROVE  Same
    BY <1>1, <2>1, KeyWritesCooldowns DEF StartCreate, StartBulkCreate, CreateUnchecked
  <2>2. ASSUME NEW s \in Secrets, NEW e \in BOOLEAN, StartBulkCreate(s, e)
        PROVE  Same
    BY <2>2 DEF StartBulkCreate
  <2>3. ASSUME NEW n \in Names,
               EnableKey(n) \/ DisableKey(n) \/ ClearCooldown(n) \/ RemoveKey(n)
        PROVE  Same
    <3>1. \/ \E e, reason, error : db' = SetKeyEnabled(db, n, e, reason, error)
          \/ db' = ClearKeyCooldown(db, n)
          \/ db' = DeleteKey(db, n)
      BY <2>3, Zenon DEF EnableKey, DisableKey, ClearCooldown, RemoveKey
    <3> QED BY <1>1, <3>1, KeyWritesCooldowns
  <2> HIDE DEF Same
  <2> QED BY <1>3, <1>4, <2>1, <2>2, <2>3 DEF AdminNext
<1>6. BootKey \/ BootDone \/ Restart \/ UNCHANGED poolVars => Same
  <2>1. BootKey => db' = db \/ \E n, s : db' = UpsertKey(db, n, s, TRUE)
    BY Zenon DEF BootKey
  <2>2. BootDone \/ Restart \/ UNCHANGED poolVars => db' = db
    BY DEF BootDone, Restart, poolVars
  <2>3. \A n, s : UpsertKey(db, n, s, TRUE).cooldowns = db.cooldowns
    BY <1>1 DEF UpsertKey, ForgetSecret, WithRow, Database
  <2>4. BootKey => Same
    BY <2>1, <2>3, Zenon
  <2> QED BY <2>2, <2>4
<1>7. ASSUME NEW d \in TickSizes, Tick(d) PROVE Same
  BY <1>7 DEF Tick
<1> HIDE DEF Same
<1>8. Same
  BY <1>5, <1>6, <1>7 DEF PoolNext, ProcessNext
<1> QED BY <1>2, <1>8 DEF Same

\* No account cools down for longer than RateLimitCooldown from now.
CooldownsBounded == \A b \in Accounts : db.cooldowns[b] <= now + RateLimitCooldown

\* What an earlier process left on disk was bounded by the time of the start.
CooldownsRecent ==
  \A d \in InitialDatabases : \A b \in Accounts : d.cooldowns[b] <= RateLimitCooldown

\* The only cooldown a handler sets is the longest one possible.
LEMMA CooldownStep ==
  ASSUME GatewayInv, CooldownsBounded, [GatewayNext]_vars, IsFiniteSet(Names)
  PROVE  /\ CooldownsBounded'
         /\ \A b \in Accounts : db'.cooldowns[b] >= db.cooldowns[b]
<1> DEFINE u == now + RateLimitCooldown
<1>1. db \in Database /\ now \in Nat /\ u \in Nat
  BY DEF GatewayInv, PoolInv, PoolTypeOK, RateLimitCooldown
<1>2. \A b \in Accounts : db.cooldowns[b] \in Nat /\ db.cooldowns[b] <= u
  BY <1>1, DatabaseFields DEF CooldownsBounded
<1>3. ASSUME NEW r \in Requests, RequestNext(r)
      PROVE  now' = now /\ \A b \in Accounts : db'.cooldowns[b] \in {db.cooldowns[b], u}
  BY <1>3, RequestHandles DEF Handles, Marks, PoolStays
<1>4. [PoolNext]_poolVars =>
        db'.cooldowns = db.cooldowns /\ now' \in Nat /\ now' >= now
  BY PoolCooldowns DEF GatewayInv
<1>5. PoolStep \/ GatewayRestart \/ UNCHANGED vars => [PoolNext]_poolVars
  BY PoolStepIsPool DEF GatewayRestart, PoolNext, ProcessNext, vars
<1>6. /\ now' \in Nat /\ now' >= now
      /\ \A b \in Accounts : db'.cooldowns[b] \in {db.cooldowns[b], u}
  BY <1>1, <1>3, <1>4, <1>5 DEF GatewayNext
<1>7. \A b \in Accounts : db'.cooldowns[b] >= db.cooldowns[b]
                         /\ db'.cooldowns[b] <= now' + RateLimitCooldown
  BY <1>1, <1>2, <1>6 DEF RateLimitCooldown
<1> QED BY <1>7 DEF CooldownsBounded

\* While requests overlap, a late failure never cuts the cooldown of an account
\* that an earlier one set (set_account_cooldown of repository.py overwrites).
THEOREM LateFailuresKeepCooldowns ==
  ASSUME IsFiniteSet(Names), CooldownsRecent
  PROVE  GatewaySpec => AccountCooldownGrows
<1>1. GatewayInit => CooldownsBounded
  BY DEF GatewayInit, PoolInit, CooldownsRecent, CooldownsBounded, RateLimitCooldown
<1>2. GatewayInv /\ CooldownsBounded /\ [GatewayNext]_vars => CooldownsBounded'
  BY CooldownStep
<1>3. GatewayInv /\ CooldownsBounded /\ [GatewayNext]_vars =>
        [\A a \in Accounts : db'.cooldowns[a] >= db.cooldowns[a]]_vars
  BY CooldownStep
<1> QED BY <1>1, <1>2, <1>3, GatewayInvariant, PTL DEF GatewaySpec, AccountCooldownGrows


-----------------------------------------------------------------------------
(* The refinement of the contract.                                         *)

\* The contract's view of a request's log.
Rows(x) == [i \in DOMAIN x.log |-> x.log[i].status]

Statuses == {200, 503} \cup {a.status : a \in {b \in FailedAnswers : b.exc = "none"}}

\* What the contract sees of a request that goes from x to y: a key is tried, it
\* is answered, its stream begins, ends or is given up, or nothing.
Tries(x, y) ==
  /\ Stage(x) \in {"idle", "working"} /\ Stage(y) = "working"
  /\ Cardinality(x.tried) < MaxAttempts
  /\ Cardinality(y.tried) = Cardinality(x.tried) + 1
  /\ y.status = x.status /\ y.log = x.log

Replies(x, y) ==
  /\ Stage(x) = "working" \/ (Stage(x) = "idle" /\ y.status = 503)
  /\ Stage(y) = "settled"
  /\ y.status \in Statuses /\ y.tried = x.tried
  /\ Rows(y) = Append(Rows(x), y.status)

Starts(x, y) ==
  /\ Stage(x) = "working" /\ Stage(y) = "streaming"
  /\ y.status = 200 /\ y.tried = x.tried /\ y.log = x.log

Finishes(x, y) ==
  /\ Stage(x) = "streaming" /\ Stage(y) = "settled"
  /\ y.status = x.status /\ y.tried = x.tried
  /\ Rows(y) = Append(Rows(x), x.status)

Loses(x, y) ==
  /\ Stage(x) \in {"working", "streaming"} /\ Stage(y) = "lost"
  /\ y.status = x.status /\ y.tried = x.tried /\ y.log = x.log

Stays(x, y) ==
  Stage(y) = Stage(x) /\ y.status = x.status /\ y.tried = x.tried /\ y.log = x.log

Moves(x, y) ==
  \/ Tries(x, y) \/ Replies(x, y) \/ Starts(x, y) \/ Finishes(x, y)
  \/ Loses(x, y) \/ Stays(x, y)

\* A move of one request is a step of the contract, or none.
LEMMA MoveMaps ==
  ASSUME NEW r \in Requests, NEW y, req' = [req EXCEPT ![r] = y],
         req \in [Requests -> RequestState], Moves(req[r], y)
  PROVE  [Contract!ContractNext]_(Contract!contractVars)
<1> DEFINE x == req[r]
           stage == [q \in Requests |-> Stage(req[q])]
           tries == [q \in Requests |-> Cardinality(req[q].tried)]
           answer == [q \in Requests |-> req[q].status]
           rows == [q \in Requests |-> Rows(req[q])]
<1>1. /\ stage' = [stage EXCEPT ![r] = Stage(y)]
      /\ tries' = [tries EXCEPT ![r] = Cardinality(y.tried)]
      /\ answer' = [answer EXCEPT ![r] = y.status]
      /\ rows' = [rows EXCEPT ![r] = Rows(y)]
  OBVIOUS
<1>2. /\ stage[r] = Stage(x) /\ tries[r] = Cardinality(x.tried)
      /\ answer[r] = x.status /\ rows[r] = Rows(x)
  OBVIOUS
<1>3. /\ stage \in [Requests -> {Stage(req[q]) : q \in Requests}]
      /\ DOMAIN tries = Requests /\ DOMAIN answer = Requests /\ DOMAIN rows = Requests
  OBVIOUS
<1>4. Contract!contractVars = <<stage, tries, answer, rows>>
  BY DEF Contract!contractVars, Rows
<1>5. CASE Tries(x, y)
  <2>1. answer' = answer /\ rows' = rows
    BY <1>1, <1>2, <1>3, <1>5 DEF Tries, Rows
  <2>2. Contract!Try(r)
    BY <1>1, <1>2, <1>5, <2>1 DEF Tries, Contract!Try, Rows
  <2> QED BY <2>2 DEF Contract!ContractNext
<1>6. CASE Replies(x, y)
  <2>1. UNCHANGED tries
    BY <1>1, <1>2, <1>3, <1>6 DEF Replies
  <2>2. rows' = [rows EXCEPT ![r] = Append(@, y.status)]
    BY <1>1, <1>2, <1>6 DEF Replies
  <2>3. Contract!Reply(r, y.status)
    BY <1>1, <1>2, <1>6, <2>1, <2>2 DEF Replies, Contract!Reply, Rows
  <2>4. y.status \in Statuses
    BY <1>6 DEF Replies
  <2> QED BY <2>3, <2>4 DEF Contract!ContractNext, Statuses
<1>7. CASE Starts(x, y)
  <2>1. UNCHANGED <<tries, rows>>
    BY <1>1, <1>2, <1>3, <1>7 DEF Starts, Rows
  <2>2. Contract!StartStream(r)
    BY <1>1, <1>2, <1>7, <2>1 DEF Starts, Contract!StartStream, Rows
  <2> QED BY <2>2 DEF Contract!ContractNext
<1>8. CASE Finishes(x, y)
  <2>1. UNCHANGED <<tries, answer>>
    BY <1>1, <1>2, <1>3, <1>8 DEF Finishes
  <2>2. rows' = [rows EXCEPT ![r] = Append(@, answer[r])]
    BY <1>1, <1>2, <1>8 DEF Finishes
  <2>3. Contract!FinishStream(r)
    BY <1>1, <1>2, <1>8, <2>1, <2>2 DEF Finishes, Contract!FinishStream, Rows
  <2> QED BY <2>3 DEF Contract!ContractNext
<1>9. CASE Loses(x, y)
  <2>1. UNCHANGED <<tries, answer, rows>>
    BY <1>1, <1>2, <1>3, <1>9 DEF Loses, Rows
  <2>2. stage' = [q \in Requests |-> IF q \in {r} THEN "lost" ELSE stage[q]]
    BY <1>1, <1>9 DEF Loses
  <2>3. Contract!Lose({r})
    BY <1>2, <1>9, <2>1, <2>2 DEF Loses, Contract!Lose, Rows
  <2> QED BY <2>3 DEF Contract!ContractNext
<1>10. CASE Stays(x, y)
  <2>1. UNCHANGED <<stage, tries, answer, rows>>
    BY <1>1, <1>2, <1>3, <1>10 DEF Stays, Rows
  <2>2. UNCHANGED Contract!contractVars
    BY <2>1 DEF Contract!contractVars, Rows
  <2> QED BY <2>2
<1> QED BY <1>5, <1>6, <1>7, <1>8, <1>9, <1>10 DEF Moves

\* A function on an initial segment of the numbers is a sequence.
LEMMA FunctionSeq ==
  ASSUME NEW S, NEW n \in Nat, NEW f \in [1 .. n -> S]
  PROVE  f \in Seq(S) /\ Len(f) = n
OBVIOUS

\* The contract's view of a log.
LEMMA RowsType ==
  ASSUME NEW x, x.log \in Seq(LogRow)
  PROVE  /\ Rows(x) \in Seq(100 .. 599) /\ Len(Rows(x)) = Len(x.log)
         /\ \A i \in 1 .. Len(x.log) : Rows(x)[i] = x.log[i].status
<1> DEFINE n == Len(x.log)
           rows == [i \in 1 .. n |-> x.log[i].status]
<1>1. n \in Nat /\ DOMAIN x.log = 1 .. n
  BY LenProperties
<1>2. ASSUME NEW i \in 1 .. n PROVE x.log[i].status \in 100 .. 599
  <2>1. x.log[i] \in LogRow
    BY ElementOfSeq
  <2> QED BY <2>1 DEF LogRow
<1>3. Rows(x) = rows
  BY <1>1 DEF Rows
<1> HIDE DEF n
<1>4. rows \in [1 .. n -> 100 .. 599] /\ \A i \in 1 .. n : rows[i] = x.log[i].status
  BY <1>2
<1> HIDE DEF rows
<1>5. rows \in Seq(100 .. 599) /\ Len(rows) = n
  BY <1>1, <1>4, FunctionSeq
<1> QED BY <1>3, <1>4, <1>5 DEF n

\* The row that an answer appends.
LEMMA RowsAppend ==
  ASSUME NEW x \in RequestState, NEW status \in 100 .. 599, NEW error \in LogErrors
  PROVE  /\ Rows(Answered(x, status, error)) = Append(Rows(x), status)
         /\ Answered(x, status, error).tried = x.tried
         /\ Answered(x, status, error).status = status
         /\ Answered(x, status, error).pc = "done"
         /\ Answered(x, status, error).log # <<>>
<1> DEFINE row == [status |-> status, error |-> error]
           y == Answered(x, status, error)
<1>1. row \in LogRow /\ row.status = status /\ x.log \in Seq(LogRow)
  BY DEF LogRow, RequestState
<1>2. y.log = Append(x.log, row) /\ y.tried = x.tried /\ y.status = status /\ y.pc = "done"
  BY DEF Answered, Log, RequestState
<1> HIDE DEF row, y
<1>3. y.log \in Seq(LogRow) /\ Len(y.log) = Len(x.log) + 1
      /\ y.log[Len(x.log) + 1] = row
      /\ \A i \in 1 .. Len(x.log) : y.log[i] = x.log[i]
  BY <1>1, <1>2, AppendProperties
<1>4. /\ Rows(x) \in Seq(100 .. 599) /\ Len(Rows(x)) = Len(x.log)
      /\ \A i \in 1 .. Len(x.log) : Rows(x)[i] = x.log[i].status
      /\ Len(x.log) \in Nat
  BY <1>1, RowsType
<1>5. /\ Rows(y) \in Seq(100 .. 599) /\ Len(Rows(y)) = Len(x.log) + 1
      /\ \A i \in 1 .. Len(x.log) + 1 : Rows(y)[i] = y.log[i].status
  BY <1>3, RowsType
<1>6. Rows(y) = Append(Rows(x), status)
  <2> DEFINE t == Append(Rows(x), status)
  <2>1. /\ t \in Seq(100 .. 599) /\ Len(t) = Len(x.log) + 1
        /\ t[Len(x.log) + 1] = status
        /\ \A i \in 1 .. Len(x.log) : t[i] = Rows(x)[i]
    BY <1>4, AppendProperties
  <2> HIDE DEF t
  <2>2. \A i \in 1 .. Len(x.log) + 1 : Rows(y)[i] = t[i]
    BY <1>1, <1>3, <1>4, <1>5, <2>1
  <2>3. Rows(y) = t
    BY <1>5, <2>1, <2>2, SeqEqual
  <2> QED BY <2>3 DEF t
<1>7. y.log # <<>>
  BY <1>1, <1>2
<1> QED BY <1>2, <1>6, <1>7 DEF y

\* The stages of a request, whose log is empty until it is settled.
LEMMA Stages ==
  ASSUME NEW x, x.pc \in {"idle", "sent", "closing", "streaming"} => x.log = <<>>
  PROVE  /\ x.pc = "idle" => Stage(x) = "idle"
         /\ x.pc \in {"sent", "closing"} => Stage(x) = "working"
         /\ x.pc = "streaming" => Stage(x) = "streaming"
         /\ x.pc \in {"deleting", "done"} /\ x.log # <<>> => Stage(x) = "settled"
         /\ x.pc \in {"abandoned", "lost"} /\ x.log # <<>> => Stage(x) = "settled"
         /\ x.pc \in {"abandoned", "lost"} /\ x.log = <<>> => Stage(x) = "lost"
<1>1. x.pc = "idle" => Stage(x) = "idle"
  BY DEF Stage
<1>2. x.pc = "sent" => Stage(x) = "working"
  BY DEF Stage
<1>3. x.pc = "closing" => Stage(x) = "working"
  BY DEF Stage
<1>4. x.pc = "streaming" => Stage(x) = "streaming"
  BY DEF Stage
<1>5. x.pc \in {"deleting", "done", "abandoned", "lost"} =>
        Stage(x) = IF x.log # <<>> THEN "settled" ELSE "lost"
  BY DEF Stage
<1> QED BY <1>1, <1>2, <1>3, <1>4, <1>5

\* An answer of a request that was sent, or that has no candidate.
LEMMA AnswerMoves ==
  ASSUME NEW x \in RequestState, NEW z \in RequestState,
         z.tried = x.tried, z.log = x.log, x.log = <<>>,
         NEW status \in 100 .. 599, NEW error \in LogErrors, status \in Statuses,
         x.pc \in {"sent", "closing"} \/ (x.pc = "idle" /\ status = 503)
  PROVE  Moves(x, Answered(z, status, error))
<1>1. Rows(x) = Rows(z)
  BY DEF Rows
<1> DEFINE y == Answered(z, status, error)
<1>2. /\ Rows(y) = Append(Rows(z), status) /\ y.tried = z.tried
      /\ y.status = status /\ y.pc = "done" /\ y.log # <<>>
  <2>0. z \in RequestState /\ status \in 100 .. 599 /\ error \in LogErrors
    OBVIOUS
  <2> HIDE DEF y
  <2>1. /\ Rows(Answered(z, status, error)) = Append(Rows(z), status)
        /\ Answered(z, status, error).tried = z.tried
        /\ Answered(z, status, error).status = status
        /\ Answered(z, status, error).pc = "done"
        /\ Answered(z, status, error).log # <<>>
    BY ONLY <2>0, RowsAppend, Zenon
  <2> QED BY <2>1 DEF y
<1> HIDE DEF y
<1>3. Stage(y) = "settled"
  BY <1>2, Stages
<1>4. Stage(x) = "working" \/ (Stage(x) = "idle" /\ y.status = 503)
  BY <1>2, Stages
<1>5. Replies(x, y)
  BY <1>1, <1>2, <1>3, <1>4, ZenonT(60) DEF Replies
<1> QED BY <1>5 DEF Moves, y

\* Sending to candidate i after trying a part of the candidates before it.
LEMMA SendMoves ==
  ASSUME NEW x \in RequestState, NEW z \in RequestState, NEW i \in 1 .. MaxAttempts,
         z.tried = x.tried, z.status = x.status, z.log = x.log, x.log = <<>>,
         x.pc \in {"idle", "closing"}, x.tried \subseteq 1 .. i - 1
  PROVE  Moves(x, Send(z, i))
<1> DEFINE y == Send(z, i)
<1>1. i \in Nat /\ i > 0 /\ MaxAttempts \in Nat /\ i <= MaxAttempts /\ i - 1 \in Nat
  BY KeyPoolAssumption
<1>2. /\ y.pc = "sent" /\ y.tried = x.tried \cup {i} /\ y.status = x.status
      /\ y.log = x.log
  BY DEF Send, RequestState
<1> HIDE DEF y
<1>3. IsFiniteSet(1 .. i - 1) /\ Cardinality(1 .. i - 1) = i - 1
  <2> DEFINE m == i - 1
  <2>1. m \in Nat
    BY <1>1
  <2> HIDE DEF m
  <2>2. IsFiniteSet(1 .. m) /\ Cardinality(1 .. m) = IF 1 > m THEN 0 ELSE m - 1 + 1
    BY <2>1, FS_Interval
  <2>3. (IF 1 > m THEN 0 ELSE m - 1 + 1) = m
    BY <2>1
  <2> QED BY <2>2, <2>3 DEF m
<1>4. IsFiniteSet(x.tried) /\ Cardinality(x.tried) <= i - 1
      /\ Cardinality(x.tried) \in Nat
  BY <1>3, FS_Subset, FS_CardinalityType
<1>5. i \notin x.tried
  BY <1>1
<1>6. Cardinality(y.tried) = Cardinality(x.tried) + 1
  BY <1>2, <1>4, <1>5, FS_AddElement
<1>7. Cardinality(x.tried) < MaxAttempts
  BY <1>1, <1>4
<1>8. Stage(x) \in {"idle", "working"} /\ Stage(y) = "working"
  BY <1>2, Stages
<1>9. Tries(x, y)
  BY <1>2, <1>6, <1>7, <1>8, Zenon DEF Tries
<1> QED BY <1>9 DEF Moves, y


\* The handler of request r makes a move of the contract.
MovesOn(r) == \E y : req' = [req EXCEPT ![r] = y] /\ Moves(req[r], y)

\* A new request tries its first candidate, or none is left.
LEMMA ArriveMoves ==
  ASSUME GatewayInv, NEW r \in Requests, NEW j \in Jobs, Arrive(r, j),
         IsFiniteSet(Names)
  PROVE  MovesOn(r)
<1> DEFINE sel == Candidates(j)
           x == req[r]
           z == [x EXCEPT !.job = j, !.sel = sel]
           y == IF z.sel = <<>> THEN Answered(z, 503, "no_healthy_keys")
                ELSE Send(z, 1)
<1>1. x = Idle /\ x \in RequestState
  BY RequestFacts DEF Arrive, Consistent
<1>2. req' = [req EXCEPT ![r] = y]
  BY DEF Arrive
<1>3. sel \in Seq(Candidate)
  BY CandidatesType
<1> HIDE DEF sel
<1>4. /\ z \in RequestState /\ z.tried = x.tried /\ z.status = x.status
      /\ z.log = x.log /\ x.log = <<>> /\ x.pc = "idle" /\ x.tried = {}
  <2>1. x.log = <<>> /\ x.pc = "idle" /\ x.tried = {}
    BY <1>1 DEF Idle
  <2>2. z.tried = x.tried /\ z.status = x.status /\ z.log = x.log
    BY <1>1 DEF RequestState
  <2>3. z \in RequestState
    BY <1>1, <1>3, ChosenType
  <2> QED BY <2>1, <2>2, <2>3
<1> HIDE DEF x, z
<1>5. 503 \in 100 .. 599 /\ "no_healthy_keys" \in LogErrors /\ 503 \in Statuses
  BY DEF LogErrors, Statuses
<1>6. Moves(x, Answered(z, 503, "no_healthy_keys"))
  BY <1>1, <1>4, <1>5, AnswerMoves, ZenonT(60)
<1>7. Moves(x, Send(z, 1))
  <2>1. 1 \in 1 .. MaxAttempts /\ x.tried \subseteq 1 .. 1 - 1
    BY <1>4, KeyPoolAssumption
  <2> QED BY <1>1, <1>4, <2>1, SendMoves
<1> QED BY <1>2, <1>6, <1>7 DEF MovesOn, x

\* Nothing that a client sees of a request changes.
LEMMA StayMoves ==
  ASSUME NEW x \in RequestState, NEW y, Consistent(x),
         y.status = x.status, y.tried = x.tried, y.log = x.log,
         \/ x.pc \in {"sent", "closing"} /\ y.pc \in {"sent", "closing"}
         \/ x.pc = "deleting" /\ y.pc = "done"
  PROVE  Moves(x, y)
<1>1. Stage(y) = Stage(x)
  BY Stages DEF Consistent
<1> QED BY <1>1 DEF Moves, Stays

\* A failed attempt ends in the answer, or in closing the connection.
LEMMA FailMoves ==
  ASSUME GatewayInv, NEW r \in Requests, NEW a \in FailedAnswers, Fail(r, a)
  PROVE  MovesOn(r)
<1> DEFINE x == req[r]
           k == Trying(x)
           d == Decision(a)
           b == AccountOf(db, k.secret)
           blocked == IF FailureScope(db, k, d) = "account"
                      THEN x.blocked \cup {b} ELSE x.blocked
           z == [x EXCEPT !.error = d.errorType, !.blocked = blocked]
           w == [z EXCEPT !.pc = "closing"]
           y == IF ~Retryable(db, k, d) THEN Answered(z, a.status, d.errorType)
                ELSE IF LastCandidate(z) THEN Answered(z, 503, d.errorType)
                ELSE w
<1>1. /\ x \in RequestState /\ Consistent(x) /\ db \in Database /\ x.pc = "sent"
      /\ x.log = <<>>
  BY RequestFacts DEF Fail, Consistent
<1>2. req' = [req EXCEPT ![r] = y]
  BY DEF Fail
<1>3. d.errorType \in ErrorTypes /\ d.errorType \in LogErrors
  BY GatewayAssumption, DecisionType DEF LogErrors
<1>4. blocked \in SUBSET Accounts
  <2>1. k.secret \in Secrets
    BY <1>1, TryingType DEF Candidate
  <2>2. b \in Accounts \cup {None} /\ x.blocked \in SUBSET Accounts
    BY <1>1, <2>1, AccountType DEF RequestState
  <2>3. FailureScope(db, k, d) = "account" => b # None
    BY DEF FailureScope
  <2> QED BY <2>2, <2>3
<1>5. ~Retryable(db, k, d) => a.status \in 100 .. 599 /\ a.status \in Statuses
  <2>1. ASSUME ~Decision(a).retryable
        PROVE  a.status \in 100 .. 599 /\ a.status \in Statuses
    <3>1. a.exc = "none" /\ a.status \in 400 .. 599
      BY <2>1, PassedOn
    <3> QED BY <3>1 DEF Statuses
  <2> QED BY <2>1 DEF Retryable
<1> HIDE DEF blocked, d, k
<1>6. /\ z \in RequestState /\ z.tried = x.tried /\ z.status = x.status
      /\ z.log = x.log /\ z.pc = "sent"
  <2>1. z \in RequestState
    BY <1>1, <1>3, <1>4, FailedType
  <2> QED BY <1>1, <2>1 DEF RequestState
<1> HIDE DEF x, z
<1>7. ASSUME ~Retryable(db, k, d) PROVE Moves(x, Answered(z, a.status, d.errorType))
  BY <1>1, <1>3, <1>5, <1>6, <1>7, AnswerMoves
<1>8. Moves(x, Answered(z, 503, d.errorType))
  <2>1. 503 \in 100 .. 599 /\ 503 \in Statuses
    BY DEF Statuses
  <2> QED BY <1>1, <1>3, <1>6, <2>1, AnswerMoves
<1>9. Moves(x, w)
  <2>1. w.tried = z.tried /\ w.status = z.status /\ w.log = z.log /\ w.pc = "closing"
    BY <1>6 DEF RequestState
  <2> HIDE DEF w
  <2> QED BY <1>1, <1>6, <2>1, StayMoves
<1> HIDE DEF w
<1> QED BY <1>2, <1>7, <1>8, <1>9 DEF MovesOn, x


\* After the failed connection was closed the next usable candidate is tried,
\* or the request is answered with a 503.
LEMMA NextAttemptMoves ==
  ASSUME GatewayInv, NEW r \in Requests, NextAttempt(r)
  PROVE  MovesOn(r)
<1> DEFINE x == req[r]
           left == {i \in Rest(x) : Usable(x, i)}
           skip(past) == [x EXCEPT !.skipped = x.skipped \cup past]
           i == CHOOSE m \in left : \A j \in left : m <= j
           y == IF left = {} THEN Answered(skip(Rest(x)), 503, x.error)
                ELSE Send(skip(x.idx + 1 .. i - 1), i)
<1>1. /\ x \in RequestState /\ Consistent(x) /\ x.pc = "closing" /\ x.log = <<>>
  BY RequestFacts DEF NextAttempt, Consistent
<1>2. req' = [req EXCEPT ![r] = y]
  BY DEF NextAttempt
<1>3. /\ x.tried \subseteq 1 .. x.idx /\ x.idx \in Nat
      /\ x.sel \in Seq(Candidate) /\ Len(x.sel) \in Nat /\ Len(x.sel) <= MaxAttempts
      /\ x.error \in LogErrors
  BY <1>1 DEF Consistent, RequestState, LogErrors
<1>4. \A n \in Rest(x) : n \in Nat /\ n > x.idx /\ n <= Len(x.sel)
  BY <1>3 DEF Rest
<1>5. ASSUME NEW past \in SUBSET Nat
      PROVE  /\ skip(past) \in RequestState /\ skip(past).tried = x.tried
             /\ skip(past).status = x.status /\ skip(past).log = x.log
  <2>1. skip(past) \in RequestState
    BY <1>1, SkippedType
  <2> QED BY <1>1, <2>1 DEF RequestState
<1>6. CASE left = {}
  <2> DEFINE z == skip(Rest(x))
  <2>1. z \in RequestState /\ z.tried = x.tried /\ z.log = x.log
    BY <1>4, <1>5
  <2>2. 503 \in 100 .. 599 /\ 503 \in Statuses
    BY DEF Statuses
  <2>3. y = Answered(z, 503, x.error)
    BY <1>6
  <2> HIDE DEF x, y, z
  <2>4. Moves(x, Answered(z, 503, x.error))
    BY <1>1, <1>3, <2>1, <2>2, AnswerMoves
  <2> QED BY <1>2, <2>3, <2>4 DEF MovesOn, x
<1>7. CASE left # {}
  <2>1. i \in left
    <3>1. left \subseteq Nat
      BY <1>4
    <3>2. \E m \in left : \A j \in left : m <= j
      <4> HIDE DEF left
      <4> QED BY <1>7, <3>1, LeastNumber
    <3> QED BY <3>2
  <2>2. i \in Nat /\ i > x.idx /\ i <= Len(x.sel)
    BY <1>4, <2>1
  <2> DEFINE past == x.idx + 1 .. i - 1
             z == skip(past)
  <2>3. y = Send(z, i)
    BY <1>7
  <2> HIDE DEF i, y
  <2>4. past \in SUBSET Nat
    BY <1>3, <2>2
  <2>5. i \in 1 .. MaxAttempts /\ x.tried \subseteq 1 .. i - 1
    BY <1>3, <2>2, KeyPoolAssumption
  <2> HIDE DEF past
  <2>6. /\ z \in RequestState /\ z.tried = x.tried /\ z.status = x.status
        /\ z.log = x.log
    BY <1>5, <2>4
  <2> HIDE DEF x, z
  <2>7. Moves(x, Send(z, i))
    BY <1>1, <2>5, <2>6, SendMoves
  <2> QED BY <1>2, <2>3, <2>7 DEF MovesOn, x
<1> QED BY <1>6, <1>7

\* A whole answer of Fireworks is the answer of the request, though a delete
\* still returns to its handler.
LEMMA SucceedMoves ==
  ASSUME GatewayInv, NEW r \in Requests, NEW identified \in BOOLEAN,
         Succeed(r, identified)
  PROVE  MovesOn(r)
<1> DEFINE x == req[r]
           z == Answered(x, 200, None)
           p == IF x.job.kind = "delete" THEN "deleting" ELSE "done"
           y == [z EXCEPT !.pc = p]
<1>1. /\ x \in RequestState /\ Consistent(x) /\ x.pc = "sent" /\ x.log = <<>>
  BY RequestFacts DEF Succeed, Consistent
<1>2. req' = [req EXCEPT ![r] = y]
  <2>1. req \in [Requests -> RequestState]
    BY DEF GatewayInv
  <2> QED BY <2>1 DEF Succeed
<1>3. 200 \in 100 .. 599 /\ None \in LogErrors /\ 200 \in Statuses
  BY DEF LogErrors, Statuses
<1>4. /\ Rows(z) = Append(Rows(x), 200) /\ z.tried = x.tried
      /\ z.status = 200 /\ z.pc = "done" /\ z.log # <<>>
  <2> HIDE DEF x, z
  <2>1. x \in RequestState /\ 200 \in 100 .. 599 /\ None \in LogErrors
    BY <1>1, <1>3
  <2>2. /\ Rows(Answered(x, 200, None)) = Append(Rows(x), 200)
        /\ Answered(x, 200, None).tried = x.tried
        /\ Answered(x, 200, None).status = 200
        /\ Answered(x, 200, None).pc = "done"
        /\ Answered(x, 200, None).log # <<>>
    BY ONLY <2>1, RowsAppend, Zenon
  <2> QED BY <2>2 DEF z
<1>5. y.tried = z.tried /\ y.status = z.status /\ y.log = z.log /\ y.pc = p
  BY <1>1 DEF Answered, RequestState
<1> HIDE DEF x, y, z
<1>6. Rows(y) = Rows(z)
  BY <1>5 DEF Rows
<1>7. Stage(y) = "settled" /\ Stage(x) = "working"
  BY <1>1, <1>4, <1>5, Stages
<1>8. Replies(x, y)
  BY <1>3, <1>4, <1>5, <1>6, <1>7, Zenon DEF Replies
<1> QED BY <1>2, <1>8 DEF Moves, MovesOn, x

\* A stream begins, ends, or is given up.
LEMMA StreamMoves ==
  ASSUME GatewayInv, NEW r \in Requests,
         \/ OpenStream(r) \/ DropStream(r)
         \/ \E error \in {None, "client_cancelled", "stream_error"},
               identified \in BOOLEAN : EndStream(r, error, identified)
  PROVE  MovesOn(r)
<1> DEFINE x == req[r]
<1>1. /\ x \in RequestState /\ Consistent(x) /\ req \in [Requests -> RequestState]
  BY RequestFacts DEF GatewayInv
<1>2. CASE OpenStream(r)
  <2> DEFINE y == [x EXCEPT !.pc = "streaming", !.status = 200]
  <2>1. req' = [req EXCEPT ![r] = y] /\ x.pc = "sent" /\ x.log = <<>>
    BY <1>1, <1>2, ZenonT(60) DEF OpenStream, Consistent
  <2>2. y.pc = "streaming" /\ y.status = 200 /\ y.tried = x.tried /\ y.log = x.log
    BY <1>1 DEF RequestState
  <2> HIDE DEF x, y
  <2>3. Stage(x) = "working" /\ Stage(y) = "streaming"
    BY <2>1, <2>2, Stages
  <2> QED BY <2>1, <2>2, <2>3 DEF Moves, MovesOn, Starts, x
<1>3. CASE DropStream(r)
  <2> DEFINE y == [x EXCEPT !.pc = "abandoned"]
  <2>1. req' = [req EXCEPT ![r] = y] /\ x.pc = "streaming" /\ x.log = <<>>
    BY <1>1, <1>3 DEF DropStream, Consistent
  <2>2. y.pc = "abandoned" /\ y.status = x.status /\ y.tried = x.tried /\ y.log = x.log
    BY <1>1 DEF RequestState
  <2> HIDE DEF x, y
  <2>3. Stage(x) = "streaming" /\ Stage(y) = "lost"
    BY <2>1, <2>2, Stages
  <2> QED BY <2>1, <2>2, <2>3 DEF Moves, MovesOn, Loses, x
<1>4. ASSUME NEW error \in {None, "client_cancelled", "stream_error"},
             NEW identified \in BOOLEAN, EndStream(r, error, identified)
      PROVE  MovesOn(r)
  <2> DEFINE y == Answered(x, 200, error)
  <2>1. /\ req' = [req EXCEPT ![r] = y] /\ x.pc = "streaming" /\ x.log = <<>>
        /\ x.status = 200
    BY <1>1, <1>4 DEF EndStream, Consistent
  <2>2. 200 \in 100 .. 599 /\ error \in LogErrors
    BY DEF LogErrors
  <2>3. /\ Rows(y) = Append(Rows(x), 200) /\ y.tried = x.tried
        /\ y.status = 200 /\ y.pc = "done" /\ y.log # <<>>
    <3> HIDE DEF x, y
    <3>1. x \in RequestState /\ 200 \in 100 .. 599 /\ error \in LogErrors
      BY <1>1, <2>2
    <3>2. /\ Rows(Answered(x, 200, error)) = Append(Rows(x), 200)
          /\ Answered(x, 200, error).tried = x.tried
          /\ Answered(x, 200, error).status = 200
          /\ Answered(x, 200, error).pc = "done"
          /\ Answered(x, 200, error).log # <<>>
      BY ONLY <3>1, RowsAppend, ZenonT(60)
    <3> QED BY <3>2 DEF y
  <2> HIDE DEF x, y
  <2>4. Stage(x) = "streaming" /\ Stage(y) = "settled"
    BY <2>1, <2>3, Stages
  <2>5. Finishes(x, y)
    BY <2>1, <2>3, <2>4, Zenon DEF Finishes
  <2> QED BY <2>1, <2>5 DEF Moves, MovesOn, x
<1> QED BY <1>2, <1>3, <1>4

\* What a client does not see.
LEMMA SilentMoves ==
  ASSUME GatewayInv, NEW r \in Requests, PreviousNotFound(r) \/ FinishDelete(r)
  PROVE  MovesOn(r)
<1> DEFINE x == req[r]
<1>1. /\ x \in RequestState /\ Consistent(x) /\ req \in [Requests -> RequestState]
  BY RequestFacts DEF GatewayInv
<1>2. CASE PreviousNotFound(r)
  <2> DEFINE y == [x EXCEPT !.resent = TRUE, !.carries = FALSE]
  <2>1. req' = [req EXCEPT ![r] = y] /\ x.pc = "sent"
    BY <1>1, <1>2 DEF PreviousNotFound
  <2>2. y.pc = "sent" /\ y.status = x.status /\ y.tried = x.tried /\ y.log = x.log
    BY <1>1, <2>1 DEF RequestState
  <2> HIDE DEF x, y
  <2>3. Moves(x, y)
    BY <1>1, <2>1, <2>2, StayMoves
  <2> QED BY <2>1, <2>3 DEF MovesOn, x
<1>3. CASE FinishDelete(r)
  <2> DEFINE y == [x EXCEPT !.pc = "done"]
  <2>1. req' = [req EXCEPT ![r] = y] /\ x.pc = "deleting"
    BY <1>1, <1>3 DEF FinishDelete
  <2>2. y.pc = "done" /\ y.status = x.status /\ y.tried = x.tried /\ y.log = x.log
    BY <1>1, <2>1 DEF RequestState
  <2> HIDE DEF x, y
  <2>3. Moves(x, y)
    BY <1>1, <2>1, <2>2, StayMoves
  <2> QED BY <2>1, <2>3 DEF MovesOn, x
<1> QED BY <1>2, <1>3

\* A step of the gateway is a step of the contract, or none.
LEMMA GatewayStepMaps ==
  ASSUME GatewayInv, [GatewayNext]_vars, IsFiniteSet(Names)
  PROVE  [Contract!ContractNext]_(Contract!contractVars)
<1>1. req \in [Requests -> RequestState]
  BY DEF GatewayInv
<1>2. ASSUME NEW r \in Requests, RequestNext(r)
      PROVE  [Contract!ContractNext]_(Contract!contractVars)
  <2>1. ASSUME NEW j \in Jobs, Arrive(r, j) PROVE MovesOn(r)
    BY <2>1, ArriveMoves
  <2>2. ASSUME Proceed(r) PROVE MovesOn(r)
    <3>1. ASSUME NEW a \in FailedAnswers, Fail(r, a) PROVE MovesOn(r)
      BY <3>1, FailMoves
    <3>2. ASSUME NEW identified \in BOOLEAN, Succeed(r, identified) PROVE MovesOn(r)
      BY <3>2, SucceedMoves
    <3> QED BY <2>2, <3>1, <3>2, SilentMoves, NextAttemptMoves, StreamMoves DEF Proceed
  <2>3. MovesOn(r)
    BY <1>2, <2>1, <2>2, StreamMoves DEF RequestNext
  <2> QED BY <1>1, <2>3, MoveMaps DEF MovesOn
<1>3. PoolStep \/ UNCHANGED vars => UNCHANGED req
  BY DEF PoolStep, vars
<1>4. ASSUME UNCHANGED req
      PROVE  [Contract!ContractNext]_(Contract!contractVars)
  BY <1>4 DEF Contract!contractVars, Stage
<1>5. ASSUME GatewayRestart
      PROVE  [Contract!ContractNext]_(Contract!contractVars)
  <2> DEFINE lost == {r \in Requests : req[r].pc \in Running /\ req[r].log = <<>>}
  <2>1. ASSUME NEW r \in Requests
        PROVE  /\ req'[r].tried = req[r].tried /\ req'[r].status = req[r].status
               /\ req'[r].log = req[r].log
               /\ Stage(req'[r]) = IF r \in lost THEN "lost" ELSE Stage(req[r])
               /\ r \in lost => Stage(req[r]) \in {"working", "streaming"}
    <3> DEFINE x == req[r]
               y == IF x.pc \in Running THEN [x EXCEPT !.pc = "lost"] ELSE x
    <3>1. x \in RequestState /\ Consistent(x)
      BY RequestFacts
    <3>2. req'[r] = y
      BY <1>5 DEF GatewayRestart
    <3>3. /\ y.tried = x.tried /\ y.status = x.status /\ y.log = x.log
          /\ x.pc \in Running => y.pc = "lost"
          /\ x.pc \notin Running => y = x
      BY <3>1 DEF RequestState
    <3>4. r \in lost <=> x.pc \in Running /\ x.log = <<>>
      OBVIOUS
    <3> HIDE DEF lost, x, y
    <3>5. x.pc \in {"idle", "sent", "closing", "streaming"} => x.log = <<>>
      BY <3>1 DEF Consistent, Idle
    <3>6. x.pc = "deleting" => x.log # <<>>
      BY <3>1 DEF Consistent
    <3>7. r \in lost => Stage(x) \in {"working", "streaming"} /\ Stage(y) = "lost"
      BY <3>3, <3>4, <3>5, <3>6, Stages DEF Running
    <3>8. r \notin lost => Stage(y) = Stage(x)
      BY <3>3, <3>4, <3>5, <3>6, Stages DEF Running
    <3> QED BY <3>2, <3>3, <3>7, <3>8 DEF x
  <2>2. lost \in SUBSET Requests
    OBVIOUS
  <2> HIDE DEF lost
  <2>3. Contract!Lose(lost)
    BY <2>1, <2>2 DEF Contract!Lose
  <2> QED BY <2>2, <2>3 DEF Contract!ContractNext
<1> QED BY <1>2, <1>3, <1>4, <1>5 DEF GatewayNext

\* Whatever fails, and however requests, administrators and restarts
\* interleave, every request is answered once and leaves one row with the
\* status of its answer in the request log, after at most MaxAttempts keys
\* (proxy_fireworks_request of proxy.py): the gateway refines its contract.
THEOREM GatewayKeepsContract ==
  ASSUME IsFiniteSet(Names)
  PROVE  GatewaySpec => KeepsContract
<1>1. GatewayInit => Contract!ContractInit
  <2> SUFFICES ASSUME GatewayInit PROVE Contract!ContractInit
    OBVIOUS
  <2>1. \A r \in Requests : req[r] = Idle
    BY DEF GatewayInit
  <2>2. /\ Stage(Idle) = "idle" /\ Cardinality(Idle.tried) = 0 /\ Idle.status = 0
        /\ Idle.log = <<>>
    <3>1. Idle.pc = "idle" /\ Idle.tried = {} /\ Idle.status = 0 /\ Idle.log = <<>>
      BY DEF Idle, NoStatus
    <3> QED BY <3>1, Stages, FS_EmptySet
  <2>3. [i \in DOMAIN Idle.log |-> Idle.log[i].status] = <<>>
    BY <2>2
  <2> QED BY <2>1, <2>2, <2>3 DEF Contract!ContractInit
<1>2. GatewayInv /\ [GatewayNext]_vars => [Contract!ContractNext]_(Contract!contractVars)
  BY GatewayStepMaps
<1> QED BY <1>1, <1>2, GatewayInvariant, PTL
    DEF GatewaySpec, KeepsContract, Contract!ContractSpec

=============================================================================
