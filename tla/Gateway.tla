------------------------------- MODULE Gateway -------------------------------
(***************************************************************************)
(* Requests on their way through the key pool: proxy_fireworks_request and *)
(* proxy_fireworks_json_request of app/dataplane/fireworks/proxy.py, under *)
(* the handlers of app/products/openai/responses.py that choose the        *)
(* candidates.                                                             *)
(*                                                                         *)
(* A request runs alone between two awaits.  It awaits the answer of       *)
(* Fireworks ("sent"), the closing of a failed connection ("closing") or of*)
(* the one that deleted a response ("deleting"), and the chunks of a stream*)
(* ("streaming").  Other requests, administrators and restarts run at each *)
(* of these points.                                                        *)
(***************************************************************************)
EXTENDS KeyPool, Failover

CONSTANTS
  Requests,      \* proxied requests
  Jobs,          \* what clients ask for
  FailedAnswers, \* the unsuccessful answers Fireworks gives
  ResponseOf     \* the response id Fireworks gives a create request

(* plain: an endpoint without response ids; create: POST /v1/responses with*)
(* prev as previous_response_id; get and delete: the lifecycle of response *)
(* prev.  rk is the client's route key.                                    *)
Job == [kind   : {"plain", "create", "get", "delete"},
        stream : BOOLEAN,
        prev   : Responses \cup {None},
        rk     : RouteKeys]

ASSUME GatewayAssumption ==
  /\ Jobs \subseteq Job
  /\ \A j \in Jobs : j.stream => j.kind \in {"plain", "create"}
  /\ \A a \in FailedAnswers :
       /\ a \in Answer
       /\ IF a.exc = "none" THEN a.status \in 400..599
          ELSE a.status = NoStatus /\ a.words = {}
  /\ ResponseOf \in [Requests -> Responses]

VARIABLE req   \* the state of every request

vars == <<poolVars, req>>

LogErrors == ErrorTypes \cup {"no_healthy_keys", "client_cancelled", "stream_error", None}

LogRow == [status : 100..599, error : LogErrors]

Idle == [pc      |-> "idle", \* where the request waits
         job     |-> None,
         sel     |-> <<>>,   \* context.selected_keys
         idx     |-> 0,      \* the candidate being tried
         tried   |-> {},     \* routing_events: the candidates attempted
         skipped |-> {},     \* routing_events: the candidates skipped
         blocked |-> {},     \* blocked_account_ids
         resent  |-> FALSE,  \* the retry without previous_response_id is spent
         carries |-> FALSE,  \* the attempt names the previous response
         error   |-> None,   \* last_error_type
         status  |-> NoStatus,
         log     |-> <<>>]   \* its rows in request_logs

GatewayInit == PoolInit /\ req = [r \in Requests |-> Idle]

-----------------------------------------------------------------------------

Trying(x) == x.sel[x.idx]

Log(x, status, error) == Append(x.log, [status |-> status, error |-> error])

\* Mutant: an exit that writes no log row.
Unlogged(x, status, error) == [x EXCEPT !.pc = "done", !.status = status]

Answered(x, status, error) ==
  [x EXCEPT !.pc = "done", !.status = status, !.log = Log(x, status, error)]

\* Every attempt sends the payload as the client gave it.
Send(x, i) ==
  [x EXCEPT !.pc      = "sent",
            !.idx     = i,
            !.tried   = @ \cup {i},
            !.carries = x.job.kind = "create" /\ x.job.prev # None]

\* A key bound to the response replaces the selection, healthy or not.
Candidates(j) ==
  LET routed == IF j.kind = "plain" \/ j.prev = None
                THEN None ELSE RoutedKey(db, j.prev)
  IN  IF routed # None THEN <<routed>>
      ELSE SelectCandidates(db, now, j.rk, MaxAttempts)

\* Building the context, choosing the candidates and sending to the first.
Arrive(r, j) ==
  /\ phase = "up"
  /\ req[r].pc = "idle"
  /\ LET x == [req[r] EXCEPT !.job = j, !.sel = Candidates(j)]
     IN  req' = [req EXCEPT ![r] =
                   IF x.sel = <<>> THEN Answered(x, 503, "no_healthy_keys")
                   ELSE Send(x, 1)]
  /\ UNCHANGED poolVars

PoolStays == UNCHANGED <<now, adding, phase, nextEnv, adminOps, restarts>>

\* Fireworks does not know the previous response (a 400 or 404 that says so):
\* its route goes and the same key is asked again without it.
PreviousNotFound(r) ==
  /\ req[r].pc = "sent"
  /\ req[r].carries
  /\ ~req[r].resent
  /\ db' = DeleteRoute(db, req[r].job.prev)
  /\ req' = [req EXCEPT ![r].resent = TRUE, ![r].carries = FALSE]
  /\ PoolStays

\* Mutant: off by one at the end of the list.
StopsOneEarly(x) == x.idx + 1 >= Len(x.sel)

LastCandidate(x) == x.idx = Len(x.sel)

(* The attempt failed: the pool is told; another candidate may follow, else*)
(* the client gets a 503, or Fireworks' own answer if it is not retryable. *)
Fail(r, a) ==
  /\ req[r].pc = "sent"
  /\ LET k == Trying(req[r])
         d == Decision(a)
         x == [req[r] EXCEPT
                 !.error   = d.errorType,
                 !.blocked = IF FailureScope(db, k, d) = "account"
                             THEN @ \cup {AccountOf(db, k.secret)} ELSE @]
     IN  /\ db' = ApplyFailureToCandidate(db, now, k, d)
         /\ req' = [req EXCEPT ![r] =
                      IF ~Retryable(db, k, d)
                      THEN Answered(x, a.status, d.errorType)
                      ELSE IF LastCandidate(x)
                      THEN Answered(x, 503, d.errorType)
                      ELSE [x EXCEPT !.pc = "closing"]]
  /\ PoolStays

\* Mutant: the loop starts again at the candidate that has just failed.
RestAndCurrent(x) == x.idx .. Len(x.sel)

Rest(x) == x.idx + 1 .. Len(x.sel)

\* Mutant: the blocked accounts are recorded and never consulted.
AnyUsable(x, i) == TRUE

Usable(x, i) == AccountOf(db, x.sel[i].secret) \notin x.blocked

\* The failed connection is closed: candidates of accounts that failed this
\* request are skipped, by the accounts the snapshots name now.
NextAttempt(r) ==
  /\ req[r].pc = "closing"
  /\ LET x    == req[r]
         left == {i \in Rest(x) : Usable(x, i)}
         skip(past) == [x EXCEPT !.skipped = @ \cup past]
     IN  req' = [req EXCEPT ![r] =
           IF left = {} THEN Answered(skip(Rest(x)), 503, x.error)
           ELSE LET i == CHOOSE i \in left : \A j \in left : i <= j
                IN  Send(skip(x.idx + 1 .. i - 1), i)]
  /\ UNCHANGED poolVars

\* A whole answer.  A created response is bound to the key as the request
\* remembers it; identified: the body carries the response id.
Succeed(r, identified) ==
  /\ req[r].pc = "sent"
  /\ ~req[r].job.stream
  /\ LET j == req[r].job
     IN  /\ db' = IF j.kind = "create" /\ identified
                  THEN UpsertRoute(db, ResponseOf[r], Trying(req[r]))
                  ELSE IF j.kind = "delete" /\ j.prev # None
                  THEN DeleteRoute(db, j.prev)
                  ELSE db
         /\ req' = [req EXCEPT ![r] =
                      [Answered(@, 200, None) EXCEPT
                         !.pc = IF j.kind = "delete" THEN "deleting" ELSE "done"]]
  /\ PoolStays

\* The handler of DELETE drops the route once more when the proxy returns.
FinishDelete(r) ==
  /\ req[r].pc = "deleting"
  /\ db' = IF req[r].job.prev = None THEN db ELSE DeleteRoute(db, req[r].job.prev)
  /\ req' = [req EXCEPT ![r].pc = "done"]
  /\ PoolStays

\* Status and first chunk have arrived; the client sees a 200.
OpenStream(r) ==
  /\ req[r].pc = "sent"
  /\ req[r].job.stream
  /\ req' = [req EXCEPT ![r].pc = "streaming", ![r].status = 200]
  /\ UNCHANGED poolVars

\* The stream ends, breaks, or the client leaves; finalize_stream runs.
EndStream(r, error, identified) ==
  /\ req[r].pc = "streaming"
  /\ db' = IF req[r].job.kind = "create" /\ identified
           THEN UpsertRoute(db, ResponseOf[r], Trying(req[r])) ELSE db
  /\ req' = [req EXCEPT ![r] = Answered(@, 200, error)]
  /\ PoolStays

\* The body is never iterated, or closing the upstream fails: no finalizer.
DropStream(r) ==
  /\ req[r].pc = "streaming"
  /\ req' = [req EXCEPT ![r].pc = "abandoned"]
  /\ UNCHANGED poolVars

Running == {"sent", "closing", "streaming", "deleting"}

\* The requests of a process die with it; the log rows survive.
GatewayRestart ==
  /\ Restart
  /\ req' = [r \in Requests |->
               IF req[r].pc \in Running THEN [req[r] EXCEPT !.pc = "lost"]
               ELSE req[r]]

\* What the gateway does by itself once Fireworks answered.
Proceed(r) ==
  \/ PreviousNotFound(r)
  \/ \E a \in FailedAnswers : Fail(r, a)
  \/ NextAttempt(r)
  \/ \E identified \in BOOLEAN : Succeed(r, identified)
  \/ FinishDelete(r)
  \/ OpenStream(r)

RequestNext(r) ==
  \/ \E j \in Jobs : Arrive(r, j)
  \/ Proceed(r)
  \/ \E error \in {None, "client_cancelled", "stream_error"},
        identified \in BOOLEAN : EndStream(r, error, identified)
  \/ DropStream(r)

PoolStep ==
  /\ \/ AdminNext
     \/ \E d \in TickSizes : Tick(d)
     \/ BootKey
     \/ BootDone
  /\ UNCHANGED req

GatewayNext ==
  \/ \E r \in Requests : RequestNext(r)
  \/ PoolStep
  \/ GatewayRestart

GatewaySpec == GatewayInit /\ [][GatewayNext]_vars

(* Fireworks answers or the request timeout fires, and an event loop that  *)
(* is not starved resumes what it can resume.  Nothing forces clients,     *)
(* administrators, restarts, or the end of a stream.                       *)
FairGatewaySpec == GatewaySpec /\ \A r \in Requests : WF_vars(Proceed(r))

-----------------------------------------------------------------------------
(* What must hold.                                                         *)

RequestState ==
  [pc      : Running \cup {"idle", "done", "abandoned", "lost"},
   job     : Jobs \cup {None},
   sel     : Seq(Candidate),
   idx     : Nat,
   tried   : SUBSET Nat,
   skipped : SUBSET Nat,
   blocked : SUBSET Accounts,
   resent  : BOOLEAN,
   carries : BOOLEAN,
   error   : ErrorTypes \cup {None},
   status  : 100..599 \cup {NoStatus},
   log     : Seq(LogRow)]

GatewayTypeOK == PoolTypeOK /\ req \in [Requests -> RequestState]

\* Giving up is the last resort: a request answered with a 503 has tried each
\* of its candidates, or skipped it for an account that failed this request.
\* (A 503 of Fireworks whose text names a client error is passed on.)
ExhaustsCandidates ==
  \A r \in Requests :
    /\ req[r].pc = "done"
    /\ req[r].status = 503
    /\ req[r].error \notin {"validation_error", "model_not_found"}
    => /\ req[r].tried \cup req[r].skipped = DOMAIN req[r].sel
       /\ req[r].skipped # {} => req[r].blocked # {}

\* An account that failed a request as a whole is not asked again by it, even
\* if a snapshot learns only later that a candidate belongs to the account.
NoSecondStrike ==
  [][\A r \in Requests : \A i \in req'[r].tried \ req[r].tried :
       AccountOf(db, req'[r].sel[i].secret) \notin req[r].blocked]_vars

\* While requests overlap, a late failure never cuts an account's cooldown.
AccountCooldownGrows ==
  [][\A a \in Accounts : db'.cooldowns[a] >= db.cooldowns[a]]_vars

\* A request changes only rows of the key it is trying or of that key's
\* account; it never enables, re-keys, stores or removes a key.
RequestStep == req' # req /\ restarts' = restarts

Affected(n) ==
  \E r \in Requests :
    /\ req[r].pc = "sent"
    /\ LET k == Trying(req[r])
       IN  \/ n = k.name
           \/ /\ AccountOf(db, k.secret) # None
              /\ n \in KeysForAccount(db, AccountOf(db, k.secret))

FailureContained ==
  [][RequestStep =>
       /\ StoredNames(db)' = StoredNames(db)
       /\ \A n \in StoredNames(db) :
            /\ db'.keys[n].secret = db.keys[n].secret
            /\ db'.keys[n].enabled => db.keys[n].enabled
            /\ db'.keys[n] # db.keys[n] => Affected(n)]_vars

(* The refinement of the contract.  A row in the log settles a request.    *)
Stage(x) ==
  CASE x.pc = "idle" -> "idle"
    [] x.pc \in {"sent", "closing"} -> "working"
    [] x.pc = "streaming" -> "streaming"
    [] x.log # <<>> -> "settled"
    [] OTHER -> "lost"

Contract == INSTANCE RequestContract WITH
  Statuses <- {200, 503} \cup {a.status : a \in {b \in FailedAnswers : b.exc = "none"}},
  stage  <- [r \in Requests |-> Stage(req[r])],
  tries  <- [r \in Requests |-> Cardinality(req[r].tried)],
  answer <- [r \in Requests |-> req[r].status],
  rows   <- [r \in Requests |->
               [i \in DOMAIN req[r].log |-> req[r].log[i].status]]

\* Whatever fails, every request is answered once and logged once, with the
\* same status, after at most MaxAttempts keys.
KeepsContract == Contract!ContractSpec

\* Failover ends: a request that was sent is answered or its stream begins,
\* unless the process dies.
EventuallyAnswered ==
  \A r \in Requests :
    req[r].pc \in {"sent", "closing", "deleting"}
      ~> req[r].pc \in {"streaming", "done", "abandoned", "lost"}

\* tests/test_responses_lifecycle.py:156: a create request retries "without
\* missing previous response id".
MissingPreviousNotResent ==
  \A r \in Requests : req[r].pc = "sent" /\ req[r].resent => ~req[r].carries

=============================================================================
