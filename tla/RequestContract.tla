--------------------------- MODULE RequestContract ---------------------------
(***************************************************************************)
(* What the gateway promises for every proxied request: at most MaxAttempts*)
(* keys are tried, one at a time; the request is answered once; and it     *)
(* leaves exactly one request log row with the status of its answer, unless*)
(* the process dies or a stream is given up.                               *)
(***************************************************************************)
EXTENDS Naturals, Sequences

CONSTANTS
  Requests,     \* proxied requests
  Statuses,     \* statuses a client may see
  MaxAttempts   \* MAX_UPSTREAM_ATTEMPTS

VARIABLES
  stage,   \* where each request is
  tries,   \* how many keys it has tried
  answer,  \* the status it was answered with, 0 if none
  rows     \* the statuses of its request log rows

contractVars == <<stage, tries, answer, rows>>

ContractInit ==
  /\ stage = [r \in Requests |-> "idle"]
  /\ tries = [r \in Requests |-> 0]
  /\ answer = [r \in Requests |-> 0]
  /\ rows = [r \in Requests |-> <<>>]

\* A key is tried, the first time or after a failure.
Try(r) ==
  /\ stage[r] \in {"idle", "working"}
  /\ tries[r] < MaxAttempts
  /\ stage' = [stage EXCEPT ![r] = "working"]
  /\ tries' = [tries EXCEPT ![r] = @ + 1]
  /\ UNCHANGED <<answer, rows>>

\* The whole answer and its log row; 503 without a try when no key is left.
Reply(r, status) ==
  /\ \/ stage[r] = "working"
     \/ stage[r] = "idle" /\ status = 503
  /\ stage' = [stage EXCEPT ![r] = "settled"]
  /\ answer' = [answer EXCEPT ![r] = status]
  /\ rows' = [rows EXCEPT ![r] = Append(@, status)]
  /\ UNCHANGED tries

\* The head of a streamed answer, and the row that its end leaves.
StartStream(r) ==
  /\ stage[r] = "working"
  /\ stage' = [stage EXCEPT ![r] = "streaming"]
  /\ answer' = [answer EXCEPT ![r] = 200]
  /\ UNCHANGED <<tries, rows>>

FinishStream(r) ==
  /\ stage[r] = "streaming"
  /\ stage' = [stage EXCEPT ![r] = "settled"]
  /\ rows' = [rows EXCEPT ![r] = Append(@, answer[r])]
  /\ UNCHANGED <<tries, answer>>

\* A stream nobody reads, or requests that were running when the process died.
Lose(lost) ==
  /\ \A r \in lost : stage[r] \in {"working", "streaming"}
  /\ stage' = [r \in Requests |-> IF r \in lost THEN "lost" ELSE stage[r]]
  /\ UNCHANGED <<tries, answer, rows>>

ContractNext ==
  \/ \E r \in Requests : Try(r) \/ StartStream(r) \/ FinishStream(r)
  \/ \E r \in Requests, status \in Statuses : Reply(r, status)
  \/ \E lost \in SUBSET Requests : Lose(lost)

ContractSpec == ContractInit /\ [][ContractNext]_contractVars

=============================================================================
