--------------------------- MODULE ContractsProofs ---------------------------
(***************************************************************************)
(* The classification of failed answers (error_contracts.py), for every    *)
(* status and every set of keyword families; the web search loop, for      *)
(* every history and every way the model answers; the account of a         *)
(* request, for every report of tokens; and the payloads a conversation is *)
(* rewritten to, for every conversation.                                   *)
(***************************************************************************)
EXTENDS Contracts, DataProofs, FiniteSetTheorems, SequenceTheorems

\* An answer without a response has neither a status nor a text.
Classified(a) ==
  /\ a \in Answer
  /\ a.exc # "none" => a.status = NoStatus /\ a.words = {}

AnswerInv == answer = Nothing \/ Classified(answer)

\* A failed answer is always one the classifier has rules for.
LEMMA AnswerInvariant == Spec => []AnswerInv
<1>1. Init => AnswerInv
  <2>1. ASSUME AnswerInit PROVE Classified(answer)
    BY <2>1, StatusesAssumption
    DEF AnswerInit, Classified, Answer, Exceptions, NoStatus
  <2> QED BY <2>1 DEF Init, AnswerInv
<1>2. AnswerInv /\ [Next]_vars => AnswerInv'
  <2> SUFFICES ASSUME AnswerInv, [Next]_vars PROVE AnswerInv'
    OBVIOUS
  <2>1. CASE SayMore
    <3>1. PICK w \in WordFamilies : answer' = [answer EXCEPT !.words = @ \cup {w}]
      BY <2>1 DEF SayMore
    <3>2. answer \in Answer /\ answer.exc = "none"
      BY <2>1 DEF SayMore, AnswerInv, Classified
    <3>3. answer' \in Answer /\ answer'.exc = "none"
      BY <3>1, <3>2 DEF Answer
    <3> QED BY <3>3 DEF AnswerInv, Classified
  <2>2. CASE UNCHANGED answer
    BY <2>2 DEF AnswerInv
  <2>3. AddItem \/ AddAnswer \/ AddEvent \/ StartSearch \/ SearchStep => UNCHANGED answer
    BY DEF AddItem, AddAnswer, AddEvent, StartSearch, SearchStep
  <2>4. UNCHANGED vars => UNCHANGED answer
    BY DEF vars
  <2> QED BY <2>1, <2>2, <2>3, <2>4 DEF Next
<1> QED BY <1>1, <1>2, PTL DEF Spec

\* For every status and text: a failure moves the request to another key if and
\* only if it also keeps the failed key, or its account, out of later requests.
THEOREM EveryFailureLeavesMark == Spec => []FailureLeavesMark
<1>1. AnswerInv => FailureLeavesMark
  <2> SUFFICES ASSUME AnswerInv, answer # Nothing
               PROVE  ShouldFailover(answer) <=>
                        DisablesKey(answer) \/ CooldownSeconds(answer) > 0
    BY DEF FailureLeavesMark
  <2>1. ASSUME Harmless(answer)
        PROVE  ~DisablesKey(answer) /\ CooldownSeconds(answer) = 0
    BY <2>1 DEF Harmless, DisablesKey, ShouldDisableKey, CooldownSeconds, ShouldCooldown
  <2>2. ASSUME ~Harmless(answer), ErrorType(answer) # "auth_error"
        PROVE  CooldownSeconds(answer) > 0
    BY <2>2 DEF CooldownSeconds, ShouldCooldown, RateLimitCooldown,
                TransientCooldown, LongCooldown
  <2>3. ASSUME ErrorType(answer) = "auth_error" PROVE DisablesKey(answer)
    BY <2>3 DEF DisablesKey, ShouldDisableKey
  <2> QED BY <2>1, <2>2, <2>3 DEF ShouldFailover
<1> QED BY <1>1, AnswerInvariant, PTL

\* No 429 disables a key, whatever its text says of billing and quotas, unless
\* it speaks of authentication.
THEOREM ThrottlingNeverDisablesAKey == Spec => []ThrottlingNeverDisables
<1>1. AnswerInv => ThrottlingNeverDisables
  <2> SUFFICES ASSUME AnswerInv, answer # Nothing,
                      answer.status = 429, "auth" \notin answer.words
               PROVE  ~DisablesKey(answer)
    BY DEF ThrottlingNeverDisables
  <2>1. ErrorType(answer) # "auth_error"
    BY DEF ErrorType
  <2> QED BY <2>1 DEF DisablesKey, ShouldDisableKey
<1> QED BY <1>1, AnswerInvariant, PTL

\* Whatever kept a response from arriving, the request goes on to the next key
\* and the key stays enabled.
THEOREM EveryMissingResponseFailsOver == Spec => []NoResponseFailsOver
<1>1. AnswerInv => NoResponseFailsOver
  <2> SUFFICES ASSUME AnswerInv, answer # Nothing, answer.exc # "none"
               PROVE  ShouldFailover(answer) /\ ~DisablesKey(answer)
    BY DEF NoResponseFailsOver
  <2>1. answer.status = 0 /\ answer.words = {}
    BY DEF AnswerInv, Classified, NoStatus
  <2>2. answer.exc \in {"timeout", "network", "other"}
    BY DEF AnswerInv, Classified, Answer, Exceptions
  <2>3. ErrorType(answer) \in {"timeout_error", "network_error"}
    BY <2>1, <2>2 DEF ErrorType
  <2> QED BY <2>3 DEF ShouldFailover, Harmless, DisablesKey, ShouldDisableKey
<1> QED BY <1>1, AnswerInvariant, PTL

-----------------------------------------------------------------------------
(* The search loop.                                                        *)

SearchEntry == [kind : OutputKinds \cup {"question", "result"}, id : Nat \X Nat]
SearchRun == [id : Nat \X Nat, found : BOOLEAN]

SearchState ==
  [phase : {"passed on", "refused", "asking", "searching", "answered", "failed"},
   listed : BOOLEAN, asked : Seq(SearchEntry), continues : BOOLEAN, round : Nat,
   output : Seq(SearchEntry), todo : SUBSET Nat, runs : Seq(SearchRun),
   bound : SUBSET Nat]

CallAt(q, i) == i \in DOMAIN q /\ q[i].kind \in SearchKinds
ResultAt(q, i) == i \in DOMAIN q /\ q[i].kind = "result"

\* In what is asked, the calls of the rounds up to round have one result each,
\* which came after them and from a run, but for those with an id in open.
Paired(q, runs, round, open) ==
  /\ \A i, j \in DOMAIN q : CallAt(q, i) /\ CallAt(q, j) /\ q[i].id = q[j].id => i = j
  /\ \A i, j \in DOMAIN q : ResultAt(q, i) /\ ResultAt(q, j) /\ q[i].id = q[j].id => i = j
  /\ \A j \in DOMAIN q : ResultAt(q, j) =>
       /\ \E i \in DOMAIN q : i < j /\ CallAt(q, i) /\ q[i].id = q[j].id
       /\ \E k \in DOMAIN runs : runs[k].id = q[j].id
       /\ q[j].id \notin open
  /\ \A i \in DOMAIN q : CallAt(q, i) =>
       /\ q[i].id[1] <= round
       /\ q[i].id \in open \/ \E j \in DOMAIN q : ResultAt(q, j) /\ q[j].id = q[i].id
  /\ \A x \in open : \E i \in DOMAIN q : CallAt(q, i) /\ q[i].id = x

\* The ids of the searches that are left.
Open(s) == IF s.phase = "searching" THEN {<<s.round, k>> : k \in s.todo} ELSE {}

SearchInv ==
  search # NoSearch =>
    /\ search \in SearchState
    /\ search.round \in 1..Rounds
    /\ Paired(search.asked, search.runs,
              IF search.phase = "asking" THEN search.round - 1 ELSE search.round,
              Open(search))
    /\ search.phase = "searching" =>
         \A k \in search.todo : k \in DOMAIN search.output
                                  /\ search.output[k].id = <<search.round, k>>

\* What Fireworks may answer.
LEMMA OutputType ==
  ASSUME NEW round \in Nat, NEW output \in Outputs(round)
  PROVE  /\ output \in Seq(SearchEntry)
         /\ \A k \in DOMAIN output : /\ k \in Nat /\ output[k].id = <<round, k>>
                                     /\ output[k].kind # "result"
<1>1. PICK n \in Nat : \E kinds \in [1..n -> OutputKinds] :
        output = [k \in DOMAIN kinds |-> Entry(kinds[k], <<round, k>>)]
  BY SearchAssumption DEF Outputs
<1>2. PICK kinds \in [1..n -> OutputKinds] :
        output = [k \in DOMAIN kinds |-> Entry(kinds[k], <<round, k>>)]
  BY <1>1
<1>3. \A k \in 1..n : /\ output[k] = Entry(kinds[k], <<round, k>>)
                      /\ output[k] \in SearchEntry
  BY <1>2 DEF Entry, SearchEntry
<1>4. output \in [1..n -> SearchEntry]
  BY <1>2, <1>3
<1>5. output \in Seq(SearchEntry)
  BY <1>4, SeqDef
<1>6. \A k \in 1..n : output[k].id = <<round, k>> /\ output[k].kind \in OutputKinds
  BY <1>2, <1>3 DEF Entry
<1> QED BY <1>4, <1>5, <1>6 DEF OutputKinds

\* An answer joins what was asked: its searches are open.
LEMMA AnswerPaired ==
  ASSUME NEW q \in Seq(SearchEntry), NEW runs, NEW round \in Nat, round > 0,
         NEW output \in Outputs(round), Paired(q, runs, round - 1, {})
  PROVE  Paired(q \o output, runs, round, {<<round, k>> : k \in SearchCalls(output)})
<1> DEFINE p == q \o output
           open == {<<round, k>> : k \in SearchCalls(output)}
<1>1. /\ output \in Seq(SearchEntry)
      /\ \A k \in DOMAIN output : /\ k \in Nat /\ output[k].id = <<round, k>>
                                  /\ output[k].kind # "result"
  BY OutputType
<1>2. /\ p \in Seq(SearchEntry) /\ Len(p) = Len(q) + Len(output)
      /\ \A i \in 1..Len(q) + Len(output) :
           p[i] = IF i <= Len(q) THEN q[i] ELSE output[i - Len(q)]
  BY <1>1, ConcatProperties
<1>3. /\ DOMAIN p = 1..Len(q) + Len(output) /\ DOMAIN q = 1..Len(q)
      /\ DOMAIN output = 1..Len(output) /\ Len(q) \in Nat /\ Len(output) \in Nat
  BY <1>1, <1>2, LenProperties
<1> HIDE DEF p
<1>4. \A i \in DOMAIN q : i \in DOMAIN p /\ p[i] = q[i]
  BY <1>2, <1>3
<1>5. \A i \in DOMAIN p : \/ i \in DOMAIN q
                          \/ /\ i - Len(q) \in DOMAIN output /\ i > Len(q)
                             /\ p[i] = output[i - Len(q)]
  BY <1>2, <1>3
<1>6. \A k \in DOMAIN output : /\ k + Len(q) \in DOMAIN p /\ p[k + Len(q)] = output[k]
  BY <1>2, <1>3
<1>7. \A i \in DOMAIN p : ResultAt(p, i) => i \in DOMAIN q /\ ResultAt(q, i)
  BY <1>1, <1>4, <1>5 DEF ResultAt
<1>8. \A i \in DOMAIN p : CallAt(p, i) =>
        \/ i \in DOMAIN q /\ CallAt(q, i) /\ p[i].id = q[i].id /\ q[i].id[1] < round
        \/ /\ i \notin DOMAIN q /\ i - Len(q) \in SearchCalls(output)
           /\ p[i].id = <<round, i - Len(q)>>
  <2> SUFFICES ASSUME NEW i \in DOMAIN p, CallAt(p, i)
               PROVE  \/ /\ i \in DOMAIN q /\ CallAt(q, i)
                         /\ p[i].id = q[i].id /\ q[i].id[1] < round
                      \/ /\ i \notin DOMAIN q /\ i - Len(q) \in SearchCalls(output)
                         /\ p[i].id = <<round, i - Len(q)>>
    OBVIOUS
  <2>1. CASE i \in DOMAIN q
    <3>1. q[i] \in SearchEntry
      BY <1>3, <2>1, ElementOfSeq
    <3>2. q[i].id[1] \in Nat
      BY <3>1 DEF SearchEntry
    <3>3. CallAt(q, i) /\ p[i].id = q[i].id
      BY <1>4, <2>1 DEF CallAt
    <3>4. q[i].id[1] <= round - 1
      BY <2>1, <3>3 DEF Paired
    <3> QED BY <2>1, <3>2, <3>3, <3>4
  <2>2. CASE i \notin DOMAIN q
    BY <1>1, <1>5, <2>2 DEF CallAt, SearchCalls
  <2> QED BY <2>1, <2>2
<1>9. \A i, j \in DOMAIN p : CallAt(p, i) /\ CallAt(p, j) /\ p[i].id = p[j].id => i = j
  <2> SUFFICES ASSUME NEW i \in DOMAIN p, NEW j \in DOMAIN p,
                      CallAt(p, i), CallAt(p, j), p[i].id = p[j].id
               PROVE  i = j
    OBVIOUS
  <2>1. CASE i \in DOMAIN q /\ j \in DOMAIN q
    BY <1>8, <2>1 DEF Paired
  <2>2. CASE i \notin DOMAIN q /\ j \notin DOMAIN q
    <3>1. i - Len(q) = j - Len(q)
      BY <1>8, <2>2
    <3> QED BY <1>3, <3>1
  <2>3. CASE ~(i \in DOMAIN q <=> j \in DOMAIN q)
    BY <1>8, <2>3
  <2> QED BY <2>1, <2>2, <2>3
<1>10. \A i, j \in DOMAIN p : ResultAt(p, i) /\ ResultAt(p, j) /\ p[i].id = p[j].id => i = j
  BY <1>4, <1>7 DEF Paired
<1>11. \A j \in DOMAIN p : ResultAt(p, j) =>
         /\ \E i \in DOMAIN p : i < j /\ CallAt(p, i) /\ p[i].id = p[j].id
         /\ \E k \in DOMAIN runs : runs[k].id = p[j].id
         /\ p[j].id \notin open
  <2> SUFFICES ASSUME NEW j \in DOMAIN p, ResultAt(p, j)
               PROVE  /\ \E i \in DOMAIN p : i < j /\ CallAt(p, i) /\ p[i].id = p[j].id
                      /\ \E k \in DOMAIN runs : runs[k].id = p[j].id
                      /\ p[j].id \notin open
    OBVIOUS
  <2>1. j \in DOMAIN q /\ ResultAt(q, j) /\ p[j] = q[j]
    BY <1>4, <1>7
  <2>2. PICK i \in DOMAIN q : i < j /\ CallAt(q, i) /\ q[i].id = q[j].id
    BY <2>1 DEF Paired
  <2>3. i \in DOMAIN p /\ CallAt(p, i) /\ p[i].id = p[j].id
    BY <1>4, <2>1, <2>2 DEF CallAt
  <2>4. \E k \in DOMAIN runs : runs[k].id = p[j].id
    BY <2>1 DEF Paired
  <2>5. p[i].id[1] < round
    BY <1>8, <2>2, <2>3
  <2>6. p[j].id \notin open
    BY <2>3, <2>5
  <2> QED BY <2>2, <2>3, <2>4, <2>6
<1>12. \A i \in DOMAIN p : CallAt(p, i) =>
         /\ p[i].id[1] <= round
         /\ p[i].id \in open \/ \E j \in DOMAIN p : ResultAt(p, j) /\ p[j].id = p[i].id
  <2> SUFFICES ASSUME NEW i \in DOMAIN p, CallAt(p, i)
               PROVE  /\ p[i].id[1] <= round
                      /\ \/ p[i].id \in open
                         \/ \E j \in DOMAIN p : ResultAt(p, j) /\ p[j].id = p[i].id
    OBVIOUS
  <2>1. CASE i \in DOMAIN q
    <3>1. CallAt(q, i) /\ p[i].id = q[i].id /\ q[i].id[1] < round /\ q[i].id[1] \in Nat
      <4>1. q[i] \in SearchEntry
        BY <1>3, <2>1, ElementOfSeq
      <4>2. q[i].id[1] \in Nat
        BY <4>1 DEF SearchEntry
      <4> QED BY <1>8, <2>1, <4>2
    <3>2. PICK j \in DOMAIN q : ResultAt(q, j) /\ q[j].id = q[i].id
      BY <2>1, <3>1 DEF Paired
    <3>3. j \in DOMAIN p /\ ResultAt(p, j) /\ p[j].id = p[i].id
      BY <1>4, <3>1, <3>2 DEF ResultAt
    <3> QED BY <3>1, <3>3
  <2>2. CASE i \notin DOMAIN q
    <3>1. i - Len(q) \in SearchCalls(output) /\ p[i].id = <<round, i - Len(q)>>
      BY <1>8, <2>2
    <3>2. p[i].id \in open /\ p[i].id[1] = round
      BY <3>1
    <3> QED BY <3>2
  <2> QED BY <2>1, <2>2
<1>13. \A x \in open : \E i \in DOMAIN p : CallAt(p, i) /\ p[i].id = x
  <2> SUFFICES ASSUME NEW k \in SearchCalls(output)
               PROVE  \E i \in DOMAIN p : CallAt(p, i) /\ p[i].id = <<round, k>>
    OBVIOUS
  <2>1. k \in DOMAIN output /\ output[k].kind \in SearchKinds
    BY DEF SearchCalls
  <2>2. k + Len(q) \in DOMAIN p /\ p[k + Len(q)] = output[k]
    BY <1>6, <2>1
  <2> QED BY <1>1, <2>1, <2>2 DEF CallAt
<1> HIDE DEF open
<1>14. Paired(p, runs, round, open)
  BY <1>9, <1>10, <1>11, <1>12, <1>13 DEF Paired
<1> QED BY <1>14 DEF p, open

\* Before anything is asked nothing is open.
LEMMA NothingPaired == ASSUME NEW runs, NEW round PROVE Paired(<<>>, runs, round, {})
BY DEF Paired

\* A search that was run closes its call.
LEMMA ResultPaired ==
  ASSUME NEW q \in Seq(SearchEntry), NEW runs \in Seq(SearchRun), NEW round, NEW open,
         Paired(q, runs, round, open), NEW x \in open \cap (Nat \X Nat),
         NEW run \in SearchRun, run.id = x
  PROVE  Paired(Append(q, Entry("result", x)), Append(runs, run), round, open \ {x})
<1> DEFINE e == Entry("result", x)
           p == Append(q, e)
           done == Append(runs, run)
           n == Len(q) + 1
<1>1. e \in SearchEntry /\ e.kind = "result" /\ e.id = x
  BY DEF Entry, SearchEntry
<1>2. /\ DOMAIN q = 1..Len(q) /\ Len(q) \in Nat
      /\ DOMAIN runs = 1..Len(runs) /\ Len(runs) \in Nat
  BY LenProperties
<1> HIDE DEF e
<1>3. /\ DOMAIN p = 1..n /\ p[n] = e /\ \A i \in 1..Len(q) : p[i] = q[i]
      /\ DOMAIN done = 1..(Len(runs) + 1) /\ done[Len(runs) + 1] = run
      /\ \A k \in 1..Len(runs) : done[k] = runs[k]
  BY <1>1, <1>2, AppendProperties
<1> HIDE DEF p, done
<1>4. \A i \in DOMAIN p : CallAt(p, i) => i \in DOMAIN q /\ CallAt(q, i) /\ p[i] = q[i]
  BY <1>1, <1>2, <1>3 DEF CallAt, SearchKinds
<1>5. \A i \in DOMAIN q : CallAt(q, i) => i \in DOMAIN p /\ CallAt(p, i) /\ p[i] = q[i]
  BY <1>2, <1>3 DEF CallAt
<1>6. \A i \in DOMAIN p : ResultAt(p, i) =>
        \/ i = n
        \/ i \in DOMAIN q /\ ResultAt(q, i) /\ p[i] = q[i]
  BY <1>2, <1>3 DEF ResultAt
<1>7. \A i \in DOMAIN q : ResultAt(q, i) => i \in DOMAIN p /\ ResultAt(p, i) /\ p[i] = q[i]
  BY <1>2, <1>3 DEF ResultAt
<1>8. \A i, j \in DOMAIN p : CallAt(p, i) /\ CallAt(p, j) /\ p[i].id = p[j].id => i = j
  BY <1>4 DEF Paired
<1>9. \A i \in DOMAIN q : ResultAt(q, i) => q[i].id # x
  BY DEF Paired
<1>10. \A i, j \in DOMAIN p : ResultAt(p, i) /\ ResultAt(p, j) /\ p[i].id = p[j].id => i = j
  <2> SUFFICES ASSUME NEW i \in DOMAIN p, NEW j \in DOMAIN p,
                      ResultAt(p, i), ResultAt(p, j), p[i].id = p[j].id
               PROVE  i = j
    OBVIOUS
  <2>1. p[n].id = x
    BY <1>1, <1>3
  <2>2. i = n => j = n
    BY <1>6, <1>9, <2>1
  <2>3. j = n => i = n
    BY <1>6, <1>9, <2>1
  <2> QED BY <1>6, <2>2, <2>3 DEF Paired
<1>11. PICK h \in DOMAIN q : CallAt(q, h) /\ q[h].id = x
  BY DEF Paired
<1>12. \A j \in DOMAIN p : ResultAt(p, j) =>
         /\ \E i \in DOMAIN p : i < j /\ CallAt(p, i) /\ p[i].id = p[j].id
         /\ \E k \in DOMAIN done : done[k].id = p[j].id
         /\ p[j].id \notin open \ {x}
  <2> SUFFICES ASSUME NEW j \in DOMAIN p, ResultAt(p, j)
               PROVE  /\ \E i \in DOMAIN p : i < j /\ CallAt(p, i) /\ p[i].id = p[j].id
                      /\ \E k \in DOMAIN done : done[k].id = p[j].id
                      /\ p[j].id \notin open \ {x}
    OBVIOUS
  <2>1. CASE j = n
    <3>1. p[j].id = x
      BY <1>1, <1>3, <2>1
    <3>2. h < j /\ h \in DOMAIN p /\ CallAt(p, h) /\ p[h].id = x
      BY <1>2, <1>5, <1>11, <2>1
    <3>3. Len(runs) + 1 \in DOMAIN done /\ done[Len(runs) + 1].id = x
      BY <1>2, <1>3
    <3> QED BY <3>1, <3>2, <3>3
  <2>2. CASE j # n
    <3>1. j \in DOMAIN q /\ ResultAt(q, j) /\ p[j] = q[j]
      BY <1>6, <2>2
    <3>2. PICK i \in DOMAIN q : i < j /\ CallAt(q, i) /\ q[i].id = q[j].id
      BY <3>1 DEF Paired
    <3>3. PICK k \in DOMAIN runs : runs[k].id = q[j].id
      BY <3>1 DEF Paired
    <3>4. i \in DOMAIN p /\ CallAt(p, i) /\ p[i].id = p[j].id
      BY <1>5, <3>1, <3>2
    <3>5. k \in DOMAIN done /\ done[k].id = p[j].id
      BY <1>2, <1>3, <3>1, <3>3
    <3>6. p[j].id \notin open
      BY <3>1 DEF Paired
    <3> QED BY <3>2, <3>4, <3>5, <3>6
  <2> QED BY <2>1, <2>2
<1>13. \A i \in DOMAIN p : CallAt(p, i) =>
         /\ p[i].id[1] <= round
         /\ \/ p[i].id \in open \ {x}
            \/ \E j \in DOMAIN p : ResultAt(p, j) /\ p[j].id = p[i].id
  <2> SUFFICES ASSUME NEW i \in DOMAIN p, CallAt(p, i)
               PROVE  /\ p[i].id[1] <= round
                      /\ \/ p[i].id \in open \ {x}
                         \/ \E j \in DOMAIN p : ResultAt(p, j) /\ p[j].id = p[i].id
    OBVIOUS
  <2>1. i \in DOMAIN q /\ CallAt(q, i) /\ p[i] = q[i]
    BY <1>4
  <2>2. /\ q[i].id[1] <= round
        /\ q[i].id \in open \/ \E j \in DOMAIN q : ResultAt(q, j) /\ q[j].id = q[i].id
    BY <2>1 DEF Paired
  <2>3. CASE q[i].id = x
    <3>1. n \in DOMAIN p /\ ResultAt(p, n) /\ p[n].id = x
      BY <1>1, <1>2, <1>3 DEF ResultAt
    <3> QED BY <2>1, <2>2, <2>3, <3>1
  <2>4. CASE q[i].id # x
    BY <1>7, <2>1, <2>2, <2>4
  <2> QED BY <2>3, <2>4
<1>14. \A y \in open \ {x} : \E i \in DOMAIN p : CallAt(p, i) /\ p[i].id = y
  BY <1>5 DEF Paired
<1>15. Paired(p, done, round, open \ {x})
  BY <1>8, <1>10, <1>12, <1>13, <1>14 DEF Paired
<1> QED BY <1>15 DEF p, done, e

\* At least one round is asked.
LEMMA RoundsPositive == Rounds \in Nat /\ Rounds > 0
<1>1. CASE MaxIterations = 0
  BY <1>1 DEF Rounds
<1>2. CASE MaxIterations # 0
  <2>1. Rounds = MaxIterations
    BY <1>2 DEF Rounds
  <2> QED BY <1>2, <2>1, SearchAssumption
<1> QED BY <1>1, <1>2

\* A sequence of one.
LEMMA Single ==
  ASSUME NEW S, NEW x \in S
  PROVE  <<x>> \in Seq(S) /\ Len(<<x>>) = 1 /\ DOMAIN <<x>> = 1..1 /\ <<x>>[1] = x
OBVIOUS

\* The rounds of the entries are numbers.
LEMMA EntryRound ==
  ASSUME NEW q \in Seq(SearchEntry)
  PROVE  \A k \in DOMAIN q : q[k].id[1] \in Int
<1> SUFFICES ASSUME NEW k \in DOMAIN q PROVE q[k].id[1] \in Int
  OBVIOUS
<1>1. q[k] \in SearchEntry
  BY LenProperties, ElementOfSeq
<1>2. q[k].id \in Nat \X Nat
  BY <1>1 DEF SearchEntry
<1> QED BY <1>2

\* A question is neither a call nor a result.
LEMMA QuestionPaired ==
  /\ <<Question>> \in Seq(SearchEntry)
  /\ Paired(<<Question>>, <<>>, 0, {}) /\ Paired(<<Question>>, <<>>, 1, {})
<1>1. Question \in SearchEntry /\ Question.kind = "question"
  BY DEF Question, Entry, SearchEntry
<1>2. <<Question>> \in Seq(SearchEntry) /\ DOMAIN <<Question>> = 1..1
      /\ <<Question>>[1] = Question
  BY <1>1, Single
<1>3. \A k \in DOMAIN <<Question>> :
        ~CallAt(<<Question>>, k) /\ ~ResultAt(<<Question>>, k)
  BY <1>1, <1>2 DEF CallAt, ResultAt, SearchKinds
<1> QED BY <1>2, <1>3, Zenon DEF Paired

\* A request that arrived with nothing asked but its question is in order.
LEMMA ArrivedInv ==
  ASSUME search' \in SearchState,
         search'.phase # "searching", search'.round = 1,
         Paired(search'.asked, search'.runs, 0, {}),
         Paired(search'.asked, search'.runs, 1, {})
  PROVE  SearchInv'
<1>1. search'.round \in 1..Rounds
  BY RoundsPositive
<1>2. Open(search') = {}
  BY DEF Open
<1>3. Paired(search'.asked, search'.runs,
             IF search'.phase = "asking" THEN search'.round - 1 ELSE search'.round,
             Open(search'))
  <2>1. (IF search'.phase = "asking" THEN search'.round - 1 ELSE search'.round) \in {0, 1}
    OBVIOUS
  <2> QED BY <1>2, <2>1
<1> QED BY <1>1, <1>2, <1>3 DEF SearchInv

\* A request arrives.
LEMMA ArriveInv ==
  ASSUME NEW tool \in BOOLEAN, NEW enabled \in BOOLEAN, NEW keyed \in BOOLEAN,
         NEW listed \in BOOLEAN, NEW continues \in BOOLEAN,
         Arrive(tool, enabled, keyed, listed, continues)
  PROVE  SearchInv'
<1> DEFINE phase == IF ~tool THEN "passed on"
                    ELSE IF enabled /\ keyed THEN "asking" ELSE "refused"
<1>1. search' = [phase |-> phase, listed |-> listed, asked |-> <<Question>>,
                 continues |-> continues, round |-> 1, output |-> <<>>,
                 todo |-> {}, runs |-> <<>>, bound |-> {}]
  BY DEF Arrive
<1>2. phase \in {"passed on", "refused", "asking"}
  OBVIOUS
<1> HIDE DEF phase
<1>3. <<>> \in Seq(SearchEntry) /\ <<>> \in Seq(SearchRun)
  BY EmptySeq
<1>4. search' \in SearchState
  BY <1>1, <1>2, <1>3, QuestionPaired DEF SearchState
<1>5. /\ search'.asked = <<Question>> /\ search'.runs = <<>> /\ search'.round = 1
      /\ search'.phase # "searching"
  BY <1>1, <1>2
<1> QED BY <1>4, <1>5, ArrivedInv, QuestionPaired

\* Fireworks answers.
LEMMA RespondInv ==
  ASSUME SearchInv, search # NoSearch, Respond
  PROVE  SearchInv'
<1>1. /\ search \in SearchState /\ search.round \in 1..Rounds /\ search.phase = "asking"
      /\ Paired(search.asked, search.runs, search.round - 1, {})
  BY DEF SearchInv, Respond, Open
<1>2. search.round \in Nat /\ search.round > 0
  BY <1>1, RoundsPositive
<1>3. PICK output \in Outputs(search.round) :
        search' = IF SearchCalls(output) = {}
                  THEN [search EXCEPT !.phase = "answered", !.output = output]
                  ELSE [search EXCEPT !.phase  = "searching",
                                      !.output = output,
                                      !.todo   = SearchCalls(output),
                                      !.bound  = @ \cup {search.round},
                                      !.asked  = Replay(search, output),
                                      !.listed = TRUE]
  BY DEF Respond
<1>4. /\ output \in Seq(SearchEntry)
      /\ \A k \in DOMAIN output : k \in Nat /\ output[k].id = <<search.round, k>>
  BY <1>2, OutputType
<1>5. CASE SearchCalls(output) = {}
  <2>1. search' = [search EXCEPT !.phase = "answered", !.output = output]
    BY <1>3, <1>5
  <2>2. search' \in SearchState
    BY <1>1, <1>4, <2>1 DEF SearchState
  <2>3. /\ search'.phase = "answered" /\ search'.round = search.round
        /\ search'.asked = search.asked /\ search'.runs = search.runs
    BY <1>1, <2>1 DEF SearchState
  <2>4. Paired(search.asked, search.runs, search.round, {})
    <3>1. \A k \in DOMAIN search.asked : search.asked[k].id[1] \in Int
      BY <1>1, EntryRound DEF SearchState
    <3> QED BY <1>1, <1>2, <3>1 DEF Paired
  <2>5. Open(search') = {}
    BY <2>3 DEF Open
  <2> QED BY <1>1, <2>2, <2>3, <2>4, <2>5 DEF SearchInv
<1>6. CASE SearchCalls(output) # {}
  <2> DEFINE q == IF search.listed THEN search.asked ELSE <<>>
             asked == q \o output
  <2>1. search' = [search EXCEPT !.phase  = "searching",
                                 !.output = output,
                                 !.todo   = SearchCalls(output),
                                 !.bound  = @ \cup {search.round},
                                 !.asked  = asked,
                                 !.listed = TRUE]
    BY <1>3, <1>6 DEF Replay
  <2>2. q \in Seq(SearchEntry) /\ Paired(q, search.runs, search.round - 1, {})
    BY <1>1, EmptySeq, NothingPaired DEF SearchState
  <2> HIDE DEF q
  <2>3. Paired(asked, search.runs, search.round,
               {<<search.round, k>> : k \in SearchCalls(output)})
    BY <1>2, <2>2, AnswerPaired
  <2>4. asked \in Seq(SearchEntry)
    BY <1>4, <2>2, ConcatProperties
  <2>5. SearchCalls(output) \in SUBSET Nat /\ SearchCalls(output) \subseteq DOMAIN output
    BY <1>4 DEF SearchCalls
  <2> HIDE DEF asked
  <2>6. search' \in SearchState
    BY <1>1, <1>2, <1>4, <2>1, <2>4, <2>5 DEF SearchState
  <2>7. /\ search'.phase = "searching" /\ search'.round = search.round
        /\ search'.asked = asked /\ search'.runs = search.runs
        /\ search'.todo = SearchCalls(output) /\ search'.output = output
    BY <1>1, <2>1 DEF SearchState
  <2>8. Open(search') = {<<search.round, k>> : k \in SearchCalls(output)}
    BY <2>7 DEF Open
  <2>9. Paired(search'.asked, search'.runs, search'.round, Open(search'))
    BY <2>3, <2>7, <2>8
  <2> QED BY <1>1, <1>4, <2>5, <2>6, <2>7, <2>9 DEF SearchInv
<1> QED BY <1>5, <1>6

\* A search is run.
LEMMA SearchRunInv ==
  ASSUME SearchInv, search # NoSearch, Search
  PROVE  SearchInv'
<1>1. /\ search \in SearchState /\ search.round \in 1..Rounds
      /\ search.phase = "searching"
      /\ Paired(search.asked, search.runs, search.round, Open(search))
      /\ \A k \in search.todo : /\ k \in DOMAIN search.output
                                /\ search.output[k].id = <<search.round, k>>
  BY DEF SearchInv, Search
<1>2. PICK k \in search.todo, found \in BOOLEAN :
        search' = [search EXCEPT
                     !.todo  = @ \ {k},
                     !.runs  = Append(@, [id |-> search.output[k].id, found |-> found]),
                     !.asked = Append(@, Entry("result", search.output[k].id))]
  BY DEF Search
<1> DEFINE x == <<search.round, k>>
           run == [id |-> x, found |-> found]
           asked == Append(search.asked, Entry("result", x))
           runs == Append(search.runs, run)
<1>3. /\ x \in Open(search) \cap (Nat \X Nat) /\ search.output[k].id = x
      /\ search.todo \subseteq Nat
  BY <1>1 DEF Open, SearchState
<1>4. /\ search.asked \in Seq(SearchEntry) /\ search.runs \in Seq(SearchRun)
      /\ run \in SearchRun /\ run.id = x /\ Entry("result", x) \in SearchEntry
  BY <1>1, <1>3 DEF SearchState, SearchRun, Entry, SearchEntry
<1>5. search' = [search EXCEPT !.todo = @ \ {k}, !.runs = runs, !.asked = asked]
  BY <1>2, <1>3
<1> HIDE DEF x, run
<1>6. Paired(asked, runs, search.round, Open(search) \ {x})
  BY <1>1, <1>3, <1>4, ResultPaired
<1>7. asked \in Seq(SearchEntry) /\ runs \in Seq(SearchRun)
  BY <1>4, AppendProperties
<1> HIDE DEF asked, runs
<1>8. search' \in SearchState
  BY <1>1, <1>3, <1>5, <1>7 DEF SearchState
<1>9. /\ search'.phase = "searching" /\ search'.round = search.round
      /\ search'.asked = asked /\ search'.runs = runs
      /\ search'.todo = search.todo \ {k} /\ search'.output = search.output
  BY <1>1, <1>5 DEF SearchState
<1>10. Open(search') = Open(search) \ {x}
  BY <1>1, <1>9 DEF Open, x
<1>11. Paired(search'.asked, search'.runs, search'.round, Open(search'))
  BY <1>6, <1>9, <1>10
<1> QED BY <1>1, <1>8, <1>9, <1>11 DEF SearchInv

\* The last search of a round is done, or Fireworks refused.
LEMMA RoundInv ==
  ASSUME SearchInv, search # NoSearch, NextRound \/ Refuse
  PROVE  SearchInv'
<1>1. /\ search \in SearchState /\ search.round \in 1..Rounds
      /\ Paired(search.asked, search.runs,
                IF search.phase = "asking" THEN search.round - 1 ELSE search.round,
                Open(search))
      /\ Open(search) = {}
  BY DEF SearchInv, NextRound, Refuse, Open
<1>2. search.round \in Nat /\ Rounds \in Nat
  BY <1>1, RoundsPositive
<1>3. CASE Refuse
  <2>1. search' = [search EXCEPT !.phase = "failed"] /\ search.phase = "asking"
    BY <1>3 DEF Refuse
  <2>2. search' \in SearchState
    BY <1>1, <2>1 DEF SearchState
  <2>3. /\ search'.phase = "failed" /\ search'.round = search.round
        /\ search'.asked = search.asked /\ search'.runs = search.runs
    BY <1>1, <2>1 DEF SearchState
  <2>4. Paired(search.asked, search.runs, search.round, {})
    <3>1. \A k \in DOMAIN search.asked : search.asked[k].id[1] \in Int
      BY <1>1, EntryRound DEF SearchState
    <3> QED BY <1>1, <1>2, <2>1, <3>1 DEF Paired
  <2>5. Open(search') = {}
    BY <2>3 DEF Open
  <2> QED BY <1>1, <2>2, <2>3, <2>4, <2>5 DEF SearchInv
<1>4. CASE NextRound
  <2>1. /\ search.phase = "searching"
        /\ search' = IF search.round < Rounds
                     THEN [search EXCEPT !.phase = "asking", !.round = @ + 1,
                                         !.continues = FALSE]
                     ELSE [search EXCEPT !.phase = "answered"]
    BY <1>4 DEF NextRound
  <2>2. Paired(search.asked, search.runs, search.round, {})
    BY <1>1, <2>1
  <2>3. search' \in SearchState
    <3>1. CASE search.round < Rounds
      <4>1. search' = [search EXCEPT !.phase = "asking", !.round = search.round + 1,
                                     !.continues = FALSE]
        BY <2>1, <3>1
      <4>2. search.round + 1 \in Nat /\ FALSE \in BOOLEAN
        BY <1>2
      <4> QED BY <1>1, <4>1, <4>2 DEF SearchState
    <3>2. CASE ~(search.round < Rounds)
      <4>1. search' = [search EXCEPT !.phase = "answered"]
        BY <2>1, <3>2
      <4> QED BY <1>1, <4>1 DEF SearchState
    <3> QED BY <3>1, <3>2
  <2>4. /\ search'.asked = search.asked /\ search'.runs = search.runs
        /\ \/ search'.phase = "asking" /\ search'.round = search.round + 1
              /\ search.round < Rounds
           \/ search'.phase = "answered" /\ search'.round = search.round
    BY <1>1, <2>1 DEF SearchState
  <2>5. Open(search') = {} /\ search'.phase # "searching"
    BY <2>4 DEF Open
  <2>6. search'.round \in 1..Rounds
    BY <1>1, <1>2, <2>4
  <2>7. Paired(search'.asked, search'.runs,
               IF search'.phase = "asking" THEN search'.round - 1 ELSE search'.round,
               Open(search'))
    <3>1. (IF search'.phase = "asking" THEN search'.round - 1 ELSE search'.round)
            = search.round
      BY <1>2, <2>4
    <3> QED BY <2>2, <2>4, <2>5, <3>1
  <2> QED BY <2>3, <2>5, <2>6, <2>7 DEF SearchInv
<1> QED BY <1>3, <1>4

\* The loop's invariant.
LEMMA SearchInvariant == Spec => []SearchInv
<1>1. Init => SearchInv
  BY DEF Init, SearchInv
<1>2. SearchInv /\ [Next]_vars => SearchInv'
  <2> SUFFICES ASSUME SearchInv, [Next]_vars PROVE SearchInv'
    OBVIOUS
  <2>1. CASE StartSearch
    BY <2>1, ArriveInv DEF StartSearch
  <2>2. CASE SearchStep
    <3>1. search # NoSearch
      <4>1. search.phase \in {"asking", "searching"}
        BY <2>2 DEF SearchStep, SearchNext, Respond, Refuse, Search, NextRound
      <4> QED BY <4>1 DEF NoSearch
    <3> QED BY <2>2, <3>1, RespondInv, SearchRunInv, RoundInv DEF SearchStep, SearchNext
  <2>3. CASE UNCHANGED search
    BY <2>3 DEF SearchInv, Open
  <2> QED BY <2>1, <2>2, <2>3 DEF Next, SayMore, AddItem, AddAnswer, AddEvent, vars
<1> QED BY <1>1, <1>2, PTL DEF Spec

\* As many results as calls, when none is open.
LEMMA PairedCount ==
  ASSUME NEW q \in Seq(SearchEntry), NEW runs, NEW round, Paired(q, runs, round, {})
  PROVE  Cardinality({i \in DOMAIN q : ResultAt(q, i)})
           = Cardinality({i \in DOMAIN q : CallAt(q, i)})
<1> DEFINE R == {i \in DOMAIN q : ResultAt(q, i)}
           C == {i \in DOMAIN q : CallAt(q, i)}
           f == [j \in R |-> CHOOSE i \in C : q[i].id = q[j].id]
<1>1. \A j \in R : f[j] \in C /\ q[f[j]].id = q[j].id
  BY DEF Paired
<1>2. \A j, k \in R : f[j] = f[k] => j = k
  BY <1>1 DEF Paired
<1>3. \A i \in C : \E j \in R : f[j] = i
  BY <1>1 DEF Paired
<1>4. f \in Bijection(R, C)
  BY <1>1, <1>2, <1>3 DEF Bijection, Injection, Surjection, IsInjective
<1>5. IsFiniteSet(R)
  <2>1. DOMAIN q = 1..Len(q) /\ Len(q) \in Nat
    BY LenProperties
  <2>2. IsFiniteSet(1..Len(q))
    BY <2>1, FS_Interval
  <2> QED BY <2>1, <2>2, FS_Subset
<1> HIDE DEF f, R, C
<1>6. ExistsBijection(R, C)
  BY <1>4 DEF ExistsBijection
<1> QED BY <1>5, <1>6, FS_Bijection DEF R, C

\* The web search loop never asks Fireworks again before every search it called
\* for is answered once and after its call, never answers what it did not call
\* for, and reports every search in the end, for every setting of the rounds and
\* whatever Fireworks answers.
THEOREM SearchesStayPaired == Spec => []SearchesPaired
<1>1. SearchInv => SearchesPaired
  <2> SUFFICES ASSUME SearchInv, search # NoSearch PROVE SearchesPaired
    BY DEF SearchesPaired
  <2> DEFINE q == search.asked
             C == {i \in DOMAIN q : CallAt(q, i)}
             R == {i \in DOMAIN q : ResultAt(q, i)}
  <2>1. /\ search \in SearchState /\ search.round \in 1..Rounds
        /\ Paired(q, search.runs,
                  IF search.phase = "asking" THEN search.round - 1 ELSE search.round,
                  Open(search))
    BY DEF SearchInv
  <2>2. q \in Seq(SearchEntry) /\ search.runs \in Seq(SearchRun)
        /\ search.output \in Seq(SearchEntry)
    BY <2>1 DEF SearchState
  <2>3. Places(SearchKinds) = C /\ Places({"result"}) = R
    BY DEF Places, CallAt, ResultAt
  <2>4. CASE search.phase = "asking"
    <3>1. Paired(q, search.runs, search.round - 1, {})
      BY <2>1, <2>4 DEF Open
    <3>2. search.round <= Rounds
      BY <2>1
    <3>3. \A i \in C : \E j \in R : q[j].id = q[i].id
      BY <3>1 DEF Paired
    <3>4. \A j \in R : \E i \in C : i < j /\ q[i].id = q[j].id
      BY <3>1 DEF Paired
    <3>5. Cardinality(R) = Cardinality(C)
      BY <2>2, <3>1, PairedCount
    <3> HIDE DEF C, R
    <3> QED BY <2>3, <2>4, <3>2, <3>3, <3>4, <3>5 DEF SearchesPaired
  <2>5. CASE search.phase = "answered"
    <3>1. Paired(q, search.runs, search.round, {})
      BY <2>1, <2>5 DEF Open
    <3>2. ASSUME NEW i \in C
          PROVE  \E k \in DOMAIN Response :
                   Response[k] = Entry("web_search_call", q[i].id)
      <4>1. PICK j \in DOMAIN q : ResultAt(q, j) /\ q[j].id = q[i].id
        BY <3>1 DEF Paired
      <4>2. PICK k \in DOMAIN search.runs : search.runs[k].id = q[i].id
        BY <3>1, <4>1 DEF Paired
      <4> DEFINE Item1 == [kind : {"web_search_call"} \cup OutputKinds \cup {"question", "result"},
                           id : Nat \X Nat]
                 told == [m \in DOMAIN search.runs |->
                            Entry("web_search_call", search.runs[m].id)]
      <4>3. DOMAIN search.runs = 1..Len(search.runs) /\ Len(search.runs) \in Nat
            /\ \A m \in DOMAIN search.runs : search.runs[m] \in SearchRun
        BY <2>2, LenProperties, ElementOfSeq
      <4>4. told \in [1..Len(search.runs) -> Item1]
        BY <4>3 DEF Entry, SearchRun
      <4>5. told \in Seq(Item1) /\ Len(told) = Len(search.runs)
        BY <4>3, <4>4, SeqDef, LenProperties
      <4>6. search.output \in Seq(Item1)
        <5>1. SearchEntry \subseteq Item1
          BY DEF SearchEntry
        <5> QED BY <2>2, <5>1, SeqMonotonic
      <4>7. told[k] = Entry("web_search_call", q[i].id)
        BY <4>2
      <4>8. Response = told \o search.output
        BY DEF Response
      <4> HIDE DEF told, Item1
      <4>9. k \in DOMAIN Response /\ Response[k] = told[k]
        <5>1. Len(search.output) \in Nat
          BY <4>6, LenProperties
        <5>2. /\ Response \in Seq(Item1)
              /\ Len(Response) = Len(told) + Len(search.output)
              /\ \A m \in 1..Len(told) + Len(search.output) :
                   Response[m] = IF m <= Len(told) THEN told[m]
                                 ELSE search.output[m - Len(told)]
          BY <4>5, <4>6, <4>8, ConcatProperties
        <5>3. DOMAIN Response = 1..Len(Response)
          BY <5>2, LenProperties
        <5>4. k \in 1..Len(told) /\ Len(told) \in Nat
          BY <4>2, <4>3, <4>5
        <5> QED BY <5>1, <5>2, <5>3, <5>4
      <4> QED BY <4>7, <4>9
    <3> HIDE DEF C, R
    <3> QED BY <2>3, <2>5, <3>2 DEF SearchesPaired
  <2>6. CASE search.phase \notin {"asking", "answered"}
    BY <2>6 DEF SearchesPaired
  <2> QED BY <2>4, <2>5, <2>6
<1> QED BY <1>1, SearchInvariant, PTL

-----------------------------------------------------------------------------
(* The accounting of a request.                                            *)

Counts == [input : Nat, output : Nat, cached : Nat, estimated : BOOLEAN]

Tally ==
  [stream : BOOLEAN, events : Seq(Payload), headers : Header, request : Seq(Piece), response : Seq(Piece),
   converted : Nat, tokenizer : Usages!Tokenizers]

TallyInv == tally = Nothing \/ tally \in Tally

\* The numbers of a part.
LEMMA UsageType ==
  ASSUME NEW part \in PartOrNone
  PROVE  Usages!UsageOf(part) \in Counts
<1>1. CASE part = Usages!NoPart
  BY <1>1 DEF Usages!UsageOf, Usages!NoUsage, Counts
<1>2. CASE part # Usages!NoPart
  <2>1. part \in Part
    BY <1>2 DEF PartOrNone
  <2>2. /\ part.input_tokens \in Nat /\ part.prompt_tokens \in Nat
        /\ part.output_tokens \in Nat /\ part.completion_tokens \in Nat
        /\ part.cached_tokens \in Nat /\ part.cache_creation + part.cache_read \in Nat
    BY <2>1 DEF Part
  <2>3. part.estimated \in BOOLEAN
    BY <2>1 DEF Part
  <2>4. \A a, b \in Nat : Usages!Larger(a, b) \in Nat
    BY DEF Usages!Larger
  <2> QED BY <1>2, <2>2, <2>3, <2>4 DEF Usages!UsageOf, Counts
<1> QED BY <1>1, <1>2

\* The numbers of a report are numbers.
LEMMA FieldsTyped ==
  ASSUME NEW u \in Counts, NEW field \in CountFields
  PROVE  u[field] \in Nat
BY DEF Counts, CountFields

\* The larger of two numbers.
LEMMA LargerIs ==
  ASSUME NEW x \in Nat, NEW y \in Nat
  PROVE  /\ Usages!Larger(x, y) \in {x, y} /\ Usages!Larger(x, y) \in Nat
         /\ Usages!Larger(x, y) >= x /\ Usages!Larger(x, y) >= y
BY DEF Usages!Larger

\* Merging two reports keeps the larger number of each field.
LEMMA MergeType ==
  ASSUME NEW a \in Counts, NEW b \in Counts
  PROVE  /\ Usages!Merge(a, b) \in Counts
         /\ \A field \in CountFields :
              Usages!Merge(a, b)[field] = Usages!Larger(a[field], b[field])
<1>1. /\ a.input \in Nat /\ a.output \in Nat /\ a.cached \in Nat
      /\ b.input \in Nat /\ b.output \in Nat /\ b.cached \in Nat
  BY DEF Counts
<1>2. (a.estimated \/ b.estimated) \in BOOLEAN
  OBVIOUS
<1>3. Usages!Merge(a, b) \in Counts
  BY <1>1, <1>2, LargerIs DEF Usages!Merge, Counts
<1>4. /\ Usages!Merge(a, b)["input"] = Usages!Larger(a["input"], b["input"])
      /\ Usages!Merge(a, b)["output"] = Usages!Larger(a["output"], b["output"])
      /\ Usages!Merge(a, b)["cached"] = Usages!Larger(a["cached"], b["cached"])
  BY DEF Usages!Merge
<1> QED BY <1>3, <1>4 DEF CountFields

\* x is the largest of the numbers S.
LargestOf(x, S) == x \in S /\ \A y \in S : y <= x

\* Two parts are read or one, and the larger number counts.
LEMMA ExtractLargest ==
  ASSUME NEW p \in Payload
  PROVE  /\ Usages!Extract(p) \in Counts
         /\ \A field \in CountFields : /\ NumbersIn(p, field) \subseteq Nat
                                      /\ LargestOf(Usages!Extract(p)[field], NumbersIn(p, field))
<1> DEFINE u(name) == Usages!UsageOf(p[name])
<1>1. \A name \in PartNames : u(name) \in Counts
  <2>1. \A name \in PartNames : p[name] \in PartOrNone
    BY DEF Payload, PartNames
  <2> QED BY <2>1, UsageType
<1>2. \A field \in CountFields : NumbersIn(p, field) = {u(name)[field] : name \in PartNames \ HiddenParts(p)}
  BY DEF NumbersIn
<1>3. \A field \in CountFields : \A name \in PartNames : u(name)[field] \in Nat
  BY <1>1, FieldsTyped
<1>4. \A field \in CountFields : NumbersIn(p, field) \subseteq Nat
  BY <1>2, <1>3
<1>5. ASSUME NEW own \in PartNames \ HiddenParts(p), NEW beside \in PartNames \ HiddenParts(p),
             \A name \in PartNames \ HiddenParts(p) :
               name \in {own, beside} \/ p[name] = Usages!NoPart,
             \A field \in CountFields :
               Usages!Extract(p)[field] = Usages!Larger(u(own)[field], u(beside)[field]),
             NEW field \in CountFields
      PROVE  LargestOf(Usages!Extract(p)[field], NumbersIn(p, field))
  <2>1. PICK x \in Nat, y \in Nat : x = u(own)[field] /\ y = u(beside)[field]
    BY <1>3
  <2>2. \A name \in PartNames : p[name] = Usages!NoPart => u(name)[field] = 0
    BY DEF Usages!UsageOf, Usages!NoUsage, CountFields
  <2>3. x \in NumbersIn(p, field) /\ y \in NumbersIn(p, field)
    BY <1>2, <2>1
  <2>4. \A z \in NumbersIn(p, field) : z \in {x, y, 0}
    BY <1>2, <1>5, <2>1, <2>2
  <2>5. Usages!Extract(p)[field] = Usages!Larger(x, y)
    BY <1>5, <2>1
  <2>6. PICK z : z = Usages!Extract(p)[field]
    OBVIOUS
  <2>7. z \in {x, y} /\ z >= x /\ z >= y /\ z \in Nat
    BY <2>5, <2>6, LargerIs
  <2> HIDE DEF u
  <2>8. z \in NumbersIn(p, field) /\ \A w \in NumbersIn(p, field) : w <= z
    BY ONLY x \in Nat, y \in Nat, <2>3, <2>4, <2>7
  <2> QED BY <2>6, <2>8 DEF LargestOf
<1>6. ASSUME NEW own \in PartNames, NEW beside \in PartNames,
             Usages!Extract(p) = Usages!Merge(u(own), u(beside))
      PROVE  /\ Usages!Extract(p) \in Counts
             /\ \A field \in CountFields :
                  Usages!Extract(p)[field] = Usages!Larger(u(own)[field], u(beside)[field])
  <2>1. PICK a, b : a = u(own) /\ b = u(beside)
    OBVIOUS
  <2>2. a \in Counts /\ b \in Counts
    BY <1>1, <2>1
  <2>3. Usages!Extract(p) = Usages!Merge(a, b)
    BY <1>6, <2>1
  <2>4. /\ Usages!Merge(a, b) \in Counts
        /\ \A field \in CountFields :
             Usages!Merge(a, b)[field] = Usages!Larger(a[field], b[field])
    BY <2>2, MergeType
  <2> QED BY ONLY <2>1, <2>3, <2>4, Zenon
<1>7. CASE p.usage # Usages!NoPart
  <2>1. PartNames \ HiddenParts(p) = {"usage", "perf"}
    BY <1>7 DEF PartNames, HiddenParts
  <2>2. Usages!Extract(p) = Usages!Merge(u("usage"), u("perf"))
    BY <1>7 DEF Usages!Extract
  <2>3. "usage" \in PartNames /\ "perf" \in PartNames
    BY DEF PartNames
  <2> HIDE DEF u
  <2> QED BY <1>4, <1>5, <1>6, <2>1, <2>2, <2>3
<1>8. CASE p.usage = Usages!NoPart /\ p.nested_usage # Usages!NoPart
  <2>1. PartNames \ HiddenParts(p) = {"usage", "nested_usage", "nested_perf"}
    BY <1>8 DEF PartNames, HiddenParts
  <2>2. Usages!Extract(p) = Usages!Merge(u("nested_usage"), u("nested_perf"))
    BY <1>8 DEF Usages!Extract
  <2>3. "nested_usage" \in PartNames /\ "nested_perf" \in PartNames /\ p["usage"] = Usages!NoPart
    BY <1>8 DEF PartNames
  <2> HIDE DEF u
  <2> QED BY <1>4, <1>5, <1>6, <2>1, <2>2, <2>3
<1>9. CASE p.usage = Usages!NoPart /\ p.nested_usage = Usages!NoPart
  <2>1. PartNames \ HiddenParts(p) = {"usage", "nested_usage", "perf"}
    BY <1>9 DEF PartNames, HiddenParts
  <2>2. Usages!Extract(p) = u("perf")
    BY <1>9 DEF Usages!Extract
  <2>3. "perf" \in PartNames /\ p["usage"] = Usages!NoPart /\ p["nested_usage"] = Usages!NoPart
    BY <1>9 DEF PartNames
  <2>4. \A x \in Nat : Usages!Larger(x, x) = x
    BY DEF Usages!Larger
  <2> HIDE DEF u
  <2>5. \A field \in CountFields :
          Usages!Extract(p)[field] = Usages!Larger(u("perf")[field], u("perf")[field])
    BY <1>3, <2>2, <2>3, <2>4
  <2> QED BY <1>1, <1>4, <1>5, <2>1, <2>2, <2>3, <2>5
<1> QED BY <1>7, <1>8, <1>9

\* The maximum of a set is the same whichever module names it.
LEMMA SameMax == \A S : Usages!Max(S) = Max(S)
BY DEF Usages!Max, Max

\* The collector's numbers grow event by event.
LEMMA CollectedCounts ==
  ASSUME NEW events \in Seq(Payload)
  PROVE  \E f \in [0 .. Len(events) -> Counts] :
           /\ f[0] = Usages!NoUsage
           /\ \A m \in 1 .. Len(events) :
                f[m] = Usages!Merge(f[m - 1], Usages!Extract(events[m]))
           /\ Usages!FoldLeft(LAMBDA u, e : Usages!Merge(u, Usages!Extract(e)),
                              Usages!NoUsage, events) = f[Len(events)]
<1> DEFINE n == Len(events)
           step == [i \in 1 .. n |-> [u \in Counts |-> Usages!Merge(u, Usages!Extract(events[i]))]]
           rule(it) == [s \in SUBSET DOMAIN events |->
                  IF s = {} THEN Usages!NoUsage
                  ELSE Usages!Merge(it[s \ {Usages!Max(s)}], Usages!Extract(events[Usages!Max(s)]))]
           fold == CHOOSE it : it = rule(it)
<1>1. n \in Nat /\ DOMAIN events = 1 .. n /\ \A i \in 1 .. n : events[i] \in Payload
  OBVIOUS
<1>2. Usages!NoUsage \in Counts
  BY DEF Usages!NoUsage, Counts
<1>3. \A i \in 1 .. n : \A u \in Counts : Usages!Merge(u, Usages!Extract(events[i])) \in Counts
  BY <1>1, ExtractLargest, MergeType
<1>4. /\ step \in [1 .. n -> [Counts -> Counts]]
      /\ \A i \in 1 .. n : \A u \in Counts :
           step[i][u] = Usages!Merge(u, Usages!Extract(events[i]))
  BY <1>3
<1>5. Usages!FoldLeft(LAMBDA u, e : Usages!Merge(u, Usages!Extract(e)),
                      Usages!NoUsage, events) = fold[1 .. n]
  BY <1>1 DEF Usages!FoldLeft, Usages!MapThenFoldSet
<1> HIDE DEF n, step
<1>6. \E g : g = rule(g)
  <2>1. PICK g : TakesLast(g, Counts, Usages!NoUsage, n, step)
    BY <1>1, <1>2, <1>4, FoldExists, Zenon
  <2>2. ASSUME NEW s \in SUBSET (1 .. n), s # {}
        PROVE  g[s] = Usages!Merge(g[s \ {Max(s)}], Usages!Extract(events[Max(s)]))
    <3>1. Max(s) \in 1 .. n /\ g[s \ {Max(s)}] \in Counts
      BY <1>1, <2>1, <2>2, LargestIn DEF TakesLast
    <3> QED BY <1>4, <2>1, <2>2, <3>1 DEF TakesLast
  <2>3. g = rule(g)
    BY <1>1, <2>1, <2>2, SameMax DEF TakesLast
  <2> QED BY <2>3
<1>7. fold = rule(fold)
  BY <1>6
<1> HIDE DEF fold
<1>8. TakesLastIn(fold, Counts, Usages!NoUsage, n, step)
  <2>1. fold[{}] = Usages!NoUsage
    BY <1>7
  <2>2. ASSUME NEW s \in SUBSET (1 .. n), s # {}, fold[s \ {Max(s)}] \in Counts
        PROVE  fold[s] = step[Max(s)][fold[s \ {Max(s)}]]
    <3>1. Max(s) \in 1 .. n
      BY <1>1, <2>2, LargestIn
    <3>2. fold[s] = Usages!Merge(fold[s \ {Max(s)}], Usages!Extract(events[Max(s)]))
      BY <1>1, <1>7, <2>2, SameMax
    <3> QED BY <1>4, <2>2, <3>1, <3>2
  <2> QED BY <2>1, <2>2 DEF TakesLastIn
<1>9. PICK f : Stepwise(f, Counts, Usages!NoUsage, n, step) /\ f[n] = fold[1 .. n]
  <2>1. n \in Nat /\ step \in [1 .. n -> [Counts -> Counts]]
    BY <1>1, <1>4
  <2>2. Folded(Counts, Usages!NoUsage, n, step, fold[1 .. n])
    BY ONLY <1>2, <1>8, <2>1, FoldPrefixes, Zenon
  <2> QED BY <2>2 DEF Folded
<1>10. ASSUME NEW m \in 1 .. n
       PROVE  f[m] = Usages!Merge(f[m - 1], Usages!Extract(events[m]))
  <2>1. f[m - 1] \in Counts
    BY <1>1, <1>9 DEF Stepwise
  <2> QED BY <1>4, <1>9, <2>1 DEF Stepwise
<1>11. f \in [0 .. n -> Counts] /\ f[0] = Usages!NoUsage
  BY <1>9 DEF Stepwise
<1> QED BY <1>5, <1>9, <1>10, <1>11 DEF n

\* A piece is estimated at a number of tokens.
LEMMA PieceType ==
  ASSUME NEW piece \in Piece, NEW precise \in BOOLEAN
  PROVE  Usages!PieceTokens(piece, precise) \in Nat
<1>1. piece.chars \in Nat /\ piece.kind \in {"text", "tool", "image", "file"}
  BY DEF Piece
<1>2. \A c \in Nat : Usages!CoarseTokens(c) \in Nat
  BY DEF Usages!CoarseTokens, Usages!CharsPerToken
<1>3. \A c \in Nat : Usages!CalibratedTokens(c) \in Nat
  BY DEF Usages!CalibratedTokens, Usages!Larger
<1>4. PICK t \in Nat : t = IF precise THEN Usages!CalibratedTokens(piece.chars)
                          ELSE Usages!CoarseTokens(piece.chars)
  BY <1>1, <1>2, <1>3
<1>5. Usages!ImageTokens \in Nat /\ 2 * t \in Nat
  BY <1>4 DEF Usages!ImageTokens
<1>6. Usages!PieceTokens(piece, precise) =
        CASE piece.kind = "text" -> t
          [] piece.kind = "tool" -> 2 * t
          [] piece.kind = "image" -> Usages!ImageTokens
          [] OTHER -> 0
  BY <1>4, Zenon DEF Usages!PieceTokens
<1> QED BY <1>1, <1>4, <1>5, <1>6

\* An estimate is a number of tokens.
LEMMA EstimateType ==
  ASSUME NEW pieces \in Seq(Piece), NEW precise \in BOOLEAN
  PROVE  Usages!Estimate(pieces, precise) \in Nat
<1> DEFINE n == Len(pieces)
           cost(i) == Usages!PieceTokens(pieces[i], precise)
           step == [i \in 1 .. n |-> [u \in Nat |-> u + cost(i)]]
           rule(it) == [s \in SUBSET DOMAIN pieces |->
                  IF s = {} THEN 0
                  ELSE it[s \ {Usages!Max(s)}] + cost(Usages!Max(s))]
           fold == CHOOSE it : it = rule(it)
<1>1. n \in Nat /\ DOMAIN pieces = 1 .. n /\ \A i \in 1 .. n : pieces[i] \in Piece
  OBVIOUS
<1>2. Usages!Estimate(pieces, precise) = fold[1 .. n]
  BY <1>1 DEF Usages!Estimate, Usages!FoldLeft, Usages!MapThenFoldSet
<1>3. \A i \in 1 .. n : cost(i) \in Nat
  BY <1>1, PieceType
<1> HIDE DEF n, cost
<1>4. /\ step \in [1 .. n -> [Nat -> Nat]]
      /\ \A i \in 1 .. n : \A u \in Nat : step[i][u] = u + cost(i)
  BY <1>3
<1>5. 0 \in Nat
  OBVIOUS
<1> HIDE DEF step
<1>6. \E g : g = rule(g)
  <2>1. PICK g : TakesLast(g, Nat, 0, n, step)
    BY <1>1, <1>4, <1>5, FoldExists, Zenon
  <2>2. ASSUME NEW s \in SUBSET (1 .. n), s # {}
        PROVE  g[s] = g[s \ {Max(s)}] + cost(Max(s))
    <3>1. Max(s) \in 1 .. n /\ g[s \ {Max(s)}] \in Nat
      BY <1>1, <2>1, <2>2, LargestIn DEF TakesLast
    <3> QED BY <1>4, <2>1, <2>2, <3>1 DEF TakesLast
  <2>3. g = rule(g)
    BY <1>1, <2>1, <2>2, SameMax DEF TakesLast
  <2> QED BY <2>3
<1>7. fold = rule(fold)
  BY <1>6
<1> HIDE DEF fold
<1>8. TakesLastIn(fold, Nat, 0, n, step)
  <2>1. fold[{}] = 0
    BY <1>7
  <2>2. ASSUME NEW s \in SUBSET (1 .. n), s # {}, fold[s \ {Max(s)}] \in Nat
        PROVE  fold[s] = step[Max(s)][fold[s \ {Max(s)}]]
    <3>1. Max(s) \in 1 .. n
      BY <1>1, <2>2, LargestIn
    <3>2. fold[s] = fold[s \ {Max(s)}] + cost(Max(s))
      BY <1>1, <1>7, <2>2, SameMax
    <3> QED BY <1>4, <2>2, <3>1, <3>2
  <2> QED BY <2>1, <2>2 DEF TakesLastIn
<1>9. PICK f : Stepwise(f, Nat, 0, n, step) /\ f[n] = fold[1 .. n]
  <2>1. n \in Nat /\ step \in [1 .. n -> [Nat -> Nat]]
    BY <1>1, <1>4
  <2>2. Folded(Nat, 0, n, step, fold[1 .. n])
    BY ONLY <1>5, <1>8, <2>1, FoldPrefixes, Zenon
  <2> QED BY <2>2 DEF Folded
<1> QED BY <1>1, <1>2, <1>9 DEF Stepwise

\* What the headers report of a field.
HeaderOf(headers, field) ==
  CASE field = "input"  -> headers.prompt
    [] field = "cached" -> headers.cached
    [] field = "output" -> 0

\* What the headers and the first m events report of a field.
NumbersUpto(events, headers, field, m) ==
  {HeaderOf(headers, field)} \cup UNION {NumbersIn(events[i], field) : i \in 1 .. m}

\* A field of what is collected from m events is the largest number of those
\* and the headers, if it is merged with the headers.
LEMMA CollectedLargest ==
  ASSUME NEW events \in Seq(Payload), NEW headers \in Header, NEW field \in CountFields,
         NEW f \in [0 .. Len(events) -> Counts], f[0] = Usages!NoUsage,
         \A m \in 1 .. Len(events) :
           f[m] = Usages!Merge(f[m - 1], Usages!Extract(events[m]))
  PROVE  \A m \in 0 .. Len(events) :
           LargestOf(Usages!Larger(f[m][field], HeaderOf(headers, field)),
                     NumbersUpto(events, headers, field, m))
<1> DEFINE n == Len(events)
           h == HeaderOf(headers, field)
           N(m) == NumbersUpto(events, headers, field, m)
           S == {m \in 0 .. n : LargestOf(Usages!Larger(f[m][field], h), N(m))}
<1>1. n \in Nat /\ \A i \in 1 .. n : events[i] \in Payload
  OBVIOUS
<1>2. h \in Nat
  BY DEF HeaderOf, Header, CountFields
<1>3. \A m \in 0 .. n : f[m][field] \in Nat
  <2>1. \A m \in 0 .. n : f[m] \in Counts
    OBVIOUS
  <2> QED BY <2>1, FieldsTyped
<1>4. 0 \in S
  <2>1. N(0) = {h}
    <3>1. 1 .. 0 = {}
      OBVIOUS
    <3> QED BY <3>1 DEF NumbersUpto
  <2>2. f[0][field] = 0
    BY DEF Usages!NoUsage, CountFields
  <2>3. Usages!Larger(0, h) = h
    BY <1>2 DEF Usages!Larger
  <2>4. 0 \in 0 .. n /\ h <= h
    BY <1>1, <1>2
  <2> HIDE DEF h, N
  <2> QED BY <2>1, <2>2, <2>3, <2>4 DEF LargestOf
<1>5. \A m \in 0 .. n - 1 : m \in S => m + 1 \in S
  <2> SUFFICES ASSUME NEW m \in 0 .. n - 1, m \in S PROVE m + 1 \in S
    OBVIOUS
  <2>1. m \in 0 .. n /\ m + 1 \in 1 .. n /\ m + 1 \in 0 .. n /\ m + 1 - 1 = m
    BY <1>1
  <2>2. PICK x : x = Usages!Extract(events[m + 1])
    OBVIOUS
  <2>3. PICK new : new = NumbersIn(events[m + 1], field)
    OBVIOUS
  <2>4. x \in Counts /\ new \subseteq Nat /\ LargestOf(x[field], new)
    BY <1>1, <2>1, <2>2, <2>3, ExtractLargest
  <2>5. f[m + 1][field] = Usages!Larger(f[m][field], x[field])
    <3>1. f[m] \in Counts
      BY <2>1
    <3>2. f[m + 1] = Usages!Merge(f[m], x)
      <4>1. f[m + 1] = Usages!Merge(f[m + 1 - 1], Usages!Extract(events[m + 1]))
        BY <2>1
      <4> QED BY <2>1, <2>2, <4>1
    <3> QED BY <2>4, <3>1, <3>2, MergeType
  <2>6. N(m + 1) = N(m) \cup new
    <3>1. 1 .. m + 1 = (1 .. m) \cup {m + 1}
      BY <2>1
    <3> QED BY <2>3, <3>1 DEF NumbersUpto
  <2>7. PICK a, b : a = f[m][field] /\ b = x[field]
    OBVIOUS
  <2>8. a \in Nat /\ b \in Nat
    BY <1>3, <2>1, <2>4, <2>7, FieldsTyped
  <2>9. LargestOf(Usages!Larger(a, h), N(m)) /\ LargestOf(b, new)
    BY <2>4, <2>7
  <2>10. /\ Usages!Larger(Usages!Larger(a, b), h) \in {Usages!Larger(a, h), b}
         /\ Usages!Larger(Usages!Larger(a, b), h) >= Usages!Larger(a, h)
         /\ Usages!Larger(Usages!Larger(a, b), h) >= b
         /\ Usages!Larger(Usages!Larger(a, b), h) \in Nat
         /\ Usages!Larger(a, h) \in Nat
    BY <1>2, <2>8 DEF Usages!Larger
  <2>11. N(m) \subseteq Nat
    <3>1. \A i \in 1 .. m : NumbersIn(events[i], field) \subseteq Nat
      <4>1. \A i \in 1 .. m : i \in 1 .. n
        BY <1>1, <2>1
      <4> QED BY <1>1, <4>1, ExtractLargest
    <3> QED BY <1>2, <3>1 DEF NumbersUpto
  <2> HIDE DEF h, N
  <2>12. PICK top, both : top = Usages!Larger(a, h) /\ both = Usages!Larger(Usages!Larger(a, b), h)
    OBVIOUS
  <2>13. LargestOf(both, N(m) \cup new)
    <3>1. top \in Nat /\ both \in Nat /\ both \in {top, b} /\ both >= top /\ both >= b
      BY <2>10, <2>12
    <3>2. LargestOf(top, N(m)) /\ LargestOf(b, new)
      BY <2>9, <2>12
    <3> QED BY ONLY <2>4, <2>8, <2>11, <3>1, <3>2 DEF LargestOf
  <2> QED BY <2>1, <2>5, <2>6, <2>7, <2>12, <2>13
<1> HIDE DEF S
<1>6. \A m \in 0 .. n : m \in S
  BY ONLY <1>1, <1>4, <1>5, Induction
<1> QED BY <1>6 DEF S

\* The report of a request is typed, and each of its numbers the largest one.
LEMMA ReportedLargest ==
  ASSUME NEW events \in Seq(Payload), NEW headers \in Header
  PROVE  /\ Usages!Reported(events, headers) \in Counts
         /\ \A field \in CountFields :
              LargestOf(Usages!Reported(events, headers)[field],
                        NumbersUpto(events, headers, field, Len(events)))
<1> DEFINE n == Len(events)
           top == Usages!FoldLeft(LAMBDA u, e : Usages!Merge(u, Usages!Extract(e)),
                                  Usages!NoUsage, events)
           rest == Usages!FromHeaders(headers)
<1>1. PICK f \in [0 .. n -> Counts] :
           /\ f[0] = Usages!NoUsage
           /\ \A m \in 1 .. n : f[m] = Usages!Merge(f[m - 1], Usages!Extract(events[m]))
           /\ top = f[n]
  BY CollectedCounts
<1>2. n \in 0 .. n
  OBVIOUS
<1>3. rest \in Counts /\ \A field \in CountFields : rest[field] = HeaderOf(headers, field)
  <2>1. rest = [input |-> headers.prompt, output |-> 0, cached |-> headers.cached,
                estimated |-> FALSE]
    BY DEF Usages!FromHeaders, Usages!NoUsage
  <2>2. headers.prompt \in Nat /\ headers.cached \in Nat
    BY DEF Header
  <2> HIDE DEF rest
  <2> QED BY <2>1, <2>2 DEF Counts, HeaderOf, CountFields
<1>4. Usages!Reported(events, headers) = Usages!Merge(top, rest)
  BY DEF Usages!Reported
<1> HIDE DEF top, rest
<1>5. top \in Counts
  BY <1>1, <1>2
<1>6. /\ Usages!Reported(events, headers) \in Counts
      /\ \A field \in CountFields :
           Usages!Reported(events, headers)[field] = Usages!Larger(top[field], rest[field])
  BY <1>3, <1>4, <1>5, MergeType
<1>7. ASSUME NEW field \in CountFields
      PROVE  LargestOf(Usages!Larger(top[field], HeaderOf(headers, field)),
                       NumbersUpto(events, headers, field, n))
  BY <1>1, <1>2, CollectedLargest
<1> QED BY <1>3, <1>6, <1>7 DEF n

\* What an estimate makes of a report: it lowers nothing, changes nothing that
\* is complete, and marks what it changes.
Estimated(u, v) ==
  /\ v \in Counts
  /\ v.input >= u.input /\ v.output >= u.output /\ v.cached = u.cached
  /\ u.input # 0 /\ u.output # 0 => v = u
  /\ Usages!LoggedUsage(v) # Usages!LoggedUsage(u) => v.estimated
  /\ u.estimated => v.estimated

\* The fields that an estimate sets.
LEMMA EstimateFields ==
  ASSUME NEW u \in Counts, NEW input \in Nat, NEW output \in Nat,
         input >= u.input, output >= u.output, ~(u.input # 0 /\ u.output # 0)
  PROVE  /\ Estimated(u, [u EXCEPT !.input = input, !.output = output, !.estimated = TRUE])
         /\ input = u.input =>
              Estimated(u, [u EXCEPT !.output = output, !.estimated = TRUE])
         /\ output = u.output =>
              Estimated(u, [u EXCEPT !.input = input, !.estimated = TRUE])
<1>1. u.input \in Nat /\ u.output \in Nat
  BY DEF Counts
<1>2. Estimated(u, [u EXCEPT !.input = input, !.output = output, !.estimated = TRUE])
  BY DEF Estimated, Counts
<1>3. input = u.input => Estimated(u, [u EXCEPT !.output = output, !.estimated = TRUE])
  BY <1>1 DEF Estimated, Counts
<1>4. output = u.output => Estimated(u, [u EXCEPT !.input = input, !.estimated = TRUE])
  BY <1>1 DEF Estimated, Counts
<1> QED BY <1>2, <1>3, <1>4

\* A report that stays as it is.
LEMMA EstimateSame == \A u \in Counts : Estimated(u, u)
BY DEF Estimated, Counts

\* One estimate after another.
LEMMA EstimateTwice ==
  ASSUME NEW u \in Counts, NEW v \in Counts, NEW w \in Counts,
         Estimated(u, v), Estimated(v, w)
  PROVE  Estimated(u, w)
<1>1. /\ u.input \in Nat /\ u.output \in Nat /\ v.input \in Nat /\ v.output \in Nat
      /\ w.input \in Nat /\ w.output \in Nat
  BY DEF Counts
<1>2. w.input >= u.input /\ w.output >= u.output /\ w.cached = u.cached
  BY <1>1 DEF Estimated
<1>3. ASSUME u.input # 0 /\ u.output # 0 PROVE w = u
  <2>1. v = u
    BY <1>3 DEF Estimated
  <2> QED BY <1>3, <2>1 DEF Estimated
<1>4. u.estimated => w.estimated
  BY Zenon DEF Estimated
<1>5. Usages!LoggedUsage(w) # Usages!LoggedUsage(u) => w.estimated
  <2>1. CASE Usages!LoggedUsage(w) # Usages!LoggedUsage(v)
    BY <2>1, Zenon DEF Estimated
  <2>2. CASE Usages!LoggedUsage(v) # Usages!LoggedUsage(u)
    BY <2>2, Zenon DEF Estimated
  <2> QED BY <2>1, <2>2
<1> QED BY <1>2, <1>3, <1>4, <1>5, Zenon DEF Estimated

\* maybe_estimate_usage, both attempts.
LEMMA MaybeEstimateType ==
  ASSUME NEW u \in Counts, NEW request \in Seq(Piece), NEW response \in Seq(Piece),
         NEW tokenizer
  PROVE  Estimated(u, Usages!MaybeEstimate(u, request, response, tokenizer))
<1> DEFINE first == Usages!TokenizerEstimate(u, request, response, tokenizer)
<1>1. u.input \in Nat /\ u.output \in Nat
  BY DEF Counts
<1>2. \A x, y \in Nat : Usages!Larger(x, y) \in Nat /\ Usages!Larger(x, y) >= x
  BY DEF Usages!Larger
<1>3. ASSUME ~(u.input # 0 /\ u.output # 0) PROVE Estimated(u, first)
  <2> DEFINE precise == tokenizer = "calibrated"
             input == Usages!Estimate(request, precise)
             output == Usages!Estimate(response, precise)
             v == [u EXCEPT !.input = Usages!Larger(u.input, input),
                            !.output = Usages!Larger(u.output, output), !.estimated = TRUE]
  <2>1. precise \in BOOLEAN
    OBVIOUS
  <2>2. input \in Nat /\ output \in Nat
    <3> HIDE DEF precise
    <3> QED BY <2>1, EstimateType, Zenon
  <2>3. first = u \/ first = v
    BY DEF Usages!TokenizerEstimate
  <2> HIDE DEF input, output, first
  <2>4. /\ Usages!Larger(u.input, input) \in Nat /\ Usages!Larger(u.output, output) \in Nat
        /\ Usages!Larger(u.input, input) >= u.input
        /\ Usages!Larger(u.output, output) >= u.output
    BY <1>1, <1>2, <2>2
  <2>5. Estimated(u, v)
    BY <1>3, <2>4, EstimateFields
  <2> QED BY <2>3, <2>5, EstimateSame
<1> HIDE DEF first
<1>4. ASSUME NEW v \in Counts, ~(v.input # 0 /\ v.output # 0)
      PROVE  LET w == Usages!CoarseEstimate(v, request, response)
             IN  Estimated(v, w)
  <2> DEFINE input == Usages!Estimate(request, FALSE)
             output == Usages!Estimate(response, FALSE)
             w == Usages!CoarseEstimate(v, request, response)
             both == [v EXCEPT !.input = input, !.output = output, !.estimated = TRUE]
             one == [v EXCEPT !.input = input, !.estimated = TRUE]
             other == [v EXCEPT !.output = output, !.estimated = TRUE]
  <2> SUFFICES Estimated(v, w)
    OBVIOUS
  <2>1. input \in Nat /\ output \in Nat
    BY EstimateType
  <2>2. v.input \in Nat /\ v.output \in Nat
    BY DEF Counts
  <2>3. w = IF v.input = 0 /\ v.output = 0 THEN both
            ELSE IF v.input = 0 THEN one
            ELSE IF v.output = 0 /\ output # 0 THEN other ELSE v
    BY DEF Usages!CoarseEstimate
  <2> HIDE DEF w, input, output
  <2>5. CASE v.input = 0 /\ v.output = 0
    <3>1. w = both /\ input >= v.input /\ output >= v.output
      BY <2>1, <2>3, <2>5
    <3>2. Estimated(v, both)
      BY <1>4, <2>1, <3>1, EstimateFields
    <3> QED BY <3>1, <3>2, Zenon
  <2>6. CASE v.input = 0 /\ v.output # 0
    <3>1. w = one /\ input >= v.input
      BY <2>1, <2>3, <2>6
    <3>2. v.output >= v.output
      BY <2>2
    <3>3. Estimated(v, one)
      BY <1>4, <2>1, <2>2, <3>1, <3>2, EstimateFields
    <3> QED BY <3>1, <3>3, Zenon
  <2>7. CASE v.input # 0 /\ v.output = 0 /\ output # 0
    <3>1. w = other /\ output >= v.output
      BY <2>1, <2>3, <2>7
    <3>2. v.input >= v.input
      BY <2>2
    <3>3. Estimated(v, other)
      BY <1>4, <2>1, <2>2, <3>1, <3>2, EstimateFields
    <3> QED BY <3>1, <3>3, Zenon
  <2>8. CASE v.input # 0 /\ ~(v.output = 0 /\ output # 0)
    <3>1. w = v
      BY <2>3, <2>8
    <3> QED BY <3>1, EstimateSame
  <2> QED BY <2>5, <2>6, <2>7, <2>8
<1>5. CASE u.input # 0 /\ u.output # 0
  BY <1>5, EstimateSame DEF Usages!MaybeEstimate
<1>6. CASE ~(u.input # 0 /\ u.output # 0)
  <2> DEFINE w == Usages!CoarseEstimate(first, request, response)
  <2>1. Estimated(u, first) /\ first \in Counts
    BY <1>3, <1>6 DEF Estimated
  <2>2. CASE first.input # 0 /\ first.output # 0
    <3>1. Usages!MaybeEstimate(u, request, response, tokenizer) = first
      BY <1>6, <2>2 DEF Usages!MaybeEstimate, first
    <3> QED BY <2>1, <3>1
  <2>3. CASE ~(first.input # 0 /\ first.output # 0)
    <3>1. Usages!MaybeEstimate(u, request, response, tokenizer) = w
      BY <1>6, <2>3 DEF Usages!MaybeEstimate, first
    <3>2. Estimated(first, w)
      BY <1>4, <2>1, <2>3
    <3> HIDE DEF w
    <3>3. w \in Counts
      BY <3>2 DEF Estimated
    <3> QED BY <2>1, <3>1, <3>2, <3>3, EstimateTwice
  <2> QED BY <2>2, <2>3
<1> QED BY <1>5, <1>6

\* finalize_stream: what the converter counted, then an estimate.
LEMMA StreamUsageType ==
  ASSUME NEW u \in Counts, NEW request \in Seq(Piece), NEW converted \in Nat, NEW tokenizer
  PROVE  Estimated(u, Usages!StreamUsage(u, request, converted, tokenizer))
<1> DEFINE counted == [u EXCEPT !.output = converted, !.estimated = TRUE]
           filled == IF u.output = 0 /\ converted # 0 THEN counted ELSE u
           w == Usages!MaybeEstimate(filled, request, <<>>, tokenizer)
<1>1. u.input \in Nat /\ u.output \in Nat /\ u.input >= u.input
  BY DEF Counts
<1>2. Estimated(u, filled)
  <2>1. CASE u.output = 0 /\ converted # 0
    <3>1. converted >= u.output
      BY <2>1
    <3>2. Estimated(u, counted)
      BY <1>1, <2>1, <3>1, EstimateFields
    <3> QED BY <2>1, <3>2
  <2>2. CASE ~(u.output = 0 /\ converted # 0)
    BY <2>2, EstimateSame
  <2> QED BY <2>1, <2>2
<1>3. filled \in Counts
  BY <1>2 DEF Estimated
<1>5. Usages!StreamUsage(u, request, converted, tokenizer) =
        IF u.input = 0 \/ filled.output = 0 THEN w ELSE filled
  BY DEF Usages!StreamUsage
<1> HIDE DEF filled
<1>6. Estimated(filled, w)
  <2>1. <<>> \in Seq(Piece)
    OBVIOUS
  <2> QED BY <1>3, <2>1, MaybeEstimateType
<1> HIDE DEF w
<1>7. Estimated(u, w)
  <2>1. w \in Counts
    BY <1>6 DEF Estimated
  <2> QED BY <1>2, <1>3, <1>6, <2>1, EstimateTwice
<1> QED BY <1>2, <1>5, <1>7, Zenon


\* The account of a request, streamed or not.
LEMMA AccountedType ==
  ASSUME NEW t \in Tally
  PROVE  Estimated(Usages!Reported(t.events, t.headers), Usages!Accounted(t))
<1> DEFINE said == Usages!Reported(t.events, t.headers)
<1>1. /\ t.events \in Seq(Payload) /\ t.headers \in Header
      /\ t.request \in Seq(Piece) /\ t.response \in Seq(Piece) /\ t.converted \in Nat
  BY DEF Tally
<1>2. said \in Counts
  BY <1>1, ReportedLargest
<1>3. Usages!Accounted(t) = IF t.stream THEN Usages!StreamUsage(said, t.request, t.converted, t.tokenizer)
                            ELSE Usages!MaybeEstimate(said, t.request, t.response, t.tokenizer)
  BY DEF Usages!Accounted
<1> HIDE DEF said
<1>4. Estimated(said, Usages!StreamUsage(said, t.request, t.converted, t.tokenizer))
  BY <1>1, <1>2, StreamUsageType
<1>5. Estimated(said, Usages!MaybeEstimate(said, t.request, t.response, t.tokenizer))
  BY <1>1, <1>2, MaybeEstimateType
<1> QED BY <1>3, <1>4, <1>5, Zenon DEF said

\* A tally starts empty and collects payloads.
LEMMA TallyInvariant == Spec => []TallyInv
<1>1. Init => TallyInv
  <2>1. ASSUME TallyInit PROVE tally \in Tally
    <3>1. PICK stream \in BOOLEAN, headers \in Headers, request \in Contents,
               response \in Contents, tokenizer \in Usages!Tokenizers :
            tally = [stream |-> stream, events |-> <<>>, headers |-> headers,
                     request |-> request, response |-> IF stream THEN <<>> ELSE response,
                     converted |-> IF stream THEN Len(response) ELSE 0,
                     tokenizer |-> tokenizer]
      BY <2>1, Zenon DEF TallyInit
    <3>2. /\ request \in Seq(Piece) /\ response \in Seq(Piece) /\ Len(response) \in Nat
          /\ <<>> \in Seq(Piece) /\ <<>> \in Seq(Payload) /\ headers \in Header
      BY ReportsAssumption
    <3>3. PICK answered \in Seq(Piece) : answered = IF stream THEN <<>> ELSE response
      BY <3>2, Zenon
    <3>4. PICK converted \in Nat : converted = IF stream THEN Len(response) ELSE 0
      BY <3>2
    <3>5. tally = [stream |-> stream, events |-> <<>>, headers |-> headers,
                   request |-> request, response |-> answered,
                   converted |-> converted, tokenizer |-> tokenizer]
      BY <3>1, <3>3, <3>4, Zenon
    <3> QED BY ONLY <3>2, <3>5 DEF Tally
  <2> QED BY <2>1 DEF Init, TallyInv
<1>2. TallyInv /\ [Next]_vars => TallyInv'
  <2> SUFFICES ASSUME TallyInv, [Next]_vars PROVE TallyInv'
    OBVIOUS
  <2>1. CASE AddEvent
    <3>1. PICK payload \in Payloads : tally' = [tally EXCEPT !.events = Append(@, payload)]
      BY <2>1 DEF AddEvent
    <3>2. tally \in Tally /\ payload \in Payload
      BY <2>1, ReportsAssumption DEF AddEvent, TallyInv
    <3>3. Append(tally.events, payload) \in Seq(Payload)
      BY <3>2 DEF Tally
    <3>4. tally' \in Tally
      BY <3>1, <3>2, <3>3 DEF Tally
    <3> QED BY <3>4 DEF TallyInv
  <2>2. CASE UNCHANGED tally
    BY <2>2 DEF TallyInv
  <2>3. SayMore \/ AddItem \/ AddAnswer \/ StartSearch \/ SearchStep => UNCHANGED tally
    BY DEF SayMore, AddItem, AddAnswer, StartSearch, SearchStep
  <2>4. UNCHANGED vars => UNCHANGED tally
    BY DEF vars
  <2> QED BY <2>1, <2>2, <2>3, <2>4 DEF Next
<1> QED BY <1>1, <1>2, PTL DEF Spec

\* The maximum of a set is its largest number.
LEMMA LargestIsMax ==
  ASSUME NEW S \in SUBSET Nat, NEW x, LargestOf(x, S)
  PROVE  Max(S) = x
<1>1. x \in S /\ x \in Nat /\ \A y \in S : y \in Nat /\ x >= y
  BY DEF LargestOf
<1>2. \A z \in S : (\A y \in S : z >= y) => z = x
  BY <1>1
<1> QED BY <1>1, <1>2, Zenon DEF Max

\* For every report, event by event, in any part of a body or in the headers: a
\* request is accounted with the largest number of each field that was read,
\* a complete report is kept as it is, no number is lowered, and what an
\* estimate changes is marked (usage.py, usage_estimator.py, proxy.py).
THEOREM ReportsAreNeverLowered == Spec => []ReportedCountsStand
<1>1. TallyInv => ReportedCountsStand
  <2> SUFFICES ASSUME TallyInv, tally # Nothing
               PROVE  LET row  == Usages!Accounted(tally)
                          said == Usages!Reported(tally.events, tally.headers)
                      IN  /\ \A field \in CountFields : said[field] = MostReported(field)
                          /\ row.input >= said.input /\ row.output >= said.output
                             /\ row.cached = said.cached
                          /\ said.input # 0 /\ said.output # 0 => row = said
                          /\ Usages!LoggedUsage(row) # Usages!LoggedUsage(said) => row.estimated
    BY DEF ReportedCountsStand
  <2> DEFINE row == Usages!Accounted(tally)
             said == Usages!Reported(tally.events, tally.headers)
  <2>1. tally \in Tally
    BY DEF TallyInv
  <2>2. tally.events \in Seq(Payload) /\ tally.headers \in Header
    BY <2>1 DEF Tally
  <2>3. Estimated(said, row)
    BY <2>1, AccountedType
  <2>4. /\ said \in Counts
        /\ \A field \in CountFields :
             LargestOf(said[field],
                       NumbersUpto(tally.events, tally.headers, field, Len(tally.events)))
    BY <2>2, ReportedLargest
  <2> HIDE DEF row, said
  <2>5. ASSUME NEW field \in CountFields PROVE said[field] = MostReported(field)
    <3>1. DOMAIN tally.events = 1 .. Len(tally.events)
      BY <2>2
    <3>2. Numbers(field)
            = NumbersUpto(tally.events, tally.headers, field, Len(tally.events))
      BY <3>1 DEF Numbers, NumbersUpto, HeaderNumber, HeaderOf
    <3>3. HeaderNumber(field) \in Nat
      BY <2>2 DEF HeaderNumber, Header, CountFields
    <3>4. \A i \in DOMAIN tally.events : NumbersIn(tally.events[i], field) \subseteq Nat
      <4>1. \A i \in DOMAIN tally.events : tally.events[i] \in Payload
        BY <2>2
      <4> QED BY <4>1, ExtractLargest
    <3>5. PICK S : S = Numbers(field)
      OBVIOUS
    <3>6. S \in SUBSET Nat
      BY <3>3, <3>4, <3>5 DEF Numbers
    <3>7. LargestOf(said[field], S)
      BY <2>4, <3>2, <3>5
    <3>8. Max(S) = said[field]
      BY ONLY <3>6, <3>7, LargestIsMax
    <3> QED BY <3>5, <3>8 DEF MostReported
  <2>6. row.input >= said.input /\ row.output >= said.output /\ row.cached = said.cached
    BY <2>3 DEF Estimated
  <2>7. /\ said.input # 0 /\ said.output # 0 => row = said
        /\ Usages!LoggedUsage(row) # Usages!LoggedUsage(said) => row.estimated
    BY <2>3, Zenon DEF Estimated
  <2> QED BY <2>5, <2>6, <2>7, Zenon DEF row, said
<1> QED BY <1>1, TallyInvariant, PTL

-----------------------------------------------------------------------------
(* Conversations that are rewritten for the chat endpoint, message by      *)
(* message.                                                                *)
Ids == {c1, c2, NoId}

Speakers == {"developer", "system", "user", "assistant"}

\* An item a client can send: only what is said, reasoning and outputs have a
\* text, and the shorthands for a message have the role they stand for.
ClientItem ==
  {x \in [type : ItemTypes, role : Speakers, text : Nat, id : Ids] :
     /\ x.type \in {"function_call", "unknown", "picture"} => x.text = Blank
     /\ x.type = "output_text" => x.role = "assistant"
     /\ x.type \in {"string", "input_text"} => x.role = "user"}

\* A message of the chat endpoint; an answer does not call.
ChatMessage ==
  {m \in [role : Speakers \cup {"tool"}, text : Nat, calls : Seq(Ids), reasoning : Nat, id : Ids] :
     m.role = "tool" => m.calls = <<>>}

\* What is said aloud, by messages and by items.
Aloud == {m \in ChatMessage : m.role # "tool" /\ m.text # Blank}
AloudItems ==
  {x \in ClientItem : x.text # Blank /\ x.type \notin {"reasoning", "function_call_output"}}

Sayings == (Speakers \cup {"tool"}) \X Nat
SayingOf == [m \in ChatMessage |-> <<m.role, m.text>>]
ItemSayingOf == [x \in ClientItem |-> <<ChatRole(x), x.text>>]

\* Each message and each item says one thing.
LEMMA SayingsTyped ==
  Values(SayingOf, ChatMessage, Sayings) /\ Values(ItemSayingOf, ClientItem, Sayings)
<1>1. \A m \in ChatMessage : <<m.role, m.text>> \in Sayings
  BY DEF ChatMessage, Sayings
<1>2. \A x \in ClientItem : <<ChatRole(x), x.text>> \in Sayings
  BY DEF ClientItem, Sayings, ChatRole, Speakers
<1> QED BY <1>1, <1>2 DEF Values, SayingOf, ItemSayingOf

\* What a conversation says is picked from its messages.
LEMMA TextsPicked == ASSUME NEW t \in Seq(ChatMessage) PROVE Texts(t) = Picked(t, Aloud, SayingOf)
<1>1. {i \in DOMAIN t : t[i].role # "tool" /\ t[i].text # Blank} = {i \in DOMAIN t : t[i] \in Aloud}
  <2>1. \A i \in DOMAIN t : t[i] \in ChatMessage
    OBVIOUS
  <2> QED BY <2>1 DEF Aloud
<1>2. PICK k : k = KeptOf(t, Aloud)
  OBVIOUS
<1>3. k = Where(t, {i \in DOMAIN t : t[i].role # "tool" /\ t[i].text # Blank})
  BY <1>1, <1>2 DEF KeptOf
<1>4. Texts(t) = [i \in DOMAIN k |-> <<k[i].role, k[i].text>>]
  BY <1>3 DEF Texts
<1>5. k \in Seq(ChatMessage)
  <2>1. KeptOf(t, Aloud) \in Seq(ChatMessage \cap Aloud)
    BY KeptIn
  <2> QED BY <1>2, <2>1
<1>6. \A i \in DOMAIN k : SayingOf[k[i]] = <<k[i].role, k[i].text>>
  <2>1. \A i \in DOMAIN k : k[i] \in ChatMessage
    BY <1>5
  <2> QED BY <2>1 DEF SayingOf
<1> QED BY <1>2, <1>4, <1>6 DEF Picked, Each

\* What a client says is picked from its items.
LEMMA SaidPicked ==
  ASSUME NEW t \in Seq(ClientItem) PROVE SaidIn(t) = Picked(t, AloudItems, ItemSayingOf)
<1>1. {i \in DOMAIN t : /\ t[i].text # Blank
                        /\ t[i].type \notin {"reasoning", "function_call_output"}}
        = {i \in DOMAIN t : t[i] \in AloudItems}
  <2>1. \A i \in DOMAIN t : t[i] \in ClientItem
    OBVIOUS
  <2> QED BY <2>1 DEF AloudItems
<1>2. PICK k : k = KeptOf(t, AloudItems)
  OBVIOUS
<1>3. k = Where(t, {i \in DOMAIN t :
            /\ t[i].text # Blank
            /\ t[i].type \notin {"reasoning", "function_call_output"}})
  BY <1>1, <1>2 DEF KeptOf
<1>4. SaidIn(t) = [i \in DOMAIN k |-> <<ChatRole(k[i]), k[i].text>>]
  BY <1>3 DEF SaidIn
<1>5. k \in Seq(ClientItem)
  <2>1. KeptOf(t, AloudItems) \in Seq(ClientItem \cap AloudItems)
    BY KeptIn
  <2> QED BY <1>2, <2>1
<1>6. \A i \in DOMAIN k : ItemSayingOf[k[i]] = <<ChatRole(k[i]), k[i].text>>
  <2>1. \A i \in DOMAIN k : k[i] \in ClientItem
    BY <1>5
  <2> QED BY <2>1 DEF ItemSayingOf
<1> QED BY <1>2, <1>4, <1>6 DEF Picked, Each

\* What a message says is what it adds to a conversation.
LEMMA TextsMore ==
  ASSUME NEW s \in Seq(ChatMessage), NEW m \in ChatMessage
  PROVE  /\ Texts(<<>>) = <<>>
         /\ Texts(s) \in Seq(Sayings)
         /\ Texts(Append(s, m)) =
              IF m.role # "tool" /\ m.text # Blank THEN Append(Texts(s), <<m.role, m.text>>)
              ELSE Texts(s)
<1>1. /\ Picked(<<>>, Aloud, SayingOf) = <<>>
      /\ Picked(s, Aloud, SayingOf) \in Seq(Sayings)
      /\ Picked(Append(s, m), Aloud, SayingOf) =
           IF m \in Aloud THEN Append(Picked(s, Aloud, SayingOf), SayingOf[m])
           ELSE Picked(s, Aloud, SayingOf)
  <2>1. Values(SayingOf, ChatMessage, Sayings)
    BY SayingsTyped
  <2> QED BY ONLY s \in Seq(ChatMessage), m \in ChatMessage, <2>1, PickedMore
<1>2. <<>> \in Seq(ChatMessage) /\ Append(s, m) \in Seq(ChatMessage)
  BY Appended
<1>3. SayingOf[m] = <<m.role, m.text>> /\ (m \in Aloud <=> m.role # "tool" /\ m.text # Blank)
  BY DEF SayingOf, Aloud
<1>4. Texts(s) = Picked(s, Aloud, SayingOf)
  BY TextsPicked
<1>5. Texts(<<>>) = Picked(<<>>, Aloud, SayingOf)
  BY <1>2, TextsPicked
<1>6. Texts(Append(s, m)) = Picked(Append(s, m), Aloud, SayingOf)
  BY <1>2, TextsPicked
<1> QED BY <1>1, <1>3, <1>4, <1>5, <1>6

\* What an item says is what it adds to an input.
LEMMA SaidMore ==
  ASSUME NEW s \in Seq(ClientItem), NEW x \in ClientItem
  PROVE  /\ SaidIn(<<>>) = <<>>
         /\ SaidIn(s) \in Seq(Sayings)
         /\ SaidIn(Append(s, x)) =
              IF x \in AloudItems THEN Append(SaidIn(s), <<ChatRole(x), x.text>>) ELSE SaidIn(s)
<1>1. /\ Picked(<<>>, AloudItems, ItemSayingOf) = <<>>
      /\ Picked(s, AloudItems, ItemSayingOf) \in Seq(Sayings)
      /\ Picked(Append(s, x), AloudItems, ItemSayingOf) =
           IF x \in AloudItems THEN Append(Picked(s, AloudItems, ItemSayingOf), ItemSayingOf[x])
           ELSE Picked(s, AloudItems, ItemSayingOf)
  <2>1. Values(ItemSayingOf, ClientItem, Sayings)
    BY SayingsTyped
  <2> QED BY ONLY s \in Seq(ClientItem), x \in ClientItem, <2>1, PickedMore
<1>2. <<>> \in Seq(ClientItem) /\ Append(s, x) \in Seq(ClientItem)
  BY Appended
<1>3. ItemSayingOf[x] = <<ChatRole(x), x.text>>
  BY DEF ItemSayingOf
<1>4. SaidIn(s) = Picked(s, AloudItems, ItemSayingOf)
  BY SaidPicked
<1>5. SaidIn(<<>>) = Picked(<<>>, AloudItems, ItemSayingOf)
  BY <1>2, SaidPicked
<1>6. SaidIn(Append(s, x)) = Picked(Append(s, x), AloudItems, ItemSayingOf)
  BY <1>2, SaidPicked
<1> QED BY <1>1, <1>3, <1>4, <1>5, <1>6

\* A text without calls is a plain message.
Plain == {m \in ChatMessage : m.role # "tool" /\ m.calls = <<>>}
LEMMA MessagePlain ==
  ASSUME NEW role \in Speakers, NEW text \in Nat
  PROVE  /\ Message(role, text) \in Plain /\ Message(role, text) \in ChatMessage
         /\ Message(role, text).role = role /\ Message(role, text).text = text
<1>1. PICK none : none = <<>> /\ none \in Seq(Ids)
  <2>1. <<>> \in Seq(Ids)
    OBVIOUS
  <2> QED BY <2>1, Zenon
<1>2. Message(role, text) = [role |-> role, text |-> text, calls |-> none, reasoning |-> 0, id |-> NoId]
  BY <1>1 DEF Message, Blank
<1> QED BY <1>1, <1>2 DEF Plain, ChatMessage, Speakers, Ids

\* What is said are sayings.
LEMMA TextsTyped == ASSUME NEW s \in Seq(ChatMessage) PROVE Texts(s) \in Seq(Sayings)
<1>1. "user" \in Speakers /\ 1 \in Nat
  BY DEF Speakers
<1>2. PICK m : m = Message("user", 1)
  OBVIOUS
<1>3. m \in ChatMessage
  BY <1>1, <1>2, MessagePlain
<1> QED BY <1>3, TextsMore

\* So is what an item says.
LEMMA SayingOfItem == ASSUME NEW x \in ClientItem PROVE <<ChatRole(x), x.text>> \in Sayings
BY DEF ClientItem, Sayings, ChatRole, Speakers

\* What is said in a conversation of two parts.
LEMMA TextsJoined ==
  ASSUME NEW s \in Seq(ChatMessage), NEW t \in Seq(ChatMessage)
  PROVE  Texts(s \o t) = Texts(s) \o Texts(t)
<1>1. Picked(s \o t, Aloud, SayingOf) = Picked(s, Aloud, SayingOf) \o Picked(t, Aloud, SayingOf)
  <2>1. Values(SayingOf, ChatMessage, Sayings)
    BY SayingsTyped
  <2> QED BY ONLY s \in Seq(ChatMessage), t \in Seq(ChatMessage), <2>1, PickedJoined
<1>2. s \o t \in Seq(ChatMessage)
  OBVIOUS
<1>3. Texts(s) = Picked(s, Aloud, SayingOf) /\ Texts(t) = Picked(t, Aloud, SayingOf)
  BY TextsPicked
<1>4. Texts(s \o t) = Picked(s \o t, Aloud, SayingOf)
  BY <1>2, TextsPicked
<1> QED BY <1>1, <1>3, <1>4

-----------------------------------------------------------------------------
\* Conversations in which every call is answered, and every answer has its call.
Whole == {t \in Seq(ChatMessage) : CallsAnswered(t)}

\* Whole conversations that are put together are whole.
LEMMA WholeJoined == ASSUME NEW s \in Whole, NEW t \in Whole PROVE s \o t \in Whole
<1>1. /\ s \in Seq(ChatMessage) /\ t \in Seq(ChatMessage)
      /\ CallsAnswered(s) /\ CallsAnswered(t)
  BY DEF Whole
<1>2. PICK n, l \in Nat : n = Len(s) /\ l = Len(t)
  BY <1>1
<1>3. PICK j : j = s \o t
  OBVIOUS
<1>4. /\ j \in Seq(ChatMessage) /\ DOMAIN j = 1 .. n + l
      /\ DOMAIN s = 1 .. n /\ DOMAIN t = 1 .. l
      /\ \A i \in 1 .. n : j[i] = s[i]
      /\ \A i \in 1 .. l : j[i + n] = t[i]
  BY <1>1, <1>2, <1>3
<1>5. \A i \in 1 .. n + l : i \notin 1 .. n => i - n \in 1 .. l /\ j[i] = t[i - n]
  <2> SUFFICES ASSUME NEW i \in 1 .. n + l, i \notin 1 .. n
               PROVE  i - n \in 1 .. l /\ j[i] = t[i - n]
    OBVIOUS
  <2>1. PICK k : k = i - n
    OBVIOUS
  <2>2. k \in 1 .. l /\ k + n = i
    BY <2>1
  <2> QED BY <1>4, <2>1, <2>2
<1>6. \A i \in DOMAIN j : j[i] \in ChatMessage
  BY <1>4
<1>7. \A i \in DOMAIN j : DOMAIN j[i].calls \subseteq Nat \ {0}
  <2> SUFFICES ASSUME NEW i \in DOMAIN j PROVE DOMAIN j[i].calls \subseteq Nat \ {0}
    OBVIOUS
  <2>1. j[i].calls \in Seq(Ids)
    BY <1>6 DEF ChatMessage
  <2> QED BY <2>1
<1>8. ASSUME NEW h \in DOMAIN j, NEW k \in DOMAIN j[h].calls
      PROVE  /\ h + k \in DOMAIN j
             /\ j[h + k].role = "tool"
             /\ j[h + k].id = j[h].calls[k]
  <2>1. k \in Nat \ {0} /\ h \in 1 .. n + l
    BY <1>4, <1>7
  <2>2. CASE h \in 1 .. n
    <3>1. j[h] = s[h] /\ h \in DOMAIN s
      BY <1>4, <2>2
    <3>2. /\ h + k \in DOMAIN s
          /\ s[h + k].role = "tool" /\ s[h + k].id = s[h].calls[k]
      BY <1>1, <3>1 DEF CallsAnswered
    <3>3. h + k \in 1 .. n /\ h + k \in 1 .. n + l
      BY <1>4, <2>1, <3>2
    <3>4. j[h + k] = s[h + k]
      BY <1>4, <3>3
    <3> QED BY <1>4, <3>1, <3>2, <3>3, <3>4
  <2>3. CASE h \notin 1 .. n
    <3>1. PICK g \in 1 .. l : g = h - n
      BY <1>5, <2>1, <2>3
    <3>2. j[h] = t[g] /\ g \in DOMAIN t
      BY <1>4, <1>5, <2>1, <2>3, <3>1
    <3>3. /\ g + k \in DOMAIN t
          /\ t[g + k].role = "tool" /\ t[g + k].id = t[g].calls[k]
      BY <1>1, <3>2 DEF CallsAnswered
    <3>4. g + k \in 1 .. l
      BY <1>4, <3>3
    <3>5. (g + k) + n = h + k /\ h + k \in 1 .. n + l
      BY <2>1, <3>1, <3>4
    <3>6. j[(g + k) + n] = t[g + k]
      BY <1>4, <3>4
    <3> QED BY <1>4, <3>2, <3>3, <3>5, <3>6
  <2> QED BY <2>2, <2>3
<1>9. ASSUME NEW i \in DOMAIN j, j[i].role = "tool"
      PROVE  \E h \in 1 .. i - 1 : i - h \in DOMAIN j[h].calls
  <2>1. CASE i \in 1 .. n
    <3>1. j[i] = s[i] /\ i \in DOMAIN s
      BY <1>4, <2>1
    <3>2. PICK h \in 1 .. i - 1 : i - h \in DOMAIN s[h].calls
      BY <1>1, <1>9, <3>1 DEF CallsAnswered
    <3>3. h \in 1 .. n
      BY <2>1
    <3>4. j[h] = s[h]
      BY <1>4, <3>3
    <3> QED BY <3>2, <3>4
  <2>2. CASE i \notin 1 .. n
    <3>1. PICK g \in 1 .. l : g = i - n
      BY <1>4, <1>5, <2>2
    <3>2. j[i] = t[g] /\ g \in DOMAIN t
      BY <1>4, <1>5, <2>2, <3>1
    <3>3. PICK h \in 1 .. g - 1 : g - h \in DOMAIN t[h].calls
      BY <1>1, <1>9, <3>2 DEF CallsAnswered
    <3>4. h \in 1 .. l /\ h + n \in 1 .. i - 1 /\ i - (h + n) = g - h
      BY <1>4, <3>1
    <3>5. j[h + n] = t[h]
      BY <1>4, <3>4
    <3> QED BY <3>3, <3>4, <3>5
  <2> QED BY <2>1, <2>2
<1>10. \A h \in DOMAIN j : \A k \in DOMAIN j[h].calls :
         /\ h + k \in DOMAIN j
         /\ j[h + k].role = "tool"
         /\ j[h + k].id = j[h].calls[k]
  BY <1>8
<1>11. \A i \in DOMAIN j : j[i].role = "tool" => \E h \in 1 .. i - 1 : i - h \in DOMAIN j[h].calls
  BY <1>9
<1>12. CallsAnswered(j)
  BY ONLY <1>10, <1>11 DEF CallsAnswered
<1> QED BY <1>3, <1>4, <1>12 DEF Whole

\* A message without calls that is no answer is a whole conversation.
LEMMA WholeAlone ==
  ASSUME NEW m \in ChatMessage, m.role # "tool", m.calls = <<>> PROVE <<m>> \in Whole
<1>1. <<m>> \in Seq(ChatMessage) /\ DOMAIN <<m>> = {1} /\ <<m>>[1] = m
  OBVIOUS
<1>2. DOMAIN m.calls = {}
  OBVIOUS
<1> QED BY <1>1, <1>2 DEF Whole, CallsAnswered

\* The last answer to a call that has one is an answer to it.
LEMMA LastAnswerAnswers ==
  ASSUME NEW messages \in Seq(ChatMessage), NEW id, Answers(messages, id) # {}
  PROVE  /\ LastAnswer(messages, id) \in ChatMessage
         /\ LastAnswer(messages, id).role = "tool"
         /\ LastAnswer(messages, id).id = id
<1>1. PICK n \in Nat : n = Len(messages) /\ DOMAIN messages = 1 .. n
  OBVIOUS
<1>2. PICK a : a = Answers(messages, id)
  OBVIOUS
<1>3. a \in SUBSET (1 .. n) /\ a # {}
  BY <1>1, <1>2 DEF Answers
<1>4. Max(a) \in a
  BY <1>3, LargestIn
<1> QED BY <1>1, <1>2, <1>4 DEF Answers, LastAnswer

\* A message with calls, followed by the answers to them, is one.
LEMMA WholeAnswered ==
  ASSUME NEW m \in ChatMessage, m.role # "tool", NEW answers \in Seq(ChatMessage),
         Len(answers) = Len(m.calls),
         \A k \in DOMAIN m.calls : answers[k].role = "tool" /\ answers[k].id = m.calls[k]
  PROVE  <<m>> \o answers \in Whole
<1>1. m.calls \in Seq(Ids)
  BY DEF ChatMessage
<1>2. PICK n \in Nat : n = Len(answers) /\ DOMAIN m.calls = 1 .. n /\ DOMAIN answers = 1 .. n
  BY <1>1
<1>3. PICK j : j = <<m>> \o answers
  OBVIOUS
<1>4. /\ j \in Seq(ChatMessage) /\ DOMAIN j = 1 .. n + 1 /\ j[1] = m
      /\ \A k \in 1 .. n : j[1 + k] = answers[k]
  BY <1>2, <1>3
<1>5. \A h \in 1 .. n + 1 : h # 1 => \E k \in 1 .. n : k = h - 1 /\ h = 1 + k /\ j[h] = answers[k]
  <2> SUFFICES ASSUME NEW h \in 1 .. n + 1, h # 1
               PROVE  \E k \in 1 .. n : k = h - 1 /\ h = 1 + k /\ j[h] = answers[k]
    OBVIOUS
  <2>1. PICK k : k = h - 1
    OBVIOUS
  <2>2. k \in 1 .. n /\ h = 1 + k
    BY <2>1
  <2> QED BY <1>4, <2>1, <2>2
<1>6. ASSUME NEW h \in DOMAIN j, NEW k \in DOMAIN j[h].calls
      PROVE  h + k \in DOMAIN j /\ j[h + k].role = "tool" /\ j[h + k].id = j[h].calls[k]
  <2>1. CASE h = 1
    <3>1. k \in 1 .. n /\ 1 + k \in 1 .. n + 1 /\ j[1 + k] = answers[k] /\ j[h] = m
      BY <1>2, <1>4, <2>1
    <3> QED BY <1>2, <1>4, <2>1, <3>1
  <2>2. CASE h # 1
    <3>1. PICK a \in 1 .. n : j[h] = answers[a]
      BY <1>4, <1>5, <2>2
    <3>2. answers[a] \in ChatMessage /\ answers[a].role = "tool"
      BY <1>2, <3>1
    <3>3. j[h].calls = <<>>
      BY <3>1, <3>2 DEF ChatMessage
    <3> QED BY <3>3
  <2> QED BY <2>1, <2>2
<1>7. ASSUME NEW i \in DOMAIN j, j[i].role = "tool"
      PROVE  \E h \in 1 .. i - 1 : i - h \in DOMAIN j[h].calls
  <2>1. i # 1
    BY <1>4, <1>7
  <2>2. PICK k \in 1 .. n : k = i - 1 /\ i = 1 + k
    BY <1>4, <1>5, <2>1
  <2>3. 1 \in 1 .. i - 1 /\ i - 1 \in DOMAIN j[1].calls
    BY <1>2, <1>4, <2>2
  <2> QED BY <2>3
<1>8. \A h \in DOMAIN j : \A k \in DOMAIN j[h].calls :
         /\ h + k \in DOMAIN j
         /\ j[h + k].role = "tool"
         /\ j[h + k].id = j[h].calls[k]
  BY <1>6
<1>9. \A i \in DOMAIN j : j[i].role = "tool" => \E h \in 1 .. i - 1 : i - h \in DOMAIN j[h].calls
  BY <1>7
<1>10. CallsAnswered(j)
  BY ONLY <1>8, <1>9 DEF CallsAnswered
<1> QED BY <1>3, <1>4, <1>10 DEF Whole

\* Answers say nothing.
LEMMA AnswersSilent ==
  \A t \in Seq({m \in ChatMessage : m.role = "tool"}) : Texts(t) = <<>>
<1> DEFINE T == {m \in ChatMessage : m.role = "tool"}
           S == {t \in Seq(T) : Texts(t) = <<>>}
<1>1. <<>> \in S
  <2>1. <<>> \in Seq(T) /\ <<>> \in Seq(ChatMessage)
    OBVIOUS
  <2>2. {i \in DOMAIN <<>> : <<>>[i].role # "tool" /\ <<>>[i].text # Blank} = {}
    OBVIOUS
  <2>3. Texts(<<>>) = <<>>
    BY <2>2, WhereNone DEF Texts
  <2> QED BY <2>1, <2>3
<1>2. \A t \in Seq(T) : t \in S => \A m \in T : Append(t, m) \in S
  <2> SUFFICES ASSUME NEW t \in Seq(T), Texts(t) = <<>>, NEW m \in T PROVE Append(t, m) \in S
    OBVIOUS
  <2>1. t \in Seq(ChatMessage) /\ m \in ChatMessage /\ m.role = "tool"
    OBVIOUS
  <2>2. Texts(Append(t, m)) =
          IF m.role # "tool" /\ m.text # Blank THEN Append(Texts(t), <<m.role, m.text>>)
          ELSE Texts(t)
    BY ONLY <2>1, TextsMore
  <2>3. Append(t, m) \in Seq(T)
    BY Appended
  <2> QED BY <2>1, <2>2, <2>3
<1> HIDE DEF S
<1>3. \A t \in Seq(T) : t \in S
  BY <1>1, <1>2, SeqInduction
<1> QED BY <1>3 DEF S

\* A message with the answers to its calls is a conversation whose calls are
\* answered, and says what the message says.
LEMMA WithAnswersWhole ==
  ASSUME NEW messages \in Seq(ChatMessage), NEW m \in ChatMessage
  PROVE  /\ WithAnswers(messages, m) \in Whole
         /\ Texts(WithAnswers(messages, m)) = Texts(<<m>>)
<1> DEFINE answered == {id \in Ids : Answers(messages, id) # {}}
<1>1. PICK kept : kept = AnsweredCalls(messages, m)
  OBVIOUS
<1>2. m.calls \in Seq(Ids)
  BY DEF ChatMessage
<1>3. kept \in Seq(Ids \cap answered)
  <2>1. {k \in DOMAIN m.calls : Answers(messages, m.calls[k]) # {}}
          = {k \in DOMAIN m.calls : m.calls[k] \in answered}
    <3>1. \A k \in DOMAIN m.calls : m.calls[k] \in Ids
      BY <1>2
    <3> QED BY <3>1
  <2>2. kept = KeptOf(m.calls, answered)
    BY <1>1, <2>1 DEF AnsweredCalls, KeptOf
  <2> HIDE DEF answered
  <2>3. KeptOf(m.calls, answered) \in Seq(Ids \cap answered)
    BY <1>2, KeptIn
  <2> QED BY <2>2, <2>3
<1>4. /\ <<>> \in Whole /\ Texts(<<>>) = <<>>
      /\ \A x \in ChatMessage : Texts(<<x>>) =
           IF x.role # "tool" /\ x.text # Blank THEN <<<<x.role, x.text>>>> ELSE <<>>
  <2>1. <<>> \in Seq(ChatMessage) /\ CallsAnswered(<<>>)
    BY DEF CallsAnswered
  <2>2. ASSUME NEW x \in ChatMessage
        PROVE  /\ Texts(<<>>) = <<>>
               /\ Texts(<<x>>) =
                    IF x.role # "tool" /\ x.text # Blank THEN <<<<x.role, x.text>>>> ELSE <<>>
    <3>1. Append(<<>>, x) = <<x>> /\ Append(<<>>, <<x.role, x.text>>) = <<<<x.role, x.text>>>>
      OBVIOUS
    <3>2. /\ Texts(<<>>) = <<>>
          /\ Texts(Append(<<>>, x)) =
               IF x.role # "tool" /\ x.text # Blank THEN Append(Texts(<<>>), <<x.role, x.text>>)
               ELSE Texts(<<>>)
      BY <2>1, TextsMore
    <3> QED BY <3>1, <3>2
  <2> QED BY <2>1, <2>2 DEF Whole
<1>5. CASE m.role = "tool"
  BY <1>4, <1>5 DEF WithAnswers
<1>6. CASE m.role # "tool" /\ m.calls = <<>>
  BY <1>6, WholeAlone DEF WithAnswers
<1>7. CASE m.role # "tool" /\ m.calls # <<>> /\ kept # <<>>
  <2> DEFINE head == [m EXCEPT !.calls = kept]
             last == [k \in DOMAIN kept |-> LastAnswer(messages, kept[k])]
             T == {x \in ChatMessage : x.role = "tool"}
  <2>1. WithAnswers(messages, m) = <<head>> \o last
    BY <1>1, <1>7 DEF WithAnswers
  <2>2. /\ head \in ChatMessage /\ head.calls = kept /\ head.role # "tool"
        /\ head.role = m.role /\ head.text = m.text
    <3>1. kept \in Seq(Ids)
      BY <1>3
    <3> QED BY <1>7, <3>1 DEF ChatMessage
  <2>3. \A k \in DOMAIN kept : last[k] \in T /\ last[k].id = kept[k]
    <3> SUFFICES ASSUME NEW k \in DOMAIN kept PROVE last[k] \in T /\ last[k].id = kept[k]
      OBVIOUS
    <3>1. Answers(messages, kept[k]) # {}
      BY <1>3
    <3> QED BY <3>1, LastAnswerAnswers
  <2>4. last \in Seq(T) /\ Len(last) = Len(kept) /\ last \in Seq(ChatMessage)
    <3>1. DOMAIN kept = 1 .. Len(kept) /\ Len(kept) \in Nat
      BY <1>3
    <3>2. last \in Seq(T) /\ Len(last) = Len(kept)
      BY <2>3, <3>1
    <3> QED BY <3>2
  <2>5. \A k \in DOMAIN head.calls : last[k].role = "tool" /\ last[k].id = head.calls[k]
    BY <2>2, <2>3
  <2>6. Texts(last) = <<>>
    BY <2>4, AnswersSilent
  <2> HIDE DEF head, last
  <2>7. <<head>> \o last \in Whole
    BY <2>2, <2>4, <2>5, WholeAnswered
  <2>8. Texts(<<head>> \o last) = Texts(<<head>>) \o Texts(last)
    <3>1. <<head>> \in Seq(ChatMessage)
      BY <2>2
    <3> QED BY <2>4, <3>1, TextsJoined
  <2>9. Texts(<<head>>) = Texts(<<m>>)
    BY <1>4, <2>2
  <2>10. Texts(<<m>>) \o <<>> = Texts(<<m>>)
    <3>1. CASE m.text = Blank
      BY <1>4, <3>1
    <3>2. CASE m.text # Blank
      <4>1. Texts(<<m>>) = <<<<m.role, m.text>>>>
        BY <1>4, <1>7, <3>2
      <4> QED BY <4>1
    <3> QED BY <3>1, <3>2
  <2> QED BY <2>1, <2>6, <2>7, <2>8, <2>9, <2>10
<1>8. CASE m.role # "tool" /\ m.calls # <<>> /\ kept = <<>> /\ m.text = Blank
  BY <1>1, <1>4, <1>8 DEF WithAnswers
<1>9. CASE m.role # "tool" /\ m.calls # <<>> /\ kept = <<>> /\ m.text # Blank
  <2>1. PICK x : x = [m EXCEPT !.calls = <<>>, !.reasoning = Blank]
    OBVIOUS
  <2>2. /\ x \in ChatMessage /\ x.calls = <<>> /\ x.role # "tool"
        /\ x.role = m.role /\ x.text = m.text
    <3>1. m \in [role : Speakers \cup {"tool"}, text : Nat, calls : Seq(Ids),
                 reasoning : Nat, id : Ids]
      BY DEF ChatMessage
    <3>2. PICK none : none = <<>> /\ none \in Seq(Ids)
      <4>1. <<>> \in Seq(Ids)
        OBVIOUS
      <4> QED BY <4>1, Zenon
    <3>3. PICK y : y = [m EXCEPT !.calls = none]
      OBVIOUS
    <3>4. x = [y EXCEPT !.reasoning = Blank]
      BY <2>1, <3>2, <3>3, Zenon
    <3>5. /\ y \in [role : Speakers \cup {"tool"}, text : Nat, calls : Seq(Ids),
                    reasoning : Nat, id : Ids]
          /\ y.calls = none /\ y.role = m.role /\ y.text = m.text
      BY ONLY <3>1, <3>2, <3>3
    <3>6. /\ x \in [role : Speakers \cup {"tool"}, text : Nat, calls : Seq(Ids),
                    reasoning : Nat, id : Ids]
          /\ x.calls = none /\ x.role = m.role /\ x.text = m.text
      BY ONLY <3>4, <3>5 DEF Blank
    <3>7. x.calls = <<>>
      BY <3>2, <3>6, Zenon
    <3>8. x \in ChatMessage
      BY <1>9, <3>6 DEF ChatMessage
    <3> QED BY <1>9, <3>6, <3>7, <3>8
  <2>3. WithAnswers(messages, m) = <<x>>
    BY <1>1, <1>9, <2>1 DEF WithAnswers
  <2>4. <<x>> \in Whole
    BY <2>2, WholeAlone
  <2> QED BY <1>4, <2>2, <2>3, <2>4
<1> QED BY <1>5, <1>6, <1>7, <1>8, <1>9

\* However a conversation is mixed up, once it is rewritten its calls are
\* answered and what was said is there, in its order.
LEMMA NormalizedWhole ==
  ASSUME NEW messages \in Seq(ChatMessage)
  PROVE  /\ NormalizeToolMessages(messages) \in Whole
         /\ Texts(NormalizeToolMessages(messages)) = Texts(messages)
<1> DEFINE B == [m \in ChatMessage |-> WithAnswers(messages, m)]
           S == {s \in Seq(ChatMessage) : /\ FlattenSeq(Each(s, B)) \in Whole
                                          /\ Texts(FlattenSeq(Each(s, B))) = Texts(s)}
<1>1. Values(B, ChatMessage, Whole)
  BY WithAnswersWhole DEF Values
<1>2. \A m \in ChatMessage : B[m] \in Whole /\ Texts(B[m]) = Texts(<<m>>)
  BY WithAnswersWhole
<1>3. NormalizeToolMessages(messages) = FlattenSeq(Each(messages, B))
  <2>1. \A i \in DOMAIN messages : B[messages[i]] = WithAnswers(messages, messages[i])
    OBVIOUS
  <2> HIDE DEF B
  <2> QED BY <2>1 DEF NormalizeToolMessages, Each
<1> HIDE DEF B
<1>4. <<>> \in S
  <2>1. Each(<<>>, B) = <<>>
    BY DEF Each
  <2>2. <<>> \in Seq(ChatMessage) /\ CallsAnswered(<<>>)
    BY DEF CallsAnswered
  <2> QED BY <2>1, <2>2, FlattenNone DEF Whole
<1>5. \A s \in Seq(ChatMessage) : s \in S => \A m \in ChatMessage : Append(s, m) \in S
  <2> SUFFICES ASSUME NEW s, s \in Seq(ChatMessage), s \in S, NEW m, m \in ChatMessage
               PROVE  Append(s, m) \in S
    OBVIOUS
  <2>1. PICK f : f = FlattenSeq(Each(s, B))
    OBVIOUS
  <2>2. f \in Whole /\ Texts(f) = Texts(s) /\ f \in Seq(ChatMessage)
    BY <2>1 DEF Whole
  <2>3. Each(s, B) \in Seq(Whole) /\ Each(Append(s, m), B) = Append(Each(s, B), B[m])
    BY ONLY <1>1, s \in Seq(ChatMessage), m \in ChatMessage, EachMore
  <2>4. Each(s, B) \in Seq(Seq(ChatMessage)) /\ B[m] \in Seq(ChatMessage)
    <3>1. Whole \subseteq Seq(ChatMessage)
      BY DEF Whole
    <3>2. PICK W : W = Seq(ChatMessage)
      OBVIOUS
    <3>3. Whole \subseteq W
      BY <3>1, <3>2
    <3>4. PICK e : e = Each(s, B)
      OBVIOUS
    <3>5. e \in Seq(Whole)
      BY <2>3, <3>4
    <3>6. e \in Seq(W)
      BY ONLY <3>3, <3>5
    <3> QED BY <1>2, <3>1, <3>2, <3>4, <3>6
  <2>5. FlattenSeq(Append(Each(s, B), B[m])) = f \o B[m]
    BY ONLY <2>1, <2>4, FlattenMore
  <2>6. f \o B[m] \in Whole
    BY <1>2, <2>2, WholeJoined
  <2>7. Texts(f \o B[m]) = Texts(f) \o Texts(B[m])
    BY ONLY <2>2, <2>4, TextsJoined
  <2>8. Texts(Append(s, m)) = Texts(s) \o Texts(<<m>>)
    <3>1. Append(s, m) = s \o <<m>> /\ <<m>> \in Seq(ChatMessage)
      OBVIOUS
    <3> QED BY <3>1, TextsJoined
  <2>9. Append(s, m) \in Seq(ChatMessage)
    OBVIOUS
  <2> QED BY <1>2, <2>2, <2>3, <2>5, <2>6, <2>7, <2>8, <2>9
<1> HIDE DEF S
<1>6. messages \in S
  <2>1. \A s \in Seq(ChatMessage) : s \in S
    BY <1>4, <1>5, SeqInduction
  <2> QED BY <2>1
<1> QED BY <1>3, <1>6 DEF S

-----------------------------------------------------------------------------
(* What the items of a body become.                                        *)
Mapping == [messages : Seq(ChatMessage), pending : Nat]

Begun(opening) == [messages |-> opening, pending |-> Blank]

\* Items a body has that is not refused.
Taken(bridge) == {x \in ClientItem : ~ItemRefused(x, bridge)}

\* A message added to a conversation.
LEMMA SayAdds ==
  ASSUME NEW s \in Mapping, NEW role \in Speakers, NEW text \in Nat
  PROVE  /\ Say(s, role, text) \in Mapping
         /\ Message(role, text) \in ChatMessage
         /\ Say(s, role, text).messages = Append(s.messages, Message(role, text))
<1>1. PICK none : none = <<>> /\ none \in Seq(Ids)
  <2>1. <<>> \in Seq(Ids)
    OBVIOUS
  <2> QED BY <2>1, Zenon
<1>2. Message(role, text) \in ChatMessage
  <2>1. Message(role, text) =
          [role |-> role, text |-> text, calls |-> none, reasoning |-> 0, id |-> NoId]
    BY <1>1 DEF Message, Blank
  <2>2. role # "tool"
    BY DEF Speakers
  <2> QED BY <1>1, <2>1, <2>2 DEF ChatMessage, Ids
<1>3. PICK said, p : said = s.messages /\ p = s.pending
  OBVIOUS
<1>4. said \in Seq(ChatMessage) /\ p \in Nat /\ s = [messages |-> said, pending |-> p]
  BY <1>3 DEF Mapping
<1>5. PICK more : more = Append(said, Message(role, text))
  OBVIOUS
<1>6. more \in Seq(ChatMessage)
  BY <1>2, <1>4, <1>5
<1>7. Say(s, role, text) = [messages |-> more, pending |-> IF role = "assistant" THEN p ELSE 0]
  <2>1. s.messages = said /\ s.pending = p
    BY <1>3
  <2>2. PICK t : t = [s EXCEPT !.messages = more]
    OBVIOUS
  <2>3. t = [messages |-> more, pending |-> p]
    BY ONLY <1>4, <2>2
  <2>4. Say(s, role, text) = [t EXCEPT !.pending = IF role = "assistant" THEN p ELSE Blank]
    BY ONLY <1>5, <2>1, <2>2, Zenon DEF Say
  <2> QED BY ONLY <2>3, <2>4 DEF Blank
<1>8. (IF role = "assistant" THEN p ELSE 0) \in Nat
  BY <1>4
<1> QED BY <1>2, <1>3, <1>5, <1>6, <1>7, <1>8 DEF Mapping

\* A call joins the assistant's message before it or is one of its own: either
\* way nothing more is said.
LEMMA AddCallSilent ==
  ASSUME NEW s \in Mapping, NEW id \in Ids
  PROVE  AddCall(s, id) \in Mapping /\ Texts(AddCall(s, id).messages) = Texts(s.messages)
<1>1. PICK said, p : said = s.messages /\ p = s.pending
  OBVIOUS
<1>2. said \in Seq(ChatMessage) /\ p \in Nat
  BY <1>1 DEF Mapping
<1>3. PICK n \in Nat : n = Len(said)
  BY <1>2
<1>4. CASE n > 0 /\ said[n].role = "assistant"
  <2>1. PICK old : old = said[n]
    OBVIOUS
  <2>2. old \in ChatMessage /\ old.role = "assistant" /\ DOMAIN said = 1 .. n /\ n \in 1 .. n
    BY <1>2, <1>3, <1>4, <2>1
  <2>3. PICK calls : calls = Append(old.calls, id)
    OBVIOUS
  <2>4. calls \in Seq(Ids)
    <3>1. old.calls \in Seq(Ids)
      BY <2>2 DEF ChatMessage
    <3> QED BY <2>3, <3>1
  <2>5. PICK mid : mid = [old EXCEPT !.calls = calls]
    OBVIOUS
  <2>6. /\ mid \in ChatMessage /\ mid.role = "assistant" /\ mid.text = old.text
        /\ mid.reasoning \in Nat
    BY <2>2, <2>4, <2>5 DEF ChatMessage
  <2>7. PICK r \in Nat : r = IF mid.reasoning = Blank THEN p ELSE mid.reasoning
    BY <1>2, <2>6
  <2>8. PICK new : new = [mid EXCEPT !.reasoning = r]
    OBVIOUS
  <2>9. new \in ChatMessage /\ new.role = "assistant" /\ new.text = old.text
    BY <2>6, <2>7, <2>8 DEF ChatMessage
  <2>10. AddCall(s, id) =
           [pending |-> Blank,
            messages |-> [said EXCEPT ![n].calls = Append(@, id),
                                      ![n].reasoning = IF @ = Blank THEN p ELSE @]]
    BY <1>1, <1>3, <1>4 DEF AddCall
  <2>11. [said EXCEPT ![n].calls = Append(@, id),
                      ![n].reasoning = IF @ = Blank THEN p ELSE @] = [said EXCEPT ![n] = new]
    <3>1. PICK one : one = [said EXCEPT ![n] = mid]
      OBVIOUS
    <3>2. one = [said EXCEPT ![n].calls = Append(@, id)]
      BY <2>1, <2>3, <2>5, <3>1, Zenon
    <3>3. one[n] = mid
      BY ONLY <1>2, <2>2, <3>1
    <3>4. [said EXCEPT ![n].calls = Append(@, id),
                       ![n].reasoning = IF @ = Blank THEN p ELSE @]
            = [one EXCEPT ![n].reasoning = IF @ = Blank THEN p ELSE @]
      BY <3>2, Zenon
    <3>5. [one EXCEPT ![n].reasoning = IF @ = Blank THEN p ELSE @] = [one EXCEPT ![n] = new]
      BY <2>7, <2>8, <3>3, Zenon
    <3>6. [one EXCEPT ![n] = new] = [said EXCEPT ![n] = new]
      BY ONLY <1>2, <2>2, <3>1
    <3> QED BY <3>4, <3>5, <3>6, Zenon
  <2>12. PICK front \in Seq(ChatMessage) :
           said = Append(front, old) /\ [said EXCEPT ![n] = new] = Append(front, new)
    <3>1. n \in Nat /\ n = Len(said) /\ n > 0 /\ said \in Seq(ChatMessage) /\ new \in ChatMessage
      BY <1>2, <1>3, <1>4, <2>9
    <3>2. PICK front \in Seq(ChatMessage) : EndsAfter(front, said, n, new)
      BY ONLY <3>1, LastReplaced
    <3>3. said = Append(front, old) /\ [said EXCEPT ![n] = new] = Append(front, new)
      BY <2>1, <3>2, Zenon DEF EndsAfter
    <3> QED BY <3>3, Zenon
  <2>13. PICK more : more = Append(front, new)
    OBVIOUS
  <2>14. more \in Seq(ChatMessage)
    BY <2>9, <2>13
  <2>17. AddCall(s, id) = [pending |-> 0, messages |-> more]
    BY <2>10, <2>11, <2>12, <2>13, Zenon DEF Blank
  <2>15. Texts(Append(front, new)) = Texts(Append(front, old))
    <3>1. Texts(Append(front, new)) =
            IF new.role # "tool" /\ new.text # Blank
            THEN Append(Texts(front), <<new.role, new.text>>)
            ELSE Texts(front)
      BY <2>9, TextsMore
    <3>2. Texts(Append(front, old)) =
            IF old.role # "tool" /\ old.text # Blank
            THEN Append(Texts(front), <<old.role, old.text>>)
            ELSE Texts(front)
      BY <2>2, TextsMore
    <3> QED BY <2>2, <2>9, <3>1, <3>2
  <2>16. AddCall(s, id) \in Mapping
    BY <2>14, <2>17 DEF Mapping
  <2> QED BY <1>1, <2>12, <2>13, <2>15, <2>16, <2>17
<1>5. CASE ~(n > 0 /\ said[n].role = "assistant")
  <2>1. PICK one : one = <<id>> /\ one \in Seq(Ids)
    <3>1. <<id>> \in Seq(Ids)
      OBVIOUS
    <3> QED BY <3>1, Zenon
  <2>2. PICK own : own = [Message("assistant", Blank) EXCEPT !.calls = one, !.reasoning = p]
    OBVIOUS
  <2>3. own = [role |-> "assistant", text |-> 0, calls |-> one, reasoning |-> p, id |-> NoId]
    <3>1. PICK blank : blank = Message("assistant", Blank)
      OBVIOUS
    <3>2. blank = [role |-> "assistant", text |-> 0, calls |-> <<>>, reasoning |-> 0, id |-> NoId]
      BY <3>1 DEF Message, Blank
    <3>3. PICK mid : mid = [blank EXCEPT !.calls = one]
      OBVIOUS
    <3>4. mid = [role |-> "assistant", text |-> 0, calls |-> one, reasoning |-> 0, id |-> NoId]
      BY ONLY <3>2, <3>3
    <3>5. own = [mid EXCEPT !.reasoning = p]
      BY ONLY <2>2, <3>1, <3>3, Zenon
    <3> QED BY ONLY <3>4, <3>5
  <2>4. own \in ChatMessage /\ own.text = Blank
    BY <1>2, <2>1, <2>3 DEF ChatMessage, Speakers, Ids, Blank
  <2>5. AddCall(s, id) = [pending |-> Blank, messages |-> Append(said, own)]
    BY <1>1, <1>3, <1>5, <2>1, <2>2 DEF AddCall
  <2>6. Append(said, own) \in Seq(ChatMessage)
    BY <1>2, <2>4
  <2>7. Texts(Append(said, own)) = Texts(said)
    BY <1>2, <2>4, TextsMore
  <2> QED BY <1>1, <2>5, <2>6, <2>7 DEF Mapping, Blank
<1> QED BY <1>4, <1>5

\* The mapping t says what s said and what the item says.
Follows(t, s, item) ==
  /\ t \in Mapping
  /\ Texts(t.messages) =
       IF item \in AloudItems THEN Append(Texts(s.messages), <<ChatRole(item), item.text>>)
       ELSE Texts(s.messages)

\* A text that is taken over.
LEMMA SayFollows ==
  ASSUME NEW s \in Mapping, NEW item \in ClientItem,
         item.type \in {"string", "input_text", "output_text", "message"}
  PROVE  /\ Follows(Say(s, ChatRole(item), item.text), s, item)
         /\ s.messages \in Seq(Plain) => Say(s, ChatRole(item), item.text).messages \in Seq(Plain)
<1>1. ChatRole(item) \in Speakers /\ item.text \in Nat
  BY DEF ChatRole, ClientItem, Speakers
<1>2. PICK role, text : role = ChatRole(item) /\ text = item.text
  OBVIOUS
<1>3. role \in Speakers /\ text \in Nat
  BY <1>1, <1>2
<1>4. /\ Say(s, role, text) \in Mapping
      /\ Message(role, text) \in ChatMessage
      /\ Say(s, role, text).messages = Append(s.messages, Message(role, text))
  BY <1>3, SayAdds
<1>5. PICK m, said : m = Message(role, text) /\ said = s.messages
  OBVIOUS
<1>6. m \in ChatMessage /\ m.role = role /\ m.text = text /\ m.calls = <<>> /\ m.role # "tool"
  BY <1>3, <1>4, <1>5 DEF Message, Speakers
<1>7. said \in Seq(ChatMessage)
  BY <1>5 DEF Mapping
<1>8. Texts(Append(said, m)) =
        IF m.role # "tool" /\ m.text # Blank THEN Append(Texts(said), <<m.role, m.text>>)
        ELSE Texts(said)
  BY <1>6, <1>7, TextsMore
<1>9. item \in AloudItems <=> text # Blank
  BY <1>2 DEF AloudItems
<1>10. Follows(Say(s, role, text), s, item)
  BY <1>2, <1>4, <1>5, <1>6, <1>8, <1>9 DEF Follows
<1>11. said \in Seq(Plain) => Append(said, m) \in Seq(Plain)
  <2>1. m \in Plain
    BY <1>6 DEF Plain
  <2> QED BY <2>1
<1> QED BY <1>2, <1>4, <1>5, <1>10, <1>11

\* An item that is dropped.
LEMMA DropFollows ==
  ASSUME NEW s \in Mapping, NEW p \in Nat, NEW item, item \notin AloudItems
  PROVE  Follows([s EXCEPT !.pending = p], s, item)
BY DEF Follows, Mapping

\* An output becomes a tool message.
LEMMA ReplyFollows ==
  ASSUME NEW s \in Mapping, NEW item \in ClientItem, item.type = "function_call_output"
  PROVE  Follows(AddReply(s, item), s, item)
<1>1. PICK m, said : m = [Message("tool", item.text) EXCEPT !.id = item.id] /\ said = s.messages
  OBVIOUS
<1>2. said \in Seq(ChatMessage)
  BY <1>1 DEF Mapping
<1>3. m \in ChatMessage /\ m.role = "tool"
  <2>1. PICK none : none = <<>> /\ none \in Seq(Ids)
    <3>1. <<>> \in Seq(Ids)
      OBVIOUS
    <3> QED BY <3>1, Zenon
  <2>2. PICK text, id : text = item.text /\ id = item.id
    OBVIOUS
  <2>3. text \in Nat /\ id \in Ids
    BY <2>2 DEF ClientItem
  <2>4. PICK b : b = Message("tool", text)
    OBVIOUS
  <2>5. b = [role |-> "tool", text |-> text, calls |-> none, reasoning |-> 0, id |-> NoId]
    BY <2>1, <2>4 DEF Message, Blank
  <2>6. m = [b EXCEPT !.id = id]
    BY <1>1, <2>2, <2>4
  <2>7. m = [role |-> "tool", text |-> text, calls |-> none, reasoning |-> 0, id |-> id]
    BY ONLY <2>5, <2>6
  <2> QED BY <2>1, <2>3, <2>7 DEF ChatMessage
<1>4. PICK more : more = Append(said, m)
  OBVIOUS
<1>5. more \in Seq(ChatMessage)
  BY <1>2, <1>3, <1>4
<1>6. AddReply(s, item) = [messages |-> more, pending |-> 0]
  BY <1>1, <1>4 DEF AddReply, Blank
<1>7. Texts(more) = Texts(said)
  BY <1>2, <1>3, <1>4, TextsMore
<1>8. item \notin AloudItems
  BY DEF AloudItems
<1> QED BY <1>1, <1>5, <1>6, <1>7, <1>8 DEF Follows, Mapping

\* Every item that is not refused says what it says and nothing else.
LEMMA MapItemFollows ==
  ASSUME NEW bridge, NEW s \in Mapping, NEW item \in ClientItem, ~ItemRefused(item, bridge)
  PROVE  /\ Follows(MapItem(bridge, s, item), s, item)
         /\ ~bridge /\ s.messages \in Seq(Plain) =>
              MapItem(bridge, s, item).messages \in Seq(Plain)
<1>1. item.text \in Nat /\ item.id \in Ids /\ item.type \in ItemTypes /\ item.role \in Speakers
  BY DEF ClientItem
<1>2. CASE item.type = "reasoning"
  <2>1. item \notin AloudItems /\ bridge
    BY <1>2 DEF AloudItems, ItemRefused
  <2>2. MapItem(bridge, s, item) = [s EXCEPT !.pending = item.text]
    BY <1>2 DEF MapItem
  <2> QED BY <1>1, <2>1, <2>2, DropFollows
<1>3. CASE item.type = "output_text"
  <2>1. MapItem(bridge, s, item) = Say(s, ChatRole(item), item.text)
    BY <1>3 DEF MapItem, ChatRole, ClientItem
  <2> QED BY <1>3, <2>1, SayFollows
<1>4. CASE item.type \in {"string", "input_text"}
  <2>1. MapItem(bridge, s, item) = Say(s, ChatRole(item), item.text)
    BY <1>4 DEF MapItem, ChatRole, ClientItem
  <2> QED BY <1>4, <2>1, SayFollows
<1>5. CASE item.type = "function_call"
  <2>1. item \notin AloudItems /\ bridge
    BY <1>5 DEF AloudItems, ItemRefused, ClientItem
  <2>2. MapItem(bridge, s, item) = IF item.id = NoId THEN Drop(s) ELSE AddCall(s, item.id)
    BY <1>5 DEF MapItem
  <2>3. Follows(Drop(s), s, item)
    BY <2>1, DropFollows DEF Drop, Blank
  <2>4. Follows(AddCall(s, item.id), s, item)
    BY <1>1, <2>1, AddCallSilent DEF Follows
  <2> QED BY <2>1, <2>2, <2>3, <2>4
<1>6. CASE item.type = "function_call_output"
  <2>1. item \notin AloudItems /\ bridge
    BY <1>6 DEF AloudItems, ItemRefused
  <2>2. MapItem(bridge, s, item) = IF item.id = NoId THEN Drop(s) ELSE AddReply(s, item)
    BY <1>6 DEF MapItem
  <2>3. Follows(Drop(s), s, item)
    BY <2>1, DropFollows DEF Drop, Blank
  <2>4. Follows(AddReply(s, item), s, item)
    BY <1>6, ReplyFollows
  <2> QED BY <2>1, <2>2, <2>3, <2>4
<1>7. CASE item.type = "message"
  <2>1. MapItem(bridge, s, item) =
          IF bridge /\ item.text = Blank THEN Drop(s) ELSE Say(s, ChatRole(item), item.text)
    BY <1>7 DEF MapItem
  <2>2. CASE bridge /\ item.text = Blank
    <3>1. item \notin AloudItems
      BY <2>2 DEF AloudItems
    <3>2. Follows(Drop(s), s, item)
      BY <3>1, DropFollows DEF Drop, Blank
    <3> QED BY <2>1, <2>2, <3>2
  <2>3. CASE ~(bridge /\ item.text = Blank)
    BY <1>7, <2>1, <2>3, SayFollows
  <2> QED BY <2>2, <2>3
<1>8. CASE item.type \in {"picture", "unknown"}
  <2>1. item \notin AloudItems /\ bridge
    BY <1>8 DEF AloudItems, ItemRefused, ClientItem
  <2>2. MapItem(bridge, s, item) = Drop(s)
    BY <1>8 DEF MapItem
  <2>3. Follows(Drop(s), s, item)
    BY <2>1, DropFollows DEF Drop, Blank
  <2> QED BY <2>1, <2>2, <2>3
<1> QED BY <1>1, <1>2, <1>3, <1>4, <1>5, <1>6, <1>7, <1>8 DEF ItemTypes

\* The input is mapped item by item.
LEMMA MappedSteps ==
  ASSUME NEW bridge, NEW opening \in Seq(Plain), NEW input \in Seq(Taken(bridge))
  PROVE  \E f \in [0 .. Len(input) -> Mapping] :
           /\ f[0] = Begun(opening)
           /\ \A m \in 1 .. Len(input) : f[m] = MapItem(bridge, f[m - 1], input[m])
           /\ MappedInput(opening, input, bridge) = f[Len(input)].messages
<1> DEFINE n == Len(input)
           step == [i \in 1 .. n |-> [s \in Mapping |-> MapItem(bridge, s, input[i])]]
           rule(it) == [s \in SUBSET DOMAIN input |->
                  IF s = {} THEN Begun(opening)
                  ELSE MapItem(bridge, it[s \ {Max(s)}], input[Max(s)])]
           fold == CHOOSE it : it = rule(it)
<1>1. n \in Nat /\ DOMAIN input = 1 .. n /\ \A i \in 1 .. n : input[i] \in Taken(bridge)
  OBVIOUS
<1>2. Begun(opening) \in Mapping
  <2>1. opening \in Seq(ChatMessage) /\ 0 \in Nat
    BY DEF Plain
  <2> QED BY <2>1 DEF Begun, Mapping, Blank
<1>3. \A i \in 1 .. n : \A s \in Mapping : MapItem(bridge, s, input[i]) \in Mapping
  BY <1>1, MapItemFollows DEF Follows, Taken
<1>4. /\ step \in [1 .. n -> [Mapping -> Mapping]]
      /\ \A i \in 1 .. n : \A s \in Mapping : step[i][s] = MapItem(bridge, s, input[i])
  BY <1>3
<1>5. MappedInput(opening, input, bridge) = fold[1 .. n].messages
  BY <1>1 DEF MappedInput, FoldLeft, MapThenFoldSet, Begun
<1> HIDE DEF n, step
<1>6. \E g : g = rule(g)
  <2>1. PICK g : TakesLast(g, Mapping, Begun(opening), n, step)
    BY <1>1, <1>2, <1>4, FoldExists, Zenon
  <2>2. ASSUME NEW s \in SUBSET (1 .. n), s # {}
        PROVE  g[s] = MapItem(bridge, g[s \ {Max(s)}], input[Max(s)])
    <3>1. Max(s) \in 1 .. n /\ g[s \ {Max(s)}] \in Mapping
      BY <1>1, <2>1, <2>2, LargestIn DEF TakesLast
    <3> QED BY <1>4, <2>1, <2>2, <3>1 DEF TakesLast
  <2>3. g = rule(g)
    BY <1>1, <2>1, <2>2 DEF TakesLast
  <2> QED BY <2>3
<1>7. fold = rule(fold)
  BY <1>6
<1> HIDE DEF fold
<1>8. TakesLastIn(fold, Mapping, Begun(opening), n, step)
  <2>1. fold[{}] = Begun(opening)
    BY <1>7
  <2>2. ASSUME NEW s \in SUBSET (1 .. n), s # {}, fold[s \ {Max(s)}] \in Mapping
        PROVE  fold[s] = step[Max(s)][fold[s \ {Max(s)}]]
    <3>1. Max(s) \in 1 .. n
      BY <1>1, <2>2, LargestIn
    <3>2. fold[s] = MapItem(bridge, fold[s \ {Max(s)}], input[Max(s)])
      BY <1>1, <1>7, <2>2
    <3> QED BY <1>4, <2>2, <3>1, <3>2
  <2> QED BY <2>1, <2>2 DEF TakesLastIn
<1>9. PICK f : Stepwise(f, Mapping, Begun(opening), n, step) /\ f[n] = fold[1 .. n]
  <2>1. n \in Nat /\ step \in [1 .. n -> [Mapping -> Mapping]]
    BY <1>1, <1>4
  <2>2. Folded(Mapping, Begun(opening), n, step, fold[1 .. n])
    BY ONLY <1>2, <1>8, <2>1, FoldPrefixes, Zenon
  <2> QED BY <2>2 DEF Folded
<1>10. \A m \in 1 .. n : f[m] = MapItem(bridge, f[m - 1], input[m])
  <2> SUFFICES ASSUME NEW m \in 1 .. n PROVE f[m] = MapItem(bridge, f[m - 1], input[m])
    OBVIOUS
  <2>1. f[m - 1] \in Mapping
    BY <1>1, <1>9 DEF Stepwise
  <2> QED BY <1>4, <1>9, <2>1 DEF Stepwise
<1>11. f \in [0 .. n -> Mapping] /\ f[0] = Begun(opening)
  BY <1>9 DEF Stepwise
<1> QED BY <1>5, <1>9, <1>10, <1>11 DEF n

\* Adding to the second of two lists adds to both.
Joined(s, t, e) == Append(s \o t, e) = s \o Append(t, e)

\* It does for any lists.
LEMMA AppendJoined ==
  \A E : \A s \in Seq(E) : \A t \in Seq(E) : \A e \in E : Joined(s, t, e)
BY DEF Joined

\* Nothing that is said is lost or moved when the input is mapped after what
\* comes first, and an input of plain messages stays one.
LEMMA MappedSays ==
  ASSUME NEW bridge, NEW opening \in Seq(Plain), NEW input \in Seq(Taken(bridge))
  PROVE  /\ MappedInput(opening, input, bridge) \in Seq(ChatMessage)
         /\ Texts(MappedInput(opening, input, bridge)) = Texts(opening) \o SaidIn(input)
         /\ ~bridge => MappedInput(opening, input, bridge) \in Seq(Plain)
<1>1. PICK n \in Nat : n = Len(input)
  OBVIOUS
<1>2. PICK f : /\ f \in [0 .. n -> Mapping]
               /\ f[0] = Begun(opening)
               /\ \A m \in 1 .. n : f[m] = MapItem(bridge, f[m - 1], input[m])
               /\ MappedInput(opening, input, bridge) = f[n].messages
  <2>1. PICK g \in [0 .. Len(input) -> Mapping] :
           /\ g[0] = Begun(opening)
           /\ \A m \in 1 .. Len(input) : g[m] = MapItem(bridge, g[m - 1], input[m])
           /\ MappedInput(opening, input, bridge) = g[Len(input)].messages
    BY MappedSteps
  <2> QED BY <1>1, <2>1
<1>3. input \in Seq(ClientItem)
  BY DEF Taken
<1>9. Texts(opening) \in Seq(Sayings)
  <2>1. opening \in Seq(ChatMessage)
    BY DEF Plain
  <2> QED BY <2>1, TextsTyped
<1> DEFINE S == {m \in 0 .. n : /\ Texts(f[m].messages) = Texts(opening) \o SaidIn(Upto(input, m))
                                /\ ~bridge => f[m].messages \in Seq(Plain)}
<1>4. 0 \in S
  <2>1. Upto(input, 0) = <<>>
    BY DEF Upto
  <2>2. SaidIn(<<>>) = <<>>
    BY WhereNone DEF SaidIn
  <2>3. f[0].messages = opening /\ 0 \in 0 .. n
    BY <1>2 DEF Begun
  <2>4. Texts(opening) \o <<>> = Texts(opening)
    BY <1>9
  <2> QED BY <2>1, <2>2, <2>3, <2>4
<1>5. \A m \in 0 .. n - 1 : m \in S => m + 1 \in S
  <2> SUFFICES ASSUME NEW m \in 0 .. n - 1, m \in S PROVE m + 1 \in S
    OBVIOUS
  <2>1. m \in Nat /\ m < n /\ m + 1 \in 1 .. n /\ m + 1 \in 0 .. n /\ m \in 0 .. n /\ m + 1 - 1 = m
    OBVIOUS
  <2>2. PICK s, x, u : s = f[m] /\ x = input[m + 1] /\ u = Upto(input, m)
    OBVIOUS
  <2>3. s \in Mapping /\ x \in ClientItem /\ ~ItemRefused(x, bridge)
    BY <1>1, <1>2, <2>1, <2>2 DEF Taken
  <2>4. f[m + 1] = MapItem(bridge, s, x)
    <3>1. f[m + 1] = MapItem(bridge, f[m + 1 - 1], input[m + 1])
      BY <1>2, <2>1
    <3> QED BY <2>1, <2>2, <3>1
  <2>5. u \in Seq(ClientItem) /\ Upto(input, m + 1) = Append(u, x)
    <3>1. m \in Nat /\ m < Len(input)
      BY <1>1, <2>1
    <3> QED BY <1>3, <2>2, <3>1, UptoMore
  <2>6. /\ Follows(MapItem(bridge, s, x), s, x)
        /\ ~bridge /\ s.messages \in Seq(Plain) => MapItem(bridge, s, x).messages \in Seq(Plain)
    BY <2>3, MapItemFollows
  <2>7. SaidIn(Append(u, x)) =
          IF x \in AloudItems THEN Append(SaidIn(u), <<ChatRole(x), x.text>>) ELSE SaidIn(u)
    BY <2>3, <2>5, SaidMore
  <2>8. Texts(s.messages) = Texts(opening) \o SaidIn(u) /\ (~bridge => s.messages \in Seq(Plain))
    BY <2>2
  <2>9. Texts(f[m + 1].messages) = Texts(opening) \o SaidIn(Upto(input, m + 1))
    <3>1. PICK first, said, saying :
            first = Texts(opening) /\ said = SaidIn(u) /\ saying = <<ChatRole(x), x.text>>
      OBVIOUS
    <3>2. first \in Seq(Sayings) /\ said \in Seq(Sayings) /\ saying \in Sayings
      BY <1>9, <2>3, <2>5, <3>1, SaidMore, SayingOfItem
    <3>3. Append(first \o said, saying) = first \o Append(said, saying)
      <4>1. Joined(first, said, saying)
        BY ONLY <3>2, AppendJoined, Zenon
      <4> QED BY ONLY <4>1, Zenon DEF Joined
    <3>4. Texts(f[m + 1].messages) =
            IF x \in AloudItems THEN Append(first \o said, saying) ELSE first \o said
      BY <2>4, <2>6, <2>8, <3>1 DEF Follows
    <3>5. SaidIn(Upto(input, m + 1)) =
            IF x \in AloudItems THEN Append(said, saying) ELSE said
      BY <2>5, <2>7, <3>1
    <3> QED BY <3>1, <3>3, <3>4, <3>5
  <2> QED BY <2>1, <2>4, <2>6, <2>8, <2>9
<1>6. n \in S
  <2> HIDE DEF S
  <2>1. n \in 0 .. n
    OBVIOUS
  <2> QED BY ONLY n \in Nat, <1>4, <1>5, <2>1, Induction
<1>7. Upto(input, n) = input
  BY <1>1 DEF Upto
<1>8. f[n].messages \in Seq(ChatMessage)
  <2>1. f[n] \in Mapping
    BY <1>2
  <2> QED BY <2>1 DEF Mapping
<1> QED BY <1>2, <1>6, <1>7, <1>8

-----------------------------------------------------------------------------
\* The bodies a client can send.
Body ==
  [unstable : BOOLEAN, tier : {"none", "priority", "flex", "unsupported"},
   fields : SUBSET (AlwaysPublic \cup BridgeOnly), string : BOOLEAN, input : Seq(ClientItem)]

\* A string is the user's only message.
StringItem == Item("string", "user", 1, NoId)

\* What a client sends is a body, whatever it makes of the answers it gets.
BodyInv ==
  body # Nothing =>
    /\ body \in Body
    /\ body.string => body.input = <<StringItem>>

\* What a client may say next is an item.
LEMMA NextTyped == ASSUME NEW n \in Nat PROVE NextItems(n) \subseteq ClientItem
BY DEF NextItems, ClientItem, Item, ItemTypes, Speakers, Ids, Blank

\* So is every item of an answer that was rewritten.
LEMMA SynthesizedTyped ==
  ASSUME NEW a, a.said \in BOOLEAN, a.text \in Nat, a.reasoning \in Nat, a.calls \in Seq({c1, c2})
  PROVE  SynthesizedOutput(a) \in Seq(ClientItem)
<1>1. PICK r, t, calls : r = a.reasoning /\ t = a.text /\ calls = a.calls
  OBVIOUS
<1>2. r \in Nat /\ t \in Nat /\ calls \in Seq({c1, c2})
  BY <1>1
<1>3. /\ Item("reasoning", "assistant", r, NoId) \in ClientItem
      /\ Item("message", "assistant", t, NoId) \in ClientItem
      /\ Item("message", "assistant", Blank, NoId) \in ClientItem
      /\ \A id \in {c1, c2} : Item("function_call", "assistant", Blank, id) \in ClientItem
  BY <1>2 DEF ClientItem, Item, ItemTypes, Speakers, Ids, Blank
<1>4. PICK one : one = IF r = Blank THEN <<>> ELSE <<Item("reasoning", "assistant", r, NoId)>>
  OBVIOUS
<1>5. one \in Seq(ClientItem)
  BY <1>3, <1>4
<1>6. PICK two : two = IF a.said THEN <<Item("message", "assistant", t, NoId)>> ELSE <<>>
  OBVIOUS
<1>7. two \in Seq(ClientItem)
  BY <1>3, <1>6
<1>8. PICK three :
        three = [k \in DOMAIN calls |-> Item("function_call", "assistant", Blank, calls[k])]
  OBVIOUS
<1>9. three \in Seq(ClientItem)
  <2>1. PICK n \in Nat : DOMAIN calls = 1 .. n
    BY <1>2
  <2>2. \A k \in 1 .. n : Item("function_call", "assistant", Blank, calls[k]) \in ClientItem
    BY <1>2, <1>3, <2>1
  <2> QED BY <1>8, <2>1, <2>2
<1>10. one \o two \o three \in Seq(ClientItem)
  BY <1>5, <1>7, <1>9
<1>11. <<Item("message", "assistant", Blank, NoId)>> \in Seq(ClientItem)
  BY <1>3
<1>12. SynthesizedOutput(a) =
         IF one \o two \o three = <<>> THEN <<Item("message", "assistant", Blank, NoId)>>
         ELSE one \o two \o three
  BY <1>1, <1>4, <1>6, <1>8 DEF SynthesizedOutput
<1> QED BY <1>10, <1>11, <1>12

\* A body without a string as its input.
LEMMA BodyTyped ==
  ASSUME NEW unstable \in BOOLEAN, NEW tier \in {"none", "priority", "flex", "unsupported"},
         NEW fields \in SUBSET (AlwaysPublic \cup BridgeOnly)
  PROVE  BodyOf(unstable, tier, fields) \in Body /\ ~BodyOf(unstable, tier, fields).string
<1>1. <<>> \in Seq(ClientItem)
  OBVIOUS
<1> QED BY <1>1 DEF BodyOf, Body

\* The client only ever sends items.
LEMMA BodyInvariant == Spec => []BodyInv
<1>1. Init => BodyInv
  <2> SUFFICES ASSUME BodyInit PROVE BodyInv
    BY DEF Init, BodyInv
  <2>1. CASE body \in Strings
    <3>1. PICK unstable \in BOOLEAN, tier \in {"none", "priority", "flex", "unsupported"} :
            body = [BodyOf(unstable, tier, {})
                      EXCEPT !.string = TRUE, !.input = <<StringItem>>]
      <4> DEFINE asked(u, t) == [BodyOf(u, t, {}) EXCEPT !.string = TRUE, !.input = <<StringItem>>]
      <4>1. Strings = {asked(u, t) :
                         u \in BOOLEAN, t \in {"none", "priority", "flex", "unsupported"}}
        BY DEF Strings, StringItem
      <4> HIDE DEF asked
      <4>2. \E u \in BOOLEAN, t \in {"none", "priority", "flex", "unsupported"} : body = asked(u, t)
        BY <2>1, <4>1
      <4> QED BY <4>2 DEF asked
    <3>2. PICK b : b = [BodyOf(unstable, tier, {}) EXCEPT !.string = TRUE]
      OBVIOUS
    <3>3. b = [unstable |-> unstable, tier |-> tier, fields |-> {}, string |-> TRUE,
               input |-> <<>>]
      BY <3>2 DEF BodyOf
    <3>4. body = [b EXCEPT !.input = <<StringItem>>]
      BY ONLY <3>1, <3>2, Zenon
    <3>5. body = [unstable |-> unstable, tier |-> tier, fields |-> {}, string |-> TRUE,
                  input |-> <<StringItem>>]
      BY ONLY <3>3, <3>4
    <3>6. <<StringItem>> \in Seq(ClientItem)
      <4>1. StringItem \in ClientItem
        BY DEF StringItem, ClientItem, Item, ItemTypes, Speakers, Ids
      <4> QED BY <4>1
    <3> QED BY <3>5, <3>6 DEF BodyInv, Body
  <2>2. CASE body \notin Strings
    <3>1. PICK unstable \in BOOLEAN, tier \in {"none", "priority", "flex", "unsupported"},
               fields \in SUBSET (AlwaysPublic \cup BridgeOnly) :
                 body = BodyOf(unstable, tier, fields)
      <4>1. \/ body = BodyOf(TRUE, "none", {"stream", "tools", "previous_response_id", "instructions"})
            \/ body = BodyOf(FALSE, "none", {"stream", "tools"})
            \/ body = BodyOf(FALSE, "none", {"previous_response_id"})
            \/ body = BodyOf(FALSE, "priority", {"instructions"})
            \/ body = BodyOf(TRUE, "flex", {"max_tokens"})
        BY <2>2, Zenon DEF BodyInit, Bodies
      <4>2. {{"stream", "tools", "previous_response_id", "instructions"}, {"stream", "tools"},
             {"previous_response_id"}, {"instructions"}, {"max_tokens"}}
              \subseteq SUBSET (AlwaysPublic \cup BridgeOnly)
        BY DEF AlwaysPublic, BridgeOnly
      <4>3. \A t \in {"none", "priority", "flex"} : t \in {"none", "priority", "flex", "unsupported"}
        OBVIOUS
      <4> QED BY <4>1, <4>2, <4>3, Zenon
    <3> QED BY <3>1, BodyTyped DEF BodyInv
  <2> QED BY <2>1, <2>2
<1>2. BodyInv /\ [Next]_vars => BodyInv'
  <2> SUFFICES ASSUME BodyInv, [Next]_vars PROVE BodyInv'
    OBVIOUS
  <2>1. ASSUME NEW more \in Seq(ClientItem), body # Nothing, ~body.string,
               body' = [body EXCEPT !.input = more]
        PROVE  BodyInv'
    <3>1. body' \in Body /\ body'.string = body.string
      BY <2>1 DEF BodyInv, Body
    <3> QED BY <2>1, <3>1 DEF BodyInv
  <2>2. CASE AddItem
    <3>1. PICK item \in NextItems(Len(body.input) + 1) :
            body' = [body EXCEPT !.input = Append(@, item)]
      BY <2>2 DEF AddItem
    <3>2. body # Nothing /\ ~body.string /\ body.input \in Seq(ClientItem)
      BY <2>2 DEF AddItem, BodyInv, Body
    <3>3. item \in ClientItem
      <4>1. PICK n \in Nat : n = Len(body.input) + 1
        BY <3>2
      <4> QED BY <4>1, NextTyped
    <3>4. Append(body.input, item) \in Seq(ClientItem)
      BY <3>2, <3>3
    <3> QED BY <2>1, <3>1, <3>2, <3>4
  <2>3. CASE AddAnswer
    <3>1. PICK said \in BOOLEAN, reasoning \in {Blank, 90}, calls \in {<<>>, <<c1>>, <<c1, c2>>} :
            body' = [body EXCEPT !.input = @ \o SynthesizedOutput(
                       [said |-> said, text |-> IF said THEN 80 ELSE Blank,
                        reasoning |-> reasoning, calls |-> calls])]
      BY <2>3 DEF AddAnswer
    <3>2. body # Nothing /\ ~body.string /\ body.input \in Seq(ClientItem)
      BY <2>3 DEF AddAnswer, BodyInv, Body
    <3>3. PICK a : a = [said |-> said, text |-> IF said THEN 80 ELSE Blank,
                        reasoning |-> reasoning, calls |-> calls]
      OBVIOUS
    <3>4. calls \in Seq({c1, c2})
      <4>1. <<>> \in Seq({c1, c2}) /\ <<c1>> \in Seq({c1, c2}) /\ <<c1, c2>> \in Seq({c1, c2})
        OBVIOUS
      <4> QED BY <4>1, Zenon
    <3>5. a.said \in BOOLEAN /\ a.text \in Nat /\ a.reasoning \in Nat /\ a.calls \in Seq({c1, c2})
      BY <3>3, <3>4 DEF Blank
    <3>6. SynthesizedOutput(a) \in Seq(ClientItem)
      BY <3>5, SynthesizedTyped
    <3>7. body.input \o SynthesizedOutput(a) \in Seq(ClientItem)
      BY <3>2, <3>6
    <3> QED BY <2>1, <3>1, <3>2, <3>3, <3>7, ZenonT(60)
  <2>4. CASE UNCHANGED body
    BY <2>4 DEF BodyInv
  <2>5. SayMore \/ AddEvent \/ StartSearch \/ SearchStep => UNCHANGED body
    BY DEF SayMore, AddEvent, StartSearch, SearchStep
  <2>6. UNCHANGED vars => UNCHANGED body
    BY DEF vars
  <2> QED BY <2>2, <2>3, <2>4, <2>5, <2>6 DEF Next
<1> QED BY <1>1, <1>2, PTL DEF Spec

-----------------------------------------------------------------------------
\* A body, whatever the client put together.
Sent(b) == b \in Body /\ (b.string => b.input = <<StringItem>>)

\* The instructions are one plain message, or none.
LEMMA OpeningSays ==
  ASSUME NEW b
  PROVE  /\ Opening(b) \in Seq(Plain) /\ Opening(b) \in Seq(ChatMessage)
         /\ SaidBy(b) = Texts(Opening(b)) \o SaidIn(b.input)
<1>1. PICK m, saying : m = Message("system", Instructed) /\ saying = <<"system", Instructed>>
  OBVIOUS
<1>2. /\ m \in Plain /\ m \in ChatMessage
      /\ m.role = "system" /\ m.text = Instructed
  <2>1. "system" \in Speakers /\ Instructed \in Nat
    BY DEF Speakers, Instructed
  <2> QED BY <1>1, <2>1, MessagePlain
<1>3. <<>> \in Seq(ChatMessage) /\ <<>> \in Seq(Plain) /\ Append(<<>>, m) = <<m>>
  OBVIOUS
<1>4. Texts(<<>>) = <<>> /\ Texts(<<m>>) = <<saying>>
  <2>1. /\ Texts(<<>>) = <<>>
        /\ Texts(Append(<<>>, m)) =
             IF m.role # "tool" /\ m.text # Blank THEN Append(Texts(<<>>), <<m.role, m.text>>)
             ELSE Texts(<<>>)
    BY <1>2, <1>3, TextsMore
  <2>2. m.role # "tool" /\ m.text # Blank /\ <<m.role, m.text>> = saying
    BY <1>1, <1>2 DEF Blank, Instructed
  <2>3. Append(<<>>, saying) = <<saying>>
    OBVIOUS
  <2> QED BY <1>3, <2>1, <2>2, <2>3, Zenon
<1>5. CASE "instructions" \in b.fields
  <2>1. Opening(b) = <<m>>
    BY <1>1, <1>5 DEF Opening
  <2>2. SaidBy(b) = <<saying>> \o SaidIn(b.input)
    BY <1>1, <1>5 DEF SaidBy
  <2>3. <<m>> \in Seq(Plain) /\ <<m>> \in Seq(ChatMessage)
    BY <1>2
  <2> QED BY <1>4, <2>1, <2>2, <2>3
<1>6. CASE "instructions" \notin b.fields
  <2>1. Opening(b) = <<>>
    BY <1>6 DEF Opening
  <2>2. SaidBy(b) = <<>> \o SaidIn(b.input)
    BY <1>6 DEF SaidBy
  <2> QED BY <1>3, <1>4, <2>1, <2>2
<1> QED BY <1>5, <1>6

\* The messages before they are normalised.
MapsTo(b, bridge, mapped) ==
  mapped = IF b.string THEN Append(Opening(b), Message("user", b.input[1].text))
           ELSE MappedInput(Opening(b), b.input, bridge)

\* What a body that is not refused is mapped to.
LEMMA ChatMapped ==
  ASSUME NEW b, Sent(b), NEW bridge, ~Invalid(b, bridge), NEW mapped, MapsTo(b, bridge, mapped)
  PROVE  /\ mapped \in Seq(ChatMessage)
         /\ Texts(mapped) = SaidBy(b)
         /\ ~bridge => mapped \in Seq(Plain)
<1>1. b.input \in Seq(ClientItem)
  BY DEF Sent, Body
<1>2. PICK opening : opening = Opening(b)
  OBVIOUS
<1>3. /\ opening \in Seq(Plain) /\ opening \in Seq(ChatMessage)
      /\ SaidBy(b) = Texts(opening) \o SaidIn(b.input)
  BY <1>2, OpeningSays
<1>4. CASE b.string
  <2>1. b.input = <<StringItem>>
    BY <1>4 DEF Sent
  <2>2. /\ StringItem \in ClientItem /\ StringItem.text = 1 /\ StringItem.role = "user"
        /\ ChatRole(StringItem) = "user" /\ StringItem \in AloudItems
    <3>1. StringItem \in ClientItem
      BY DEF StringItem, Item, ClientItem, ItemTypes, Speakers, Ids
    <3>2. StringItem.text = 1 /\ StringItem.role = "user" /\ StringItem.type = "string"
      BY DEF StringItem, Item
    <3> QED BY <3>1, <3>2 DEF AloudItems, ChatRole, Blank
  <2>3. PICK m, saying : m = Message("user", 1) /\ saying = <<"user", 1>>
    OBVIOUS
  <2>4. /\ m \in Plain /\ m \in ChatMessage /\ m.role = "user" /\ m.text = 1
        /\ saying \in Sayings
    <3>1. "user" \in Speakers /\ 1 \in Nat
      BY DEF Speakers
    <3> QED BY <2>3, <3>1, MessagePlain DEF Sayings
  <2>5. mapped = Append(opening, m)
    BY <1>2, <1>4, <2>1, <2>2, <2>3 DEF MapsTo
  <2>6. Texts(Append(opening, m)) = Append(Texts(opening), saying)
    <3>1. Texts(Append(opening, m)) =
            IF m.role # "tool" /\ m.text # Blank THEN Append(Texts(opening), <<m.role, m.text>>)
            ELSE Texts(opening)
      BY <1>3, <2>4, TextsMore
    <3>2. m.role # "tool" /\ m.text # Blank /\ <<m.role, m.text>> = saying
      BY <2>3, <2>4 DEF Blank
    <3> QED BY <3>1, <3>2, Zenon
  <2>7. SaidIn(<<StringItem>>) = <<saying>>
    <3>1. /\ Append(<<>>, StringItem) = <<StringItem>>
          /\ Append(<<>>, saying) = <<saying>>
          /\ <<>> \in Seq(ClientItem)
      OBVIOUS
    <3>2. /\ SaidIn(<<>>) = <<>>
          /\ SaidIn(Append(<<>>, StringItem)) =
               IF StringItem \in AloudItems
               THEN Append(SaidIn(<<>>), <<ChatRole(StringItem), StringItem.text>>)
               ELSE SaidIn(<<>>)
      BY <2>2, <3>1, SaidMore
    <3>3. <<ChatRole(StringItem), StringItem.text>> = saying
      BY <2>2, <2>3
    <3> QED BY <2>2, <3>1, <3>2, <3>3, Zenon
  <2>8. PICK first : first = Texts(opening) /\ first \in Seq(Sayings)
    BY <1>3, TextsTyped
  <2>9. Append(first, saying) = first \o <<saying>>
    BY ONLY <2>4, <2>8
  <2>10. Append(opening, m) \in Seq(ChatMessage) /\ Append(opening, m) \in Seq(Plain)
    BY <1>3, <2>4, Appended
  <2> QED BY <1>3, <2>1, <2>5, <2>6, <2>7, <2>8, <2>9, <2>10
<1>5. CASE ~b.string
  <2>1. \A i \in DOMAIN b.input : ~ItemRefused(b.input[i], bridge)
    BY <1>5 DEF Invalid
  <2>2. b.input \in Seq(Taken(bridge))
    <3>1. PICK n \in Nat : n = Len(b.input) /\ DOMAIN b.input = 1 .. n
      BY <1>1
    <3>2. \A i \in 1 .. n : b.input[i] \in Taken(bridge)
      BY <1>1, <2>1, <3>1 DEF Taken
    <3> QED BY <1>1, <3>1, <3>2
  <2>3. mapped = MappedInput(opening, b.input, bridge)
    BY <1>2, <1>5 DEF MapsTo
  <2> QED BY <1>3, <2>2, <2>3, MappedSays
<1> QED BY <1>4, <1>5

\* Plain messages have nothing to answer.
LEMMA PlainAnswered == ASSUME NEW t \in Seq(Plain) PROVE CallsAnswered(t)
<1>1. \A i \in DOMAIN t : t[i].role # "tool" /\ t[i].calls = <<>>
  BY DEF Plain
<1>2. \A i \in DOMAIN t : DOMAIN t[i].calls = {}
  BY <1>1
<1> QED BY <1>1, <1>2 DEF CallsAnswered

\* A conversation that is handed to the chat endpoint.
LEMMA ChatPaired ==
  ASSUME NEW b, Sent(b), NEW bridge, ~ChatPayload(b, bridge).refused
  PROVE  /\ CallsAnswered(ChatPayload(b, bridge).messages)
         /\ Texts(ChatPayload(b, bridge).messages) = SaidBy(b)
<1>1. ~Invalid(b, bridge) /\ ChatPayload(b, bridge).messages = ChatMessages(b, bridge)
  BY DEF ChatPayload, Refusal
<1>7. ~Invalid(b, bridge)
  BY <1>1
<1>2. PICK mapped : MapsTo(b, bridge, mapped)
  BY DEF MapsTo
<1>3. /\ mapped \in Seq(ChatMessage)
      /\ Texts(mapped) = SaidBy(b)
      /\ ~bridge => mapped \in Seq(Plain)
  BY ONLY Sent(b), <1>7, <1>2, ChatMapped
<1>4. ChatMessages(b, bridge) = IF bridge THEN NormalizeToolMessages(mapped) ELSE mapped
  BY <1>2 DEF ChatMessages, MapsTo
<1>5. CASE bridge
  BY <1>1, <1>3, <1>4, <1>5, NormalizedWhole DEF Whole
<1>6. CASE ~bridge
  BY <1>1, <1>3, <1>4, <1>6, PlainAnswered
<1> QED BY <1>5, <1>6

\* Items that are not reasoning reach the Responses endpoint, calls as they are.
LEMMA NativeKeepsCalls ==
  ASSUME NEW b, Sent(b), "previous_response_id" \notin b.fields,
         NEW i \in DOMAIN b.input, b.input[i].type = "function_call"
  PROVE  \E j \in DOMAIN NormalizeReplay(b, NormalizeItems(b.input)) :
           NormalizeReplay(b, NormalizeItems(b.input))[j] = b.input[i]
<1> DEFINE shownTypes == {x \in ClientItem : x.type # "reasoning"}
<1>1. b.input \in Seq(ClientItem)
  BY DEF Sent, Body
<1>2. PICK shown : shown = KeptOf(b.input, shownTypes)
  OBVIOUS
<1>3. {k \in DOMAIN b.input : b.input[k].type # "reasoning"}
        = {k \in DOMAIN b.input : b.input[k] \in shownTypes}
  <2>1. \A k \in DOMAIN b.input : b.input[k] \in ClientItem
    BY <1>1
  <2> QED BY <2>1
<1>4. shown = Where(b.input, {k \in DOMAIN b.input : b.input[k].type # "reasoning"})
  BY <1>2, <1>3 DEF KeptOf
<1>5. b.input[i] \in shownTypes
  BY <1>1
<1> HIDE DEF shownTypes
<1>6. shown \in Seq(ClientItem)
  <2>1. KeptOf(b.input, shownTypes) \in Seq(ClientItem \cap shownTypes)
    BY <1>1, KeptIn
  <2> QED BY <1>2, <2>1
<1>7. PICK j \in DOMAIN shown : shown[j] = b.input[i]
  BY <1>1, <1>2, <1>5, KeptAll
<1>8. PICK items : items = NormalizeItems(b.input)
  OBVIOUS
<1>9. items = [k \in DOMAIN shown |-> NativeItem(shown[k])]
  BY <1>4, <1>8 DEF NormalizeItems
<1>10. items[j] = b.input[i]
  BY <1>7, <1>9 DEF NativeItem
<1> DEFINE E == {items[k] : k \in DOMAIN items}
<1>11. items \in Seq(E) /\ DOMAIN items = DOMAIN shown
  <2>1. DOMAIN shown = 1 .. Len(shown) /\ Len(shown) \in Nat
    BY <1>6
  <2>2. items = [k \in 1 .. Len(shown) |-> items[k]]
    BY <1>9, <2>1
  <2>3. \A k \in 1 .. Len(shown) : items[k] \in E
    BY <1>9, <2>1
  <2> HIDE DEF E
  <2> QED BY <2>1, <2>2, <2>3
<1> HIDE DEF E
<1>12. NormalizeReplay(b, items) = items
  <2>1. {k \in DOMAIN items : ~Replayed(b, k, items)} = {k \in DOMAIN items : items[k] \in E}
    <3>1. \A k \in DOMAIN items : items[k] \in E
      BY <1>11
    <3> QED BY <3>1 DEF Replayed
  <2>2. NormalizeReplay(b, items) = KeptOf(items, E)
    BY <2>1 DEF NormalizeReplay, KeptOf
  <2> QED BY <1>11, <2>2, KeptWhole
<1> QED BY <1>7, <1>8, <1>10, <1>11, <1>12

\* A conversation that is handed to the Responses endpoint.
LEMMA NativePaired ==
  ASSUME NEW b, Sent(b), ~NativePayload(b).refused
  PROVE  OutputsHaveCalls(b.input, NativePayload(b))
<1>1. PICK items : items = NormalizeReplay(b, NormalizeItems(b.input))
  OBVIOUS
<1>2. ~NativeInvalid(b)
  BY DEF NativePayload, Refusal
<1>3. /\ NativePayload(b).messages = IF b.string THEN b.input ELSE items
      /\ NativePayload(b).continues <=> "previous_response_id" \in b.fields
  BY <1>1, <1>2 DEF NativePayload
<1>4. CASE "previous_response_id" \in b.fields
  BY <1>3, <1>4 DEF OutputsHaveCalls
<1>5. CASE b.string
  <2>1. b.input = <<StringItem>> /\ StringItem.type = "string"
    BY <1>5 DEF Sent, StringItem, Item
  <2>2. \A i \in DOMAIN b.input : b.input[i].type # "function_call_output"
    BY <2>1
  <2> QED BY <1>3, <1>5, <2>2 DEF OutputsHaveCalls
<1>6. CASE ~b.string /\ "previous_response_id" \notin b.fields
  <2>1. ASSUME NEW i \in DOMAIN items,
               \E j \in DOMAIN b.input : b.input[j].type = "function_call"
                                           /\ b.input[j].id = items[i].id
        PROVE  \E j \in DOMAIN items : items[j].type = "function_call" /\ items[j].id = items[i].id
    <3>1. PICK k \in DOMAIN b.input : b.input[k].type = "function_call"
                                        /\ b.input[k].id = items[i].id
      BY <2>1
    <3>2. PICK j \in DOMAIN items : items[j] = b.input[k]
      BY <1>1, <1>6, <3>1, NativeKeepsCalls
    <3> QED BY <3>1, <3>2
  <2> QED BY <1>3, <1>6, <2>1 DEF OutputsHaveCalls
<1> QED BY <1>4, <1>5, <1>6

\* For every conversation, of any length and in any order: on either path each
\* call reaches Fireworks with its answer, each output with its call, and what
\* was said is neither lost nor moved.
THEOREM ConversationsStayPaired == Spec => []CallsStayPaired
<1>1. BodyInv => CallsStayPaired
  <2> SUFFICES ASSUME BodyInv, body # Nothing PROVE CallsStayPaired
    BY DEF CallsStayPaired
  <2>1. PICK b : b = body
    OBVIOUS
  <2>2. Sent(b)
    BY <2>1 DEF BodyInv, Sent
  <2>3. PICK bridge : bridge = (Path(b) = "bridge")
    OBVIOUS
  <2>4. ~ChatPayload(b, bridge).refused =>
          /\ CallsAnswered(ChatPayload(b, bridge).messages)
          /\ Texts(ChatPayload(b, bridge).messages) = SaidBy(b)
    BY <2>2, ChatPaired
  <2>5. ~NativePayload(b).refused => OutputsHaveCalls(b.input, NativePayload(b))
    BY <2>2, NativePaired
  <2> QED BY <2>1, <2>3, <2>4, <2>5 DEF CallsStayPaired
<1> QED BY <1>1, BodyInvariant, PTL

=============================================================================
