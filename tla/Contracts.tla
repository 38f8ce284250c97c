------------------------------ MODULE Contracts -----------------------------
(***************************************************************************)
(* The algorithms without shared state, over bounded inputs.  A behaviour  *)
(* follows one of four inputs, which grows step by step: an answer of      *)
(* Fireworks to classify, a conversation to rewrite, a request that        *)
(* searches, and a report of tokens to account for.                        *)
(***************************************************************************)
EXTENDS ErrorContracts, NativeAdapter, SearchLoop

Usages == INSTANCE UsageAccounting

CONSTANTS Statuses,        \* of failed answers
          c1, c2,          \* call ids
          MaxItems,        \* items of a conversation
          MaxEvents,       \* events of a stream
          Payloads,        \* events and bodies that may report tokens
          Headers,         \* what the headers report
          Contents         \* what requests and answers consist of

ASSUME StatusesAssumption == Statuses \subseteq Nat

\* The reports that may arrive: numbers in any of the four parts of a payload,
\* or none, and numbers in the headers.
Part == [input_tokens : Nat, prompt_tokens : Nat, output_tokens : Nat,
         completion_tokens : Nat, cached_tokens : Nat, cache_creation : Nat,
         cache_read : Nat, estimated : BOOLEAN]
PartOrNone == Part \cup {Usages!NoPart}
Payload == [usage : PartOrNone, perf : PartOrNone,
            nested_usage : PartOrNone, nested_perf : PartOrNone]
Header == [prompt : Nat, cached : Nat]
Piece == [kind : {"text", "tool", "image", "file"}, chars : Nat]

ASSUME ReportsAssumption ==
  /\ Payloads \subseteq Payload
  /\ Headers \subseteq Header
  /\ Contents \subseteq Seq(Piece)

VARIABLES answer, body, tally

Nothing == [nothing |-> TRUE]

vars == <<answer, body, search, tally>>

-----------------------------------------------------------------------------
(* Every kind of failed answer.                                            *)
AnswerInit ==
  \/ \E s \in Statuses : answer = [status |-> s, words |-> {}, exc |-> "none"]
  \/ \E e \in Exceptions \ {"none"} :
       answer = [status |-> NoStatus, words |-> {}, exc |-> e]

SayMore ==
  /\ answer # Nothing
  /\ answer.exc = "none"
  /\ \E w \in WordFamilies \ answer.words :
       answer' = [answer EXCEPT !.words = @ \cup {w}]
  /\ UNCHANGED <<body, search, tally>>

-----------------------------------------------------------------------------
(* Conversations: the client's items, and answers the fallback gave before.*)
BodyOf(unstable, tier, fields) ==
  [unstable |-> unstable, tier |-> tier, fields |-> fields,
   string |-> FALSE, input |-> <<>>]

Bodies ==
  {BodyOf(TRUE, "none", {"stream", "tools", "previous_response_id", "instructions"}),
   BodyOf(FALSE, "none", {"stream", "tools"}),
   BodyOf(FALSE, "none", {"previous_response_id"})}

Strings ==
  {[BodyOf(unstable, tier, {}) EXCEPT !.string = TRUE,
                                      !.input = <<Item("string", "user", 1, NoId)>>] :
     unstable \in BOOLEAN, tier \in {"none", "priority", "flex", "unsupported"}}

BodyInit == body \in Bodies \cup Strings
              \cup {BodyOf(FALSE, "priority", {"instructions"}), BodyOf(TRUE, "flex", {"max_tokens"})}

\* What the client may say next; its n-th item has the text n.
NextItems(n) ==
  {Item("message", role, n, NoId) : role \in {"developer", "user", "assistant"}}
    \cup {Item("message", "assistant", Blank, NoId),
          Item("output_text", "assistant", n, NoId),
          Item("input_text", "user", n, NoId),
          Item("reasoning", "assistant", n, NoId),
          Item("picture", "user", Blank, NoId),
          Item("unknown", "user", Blank, NoId)}
    \cup {Item("function_call", "assistant", Blank, id) : id \in {c1, c2, NoId}}
    \cup {Item("function_call_output", "user", n, id) : id \in {c1, c2, NoId}}

AddItem ==
  /\ body # Nothing
  /\ ~body.string
  /\ Len(body.input) < MaxItems
  /\ \E item \in NextItems(Len(body.input) + 1) :
       body' = [body EXCEPT !.input = Append(@, item)]
  /\ UNCHANGED <<answer, search, tally>>

\* The client keeps an answer that the chat fallback rewrote.
AddAnswer ==
  /\ body # Nothing
  /\ body.unstable
  /\ ~body.string
  /\ Len(body.input) \in 1 .. MaxItems - 2
  /\ \E said \in BOOLEAN, reasoning \in {Blank, 90}, calls \in {<<>>, <<c1>>, <<c1, c2>>} :
       body' = [body EXCEPT !.input = @ \o SynthesizedOutput(
                  [said |-> said, text |-> IF said THEN 80 ELSE Blank,
                   reasoning |-> reasoning, calls |-> calls])]
  /\ UNCHANGED <<answer, search, tally>>

-----------------------------------------------------------------------------
(* Reports of tokens.                                                      *)
TallyInit ==
  \E stream \in BOOLEAN, headers \in Headers, request \in Contents,
     response \in Contents, tokenizer \in Usages!Tokenizers :
    tally = [stream |-> stream, events |-> <<>>, headers |-> headers,
             request |-> request, response |-> IF stream THEN <<>> ELSE response,
             converted |-> IF stream THEN Len(response) ELSE 0,
             tokenizer |-> tokenizer]

AddEvent ==
  /\ tally # Nothing
  /\ Len(tally.events) < (IF tally.stream THEN MaxEvents ELSE 1)
  /\ \E payload \in Payloads : tally' = [tally EXCEPT !.events = Append(@, payload)]
  /\ UNCHANGED <<answer, body, search>>

-----------------------------------------------------------------------------
Init ==
  \/ AnswerInit /\ body = Nothing /\ search = NoSearch /\ tally = Nothing
  \/ BodyInit /\ answer = Nothing /\ search = NoSearch /\ tally = Nothing
  \/ TallyInit /\ answer = Nothing /\ search = NoSearch /\ body = Nothing
  \/ search = NoSearch /\ answer = Nothing /\ body = Nothing /\ tally = Nothing

StartSearch ==
  /\ answer = Nothing
  /\ body = Nothing
  /\ tally = Nothing
  /\ \E tool, enabled, keyed, listed, continues \in BOOLEAN :
       Arrive(tool, enabled, keyed, listed, continues)
  /\ UNCHANGED <<answer, body, tally>>

SearchStep == SearchNext /\ UNCHANGED <<answer, body, tally>>

Next == SayMore \/ AddItem \/ AddAnswer \/ AddEvent \/ StartSearch \/ SearchStep

Spec == Init /\ [][Next]_vars

-----------------------------------------------------------------------------
\* A failure that moves the request to another key also keeps the failed key
\* or its account away from the next request; one that is passed to the client
\* leaves the pool alone.
FailureLeavesMark ==
  answer # Nothing =>
    (ShouldFailover(answer) <=> DisablesKey(answer) \/ CooldownSeconds(answer) > 0)

\* A key is never lost to throttling: a 429 cools down, whatever it says of
\* billing, unless its text speaks of authentication.
ThrottlingNeverDisables ==
  answer # Nothing =>
    (answer.status = 429 /\ "auth" \notin answer.words => ~DisablesKey(answer))

\* When no response arrived the request always fails over, so the bare `raise`
\* of proxy.py:366 and 451, which writes no log row, is never reached.
NoResponseFailsOver ==
  answer # Nothing =>
    (answer.exc # "none" => ShouldFailover(answer) /\ ~DisablesKey(answer))

\* Every call of a chat message is answered by the messages right after it, in
\* the order of the calls, and every tool message answers one.
CallsAnswered(messages) ==
  /\ \A h \in DOMAIN messages : \A k \in DOMAIN messages[h].calls :
       /\ h + k \in DOMAIN messages
       /\ messages[h + k].role = "tool"
       /\ messages[h + k].id = messages[h].calls[k]
  /\ \A i \in DOMAIN messages : messages[i].role = "tool" =>
       \E h \in 1 .. i - 1 : i - h \in DOMAIN messages[h].calls

Texts(messages) ==
  LET said == Where(messages, {i \in DOMAIN messages :
                messages[i].role # "tool" /\ messages[i].text # Blank})
  IN  [i \in DOMAIN said |-> <<said[i].role, said[i].text>>]

SaidIn(input) ==
  LET said == Where(input, {i \in DOMAIN input :
                /\ input[i].text # Blank
                /\ input[i].type \notin {"reasoning", "function_call_output"}})
  IN  [i \in DOMAIN said |-> <<ChatRole(said[i]), said[i].text>>]

\* The instructions come first.
SaidBy(sent) ==
  (IF "instructions" \in sent.fields THEN <<<<"system", Instructed>>>> ELSE <<>>)
    \o SaidIn(sent.input)

\* An output the client sent with its call reaches Fireworks with the call, or
\* with the id of the response that holds it.
OutputsHaveCalls(sent, payload) ==
  \A i \in DOMAIN payload.messages :
    /\ payload.messages[i].type = "function_call_output"
    /\ \E j \in DOMAIN sent : sent[j].type = "function_call"
                                /\ sent[j].id = payload.messages[i].id
    => \/ payload.continues
       \/ \E j \in DOMAIN payload.messages :
            /\ payload.messages[j].type = "function_call"
            /\ payload.messages[j].id = payload.messages[i].id

\* On either path a conversation with calls, whatever its order and whatever is
\* missing from it, is one Fireworks can continue: rewritten for the chat
\* endpoint every call is followed by its answers and no text is lost or moved
\* (_normalize_chat_tool_messages), and on the Responses endpoint no output
\* loses its call (_normalize_previous_response_tool_replay).
CallsStayPaired ==
  body # Nothing =>
    LET path == Path(body)
        chat == ChatPayload(body, path = "bridge")
        native == NativePayload(body)
    IN  /\ path \in {"bridge", "priority"} /\ ~chat.refused =>
             CallsAnswered(chat.messages) /\ Texts(chat.messages) = SaidBy(body)
        /\ path = "native" /\ ~native.refused => OutputsHaveCalls(body.input, native)

Places(kinds) == {i \in DOMAIN search.asked : search.asked[i].kind \in kinds}

\* Whenever Fireworks is asked again, every search it called for is answered
\* once, after its call, and nothing is answered that it did not call for; the
\* answer given back at the end reports every search that was run.
SearchesPaired ==
  search # NoSearch =>
    /\ search.phase = "asking" =>
         /\ search.round <= Rounds
         /\ \A i \in Places(SearchKinds) :
              \E j \in Places({"result"}) : search.asked[j].id = search.asked[i].id
         /\ \A j \in Places({"result"}) :
              \E i \in Places(SearchKinds) : i < j /\ search.asked[i].id = search.asked[j].id
         /\ Cardinality(Places({"result"})) = Cardinality(Places(SearchKinds))
    /\ search.phase = "answered" =>
         \A i \in Places(SearchKinds) : \E k \in DOMAIN Response :
           Response[k] = Entry("web_search_call", search.asked[i].id)

\* The question is part of every request of the loop, as a list item or as the
\* request's own input.
QuestionReplayed ==
  search # NoSearch /\ search.phase = "asking" =>
    search.continues \/ Places({"question"}) # {}

\* What the code reads of a payload: its usage with the metrics beside it.  A
\* usage of the payload hides the response in it, a usage of that response
\* hides the metrics of the payload, and metrics of a response without a usage
\* are not read (extract_usage).
PartNames == {"usage", "perf", "nested_usage", "nested_perf"}
HiddenParts(payload) ==
  {name \in PartNames :
     \/ payload.usage # Usages!NoPart /\ name \in {"nested_usage", "nested_perf"}
     \/ payload.nested_usage # Usages!NoPart /\ payload.usage = Usages!NoPart /\ name = "perf"
     \/ payload.nested_usage = Usages!NoPart /\ name = "nested_perf"}

NumbersIn(payload, field) ==
  {Usages!UsageOf(payload[name])[field] : name \in PartNames \ HiddenParts(payload)}

\* The largest number reported, over all events, their parts and the headers.
CountFields == {"input", "output", "cached"}
HeaderNumber(field) ==
  CASE field = "input"  -> tally.headers.prompt
    [] field = "cached" -> tally.headers.cached
    [] field = "output" -> 0
Numbers(field) ==
  {HeaderNumber(field)} \cup UNION {NumbersIn(tally.events[i], field) : i \in DOMAIN tally.events}
MostReported(field) == Max(Numbers(field))

\* A request is accounted with the largest number of each field that was
\* reported, in whatever order and in however many events it came.  An estimate
\* never lowers a number nor touches the cached one, leaves input and output
\* alone when both were reported, and is marked.  It may raise a number that was
\* reported beside one that is missing: maybe_estimate_usage takes the larger.
ReportedCountsStand ==
  tally # Nothing =>
    LET row  == Usages!Accounted(tally)
        said == Usages!Reported(tally.events, tally.headers)
    IN  /\ \A field \in CountFields : said[field] = MostReported(field)
        /\ row.input >= said.input /\ row.output >= said.output /\ row.cached = said.cached
        /\ said.input # 0 /\ said.output # 0 => row = said
        /\ Usages!LoggedUsage(row) # Usages!LoggedUsage(said) => row.estimated

=============================================================================
