---------------------------- MODULE ChatFallback ----------------------------
(***************************************************************************)
(* A Responses request rewritten as a Chat Completions request, and the    *)
(* answer rewritten back (app/products/openai/responses_priority_fallback  *)
(* .py).  `bridge` is allow_bridge_drops: set for models that are unstable *)
(* on the Responses endpoint, where what cannot be mapped is dropped, and  *)
(* clear for the priority tier, where it is refused.                       *)
(*                                                                         *)
(* A text is a number, 0 when it is blank; a call is its call_id.          *)
(***************************************************************************)
EXTENDS Naturals, SequencesExt, Selections

CONSTANT NoId   \* the call_id of an item that has none

Blank == 0

\* A content part list without text parts has type "picture"; "unknown" is
\* any type without a rule of its own.
ItemTypes == {"string", "message", "picture", "output_text", "input_text",
              "reasoning", "function_call", "function_call_output", "unknown"}

Item(type, role, text, id) ==
  [type |-> type, role |-> role, text |-> text, id |-> id]

Message(role, text) ==
  [role |-> role, text |-> text, calls |-> <<>>, reasoning |-> Blank, id |-> NoId]

Refusal == [refused |-> TRUE, messages |-> <<>>]

-----------------------------------------------------------------------------
(* What is refused before anything is mapped.                              *)
AlwaysPublic ==
  {"model", "input", "instructions", "temperature", "top_p",
   "max_output_tokens", "max_tokens", "user", "metadata", "prompt_cache_key",
   "prompt_cache_isolation_key", "perf_metrics_in_response", "service_tier"}

BridgeOnly ==
  {"include", "parallel_tool_calls", "reasoning", "store", "stream_options",
   "text", "truncation", "previous_response_id", "max_tool_calls",
   "stream", "thinking", "top_k", "tools", "tool_choice"}

\* A field of body.fields is there, of its type, and neither null nor false nor
\* an empty text.
FieldsRefused(body, bridge) ==
  \/ {"max_tokens", "max_output_tokens"} \subseteq body.fields
  \/ ~bridge /\ ~(body.fields \subseteq AlwaysPublic)

ItemRefused(item, bridge) ==
  \/ item.type = "output_text" /\ item.text = Blank
  \/ item.type = "picture"
  \/ item.type = "message" /\ item.role \notin {"developer", "system", "user", "assistant"}
  \/ ~bridge /\ item.type \notin {"message", "output_text"}

Invalid(body, bridge) ==
  \/ FieldsRefused(body, bridge)
  \/ ~body.string /\ \E i \in DOMAIN body.input : ItemRefused(body.input[i], bridge)

-----------------------------------------------------------------------------
(* The messages of one item; `pending` is the text of a reasoning item that*)
(* waits for the next call.                                                *)
Say(s, role, text) == [s EXCEPT !.messages = Append(@, Message(role, text)),
                                !.pending  = IF role = "assistant" THEN @ ELSE Blank]

Drop(s) == [s EXCEPT !.pending = Blank]

AddCall(s, id) ==
  LET n == Len(s.messages)
      own == [Message("assistant", Blank) EXCEPT !.calls = <<id>>, !.reasoning = s.pending]
  IN  [pending  |-> Blank,
       messages |->
         IF n > 0 /\ s.messages[n].role = "assistant"
         THEN [s.messages EXCEPT
                 ![n].calls = Append(@, id),
                 ![n].reasoning = IF @ = Blank THEN s.pending ELSE @]
         ELSE Append(s.messages, own)]

AddReply(s, item) ==
  [messages |-> Append(s.messages, [Message("tool", item.text) EXCEPT !.id = item.id]),
   pending  |-> Blank]

ChatRole(item) == IF item.role = "developer" THEN "system" ELSE item.role

MapItem(bridge, s, item) ==
  CASE item.type = "reasoning"   -> [s EXCEPT !.pending = item.text]
    [] item.type = "output_text" -> Say(s, "assistant", item.text)
    [] item.type \in {"string", "input_text"} -> Say(s, "user", item.text)
    [] item.type = "function_call" ->
         IF item.id = NoId THEN Drop(s) ELSE AddCall(s, item.id)
    [] item.type = "function_call_output" ->
         IF item.id = NoId THEN Drop(s) ELSE AddReply(s, item)
    [] item.type = "message" ->
         IF bridge /\ item.text = Blank THEN Drop(s) ELSE Say(s, ChatRole(item), item.text)
    [] OTHER -> Drop(s)

MappedInput(opening, input, bridge) ==
  FoldLeft(LAMBDA s, item : MapItem(bridge, s, item),
           [messages |-> opening, pending |-> Blank], input).messages

-----------------------------------------------------------------------------
(* Chat Completions wants every call answered by the tool messages that    *)
(* directly follow it: answers are moved there, unanswered calls and       *)
(* answers of no call dropped.  The last answer with an id stands for all. *)
Answers(messages, id) ==
  {i \in DOMAIN messages : messages[i].role = "tool" /\ messages[i].id = id}

LastAnswer(messages, id) == messages[Max(Answers(messages, id))]

AnsweredCalls(messages, m) ==
  Where(m.calls, {k \in DOMAIN m.calls : Answers(messages, m.calls[k]) # {}})

\* Mutant: answers stay where the client put them.
AnswersInPlace(messages, m) ==
  IF m.calls = <<>> THEN <<m>>
  ELSE <<[m EXCEPT !.calls = AnsweredCalls(messages, m)]>>

WithAnswers(messages, m) ==
  LET kept == AnsweredCalls(messages, m)
  IN  IF m.role = "tool" THEN <<>>
      ELSE IF m.calls = <<>> THEN <<m>>
      ELSE IF kept # <<>>
           THEN <<[m EXCEPT !.calls = kept]>>
                  \o [k \in DOMAIN kept |-> LastAnswer(messages, kept[k])]
      ELSE IF m.text = Blank THEN <<>>
      ELSE <<[m EXCEPT !.calls = <<>>, !.reasoning = Blank]>>

NormalizeToolMessages(messages) ==
  FlattenSeq([i \in DOMAIN messages |-> WithAnswers(messages, messages[i])])

(* build_priority_chat_payload.  The instructions, unless they are empty,  *)
(* are the first message, whose text is Instructed.                        *)
Instructed == 70

Opening(body) ==
  IF "instructions" \in body.fields THEN <<Message("system", Instructed)>> ELSE <<>>

ChatMessages(body, bridge) ==
  LET mapped == IF body.string
                THEN Append(Opening(body), Message("user", body.input[1].text))
                ELSE MappedInput(Opening(body), body.input, bridge)
  IN  IF bridge THEN NormalizeToolMessages(mapped) ELSE mapped

ChatPayload(body, bridge) ==
  IF Invalid(body, bridge) \/ ChatMessages(body, bridge) = <<>> THEN Refusal
  ELSE [refused |-> FALSE, messages |-> ChatMessages(body, bridge)]

-----------------------------------------------------------------------------
(* synthesize_responses_from_chat: an answer is its reasoning, its text    *)
(* (a content that is null has said = FALSE) and its calls.                *)
SynthesizedOutput(answer) ==
  LET reasoning == IF answer.reasoning = Blank THEN <<>>
                   ELSE <<Item("reasoning", "assistant", answer.reasoning, NoId)>>
      message == IF answer.said
                 THEN <<Item("message", "assistant", answer.text, NoId)>> ELSE <<>>
      calls == [k \in DOMAIN answer.calls |->
                  Item("function_call", "assistant", Blank, answer.calls[k])]
      all == reasoning \o message \o calls
  IN  IF all = <<>> THEN <<Item("message", "assistant", Blank, NoId)>> ELSE all

=============================================================================
