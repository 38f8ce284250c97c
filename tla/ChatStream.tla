----------------------------- MODULE ChatStream -----------------------------
(***************************************************************************)
(* ChatCompletionsToResponsesSSE of app/products/openai/responses_stream.py*)
(* as a sequential machine: a converter takes the chunks of a chat         *)
(* completion and emits Responses events.                                  *)
(*                                                                         *)
(* A chunk says which of reasoning and text it carries, lists its tool-call*)
(* deltas, and may carry a finish reason; the chunk "[DONE]" ends the      *)
(* stream.  Texts, names, ids and arguments are abstracted to their        *)
(* presence: every chunk of one completion carries the same id.  Token     *)
(* counts are not modelled.                                                *)
(*                                                                         *)
(* A step works on a pair of the converter c and the events out so far.    *)
(***************************************************************************)
EXTENDS Integers, Sequences, SequencesExt, FiniteSets

None == -1

Event(type, at, kind) == [type |-> type, at |-> at, kind |-> kind]

\* compat: the client is sub2api and gets no content parts.
NewConverter(compat) ==
  [compat |-> compat, created |-> FALSE, completed |-> FALSE, next |-> 0,
   reasoning |-> "none", reasoningAt |-> None, messageAt |-> None,
   tools |-> <<>>, finish |-> "none"]

Quiet(c) == [c |-> c, out |-> <<>>]
Emit(s, events) == [s EXCEPT !.out = @ \o events]

EnsureCreated(s) ==
  IF s.c.created THEN s
  ELSE Emit([s EXCEPT !.c.created = TRUE], <<Event("created", None, "none")>>)

EnsureReasoning(s) ==
  IF s.c.reasoning # "none" THEN s
  ELSE LET i == s.c.next
       IN  Emit(EnsureCreated([s EXCEPT !.c.reasoning = "open",
                                        !.c.reasoningAt = i, !.c.next = i + 1]),
                <<Event("item.added", i, "reasoning"), Event("part.added", i, "reasoning")>>)

\* Mutant: the item of reasoning is never closed.
KeepReasoning(s) ==
  IF s.c.reasoning # "open" THEN s
  ELSE LET i == s.c.reasoningAt
       IN  Emit([s EXCEPT !.c.reasoning = "done"],
                <<Event("content.done", i, "reasoning"), Event("part.done", i, "reasoning")>>)

CloseReasoning(s) ==
  IF s.c.reasoning # "open" THEN s
  ELSE LET i == s.c.reasoningAt
       IN  Emit([s EXCEPT !.c.reasoning = "done"],
                <<Event("content.done", i, "reasoning"), Event("part.done", i, "reasoning"),
                  Event("item.done", i, "reasoning")>>)

EnsureText(s) ==
  IF s.c.messageAt # None THEN s
  ELSE LET t == EnsureCreated(s)
           i == t.c.next
       IN  Emit([t EXCEPT !.c.messageAt = i, !.c.next = i + 1],
                <<Event("item.added", i, "message")>>
                  \o IF s.c.compat THEN <<>> ELSE <<Event("part.added", i, "message")>>)

\* One call more in the table of calls, as item i.
WithCall(tools, index, i) ==
  [x \in DOMAIN tools \cup {index} |-> IF x = index THEN i ELSE tools[x]]

\* One tool-call delta d: its index, and whether it carries arguments.
ToolDelta(s, d) ==
  LET known == d.index \in DOMAIN s.c.tools
      i == IF known THEN s.c.tools[d.index] ELSE s.c.next
      t == IF known THEN s
           ELSE Emit(EnsureCreated(
                       [s EXCEPT !.c.next = i + 1,
                                 !.c.tools = WithCall(@, d.index, i)]),
                     <<Event("item.added", i, "function")>>)
  IN  IF d.args THEN Emit(t, <<Event("delta", i, "function")>>) ELSE t

\* Mutant: content parts are closed for a client that got none.
CloseParts(s) ==
  IF s.c.messageAt = None THEN s
  ELSE LET i == s.c.messageAt
       IN  Emit(s, <<Event("content.done", i, "message"), Event("part.done", i, "message"),
                     Event("item.done", i, "message")>>)

CloseMessage(s) ==
  IF s.c.messageAt = None THEN s
  ELSE LET i == s.c.messageAt
       IN  Emit(s, (IF s.c.compat THEN <<>>
                    ELSE <<Event("content.done", i, "message"),
                           Event("part.done", i, "message")>>)
                     \o <<Event("item.done", i, "message")>>)

\* The indexes of the calls in order: the k-th has k of them up to itself.
ToolOrder(c) ==
  LET xs == DOMAIN c.tools
  IN  [k \in 1..Cardinality(xs) |->
         CHOOSE x \in xs : Cardinality({y \in xs : y <= x}) = k]

CloseTools(s) ==
  FoldLeft(LAMBDA t, x : Emit(t, <<Event("content.done", s.c.tools[x], "function"),
                                   Event("item.done", s.c.tools[x], "function")>>),
           s, ToolOrder(s.c))

\* Mutant: text beside tool calls is not listed.
CallsOrText(c) ==
  (IF c.reasoning = "none" THEN <<>> ELSE <<c.reasoningAt>>)
    \o IF DOMAIN c.tools = {} THEN <<c.messageAt>>
       ELSE [k \in 1..Len(ToolOrder(c)) |-> c.tools[ToolOrder(c)[k]]]

(* The output of the terminal event: reasoning, the message, then the calls*)
(* by tool index.  A message that was never announced stands in for an     *)
(* answer without tool calls.                                              *)
FinalOutput(c) ==
  (IF c.reasoning = "none" THEN <<>> ELSE <<c.reasoningAt>>)
    \o (IF c.messageAt # None \/ DOMAIN c.tools = {} THEN <<c.messageAt>> ELSE <<>>)
    \o [k \in 1..Len(ToolOrder(c)) |-> c.tools[ToolOrder(c)[k]]]

Complete(s) ==
  IF s.c.completed THEN s
  ELSE LET t == CloseTools(CloseMessage(CloseReasoning(EnsureCreated(
                  [s EXCEPT !.c.completed = TRUE]))))
       IN  Emit(t, <<[type |-> "completed", at |-> None, kind |-> "none",
                      status |-> IF t.c.finish = "length" THEN "incomplete" ELSE "completed",
                      output |-> FinalOutput(t.c)]>>)

SayReasoning(s) ==
  LET t == EnsureReasoning(s)
  IN  Emit(t, <<Event("delta", t.c.reasoningAt, "reasoning")>>)

SayText(s) ==
  LET t == EnsureText(CloseReasoning(s))
  IN  Emit(t, <<Event("delta", t.c.messageAt, "message")>>)

SayTools(s, deltas) == FoldLeft(ToolDelta, CloseReasoning(s), deltas)

Convert(c, chunk) ==
  LET s0 == Quiet([c EXCEPT !.finish = IF chunk.finish = "none" THEN @ ELSE chunk.finish])
      s1 == IF chunk.reasoning THEN SayReasoning(s0) ELSE s0
      s2 == IF chunk.text THEN SayText(s1) ELSE s1
  IN  IF chunk.tools = <<>> THEN s2 ELSE SayTools(s2, chunk.tools)

\* "data: [DONE]" completes the answer; so does the end of a stream without it.
Feed(c, chunk) == IF chunk.done THEN Complete(Quiet(c)) ELSE Convert(c, chunk)

\* Mutant: a stream that broke off before its first event is not completed.
FlushBegun(c) == IF c.created THEN Complete(Quiet(c)) ELSE Quiet(c)

Flush(c) == Complete(Quiet(c))

=============================================================================
