---------------------------- MODULE MessageStream ---------------------------
(***************************************************************************)
(* ResponsesToAnthropicStreamAdapter of                                    *)
(* app/products/anthropic/responses_bridge.py: Responses events in, the    *)
(* events of an Anthropic message out.  Input events are those of          *)
(* NativeStream; ids, names, texts and usage figures are left out.         *)
(***************************************************************************)
EXTENDS Integers, Sequences

NoBlock == -1

NewAdapter ==
  [started |-> FALSE, stopped |-> FALSE, open |-> NoBlock, text |-> FALSE,
   next |-> 0, blockOf |-> <<>>, spoke |-> {}, tool |-> FALSE]

Block(type, at) == [type |-> type, at |-> at, kind |-> "none"]
Message(type, reason) == [type |-> type, at |-> NoBlock, kind |-> reason]

Still(a) == [c |-> a, out |-> <<>>]
Write(s, events) == [s EXCEPT !.out = @ \o events]

EnsureStart(s) ==
  IF s.c.started THEN s
  ELSE Write([s EXCEPT !.c.started = TRUE], <<Message("message.start", "none")>>)

CloseBlock(s) ==
  IF s.c.open = NoBlock THEN s
  ELSE Write([s EXCEPT !.c.open = NoBlock, !.c.text = FALSE],
             <<Block("block.stop", s.c.open)>>)

\* Mutant: a block begins while another is open.
StartNested(s, i, text) ==
  LET t == EnsureStart(s)
      b == t.c.next
  IN  Write([t EXCEPT !.c.next = b + 1, !.c.open = b, !.c.text = text,
                      !.c.blockOf = [x \in DOMAIN @ \cup {i} |-> IF x = i THEN b ELSE @[x]]],
            <<Block("block.start", b)>>)

\* A block of output item i; the block that was open is closed.
StartBlock(s, i, text) ==
  LET t == CloseBlock(EnsureStart(s))
      b == t.c.next
  IN  Write([t EXCEPT !.c.next = b + 1, !.c.open = b, !.c.text = text,
                      !.c.blockOf = [x \in DOMAIN @ \cup {i} |-> IF x = i THEN b ELSE @[x]]],
            <<Block("block.start", b)>>)

StartTool(s, i) == StartBlock([s EXCEPT !.c.tool = TRUE], i, FALSE)

TextDelta(s, i) ==
  LET t == IF s.c.text THEN s ELSE StartBlock(s, i, TRUE)
  IN  Write(t, <<Block("block.delta", t.c.open)>>)

\* Arguments go to the block of their item, whichever block is open.
ArgumentsDelta(s, i) ==
  LET t == IF i \in DOMAIN s.c.blockOf THEN s ELSE StartTool(s, i)
  IN  Write([t EXCEPT !.c.spoke = @ \cup {i}], <<Block("block.delta", t.c.blockOf[i])>>)

\* Arguments that came in no piece are written here; a block it has to start
\* for them does not count as a tool call.
ArgumentsDone(s, i, full) ==
  LET t == IF ~full \/ i \in s.c.spoke THEN s
           ELSE LET u == IF i \in DOMAIN s.c.blockOf THEN s ELSE StartBlock(s, i, FALSE)
                IN  Write(u, <<Block("block.delta", u.c.blockOf[i])>>)
  IN  CloseBlock(t)

StopReason(a, status) ==
  CASE status = "failed" -> "error"
    [] status = "incomplete" -> "max_tokens"
    [] OTHER -> IF a.tool THEN "tool_use" ELSE "end_turn"

FinalEvents(s, status) ==
  IF s.c.stopped THEN s
  ELSE LET t == CloseBlock(EnsureStart(s))
       IN  Write([t EXCEPT !.c.stopped = TRUE],
                 <<Message("message.delta", StopReason(t.c, status)),
                   Message("message.stop", "none")>>)

Adapt(a, e) ==
  LET s == Still(a)
  IN  CASE e.type = "created" -> EnsureStart(s)
        [] e.type = "completed" -> FinalEvents(s, e.status)
        [] e.type = "item.added" /\ e.kind = "function" -> StartTool(s, e.at)
        [] e.type = "delta" /\ e.kind = "message" -> TextDelta(s, e.at)
        [] e.type = "delta" /\ e.kind = "function" -> ArgumentsDelta(s, e.at)
        [] e.type = "content.done" /\ e.kind = "function" -> ArgumentsDone(s, e.at, e.full)
        [] e.type = "content.done" /\ e.kind = "message" -> CloseBlock(s)
        [] e.type = "item.done" -> CloseBlock(s)
        [] OTHER -> s

\* A stream that stops without its terminal event is ended here, if it began.
FlushMessage(a) ==
  IF a.started /\ ~a.stopped THEN FinalEvents(Still(a), "none") ELSE Still(a)

=============================================================================
