---------------------------- MODULE NativeStream ----------------------------
(***************************************************************************)
(* ResponsesSSECanonicalizer of app/products/openai/responses_stream.py: it*)
(* takes the Responses events of Fireworks and passes, drops, holds back or*)
(* completes them for the client.                                          *)
(*                                                                         *)
(* An event has a type, an output index and the kind of its item (the event*)
(* name and the item's type in the code); full says that the final event of*)
(* a call's arguments carries them, tokens that a terminal event counts    *)
(* output tokens.  Texts are not empty and have tokens; the spelling of    *)
(* names and arguments, corrected for sub2api, is not modelled.            *)
(***************************************************************************)
EXTENDS Integers, Sequences

\* suppress: reasoning is hidden from the client; bridge: the client is sub2api.
NewCanonicalizer(suppress, bridge) ==
  [suppress |-> suppress, bridge |-> bridge \/ suppress, started |-> {}, closed |-> {},
   argsDone |-> {}, held |-> {}, heldArgs |-> {}, collected |-> FALSE]

Passed(c, e) == [c |-> c, out |-> <<e>>]
Dropped(c) == [c |-> c, out |-> <<>>]

HasItem(e) == e.kind # "none"
Added(e) == [type |-> "item.added", at |-> e.at, kind |-> e.kind, full |-> FALSE]

\* Events that would close the wrong block of an Anthropic client behind sub2api.
UnsafeDone(c, e) ==
  \/ e.kind = "message" /\ e.type \in {"content.done", "part.added", "part.done", "item.done"}
  \/ e.kind = "function" /\ e.type = "item.done" /\ e.at \notin c.argsDone

\* Text the output tokens of a terminal event can be estimated from.
Collects(e) ==
  \/ e.type = "delta"
  \/ e.kind = "message" /\ e.type \in {"content.done", "item.done"}

Collect(c, e) == [c EXCEPT !.collected = @ \/ Collects(e)]

\* A terminal event without output tokens gets an estimate, unless nothing was
\* collected or the answer failed.
InjectUsage(c, e) ==
  IF e.type = "completed" /\ e.status # "failed"
  THEN [e EXCEPT !.tokens = @ \/ c.collected] ELSE e

HideReasoning(c, e) ==
  Dropped([c EXCEPT !.started = @ \cup {e.at},
                    !.closed = IF e.type = "item.done" THEN @ \cup {e.at} ELSE @])

\* Mutant: a call is announced at once.
PassCall(c, e) ==
  [c |-> [c EXCEPT !.started = @ \cup {e.at}, !.closed = @ \ {e.at}], out |-> <<e>>]

\* sub2api gets a call when its arguments are complete; until then the call and
\* the pieces of its arguments are held back.
HoldCall(c, e) ==
  Dropped([c EXCEPT !.held = @ \cup {e.at}, !.started = @ \cup {e.at},
                    !.closed = @ \ {e.at}])

HoldArguments(c, e) == Dropped([c EXCEPT !.heldArgs = @ \cup {e.at}])

\* Mutant: the arguments of the final event alone are passed on.
ReleaseOwn(c, e) ==
  [c |-> [c EXCEPT !.held = @ \ {e.at}, !.heldArgs = @ \ {e.at}, !.argsDone = @ \cup {e.at}],
   out |-> <<Added(e), e>>]

ReleaseCall(c, e) ==
  [c |-> [c EXCEPT !.held = @ \ {e.at}, !.heldArgs = @ \ {e.at}, !.argsDone = @ \cup {e.at}],
   out |-> <<Added(e), [e EXCEPT !.full = @ \/ e.at \in c.heldArgs]>>]

(* What every mode records of an event that is passed on.                  *)
Record(c, e) ==
  CASE e.type = "item.added" -> [c EXCEPT !.started = @ \cup {e.at}, !.closed = @ \ {e.at}]
    [] e.type = "item.done"  -> [Collect(c, e) EXCEPT !.closed = @ \cup {e.at}]
    [] OTHER                 -> Collect(c, e)

\* Mutant: pieces are passed on whether or not their item was announced.
AnnounceNever(c, e) == Passed(Record(c, e), e)

\* The pieces of a call or of reasoning need an item that was announced and is open.
AnnounceFirst(c, e) ==
  IF e.at \in c.closed THEN Dropped(c)
  ELSE LET known == e.at \in c.started
           d == [Collect(c, e) EXCEPT !.started = @ \cup {e.at},
                                      !.argsDone = IF e.type = "content.done" /\ e.kind = "function"
                                                   THEN @ \cup {e.at} ELSE @]
       IN  [c |-> d, out |-> IF known THEN <<e>> ELSE <<Added(e), e>>]

Canonicalize(c, e) ==
  IF ~HasItem(e) THEN Passed(c, InjectUsage(c, e))
  ELSE IF c.suppress /\ e.kind = "reasoning" THEN HideReasoning(c, e)
  ELSE IF c.bridge /\ UnsafeDone(c, e) THEN Dropped(Collect(c, e))
  ELSE IF c.bridge /\ e.type = "item.added" /\ e.kind = "function" THEN HoldCall(c, e)
  ELSE IF c.bridge /\ e.type = "delta" /\ e.kind = "function" THEN HoldArguments(c, e)
  ELSE IF e.kind \in {"function", "reasoning"} /\ e.type \in {"delta", "content.done"}
       THEN IF /\ c.bridge /\ e.type = "content.done" /\ e.at \in c.held
               /\ e.at \notin c.closed
            THEN ReleaseCall(c, e)
            ELSE AnnounceFirst(c, e)
  ELSE Passed(Record(c, e), e)

=============================================================================
