------------------------------ MODULE MCStreams -----------------------------
EXTENDS Streams

\* Two calls whose events interleave, text and reasoning beside a call; two
\* bridged items of different kinds.
MCPlans ==
  [fallback |-> {<<>>},
   native   |-> {<<"function", "function">>, <<"message", "function">>, <<"reasoning">>},
   bridge   |-> {<<"reasoning", "function">>, <<"message", "function">>,
                 <<"function", "message">>}]

\* No call, one call that is named, filled or both, and two calls out of order.
MCToolDeltas ==
  {<<>>, <<[index |-> 0, args |-> FALSE]>>, <<[index |-> 1, args |-> TRUE]>>,
   <<[index |-> 1, args |-> TRUE], [index |-> 0, args |-> TRUE]>>}

-----------------------------------------------------------------------------
StreamTypeOK ==
  /\ phase \in {"open", "final", "eof", "flushed", "broken"}
  /\ DOMAIN sent = 0..(Len(plan) - 1)
  /\ \A i \in DOMAIN items :
       items[i] \in {"added", "part", "filled", "told", "open", "closed"}
  /\ due \subseteq DOMAIN sent /\ calls \subseteq DOMAIN sent

\* A converted chat completion reads like a Responses stream: items under
\* consecutive indexes, filled while open, closed once, then one terminal
\* event.  Only reasoning may still be filled after it was closed.
Fallback(expr, initial) == IF route = "fallback" THEN expr ELSE initial
ResponsesContract ==
  INSTANCE ResponseEvents WITH
    begun <- Fallback(begun, FALSE), items <- Fallback(items, <<>>),
    ended <- Fallback(ended, FALSE), last <- Fallback(last, Nothing)
FallbackKeepsContract == ResponsesContract!Spec

\* The bridge writes well-formed Anthropic messages: blocks do not overlap, and
\* nothing is written into a block that is not open.
Bridged(expr, initial) == IF route = "bridge" THEN expr ELSE initial
MessageContract ==
  INSTANCE MessageEvents WITH
    begun <- Bridged(begun, FALSE), items <- Bridged(items, <<>>),
    ended <- Bridged(ended, FALSE), last <- Bridged(last, Nothing)
BridgeKeepsContract == MessageContract!Spec

\* "Function and reasoning deltas need a preceding output_item.added": the
\* client of a native stream never reads a piece of a call or of reasoning whose
\* item it does not know or has seen closed, whatever the upstream left out.
AnnouncedFirst ==
  route = "native" /\ pending # <<>> =>
    LET e == Head(pending)
    IN  e.kind \in {"function", "reasoning"} /\ e.type \in {"delta", "content.done"}
          => e.at \in DOMAIN items /\ items[e.at] = "open"

\* sub2api reads a call and all of its arguments back to back, however the
\* upstream interleaves the pieces of several calls.
WholeCalls ==
  route = "native" /\ conv.bridge =>
    \A k \in DOMAIN pending :
      pending[k].type = "item.added" /\ pending[k].kind = "function" =>
        /\ k < Len(pending)
        /\ pending[k + 1].type = "content.done" /\ pending[k + 1].at = pending[k].at

\* A call that the upstream announced and finished with arguments has reached
\* the client behind sub2api, arguments included.
FinishedCallsArrive ==
  route = "native" /\ conv.bridge /\ phase # "broken" /\ pending = <<>> => due \subseteq calls

\* The terminal event of a converted answer lists every item the client was
\* told of, once, and nothing else but the stand-in for an empty answer.
FinalListsItems ==
  route = "fallback" /\ ended =>
    LET listed == last.output
    IN  /\ DOMAIN items = Range(listed) \ {None}
        /\ Cardinality(Range(listed)) = Len(listed)

\* "So the downstream client never sees zero output tokens" (_inject_usage of
\* responses_stream.py): an answer that carried a call with its arguments ends
\* with an event that counts tokens.
CallsCounted ==
  route = "native" /\ pending # <<>> =>
    LET e == Head(pending)
    IN  e.type = "completed" /\ e.status # "failed" /\ calls # {} => e.tokens

\* A stream that the upstream closed ends with a terminal event for the client,
\* also when the upstream sent none; a bridged one if it began at all.
StreamsEnd ==
  phase = "eof" ~> \/ phase = "broken" \/ ended
                   \/ route = "native" \/ (route = "bridge" /\ ~begun)

=============================================================================
