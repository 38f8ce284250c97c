--------------------------- MODULE UsageAccounting --------------------------
(***************************************************************************)
(* The tokens a request is accounted for (app/dataplane/usage.py,          *)
(* usage_estimator.py, the collector of stream_proxy.py and the end of a   *)
(* request in proxy.py): what Fireworks reports in the body, event by      *)
(* event, and in the headers, and an estimate for what it leaves out.      *)
(*                                                                         *)
(* A part of a report has a number for each field the code reads; the      *)
(* spellings of one name (snake, camel, kebab) are one field.              *)
(***************************************************************************)
EXTENDS Integers, SequencesExt

NoPart == [absent |-> TRUE]
NoUsage == [input |-> 0, output |-> 0, cached |-> 0, estimated |-> FALSE]

Larger(a, b) == IF a > b THEN a ELSE b

\* _usage_from_parts.
UsageOf(part) ==
  IF part = NoPart THEN NoUsage
  ELSE [input     |-> Larger(part.input_tokens, part.prompt_tokens),
        output    |-> Larger(part.output_tokens, part.completion_tokens),
        cached    |-> Larger(part.cached_tokens, part.cache_creation + part.cache_read),
        estimated |-> part.estimated]

\* Mutant: the later report replaces the earlier one.
Latest(a, b) == IF b = NoUsage THEN a ELSE b

Merge(a, b) == [input     |-> Larger(a.input, b.input),
                output    |-> Larger(a.output, b.output),
                cached    |-> Larger(a.cached, b.cached),
                estimated |-> a.estimated \/ b.estimated]

\* extract_usage: the payload's own usage, else that of the response in it,
\* else its metrics.
Extract(payload) ==
  IF payload.usage # NoPart
  THEN Merge(UsageOf(payload.usage), UsageOf(payload.perf))
  ELSE IF payload.nested_usage # NoPart
  THEN Merge(UsageOf(payload.nested_usage), UsageOf(payload.nested_perf))
  ELSE UsageOf(payload.perf)

FromHeaders(headers) ==
  [NoUsage EXCEPT !.input = headers.prompt, !.cached = headers.cached]

\* StreamUsageCollector: event after event, the headers at the end.
Reported(events, headers) ==
  Merge(FoldLeft(LAMBDA u, e : Merge(u, Extract(e)), NoUsage, events),
        FromHeaders(headers))

-----------------------------------------------------------------------------
(* Estimates.  A payload is a sequence of pieces: texts with their number  *)
(* of characters, the tool messages of a chat payload, which are counted   *)
(* twice, images, which have a fixed price, and what no estimate reads.    *)
CharsPerToken == 4
ImageTokens == 256

CoarseTokens(chars) == (chars + CharsPerToken - 1) \div CharsPerToken

\* A tokenizer never counts 0; its own count is external.
CalibratedTokens(chars) == Larger(1, chars \div 2)

PieceTokens(piece, precise) ==
  LET tokens == IF precise THEN CalibratedTokens(piece.chars) ELSE CoarseTokens(piece.chars)
  IN  CASE piece.kind = "text" -> tokens
        [] piece.kind = "tool" -> 2 * tokens
        [] piece.kind = "image" -> ImageTokens
        [] OTHER -> 0

Estimate(pieces, precise) ==
  FoldLeft(LAMBDA n, piece : n + PieceTokens(piece, precise), 0, pieces)

\* The tokenizer of a known model counts precisely or cannot be loaded; an
\* unknown model has none and is estimated coarsely.
Tokenizers == {"calibrated", "broken", "none"}

\* The first attempt of maybe_estimate_usage; an exception leaves it undone.
TokenizerEstimate(u, request, response, tokenizer) ==
  LET precise == tokenizer = "calibrated"
      input   == Estimate(request, precise)
      output  == Estimate(response, precise)
  IN  IF tokenizer = "broken" \/ (input = 0 /\ output = 0) THEN u
      ELSE [u EXCEPT !.input = Larger(@, input), !.output = Larger(@, output),
                     !.estimated = TRUE]

\* The second attempt, on what is still missing.
CoarseEstimate(u, request, response) ==
  LET input  == Estimate(request, FALSE)
      output == Estimate(response, FALSE)
  IN  IF u.input = 0 /\ u.output = 0
      THEN [u EXCEPT !.input = input, !.output = output, !.estimated = TRUE]
      ELSE IF u.input = 0
      THEN [u EXCEPT !.input = input, !.estimated = TRUE]
      ELSE IF u.output = 0 /\ output # 0
      THEN [u EXCEPT !.output = output, !.estimated = TRUE]
      ELSE u

MaybeEstimate(u, request, response, tokenizer) ==
  LET first == TokenizerEstimate(u, request, response, tokenizer)
  IN  IF u.input # 0 /\ u.output # 0 THEN u
      ELSE IF first.input # 0 /\ first.output # 0 THEN first
      ELSE CoarseEstimate(first, request, response)

-----------------------------------------------------------------------------
(* finalize_stream: what the converter counted fills a missing output,     *)
(* then the request alone is estimated.                                    *)
StreamUsage(u, request, converted, tokenizer) ==
  LET filled == IF u.output = 0 /\ converted # 0
                THEN [u EXCEPT !.output = converted, !.estimated = TRUE] ELSE u
  IN  IF u.input = 0 \/ filled.output = 0
      THEN MaybeEstimate(filled, request, <<>>, tokenizer) ELSE filled

\* A request is answered by a stream of events or by one body.
Accounted(t) ==
  LET u == Reported(t.events, t.headers)
  IN  IF t.stream THEN StreamUsage(u, t.request, t.converted, t.tokenizer)
      ELSE MaybeEstimate(u, t.request, t.response, t.tokenizer)

\* prepare_log_payload: the row has no place for the mark of an estimate.
LoggedUsage(u) == [input |-> u.input, output |-> u.output, cached |-> u.cached]

=============================================================================
