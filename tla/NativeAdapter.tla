---------------------------- MODULE NativeAdapter ---------------------------
(***************************************************************************)
(* What POST /v1/responses makes of a request (app/products/openai/        *)
(* responses.py): the chat fallback for an unstable model or the priority  *)
(* tier, else the native adapter of                                        *)
(* app/products/openai/fireworks_native/responses.py.                      *)
(***************************************************************************)
EXTENDS ChatFallback

NativeFields == (AlwaysPublic \ {"service_tier"}) \cup (BridgeOnly \ {"thinking", "top_k", "max_tool_calls"})

ValidTypes == ItemTypes \ {"string", "unknown", "input_text"}

\* Every field of the body is known, every item an object of a known type.
NativeInvalid(body) ==
  \/ {"max_tokens", "max_output_tokens"} \subseteq body.fields
  \/ ~(body.fields \subseteq NativeFields)
  \/ body.input = <<>>
  \/ ~body.string /\ \E i \in DOMAIN body.input : body.input[i].type \notin ValidTypes

-----------------------------------------------------------------------------
\* output_text becomes a message; reasoning is not forwarded.
NativeItem(item) ==
  IF item.type = "output_text" THEN [item EXCEPT !.type = "message", !.role = "assistant"]
  ELSE item

NormalizeItems(input) ==
  LET shown == Where(input, {i \in DOMAIN input : input[i].type # "reasoning"})
  IN  [i \in DOMAIN shown |-> NativeItem(shown[i])]

(* A call directly followed by its output is known to the server already   *)
(* when the request continues a response; the scan jumps over the output.  *)
Replayed(body, i, items) ==
  /\ "previous_response_id" \in body.fields
  /\ i < Len(items)
  /\ items[i].type = "function_call"
  /\ items[i + 1].type = "function_call_output"
  /\ items[i].id = items[i + 1].id

NormalizeReplay(body, items) ==
  Where(items, {i \in DOMAIN items : ~Replayed(body, i, items)})

(* The server must keep a streamed answer that the client will continue.   *)
(* "include" asks for encrypted reasoning and "text" for medium verbosity, *)
(* the marks of a sub2api bridge.                                          *)
NeedsStorage(body) ==
  /\ "stream" \in body.fields
  /\ \/ {"include", "previous_response_id", "tools"} \cap body.fields # {}
     \/ {"text", "parallel_tool_calls"} \subseteq body.fields
     \/ \E i \in DOMAIN body.input :
          body.input[i].type \in {"function_call", "function_call_output"}

NativePayload(body) ==
  LET items == NormalizeReplay(body, NormalizeItems(body.input))
  IN  IF NativeInvalid(body)
      THEN [refused |-> TRUE, messages |-> <<>>, stored |-> FALSE, continues |-> FALSE]
      ELSE [refused   |-> FALSE,
            messages  |-> IF body.string THEN body.input ELSE items,
            stored    |-> NeedsStorage(body) \/ "store" \in body.fields,
            continues |-> "previous_response_id" \in body.fields]

-----------------------------------------------------------------------------
(* The path a request takes.                                               *)
Path(body) ==
  IF body.tier = "unsupported" THEN "refused"
  ELSE IF body.unstable THEN "bridge"
  ELSE IF body.tier = "priority" THEN "priority"
  ELSE IF body.tier # "none" THEN "refused"
  ELSE "native"

=============================================================================
