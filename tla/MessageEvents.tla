---------------------------- MODULE MessageEvents ---------------------------
(***************************************************************************)
(* The block lifecycle an Anthropic client relies on: message_start, then  *)
(* blocks under consecutive indexes, one open at a time and filled only    *)
(* while it is open, then one message_delta and one message_stop.          *)
(***************************************************************************)
EXTENDS Naturals, FiniteSets

VARIABLES begun,   \* message_start was read
          items,   \* "open" or "closed", by block index
          ended,   \* message_stop was read
          last     \* the event read last

vars == <<begun, items, ended, last>>

AllClosed == \A b \in DOMAIN items : items[b] = "closed"

Init == begun = FALSE /\ items = <<>> /\ ended = FALSE /\ last.type = "nothing"

Start ==
  /\ ~begun
  /\ begun' = TRUE
  /\ last'.type = "message.start"
  /\ UNCHANGED <<items, ended>>

OpenBlock ==
  LET b == Cardinality(DOMAIN items)
  IN  /\ begun /\ ~ended /\ AllClosed
      /\ last.type # "message.delta"
      /\ last'.type = "block.start" /\ last'.at = b
      /\ items' = [x \in DOMAIN items \cup {b} |-> IF x = b THEN "open" ELSE items[x]]
      /\ UNCHANGED <<begun, ended>>

FillBlock ==
  /\ ~ended
  /\ last'.type = "block.delta"
  /\ last'.at \in DOMAIN items /\ items[last'.at] = "open"
  /\ UNCHANGED <<begun, items, ended>>

CloseBlock(b) ==
  /\ ~ended /\ items[b] = "open"
  /\ last'.type = "block.stop" /\ last'.at = b
  /\ items' = [items EXCEPT ![b] = "closed"]
  /\ UNCHANGED <<begun, ended>>

Summarise ==
  /\ begun /\ ~ended /\ AllClosed
  /\ last.type # "message.delta" /\ last'.type = "message.delta"
  /\ UNCHANGED <<begun, items, ended>>

Stop ==
  /\ last.type = "message.delta" /\ last'.type = "message.stop"
  /\ ended' = TRUE
  /\ UNCHANGED <<begun, items>>

Next ==
  \/ Start \/ OpenBlock \/ FillBlock \/ Summarise \/ Stop
  \/ \E b \in DOMAIN items : CloseBlock(b)

Spec == Init /\ [][Next]_vars

=============================================================================
