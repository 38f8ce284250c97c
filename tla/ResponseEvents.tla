--------------------------- MODULE ResponseEvents ---------------------------
(***************************************************************************)
(* What a stream of Responses events promises the client that reads it,    *)
(* whatever the upstream sent: items are announced once, under consecutive *)
(* output indexes, filled while they are open, closed once, and one        *)
(* terminal event follows when all of them are closed.                     *)
(*                                                                         *)
(* The stages of an item are those of the Responses API: added, its content*)
(* part opened, the whole content repeated ("content.done"), the part      *)
(* closed, the item closed.  Clients behind sub2api get no content parts,  *)
(* function calls have none.                                               *)
(***************************************************************************)
EXTENDS Naturals, FiniteSets

VARIABLES begun,   \* response.created was read
          items,   \* the stage of every announced item, by output index
          ended,   \* the terminal event was read
          last     \* the event read last

vars == <<begun, items, ended, last>>

Nothing == [type |-> "nothing", at |-> 0, kind |-> "none"]

\* The stages from which an event about an item is allowed, and where it leads.
StageAfter(stage, type) ==
  CASE stage = "added"  /\ type = "part.added"   -> "part"
    [] stage = "added"  /\ type = "content.done" -> "told"
    [] stage = "added"  /\ type = "item.done"    -> "closed"
    [] stage = "part"   /\ type = "content.done" -> "filled"
    [] stage = "filled" /\ type = "part.done"    -> "told"
    [] stage = "told"   /\ type = "item.done"    -> "closed"
    [] stage \in {"added", "part"} /\ type = "delta" -> stage
    [] OTHER -> "broken"

Init == begun = FALSE /\ items = <<>> /\ ended = FALSE /\ last = Nothing

Create ==
  /\ ~begun
  /\ begun' = TRUE
  /\ last'.type = "created"
  /\ UNCHANGED <<items, ended>>

Announce ==
  LET i == Cardinality(DOMAIN items)
  IN  /\ begun /\ ~ended
      /\ last'.type = "item.added" /\ last'.at = i
      /\ items' = [j \in DOMAIN items \cup {i} |->
                     IF j = i THEN "added" ELSE items[j]]
      /\ UNCHANGED <<begun, ended>>

Fill(i) ==
  /\ ~ended /\ last'.at = i
  /\ StageAfter(items[i], last'.type) # "broken"
  /\ items' = [items EXCEPT ![i] = StageAfter(@, last'.type)]
  /\ UNCHANGED <<begun, ended>>

\* Reasoning that arrives after the item was closed is passed on as it is.
LateReasoning(i) ==
  /\ ~ended /\ items[i] = "closed"
  /\ last' = [type |-> "delta", at |-> i, kind |-> "reasoning"]
  /\ UNCHANGED <<begun, items, ended>>

Finish ==
  /\ begun /\ ~ended
  /\ \A i \in DOMAIN items : items[i] = "closed"
  /\ last'.type = "completed"
  /\ ended' = TRUE
  /\ UNCHANGED <<begun, items>>

Next ==
  \/ Create \/ Announce \/ Finish
  \/ \E i \in DOMAIN items : Fill(i) \/ LateReasoning(i)

Spec == Init /\ [][Next]_vars

=============================================================================
