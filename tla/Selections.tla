----------------------------- MODULE Selections -----------------------------
(***************************************************************************)
(* What a filter keeps of a list: the WHERE of a query and the condition   *)
(* of a comprehension.  The places are those of the elements it keeps.     *)
(***************************************************************************)
EXTENDS Integers, Sequences

Where(s, places) ==
  LET kept[n \in 0 .. Len(s)] ==
        IF n = 0 THEN <<>>
        ELSE IF n \in places THEN Append(kept[n - 1], s[n]) ELSE kept[n - 1]
  IN  kept[Len(s)]

=============================================================================
