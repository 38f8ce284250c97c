----------------------------- MODULE MCContracts ----------------------------
(***************************************************************************)
(* Small sets of reports for the algorithms of Contracts.                  *)
(***************************************************************************)
EXTENDS Contracts

PartOf(input, prompt, output, cached, read) ==
  [input_tokens |-> input, prompt_tokens |-> prompt, output_tokens |-> output,
   completion_tokens |-> 0, cached_tokens |-> cached, cache_creation |-> 1,
   cache_read |-> read, estimated |-> FALSE]

A == PartOf(9, 0, 0, 0, 0)
B == PartOf(0, 4, 3, 2, 0)
C == PartOf(0, 0, 5, 0, 3)
D == PartOf(0, 0, 7, 0, 0)

\* Every combination of parts, with the larger numbers in either.
OneOrNone(part) == {part, Usages!NoPart}
MCPayloads ==
  [usage : OneOrNone(A), perf : OneOrNone(B),
   nested_usage : OneOrNone(C), nested_perf : OneOrNone(D)]
  \cup [usage : OneOrNone(D), perf : OneOrNone(C),
        nested_usage : OneOrNone(B), nested_perf : OneOrNone(A)]

MCHeaders == {[prompt |-> 0, cached |-> 0], [prompt |-> 6, cached |-> 3]}

\* Nothing, a text, and a tool message with an image and a file.
MCContents ==
  {<<>>, <<[kind |-> "text", chars |-> 26]>>,
   <<[kind |-> "tool", chars |-> 3], [kind |-> "image", chars |-> 0],
     [kind |-> "file", chars |-> 9]>>}

=============================================================================
