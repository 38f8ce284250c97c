----------------------------- MODULE SearchLoop -----------------------------
(***************************************************************************)
(* The server-side loop of the web_search tool                             *)
(* (app/products/openai/websearch_loop.py).  Fireworks is asked again with *)
(* the results of the searches it called for, until it calls for none or   *)
(* the rounds are spent.  Every ask and every search is an await.          *)
(*                                                                         *)
(* What Fireworks answers is any short sequence of outputs.  Its calls     *)
(* carry the round and the place they were made at as their call_id.       *)
(***************************************************************************)
EXTENDS Naturals, SequencesExt

CONSTANTS MaxIterations,   \* the setting web_search_max_iterations
          MaxOutputs       \* outputs of one answer, a bound of the model

ASSUME SearchAssumption == MaxIterations \in Nat /\ MaxOutputs \in Nat \ {0}

VARIABLE search

\* "search" calls web_search with a query, "blank" without; "client" calls a
\* function of the client.
OutputKinds == {"message", "search", "blank", "client"}
SearchKinds == {"search", "blank"}

Entry(kind, id) == [kind |-> kind, id |-> id]
Question == Entry("question", <<0, 0>>)

Rounds == IF MaxIterations = 0 THEN 1 ELSE MaxIterations

NoSearch == [phase |-> "none"]

\* The request as it arrives: with a tool, with the feature on, with a key for
\* Grok; its input is a string or a list; it may continue a response.
Arrive(tool, enabled, keyed, listed, continues) ==
  /\ search = NoSearch
  /\ search' = [phase     |-> IF ~tool THEN "passed on"
                              ELSE IF enabled /\ keyed THEN "asking" ELSE "refused",
                listed    |-> listed,
                asked     |-> <<Question>>,
                continues |-> continues,
                round     |-> 1,
                output    |-> <<>>,
                todo      |-> {},
                runs      |-> <<>>,
                bound     |-> {}]

\* Where an answer calls web_search.
SearchCalls(output) == {k \in DOMAIN output : output[k].kind \in SearchKinds}

\* Mutant: the results alone are sent, without the answer that asked for them.
ResultsOnly(s, output) == IF s.listed THEN s.asked ELSE <<>>

\* The next input before the results: a string is not a list of items.
Replay(s, output) == (IF s.listed THEN s.asked ELSE <<>>) \o output

Outputs(round) ==
  {[k \in DOMAIN kinds |-> Entry(kinds[k], <<round, k>>)] :
     kinds \in UNION {[1 .. n -> OutputKinds] : n \in 0 .. MaxOutputs}}

\* Fireworks answers.  Without search calls that is the response; with them
\* the response id is bound to the key and the searches begin.
Respond ==
  /\ search.phase = "asking"
  /\ \E output \in Outputs(search.round) :
       search' = IF SearchCalls(output) = {}
                 THEN [search EXCEPT !.phase = "answered", !.output = output]
                 ELSE [search EXCEPT !.phase  = "searching",
                                     !.output = output,
                                     !.todo   = SearchCalls(output),
                                     !.bound  = @ \cup {search.round},
                                     !.asked  = Replay(search, output),
                                     !.listed = TRUE]

\* A status of 400 and more, or a body that is not JSON, ends the request.
Refuse ==
  /\ search.phase = "asking"
  /\ search' = [search EXCEPT !.phase = "failed"]

\* The first search left: skipped without a query, answered, or failed with a
\* text.
Search ==
  /\ search.phase = "searching"
  /\ \E k \in search.todo :
       /\ \A j \in search.todo : k <= j
       /\ LET call == search.output[k]
          IN  \E found \in IF call.kind = "blank" THEN {FALSE} ELSE BOOLEAN :
                search' = [search EXCEPT
                             !.todo  = @ \ {k},
                             !.runs  = Append(@, [id |-> call.id, found |-> found]),
                             !.asked = Append(@, Entry("result", call.id))]

\* The last search is done: ask again, or give back the answer that is there.
NextRound ==
  /\ search.phase = "searching"
  /\ search.todo = {}
  /\ search' = IF search.round < Rounds
               THEN [search EXCEPT !.phase = "asking", !.round = @ + 1,
                                   !.continues = FALSE]
               ELSE [search EXCEPT !.phase = "answered"]

SearchNext == Respond \/ Refuse \/ Search \/ NextRound

\* What the client sees: an item for each search, then the last answer.
Response == [k \in DOMAIN search.runs |-> Entry("web_search_call", search.runs[k].id)]
              \o search.output

=============================================================================
