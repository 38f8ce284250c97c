------------------------------- MODULE Streams ------------------------------
(***************************************************************************)
(* One streamed answer on its way from Fireworks through the transform its *)
(* handler chose to the client that reads it (build_passthrough_stream_    *)
(* response of app/dataplane/fireworks/stream_proxy.py):                   *)
(*   "fallback"  chat completion chunks through ChatStream,                *)
(*   "native"    Responses events through NativeStream,                    *)
(*   "bridge"    Responses events through MessageStream, for /v1/messages. *)
(*                                                                         *)
(* The upstream is external.  Its chunks and events come in any order the  *)
(* protocol leaves open: a terminal event is the last one, and what marks  *)
(* the start or the end of an item comes at most once or is left out.  For *)
(* the bridge, items come one after the other unless Interleaved.          *)
(***************************************************************************)
EXTENDS ChatStream, NativeStream, MessageStream, FiniteSets, TLC

CONSTANTS
  Routes,        \* the transforms that are explored
  Plans,         \* per transform, the kinds of the items of an answer, in order
  ToolDeltas,    \* lists of tool-call deltas a chunk may carry
  Interleaved    \* items of a bridged stream may overlap

ASSUME StreamAssumption ==
  /\ Routes \subseteq {"fallback", "native", "bridge"}
  /\ \A r \in Routes : Plans[r] \subseteq Seq({"reasoning", "message", "function"})
  /\ ToolDeltas \subseteq Seq([index : Int, args : BOOLEAN])
  /\ Interleaved \in BOOLEAN

VARIABLES
  route,    \* the transform
  conv,     \* its state
  phase,    \* of the upstream: "open", "final", "eof", "flushed", "broken"
  plan,     \* the items of the upstream answer
  sent,     \* what the upstream has sent about each of them
  due,      \* calls whose announcement, then whose arguments, were sent
  pending,  \* bytes on their way to the client, as events
  begun, items, ended, last,  \* what the client has read
  calls     \* calls whose complete arguments the client has read

upstream == <<phase, plan, sent, due>>
client == <<begun, items, ended, last, calls>>
vars == <<route, conv, phase, plan, sent, due, pending, begun, items, ended, last, calls>>

Contract == INSTANCE ResponseEvents
Nothing == Contract!Nothing

-----------------------------------------------------------------------------
(* The upstream.                                                           *)
EmptyChunk ==
  [done |-> FALSE, reasoning |-> FALSE, text |-> FALSE, tools |-> <<>>, finish |-> "none"]

\* Chunks with content, and one that says that the answer was cut short.
Chunks ==
  [done : {FALSE}, reasoning : BOOLEAN, text : BOOLEAN, tools : ToolDeltas, finish : {"none"}]
    \cup {[EmptyChunk EXCEPT !.finish = "length"]}

DoneChunk == [EmptyChunk EXCEPT !.done = TRUE]

Stages == <<"item.added", "part.added", "delta", "content.done", "part.done", "item.done">>
StageOf(type) == CHOOSE n \in 1..Len(Stages) : Stages[n] = type

\* The stages the items of a kind have.
TypesOf(kind) ==
  Range(Stages) \ (IF kind = "function" THEN {"part.added", "part.done"} ELSE {})

About(i, type, full) ==
  [type |-> type, at |-> i, kind |-> plan[i + 1], full |-> full]

\* In order: no stage goes back, and once an item was begun those before it are
\* over, whether or not they were closed.
Orderly(i, type) ==
  /\ \A t \in sent[i] : StageOf(t) <= StageOf(type)
  /\ Interleaved \/ \A j \in DOMAIN sent : j > i => sent[j] = {}

ItemEvents ==
  {About(i, type, full) : i \in DOMAIN sent, type \in Range(Stages), full \in BOOLEAN}

\* What is remembered of the past: pieces may repeat, and the canonicalizer
\* does not tell the parts of a text from its pieces.
Remembered(e) ==
  \/ route = "bridge"
  \/ e.type \in {"item.added", "content.done", "item.done"}
  \/ e.type = "delta" /\ e.kind = "function"

Offered(e) ==
  /\ e.type \in TypesOf(e.kind)
  /\ e.type = "delta" \/ e.type \notin sent[e.at]
  /\ e.full => e.type = "content.done" /\ e.kind = "function"
  /\ route = "bridge" => Orderly(e.at, e.type)

Created == [type |-> "created", at |-> None, kind |-> "none", full |-> FALSE]
Completed(status, tokens) ==
  [type |-> "completed", at |-> None, kind |-> "none", full |-> FALSE,
   status |-> status, tokens |-> tokens]

-----------------------------------------------------------------------------
StreamInit ==
  /\ route \in Routes
  /\ plan \in Plans[route]
  /\ conv \in CASE route = "fallback" -> {NewConverter(b) : b \in BOOLEAN}
                [] route = "native"   -> {NewCanonicalizer(s, b) : s \in BOOLEAN, b \in BOOLEAN}
                [] route = "bridge"   -> {NewAdapter}
  /\ phase = "open"
  /\ sent = [i \in 0..(Len(plan) - 1) |-> {}]
  /\ due = {} /\ pending = <<>> /\ calls = {}
  /\ begun = FALSE /\ items = <<>> /\ ended = FALSE /\ last = Nothing

\* The transform takes an event; the client reads what came before it first.
Transform(step) ==
  /\ pending = <<>>
  /\ conv' = step.c
  /\ pending' = step.out

FeedChunk ==
  /\ route = "fallback" /\ phase = "open"
  /\ \E chunk \in Chunks \cup {DoneChunk} :
       /\ Transform(Feed(conv, chunk))
       /\ phase' = IF chunk.done THEN "final" ELSE phase
  /\ UNCHANGED <<route, plan, sent, due, client>>

Take(e) == IF route = "native" THEN Canonicalize(conv, e) ELSE Adapt(conv, e)

FeedItem ==
  /\ route # "fallback" /\ phase = "open"
  /\ \E e \in ItemEvents :
       /\ Offered(e)
       /\ Transform(Take(e))
       /\ sent' = IF Remembered(e) THEN [sent EXCEPT ![e.at] = @ \cup {e.type}] ELSE sent
       /\ due' = IF /\ e.kind = "function" /\ e.type = "content.done"
                    /\ "item.added" \in sent[e.at]
                    /\ e.full \/ "delta" \in sent[e.at]
                 THEN due \cup {e.at} ELSE due
  /\ UNCHANGED <<route, phase, plan, client>>

FeedCreated ==
  /\ route # "fallback" /\ phase = "open"
  /\ \A i \in DOMAIN sent : sent[i] = {}
  /\ Transform(Take(Created))
  /\ UNCHANGED <<route, upstream, client>>

FeedCompleted ==
  /\ route # "fallback" /\ phase = "open"
  /\ \E status \in {"completed", "incomplete", "failed"}, tokens \in BOOLEAN :
       Transform(Take(Completed(status, tokens)))
  /\ phase' = "final"
  /\ UNCHANGED <<route, plan, sent, due, client>>

\* The upstream closes the connection, before or after its terminal event.
UpstreamEnds ==
  /\ phase \in {"open", "final"}
  /\ phase' = "eof"
  /\ UNCHANGED <<route, conv, plan, sent, due, pending, client>>

Flushed ==
  CASE route = "fallback" -> Flush(conv)
    [] route = "native"   -> Dropped(conv)
    [] route = "bridge"   -> FlushMessage(conv)

FlushTransform ==
  /\ phase = "eof"
  /\ Transform(Flushed)
  /\ phase' = "flushed"
  /\ UNCHANGED <<route, plan, sent, due, client>>

\* A read error or a client that went away: the transform is not flushed.
BreakStream ==
  /\ phase \in {"open", "final", "eof"}
  /\ phase' = "broken"
  /\ pending' = <<>> /\ due' = {} /\ sent' = [i \in DOMAIN sent |-> {}]
  /\ UNCHANGED <<route, conv, plan, client>>

-----------------------------------------------------------------------------
(* The client reads one event.  A native stream has no contract about two  *)
(* events in a row, so that last stays as it is.                           *)
Put(f, x, v) == [y \in DOMAIN f \cup {x} |-> IF y = x THEN v ELSE f[y]]

ItemsAfter(e) ==
  CASE e.type \in {"created", "completed", "message.start", "message.delta",
                   "message.stop", "block.delta"} -> items
    [] e.type \in {"block.start"} -> Put(items, e.at, "open")
    [] e.type \in {"block.stop"} -> Put(items, e.at, "closed")
    [] e.type = "item.added" ->
         Put(items, e.at, IF route = "native" THEN "open" ELSE "added")
    [] e.type = "item.done" /\ route = "native" -> Put(items, e.at, "closed")
    [] OTHER ->
         IF route = "native" THEN items
         ELSE IF e.at \notin DOMAIN items THEN Put(items, e.at, "broken")
         ELSE IF items[e.at] = "closed" /\ e.type = "delta" THEN items
         ELSE Put(items, e.at, Contract!StageAfter(items[e.at], e.type))

Deliver ==
  /\ pending # <<>>
  /\ LET e == Head(pending)
     IN  /\ last' = IF route = "native" THEN last ELSE e
         /\ items' = ItemsAfter(e)
         /\ begun' = (begun \/ e.type \in {"created", "message.start"})
         /\ ended' = (ended \/ e.type \in {"completed", "message.stop"})
         /\ calls' = IF e.type = "content.done" /\ e.kind = "function" /\ route = "native"
                     THEN IF e.full THEN calls \cup {e.at} ELSE calls
                     ELSE calls
  /\ pending' = Tail(pending)
  /\ UNCHANGED <<route, conv, upstream>>

StreamNext ==
  \/ FeedChunk \/ FeedItem \/ FeedCreated \/ FeedCompleted
  \/ UpstreamEnds \/ FlushTransform \/ BreakStream \/ Deliver

\* The event loop keeps running the generator that the client reads from.
StreamSpec ==
  /\ StreamInit /\ [][StreamNext]_vars
  /\ WF_vars(Deliver) /\ WF_vars(FlushTransform)

=============================================================================
