---------------------------- MODULE StreamsProofs ----------------------------
(***************************************************************************)
(* What a client reads of a streamed answer, for every answer and every    *)
(* order of events the upstream may choose.                                *)
(***************************************************************************)
EXTENDS MCStreams, SequenceTheorems, FiniteSetTheorems, TLAPS

Kinds == {"reasoning", "message", "function"}
Phases == {"open", "final", "eof", "flushed", "broken"}

\* The items of the answer.
Indices == 0..(Len(plan) - 1)
KindOf(i) == plan[i + 1]

Statuses == {"completed", "incomplete", "failed"}

\* What a native stream may carry.
NativeEvents ==
  ItemEvents \cup {Created} \cup {Completed(s, t) : s \in Statuses, t \in BOOLEAN}

-----------------------------------------------------------------------------
(* The upstream, whatever the transform.                                   *)
UpstreamOK ==
  /\ route \in {"fallback", "native", "bridge"}
  /\ phase \in Phases
  /\ plan \in Seq(Kinds)
  /\ sent \in [Indices -> SUBSET Range(Stages)]
  /\ due \subseteq Indices /\ calls \subseteq Indices
  /\ phase = "broken" => pending = <<>>

-----------------------------------------------------------------------------
(* A native stream.                                                        *)
Canonicalizer ==
  [suppress : BOOLEAN, bridge : BOOLEAN, started : SUBSET Indices,
   closed : SUBSET Indices, argsDone : SUBSET Indices, held : SUBSET Indices,
   heldArgs : SUBSET Indices, collected : BOOLEAN]

\* A piece of a call or of reasoning, which needs an announced item.
Piece(e) == e.kind \in {"function", "reasoning"} /\ e.type \in {"delta", "content.done"}

IsOpen(i) == i \in DOMAIN items /\ items[i] = "open"

\* What is on its way: nothing, one event, or an announcement and a piece of
\* the item it announces.
PendingOne(e) ==
  /\ pending = <<e>>
  /\ ~(conv.bridge /\ e.type = "item.added" /\ e.kind = "function")
  /\ Piece(e) => IsOpen(e.at)

PendingTwo(e) ==
  /\ pending = <<Added(e), e>>
  /\ Piece(e)
  /\ conv.bridge /\ e.kind = "function" => e.type = "content.done"

PendingOK ==
  \/ pending = <<>>
  \/ \E e \in NativeEvents : PendingOne(e)
  \/ \E e \in ItemEvents : PendingTwo(e)

\* An item is open once the client has read what is on its way.
Announced(i) == \E k \in DOMAIN pending : pending[k].type = "item.added" /\ pending[k].at = i
Finished(i) == \E k \in DOMAIN pending : pending[k].type = "item.done" /\ pending[k].at = i
OpenSoon(i) == Announced(i) \/ (IsOpen(i) /\ ~Finished(i))

\* What the canonicalizer takes for announced and not closed is open for the
\* client, calls that are held back and hidden reasoning apart.
StartedOpen ==
  \A i \in conv.started \ (conv.closed \cup conv.held) :
    \/ KindOf(i) = "message"
    \/ KindOf(i) = "reasoning" /\ conv.suppress
    \/ OpenSoon(i)

HeldOK ==
  /\ ~conv.bridge => conv.held = {}
  /\ \A i \in conv.held : KindOf(i) = "function"

\* Complete arguments on their way.
Arriving(i) ==
  \E k \in DOMAIN pending :
    /\ pending[k].type = "content.done" /\ pending[k].kind = "function"
    /\ pending[k].full = TRUE /\ pending[k].at = i

\* Until its arguments are complete a call is held, and so are they.
CallsHeld ==
  \A i \in Indices : KindOf(i) = "function" =>
    /\ i \in conv.argsDone => "content.done" \in sent[i]
    /\ "content.done" \notin sent[i] =>
         /\ "item.added" \in sent[i] => i \in conv.held /\ i \notin conv.closed
         /\ "delta" \in sent[i] => i \in conv.heldArgs

DueArrive == \A i \in due : i \in calls \/ Arriving(i)

NativeOK ==
  /\ conv \in Canonicalizer
  /\ DOMAIN items \subseteq Indices
  /\ \A i \in DOMAIN items : items[i] \in {"open", "closed"}
  /\ PendingOK
  /\ phase # "broken" => StartedOpen /\ HeldOK
  /\ phase # "broken" /\ conv.bridge => CallsHeld /\ DueArrive

NativeInv == UpstreamOK /\ (route = "native" => NativeOK)

\* The stages of an item.
LEMMA StagesAre ==
  Range(Stages) = {"item.added", "part.added", "delta", "content.done", "part.done", "item.done"}
<1>1. DOMAIN Stages = 1..6
  BY DEF Stages
<1>2. Range(Stages) = {Stages[n] : n \in 1..6}
  BY <1>1 DEF Range
<1>3. 1..6 = {1, 2, 3, 4, 5, 6}
  OBVIOUS
<1> QED BY <1>2, <1>3 DEF Stages

\* What an event about an item says.
LEMMA EventOf ==
  ASSUME UpstreamOK, NEW e \in ItemEvents
  PROVE  /\ e.type \in Range(Stages) /\ e.at \in Indices
         /\ e.kind = KindOf(e.at) /\ e.kind \in Kinds /\ e.full \in BOOLEAN
         /\ HasItem(e)
<1>1. DOMAIN sent = Indices
  BY DEF UpstreamOK
<1>2. PICK i \in Indices, type \in Range(Stages), full \in BOOLEAN : e = About(i, type, full)
  BY <1>1 DEF ItemEvents
<1>3. /\ e.type = type /\ e.at = i /\ e.kind = KindOf(i) /\ e.full = full
  BY <1>2 DEF About, KindOf
<1>4. i + 1 \in 1..Len(plan) /\ DOMAIN plan = 1..Len(plan)
  BY LenProperties DEF Indices, UpstreamOK
<1>5. KindOf(i) \in Kinds
  BY <1>4, ElementOfSeq DEF KindOf, UpstreamOK
<1> QED BY <1>3, <1>5 DEF HasItem, Kinds

\* An announcement, and an event with its arguments filled in, are events too.
LEMMA EventsMade ==
  ASSUME UpstreamOK, NEW e \in ItemEvents, NEW full \in BOOLEAN
  PROVE  /\ Added(e) \in ItemEvents
         /\ Added(e).type = "item.added" /\ Added(e).at = e.at /\ Added(e).kind = e.kind
         /\ [e EXCEPT !.full = full] \in ItemEvents
         /\ [e EXCEPT !.full = full].type = e.type /\ [e EXCEPT !.full = full].at = e.at
         /\ [e EXCEPT !.full = full].kind = e.kind /\ [e EXCEPT !.full = full].full = full
<1>1. DOMAIN sent = Indices
  BY DEF UpstreamOK
<1>2. PICK i \in Indices, type \in Range(Stages), b \in BOOLEAN : e = About(i, type, b)
  BY <1>1 DEF ItemEvents
<1>3. Added(e) = About(i, "item.added", FALSE)
  BY <1>2 DEF Added, About
<1>4. [e EXCEPT !.full = full] = About(i, type, full)
  BY <1>2 DEF About
<1>5. "item.added" \in Range(Stages) /\ FALSE \in BOOLEAN
  BY StagesAre
<1>6. \A t \in Range(Stages), f \in BOOLEAN : About(i, t, f) \in ItemEvents
  <2> SUFFICES ASSUME NEW t \in Range(Stages), NEW f \in BOOLEAN
               PROVE  About(i, t, f) \in ItemEvents
    OBVIOUS
  <2>1. i \in DOMAIN sent
    BY <1>1
  <2>2. ItemEvents = {About(j, u, g) : j \in DOMAIN sent, u \in Range(Stages), g \in BOOLEAN}
    BY DEF ItemEvents
  <2>3. \E j \in DOMAIN sent, u \in Range(Stages), g \in BOOLEAN : About(i, t, f) = About(j, u, g)
    BY <2>1, Zenon
  <2> QED BY ONLY <2>2, <2>3, SMT
<1>7. Added(e) \in ItemEvents /\ [e EXCEPT !.full = full] \in ItemEvents
  BY <1>2, <1>3, <1>4, <1>5, <1>6, Zenon
<1> QED BY <1>2, <1>3, <1>4, <1>7 DEF About

\* The fields of a canonicalizer.
LEMMA CanonicalizerFields ==
  ASSUME NEW c \in Canonicalizer
  PROVE  /\ c.suppress \in BOOLEAN /\ c.bridge \in BOOLEAN /\ c.collected \in BOOLEAN
         /\ c.started \subseteq Indices /\ c.closed \subseteq Indices
         /\ c.argsDone \subseteq Indices /\ c.held \subseteq Indices
         /\ c.heldArgs \subseteq Indices
BY DEF Canonicalizer

\* What the canonicalizer does with an event about an item.
LEMMA CanonicalizeCases ==
  ASSUME UpstreamOK, NEW c \in Canonicalizer, NEW e \in ItemEvents,
         NEW r, r = Canonicalize(c, e)
  PROVE  \/ c.suppress /\ e.kind = "reasoning" /\ r = HideReasoning(c, e)
         \/ c.bridge /\ UnsafeDone(c, e) /\ r = Dropped(Collect(c, e))
         \/ c.bridge /\ e.type = "item.added" /\ e.kind = "function" /\ r = HoldCall(c, e)
         \/ c.bridge /\ e.type = "delta" /\ e.kind = "function" /\ r = HoldArguments(c, e)
         \/ /\ Piece(e) /\ c.bridge /\ e.type = "content.done"
            /\ e.at \in c.held /\ e.at \notin c.closed /\ r = ReleaseCall(c, e)
         \/ /\ Piece(e) /\ ~(c.suppress /\ e.kind = "reasoning")
            /\ c.bridge /\ e.kind = "function" => e.type = "content.done"
            /\ ~(c.bridge /\ e.type = "content.done" /\ e.at \in c.held /\ e.at \notin c.closed)
            /\ r = AnnounceFirst(c, e)
         \/ /\ ~Piece(e) /\ ~(c.suppress /\ e.kind = "reasoning")
            /\ ~(c.bridge /\ UnsafeDone(c, e))
            /\ ~(c.bridge /\ e.type = "item.added" /\ e.kind = "function")
            /\ r = Passed(Record(c, e), e)
<1>1. HasItem(e)
  BY EventOf
<1> QED BY <1>1, Zenon DEF Canonicalize, Piece

\* What is remembered of a call.
LEMMA SentAfter ==
  ASSUME UpstreamOK, route = "native", NEW e \in ItemEvents,
         sent' = IF Remembered(e) THEN [sent EXCEPT ![e.at] = @ \cup {e.type}] ELSE sent
  PROVE  \A i \in Indices : KindOf(i) = "function" =>
           \A t \in {"item.added", "delta", "content.done"} :
             t \in sent'[i] <=> t \in sent[i] \/ (i = e.at /\ t = e.type)
<1>1. e.at \in Indices /\ e.kind = KindOf(e.at)
  BY EventOf
<1>2. sent \in [Indices -> SUBSET Range(Stages)]
  BY DEF UpstreamOK
<1> SUFFICES ASSUME NEW i \in Indices, KindOf(i) = "function",
                    NEW t \in {"item.added", "delta", "content.done"}
             PROVE  t \in sent'[i] <=> t \in sent[i] \/ (i = e.at /\ t = e.type)
  OBVIOUS
<1>3. CASE i # e.at
  BY <1>1, <1>2, <1>3
<1>4. CASE i = e.at /\ t = e.type
  <2>1. Remembered(e)
    BY <1>1, <1>4 DEF Remembered
  <2> QED BY <1>1, <1>2, <1>4, <2>1
<1>5. CASE i = e.at /\ t # e.type
  BY <1>1, <1>2, <1>5
<1> QED BY <1>3, <1>4, <1>5

\* A call that becomes due is held, with its arguments.
LEMMA BecomesDue ==
  ASSUME NativeInv, route = "native", phase = "open", conv.bridge,
         NEW e \in ItemEvents, Offered(e),
         e.kind = "function", e.type = "content.done", "item.added" \in sent[e.at],
         e.full \/ "delta" \in sent[e.at]
  PROVE  e.at \in conv.held /\ e.at \notin conv.closed /\ (e.full \/ e.at \in conv.heldArgs)
<1>1. UpstreamOK /\ CallsHeld
  BY DEF NativeInv, NativeOK
<1>2. e.at \in Indices /\ KindOf(e.at) = "function"
  BY <1>1, EventOf
<1>3. "content.done" \notin sent[e.at]
  BY DEF Offered
<1> QED BY <1>1, <1>2, <1>3 DEF CallsHeld

\* A canonicalizer with another set.
LEMMA CanonicalizerWith ==
  ASSUME NEW c \in Canonicalizer, NEW s \in SUBSET Indices
  PROVE  /\ [c EXCEPT !.started = s] \in Canonicalizer
         /\ [c EXCEPT !.closed = s] \in Canonicalizer
         /\ [c EXCEPT !.argsDone = s] \in Canonicalizer
         /\ [c EXCEPT !.held = s] \in Canonicalizer
         /\ [c EXCEPT !.heldArgs = s] \in Canonicalizer
BY DEF Canonicalizer

\* Text is collected.
LEMMA CollectFields ==
  ASSUME NEW c \in Canonicalizer, NEW e, NEW d, d = Collect(c, e)
  PROVE  /\ d \in Canonicalizer
         /\ d.suppress = c.suppress /\ d.bridge = c.bridge /\ d.started = c.started
         /\ d.closed = c.closed /\ d.argsDone = c.argsDone /\ d.held = c.held
         /\ d.heldArgs = c.heldArgs
<1>1. PICK b \in BOOLEAN : d = [c EXCEPT !.collected = b]
  BY DEF Collect, Canonicalizer
<1> QED BY <1>1 DEF Canonicalizer

\* What hiding reasoning does to a canonicalizer.
LEMMA HideFields ==
  ASSUME NEW c \in Canonicalizer, NEW e, e.at \in Indices, NEW d, d = HideReasoning(c, e).c
  PROVE  /\ d.suppress = c.suppress /\ d.bridge = c.bridge
         /\ d.started = c.started \cup {e.at} /\ d.held = c.held
         /\ d.heldArgs = c.heldArgs /\ d.argsDone = c.argsDone
         /\ d.closed = IF e.type = "item.done" THEN c.closed \cup {e.at} ELSE c.closed
         /\ d \in Canonicalizer
<1> DEFINE s == c.started \cup {e.at}
           t == IF e.type = "item.done" THEN c.closed \cup {e.at} ELSE c.closed
<1>1. s \in SUBSET Indices /\ t \in SUBSET Indices
  BY CanonicalizerFields
<1>2. d = [c EXCEPT !.started = s, !.closed = t]
  BY DEF HideReasoning, Dropped, Canonicalizer
<1>3. d \in Canonicalizer
  <2> HIDE DEF s, t
  <2> DEFINE k == [c EXCEPT !.started = s]
  <2>1. k \in Canonicalizer
    BY <1>1, CanonicalizerWith
  <2>2. d = [k EXCEPT !.closed = t]
    BY <1>2
  <2> HIDE DEF k
  <2> QED BY <1>1, <2>1, <2>2, CanonicalizerWith
<1> HIDE DEF s, t
<1>4. /\ d.suppress = c.suppress /\ d.bridge = c.bridge
      /\ d.started = s /\ d.held = c.held /\ d.heldArgs = c.heldArgs
      /\ d.argsDone = c.argsDone /\ d.closed = t
  BY <1>2 DEF Canonicalizer
<1> QED BY <1>3, <1>4 DEF s, t

\* A call is held back.
LEMMA HoldCallFields ==
  ASSUME NEW c \in Canonicalizer, NEW e, e.at \in Indices, NEW d, d = HoldCall(c, e).c
  PROVE  /\ d.suppress = c.suppress /\ d.bridge = c.bridge
         /\ d.started = c.started \cup {e.at} /\ d.held = c.held \cup {e.at}
         /\ d.heldArgs = c.heldArgs /\ d.argsDone = c.argsDone
         /\ d.closed = c.closed \ {e.at}
         /\ d \in Canonicalizer
<1> DEFINE h == c.held \cup {e.at}
           s == c.started \cup {e.at}
           t == c.closed \ {e.at}
<1>1. h \in SUBSET Indices /\ s \in SUBSET Indices /\ t \in SUBSET Indices
  BY CanonicalizerFields
<1>2. d = [c EXCEPT !.held = h, !.started = s, !.closed = t]
  BY DEF HoldCall, Dropped, Canonicalizer
<1> HIDE DEF h, s, t
<1>3. d \in Canonicalizer
  <2> DEFINE k == [c EXCEPT !.held = h]
             l == [k EXCEPT !.started = s]
  <2>1. k \in Canonicalizer
    BY <1>1, CanonicalizerWith
  <2>2. d = [l EXCEPT !.closed = t]
    BY <1>2
  <2> HIDE DEF k
  <2>3. l \in Canonicalizer
    BY <1>1, <2>1, CanonicalizerWith
  <2> HIDE DEF l
  <2> QED BY <1>1, <2>2, <2>3, CanonicalizerWith
<1>4. /\ d.suppress = c.suppress /\ d.bridge = c.bridge
      /\ d.started = s /\ d.held = h /\ d.heldArgs = c.heldArgs
      /\ d.argsDone = c.argsDone /\ d.closed = t
  BY <1>2 DEF Canonicalizer
<1> QED BY <1>3, <1>4 DEF h, s, t

\* The arguments of a call are held back.
LEMMA HoldArgumentsFields ==
  ASSUME NEW c \in Canonicalizer, NEW e, e.at \in Indices, NEW d, d = HoldArguments(c, e).c
  PROVE  /\ d.suppress = c.suppress /\ d.bridge = c.bridge
         /\ d.started = c.started /\ d.held = c.held /\ d.closed = c.closed
         /\ d.heldArgs = c.heldArgs \cup {e.at} /\ d.argsDone = c.argsDone
         /\ d \in Canonicalizer
<1> DEFINE s == c.heldArgs \cup {e.at}
<1>1. s \in SUBSET Indices
  BY CanonicalizerFields
<1>2. d = [c EXCEPT !.heldArgs = s]
  BY DEF HoldArguments, Dropped, Canonicalizer
<1> HIDE DEF s
<1>3. d \in Canonicalizer
  BY <1>1, <1>2, CanonicalizerWith
<1>4. /\ d.suppress = c.suppress /\ d.bridge = c.bridge
      /\ d.started = c.started /\ d.held = c.held /\ d.heldArgs = s
      /\ d.argsDone = c.argsDone /\ d.closed = c.closed
  BY <1>2 DEF Canonicalizer
<1> QED BY <1>3, <1>4 DEF s

\* A call is released.
LEMMA ReleaseFields ==
  ASSUME NEW c \in Canonicalizer, NEW e, e.at \in Indices, NEW d, d = ReleaseCall(c, e).c
  PROVE  /\ d.suppress = c.suppress /\ d.bridge = c.bridge
         /\ d.started = c.started /\ d.held = c.held \ {e.at} /\ d.closed = c.closed
         /\ d.heldArgs = c.heldArgs \ {e.at} /\ d.argsDone = c.argsDone \cup {e.at}
         /\ d \in Canonicalizer
<1> DEFINE h == c.held \ {e.at}
           s == c.heldArgs \ {e.at}
           t == c.argsDone \cup {e.at}
<1>1. h \in SUBSET Indices /\ s \in SUBSET Indices /\ t \in SUBSET Indices
  BY CanonicalizerFields
<1>2. d = [c EXCEPT !.held = h, !.heldArgs = s, !.argsDone = t]
  BY DEF ReleaseCall, Canonicalizer
<1> HIDE DEF h, s, t
<1>3. d \in Canonicalizer
  <2> DEFINE k == [c EXCEPT !.held = h]
             l == [k EXCEPT !.heldArgs = s]
  <2>1. k \in Canonicalizer
    BY <1>1, CanonicalizerWith
  <2>2. d = [l EXCEPT !.argsDone = t]
    BY <1>2
  <2> HIDE DEF k
  <2>3. l \in Canonicalizer
    BY <1>1, <2>1, CanonicalizerWith
  <2> HIDE DEF l
  <2> QED BY <1>1, <2>2, <2>3, CanonicalizerWith
<1>4. /\ d.suppress = c.suppress /\ d.bridge = c.bridge
      /\ d.started = c.started /\ d.held = h /\ d.heldArgs = s
      /\ d.argsDone = t /\ d.closed = c.closed
  BY <1>2 DEF Canonicalizer
<1> QED BY <1>3, <1>4 DEF h, s, t

\* What is recorded of an event that is passed on.
LEMMA RecordFields ==
  ASSUME NEW c \in Canonicalizer, NEW e, e.at \in Indices, NEW d, d = Record(c, e)
  PROVE  /\ d \in Canonicalizer
         /\ d.suppress = c.suppress /\ d.bridge = c.bridge /\ d.held = c.held
         /\ d.heldArgs = c.heldArgs /\ d.argsDone = c.argsDone
         /\ d.started = IF e.type = "item.added" THEN c.started \cup {e.at} ELSE c.started
         /\ d.closed = IF e.type = "item.added" THEN c.closed \ {e.at}
                       ELSE IF e.type = "item.done" THEN c.closed \cup {e.at} ELSE c.closed
<1> DEFINE s == c.started \cup {e.at}
           t == c.closed \ {e.at}
           k == Collect(c, e)
           u == k.closed \cup {e.at}
<1>1. /\ k \in Canonicalizer /\ k.suppress = c.suppress /\ k.bridge = c.bridge
      /\ k.started = c.started /\ k.closed = c.closed /\ k.argsDone = c.argsDone
      /\ k.held = c.held /\ k.heldArgs = c.heldArgs
  BY CollectFields
<1>2. s \in SUBSET Indices /\ t \in SUBSET Indices /\ u \in SUBSET Indices
  BY <1>1, CanonicalizerFields
<1>3. CASE e.type = "item.added"
  <2>1. d = [c EXCEPT !.started = s, !.closed = t]
    BY <1>3 DEF Record, Canonicalizer
  <2> HIDE DEF s, t
  <2> DEFINE l == [c EXCEPT !.started = s]
  <2>2. l \in Canonicalizer
    BY <1>2, CanonicalizerWith
  <2>3. d = [l EXCEPT !.closed = t]
    BY <2>1
  <2> HIDE DEF l
  <2>4. d \in Canonicalizer
    BY <1>2, <2>2, <2>3, CanonicalizerWith
  <2>5. /\ d.suppress = c.suppress /\ d.bridge = c.bridge /\ d.held = c.held
        /\ d.heldArgs = c.heldArgs /\ d.argsDone = c.argsDone
        /\ d.started = s /\ d.closed = t
    BY <2>1 DEF Canonicalizer
  <2> QED BY <1>3, <2>4, <2>5 DEF s, t
<1>4. CASE e.type = "item.done"
  <2>1. d = [k EXCEPT !.closed = u]
    BY <1>1, <1>4 DEF Record, Canonicalizer
  <2> HIDE DEF k, u
  <2>2. d \in Canonicalizer
    BY <1>1, <1>2, <2>1, CanonicalizerWith
  <2>3. /\ d.suppress = k.suppress /\ d.bridge = k.bridge /\ d.held = k.held
        /\ d.heldArgs = k.heldArgs /\ d.argsDone = k.argsDone
        /\ d.started = k.started /\ d.closed = u
    BY <1>1, <2>1 DEF Canonicalizer
  <2> QED BY <1>1, <1>4, <2>2, <2>3 DEF u
<1>5. CASE e.type \notin {"item.added", "item.done"}
  <2>1. d = k
    BY <1>5 DEF Record
  <2> QED BY <1>1, <1>5, <2>1
<1> QED BY <1>3, <1>4, <1>5

\* A piece of an item that is not closed is passed on.
LEMMA AnnounceFields ==
  ASSUME NEW c \in Canonicalizer, NEW e, e.at \in Indices, e.at \notin c.closed,
         NEW d, d = AnnounceFirst(c, e).c
  PROVE  /\ d \in Canonicalizer
         /\ d.suppress = c.suppress /\ d.bridge = c.bridge /\ d.held = c.held
         /\ d.heldArgs = c.heldArgs /\ d.closed = c.closed
         /\ d.started = c.started \cup {e.at}
         /\ d.argsDone = IF e.type = "content.done" /\ e.kind = "function"
                         THEN c.argsDone \cup {e.at} ELSE c.argsDone
<1> DEFINE k == Collect(c, e)
           s == k.started \cup {e.at}
           t == IF e.type = "content.done" /\ e.kind = "function"
                THEN k.argsDone \cup {e.at} ELSE k.argsDone
<1>1. /\ k \in Canonicalizer /\ k.suppress = c.suppress /\ k.bridge = c.bridge
      /\ k.started = c.started /\ k.closed = c.closed /\ k.argsDone = c.argsDone
      /\ k.held = c.held /\ k.heldArgs = c.heldArgs
  BY CollectFields
<1>2. s \in SUBSET Indices /\ t \in SUBSET Indices
  BY <1>1, CanonicalizerFields
<1>3. d = [k EXCEPT !.started = s, !.argsDone = t]
  BY <1>1 DEF AnnounceFirst, Canonicalizer
<1> HIDE DEF k
<1>4. d \in Canonicalizer
  <2> HIDE DEF s, t
  <2> DEFINE l == [k EXCEPT !.started = s]
  <2>1. l \in Canonicalizer
    BY <1>1, <1>2, CanonicalizerWith
  <2>2. d = [l EXCEPT !.argsDone = t]
    BY <1>3
  <2> HIDE DEF l
  <2> QED BY <1>2, <2>1, <2>2, CanonicalizerWith
<1>5. /\ d.suppress = k.suppress /\ d.bridge = k.bridge /\ d.held = k.held
      /\ d.heldArgs = k.heldArgs /\ d.argsDone = t
      /\ d.started = s /\ d.closed = k.closed
  <2> HIDE DEF s, t
  <2> QED BY <1>1, <1>3 DEF Canonicalizer
<1> QED BY <1>1, <1>4, <1>5 DEF s, t

\* The canonicalizer takes an event about an item.
NativeFeed(e) ==
  /\ NativeInv /\ route = "native" /\ phase = "open" /\ pending = <<>>
  /\ e \in ItemEvents /\ Offered(e)
  /\ sent' = IF Remembered(e) THEN [sent EXCEPT ![e.at] = @ \cup {e.type}] ELSE sent
  /\ due' = IF /\ e.kind = "function" /\ e.type = "content.done"
               /\ "item.added" \in sent[e.at]
               /\ e.full \/ "delta" \in sent[e.at]
            THEN due \cup {e.at} ELSE due
  /\ UNCHANGED <<route, phase, plan, client>>

\* What a quiet step, which sends nothing, has to keep.
LEMMA QuietStep ==
  ASSUME NEW e, NativeFeed(e), conv' \in Canonicalizer, pending' = <<>>,
         conv'.suppress = conv.suppress, conv'.bridge = conv.bridge,
         \A i \in conv'.started \ (conv'.closed \cup conv'.held) :
            \/ i \in conv.started \ (conv.closed \cup conv.held)
            \/ KindOf(i) = "reasoning" /\ conv.suppress,
         HeldOK', conv.bridge => CallsHeld' /\ due' = due
  PROVE  NativeOK'
<1>1. /\ UpstreamOK /\ NativeOK /\ plan' = plan /\ items' = items /\ calls' = calls
      /\ phase' = "open" /\ phase = "open" /\ pending = <<>>
  BY DEF NativeFeed, NativeInv, client
<1>2. Indices' = Indices /\ Canonicalizer' = Canonicalizer
  BY <1>1 DEF Indices, Canonicalizer
<1>3. PendingOK'
  BY DEF PendingOK
<1>4. StartedOpen'
  <2> SUFFICES ASSUME NEW i \in conv'.started \ (conv'.closed \cup conv'.held)
               PROVE  \/ KindOf(i)' = "message"
                      \/ KindOf(i)' = "reasoning" /\ conv'.suppress
                      \/ OpenSoon(i)'
    BY DEF StartedOpen
  <2>1. KindOf(i)' = KindOf(i) /\ IsOpen(i)' = IsOpen(i)
    BY <1>1 DEF KindOf, IsOpen
  <2>2. OpenSoon(i) => IsOpen(i)
    BY <1>1 DEF OpenSoon, Announced
  <2>3. IsOpen(i)' => OpenSoon(i)'
    BY DEF OpenSoon, Finished
  <2>4. CASE KindOf(i) = "reasoning" /\ conv.suppress
    BY <2>1, <2>4
  <2>5. CASE i \in conv.started \ (conv.closed \cup conv.held)
    BY <1>1, <2>1, <2>2, <2>3, <2>5 DEF NativeOK, StartedOpen
  <2> QED BY <2>4, <2>5
<1>5. conv.bridge => DueArrive'
  <2> SUFFICES ASSUME conv.bridge PROVE DueArrive'
    OBVIOUS
  <2>1. DueArrive /\ due' = due
    BY <1>1 DEF NativeOK
  <2>2. \A i : ~Arriving(i)
    BY <1>1 DEF Arriving
  <2> QED BY <1>1, <2>1, <2>2 DEF DueArrive
<1> QED BY <1>1, <1>2, <1>3, <1>4, <1>5 DEF NativeOK

\* A step that is not the end of a call's arguments makes nothing due.
LEMMA DueStays ==
  ASSUME NEW e, NativeFeed(e),
         \/ e.kind # "function" \/ e.type # "content.done"
         \/ conv.bridge /\ ~(e.at \in conv.held /\ e.at \notin conv.closed)
  PROVE  due' = due
<1>1. CASE e.kind # "function" \/ e.type # "content.done"
  BY <1>1 DEF NativeFeed
<1>2. CASE /\ e.kind = "function" /\ e.type = "content.done"
           /\ conv.bridge /\ ~(e.at \in conv.held /\ e.at \notin conv.closed)
  <2>1. ~("item.added" \in sent[e.at] /\ (e.full \/ "delta" \in sent[e.at]))
    BY <1>2, BecomesDue DEF NativeFeed
  <2> QED BY <2>1 DEF NativeFeed
<1> QED BY <1>1, <1>2

\* Calls stay held when an event changes at most what is known of its own item,
\* and that the way it should.
LEMMA CallsStayHeld ==
  ASSUME NEW e, NativeFeed(e), conv.bridge,
         \A i \in Indices \ {e.at} :
            /\ i \in conv'.held <=> i \in conv.held
            /\ i \in conv'.closed <=> i \in conv.closed
            /\ i \in conv'.heldArgs <=> i \in conv.heldArgs
            /\ i \in conv'.argsDone <=> i \in conv.argsDone,
         e.kind = "function" =>
           \/ e.type = "content.done"
           \/ /\ e.at \in conv'.held <=> e.at \in conv.held \/ e.type = "item.added"
              /\ e.at \in conv'.heldArgs <=> e.at \in conv.heldArgs \/ e.type = "delta"
              /\ e.at \in conv'.argsDone <=> e.at \in conv.argsDone
              /\ \/ e.type = "item.done" /\ e.at \in conv.argsDone
                 \/ e.at \in conv'.closed <=> e.at \in conv.closed /\ e.type # "item.added"
  PROVE  CallsHeld'
<1>1. /\ UpstreamOK /\ CallsHeld /\ plan' = plan
  BY DEF NativeFeed, NativeInv, NativeOK, client
<1>2. Indices' = Indices /\ \A i : KindOf(i)' = KindOf(i)
  BY <1>1 DEF Indices, KindOf
<1>3. e.kind = KindOf(e.at) /\ e.at \in Indices
  BY <1>1, EventOf DEF NativeFeed
<1>4. \A i \in Indices : KindOf(i) = "function" =>
        /\ "item.added" \in sent'[i] <=> "item.added" \in sent[i] \/ (i = e.at /\ e.type = "item.added")
        /\ "delta" \in sent'[i] <=> "delta" \in sent[i] \/ (i = e.at /\ e.type = "delta")
        /\ "content.done" \in sent'[i] <=>
             "content.done" \in sent[i] \/ (i = e.at /\ e.type = "content.done")
  BY <1>1, SentAfter DEF NativeFeed
<1> SUFFICES ASSUME NEW i \in Indices, KindOf(i) = "function"
             PROVE  /\ i \in conv'.argsDone => "content.done" \in sent'[i]
                    /\ "content.done" \notin sent'[i] =>
                         /\ "item.added" \in sent'[i] => i \in conv'.held /\ i \notin conv'.closed
                         /\ "delta" \in sent'[i] => i \in conv'.heldArgs
  BY <1>2 DEF CallsHeld
<1>5. CASE i # e.at
  BY <1>1, <1>4, <1>5 DEF CallsHeld
<1>6. CASE i = e.at
  BY <1>1, <1>3, <1>4, <1>6 DEF CallsHeld
<1> QED BY <1>5, <1>6

\* Reasoning is hidden.
LEMMA HideStep ==
  ASSUME NEW e, NativeFeed(e), conv.suppress, e.kind = "reasoning",
         conv' = HideReasoning(conv, e).c, pending' = HideReasoning(conv, e).out
  PROVE  NativeOK'
<1>1. /\ UpstreamOK /\ NativeOK /\ conv \in Canonicalizer /\ plan' = plan
      /\ e.at \in Indices /\ KindOf(e.at) = "reasoning" /\ HeldOK
  BY EventOf DEF NativeFeed, NativeInv, NativeOK, client
<1>2. pending' = <<>>
  BY DEF HideReasoning, Dropped
<1>3. /\ conv'.suppress = conv.suppress /\ conv'.bridge = conv.bridge
      /\ conv'.started = conv.started \cup {e.at} /\ conv'.held = conv.held
      /\ conv'.heldArgs = conv.heldArgs /\ conv'.argsDone = conv.argsDone
      /\ conv'.closed = IF e.type = "item.done" THEN conv.closed \cup {e.at} ELSE conv.closed
      /\ conv' \in Canonicalizer
  <2>1. conv \in Canonicalizer /\ e.at \in Indices /\ conv' = HideReasoning(conv, e).c
    BY <1>1
  <2> QED BY ONLY <2>1, HideFields
<1>4. HeldOK'
  BY <1>1, <1>3 DEF HeldOK, KindOf
<1>5. due' = due
  BY DueStays
<1>6. conv.bridge => CallsHeld'
  BY <1>1, <1>3, CallsStayHeld, EventOf DEF NativeFeed
<1>7. \A i \in conv'.started \ (conv'.closed \cup conv'.held) :
        \/ i \in conv.started \ (conv.closed \cup conv.held)
        \/ KindOf(i) = "reasoning" /\ conv.suppress
  BY <1>1, <1>3
<1> QED BY <1>2, <1>3, <1>4, <1>5, <1>6, <1>7, QuietStep

\* An event that would close the wrong block is dropped.
LEMMA UnsafeStep ==
  ASSUME NEW e, NativeFeed(e), conv.bridge, UnsafeDone(conv, e),
         conv' = Dropped(Collect(conv, e)).c, pending' = Dropped(Collect(conv, e)).out
  PROVE  NativeOK'
<1>1. /\ UpstreamOK /\ NativeOK /\ conv \in Canonicalizer /\ plan' = plan /\ HeldOK
  BY DEF NativeFeed, NativeInv, NativeOK, client
<1>2. pending' = <<>> /\ conv' = Collect(conv, e)
  BY DEF Dropped
<1>3. /\ conv' \in Canonicalizer
      /\ conv'.suppress = conv.suppress /\ conv'.bridge = conv.bridge
      /\ conv'.started = conv.started /\ conv'.closed = conv.closed
      /\ conv'.argsDone = conv.argsDone /\ conv'.held = conv.held
      /\ conv'.heldArgs = conv.heldArgs
  <2>1. conv \in Canonicalizer /\ conv' = Collect(conv, e)
    BY <1>1, <1>2
  <2> QED BY ONLY <2>1, CollectFields
<1>4. e.kind = "function" => e.type = "item.done"
  BY DEF UnsafeDone
<1>5. HeldOK'
  BY <1>1, <1>3 DEF HeldOK, KindOf
<1>6. due' = due
  BY <1>4, DueStays
<1>7. CallsHeld'
  BY <1>3, <1>4, CallsStayHeld
<1> QED BY <1>2, <1>3, <1>5, <1>6, <1>7, QuietStep

\* A call is held back.
LEMMA HoldCallStep ==
  ASSUME NEW e, NativeFeed(e), conv.bridge, e.type = "item.added", e.kind = "function",
         conv' = HoldCall(conv, e).c, pending' = HoldCall(conv, e).out
  PROVE  NativeOK'
<1>1. /\ UpstreamOK /\ NativeOK /\ conv \in Canonicalizer /\ plan' = plan /\ HeldOK
      /\ e.at \in Indices /\ KindOf(e.at) = "function"
  BY EventOf DEF NativeFeed, NativeInv, NativeOK, client
<1>2. pending' = <<>>
  BY DEF HoldCall, Dropped
<1>3. /\ conv'.suppress = conv.suppress /\ conv'.bridge = conv.bridge
      /\ conv'.started = conv.started \cup {e.at} /\ conv'.held = conv.held \cup {e.at}
      /\ conv'.heldArgs = conv.heldArgs /\ conv'.argsDone = conv.argsDone
      /\ conv'.closed = conv.closed \ {e.at}
      /\ conv' \in Canonicalizer
  <2>1. conv \in Canonicalizer /\ e.at \in Indices /\ conv' = HoldCall(conv, e).c
    BY <1>1
  <2> QED BY ONLY <2>1, HoldCallFields
<1>4. HeldOK'
  BY <1>1, <1>3 DEF HeldOK, KindOf
<1>5. due' = due
  BY DueStays
<1>6. CallsHeld'
  BY <1>3, CallsStayHeld
<1>7. \A i \in conv'.started \ (conv'.closed \cup conv'.held) :
        i \in conv.started \ (conv.closed \cup conv.held)
  BY <1>3
<1> QED BY <1>2, <1>3, <1>4, <1>5, <1>6, <1>7, QuietStep

\* The arguments of a call are held back.
LEMMA HoldArgumentsStep ==
  ASSUME NEW e, NativeFeed(e), conv.bridge, e.type = "delta", e.kind = "function",
         conv' = HoldArguments(conv, e).c, pending' = HoldArguments(conv, e).out
  PROVE  NativeOK'
<1>1. /\ UpstreamOK /\ NativeOK /\ conv \in Canonicalizer /\ plan' = plan /\ HeldOK
      /\ e.at \in Indices /\ KindOf(e.at) = "function"
  BY EventOf DEF NativeFeed, NativeInv, NativeOK, client
<1>2. pending' = <<>>
  BY DEF HoldArguments, Dropped
<1>3. /\ conv'.suppress = conv.suppress /\ conv'.bridge = conv.bridge
      /\ conv'.started = conv.started /\ conv'.held = conv.held /\ conv'.closed = conv.closed
      /\ conv'.heldArgs = conv.heldArgs \cup {e.at} /\ conv'.argsDone = conv.argsDone
      /\ conv' \in Canonicalizer
  <2>1. conv \in Canonicalizer /\ e.at \in Indices /\ conv' = HoldArguments(conv, e).c
    BY <1>1
  <2> QED BY ONLY <2>1, HoldArgumentsFields
<1>4. HeldOK'
  BY <1>1, <1>3 DEF HeldOK, KindOf
<1>5. due' = due
  BY DueStays
<1>6. CallsHeld'
  BY <1>3, CallsStayHeld
<1>7. \A i \in conv'.started \ (conv'.closed \cup conv'.held) :
        i \in conv.started \ (conv.closed \cup conv.held)
  BY <1>3
<1> QED BY <1>2, <1>3, <1>4, <1>5, <1>6, <1>7, QuietStep

\* A piece of a closed item is dropped.
LEMMA DropStep ==
  ASSUME NEW e, NativeFeed(e), Piece(e), e.at \in conv.closed,
         conv.bridge /\ e.kind = "function" => e.type = "content.done",
         conv' = AnnounceFirst(conv, e).c, pending' = AnnounceFirst(conv, e).out
  PROVE  NativeOK'
<1>1. /\ UpstreamOK /\ NativeOK /\ conv \in Canonicalizer /\ plan' = plan /\ HeldOK
  BY DEF NativeFeed, NativeInv, NativeOK, client
<1>2. pending' = <<>> /\ conv' = conv
  BY DEF AnnounceFirst, Dropped
<1>3. HeldOK'
  BY <1>1, <1>2 DEF HeldOK, KindOf
<1>4. conv.bridge => due' = due
  BY DueStays
<1>5. conv.bridge => CallsHeld'
  BY <1>2, CallsStayHeld
<1> QED BY <1>1, <1>2, <1>3, <1>4, <1>5, QuietStep

\* Sequences of one and of two.
LEMMA OneOrTwo ==
  ASSUME NEW x, NEW y
  PROVE  /\ DOMAIN <<x>> = {1} /\ <<x>>[1] = x
         /\ DOMAIN <<x, y>> = {1, 2} /\ <<x, y>>[1] = x /\ <<x, y>>[2] = y
         /\ Len(<<x>>) = 1 /\ Len(<<x, y>>) = 2
OBVIOUS

\* What is open once the client has read an event, or an announcement and an
\* event, about an item.
LEMMA OpenAfter ==
  ASSUME NEW e, NativeFeed(e), NEW f, f.at = e.at, f.type = e.type,
         pending' = <<f>> \/ pending' = <<Added(e), f>>
  PROVE  /\ \A i : OpenSoon(i) <=> IsOpen(i)
         /\ \A i : IsOpen(i) /\ ~(e.type = "item.done" /\ i = e.at) => OpenSoon(i)'
         /\ e.type = "item.added" \/ pending' = <<Added(e), f>> =>
              \A i : i = e.at => OpenSoon(i)'
<1>1. pending = <<>> /\ items' = items
  BY DEF NativeFeed, client
<1>2. \A i : OpenSoon(i) <=> IsOpen(i)
  BY <1>1 DEF OpenSoon, Announced, Finished
<1>3. Added(e).type = "item.added" /\ Added(e).at = e.at
  BY DEF Added
<1>4. \A i : IsOpen(i)' <=> IsOpen(i)
  BY <1>1 DEF IsOpen
<1>5. \A k \in DOMAIN pending' : pending'[k].type = "item.done" =>
        e.type = "item.done" /\ pending'[k].at = e.at
  BY <1>3, OneOrTwo
<1>6. \A i : IsOpen(i) /\ ~(e.type = "item.done" /\ i = e.at) => OpenSoon(i)'
  BY <1>4, <1>5 DEF OpenSoon, Finished
<1>7. ASSUME e.type = "item.added" \/ pending' = <<Added(e), f>>
      PROVE  \A i : i = e.at => OpenSoon(i)'
  <2>1. \E k \in DOMAIN pending' : pending'[k].type = "item.added" /\ pending'[k].at = e.at
    <3>1. CASE pending' = <<Added(e), f>>
      BY <1>3, <3>1, OneOrTwo
    <3>2. CASE pending' = <<f>>
      <4>1. pending' # <<Added(e), f>>
        BY <3>2, OneOrTwo
      <4> QED BY <1>7, <3>2, <4>1, OneOrTwo
    <3> QED BY <3>1, <3>2
  <2> QED BY <2>1 DEF OpenSoon, Announced
<1> QED BY <1>2, <1>6, <1>7

\* What a step that sends something has to keep.
LEMMA SpeakingStep ==
  ASSUME NEW e, NativeFeed(e), conv' \in Canonicalizer, PendingOK',
         conv'.bridge = conv.bridge, StartedOpen', HeldOK',
         conv.bridge => CallsHeld' /\ DueArrive'
  PROVE  NativeOK'
<1>1. /\ NativeOK /\ plan' = plan /\ items' = items
  BY DEF NativeFeed, NativeInv, client
<1>2. Indices' = Indices /\ Canonicalizer' = Canonicalizer
  BY <1>1 DEF Indices, Canonicalizer
<1> QED BY <1>1, <1>2 DEF NativeOK

\* The events about items are those of the plan.
LEMMA ItemEventsStay ==
  ASSUME NEW e, NativeFeed(e)
  PROVE  ItemEvents' = ItemEvents /\ NativeEvents' = NativeEvents
<1>1. UpstreamOK /\ plan' = plan
  BY DEF NativeFeed, NativeInv
<1>2. DOMAIN sent' = DOMAIN sent
  BY <1>1 DEF UpstreamOK, NativeFeed
<1>3. ItemEvents' = ItemEvents
  BY <1>1, <1>2 DEF ItemEvents, About
<1> QED BY <1>3 DEF NativeEvents

\* A call is released.
LEMMA ReleaseStep ==
  ASSUME NEW e, NativeFeed(e), conv.bridge, Piece(e), e.type = "content.done",
         e.at \in conv.held, e.at \notin conv.closed,
         conv' = ReleaseCall(conv, e).c, pending' = ReleaseCall(conv, e).out
  PROVE  NativeOK'
<1>1. /\ UpstreamOK /\ NativeOK /\ conv \in Canonicalizer /\ plan' = plan /\ HeldOK
      /\ e \in ItemEvents /\ e.at \in Indices /\ e.kind = KindOf(e.at) /\ StartedOpen
      /\ DueArrive /\ pending = <<>> /\ sent \in [Indices -> SUBSET Range(Stages)]
      /\ calls' = calls
  BY EventOf DEF NativeFeed, NativeInv, NativeOK, UpstreamOK, client
<1>2. /\ conv'.suppress = conv.suppress /\ conv'.bridge = conv.bridge
      /\ conv'.started = conv.started /\ conv'.held = conv.held \ {e.at}
      /\ conv'.heldArgs = conv.heldArgs \ {e.at} /\ conv'.closed = conv.closed
      /\ conv'.argsDone = conv.argsDone \cup {e.at}
      /\ conv' \in Canonicalizer
  <2>1. conv \in Canonicalizer /\ e.at \in Indices /\ conv' = ReleaseCall(conv, e).c
    BY <1>1
  <2> QED BY ONLY <2>1, ReleaseFields
<1>3. KindOf(e.at) = "function" /\ e.kind = "function"
  BY <1>1 DEF HeldOK
<1>4. \A i : KindOf(i)' = KindOf(i)
  BY <1>1 DEF KindOf
<1>5. PICK f \in ItemEvents :
        /\ f.at = e.at /\ f.kind = e.kind /\ f.type = e.type
        /\ e.full \/ e.at \in conv.heldArgs => f.full = TRUE
        /\ pending' = <<Added(e), f>>
  <2> DEFINE full == e.full \/ e.at \in conv.heldArgs
             g == [e EXCEPT !.full = full]
  <2>1. pending' = <<Added(e), g>>
    BY DEF ReleaseCall
  <2>2. full \in BOOLEAN /\ (e.full \/ e.at \in conv.heldArgs => full = TRUE)
    OBVIOUS
  <2> HIDE DEF full
  <2>3. /\ g \in ItemEvents /\ g.at = e.at /\ g.kind = e.kind /\ g.type = e.type
        /\ g.full = full
    BY <1>1, <2>2, EventsMade
  <2> HIDE DEF g
  <2> QED BY <2>1, <2>2, <2>3
<1>6. Added(f) = Added(e)
  BY <1>5 DEF Added
<1>7. PendingOK'
  <2>1. PendingTwo(f)'
    BY <1>3, <1>5, <1>6 DEF PendingTwo, Piece
  <2>2. f \in ItemEvents'
    BY <1>5, ItemEventsStay
  <2> QED BY <2>1, <2>2, Zenon DEF PendingOK
<1>8. HeldOK'
  BY <1>1, <1>2, <1>4 DEF HeldOK
<1>9. StartedOpen'
  <2>1. \A i : OpenSoon(i) \/ i = e.at => OpenSoon(i)'
    BY <1>5, OpenAfter
  <2> SUFFICES ASSUME NEW i \in conv'.started \ (conv'.closed \cup conv'.held)
               PROVE  \/ KindOf(i)' = "message"
                      \/ KindOf(i)' = "reasoning" /\ conv'.suppress
                      \/ OpenSoon(i)'
    BY DEF StartedOpen
  <2>2. CASE i = e.at
    BY <2>1, <2>2
  <2>3. CASE i # e.at
    <3>1. i \in conv.started \ (conv.closed \cup conv.held)
      BY <1>2, <2>3
    <3> QED BY <1>1, <1>2, <1>4, <2>1, <3>1 DEF StartedOpen
  <2> QED BY <2>2, <2>3
<1>10. CallsHeld'
  BY <1>2, CallsStayHeld
<1>11. DueArrive'
  <2>1. \A i : ~Arriving(i)
    BY <1>1 DEF Arriving
  <2>2. \A i \in due : i \in calls
    BY <1>1, <2>1 DEF DueArrive
  <2>3. CASE due' = due
    BY <1>1, <2>2, <2>3 DEF DueArrive
  <2>4. CASE due' # due
    <3>1. /\ due' = due \cup {e.at}
          /\ "item.added" \in sent[e.at] /\ (e.full \/ "delta" \in sent[e.at])
      BY <2>4 DEF NativeFeed
    <3>2. f.full = TRUE
      BY <1>3, <1>5, <3>1, BecomesDue DEF NativeFeed
    <3>3. Arriving(e.at)'
      BY <1>3, <1>5, <3>2, OneOrTwo DEF Arriving
    <3> QED BY <1>1, <2>2, <3>1, <3>3 DEF DueArrive
  <2> QED BY <2>3, <2>4
<1> QED BY <1>2, <1>7, <1>8, <1>9, <1>10, <1>11, SpeakingStep

\* Nothing becomes due but what was due has arrived.
LEMMA NothingDue ==
  ASSUME NEW e, NativeFeed(e), conv.bridge, due' = due
  PROVE  DueArrive'
<1>1. pending = <<>> /\ DueArrive /\ calls' = calls
  BY DEF NativeFeed, NativeInv, NativeOK, client
<1>2. \A i : ~Arriving(i)
  BY <1>1 DEF Arriving
<1> QED BY <1>1, <1>2 DEF DueArrive

\* A piece is passed on, after its announcement if that is missing.
LEMMA AnnounceStep ==
  ASSUME NEW e, NativeFeed(e), Piece(e), e.at \notin conv.closed,
         ~(conv.suppress /\ e.kind = "reasoning"),
         conv.bridge /\ e.kind = "function" => e.type = "content.done",
         ~(conv.bridge /\ e.type = "content.done" /\ e.at \in conv.held),
         conv' = AnnounceFirst(conv, e).c, pending' = AnnounceFirst(conv, e).out
  PROVE  NativeOK'
<1>1. /\ UpstreamOK /\ NativeOK /\ conv \in Canonicalizer /\ plan' = plan /\ HeldOK
      /\ e \in ItemEvents /\ e.at \in Indices /\ e.kind = KindOf(e.at) /\ StartedOpen
      /\ pending = <<>> /\ items' = items
  BY EventOf DEF NativeFeed, NativeInv, NativeOK, UpstreamOK, client
<1>2. /\ conv'.suppress = conv.suppress /\ conv'.bridge = conv.bridge
      /\ conv'.started = conv.started \cup {e.at} /\ conv'.held = conv.held
      /\ conv'.heldArgs = conv.heldArgs /\ conv'.closed = conv.closed
      /\ conv'.argsDone = IF e.type = "content.done" /\ e.kind = "function"
                          THEN conv.argsDone \cup {e.at} ELSE conv.argsDone
      /\ conv' \in Canonicalizer
  <2>1. /\ conv \in Canonicalizer /\ e.at \in Indices /\ e.at \notin conv.closed
        /\ conv' = AnnounceFirst(conv, e).c
    BY <1>1
  <2> QED BY ONLY <2>1, AnnounceFields
<1>3. pending' = IF e.at \in conv.started THEN <<e>> ELSE <<Added(e), e>>
  BY DEF AnnounceFirst
<1>4. \A i : KindOf(i)' = KindOf(i)
  BY <1>1 DEF KindOf
<1>5. e.type \in {"delta", "content.done"} /\ e.kind \in {"function", "reasoning"}
  BY DEF Piece
<1>6. e.at \notin conv.held
  <2> SUFFICES ASSUME e.at \in conv.held PROVE FALSE
    OBVIOUS
  <2>1. conv.bridge /\ e.kind = "function"
    BY <1>1 DEF HeldOK
  <2> QED BY <2>1
<1>7. /\ \A i : OpenSoon(i) <=> IsOpen(i)
      /\ \A i : IsOpen(i) => OpenSoon(i)'
      /\ e.at \notin conv.started => \A i : i = e.at => OpenSoon(i)'
  BY <1>3, <1>5, OpenAfter
<1>8. e.at \in conv.started => IsOpen(e.at)
  <2> SUFFICES ASSUME e.at \in conv.started PROVE IsOpen(e.at)
    OBVIOUS
  <2>1. e.at \in conv.started \ (conv.closed \cup conv.held)
    BY <1>6
  <2>2. KindOf(e.at) # "message" /\ ~(KindOf(e.at) = "reasoning" /\ conv.suppress)
    BY <1>1, <1>5
  <2> QED BY <1>1, <1>7, <2>1, <2>2 DEF StartedOpen
<1>9. PendingOK'
  <2>1. e \in ItemEvents' /\ e \in NativeEvents'
    BY <1>1, ItemEventsStay DEF NativeEvents
  <2>2. CASE e.at \in conv.started
    <3>1. IsOpen(e.at)'
      BY <1>1, <1>8, <2>2 DEF IsOpen
    <3>2. PendingOne(e)'
      BY <1>3, <1>5, <2>2, <3>1 DEF PendingOne
    <3> QED BY <2>1, <3>2, Zenon DEF PendingOK
  <2>3. CASE e.at \notin conv.started
    <3>1. PendingTwo(e)'
      BY <1>2, <1>3, <2>3 DEF PendingTwo
    <3> QED BY <2>1, <3>1, Zenon DEF PendingOK
  <2> QED BY <2>2, <2>3
<1>10. HeldOK'
  BY <1>1, <1>2, <1>4 DEF HeldOK
<1>11. StartedOpen'
  <2> SUFFICES ASSUME NEW i \in conv'.started \ (conv'.closed \cup conv'.held)
               PROVE  \/ KindOf(i)' = "message"
                      \/ KindOf(i)' = "reasoning" /\ conv'.suppress
                      \/ OpenSoon(i)'
    BY DEF StartedOpen
  <2>1. CASE i = e.at
    BY <1>7, <1>8, <2>1
  <2>2. CASE i # e.at
    <3>1. i \in conv.started \ (conv.closed \cup conv.held)
      BY <1>2, <2>2
    <3> QED BY <1>1, <1>2, <1>4, <1>7, <3>1 DEF StartedOpen
  <2> QED BY <2>1, <2>2
<1>12. conv.bridge => CallsHeld'
  BY <1>2, CallsStayHeld
<1>13. conv.bridge => DueArrive'
  BY DueStays, NothingDue
<1> QED BY <1>2, <1>9, <1>10, <1>11, <1>12, <1>13, SpeakingStep

\* Any other event is passed on as it is.
LEMMA PassStep ==
  ASSUME NEW e, NativeFeed(e), ~Piece(e),
         ~(conv.suppress /\ e.kind = "reasoning"),
         ~(conv.bridge /\ UnsafeDone(conv, e)),
         ~(conv.bridge /\ e.type = "item.added" /\ e.kind = "function"),
         conv' = Passed(Record(conv, e), e).c, pending' = Passed(Record(conv, e), e).out
  PROVE  NativeOK'
<1>1. /\ UpstreamOK /\ NativeOK /\ conv \in Canonicalizer /\ plan' = plan /\ HeldOK
      /\ e \in ItemEvents /\ e.at \in Indices /\ e.kind = KindOf(e.at) /\ StartedOpen
      /\ pending = <<>> /\ items' = items
  BY EventOf DEF NativeFeed, NativeInv, NativeOK, UpstreamOK, client
<1>2. /\ conv' \in Canonicalizer
      /\ conv'.suppress = conv.suppress /\ conv'.bridge = conv.bridge /\ conv'.held = conv.held
      /\ conv'.heldArgs = conv.heldArgs /\ conv'.argsDone = conv.argsDone
      /\ conv'.started = IF e.type = "item.added" THEN conv.started \cup {e.at} ELSE conv.started
      /\ conv'.closed = IF e.type = "item.added" THEN conv.closed \ {e.at}
                        ELSE IF e.type = "item.done" THEN conv.closed \cup {e.at} ELSE conv.closed
  <2>1. conv \in Canonicalizer /\ e.at \in Indices /\ conv' = Record(conv, e)
    BY <1>1 DEF Passed
  <2> QED BY ONLY <2>1, RecordFields
<1>3. pending' = <<e>>
  BY DEF Passed
<1>4. \A i : KindOf(i)' = KindOf(i)
  BY <1>1 DEF KindOf
<1>5. /\ \A i : OpenSoon(i) <=> IsOpen(i)
      /\ \A i : IsOpen(i) /\ ~(e.type = "item.done" /\ i = e.at) => OpenSoon(i)'
      /\ e.type = "item.added" => \A i : i = e.at => OpenSoon(i)'
  BY <1>3, OpenAfter
<1>6. PendingOK'
  <2>1. e \in NativeEvents'
    BY <1>1, ItemEventsStay DEF NativeEvents
  <2>2. PendingOne(e)'
    BY <1>2, <1>3 DEF PendingOne
  <2> QED BY <2>1, <2>2, Zenon DEF PendingOK
<1>7. HeldOK'
  BY <1>1, <1>2, <1>4 DEF HeldOK
<1>8. StartedOpen'
  <2> SUFFICES ASSUME NEW i \in conv'.started \ (conv'.closed \cup conv'.held)
               PROVE  \/ KindOf(i)' = "message"
                      \/ KindOf(i)' = "reasoning" /\ conv'.suppress
                      \/ OpenSoon(i)'
    BY DEF StartedOpen
  <2>1. CASE i = e.at /\ e.type = "item.added"
    BY <1>5, <2>1
  <2>2. CASE ~(i = e.at /\ e.type = "item.added")
    <3>1. i \in conv.started \ (conv.closed \cup conv.held)
          /\ ~(e.type = "item.done" /\ i = e.at)
      BY <1>2, <2>2
    <3> QED BY <1>1, <1>2, <1>4, <1>5, <3>1 DEF StartedOpen
  <2> QED BY <2>1, <2>2
<1>9. conv.bridge => CallsHeld'
  <2> SUFFICES ASSUME conv.bridge PROVE CallsHeld'
    OBVIOUS
  <2>1. e.kind = "function" =>
          /\ e.type \notin {"item.added", "delta", "content.done"}
          /\ e.type = "item.done" => e.at \in conv.argsDone
    BY DEF UnsafeDone, Piece
  <2> QED BY <1>2, <2>1, CallsStayHeld
<1>10. conv.bridge => DueArrive'
  BY DueStays, NothingDue DEF Piece
<1> QED BY <1>2, <1>6, <1>7, <1>8, <1>9, <1>10, SpeakingStep

\* The canonicalizer takes an event about an item.
LEMMA NativeFeedStep ==
  ASSUME NativeInv, route = "native", FeedItem
  PROVE  NativeOK'
<1>1. PICK e \in ItemEvents :
        /\ Offered(e) /\ Transform(Take(e))
        /\ sent' = IF Remembered(e) THEN [sent EXCEPT ![e.at] = @ \cup {e.type}] ELSE sent
        /\ due' = IF /\ e.kind = "function" /\ e.type = "content.done"
                     /\ "item.added" \in sent[e.at]
                     /\ e.full \/ "delta" \in sent[e.at]
                  THEN due \cup {e.at} ELSE due
  BY DEF FeedItem
<1>2. NativeFeed(e)
  BY <1>1 DEF FeedItem, NativeFeed, Transform
<1>3. UpstreamOK /\ conv \in Canonicalizer
  BY DEF NativeInv, NativeOK
<1> DEFINE r == Canonicalize(conv, e)
<1>4. conv' = r.c /\ pending' = r.out
  BY <1>1 DEF Transform, Take
<1>5. \/ conv.suppress /\ e.kind = "reasoning" /\ r = HideReasoning(conv, e)
      \/ conv.bridge /\ UnsafeDone(conv, e) /\ r = Dropped(Collect(conv, e))
      \/ conv.bridge /\ e.type = "item.added" /\ e.kind = "function" /\ r = HoldCall(conv, e)
      \/ conv.bridge /\ e.type = "delta" /\ e.kind = "function" /\ r = HoldArguments(conv, e)
      \/ /\ Piece(e) /\ conv.bridge /\ e.type = "content.done"
         /\ e.at \in conv.held /\ e.at \notin conv.closed /\ r = ReleaseCall(conv, e)
      \/ /\ Piece(e) /\ ~(conv.suppress /\ e.kind = "reasoning")
         /\ conv.bridge /\ e.kind = "function" => e.type = "content.done"
         /\ ~(conv.bridge /\ e.type = "content.done" /\ e.at \in conv.held /\ e.at \notin conv.closed)
         /\ r = AnnounceFirst(conv, e)
      \/ /\ ~Piece(e) /\ ~(conv.suppress /\ e.kind = "reasoning")
         /\ ~(conv.bridge /\ UnsafeDone(conv, e))
         /\ ~(conv.bridge /\ e.type = "item.added" /\ e.kind = "function")
         /\ r = Passed(Record(conv, e), e)
  BY <1>3, CanonicalizeCases, Zenon
<1> HIDE DEF r
<1>6. CASE conv.suppress /\ e.kind = "reasoning" /\ r = HideReasoning(conv, e)
  BY <1>2, <1>4, <1>6, HideStep
<1>7. CASE conv.bridge /\ UnsafeDone(conv, e) /\ r = Dropped(Collect(conv, e))
  BY <1>2, <1>4, <1>7, UnsafeStep
<1>8. CASE conv.bridge /\ e.type = "item.added" /\ e.kind = "function" /\ r = HoldCall(conv, e)
  BY <1>2, <1>4, <1>8, HoldCallStep
<1>9. CASE conv.bridge /\ e.type = "delta" /\ e.kind = "function" /\ r = HoldArguments(conv, e)
  BY <1>2, <1>4, <1>9, HoldArgumentsStep
<1>10. CASE /\ Piece(e) /\ conv.bridge /\ e.type = "content.done"
            /\ e.at \in conv.held /\ e.at \notin conv.closed /\ r = ReleaseCall(conv, e)
  BY <1>2, <1>4, <1>10, ReleaseStep
<1>11. CASE /\ Piece(e) /\ ~(conv.suppress /\ e.kind = "reasoning")
            /\ conv.bridge /\ e.kind = "function" => e.type = "content.done"
            /\ ~(conv.bridge /\ e.type = "content.done" /\ e.at \in conv.held /\ e.at \notin conv.closed)
            /\ r = AnnounceFirst(conv, e)
  <2>1. CASE e.at \in conv.closed
    BY <1>2, <1>4, <1>11, <2>1, DropStep
  <2>2. CASE e.at \notin conv.closed
    BY <1>2, <1>4, <1>11, <2>2, AnnounceStep
  <2> QED BY <2>1, <2>2
<1>12. CASE /\ ~Piece(e) /\ ~(conv.suppress /\ e.kind = "reasoning")
            /\ ~(conv.bridge /\ UnsafeDone(conv, e))
            /\ ~(conv.bridge /\ e.type = "item.added" /\ e.kind = "function")
            /\ r = Passed(Record(conv, e), e)
  BY <1>2, <1>4, <1>12, PassStep
<1> QED BY <1>5, <1>6, <1>7, <1>8, <1>9, <1>10, <1>11, <1>12, Zenon

\* An event that is about no item is passed on, or nothing is sent.
LEMMA PlainStep ==
  ASSUME UpstreamOK, NativeOK, phase # "broken", pending = <<>>, conv' = conv,
         plan' = plan, sent' = sent, due' = due, items' = items, calls' = calls,
         \/ pending' = <<>>
         \/ \E f \in NativeEvents : pending' = <<f>> /\ f.kind = "none"
                                   /\ f.type \in {"created", "completed"}
  PROVE  NativeOK'
<1>1. /\ Indices' = Indices /\ ItemEvents' = ItemEvents /\ NativeEvents' = NativeEvents
      /\ \A i : KindOf(i)' = KindOf(i)
  BY DEF Indices, ItemEvents, NativeEvents, About, KindOf
<1>2. PendingOK'
  <2>1. CASE pending' = <<>>
    BY <2>1 DEF PendingOK
  <2>2. ASSUME NEW f \in NativeEvents, pending' = <<f>>, f.kind = "none",
               f.type \in {"created", "completed"}
        PROVE  PendingOK'
    <3>1. PendingOne(f)'
      BY <2>2 DEF PendingOne, Piece
    <3> QED BY <1>1, <2>2, <3>1, Zenon DEF PendingOK
  <2> QED BY <2>1, <2>2
<1>3. \A i : OpenSoon(i) => OpenSoon(i)'
  <2>1. \A i : ~Finished(i)'
    <3>1. CASE pending' = <<>>
      BY <3>1 DEF Finished
    <3>2. ASSUME NEW f, pending' = <<f>>, f.type \in {"created", "completed"}
          PROVE  \A i : ~Finished(i)'
      BY <3>2, OneOrTwo DEF Finished
    <3> QED BY <3>1, <3>2
  <2>2. \A i : OpenSoon(i) => IsOpen(i)
    BY DEF OpenSoon, Announced
  <2>3. \A i : IsOpen(i) => IsOpen(i)'
    BY DEF IsOpen
  <2> QED BY <2>1, <2>2, <2>3 DEF OpenSoon
<1>4. StartedOpen'
  BY <1>1, <1>3 DEF StartedOpen, NativeOK
<1>5. HeldOK'
  BY <1>1 DEF HeldOK, NativeOK
<1>6. conv.bridge => CallsHeld'
  BY <1>1 DEF CallsHeld, NativeOK
<1>7. conv.bridge => DueArrive'
  BY DEF DueArrive, Arriving, NativeOK
<1>8. Canonicalizer' = Canonicalizer
  BY <1>1 DEF Canonicalizer
<1> QED BY <1>1, <1>2, <1>4, <1>5, <1>6, <1>7, <1>8 DEF NativeOK

\* The start of an answer, its terminal event, and the end of its stream.
LEMMA NativePlainSteps ==
  ASSUME NativeInv, route = "native",
         FeedCreated \/ FeedCompleted \/ UpstreamEnds \/ FlushTransform
  PROVE  NativeOK'
<1>1. UpstreamOK /\ NativeOK /\ conv \in Canonicalizer
  BY DEF NativeInv, NativeOK
<1>2. CASE FeedCreated
  <2>1. Canonicalize(conv, Created) = Passed(conv, Created)
    BY DEF Canonicalize, HasItem, Created, InjectUsage
  <2>2. conv' = conv /\ pending' = <<Created>> /\ pending = <<>>
    BY <1>2, <2>1 DEF FeedCreated, Transform, Take, Passed
  <2>3. Created \in NativeEvents /\ Created.kind = "none" /\ Created.type = "created"
    BY DEF NativeEvents, Created
  <2> QED BY <1>1, <1>2, <2>2, <2>3, PlainStep DEF FeedCreated, upstream, client
<1>3. CASE FeedCompleted
  <2>1. PICK status \in Statuses : \E tokens \in BOOLEAN :
          Transform(Take(Completed(status, tokens)))
    BY <1>3 DEF FeedCompleted, Statuses
  <2>2. PICK tokens \in BOOLEAN : Transform(Take(Completed(status, tokens)))
    BY <2>1
  <2> DEFINE e == Completed(status, tokens)
             f == InjectUsage(conv, e)
  <2>3. Canonicalize(conv, e) = Passed(conv, f)
    BY DEF Canonicalize, HasItem, Completed
  <2>4. conv' = conv /\ pending' = <<f>> /\ pending = <<>>
    BY <2>2, <2>3 DEF Transform, Take, Passed
  <2>5. f \in NativeEvents /\ f.kind = "none" /\ f.type = "completed"
    <3>1. PICK t \in BOOLEAN : f = Completed(status, t)
      BY <1>1 DEF InjectUsage, Completed
    <3>2. Completed(status, t) \in {Completed(s, u) : s \in Statuses, u \in BOOLEAN}
      OBVIOUS
    <3>3. Completed(status, t).kind = "none" /\ Completed(status, t).type = "completed"
      BY DEF Completed
    <3>4. Completed(status, t) \in NativeEvents
      BY ONLY <3>2, SMT DEF NativeEvents
    <3> HIDE DEF f
    <3> QED BY <3>1, <3>3, <3>4, Zenon
  <2> HIDE DEF f, e
  <2>6. \E g \in NativeEvents : pending' = <<g>> /\ g.kind = "none"
                               /\ g.type \in {"created", "completed"}
    BY <2>4, <2>5
  <2>7. /\ plan' = plan /\ sent' = sent /\ due' = due /\ items' = items /\ calls' = calls
        /\ phase = "open"
    BY <1>3 DEF FeedCompleted, client
  <2> QED BY <1>1, <2>4, <2>6, <2>7, PlainStep
<1>4. CASE UpstreamEnds
  <2>1. /\ conv' = conv /\ plan' = plan /\ sent' = sent /\ due' = due /\ items' = items
        /\ calls' = calls /\ pending' = pending /\ phase \in {"open", "final"}
    BY <1>4 DEF UpstreamEnds, client
  <2>2. /\ Indices' = Indices /\ ItemEvents' = ItemEvents /\ NativeEvents' = NativeEvents
        /\ \A i : KindOf(i)' = KindOf(i)
    BY <2>1 DEF Indices, ItemEvents, NativeEvents, About, KindOf
  <2>3. PendingOK'
    BY <1>1, <2>1, <2>2 DEF NativeOK, PendingOK, PendingOne, PendingTwo, IsOpen
  <2>4. StartedOpen' /\ HeldOK'
    BY <1>1, <2>1, <2>2
    DEF NativeOK, StartedOpen, HeldOK, OpenSoon, IsOpen, Announced, Finished
  <2>5. conv.bridge => CallsHeld' /\ DueArrive'
    BY <1>1, <2>1, <2>2 DEF NativeOK, CallsHeld, DueArrive, Arriving
  <2>6. Canonicalizer' = Canonicalizer
    BY <2>2 DEF Canonicalizer
  <2> QED BY <1>1, <2>1, <2>2, <2>3, <2>4, <2>5, <2>6 DEF NativeOK
<1>5. CASE FlushTransform
  <2>1. conv' = conv /\ pending' = <<>> /\ pending = <<>>
    BY <1>5 DEF FlushTransform, Transform, Flushed, Dropped
  <2> QED BY <1>1, <1>5, <2>1, PlainStep DEF FlushTransform, client
<1> QED BY <1>2, <1>3, <1>4, <1>5

\* A stream that broke off sends nothing more.
LEMMA NativeBreakStep ==
  ASSUME NativeInv, route = "native", BreakStream
  PROVE  NativeOK'
<1>1. /\ UpstreamOK /\ NativeOK /\ conv' = conv /\ plan' = plan /\ items' = items
      /\ phase' = "broken" /\ pending' = <<>>
  BY DEF NativeInv, BreakStream, client
<1>2. Indices' = Indices
  BY <1>1 DEF Indices
<1>3. Canonicalizer' = Canonicalizer
  BY <1>2 DEF Canonicalizer
<1>4. PendingOK'
  BY <1>1 DEF PendingOK
<1> QED BY <1>1, <1>2, <1>3, <1>4 DEF NativeOK

\* The first event of one and of two.
LEMMA HeadTail ==
  ASSUME NEW x, NEW y
  PROVE  /\ Head(<<x>>) = x /\ Tail(<<x>>) = <<>> /\ <<x>> # <<>>
         /\ Head(<<x, y>>) = x /\ Tail(<<x, y>>) = <<y>> /\ <<x, y>> # <<>>
OBVIOUS

\* What a client of a native stream knows of the items after an event.
LEMMA NativeItemsAfter ==
  ASSUME route = "native", NEW e
  PROVE  /\ e.type \in {"created", "completed"} => ItemsAfter(e) = items
         /\ e.type = "item.added" => ItemsAfter(e) = Put(items, e.at, "open")
         /\ e.type = "item.done" => ItemsAfter(e) = Put(items, e.at, "closed")
         /\ e.type \in Range(Stages) \ {"item.added", "item.done"} => ItemsAfter(e) = items
<1>1. ASSUME e.type \in {"created", "completed"} PROVE ItemsAfter(e) = items
  BY <1>1 DEF ItemsAfter
<1>2. ASSUME e.type = "item.added" PROVE ItemsAfter(e) = Put(items, e.at, "open")
  <2> DEFINE stage == IF route = "native" THEN "open" ELSE "added"
  <2>1. stage = "open"
    OBVIOUS
  <2>2. ItemsAfter(e) = Put(items, e.at, stage)
    BY <1>2 DEF ItemsAfter
  <2> HIDE DEF stage
  <2> QED BY <2>1, <2>2
<1>3. ASSUME e.type = "item.done" PROVE ItemsAfter(e) = Put(items, e.at, "closed")
  BY <1>3 DEF ItemsAfter
<1>4. ASSUME e.type \in {"part.added", "delta", "content.done", "part.done"}
      PROVE  ItemsAfter(e) = items
  BY <1>4 DEF ItemsAfter
<1> QED BY <1>1, <1>2, <1>3, <1>4, StagesAre

\* The client of a native stream reads an event.
LEMMA NativeDeliverStep ==
  ASSUME NativeInv, route = "native", Deliver
  PROVE  NativeOK' /\ calls' \subseteq Indices
<1>1. /\ UpstreamOK /\ NativeOK /\ PendingOK /\ pending # <<>> /\ phase # "broken"
      /\ conv' = conv /\ plan' = plan /\ sent' = sent /\ due' = due /\ phase' = phase
      /\ pending' = Tail(pending) /\ calls \subseteq Indices
      /\ items' = ItemsAfter(Head(pending))
      /\ calls' = IF Head(pending).type = "content.done" /\ Head(pending).kind = "function"
                  THEN IF Head(pending).full THEN calls \cup {Head(pending).at} ELSE calls
                  ELSE calls
  BY DEF NativeInv, NativeOK, UpstreamOK, Deliver, upstream
<1>2. /\ Indices' = Indices /\ ItemEvents' = ItemEvents /\ NativeEvents' = NativeEvents
      /\ \A i : KindOf(i)' = KindOf(i)
  BY <1>1 DEF Indices, ItemEvents, NativeEvents, About, KindOf
<1>3. Canonicalizer' = Canonicalizer
  BY <1>2 DEF Canonicalizer
<1>4. ASSUME \A i : OpenSoon(i) => OpenSoon(i)', PendingOK',
             conv.bridge => \A i : Arriving(i) => i \in calls' \/ Arriving(i)',
             DOMAIN items' \subseteq Indices,
             \A i \in DOMAIN items' : items'[i] \in {"open", "closed"}
      PROVE  NativeOK'
  <2>1. StartedOpen'
    BY <1>1, <1>2, <1>4 DEF StartedOpen, NativeOK
  <2>2. HeldOK'
    BY <1>1, <1>2 DEF HeldOK, NativeOK
  <2>3. conv.bridge => CallsHeld'
    BY <1>1, <1>2 DEF CallsHeld, NativeOK
  <2>4. conv.bridge => DueArrive'
    BY <1>1, <1>4 DEF DueArrive, NativeOK
  <2> QED BY <1>1, <1>2, <1>3, <1>4, <2>1, <2>2, <2>3, <2>4 DEF NativeOK
<1>5. CASE \E e \in NativeEvents : PendingOne(e)
  <2>1. PICK e \in NativeEvents : PendingOne(e)
    BY <1>5
  <2>2. pending = <<e>> /\ pending' = <<>> /\ Head(pending) = e
    BY <1>1, <2>1, HeadTail DEF PendingOne
  <2>3. PendingOK'
    BY <2>2 DEF PendingOK
  <2>4. \A i : IsOpen(i)' => OpenSoon(i)'
    BY <2>2 DEF OpenSoon, Finished
  <2>5. CASE e \in ItemEvents
    <3>1. e.type \in Range(Stages) /\ e.at \in Indices /\ e.full \in BOOLEAN
      BY <1>1, <2>5, EventOf
    <3>2. CASE e.type = "item.added"
      <4>1. items' = Put(items, e.at, "open")
        BY <1>1, <2>2, <3>2, NativeItemsAfter
      <4>2. /\ DOMAIN items' \subseteq Indices
            /\ \A i \in DOMAIN items' : items'[i] \in {"open", "closed"}
        BY <1>1, <3>1, <4>1 DEF Put, NativeOK
      <4>3. \A i : OpenSoon(i) => IsOpen(i)'
        BY <2>2, <4>1, OneOrTwo DEF Put, IsOpen, OpenSoon, Announced
      <4>4. calls' = calls /\ \A i : ~Arriving(i)
        BY <1>1, <2>2, <3>2, OneOrTwo DEF Arriving
      <4> QED BY <1>1, <1>4, <2>3, <2>4, <4>2, <4>3, <4>4
    <3>3. CASE e.type = "item.done"
      <4>1. items' = Put(items, e.at, "closed")
        BY <1>1, <2>2, <3>3, NativeItemsAfter
      <4>2. /\ DOMAIN items' \subseteq Indices
            /\ \A i \in DOMAIN items' : items'[i] \in {"open", "closed"}
        BY <1>1, <3>1, <4>1 DEF Put, NativeOK
      <4>3. \A i : OpenSoon(i) => IsOpen(i)'
        <5> SUFFICES ASSUME NEW i, OpenSoon(i) PROVE IsOpen(i)'
          OBVIOUS
        <5>1. ~Announced(i)
          BY <2>2, <3>3, OneOrTwo DEF Announced
        <5>2. IsOpen(i) /\ i # e.at
          BY <2>2, <3>3, <5>1, OneOrTwo DEF OpenSoon, Finished
        <5> QED BY <4>1, <5>2 DEF Put, IsOpen
      <4>4. calls' = calls /\ \A i : ~Arriving(i)
        BY <1>1, <2>2, <3>3, OneOrTwo DEF Arriving
      <4> QED BY <1>1, <1>4, <2>3, <2>4, <4>2, <4>3, <4>4
    <3>4. CASE e.type \notin {"item.added", "item.done"}
      <4>1. items' = items
        BY <1>1, <2>2, <3>1, <3>4, NativeItemsAfter
      <4>2. \A i : OpenSoon(i) => IsOpen(i)'
        BY <2>2, <3>4, <4>1, OneOrTwo DEF IsOpen, OpenSoon, Announced
      <4>3. \A i : Arriving(i) => i \in calls'
        BY <1>1, <2>2, OneOrTwo DEF Arriving
      <4>4. calls' \subseteq Indices
        BY <1>1, <2>2, <3>1
      <4> QED BY <1>1, <1>4, <2>3, <2>4, <4>1, <4>2, <4>3, <4>4 DEF NativeOK
    <3> QED BY <3>2, <3>3, <3>4
  <2>6. CASE e \notin ItemEvents
    <3>1. e.type \in {"created", "completed"}
      BY <2>6 DEF NativeEvents, Created, Completed
    <3>2. items' = items /\ calls' = calls
      BY <1>1, <2>2, <3>1, NativeItemsAfter
    <3>3. \A i : OpenSoon(i) => IsOpen(i)'
      BY <2>2, <3>1, <3>2, OneOrTwo DEF IsOpen, OpenSoon, Announced
    <3>4. \A i : ~Arriving(i)
      BY <2>2, <3>1, OneOrTwo DEF Arriving
    <3> QED BY <1>1, <1>4, <2>3, <2>4, <3>2, <3>3, <3>4 DEF NativeOK
  <2> QED BY <2>5, <2>6
<1>6. CASE \E e \in ItemEvents : PendingTwo(e)
  <2>1. PICK e \in ItemEvents : PendingTwo(e)
    BY <1>6
  <2>2. pending = <<Added(e), e>> /\ pending' = <<e>> /\ Head(pending) = Added(e)
    BY <1>1, <2>1, HeadTail DEF PendingTwo
  <2>3. /\ e.at \in Indices /\ e.type \in {"delta", "content.done"}
        /\ Added(e).type = "item.added" /\ Added(e).at = e.at
    BY <1>1, <2>1, EventOf DEF PendingTwo, Piece, Added
  <2>4. items' = Put(items, e.at, "open") /\ calls' = calls
    BY <1>1, <2>2, <2>3, NativeItemsAfter
  <2>5. /\ DOMAIN items' \subseteq Indices
        /\ \A i \in DOMAIN items' : items'[i] \in {"open", "closed"}
    BY <1>1, <2>3, <2>4 DEF Put, NativeOK
  <2>6. PendingOK'
    <3>1. IsOpen(e.at)'
      BY <2>4 DEF IsOpen, Put
    <3>2. PendingOne(e)'
      BY <2>2, <2>3, <3>1 DEF PendingOne
    <3>3. e \in NativeEvents'
      BY <1>2, <2>1 DEF NativeEvents
    <3> QED BY <3>2, <3>3, Zenon DEF PendingOK
  <2>7. \A i : OpenSoon(i) => OpenSoon(i)'
    <3> SUFFICES ASSUME NEW i, OpenSoon(i) PROVE OpenSoon(i)'
      OBVIOUS
    <3>1. ~Finished(i)'
      BY <2>2, <2>3, OneOrTwo DEF Finished
    <3>2. IsOpen(i)'
      <4>1. CASE i = e.at
        BY <2>4, <4>1 DEF IsOpen, Put
      <4>2. CASE i # e.at
        <5>1. ~Announced(i)
          BY <2>2, <2>3, <4>2, OneOrTwo DEF Announced
        <5> QED BY <2>4, <5>1, <4>2 DEF OpenSoon, IsOpen, Put
      <4> QED BY <4>1, <4>2
    <3> QED BY <3>1, <3>2 DEF OpenSoon
  <2>8. \A i : Arriving(i) => Arriving(i)'
    BY <2>2, <2>3, OneOrTwo DEF Arriving
  <2> QED BY <1>1, <1>4, <2>4, <2>5, <2>6, <2>7, <2>8
<1> QED BY <1>1, <1>5, <1>6 DEF PendingOK

\* What the upstream has sent stays about the items of its plan.
LEMMA UpstreamStep ==
  ASSUME UpstreamOK, StreamNext, Deliver /\ route = "native" => calls' \subseteq Indices
  PROVE  UpstreamOK' /\ route' = route
<1>1. /\ phase \in Phases /\ plan \in Seq(Kinds) /\ sent \in [Indices -> SUBSET Range(Stages)]
      /\ due \subseteq Indices /\ calls \subseteq Indices
      /\ phase = "broken" => pending = <<>>
  BY DEF UpstreamOK
<1>2. /\ route' = route /\ plan' = plan
  BY DEF StreamNext, FeedChunk, FeedItem, FeedCreated, FeedCompleted, UpstreamEnds,
     FlushTransform, BreakStream, Deliver, upstream
<1>3. Indices' = Indices
  BY <1>2 DEF Indices
<1>4. phase' \in Phases /\ (phase' = "broken" => pending' = <<>>)
  <2>1. CASE FeedChunk \/ FeedItem \/ FeedCreated \/ FeedCompleted
    <3>1. phase' \in {"open", "final"}
      BY <2>1 DEF FeedChunk, FeedItem, FeedCreated, FeedCompleted, upstream
    <3> QED BY <3>1 DEF Phases
  <2>2. CASE UpstreamEnds \/ FlushTransform \/ BreakStream
    BY <2>2 DEF Phases, UpstreamEnds, FlushTransform, BreakStream
  <2>3. CASE Deliver
    <3>1. phase' = phase /\ pending # <<>>
      BY <2>3 DEF Deliver, upstream
    <3> QED BY <1>1, <3>1
  <2> QED BY <2>1, <2>2, <2>3 DEF StreamNext
<1>5. sent' \in [Indices -> SUBSET Range(Stages)] /\ due' \subseteq Indices
  <2>1. CASE FeedItem
    <3>1. PICK e \in ItemEvents :
            /\ sent' = IF Remembered(e) THEN [sent EXCEPT ![e.at] = @ \cup {e.type}] ELSE sent
            /\ due' = due \cup {e.at} \/ due' = due
      BY <2>1 DEF FeedItem
    <3>2. e.at \in Indices /\ e.type \in Range(Stages)
      BY EventOf
    <3> QED BY <1>1, <3>1, <3>2
  <2>2. CASE BreakStream
    <3>1. sent' = [i \in DOMAIN sent |-> {}] /\ due' = {}
      BY <2>2 DEF BreakStream
    <3> QED BY <1>1, <3>1
  <2>3. CASE ~FeedItem /\ ~BreakStream
    <3>1. sent' = sent /\ due' = due
      BY <2>3 DEF StreamNext, FeedChunk, FeedCreated, FeedCompleted, UpstreamEnds,
         FlushTransform, Deliver, upstream
    <3> QED BY <1>1, <3>1
  <2> QED BY <2>1, <2>2, <2>3
<1>6. calls' \subseteq Indices
  <2>1. CASE Deliver
    <3>1. CASE route = "native"
      BY <2>1, <3>1
    <3>2. CASE route # "native"
      BY <1>1, <2>1, <3>2 DEF Deliver
    <3> QED BY <3>1, <3>2
  <2>2. CASE ~Deliver
    <3>1. calls' = calls
      BY <2>2 DEF StreamNext, FeedChunk, FeedItem, FeedCreated, FeedCompleted, UpstreamEnds,
         FlushTransform, BreakStream, client
    <3> QED BY <1>1, <3>1
  <2> QED BY <2>1, <2>2
<1> QED BY <1>1, <1>2, <1>3, <1>4, <1>5, <1>6 DEF UpstreamOK

\* A stream begins with nothing sent.
LEMMA UpstreamBegins == StreamInit => UpstreamOK /\ pending = <<>> /\ items = <<>>
<1> SUFFICES ASSUME StreamInit PROVE UpstreamOK /\ pending = <<>> /\ items = <<>>
  OBVIOUS
<1>1. route \in {"fallback", "native", "bridge"} /\ plan \in Seq(Kinds)
  BY StreamAssumption DEF StreamInit, Kinds
<1>2. sent \in [Indices -> SUBSET Range(Stages)]
  BY DEF StreamInit, Indices
<1> QED BY <1>1, <1>2 DEF StreamInit, UpstreamOK, Phases

\* A native stream begins with nothing announced.
LEMMA NativeBegins == StreamInit => NativeInv
<1> SUFFICES ASSUME StreamInit, route = "native" PROVE NativeOK
  BY UpstreamBegins DEF NativeInv
<1>1. pending = <<>> /\ items = <<>> /\ due = {}
  BY DEF StreamInit
<1>2. PICK s \in BOOLEAN : \E b \in BOOLEAN : conv = NewCanonicalizer(s, b)
  BY DEF StreamInit
<1>3. PICK b \in BOOLEAN : conv = NewCanonicalizer(s, b)
  BY <1>2
<1>4. conv \in Canonicalizer
  BY <1>3 DEF NewCanonicalizer, Canonicalizer
<1>5. conv.started = {} /\ conv.held = {} /\ conv.argsDone = {}
  BY <1>3 DEF NewCanonicalizer
<1>6. StartedOpen /\ HeldOK /\ DueArrive
  BY <1>1, <1>5 DEF StartedOpen, HeldOK, DueArrive
<1>7. CallsHeld
  <2>1. \A i \in Indices : sent[i] = {}
    BY DEF StreamInit, Indices
  <2> QED BY <1>5, <2>1 DEF CallsHeld
<1>8. PendingOK /\ DOMAIN items = {}
  BY <1>1 DEF PendingOK
<1> QED BY <1>4, <1>6, <1>7, <1>8 DEF NativeOK

\* The invariant of a native stream: what the canonicalizer remembers agrees
\* with what the client has read or is about to read.
LEMMA NativeInvariant == StreamSpec => []NativeInv
<1>1. NativeInv /\ [StreamNext]_vars => NativeInv'
  <2> SUFFICES ASSUME NativeInv, [StreamNext]_vars PROVE NativeInv'
    OBVIOUS
  <2>1. CASE StreamNext
    <3>1. route = "native" => NativeOK' /\ (Deliver => calls' \subseteq Indices)
      <4> SUFFICES ASSUME route = "native"
                   PROVE  NativeOK' /\ (Deliver => calls' \subseteq Indices)
        OBVIOUS
      <4>1. ~FeedChunk
        BY DEF FeedChunk
      <4> QED BY <2>1, <4>1, NativeFeedStep, NativePlainSteps, NativeBreakStep,
                 NativeDeliverStep DEF StreamNext
    <3>2. UpstreamOK' /\ route' = route
      BY <2>1, <3>1, UpstreamStep DEF NativeInv
    <3> QED BY <3>1, <3>2 DEF NativeInv
  <2>2. CASE UNCHANGED vars
    BY <2>2 DEF vars, NativeInv, UpstreamOK, NativeOK, Indices, Canonicalizer, PendingOK,
       PendingOne, PendingTwo, IsOpen, NativeEvents, ItemEvents, About, StartedOpen, HeldOK,
       OpenSoon, Announced, Finished, KindOf, CallsHeld, DueArrive, Arriving
  <2> QED BY <2>1, <2>2
<1> QED BY <1>1, NativeBegins, PTL DEF StreamSpec

\* The client of a native stream never reads a piece of a call or of reasoning
\* whose item it does not know or has seen closed (AnnouncedFirst), whatever
\* order the events of the upstream come in.
THEOREM PiecesAreAnnounced == StreamSpec => []AnnouncedFirst
<1>1. NativeInv => AnnouncedFirst
  <2> SUFFICES ASSUME NativeInv, route = "native", pending # <<>>, Piece(Head(pending))
               PROVE  IsOpen(Head(pending).at)
    BY DEF AnnouncedFirst, Piece, IsOpen
  <2>1. CASE \E e \in NativeEvents : PendingOne(e)
    BY <2>1, HeadTail DEF PendingOne
  <2>2. CASE \E e \in ItemEvents : PendingTwo(e)
    <3>1. Head(pending).type = "item.added"
      BY <2>2, HeadTail DEF PendingTwo, Added
    <3> QED BY <3>1 DEF Piece
  <2> QED BY <2>1, <2>2 DEF NativeInv, NativeOK, PendingOK
<1> QED BY <1>1, NativeInvariant, PTL

\* sub2api reads the announcement of a call and its complete arguments back to
\* back (WholeCalls).
THEOREM CallsArriveWhole == StreamSpec => []WholeCalls
<1>1. NativeInv => WholeCalls
  <2> SUFFICES ASSUME NativeInv, route = "native", conv.bridge, NEW k \in DOMAIN pending,
                      pending[k].type = "item.added", pending[k].kind = "function"
               PROVE  /\ k < Len(pending)
                      /\ pending[k + 1].type = "content.done" /\ pending[k + 1].at = pending[k].at
    BY DEF WholeCalls
  <2>1. CASE pending = <<>>
    BY <2>1
  <2>2. CASE \E e \in NativeEvents : PendingOne(e)
    BY <2>2, OneOrTwo DEF PendingOne
  <2>3. CASE \E e \in ItemEvents : PendingTwo(e)
    <3>1. PICK e \in ItemEvents : PendingTwo(e)
      BY <2>3
    <3>2. /\ pending = <<Added(e), e>> /\ e.type \in {"delta", "content.done"}
          /\ Added(e).kind = e.kind /\ Added(e).at = e.at
      BY <3>1 DEF PendingTwo, Piece, Added
    <3>3. k = 1 /\ Len(pending) = 2 /\ pending[1] = Added(e) /\ pending[2] = e
      BY <3>2, OneOrTwo
    <3> QED BY <3>1, <3>2, <3>3 DEF PendingTwo
  <2> QED BY <2>1, <2>2, <2>3 DEF NativeInv, NativeOK, PendingOK
<1> QED BY <1>1, NativeInvariant, PTL

\* A call the upstream announced and finished with arguments reaches the client
\* behind sub2api, arguments included (FinishedCallsArrive).
THEOREM NoFinishedCallIsLost == StreamSpec => []FinishedCallsArrive
<1>1. NativeInv => FinishedCallsArrive
  BY DEF NativeInv, NativeOK, DueArrive, Arriving, FinishedCallsArrive
<1> QED BY <1>1, NativeInvariant, PTL

-----------------------------------------------------------------------------
(* A bridged stream.  What the client has read of its message is where it  *)
(* is in the message, the block that is open, and the index of the next.   *)
Modes == {"before", "within", "summed", "after"}
Readers == [mode : Modes, open : Int, next : Nat]

BlockEvents ==
  [type : {"message.start", "block.start", "block.delta", "block.stop", "message.delta",
           "message.stop"},
   at   : Int,
   kind : {"none", "error", "max_tokens", "tool_use", "end_turn"}]

\* A reader in p may read e, and is in q then.
Reads(p, e, q) ==
  \/ /\ e.type = "message.start" /\ p.mode = "before"
     /\ q = [p EXCEPT !.mode = "within"]
  \/ /\ e.type = "block.start" /\ p.mode = "within" /\ p.open = NoBlock /\ e.at = p.next
     /\ q = [mode |-> "within", open |-> e.at, next |-> e.at + 1]
  \/ /\ e.type = "block.delta" /\ p.mode = "within" /\ p.open # NoBlock /\ e.at = p.open
     /\ q = p
  \/ /\ e.type = "block.stop" /\ p.mode = "within" /\ p.open # NoBlock /\ e.at = p.open
     /\ q = [p EXCEPT !.open = NoBlock]
  \/ /\ e.type = "message.delta" /\ p.mode = "within" /\ p.open = NoBlock
     /\ q = [p EXCEPT !.mode = "summed"]
  \/ /\ e.type = "message.stop" /\ p.mode = "summed"
     /\ q = [p EXCEPT !.mode = "after"]

\* The events of out, read one after the other, lead a reader from p to q.
Leads(p, out, q) ==
  \E tr \in [0..Len(out) -> Readers] :
    /\ tr[0] = p /\ tr[Len(out)] = q
    /\ \A k \in 1..Len(out) : Reads(tr[k - 1], out[k], tr[k])

\* Nothing leads nowhere.
LEMMA LeadsNowhere == \A p \in Readers : Leads(p, <<>>, p)
<1> SUFFICES ASSUME NEW p \in Readers PROVE Leads(p, <<>>, p)
  OBVIOUS
<1> DEFINE tr == [k \in 0..0 |-> p]
<1>1. Len(<<>>) = 0 /\ tr \in [0..Len(<<>>) -> Readers] /\ tr[0] = p
  OBVIOUS
<1>2. 1..Len(<<>>) = {}
  OBVIOUS
<1> QED BY <1>1, <1>2 DEF Leads

\* One event more.
LEMMA LeadsFurther ==
  ASSUME NEW p, NEW q, NEW r \in Readers, NEW out \in Seq(BlockEvents),
         NEW e \in BlockEvents, Leads(p, out, q), Reads(q, e, r)
  PROVE  Leads(p, Append(out, e), r) /\ Append(out, e) \in Seq(BlockEvents)
<1> DEFINE n == Len(out)
           more == Append(out, e)
<1>1. n \in Nat /\ more \in Seq(BlockEvents) /\ Len(more) = n + 1 /\ more[n + 1] = e
      /\ \A k \in 1..n : more[k] = out[k]
  BY LenProperties, AppendProperties
<1>2. PICK tr \in [0..n -> Readers] :
        /\ tr[0] = p /\ tr[n] = q
        /\ \A k \in 1..n : Reads(tr[k - 1], out[k], tr[k])
  BY DEF Leads
<1> HIDE DEF n, more
<1> DEFINE ts == [k \in 0..(n + 1) |-> IF k = n + 1 THEN r ELSE tr[k]]
<1>3. ts \in [0..Len(more) -> Readers] /\ ts[0] = p /\ ts[Len(more)] = r
  BY <1>1, <1>2
<1>4. \A k \in 1..Len(more) : Reads(ts[k - 1], more[k], ts[k])
  <2> SUFFICES ASSUME NEW k \in 1..(n + 1) PROVE Reads(ts[k - 1], more[k], ts[k])
    BY <1>1
  <2>1. CASE k = n + 1
    <3>1. ts[k - 1] = q /\ ts[k] = r /\ more[k] = e
      BY <1>1, <1>2, <2>1
    <3> QED BY <3>1
  <2>2. CASE k # n + 1
    <3>1. ts[k - 1] = tr[k - 1] /\ ts[k] = tr[k] /\ more[k] = out[k] /\ k \in 1..n
      BY <1>1, <2>2
    <3> QED BY <1>2, <3>1
  <2> QED BY <2>1, <2>2
<1> HIDE DEF ts
<1>5. Leads(p, more, r)
  BY <1>3, <1>4 DEF Leads
<1> QED BY <1>1, <1>5 DEF more

\* The first event is read.
LEMMA LeadsOn ==
  ASSUME NEW p, NEW q, NEW out \in Seq(BlockEvents), out # <<>>, Leads(p, out, q)
  PROVE  \E r \in Readers : Reads(p, Head(out), r) /\ Leads(r, Tail(out), q)
<1> DEFINE n == Len(out)
           rest == Tail(out)
<1>1. n \in Nat /\ n > 0 /\ Len(rest) = n - 1 /\ Head(out) = out[1]
      /\ \A k \in 1..(n - 1) : rest[k] = out[k + 1]
  BY LenProperties, HeadTailProperties
<1>2. PICK tr \in [0..n -> Readers] :
        /\ tr[0] = p /\ tr[n] = q
        /\ \A k \in 1..n : Reads(tr[k - 1], out[k], tr[k])
  BY DEF Leads
<1> HIDE DEF n, rest
<1> DEFINE ts == [k \in 0..(n - 1) |-> tr[k + 1]]
<1>3. ts \in [0..Len(rest) -> Readers] /\ ts[0] = tr[1] /\ ts[Len(rest)] = q
  BY <1>1, <1>2
<1>4. \A k \in 1..Len(rest) : Reads(ts[k - 1], rest[k], ts[k])
  <2> SUFFICES ASSUME NEW k \in 1..(n - 1) PROVE Reads(ts[k - 1], rest[k], ts[k])
    BY <1>1
  <2>1. ts[k - 1] = tr[k] /\ ts[k] = tr[k + 1] /\ rest[k] = out[k + 1]
    BY <1>1
  <2>2. k + 1 \in 1..n /\ (k + 1) - 1 = k
    BY <1>1
  <2>3. Reads(tr[(k + 1) - 1], out[k + 1], tr[k + 1])
    BY <1>2, <2>2
  <2> QED BY <2>1, <2>2, <2>3
<1>5. Reads(p, Head(out), tr[1]) /\ tr[1] \in Readers
  <2>1. Reads(tr[1 - 1], out[1], tr[1])
    BY <1>1, <1>2
  <2>2. 1 - 1 = 0
    OBVIOUS
  <2> QED BY <1>1, <1>2, <2>1, <2>2
<1> HIDE DEF ts
<1>6. Leads(tr[1], rest, q)
  BY <1>3, <1>4 DEF Leads
<1> QED BY <1>5, <1>6 DEF rest

\* The adapter as a reader who has read all it wrote would see it.
Mode(c) == IF c.stopped THEN "after" ELSE IF c.started THEN "within" ELSE "before"
Seen(c) == [mode |-> Mode(c), open |-> c.open, next |-> c.next]

AdapterOK(c) ==
  /\ c = [started |-> c.started, stopped |-> c.stopped, open |-> c.open, text |-> c.text,
          next |-> c.next, blockOf |-> c.blockOf, spoke |-> c.spoke, tool |-> c.tool]
  /\ c.open \in Int /\ c.next \in Nat
  /\ c.open # NoBlock => Mode(c) = "within"
  /\ c.text => c.open # NoBlock

\* What a step of the adapter has written so far can be read from p on.
InStep(p, s) ==
  /\ s = [c |-> s.c, out |-> s.out] /\ AdapterOK(s.c)
  /\ s.out \in Seq(BlockEvents)
  /\ Leads(p, s.out, Seen(s.c))

\* Where an adapter is seen is a place a reader can be in.
LEMMA SeenIsReader == ASSUME NEW c, AdapterOK(c) PROVE Seen(c) \in Readers
BY DEF AdapterOK, Seen, Readers, Modes, Mode

\* One more event of a step.
LEMMA WriteOne ==
  ASSUME NEW p, NEW q, NEW u, NEW e \in BlockEvents,
         u = [c |-> u.c, out |-> u.out], u.out \in Seq(BlockEvents), Leads(p, u.out, q),
         AdapterOK(u.c), Reads(q, e, Seen(u.c)), NEW t, t = Write(u, <<e>>)
  PROVE  InStep(p, t) /\ t.c = u.c
<1>1. u.out \o <<e>> = Append(u.out, e)
  OBVIOUS
<1>2. t = [c |-> u.c, out |-> Append(u.out, e)]
  BY <1>1 DEF Write
<1>3. /\ Leads(p, Append(u.out, e), Seen(u.c)) /\ Append(u.out, e) \in Seq(BlockEvents)
  BY SeenIsReader, LeadsFurther
<1>4. t.c = u.c /\ t.out = Append(u.out, e)
  BY <1>2
<1> QED BY <1>2, <1>3, <1>4 DEF InStep

\* The message is begun before anything else is written.
LEMMA EnsureStartOK ==
  ASSUME NEW p, NEW s, InStep(p, s), Mode(s.c) # "after", NEW t, t = EnsureStart(s)
  PROVE  /\ InStep(p, t) /\ Mode(t.c) = "within"
         /\ t.c.open = s.c.open /\ t.c.next = s.c.next /\ t.c.blockOf = s.c.blockOf
<1>1. CASE s.c.started
  BY <1>1 DEF EnsureStart, Mode
<1>2. CASE ~s.c.started
  <2> DEFINE e == Message("message.start", "none")
  <2>1. PICK u : u = [s EXCEPT !.c.started = TRUE]
    OBVIOUS
  <2>2. t = Write(u, <<e>>)
    BY <1>2, <2>1 DEF EnsureStart
  <2>3. e \in BlockEvents /\ e.type = "message.start"
    BY DEF Message, BlockEvents, NoBlock
  <2> HIDE DEF e
  <2>5. u = [c |-> u.c, out |-> s.out] /\ u.c = [s.c EXCEPT !.started = TRUE]
    BY <2>1 DEF InStep
  <2>6. Mode(s.c) = "before" /\ ~s.c.stopped /\ s.c.open = NoBlock
    BY <1>2 DEF Mode, InStep, AdapterOK
  <2>7. /\ u.c.started /\ u.c.stopped = s.c.stopped /\ u.c.open = s.c.open
        /\ u.c.text = s.c.text /\ u.c.next = s.c.next /\ u.c.blockOf = s.c.blockOf
        /\ u.c = [started |-> u.c.started, stopped |-> u.c.stopped, open |-> u.c.open,
                  text |-> u.c.text, next |-> u.c.next, blockOf |-> u.c.blockOf,
                  spoke |-> u.c.spoke, tool |-> u.c.tool]
    BY <2>5 DEF InStep, AdapterOK
  <2>8. Mode(u.c) = "within"
    BY <2>6, <2>7 DEF Mode
  <2>9. AdapterOK(u.c)
    BY <2>7, <2>8 DEF InStep, AdapterOK
  <2>10. Reads(Seen(s.c), e, Seen(u.c))
    BY <2>3, <2>6, <2>7, <2>8 DEF Reads, Seen
  <2>11. InStep(p, t) /\ t.c = u.c
    <3>1. u = [c |-> u.c, out |-> u.out] /\ u.out \in Seq(BlockEvents) /\ Leads(p, u.out, Seen(s.c))
      BY <2>5 DEF InStep
    <3> QED BY <2>2, <2>3, <2>9, <2>10, <3>1, WriteOne
  <2> QED BY <2>7, <2>8, <2>11
<1> QED BY <1>1, <1>2

\* The block that is open is closed.
LEMMA CloseBlockOK ==
  ASSUME NEW p, NEW s, InStep(p, s), NEW t, t = CloseBlock(s)
  PROVE  /\ InStep(p, t) /\ Mode(t.c) = Mode(s.c)
         /\ t.c.open = NoBlock /\ t.c.next = s.c.next /\ t.c.blockOf = s.c.blockOf
<1>1. CASE s.c.open = NoBlock
  BY <1>1 DEF CloseBlock
<1>2. CASE s.c.open # NoBlock
  <2> DEFINE e == Block("block.stop", s.c.open)
  <2>1. PICK u : u = [s EXCEPT !.c.open = NoBlock, !.c.text = FALSE]
    OBVIOUS
  <2>2. t = Write(u, <<e>>)
    BY <1>2, <2>1 DEF CloseBlock
  <2>3. e \in BlockEvents /\ e.type = "block.stop" /\ e.at = s.c.open
    BY DEF Block, BlockEvents, InStep, AdapterOK
  <2> HIDE DEF e
  <2>4. Mode(s.c) = "within"
    BY <1>2 DEF InStep, AdapterOK
  <2>5. u = [c |-> u.c, out |-> s.out] /\ u.c = [s.c EXCEPT !.open = NoBlock, !.text = FALSE]
    BY <2>1 DEF InStep
  <2>6. /\ u.c.started = s.c.started /\ u.c.stopped = s.c.stopped /\ u.c.open = NoBlock
        /\ ~u.c.text /\ u.c.next = s.c.next /\ u.c.blockOf = s.c.blockOf
        /\ u.c = [started |-> u.c.started, stopped |-> u.c.stopped, open |-> u.c.open,
                  text |-> u.c.text, next |-> u.c.next, blockOf |-> u.c.blockOf,
                  spoke |-> u.c.spoke, tool |-> u.c.tool]
    BY <2>5 DEF InStep, AdapterOK
  <2>7. Mode(u.c) = Mode(s.c)
    BY <2>6 DEF Mode
  <2>8. AdapterOK(u.c)
    BY <2>6 DEF InStep, AdapterOK, NoBlock
  <2>9. Reads(Seen(s.c), e, Seen(u.c))
    BY <1>2, <2>3, <2>4, <2>6, <2>7 DEF Reads, Seen
  <2>10. InStep(p, t) /\ t.c = u.c
    <3>1. u = [c |-> u.c, out |-> u.out] /\ u.out \in Seq(BlockEvents) /\ Leads(p, u.out, Seen(s.c))
      BY <2>5 DEF InStep
    <3> QED BY <2>2, <2>3, <2>8, <2>9, <3>1, WriteOne
  <2> QED BY <2>6, <2>7, <2>10
<1> QED BY <1>1, <1>2

\* A block is started for item i, and no other is open.
LEMMA StartBlockOK ==
  ASSUME NEW p, NEW s, InStep(p, s), Mode(s.c) # "after", NEW i, NEW text,
         NEW t, t = StartBlock(s, i, text)
  PROVE  /\ InStep(p, t) /\ Mode(t.c) = "within"
         /\ t.c.open = s.c.next /\ t.c.open # NoBlock
         /\ t.c.blockOf = [x \in DOMAIN s.c.blockOf \cup {i} |->
                             IF x = i THEN s.c.next ELSE s.c.blockOf[x]]
<1>1. PICK r : r = EnsureStart(s)
  OBVIOUS
<1>2. /\ InStep(p, r) /\ Mode(r.c) = "within"
      /\ r.c.open = s.c.open /\ r.c.next = s.c.next /\ r.c.blockOf = s.c.blockOf
  BY <1>1, EnsureStartOK
<1>3. PICK v : v = CloseBlock(r)
  OBVIOUS
<1>4. /\ InStep(p, v) /\ Mode(v.c) = "within"
      /\ v.c.open = NoBlock /\ v.c.next = s.c.next /\ v.c.blockOf = s.c.blockOf
  BY <1>2, <1>3, CloseBlockOK
<1> DEFINE b == v.c.next
           e == Block("block.start", b)
           blockOf == [x \in DOMAIN v.c.blockOf \cup {i} |-> IF x = i THEN b ELSE v.c.blockOf[x]]
<1>5. PICK u : u = [v EXCEPT !.c.next = b + 1, !.c.open = b, !.c.text = text,
                             !.c.blockOf = [x \in DOMAIN @ \cup {i} |->
                                              IF x = i THEN b ELSE @[x]]]
  OBVIOUS
<1>6. t = Write(u, <<e>>)
  BY <1>1, <1>3, <1>5 DEF StartBlock
<1>7. e \in BlockEvents /\ e.type = "block.start" /\ e.at = b /\ b \in Nat
  BY <1>4 DEF Block, BlockEvents, InStep, AdapterOK
<1> HIDE DEF e
<1>8. u = [c |-> u.c, out |-> v.out]
      /\ u.c = [v.c EXCEPT !.next = b + 1, !.open = b, !.text = text, !.blockOf = blockOf]
  BY <1>4, <1>5 DEF InStep, AdapterOK
<1> HIDE DEF blockOf
<1>9. /\ u.c.started = v.c.started /\ u.c.stopped = v.c.stopped /\ u.c.open = b
      /\ u.c.next = b + 1 /\ u.c.blockOf = blockOf
      /\ u.c = [started |-> u.c.started, stopped |-> u.c.stopped, open |-> u.c.open,
                text |-> u.c.text, next |-> u.c.next, blockOf |-> u.c.blockOf,
                spoke |-> u.c.spoke, tool |-> u.c.tool]
  BY <1>4, <1>8 DEF InStep, AdapterOK
<1>10. Mode(u.c) = "within" /\ b # NoBlock
  BY <1>4, <1>7, <1>9 DEF Mode, NoBlock
<1>11. AdapterOK(u.c)
  BY <1>7, <1>9, <1>10 DEF AdapterOK
<1>12. Reads(Seen(v.c), e, Seen(u.c))
  <2> HIDE DEF b
  <2>1. Seen(v.c) = [mode |-> "within", open |-> NoBlock, next |-> b]
    BY <1>4 DEF Seen, b
  <2>2. Seen(u.c) = [mode |-> "within", open |-> b, next |-> b + 1]
    BY <1>9, <1>10 DEF Seen
  <2>3. b \in Nat /\ e.type = "block.start" /\ e.at = b
    BY <1>7
  <2> QED BY ONLY <2>1, <2>2, <2>3, SMT DEF Reads
<1>13. InStep(p, t) /\ t.c = u.c
  <2>1. u = [c |-> u.c, out |-> u.out] /\ u.out \in Seq(BlockEvents) /\ Leads(p, u.out, Seen(v.c))
    BY <1>4, <1>8 DEF InStep
  <2> QED BY <1>6, <1>7, <1>11, <1>12, <2>1, WriteOne
<1>14. blockOf = [x \in DOMAIN s.c.blockOf \cup {i} |->
                    IF x = i THEN s.c.next ELSE s.c.blockOf[x]]
  BY <1>4 DEF blockOf
<1> QED BY <1>4, <1>9, <1>10, <1>13, <1>14

\* Something is written into the block that is open.
LEMMA WriteDeltaOK ==
  ASSUME NEW p, NEW s, InStep(p, s), s.c.open # NoBlock,
         NEW t, t = Write(s, <<Block("block.delta", s.c.open)>>)
  PROVE  InStep(p, t) /\ t.c = s.c
<1> DEFINE e == Block("block.delta", s.c.open)
<1>1. e \in BlockEvents /\ e.type = "block.delta" /\ e.at = s.c.open
  BY DEF Block, BlockEvents, InStep, AdapterOK
<1> HIDE DEF e
<1>2. Mode(s.c) = "within"
  BY DEF InStep, AdapterOK
<1>3. Reads(Seen(s.c), e, Seen(s.c))
  BY <1>1, <1>2 DEF Reads, Seen
<1>4. /\ s = [c |-> s.c, out |-> s.out] /\ s.out \in Seq(BlockEvents)
      /\ Leads(p, s.out, Seen(s.c)) /\ AdapterOK(s.c)
  BY DEF InStep
<1>5. t = Write(s, <<e>>)
  BY DEF e
<1> QED BY <1>1, <1>3, <1>4, <1>5, WriteOne

\* What a step notes besides does not show in what it writes.
LEMMA NoteOK ==
  ASSUME NEW p, NEW s, InStep(p, s), NEW u,
         \/ u = [s EXCEPT !.c.tool = TRUE]
         \/ \E i : u = [s EXCEPT !.c.spoke = @ \cup {i}]
  PROVE  /\ InStep(p, u) /\ Mode(u.c) = Mode(s.c) /\ u.out = s.out
         /\ u.c.open = s.c.open /\ u.c.next = s.c.next /\ u.c.blockOf = s.c.blockOf
<1>1. /\ u = [c |-> u.c, out |-> s.out]
      /\ u.c = [started |-> s.c.started, stopped |-> s.c.stopped, open |-> s.c.open,
                text |-> s.c.text, next |-> s.c.next, blockOf |-> s.c.blockOf,
                spoke |-> u.c.spoke, tool |-> u.c.tool]
  BY DEF InStep, AdapterOK
<1>2. /\ u.c.started = s.c.started /\ u.c.stopped = s.c.stopped /\ u.c.open = s.c.open
      /\ u.c.text = s.c.text /\ u.c.next = s.c.next /\ u.c.blockOf = s.c.blockOf
      /\ u.c = [started |-> u.c.started, stopped |-> u.c.stopped, open |-> u.c.open,
                text |-> u.c.text, next |-> u.c.next, blockOf |-> u.c.blockOf,
                spoke |-> u.c.spoke, tool |-> u.c.tool]
  BY <1>1
<1>3. Mode(u.c) = Mode(s.c) /\ Seen(u.c) = Seen(s.c)
  BY <1>2 DEF Mode, Seen
<1>4. AdapterOK(u.c)
  BY <1>2, <1>3 DEF InStep, AdapterOK
<1> QED BY <1>1, <1>2, <1>3, <1>4 DEF InStep

\* A message is closed once: its last block, the summary and the stop.
LEMMA FinalEventsOK ==
  ASSUME NEW p, NEW s, InStep(p, s), NEW status, NEW t, t = FinalEvents(s, status)
  PROVE  InStep(p, t) /\ t.c.blockOf = s.c.blockOf
<1>1. CASE s.c.stopped
  BY <1>1 DEF FinalEvents
<1>2. CASE ~s.c.stopped
  <2>1. PICK r : r = EnsureStart(s)
    OBVIOUS
  <2>2. InStep(p, r) /\ Mode(r.c) = "within" /\ r.c.blockOf = s.c.blockOf
    <3>1. Mode(s.c) # "after"
      BY <1>2 DEF Mode
    <3> QED BY <2>1, <3>1, EnsureStartOK
  <2>3. PICK v : v = CloseBlock(r)
    OBVIOUS
  <2>4. /\ InStep(p, v) /\ Mode(v.c) = "within" /\ v.c.open = NoBlock
        /\ v.c.blockOf = s.c.blockOf
    BY <2>2, <2>3, CloseBlockOK
  <2> DEFINE d == Message("message.delta", StopReason(v.c, status))
             e == Message("message.stop", "none")
             n == v.c.next
  <2>5. PICK u : u = [v EXCEPT !.c.stopped = TRUE]
    OBVIOUS
  <2>6. t = Write(u, <<d, e>>)
    BY <1>2, <2>1, <2>3, <2>5 DEF FinalEvents
  <2>7. /\ d \in BlockEvents /\ d.type = "message.delta"
        /\ e \in BlockEvents /\ e.type = "message.stop"
    BY DEF Message, BlockEvents, NoBlock, StopReason
  <2> HIDE DEF d, e
  <2>8. u = [c |-> u.c, out |-> v.out] /\ u.c = [v.c EXCEPT !.stopped = TRUE]
    BY <2>4, <2>5 DEF InStep
  <2>9. /\ u.c.started = v.c.started /\ u.c.stopped /\ u.c.open = NoBlock
        /\ u.c.text = v.c.text /\ u.c.next = n /\ u.c.blockOf = v.c.blockOf
        /\ u.c = [started |-> u.c.started, stopped |-> u.c.stopped, open |-> u.c.open,
                  text |-> u.c.text, next |-> u.c.next, blockOf |-> u.c.blockOf,
                  spoke |-> u.c.spoke, tool |-> u.c.tool]
    BY <2>4, <2>8 DEF InStep, AdapterOK
  <2>10. ~v.c.text /\ n \in Nat
    BY <2>4 DEF InStep, AdapterOK
  <2>11. AdapterOK(u.c)
    BY <2>9, <2>10 DEF AdapterOK, NoBlock
  <2> DEFINE x == [mode |-> "within", open |-> NoBlock, next |-> n]
             y == [mode |-> "summed", open |-> NoBlock, next |-> n]
             z == [mode |-> "after", open |-> NoBlock, next |-> n]
  <2>12. Seen(v.c) = x /\ Seen(u.c) = z
    BY <2>4, <2>9 DEF Seen, Mode
  <2>13. y \in Readers /\ z \in Readers
    BY <2>10 DEF Readers, Modes, NoBlock
  <2> HIDE DEF n
  <2>14. Reads(x, d, y) /\ Reads(y, e, z)
    BY <2>7 DEF Reads
  <2> HIDE DEF x, y, z
  <2>15. v.out \in Seq(BlockEvents) /\ Leads(p, v.out, x)
    BY <2>4, <2>12 DEF InStep
  <2>16. Leads(p, Append(v.out, d), y) /\ Append(v.out, d) \in Seq(BlockEvents)
    BY <2>7, <2>13, <2>14, <2>15, LeadsFurther
  <2>17. /\ Leads(p, Append(Append(v.out, d), e), z)
         /\ Append(Append(v.out, d), e) \in Seq(BlockEvents)
    BY <2>7, <2>13, <2>14, <2>16, LeadsFurther
  <2>18. v.out \o <<d, e>> = Append(Append(v.out, d), e)
    BY <2>7, <2>15
  <2>19. t = [c |-> u.c, out |-> v.out \o <<d, e>>]
    <3> DEFINE w == v.out \o <<d, e>>
    <3>1. u = [c |-> u.c, out |-> v.out]
      BY <2>8
    <3>2. u.out = v.out
      BY <3>1
    <3>3. t = [u EXCEPT !.out = w]
      BY <2>6, <3>2 DEF Write
    <3> HIDE DEF w
    <3>4. t = [c |-> u.c, out |-> w]
      BY ONLY <3>1, <3>3
    <3> QED BY <3>4 DEF w
  <2>20. t.c = u.c /\ t.out = Append(Append(v.out, d), e) /\ t = [c |-> t.c, out |-> t.out]
    BY <2>18, <2>19
  <2> QED BY <2>4, <2>9, <2>11, <2>12, <2>17, <2>20 DEF InStep
<1> QED BY <1>1, <1>2

\* The blocks of the items, before and after a step for item i.
BlocksOK(c) == \A x \in DOMAIN c.blockOf : c.blockOf[x] \in Nat

AtMostFor(c, i, d) == BlocksOK(d) /\ DOMAIN d.blockOf \subseteq DOMAIN c.blockOf \cup {i}

\* What a step for item i of a message that goes on writes and leaves.
ItemStep(s, i, t) ==
  /\ InStep(Seen(s.c), t) /\ Mode(t.c) # "after"
  /\ AtMostFor(s.c, i, t.c)

\* The block of item i is the one that is open.
OpenFor(c, i) == i \in DOMAIN c.blockOf => c.open = c.blockOf[i]

\* A block is started: it is the one of item i.
LEMMA StartedBlock ==
  ASSUME NEW p, NEW s, InStep(p, s), Mode(s.c) # "after", BlocksOK(s.c), NEW i, NEW text,
         NEW t, t = StartBlock(s, i, text)
  PROVE  /\ InStep(p, t) /\ Mode(t.c) = "within" /\ AtMostFor(s.c, i, t.c)
         /\ i \in DOMAIN t.c.blockOf /\ t.c.open = t.c.blockOf[i] /\ t.c.open # NoBlock
<1>1. /\ InStep(p, t) /\ Mode(t.c) = "within"
      /\ t.c.open = s.c.next /\ t.c.open # NoBlock
      /\ t.c.blockOf = [x \in DOMAIN s.c.blockOf \cup {i} |->
                          IF x = i THEN s.c.next ELSE s.c.blockOf[x]]
  BY StartBlockOK
<1>2. s.c.next \in Nat
  BY DEF InStep, AdapterOK
<1> QED BY <1>1, <1>2 DEF AtMostFor, BlocksOK

\* The block of a call is started.
LEMMA StartedTool ==
  ASSUME NEW p, NEW s, InStep(p, s), Mode(s.c) # "after", BlocksOK(s.c), NEW i,
         NEW t, t = StartTool(s, i)
  PROVE  /\ InStep(p, t) /\ Mode(t.c) = "within" /\ AtMostFor(s.c, i, t.c)
         /\ i \in DOMAIN t.c.blockOf /\ t.c.open = t.c.blockOf[i] /\ t.c.open # NoBlock
<1>1. PICK u : u = [s EXCEPT !.c.tool = TRUE]
  OBVIOUS
<1>2. /\ InStep(p, u) /\ Mode(u.c) = Mode(s.c) /\ u.c.blockOf = s.c.blockOf
  BY <1>1, NoteOK
<1>3. PICK text : t = StartBlock(u, i, text)
  BY <1>1, Zenon DEF StartTool
<1>4. BlocksOK(u.c)
  BY <1>2 DEF BlocksOK
<1>5. /\ InStep(p, t) /\ Mode(t.c) = "within" /\ AtMostFor(u.c, i, t.c)
      /\ i \in DOMAIN t.c.blockOf /\ t.c.open = t.c.blockOf[i] /\ t.c.open # NoBlock
  BY <1>2, <1>3, <1>4, StartedBlock
<1> QED BY <1>2, <1>5 DEF AtMostFor

\* A piece of a text.
LEMMA TextDeltaOK ==
  ASSUME NEW p, NEW s, InStep(p, s), Mode(s.c) # "after", BlocksOK(s.c), NEW i,
         NEW t, t = TextDelta(s, i)
  PROVE  InStep(p, t) /\ Mode(t.c) # "after" /\ AtMostFor(s.c, i, t.c)
<1>1. PICK u : u = IF s.c.text THEN s ELSE StartBlock(s, i, TRUE)
  OBVIOUS
<1>2. t = Write(u, <<Block("block.delta", u.c.open)>>)
  BY <1>1 DEF TextDelta
<1>3. InStep(p, u) /\ Mode(u.c) # "after" /\ AtMostFor(s.c, i, u.c) /\ u.c.open # NoBlock
  <2>1. CASE s.c.text
    BY <1>1, <2>1 DEF InStep, AdapterOK, AtMostFor
  <2>2. CASE ~s.c.text
    <3>1. PICK text : u = StartBlock(s, i, text)
      BY <1>1, <2>2, Zenon
    <3> QED BY <3>1, StartedBlock
  <2> QED BY <2>1, <2>2
<1>4. InStep(p, t) /\ t.c = u.c
  BY <1>2, <1>3, WriteDeltaOK
<1> QED BY <1>3, <1>4

\* A piece of the arguments of a call: its block is open, or is started.
LEMMA ArgumentsDeltaOK ==
  ASSUME NEW p, NEW s, InStep(p, s), Mode(s.c) # "after", BlocksOK(s.c), NEW i,
         OpenFor(s.c, i), NEW t, t = ArgumentsDelta(s, i)
  PROVE  /\ InStep(p, t) /\ Mode(t.c) # "after" /\ AtMostFor(s.c, i, t.c)
         /\ OpenFor(t.c, i)
<1>1. PICK r : r = IF i \in DOMAIN s.c.blockOf THEN s ELSE StartTool(s, i)
  OBVIOUS
<1>2. /\ InStep(p, r) /\ Mode(r.c) # "after" /\ AtMostFor(s.c, i, r.c)
      /\ i \in DOMAIN r.c.blockOf /\ r.c.open = r.c.blockOf[i] /\ r.c.open # NoBlock
  <2>1. CASE i \in DOMAIN s.c.blockOf
    <3>1. r = s
      BY <1>1, <2>1
    <3>2. s.c.open = s.c.blockOf[i] /\ s.c.blockOf[i] \in Nat
      BY <2>1 DEF OpenFor, BlocksOK
    <3> QED BY <2>1, <3>1, <3>2 DEF AtMostFor, NoBlock
  <2>2. CASE i \notin DOMAIN s.c.blockOf
    <3>1. r = StartTool(s, i)
      BY <1>1, <2>2
    <3> QED BY <3>1, StartedTool
  <2> QED BY <2>1, <2>2
<1>3. PICK u : u = [r EXCEPT !.c.spoke = @ \cup {i}]
  OBVIOUS
<1>4. /\ InStep(p, u) /\ Mode(u.c) = Mode(r.c)
      /\ u.c.open = r.c.open /\ u.c.blockOf = r.c.blockOf
  BY <1>2, <1>3, NoteOK, ZenonT(60)
<1>5. t = Write(u, <<Block("block.delta", u.c.open)>>)
  <2>1. t = Write(u, <<Block("block.delta", r.c.blockOf[i])>>)
    BY <1>1, <1>3 DEF ArgumentsDelta
  <2> QED BY <1>2, <1>4, <2>1
<1>6. InStep(p, t) /\ t.c = u.c
  BY <1>2, <1>4, <1>5, WriteDeltaOK
<1> QED BY <1>2, <1>4, <1>6 DEF AtMostFor, BlocksOK, OpenFor

\* The end of the arguments of a call.
LEMMA ArgumentsDoneOK ==
  ASSUME NEW p, NEW s, InStep(p, s), Mode(s.c) # "after", BlocksOK(s.c), NEW i,
         OpenFor(s.c, i), NEW full, NEW t, t = ArgumentsDone(s, i, full)
  PROVE  InStep(p, t) /\ Mode(t.c) # "after" /\ AtMostFor(s.c, i, t.c)
<1>1. PICK r : r = IF i \in DOMAIN s.c.blockOf THEN s ELSE StartBlock(s, i, FALSE)
  OBVIOUS
<1>2. /\ InStep(p, r) /\ Mode(r.c) # "after" /\ AtMostFor(s.c, i, r.c)
      /\ r.c.open = r.c.blockOf[i] /\ r.c.open # NoBlock
  <2>1. CASE i \in DOMAIN s.c.blockOf
    <3>1. r = s
      BY <1>1, <2>1
    <3>2. s.c.open = s.c.blockOf[i] /\ s.c.blockOf[i] \in Nat
      BY <2>1 DEF OpenFor, BlocksOK
    <3> QED BY <2>1, <3>1, <3>2 DEF AtMostFor, NoBlock
  <2>2. CASE i \notin DOMAIN s.c.blockOf
    <3>1. PICK text : r = StartBlock(s, i, text)
      BY <1>1, <2>2, Zenon
    <3> QED BY <3>1, StartedBlock
  <2> QED BY <2>1, <2>2
<1>3. PICK w : w = Write(r, <<Block("block.delta", r.c.open)>>)
  OBVIOUS
<1>4. InStep(p, w) /\ w.c = r.c
  BY <1>2, <1>3, WriteDeltaOK
<1>5. PICK u : u = IF ~full \/ i \in s.c.spoke THEN s ELSE w
  OBVIOUS
<1>6. InStep(p, u) /\ Mode(u.c) # "after" /\ AtMostFor(s.c, i, u.c)
  <2>1. CASE u = s
    BY <2>1 DEF AtMostFor
  <2>2. CASE u = w
    BY <1>2, <1>4, <2>2
  <2> QED BY <1>5, <2>1, <2>2
<1>7. t = CloseBlock(u)
  <2>1. w = Write(r, <<Block("block.delta", r.c.blockOf[i])>>)
    BY <1>2, <1>3
  <2> QED BY <1>1, <1>5, <2>1 DEF ArgumentsDone
<1>8. InStep(p, t) /\ Mode(t.c) = Mode(u.c) /\ t.c.blockOf = u.c.blockOf
  BY <1>6, <1>7, CloseBlockOK
<1> QED BY <1>6, <1>8 DEF AtMostFor, BlocksOK

\* A step that writes nothing.
LEMMA StillOK == ASSUME NEW a, AdapterOK(a) PROVE InStep(Seen(a), Still(a)) /\ Still(a).c = a
<1>1. Still(a) = [c |-> a, out |-> <<>>]
  BY DEF Still
<1>2. Leads(Seen(a), <<>>, Seen(a))
  BY SeenIsReader, LeadsNowhere
<1> QED BY <1>1, <1>2 DEF InStep

\* An event about an item of a message that goes on.
LEMMA AdaptItemOK ==
  ASSUME NEW a, AdapterOK(a), Mode(a) # "after", BlocksOK(a),
         NEW e, e.type \in Range(Stages),
         e.kind = "function" /\ e.type \in {"delta", "content.done"} => OpenFor(a, e.at),
         NEW t, t = Adapt(a, e)
  PROVE  /\ InStep(Seen(a), t) /\ Mode(t.c) # "after" /\ AtMostFor(a, e.at, t.c)
         /\ e.kind = "function" /\ e.type \in {"item.added", "delta"} => OpenFor(t.c, e.at)
<1>1. PICK s : s = Still(a)
  OBVIOUS
<1>2. InStep(Seen(a), s) /\ s.c = a /\ Mode(s.c) # "after" /\ BlocksOK(s.c)
  BY <1>1, StillOK
<1>3. e.type \in {"item.added", "part.added", "delta", "content.done", "part.done", "item.done"}
  BY StagesAre
<1>4. \/ e.type = "item.added" /\ e.kind = "function" /\ t = StartTool(s, e.at)
      \/ e.type = "delta" /\ e.kind = "message" /\ t = TextDelta(s, e.at)
      \/ e.type = "delta" /\ e.kind = "function" /\ t = ArgumentsDelta(s, e.at)
      \/ e.type = "content.done" /\ e.kind = "function" /\ t = ArgumentsDone(s, e.at, e.full)
      \/ ~(e.type \in {"item.added", "delta"} /\ e.kind = "function") /\ t = CloseBlock(s)
      \/ ~(e.type \in {"item.added", "delta"} /\ e.kind = "function") /\ t = s
  BY <1>1, <1>3, Zenon DEF Adapt
<1>5. CASE e.type = "item.added" /\ e.kind = "function" /\ t = StartTool(s, e.at)
  BY <1>2, <1>5, StartedTool DEF OpenFor
<1>6. CASE e.type = "delta" /\ e.kind = "message" /\ t = TextDelta(s, e.at)
  BY <1>2, <1>6, TextDeltaOK
<1>7. CASE e.type = "delta" /\ e.kind = "function" /\ t = ArgumentsDelta(s, e.at)
  BY <1>2, <1>7, ArgumentsDeltaOK
<1>8. CASE e.type = "content.done" /\ e.kind = "function" /\ t = ArgumentsDone(s, e.at, e.full)
  BY <1>2, <1>8, ArgumentsDoneOK
<1>9. CASE /\ ~(e.type \in {"item.added", "delta"} /\ e.kind = "function")
           /\ t = CloseBlock(s) \/ t = s
  <2>1. InStep(Seen(a), t) /\ Mode(t.c) = Mode(s.c) /\ t.c.blockOf = s.c.blockOf
    BY <1>2, <1>9, CloseBlockOK
  <2> QED BY <1>2, <1>9, <2>1 DEF AtMostFor, BlocksOK
<1> QED BY <1>4, <1>5, <1>6, <1>7, <1>8, <1>9

\* Where the client is in its message.
ClientAt(p) ==
  /\ begun \in BOOLEAN /\ ended \in BOOLEAN
  /\ begun <=> p.mode # "before"
  /\ ended <=> p.mode = "after"
  /\ last.type = "message.delta" <=> p.mode = "summed"
  /\ p.open # NoBlock => p.mode = "within" /\ p.open \in 0..(p.next - 1)
  /\ items = [b \in 0..(p.next - 1) |-> IF b = p.open THEN "open" ELSE "closed"]

\* After what was sent, a call is the item that is under way.
Current(i, told) ==
  /\ KindOf(i) = "function" /\ told[i] \cap {"content.done", "item.done"} = {}
  /\ \A j \in Indices : j > i => told[j] = {}

\* While the upstream is open, the adapter's message goes on, and its blocks
\* are those of items that were begun; the call under way has the open one.
BlocksFollow ==
  /\ Mode(conv) # "after"
  /\ \A i \in DOMAIN conv.blockOf : i \in Indices /\ sent[i] # {}
  /\ \A i \in Indices : Current(i, sent) => OpenFor(conv, i)

\* What is on its way leads the client to where the adapter is.
ClientFollows ==
  /\ pending \in Seq(BlockEvents)
  /\ \E p \in Readers : ClientAt(p) /\ Leads(p, pending, Seen(conv))

\* The client is somewhere in its message, whatever happens to the stream.
ClientKnown == \E p \in Readers : ClientAt(p)

MessageOK ==
  /\ AdapterOK(conv) /\ BlocksOK(conv) /\ ClientKnown
  /\ phase # "broken" => ClientFollows
  /\ phase = "open" => BlocksFollow

BridgeInv == UpstreamOK /\ (route = "bridge" => MessageOK)

\* The items of a bridged stream come one after the other.
LEMMA CurrentAfter ==
  ASSUME ~Interleaved, UpstreamOK, route = "bridge", NEW e \in ItemEvents, Offered(e),
         sent' = IF Remembered(e) THEN [sent EXCEPT ![e.at] = @ \cup {e.type}] ELSE sent
  PROVE  /\ \A i \in Indices : sent[i] # {} => sent'[i] # {}
         /\ sent'[e.at] # {} /\ e.at \in Indices
         /\ \A j \in Indices : j > e.at => sent[j] = {}
         /\ \A i \in Indices : Current(i, sent') =>
              /\ i >= e.at
              /\ i = e.at => e.kind = "function" /\ e.type \in {"item.added", "delta"}
         /\ e.kind = "function" /\ e.type \in {"delta", "content.done"} => Current(e.at, sent)
<1>1. e.at \in Indices /\ e.kind = KindOf(e.at) /\ e.type \in Range(Stages)
  BY EventOf
<1>2. sent \in [Indices -> SUBSET Range(Stages)]
  BY DEF UpstreamOK
<1>3. sent' = [sent EXCEPT ![e.at] = @ \cup {e.type}]
  BY DEF Remembered
<1>4. /\ e.type \in TypesOf(e.kind)
      /\ e.type = "delta" \/ e.type \notin sent[e.at]
      /\ \A t \in sent[e.at] : StageOf(t) <= StageOf(e.type)
      /\ \A j \in Indices : j > e.at => sent[j] = {}
  BY <1>2 DEF Offered, Orderly
<1>5. \A i \in Indices : sent'[i] = IF i = e.at THEN sent[i] \cup {e.type} ELSE sent[i]
  BY <1>1, <1>2, <1>3
<1>6. ASSUME NEW i \in Indices, Current(i, sent')
      PROVE  /\ i >= e.at
             /\ i = e.at => e.kind = "function" /\ e.type \in {"item.added", "delta"}
  <2>1. i >= e.at
    <3>1. i \in Int /\ e.at \in Int
      BY <1>1 DEF Indices
    <3>2. sent'[e.at] # {}
      BY <1>1, <1>5
    <3>3. ~(e.at > i)
      BY <1>1, <1>6, <3>2 DEF Current
    <3> QED BY <3>1, <3>3
  <2>2. ASSUME i = e.at PROVE e.kind = "function" /\ e.type \in {"item.added", "delta"}
    <3>1. e.kind = "function" /\ e.type \notin {"content.done", "item.done"}
      BY <1>1, <1>5, <1>6, <2>2 DEF Current
    <3>2. e.type \notin {"part.added", "part.done"}
      BY <1>4, <3>1 DEF TypesOf
    <3> QED BY <1>1, <3>1, <3>2, StagesAre
  <2> QED BY <2>1, <2>2
<1>7. ASSUME e.kind = "function", e.type \in {"delta", "content.done"} PROVE Current(e.at, sent)
  <2>1. /\ StageOf("delta") = 3 /\ StageOf("content.done") = 4 /\ StageOf("item.done") = 6
    <3>1. Len(Stages) = 6 /\ Stages[1] = "item.added" /\ Stages[2] = "part.added"
          /\ Stages[3] = "delta" /\ Stages[4] = "content.done" /\ Stages[5] = "part.done"
          /\ Stages[6] = "item.done"
      BY DEF Stages
    <3>2. 3 \in 1..6 /\ 4 \in 1..6 /\ 6 \in 1..6
          /\ \A n \in 1..6 : n = 1 \/ n = 2 \/ n = 3 \/ n = 4 \/ n = 5 \/ n = 6
      OBVIOUS
    <3>3. \A n \in 1..6 : /\ Stages[n] = "delta" <=> n = 3
                          /\ Stages[n] = "content.done" <=> n = 4
                          /\ Stages[n] = "item.done" <=> n = 6
      BY <3>1, <3>2
    <3> QED BY <3>1, <3>2, <3>3 DEF StageOf
  <2>2. "content.done" \notin sent[e.at] /\ "item.done" \notin sent[e.at]
    BY <1>4, <1>7, <2>1
  <2> QED BY <1>1, <1>4, <1>7, <2>2 DEF Current
<1>8. /\ \A i \in Indices : sent[i] # {} => sent'[i] # {}
      /\ sent'[e.at] # {}
  BY <1>1, <1>5
<1> QED BY <1>1, <1>4, <1>6, <1>7, <1>8

\* Where the client is does not change while it reads nothing.
LEMMA ClientStays == ASSUME NEW p, ClientAt(p), UNCHANGED client PROVE ClientAt(p)'
BY DEF ClientAt, client

\* A step of the adapter, which the client had caught up with.
LEMMA ClientCatchesUp ==
  ASSUME MessageOK, phase # "broken", NEW t, InStep(Seen(conv), t), Transform(t),
         UNCHANGED client
  PROVE  ClientFollows' /\ ClientKnown'
<1>1. pending = <<>> /\ conv' = t.c /\ pending' = t.out
  BY DEF Transform
<1>2. PICK p \in Readers : ClientAt(p) /\ Leads(p, pending, Seen(conv))
  BY DEF MessageOK, ClientFollows
<1>3. p = Seen(conv)
  <2>1. PICK tr : tr[0] = p /\ tr[Len(<<>>)] = Seen(conv)
    BY <1>1, <1>2 DEF Leads
  <2> QED BY <2>1
<1>4. pending' \in Seq(BlockEvents) /\ Leads(p, pending', Seen(conv'))
  BY <1>1, <1>3 DEF InStep
<1>5. ClientAt(p)'
  BY <1>2, ClientStays
<1> QED BY <1>4, <1>5 DEF ClientFollows, ClientKnown, Leads, Seen, Mode

\* An event about an item.
LEMMA BridgeItemStep ==
  ASSUME ~Interleaved, BridgeInv, route = "bridge", FeedItem
  PROVE  MessageOK'
<1>1. UpstreamOK /\ MessageOK /\ phase = "open" /\ phase' = "open" /\ plan' = plan
      /\ UNCHANGED client
  BY DEF BridgeInv, FeedItem, client
<1>2. PICK e \in ItemEvents :
        /\ Offered(e) /\ Transform(Take(e))
        /\ sent' = IF Remembered(e) THEN [sent EXCEPT ![e.at] = @ \cup {e.type}] ELSE sent
  BY DEF FeedItem
<1>3. PICK t : t = Adapt(conv, e)
  OBVIOUS
<1>4. Transform(t)
  BY <1>2, <1>3 DEF Take
<1>5. AdapterOK(conv) /\ BlocksOK(conv) /\ BlocksFollow
  BY <1>1 DEF MessageOK
<1>6. /\ \A i \in Indices : sent[i] # {} => sent'[i] # {}
      /\ sent'[e.at] # {} /\ e.at \in Indices
      /\ \A j \in Indices : j > e.at => sent[j] = {}
      /\ \A i \in Indices : Current(i, sent') =>
           /\ i >= e.at
           /\ i = e.at => e.kind = "function" /\ e.type \in {"item.added", "delta"}
      /\ e.kind = "function" /\ e.type \in {"delta", "content.done"} => Current(e.at, sent)
  BY <1>1, <1>2, CurrentAfter
<1>7. /\ InStep(Seen(conv), t) /\ Mode(t.c) # "after" /\ AtMostFor(conv, e.at, t.c)
      /\ e.kind = "function" /\ e.type \in {"item.added", "delta"} => OpenFor(t.c, e.at)
  <2>1. e.type \in Range(Stages)
    BY <1>1, EventOf
  <2>2. e.kind = "function" /\ e.type \in {"delta", "content.done"} => OpenFor(conv, e.at)
    BY <1>5, <1>6 DEF BlocksFollow
  <2> QED BY <1>3, <1>5, <2>1, <2>2, AdaptItemOK DEF BlocksFollow
<1>8. conv' = t.c /\ AdapterOK(t.c) /\ BlocksOK(t.c)
      /\ DOMAIN t.c.blockOf \subseteq DOMAIN conv.blockOf \cup {e.at}
  BY <1>4, <1>7 DEF Transform, InStep, AtMostFor
<1>9. ClientFollows' /\ ClientKnown'
  BY <1>1, <1>4, <1>7, ClientCatchesUp
<1>10. \A i \in DOMAIN t.c.blockOf : i \in Indices /\ sent'[i] # {}
  BY <1>5, <1>6, <1>8 DEF BlocksFollow
<1>11. ASSUME NEW i \in Indices, Current(i, sent)' PROVE OpenFor(t.c, i)
  <2>1. i >= e.at /\ (i = e.at => e.kind = "function" /\ e.type \in {"item.added", "delta"})
    BY <1>1, <1>6, <1>11 DEF Current, KindOf, Indices
  <2>2. CASE i = e.at
    BY <1>7, <2>1, <2>2
  <2>3. CASE i # e.at
    <3>1. i > e.at
      BY <1>6, <2>1, <2>3 DEF Indices
    <3>2. i \notin DOMAIN conv.blockOf
      BY <1>5, <1>6, <3>1 DEF BlocksFollow
    <3> QED BY <1>8, <2>3, <3>2 DEF OpenFor
  <2> QED BY <2>2, <2>3
<1>12. BlocksFollow'
  BY <1>1, <1>7, <1>8, <1>10, <1>11 DEF BlocksFollow, Indices, Mode, OpenFor
<1> QED BY <1>8, <1>9, <1>12 DEF MessageOK, AdapterOK, BlocksOK, Mode

\* The other steps of the upstream.
LEMMA BridgeOtherStep ==
  ASSUME BridgeInv, route = "bridge",
         FeedCreated \/ FeedCompleted \/ UpstreamEnds \/ FlushTransform \/ BreakStream
  PROVE  MessageOK'
<1>1. MessageOK /\ AdapterOK(conv) /\ BlocksOK(conv) /\ UNCHANGED client /\ plan' = plan
  BY DEF BridgeInv, MessageOK, FeedCreated, FeedCompleted, UpstreamEnds, FlushTransform,
     BreakStream, upstream, client
<1>2. PICK s : s = Still(conv)
  OBVIOUS
<1>3. InStep(Seen(conv), s) /\ s.c = conv
  BY <1>1, <1>2, StillOK
<1>4. ASSUME phase # "broken", NEW t, InStep(Seen(conv), t), t.c.blockOf = conv.blockOf,
             Transform(t), phase' = "open" => BlocksFollow'
      PROVE  MessageOK'
  <2>1. ClientFollows' /\ ClientKnown'
    BY <1>1, <1>4, ClientCatchesUp
  <2>2. conv' = t.c /\ AdapterOK(t.c) /\ BlocksOK(t.c)
    BY <1>1, <1>4 DEF Transform, InStep, BlocksOK
  <2> QED BY <1>4, <2>1, <2>2 DEF MessageOK, AdapterOK, BlocksOK, Mode
<1>5. CASE FeedCreated
  <2>1. /\ phase = "open" /\ phase' = "open" /\ sent' = sent /\ Transform(Take(Created))
        /\ \A i \in DOMAIN sent : sent[i] = {}
    BY <1>5 DEF FeedCreated, upstream
  <2>2. PICK t : t = EnsureStart(s)
    OBVIOUS
  <2>3. t = Take(Created)
    BY <1>2, <2>2, Zenon DEF Take, Adapt, Created
  <2>4. BlocksFollow /\ Mode(conv) # "after"
    BY <1>1, <2>1 DEF MessageOK, BlocksFollow
  <2>5. /\ InStep(Seen(conv), t) /\ Mode(t.c) = "within" /\ t.c.open = conv.open
        /\ t.c.blockOf = conv.blockOf
    BY <1>3, <2>2, <2>4, EnsureStartOK
  <2>6. conv' = t.c
    BY <2>1, <2>3 DEF Transform
  <2>7. BlocksFollow'
    BY <1>1, <2>1, <2>4, <2>5, <2>6 DEF BlocksFollow, OpenFor, Current, Indices, KindOf, Mode
  <2> QED BY <1>4, <2>1, <2>3, <2>5, <2>7
<1>6. CASE FeedCompleted
  <2>1. PICK status \in Statuses, tokens \in BOOLEAN : Transform(Take(Completed(status, tokens)))
    BY <1>6 DEF FeedCompleted, Statuses
  <2>2. PICK t : t = FinalEvents(s, status)
    OBVIOUS
  <2>3. t = Take(Completed(status, tokens))
    BY <1>2, <2>2, Zenon DEF Take, Adapt, Completed
  <2>4. InStep(Seen(conv), t) /\ t.c.blockOf = conv.blockOf
    BY <1>3, <2>2, FinalEventsOK
  <2>5. phase = "open" /\ phase' = "final"
    BY <1>6 DEF FeedCompleted
  <2>6. Transform(t)
    BY <2>1, <2>3
  <2> QED BY <1>4, <2>4, <2>5, <2>6
<1>7. CASE UpstreamEnds
  <2>1. phase # "broken" /\ phase' = "eof" /\ conv' = conv /\ pending' = pending
    BY <1>7 DEF UpstreamEnds
  <2>2. PICK p \in Readers : ClientAt(p) /\ Leads(p, pending, Seen(conv))
    BY <1>1, <2>1 DEF MessageOK, ClientFollows
  <2>3. ClientAt(p)'
    BY <1>1, <2>2, ClientStays
  <2>4. ClientFollows'
    BY <1>1, <2>1, <2>2, <2>3 DEF MessageOK, ClientFollows, Leads, Seen, Mode
  <2> QED BY <1>1, <2>1, <2>3, <2>4 DEF MessageOK, ClientKnown, AdapterOK, BlocksOK, Mode
<1>8. CASE FlushTransform
  <2>1. phase = "eof" /\ phase' = "flushed" /\ Transform(FlushMessage(conv))
    BY <1>8 DEF FlushTransform, Flushed
  <2>2. PICK t : t = FlushMessage(conv)
    OBVIOUS
  <2>3. t = FinalEvents(s, "none") \/ t = s
    BY <1>2, <2>2 DEF FlushMessage
  <2>4. InStep(Seen(conv), t) /\ t.c.blockOf = conv.blockOf
    BY <1>3, <2>3, FinalEventsOK
  <2> QED BY <1>4, <2>1, <2>2, <2>4
<1>9. CASE BreakStream
  <2>1. phase' = "broken" /\ conv' = conv
    BY <1>9 DEF BreakStream
  <2>2. PICK p \in Readers : ClientAt(p)
    BY <1>1 DEF MessageOK, ClientKnown
  <2>3. ClientAt(p)'
    BY <1>1, <2>2, ClientStays
  <2> QED BY <1>1, <2>1, <2>3 DEF MessageOK, ClientKnown, AdapterOK, BlocksOK, Mode
<1> QED BY <1>5, <1>6, <1>7, <1>8, <1>9

\* What the client of a bridged stream makes of an event.
LEMMA BridgeRead ==
  ASSUME UpstreamOK, MessageOK, route = "bridge", Deliver
  PROVE  \E p \in Readers, q \in Readers, e \in BlockEvents :
           /\ ClientAt(p) /\ Reads(p, e, q) /\ last' = e
           /\ pending' \in Seq(BlockEvents) /\ Leads(q, pending', Seen(conv))
           /\ begun' \in BOOLEAN /\ (begun' <=> begun \/ e.type = "message.start")
           /\ ended' \in BOOLEAN /\ (ended' <=> ended \/ e.type = "message.stop")
           /\ items' = CASE e.type = "block.start" -> Put(items, e.at, "open")
                         [] e.type = "block.stop" -> Put(items, e.at, "closed")
                         [] OTHER -> items
<1>1. pending # <<>> /\ pending' = Tail(pending) /\ phase # "broken"
  BY DEF Deliver, UpstreamOK
<1>2. pending \in Seq(BlockEvents)
  BY <1>1 DEF MessageOK, ClientFollows
<1>3. PICK p \in Readers : ClientAt(p) /\ Leads(p, pending, Seen(conv))
  BY <1>1 DEF MessageOK, ClientFollows
<1>4. PICK q \in Readers : Reads(p, Head(pending), q) /\ Leads(q, Tail(pending), Seen(conv))
  BY <1>1, <1>2, <1>3, LeadsOn
<1>5. PICK e \in BlockEvents : e = Head(pending)
  BY <1>1, <1>2, HeadTailProperties
<1>6. pending' \in Seq(BlockEvents)
  BY <1>1, <1>2, HeadTailProperties
<1>7. /\ last' = e /\ items' = ItemsAfter(e)
      /\ begun' = (begun \/ e.type \in {"created", "message.start"})
      /\ ended' = (ended \/ e.type \in {"completed", "message.stop"})
  BY <1>5 DEF Deliver
<1>8. e.type \in {"message.start", "block.start", "block.delta", "block.stop", "message.delta",
                  "message.stop"}
  BY DEF BlockEvents
<1>9. /\ begun' \in BOOLEAN /\ (begun' <=> begun \/ e.type = "message.start")
      /\ ended' \in BOOLEAN /\ (ended' <=> ended \/ e.type = "message.stop")
  <2>1. /\ e.type \in {"created", "message.start"} <=> e.type = "message.start"
        /\ e.type \in {"completed", "message.stop"} <=> e.type = "message.stop"
    BY <1>8
  <2> QED BY <1>7, <2>1, Zenon
<1>10. items' = CASE e.type = "block.start" -> Put(items, e.at, "open")
                  [] e.type = "block.stop" -> Put(items, e.at, "closed")
                  [] OTHER -> items
  BY <1>7, <1>8 DEF ItemsAfter
<1> QED BY <1>1, <1>3, <1>4, <1>5, <1>6, <1>7, <1>9, <1>10

\* The contract, of a bridged stream, is about what its client has read.
LEMMA BridgeContract ==
  ASSUME route = "bridge", route' = route
  PROVE  /\ Bridged(begun, FALSE) = begun /\ Bridged(begun, FALSE)' = begun'
         /\ Bridged(items, <<>>) = items /\ Bridged(items, <<>>)' = items'
         /\ Bridged(ended, FALSE) = ended /\ Bridged(ended, FALSE)' = ended'
         /\ Bridged(last, Nothing) = last /\ Bridged(last, Nothing)' = last'
BY Zenon DEF Bridged

\* The first n indexes are n.
LEMMA CountedFromZero == ASSUME NEW n \in Nat PROVE Cardinality(0..(n - 1)) = n
<1>1. Cardinality(0..(n - 1)) = IF 0 > n - 1 THEN 0 ELSE (n - 1) - 0 + 1
  BY FS_Interval
<1> QED BY <1>1

\* Every event is one the contract allows where the client is.
LEMMA BridgeDeliverStep ==
  ASSUME BridgeInv, route = "bridge", Deliver
  PROVE  MessageOK' /\ MessageContract!Next
<1>1. UpstreamOK /\ MessageOK /\ route' = route /\ conv' = conv /\ phase' = phase /\ plan' = plan
      /\ sent' = sent /\ phase # "broken"
  BY DEF BridgeInv, Deliver, upstream, UpstreamOK
<1>2. PICK p \in Readers, q \in Readers, e \in BlockEvents :
        /\ ClientAt(p) /\ Reads(p, e, q) /\ last' = e
        /\ pending' \in Seq(BlockEvents) /\ Leads(q, pending', Seen(conv))
        /\ begun' \in BOOLEAN /\ (begun' <=> begun \/ e.type = "message.start")
        /\ ended' \in BOOLEAN /\ (ended' <=> ended \/ e.type = "message.stop")
        /\ items' = CASE e.type = "block.start" -> Put(items, e.at, "open")
                      [] e.type = "block.stop" -> Put(items, e.at, "closed")
                      [] OTHER -> items
  BY <1>1, BridgeRead
<1> DEFINE n == p.next
<1>3. n \in Nat /\ p.open \in Int /\ p.mode \in Modes
      /\ p = [mode |-> p.mode, open |-> p.open, next |-> n]
  BY DEF Readers
<1>4. /\ begun \in BOOLEAN /\ ended \in BOOLEAN
      /\ begun <=> p.mode # "before"
      /\ ended <=> p.mode = "after"
      /\ last.type = "message.delta" <=> p.mode = "summed"
      /\ p.open # NoBlock => p.mode = "within" /\ p.open \in 0..(n - 1)
      /\ items = [b \in 0..(n - 1) |-> IF b = p.open THEN "open" ELSE "closed"]
  BY <1>2 DEF ClientAt
<1>5. DOMAIN items = 0..(n - 1)
      /\ \A b \in 0..(n - 1) : items[b] = IF b = p.open THEN "open" ELSE "closed"
  BY <1>4
<1>6. p.open = NoBlock => \A b \in DOMAIN items : items[b] = "closed"
  BY <1>3, <1>5 DEF NoBlock
<1> HIDE DEF n
<1>7. ASSUME e.type = "message.start" PROVE ClientAt(q)' /\ MessageContract!Start
  <2>1. p.mode = "before" /\ q = [mode |-> "within", open |-> p.open, next |-> n]
    BY <1>2, <1>3, <1>7 DEF Reads
  <2>2. p.open = NoBlock
    BY <1>4, <2>1
  <2>3. begun' /\ ~ended' /\ ~begun /\ ~ended /\ items' = items
    BY <1>2, <1>4, <1>7, <2>1
  <2>4. q.mode = "within" /\ q.open = NoBlock /\ q.next = n
    BY <2>1, <2>2
  <2>5. last'.type = "message.start" /\ last' = e
    BY <1>2, <1>7
  <2>6. ClientAt(q)'
    BY <1>2, <1>4, <2>2, <2>3, <2>4, <2>5 DEF ClientAt
  <2>7. ended' = ended /\ begun' = TRUE
    BY <1>2, <1>4, <2>3
  <2>8. MessageContract!Start
    BY <1>1, <2>3, <2>5, <2>7, BridgeContract, Zenon DEF MessageContract!Start
  <2> QED BY <2>6, <2>8
<1>8. ASSUME e.type = "block.start" PROVE ClientAt(q)' /\ MessageContract!OpenBlock
  <2>1. /\ p.mode = "within" /\ p.open = NoBlock /\ e.at = n
        /\ q.mode = "within" /\ q.open = n /\ q.next = n + 1
    BY <1>2, <1>8 DEF Reads, n
  <2>2. begun' /\ ~ended' /\ begun /\ ~ended /\ begun' = begun /\ ended' = ended
    BY <1>2, <1>4, <1>8, <2>1
  <2>3. items' = [x \in DOMAIN items \cup {n} |-> IF x = n THEN "open" ELSE items[x]]
    BY <1>2, <1>8, <2>1 DEF Put
  <2>4. DOMAIN items \cup {n} = 0..(q.next - 1)
    BY <1>3, <1>5, <2>1
  <2>5. items' = [b \in 0..(q.next - 1) |-> IF b = q.open THEN "open" ELSE "closed"]
    BY <1>3, <1>5, <1>6, <2>1, <2>3, <2>4
  <2>6. last'.type = "block.start" /\ last'.at = n
    BY <1>2, <1>8, <2>1
  <2>7. q.open \in 0..(q.next - 1)
    BY <1>3, <2>1
  <2>8. ClientAt(q)'
    BY <1>2, <2>1, <2>2, <2>5, <2>6, <2>7 DEF ClientAt
  <2>9. Cardinality(DOMAIN items) = n
    BY <1>3, <1>5, CountedFromZero
  <2>10. MessageContract!OpenBlock
    <3>1. \A b \in DOMAIN items : items[b] = "closed"
      BY <1>6, <2>1
    <3>2. last.type # "message.delta"
      BY <1>4, <2>1
    <3>3. MessageContract!Cardinality(DOMAIN items) = n
      BY <2>9 DEF Cardinality, MessageContract!Cardinality
    <3> DEFINE size == MessageContract!Cardinality(DOMAIN Bridged(items, <<>>))
    <3>4. size = n
      BY <1>1, <3>3, BridgeContract
    <3>5. MessageContract!AllClosed
      BY <1>1, <3>1, BridgeContract, Zenon DEF MessageContract!AllClosed
    <3> HIDE DEF size
    <3>6. /\ Bridged(begun, FALSE) /\ ~Bridged(ended, FALSE)
          /\ Bridged(last, Nothing).type # "message.delta"
          /\ UNCHANGED <<Bridged(begun, FALSE), Bridged(ended, FALSE)>>
      BY <1>1, <2>2, <3>2, BridgeContract, Zenon
    <3>7. Bridged(last, Nothing)'.type = "block.start" /\ Bridged(last, Nothing)'.at = size
      BY <1>1, <2>6, <3>4, BridgeContract
    <3>8. Bridged(items, <<>>)' = [x \in DOMAIN Bridged(items, <<>>) \cup {size} |->
                                     IF x = size THEN "open" ELSE Bridged(items, <<>>)[x]]
      BY <1>1, <2>3, <3>4, BridgeContract
    <3> QED BY <3>5, <3>6, <3>7, <3>8, Zenon DEF MessageContract!OpenBlock, size
  <2> QED BY <2>8, <2>10
<1>9. ASSUME e.type = "block.delta" PROVE ClientAt(q)' /\ MessageContract!FillBlock
  <2>1. p.mode = "within" /\ p.open # NoBlock /\ e.at = p.open /\ q = p
    BY <1>2, <1>9 DEF Reads
  <2>2. begun' /\ ~ended' /\ ~ended /\ begun' = begun /\ ended' = ended /\ items' = items
    BY <1>2, <1>4, <1>9, <2>1
  <2>3. last'.type = "block.delta" /\ last'.at = p.open
    BY <1>2, <1>9, <2>1
  <2>4. ClientAt(q)'
    BY <1>2, <1>4, <2>1, <2>2, <2>3 DEF ClientAt, n
  <2>5. p.open \in DOMAIN items /\ items[p.open] = "open"
    BY <1>4, <1>5, <2>1
  <2>6. MessageContract!FillBlock
    BY <1>1, <2>2, <2>3, <2>5, BridgeContract, Zenon DEF MessageContract!FillBlock
  <2> QED BY <2>4, <2>6
<1>10. ASSUME e.type = "block.stop"
       PROVE  ClientAt(q)' /\ \E b \in DOMAIN items : MessageContract!CloseBlock(b)
  <2>1. /\ p.mode = "within" /\ p.open # NoBlock /\ e.at = p.open
        /\ q = [p EXCEPT !.open = NoBlock]
    BY <1>2, <1>10 DEF Reads
  <2>2. begun' /\ ~ended' /\ ~ended /\ begun' = begun /\ ended' = ended
    BY <1>2, <1>4, <1>10, <2>1
  <2>3. last'.type = "block.stop" /\ last'.at = p.open
    BY <1>2, <1>10, <2>1
  <2>4. p.open \in DOMAIN items /\ items[p.open] = "open"
    BY <1>4, <1>5, <2>1
  <2>5. items' = [x \in DOMAIN items \cup {p.open} |-> IF x = p.open THEN "closed" ELSE items[x]]
    BY <1>2, <1>10, <2>1 DEF Put
  <2>6. items' = [items EXCEPT ![p.open] = "closed"]
    <3>1. DOMAIN items \cup {p.open} = DOMAIN items
      BY <2>4
    <3> QED BY <2>5, <3>1
  <2>7. q.mode = "within" /\ q.open = NoBlock /\ q.next = n
    BY <1>3, <2>1 DEF n
  <2>8. items' = [b \in 0..(q.next - 1) |-> IF b = q.open THEN "open" ELSE "closed"]
    <3>1. \A b \in 0..(n - 1) : b # NoBlock
      BY <1>3 DEF NoBlock
    <3>2. DOMAIN items \cup {p.open} = 0..(n - 1)
      BY <1>5, <2>4
    <3> QED BY <1>5, <2>5, <2>7, <3>1, <3>2
  <2>9. ClientAt(q)'
    BY <1>2, <2>2, <2>3, <2>7, <2>8 DEF ClientAt
  <2>10. MessageContract!CloseBlock(p.open)
    BY <1>1, <2>2, <2>3, <2>4, <2>6, BridgeContract, Zenon DEF MessageContract!CloseBlock
  <2> QED BY <2>4, <2>9, <2>10
<1>11. ASSUME e.type = "message.delta" PROVE ClientAt(q)' /\ MessageContract!Summarise
  <2>1. /\ p.mode = "within" /\ p.open = NoBlock /\ q = [p EXCEPT !.mode = "summed"]
    BY <1>2, <1>11 DEF Reads
  <2>2. begun' /\ begun /\ ~ended' /\ ~ended /\ begun' = begun /\ ended' = ended /\ items' = items
    BY <1>2, <1>4, <1>11, <2>1
  <2>3. q.mode = "summed" /\ q.open = NoBlock /\ q.next = n
    BY <1>3, <2>1 DEF n
  <2>4. last'.type = "message.delta" /\ last.type # "message.delta"
    BY <1>2, <1>4, <1>11, <2>1
  <2>5. ClientAt(q)'
    BY <1>2, <1>4, <2>1, <2>2, <2>3, <2>4 DEF ClientAt
  <2>6. \A b \in DOMAIN items : items[b] = "closed"
    BY <1>6, <2>1
  <2>7. MessageContract!Summarise
    BY <1>1, <2>2, <2>4, <2>6, BridgeContract, Zenon
       DEF MessageContract!Summarise, MessageContract!AllClosed
  <2> QED BY <2>5, <2>7
<1>12. ASSUME e.type = "message.stop" PROVE ClientAt(q)' /\ MessageContract!Stop
  <2>1. p.mode = "summed" /\ q = [p EXCEPT !.mode = "after"]
    BY <1>2, <1>12 DEF Reads
  <2>2. begun' /\ ended' /\ begun' = begun /\ ended' = TRUE /\ items' = items
    BY <1>2, <1>4, <1>12, <2>1
  <2>3. p.open = NoBlock
    BY <1>4, <2>1
  <2>4. q.mode = "after" /\ q.open = NoBlock /\ q.next = n
    BY <1>3, <2>1, <2>3 DEF n
  <2>5. last'.type = "message.stop" /\ last.type = "message.delta"
    BY <1>2, <1>4, <1>12, <2>1
  <2>6. ClientAt(q)'
    BY <1>2, <1>4, <2>2, <2>3, <2>4, <2>5 DEF ClientAt
  <2>7. MessageContract!Stop
    BY <1>1, <2>2, <2>5, BridgeContract, Zenon DEF MessageContract!Stop
  <2> QED BY <2>6, <2>7
<1>13. ClientAt(q)' /\ MessageContract!Next
  <2>1. e.type \in {"message.start", "block.start", "block.delta", "block.stop", "message.delta",
                    "message.stop"}
    BY DEF BlockEvents
  <2>2. DOMAIN Bridged(items, <<>>) = DOMAIN items
    BY <1>1, BridgeContract
  <2> QED BY <1>7, <1>8, <1>9, <1>10, <1>11, <1>12, <2>1, <2>2 DEF MessageContract!Next
<1>14. ClientFollows' /\ ClientKnown'
  BY <1>1, <1>2, <1>13 DEF ClientFollows, ClientKnown, Leads, Seen, Mode
<1>15. AdapterOK(conv)' /\ BlocksOK(conv)' /\ (phase' = "open" => BlocksFollow')
  <2>1. AdapterOK(conv) /\ BlocksOK(conv) /\ (phase = "open" => BlocksFollow)
    BY <1>1 DEF MessageOK
  <2> QED BY <1>1, <2>1 DEF AdapterOK, BlocksOK, BlocksFollow, OpenFor, Current, Indices,
             KindOf, Mode
<1> QED BY <1>13, <1>14, <1>15 DEF MessageOK

\* A bridged stream begins with a client that has read nothing.
LEMMA BridgeBegins == StreamInit => BridgeInv /\ MessageContract!Init
<1> SUFFICES ASSUME StreamInit PROVE BridgeInv /\ MessageContract!Init
  OBVIOUS
<1>1. begun = FALSE /\ items = <<>> /\ ended = FALSE /\ last.type = "nothing" /\ pending = <<>>
  BY DEF StreamInit, Nothing, Contract!Nothing
<1>2. MessageContract!Init
  <2>1. CASE route = "bridge"
    BY <1>1, <2>1, Zenon DEF MessageContract!Init, Bridged
  <2>2. CASE route # "bridge"
    <3>1. Nothing.type = "nothing"
      BY DEF Nothing, Contract!Nothing
    <3> QED BY <2>2, <3>1, Zenon DEF MessageContract!Init, Bridged
  <2> QED BY <2>1, <2>2
<1>3. ASSUME route = "bridge" PROVE MessageOK
  <2>1. conv = NewAdapter /\ phase = "open"
    BY <1>3 DEF StreamInit
  <2>2. /\ ~conv.started /\ ~conv.stopped /\ conv.open = NoBlock /\ conv.text = FALSE
        /\ conv.next = 0 /\ conv.blockOf = <<>>
        /\ conv = [started |-> conv.started, stopped |-> conv.stopped, open |-> conv.open,
                   text |-> conv.text, next |-> conv.next, blockOf |-> conv.blockOf,
                   spoke |-> conv.spoke, tool |-> conv.tool]
    BY <2>1 DEF NewAdapter
  <2>3. AdapterOK(conv) /\ Mode(conv) = "before"
    BY <2>2 DEF AdapterOK, Mode, NoBlock
  <2>4. BlocksOK(conv) /\ BlocksFollow
    <3>1. DOMAIN conv.blockOf = {}
      BY <2>2
    <3> QED BY <2>3, <3>1 DEF BlocksOK, BlocksFollow, OpenFor
  <2> DEFINE p == Seen(conv)
  <2>5. p.mode = "before" /\ p.open = NoBlock /\ p.next = 0 /\ p \in Readers
    BY <2>2, <2>3, SeenIsReader DEF Seen
  <2> HIDE DEF p
  <2>6. items = [b \in 0..(p.next - 1) |-> IF b = p.open THEN "open" ELSE "closed"]
    <3>1. 0..(p.next - 1) = {}
      BY <2>5
    <3> QED BY <1>1, <3>1
  <2>7. ClientAt(p)
    BY <1>1, <2>5, <2>6 DEF ClientAt
  <2>8. Leads(p, pending, Seen(conv))
    BY <1>1, <2>5, LeadsNowhere DEF p
  <2>9. pending \in Seq(BlockEvents)
    BY <1>1
  <2> QED BY <2>3, <2>4, <2>5, <2>7, <2>8, <2>9 DEF MessageOK, ClientFollows, ClientKnown
<1> QED BY <1>2, <1>3, UpstreamBegins DEF BridgeInv

\* The invariant of a bridged stream: what the client has read and what is on
\* its way to it lead to where the adapter is.
LEMMA BridgeInvariant == ASSUME ~Interleaved PROVE StreamSpec => []BridgeInv
<1>1. BridgeInv /\ NativeInv' /\ [StreamNext]_vars => BridgeInv'
  <2> SUFFICES ASSUME BridgeInv, NativeInv', [StreamNext]_vars, route' = "bridge"
               PROVE  MessageOK'
    BY DEF BridgeInv, NativeInv
  <2>1. CASE StreamNext
    <3>1. route = "bridge"
      BY <2>1 DEF StreamNext, FeedChunk, FeedItem, FeedCreated, FeedCompleted, UpstreamEnds,
         FlushTransform, BreakStream, Deliver
    <3>2. ~FeedChunk
      BY <3>1 DEF FeedChunk
    <3> QED BY <2>1, <3>1, <3>2, BridgeItemStep, BridgeOtherStep, BridgeDeliverStep
            DEF StreamNext
  <2>2. CASE UNCHANGED vars
    <3>1. /\ conv' = conv /\ phase' = phase /\ plan' = plan /\ sent' = sent
          /\ pending' = pending /\ UNCHANGED client /\ route = "bridge"
      BY <2>2 DEF vars, client
    <3>2. MessageOK
      BY <3>1 DEF BridgeInv
    <3>3. AdapterOK(conv)' /\ BlocksOK(conv)'
      BY <3>1, <3>2 DEF MessageOK, AdapterOK, BlocksOK, Mode
    <3>4. phase' = "open" => BlocksFollow'
      BY <3>1, <3>2 DEF MessageOK, BlocksFollow, OpenFor, Current, Indices, KindOf, Mode
    <3>5. phase' # "broken" => ClientFollows'
      <4> SUFFICES ASSUME phase # "broken" PROVE ClientFollows'
        BY <3>1
      <4>1. PICK p \in Readers : ClientAt(p) /\ Leads(p, pending, Seen(conv))
        BY <3>2 DEF MessageOK, ClientFollows
      <4>2. ClientAt(p)'
        BY <3>1, <4>1, ClientStays
      <4> QED BY <3>1, <3>2, <4>1, <4>2 DEF MessageOK, ClientFollows, Leads, Seen, Mode
    <3>6. ClientKnown'
      <4>1. PICK p \in Readers : ClientAt(p)
        BY <3>2 DEF MessageOK, ClientKnown
      <4> QED BY <3>1, <4>1, ClientStays DEF ClientKnown
    <3> QED BY <3>3, <3>4, <3>5, <3>6 DEF MessageOK
  <2> QED BY <2>1, <2>2
<1>2. StreamInit => BridgeInv
  BY BridgeBegins
<1> QED BY <1>1, <1>2, NativeInvariant, PTL DEF StreamSpec

\* The bridge writes well-formed Anthropic messages (BridgeKeepsContract):
\* blocks under consecutive indexes that do not overlap and are written into
\* only while they are open, and one summary and one stop after the last.
THEOREM BridgesKeepTheContract ==
  ASSUME ~Interleaved PROVE StreamSpec => BridgeKeepsContract
<1>1. BridgeInv /\ [StreamNext]_vars => [MessageContract!Next]_(MessageContract!vars)
  <2> SUFFICES ASSUME BridgeInv, [StreamNext]_vars
               PROVE  [MessageContract!Next]_(MessageContract!vars)
    OBVIOUS
  <2>1. route' = route
    BY DEF StreamNext, FeedChunk, FeedItem, FeedCreated, FeedCompleted, UpstreamEnds,
       FlushTransform, BreakStream, Deliver, vars
  <2>2. CASE route = "bridge" /\ Deliver
    BY <2>2, BridgeDeliverStep
  <2>3. CASE route = "bridge" /\ ~Deliver
    <3>1. UNCHANGED <<begun, items, ended, last>>
      BY <2>3 DEF StreamNext, FeedChunk, FeedItem, FeedCreated, FeedCompleted, UpstreamEnds,
         FlushTransform, BreakStream, vars, client
    <3> QED BY <2>1, <2>3, <3>1, BridgeContract DEF MessageContract!vars
  <2>4. CASE route # "bridge"
    BY <2>1, <2>4, Zenon DEF MessageContract!vars, Bridged
  <2> QED BY <2>2, <2>3, <2>4
<1>2. StreamInit => MessageContract!Init
  BY BridgeBegins
<1> QED BY <1>1, <1>2, BridgeInvariant, PTL
    DEF StreamSpec, BridgeKeepsContract, MessageContract!Spec

=============================================================================
