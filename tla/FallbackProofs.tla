---------------------------- MODULE FallbackProofs ---------------------------
(***************************************************************************)
(* Converted chat completions, for every sequence of chunks with any list  *)
(* of tool-call deltas: what the client reads is a well-formed Responses   *)
(* stream (responses_stream.py).                                           *)
(*                                                                         *)
(* A client is where its place in the response, the number of announced    *)
(* items and their stages say; an event it may read leads it further.  Each*)
(* operation of the converter is shown to write events that lead from where*)
(* the converter was to where it is (Speaks), so that what was delivered   *)
(* and what is pending lead there too.                                     *)
(***************************************************************************)
EXTENDS StreamsProofs, DataProofs

-----------------------------------------------------------------------------
(* What a reader makes of a sequence of events.                            *)

\* Events read one after the other, each as a triple of Rel allows, lead a
\* reader from p to q.
Leading(Rel, States, p, out, q) ==
  \E tr \in [0..Len(out) -> States] :
    /\ tr[0] = p /\ tr[Len(out)] = q
    /\ \A k \in 1..Len(out) : <<tr[k - 1], out[k], tr[k]>> \in Rel

\* Nothing leads nowhere.
LEMMA LeadingNowhere ==
  ASSUME NEW Rel, NEW States
  PROVE  /\ \A p \in States : Leading(Rel, States, p, <<>>, p)
         /\ \A p, q : Leading(Rel, States, p, <<>>, q) => p = q
<1>1. ASSUME NEW p \in States PROVE Leading(Rel, States, p, <<>>, p)
  <2> DEFINE tr == [k \in 0..0 |-> p]
  <2>1. Len(<<>>) = 0 /\ tr \in [0..Len(<<>>) -> States] /\ tr[0] = p
    OBVIOUS
  <2>2. 1..Len(<<>>) = {}
    OBVIOUS
  <2> QED BY <2>1, <2>2 DEF Leading
<1>2. ASSUME NEW p, NEW q, Leading(Rel, States, p, <<>>, q) PROVE p = q
  <2>1. Len(<<>>) = 0
    OBVIOUS
  <2> QED BY <1>2, <2>1 DEF Leading
<1> QED BY <1>1, <1>2

\* One event more.
LEMMA LeadingFurther ==
  ASSUME NEW Rel, NEW States, NEW Events, NEW p, NEW q, NEW r \in States,
         NEW out \in Seq(Events), NEW e \in Events,
         Leading(Rel, States, p, out, q), <<q, e, r>> \in Rel
  PROVE  Leading(Rel, States, p, Append(out, e), r) /\ Append(out, e) \in Seq(Events)
<1> DEFINE n == Len(out)
           more == Append(out, e)
<1>1. n \in Nat /\ more \in Seq(Events) /\ Len(more) = n + 1 /\ more[n + 1] = e
      /\ \A k \in 1..n : more[k] = out[k]
  BY LenProperties, AppendProperties
<1>2. PICK tr \in [0..n -> States] :
        /\ tr[0] = p /\ tr[n] = q
        /\ \A k \in 1..n : <<tr[k - 1], out[k], tr[k]>> \in Rel
  BY DEF Leading
<1> HIDE DEF n, more
<1> DEFINE ts == [k \in 0..(n + 1) |-> IF k = n + 1 THEN r ELSE tr[k]]
<1>3. ts \in [0..Len(more) -> States] /\ ts[0] = p /\ ts[Len(more)] = r
  BY <1>1, <1>2
<1>4. \A k \in 1..Len(more) : <<ts[k - 1], more[k], ts[k]>> \in Rel
  <2> SUFFICES ASSUME NEW k \in 1..(n + 1) PROVE <<ts[k - 1], more[k], ts[k]>> \in Rel
    BY <1>1
  <2>1. CASE k = n + 1
    <3>1. ts[k - 1] = q /\ ts[k] = r /\ more[k] = e
      BY <1>1, <1>2, <2>1
    <3> QED BY <3>1
  <2>2. CASE k # n + 1
    <3>1. ts[k - 1] = tr[k - 1] /\ ts[k] = tr[k] /\ more[k] = out[k] /\ k \in 1..n
      BY <1>1, <2>2
    <3> QED BY <1>2, <3>1
  <2> QED BY <2>1, <2>2
<1> HIDE DEF ts
<1>5. Leading(Rel, States, p, more, r)
  BY <1>3, <1>4 DEF Leading
<1> QED BY <1>1, <1>5 DEF more

\* The first event is read.
LEMMA LeadingOn ==
  ASSUME NEW Rel, NEW States, NEW Events, NEW p, NEW q, NEW out \in Seq(Events),
         out # <<>>, Leading(Rel, States, p, out, q)
  PROVE  \E r \in States : /\ <<p, Head(out), r>> \in Rel
                           /\ Leading(Rel, States, r, Tail(out), q)
<1> DEFINE n == Len(out)
           rest == Tail(out)
<1>1. n \in Nat /\ n > 0 /\ Len(rest) = n - 1 /\ Head(out) = out[1]
      /\ \A k \in 1..(n - 1) : rest[k] = out[k + 1]
  BY LenProperties, HeadTailProperties
<1>2. PICK tr \in [0..n -> States] :
        /\ tr[0] = p /\ tr[n] = q
        /\ \A k \in 1..n : <<tr[k - 1], out[k], tr[k]>> \in Rel
  BY DEF Leading
<1> HIDE DEF n, rest
<1> DEFINE ts == [k \in 0..(n - 1) |-> tr[k + 1]]
<1>3. ts \in [0..Len(rest) -> States] /\ ts[0] = tr[1] /\ ts[Len(rest)] = q
  BY <1>1, <1>2
<1>4. \A k \in 1..Len(rest) : <<ts[k - 1], rest[k], ts[k]>> \in Rel
  <2> SUFFICES ASSUME NEW k \in 1..(n - 1) PROVE <<ts[k - 1], rest[k], ts[k]>> \in Rel
    BY <1>1
  <2>1. ts[k - 1] = tr[k] /\ ts[k] = tr[k + 1] /\ rest[k] = out[k + 1]
    BY <1>1
  <2>2. k + 1 \in 1..n /\ (k + 1) - 1 = k
    BY <1>1
  <2>3. <<tr[(k + 1) - 1], out[k + 1], tr[k + 1]>> \in Rel
    BY <1>2, <2>2
  <2> QED BY <2>1, <2>2, <2>3
<1>5. <<p, Head(out), tr[1]>> \in Rel /\ tr[1] \in States
  <2>1. <<tr[1 - 1], out[1], tr[1]>> \in Rel
    BY <1>1, <1>2
  <2>2. 1 - 1 = 0
    OBVIOUS
  <2> QED BY <1>1, <1>2, <2>1, <2>2
<1> HIDE DEF ts
<1>6. Leading(Rel, States, tr[1], rest, q)
  BY <1>3, <1>4 DEF Leading
<1> QED BY <1>5, <1>6 DEF rest

-----------------------------------------------------------------------------
(* A converted chat completion.  What the client has read of a response is *)
(* whether it was begun or ended, the index of the next item, and the      *)
(* stage of each.                                                          *)
ItemStages == {"absent", "added", "part", "filled", "told", "closed"}
Places == {"before", "within", "after"}
Clients == [mode : Places, next : Nat, stage : [Nat -> ItemStages]]

ItemNumbers(n) == 0..(n - 1)
ItemTypes == {"item.added", "part.added", "delta", "content.done", "part.done", "item.done"}
PlainEvents ==
  [type : {"created"} \cup ItemTypes, at : Int,
   kind : {"none", "reasoning", "message", "function"}]
TerminalEvents ==
  [type : {"completed"}, at : Int, kind : {"none"}, status : {"incomplete", "completed"},
   output : Seq(Int)]
ReplyEvents == PlainEvents \cup TerminalEvents

\* The terminal event lists each of n items once.
Lists(output, n) ==
  /\ Range(output) \ {None} = ItemNumbers(n)
  /\ Cardinality(Range(output)) = Len(output)

\* Where an event leads the stage of its item.
After(stage, type) == Contract!StageAfter(stage, type)

\* A client in p may read e, and is in q then.
Admits(p, e, q) ==
  \/ /\ e.type = "created" /\ p.mode = "before"
     /\ q = [p EXCEPT !.mode = "within"]
  \/ /\ e.type = "item.added" /\ p.mode = "within" /\ e.at = p.next
     /\ q = [mode |-> "within", next |-> p.next + 1,
             stage |-> [p.stage EXCEPT ![e.at] = "added"]]
  \/ /\ e.type \in ItemTypes \ {"item.added"} /\ p.mode = "within"
     /\ e.at \in ItemNumbers(p.next)
     /\ After(p.stage[e.at], e.type) # "broken"
     /\ q = [mode |-> "within", next |-> p.next,
             stage |-> [p.stage EXCEPT ![e.at] = After(p.stage[e.at], e.type)]]
  \/ /\ e.type = "delta" /\ e.kind = "reasoning" /\ p.mode = "within"
     /\ e.at \in ItemNumbers(p.next) /\ p.stage[e.at] = "closed"
     /\ q = p
  \/ /\ e.type = "completed" /\ p.mode = "within"
     /\ \A i \in ItemNumbers(p.next) : p.stage[i] = "closed"
     /\ Lists(e.output, p.next)
     /\ q = [p EXCEPT !.mode = "after"]

Admitted == {x \in Clients \X ReplyEvents \X Clients : Admits(x[1], x[2], x[3])}

\* The events of out lead a client from p to q.
LeadsTo(p, out, q) == Leading(Admitted, Clients, p, out, q)

Within(n, f) == [mode |-> "within", next |-> n, stage |-> f]

\* The items as one who has read all events of the converter sees them.
StageIn(c, i) ==
  IF i >= c.next THEN "absent"
  ELSE IF i = c.reasoningAt THEN IF c.reasoning = "open" THEN "part" ELSE "closed"
  ELSE IF i = c.messageAt /\ ~c.compat THEN "part"
  ELSE "added"
StagesIn(c) == [i \in Nat |-> StageIn(c, i)]
ModeIn(c) == IF c.created THEN "within" ELSE "before"
Shown(c) == [mode |-> ModeIn(c), next |-> c.next, stage |-> StagesIn(c)]
AllClosed(n) == [i \in Nat |-> IF i < n THEN "closed" ELSE "absent"]

Flags == BOOLEAN
Reasonings == {"none", "open", "done"}
Finishes == {"none", "length"}
Tables == UNION {[D -> Nat] : D \in SUBSET Int}
Converters ==
  [compat : Flags, created : Flags, completed : Flags, next : Nat,
   reasoning : Reasonings, reasoningAt : Int, messageAt : Int,
   tools : Tables, finish : Finishes]

\* Each of the numbers is that of reasoning, of the message or of one call.
Distinct(numbers, r, m, ts) ==
  /\ r = None \/ r \in numbers
  /\ m = None \/ m \in numbers
  /\ r = m => m = None
  /\ \A x \in DOMAIN ts : ts[x] \in numbers /\ ts[x] # r /\ ts[x] # m
  /\ \A x, y \in DOMAIN ts : ts[x] = ts[y] => x = y
  /\ \A i \in numbers : i = r \/ i = m \/ \E x \in DOMAIN ts : ts[x] = i

ItemsDistinct(c) == Distinct(ItemNumbers(c.next), c.reasoningAt, c.messageAt, c.tools)

ConverterOK(c) ==
  /\ c \in Converters
  /\ IsFiniteSet(DOMAIN c.tools)
  /\ c.next > 0 => c.created
  /\ c.reasoning = "none" <=> c.reasoningAt = None
  /\ ItemsDistinct(c)

\* What a step has written so far leads a client from p to q.
Wrote(p, s, q) ==
  /\ s = [c |-> s.c, out |-> s.out] /\ s.out \in Seq(ReplyEvents)
  /\ q \in Clients /\ LeadsTo(p, s.out, q)

\* ... to where the converter is.
Speaks(p, s) == ConverterOK(s.c) /\ Wrote(p, s, Shown(s.c))

\* The fields of a converter.
LEMMA ConverterFields ==
  ASSUME NEW c \in Converters
  PROVE  /\ c.next \in Nat /\ c.reasoning \in Reasonings
         /\ c.reasoningAt \in Int /\ c.messageAt \in Int
         /\ c.tools \in Tables /\ c.finish \in Finishes
         /\ c.compat \in Flags /\ c.created \in Flags /\ c.completed \in Flags
BY DEF Converters

\* The same but for what is named.
SameBut(c, d, names) ==
  /\ d \in Converters
  /\ "compat" \in names \/ d.compat = c.compat
  /\ "created" \in names \/ d.created = c.created
  /\ "completed" \in names \/ d.completed = c.completed
  /\ "next" \in names \/ d.next = c.next
  /\ "reasoning" \in names \/ d.reasoning = c.reasoning
  /\ "reasoningAt" \in names \/ d.reasoningAt = c.reasoningAt
  /\ "messageAt" \in names \/ d.messageAt = c.messageAt
  /\ "tools" \in names \/ d.tools = c.tools
  /\ "finish" \in names \/ d.finish = c.finish

\* A table of calls.
LEMMA TableFields ==
  ASSUME NEW t \in Tables
  PROVE  DOMAIN t \in SUBSET Int /\ t = [x \in DOMAIN t |-> t[x]] /\ \A x \in DOMAIN t : t[x] \in Nat
<1>1. PICK D \in SUBSET Int : t \in [D -> Nat]
  BY DEF Tables
<1> QED BY <1>1

\* The fields of a client.
LEMMA ClientFields ==
  ASSUME NEW q \in Clients
  PROVE  /\ q.mode \in Places /\ q.next \in Nat /\ q.stage \in [Nat -> ItemStages]
         /\ q = [mode |-> q.mode, next |-> q.next, stage |-> q.stage]
BY DEF Clients

\* One more event.
LEMMA EmitOne ==
  ASSUME NEW p, NEW s, NEW q, Wrote(p, s, q), NEW e \in ReplyEvents, NEW r \in Clients,
         Admits(q, e, r), NEW t, t = Emit(s, <<e>>)
  PROVE  Wrote(p, t, r) /\ t.c = s.c
<1>1. s = [c |-> s.c, out |-> s.out] /\ s.out \in Seq(ReplyEvents) /\ q \in Clients
      /\ LeadsTo(p, s.out, q)
  BY DEF Wrote
<1>2. s.out \o <<e>> = Append(s.out, e)
  BY <1>1
<1>3. t = [c |-> s.c, out |-> Append(s.out, e)]
  BY <1>1, <1>2 DEF Emit
<1>4. <<q, e, r>> \in Admitted
  BY <1>1 DEF Admitted
<1>5. LeadsTo(p, Append(s.out, e), r) /\ Append(s.out, e) \in Seq(ReplyEvents)
  BY ONLY <1>1, <1>4, e \in ReplyEvents, r \in Clients, LeadingFurther, Zenon DEF LeadsTo
<1>6. t.c = s.c /\ t.out = Append(s.out, e)
  BY <1>3
<1> QED BY <1>3, <1>5, <1>6 DEF Wrote

\* Concatenating three elements is appending one after the other.
LEMMA ConcatMore ==
  ASSUME NEW E, NEW w \in Seq(E), NEW a \in E, NEW b \in E, NEW d \in E
  PROVE  /\ w \o <<a>> = Append(w, a) /\ Append(w, a) \in Seq(E)
         /\ w \o <<a, b>> = Append(w \o <<a>>, b)
         /\ w \o <<a, b, d>> = Append(w \o <<a, b>>, d)
<1>1. <<a>> \in Seq(E) /\ <<a, b>> \in Seq(E)
  OBVIOUS
<1>2. <<a, b>> = Append(<<a>>, b) /\ <<a, b, d>> = Append(<<a, b>>, d)
  OBVIOUS
<1>3. \A z \in Seq(E), e \in E : w \o Append(z, e) = Append(w \o z, e)
  OBVIOUS
<1>4. w \o <<a, b>> = Append(w \o <<a>>, b)
  BY ONLY <1>1, <1>2, <1>3, b \in E, Zenon
<1>5. w \o <<a, b, d>> = Append(w \o <<a, b>>, d)
  BY ONLY <1>1, <1>2, <1>3, d \in E, Zenon
<1>6. w \o <<a>> = Append(w, a) /\ Append(w, a) \in Seq(E)
  OBVIOUS
<1> QED BY ONLY <1>4, <1>5, <1>6, Zenon

\* Two elements in a row.
LEMMA ConcatTwo ==
  ASSUME NEW E
  PROVE  \A a, b \in E : <<a>> \o <<b>> = <<a, b>>
<1> SUFFICES ASSUME NEW a \in E, NEW b \in E PROVE <<a>> \o <<b>> = <<a, b>>
  OBVIOUS
<1>1. <<a>> \in Seq(E)
  OBVIOUS
<1>2. <<a, b>> = Append(<<a>>, b)
  OBVIOUS
<1>3. \A z \in Seq(E), e \in E : z \o <<e>> = Append(z, e)
  OBVIOUS
<1>4. <<a>> \o <<b>> = Append(<<a>>, b)
  BY ONLY <1>1, <1>3, b \in E, Zenon
<1> QED BY ONLY <1>2, <1>4, Zenon

\* Three elements in a row.
LEMMA ConcatThree ==
  ASSUME NEW E, NEW a \in E, NEW b \in E, NEW d \in E
  PROVE  <<a, b>> \o <<d>> = <<a, b, d>>
<1>1. <<a, b>> \in Seq(E)
  OBVIOUS
<1>2. <<a, b, d>> = Append(<<a, b>>, d)
  OBVIOUS
<1>3. \A z \in Seq(E), e \in E : z \o <<e>> = Append(z, e)
  OBVIOUS
<1>4. <<a, b>> \o <<d>> = Append(<<a, b>>, d)
  BY ONLY <1>1, <1>3, d \in E, Zenon
<1> QED BY ONLY <1>2, <1>4, Zenon

\* What a step has after one more event.
LEMMA EmitFields ==
  ASSUME NEW c, NEW w \in Seq(ReplyEvents), NEW s, s = [c |-> c, out |-> w], NEW e \in ReplyEvents
  PROVE  Emit(s, <<e>>) = [c |-> c, out |-> Append(w, e)]
<1>1. PICK v : v = Append(w, e)
  OBVIOUS
<1>2. s.out = w /\ w \o <<e>> = v
  BY <1>1, ConcatMore
<1>3. Emit(s, <<e>>) = [s EXCEPT !.out = v]
  BY ONLY <1>2, Zenon DEF Emit
<1>4. [s EXCEPT !.out = v] = [c |-> c, out |-> v]
  BY ONLY s = [c |-> c, out |-> w]
<1> QED BY ONLY <1>1, <1>3, <1>4

\* What a step is.
AStep(s) == s = [c |-> s.c, out |-> s.out] /\ s.out \in Seq(ReplyEvents)

\* Two or three events of a step are written one by one.
OneByOne(s, a, b, d) ==
  /\ Emit(s, <<a, b>>) = Emit(Emit(s, <<a>>), <<b>>)
  /\ Emit(s, <<a, b, d>>) = Emit(Emit(Emit(s, <<a>>), <<b>>), <<d>>)

LEMMA EmitMore ==
  ASSUME NEW s, AStep(s),
         NEW a \in ReplyEvents, NEW b \in ReplyEvents, NEW d \in ReplyEvents
  PROVE  OneByOne(s, a, b, d)
<1>1. PICK c : c = s.c
  OBVIOUS
<1>2. PICK w \in Seq(ReplyEvents) : w = s.out
  BY DEF AStep
<1>3. PICK x \in Seq(ReplyEvents) : x = Append(w, a)
  BY ConcatMore
<1>4. PICK y \in Seq(ReplyEvents) : y = Append(x, b)
  BY ConcatMore
<1>5. PICK z \in Seq(ReplyEvents) : z = Append(y, d)
  BY ConcatMore
<1>6. s = [c |-> c, out |-> w] /\ s.out = w
  BY <1>1, <1>2 DEF AStep
<1>7. w \o <<a, b>> = y /\ w \o <<a, b, d>> = z
  BY <1>3, <1>4, <1>5, ConcatMore
<1>8. /\ Emit(s, <<a>>) = [c |-> c, out |-> x]
      /\ Emit(Emit(s, <<a>>), <<b>>) = [c |-> c, out |-> y]
      /\ Emit(Emit(Emit(s, <<a>>), <<b>>), <<d>>) = [c |-> c, out |-> z]
  <2>1. PICK t : t = Emit(s, <<a>>)
    OBVIOUS
  <2>2. PICK u : u = Emit(t, <<b>>)
    OBVIOUS
  <2>3. t = [c |-> c, out |-> x]
    BY <1>3, <1>6, <2>1, EmitFields
  <2>4. u = [c |-> c, out |-> y]
    BY <1>4, <2>2, <2>3, EmitFields
  <2>5. Emit(u, <<d>>) = [c |-> c, out |-> z]
    BY <1>5, <2>4, EmitFields
  <2> QED BY ONLY <2>1, <2>2, <2>3, <2>4, <2>5, Zenon
<1>9. Emit(s, <<a, b>>) = [s EXCEPT !.out = y] /\ Emit(s, <<a, b, d>>) = [s EXCEPT !.out = z]
  BY ONLY <1>6, <1>7, Zenon DEF Emit
<1>10. [s EXCEPT !.out = y] = [c |-> c, out |-> y] /\ [s EXCEPT !.out = z] = [c |-> c, out |-> z]
  BY ONLY <1>6
<1>11. Emit(s, <<a, b>>) = Emit(Emit(s, <<a>>), <<b>>)
       /\ Emit(s, <<a, b, d>>) = Emit(Emit(Emit(s, <<a>>), <<b>>), <<d>>)
  BY ONLY <1>8, <1>9, <1>10
<1> QED BY ONLY <1>11, Zenon DEF OneByOne

\* The events of the converter about items.
LEMMA EventIsReply ==
  /\ \A type \in {"created"} \cup ItemTypes, i \in Int,
        kind \in {"none", "reasoning", "message", "function"} :
       /\ Event(type, i, kind) \in ReplyEvents
       /\ Event(type, i, kind).type = type /\ Event(type, i, kind).at = i
       /\ Event(type, i, kind).kind = kind
  /\ None \in Int
BY DEF Event, ReplyEvents, PlainEvents, None

\* Clients in the middle of a response.
LEMMA WithinFields ==
  ASSUME NEW n \in Nat, NEW f \in [Nat -> ItemStages]
  PROVE  /\ Within(n, f) \in Clients
         /\ Within(n, f).mode = "within" /\ Within(n, f).next = n /\ Within(n, f).stage = f
BY DEF Within, Clients, Places

\* What is shown of the items of a converter.
LEMMA ShownFields ==
  ASSUME NEW c \in Converters
  PROVE  /\ StagesIn(c) \in [Nat -> ItemStages]
         /\ \A i \in Nat : StagesIn(c)[i] = StageIn(c, i)
         /\ c.created => Shown(c) = Within(c.next, StagesIn(c))
<1>1. \A i \in Nat : StageIn(c, i) \in ItemStages
  BY DEF StageIn, ItemStages
<1>2. StagesIn(c) \in [Nat -> ItemStages] /\ \A i \in Nat : StagesIn(c)[i] = StageIn(c, i)
  BY <1>1 DEF StagesIn
<1>3. c.created => ModeIn(c) = "within"
  BY DEF ModeIn
<1>4. ModeIn(c) = "within" => Shown(c) = Within(c.next, StagesIn(c))
  BY Zenon DEF Shown, Within
<1> QED BY <1>2, <1>3, <1>4, Zenon

\* The response is begun before anything else is written.
LEMMA EnsureCreatedOK ==
  ASSUME NEW p, NEW s, NEW n \in Nat, NEW f \in [Nat -> ItemStages],
         Wrote(p, s, [mode |-> ModeIn(s.c), next |-> n, stage |-> f]), s.c \in Converters,
         NEW t, t = EnsureCreated(s)
  PROVE  Wrote(p, t, Within(n, f)) /\ t.c.created /\ SameBut(s.c, t.c, {"created"})
<1>1. CASE s.c.created
  <2>1. t = s
    BY <1>1 DEF EnsureCreated
  <2>2. ModeIn(s.c) = "within"
    BY <1>1 DEF ModeIn
  <2>3. SameBut(s.c, t.c, {"created"})
    BY <2>1 DEF SameBut
  <2>4. Wrote(p, t, Within(n, f))
    BY <2>1, <2>2, Zenon DEF Within
  <2> QED BY <1>1, <2>1, <2>3, <2>4, Zenon
<1>2. CASE ~s.c.created
  <2> DEFINE e == Event("created", None, "none")
  <2>1. PICK u : u = [s EXCEPT !.c.created = TRUE]
    OBVIOUS
  <2>2. t = Emit(u, <<e>>)
    BY <1>2, <2>1 DEF EnsureCreated
  <2>3. u.c = [s.c EXCEPT !.created = TRUE] /\ u.out = s.out /\ u = [c |-> u.c, out |-> u.out]
    BY <2>1 DEF Wrote
  <2>4. PICK q : q = [mode |-> ModeIn(s.c), next |-> n, stage |-> f]
    OBVIOUS
  <2>5. Wrote(p, u, q)
    BY <2>3, <2>4 DEF Wrote
  <2>6. e \in ReplyEvents /\ e.type = "created"
    BY EventIsReply
  <2>7. PICK r \in Clients : r = Within(n, f)
    BY WithinFields
  <2>8. ModeIn(s.c) = "before"
    BY <1>2 DEF ModeIn
  <2>9. Admits(q, e, r)
    <3>1. q.mode = "before" /\ r = [q EXCEPT !.mode = "within"]
      BY <2>4, <2>7, <2>8 DEF Within
    <3> HIDE DEF e
    <3> QED BY <2>6, <3>1, Zenon DEF Admits
  <2> HIDE DEF e
  <2>10. Wrote(p, t, r) /\ t.c = u.c
    BY <2>2, <2>5, <2>6, <2>9, EmitOne
  <2>11. u.c.created /\ SameBut(s.c, u.c, {"created"})
    <3>1. TRUE \in Flags
      BY DEF Flags
    <3>2. u.c \in Converters /\ u.c.created = TRUE
      BY <2>3, <3>1 DEF Converters
    <3> QED BY <2>3, <3>2 DEF Converters, SameBut
  <2> QED BY <2>7, <2>10, <2>11, Zenon
<1> QED BY <1>1, <1>2

\* Where the events of an item lead.
LEMMA StagesLead ==
  /\ After("added", "part.added") = "part" /\ After("added", "content.done") = "told"
  /\ After("added", "item.done") = "closed" /\ After("part", "content.done") = "filled"
  /\ After("filled", "part.done") = "told" /\ After("told", "item.done") = "closed"
  /\ After("added", "delta") = "added" /\ After("part", "delta") = "part"
BY DEF After, Contract!StageAfter

\* One event about an item is written.
Writes(s, type, i, kind) == Emit(s, <<Event(type, i, kind)>>)

\* The stages with that of one item set.
At(f, i, st) == [f EXCEPT ![i] = st]

\* The event leads the item to st.
StagedBy(f, i, type, st) == st = After(f[i], type)

EventKinds == {"none", "reasoning", "message", "function"}
Fillings == ItemTypes \ {"item.added"}

\* t is s with events added to what it has written.
Adds(p, s, t, q) == Wrote(p, t, q) /\ t.c = s.c

\* An item is announced.
LEMMA AddItem ==
  ASSUME NEW p, NEW s, NEW n \in Nat, NEW f \in [Nat -> ItemStages], Wrote(p, s, Within(n, f)),
         NEW kind \in EventKinds
  PROVE  /\ Adds(p, s, Writes(s, "item.added", n, kind), Within(n + 1, At(f, n, "added")))
         /\ At(f, n, "added") \in [Nat -> ItemStages]
<1> DEFINE e == Event("item.added", n, kind)
<1>1. e \in ReplyEvents /\ e.type = "item.added" /\ e.at = n
  BY EventIsReply DEF ItemTypes, EventKinds
<1>2. PICK g : g = [f EXCEPT ![n] = "added"]
  OBVIOUS
<1>3. g \in [Nat -> ItemStages]
  BY <1>2 DEF ItemStages
<1>4. PICK q \in Clients : q = Within(n, f)
  BY WithinFields
<1>5. PICK r \in Clients : r = Within(n + 1, g)
  <2>1. n + 1 \in Nat
    OBVIOUS
  <2> QED BY ONLY <1>3, <2>1, WithinFields, Zenon
<1>6. q.mode = "within" /\ q.next = n /\ q.stage = f
  BY <1>4, WithinFields
<1>7. r = [mode |-> "within", next |-> q.next + 1, stage |-> [q.stage EXCEPT ![e.at] = "added"]]
  BY ONLY <1>1, <1>2, <1>5, <1>6, Zenon DEF Within
<1>8. Admits(q, e, r)
  BY ONLY <1>1, <1>6, <1>7, Zenon DEF Admits
<1>9. PICK t : t = Emit(s, <<e>>)
  OBVIOUS
<1> HIDE DEF e
<1>10. Wrote(p, t, r) /\ t.c = s.c
  BY <1>1, <1>4, <1>8, <1>9, EmitOne
<1>11. t = Writes(s, "item.added", n, kind) /\ g = At(f, n, "added")
  BY <1>2, <1>9, Zenon DEF e, Writes, At
<1> QED BY ONLY <1>3, <1>5, <1>10, <1>11 DEF Adds

\* Something about an announced item is written.
LEMMA FillItem ==
  ASSUME NEW p, NEW s, NEW n \in Nat, NEW f \in [Nat -> ItemStages], Wrote(p, s, Within(n, f)),
         NEW type \in Fillings, NEW i \in ItemNumbers(n), NEW kind \in EventKinds,
         NEW st \in ItemStages, StagedBy(f, i, type, st)
  PROVE  /\ Adds(p, s, Writes(s, type, i, kind), Within(n, At(f, i, st)))
         /\ At(f, i, st) \in [Nat -> ItemStages]
<1> DEFINE e == Event(type, i, kind)
<1>1. i \in Nat
  BY DEF ItemNumbers
<1>2. e \in ReplyEvents /\ e.type = type /\ e.at = i
  BY <1>1, EventIsReply DEF ItemTypes, EventKinds, Fillings
<1>3. PICK g : g = [f EXCEPT ![i] = st]
  OBVIOUS
<1>4. g \in [Nat -> ItemStages]
  BY <1>1, <1>3
<1>5. PICK q \in Clients : q = Within(n, f)
  BY WithinFields
<1>6. PICK r \in Clients : r = Within(n, g)
  BY <1>4, WithinFields
<1>7. q.mode = "within" /\ q.next = n /\ q.stage = f
  BY <1>5, WithinFields
<1>8. r = [mode |-> "within", next |-> q.next,
             stage |-> [q.stage EXCEPT ![e.at] = After(q.stage[e.at], e.type)]]
  BY ONLY StagedBy(f, i, type, st), <1>2, <1>3, <1>6, <1>7, Zenon DEF Within, StagedBy
<1>9. Admits(q, e, r)
  <2>1. After(q.stage[e.at], e.type) # "broken"
    BY <1>2, <1>7 DEF ItemStages, StagedBy
  <2>2. e.type \in ItemTypes \ {"item.added"} /\ e.at \in ItemNumbers(q.next)
    BY <1>2, <1>7 DEF Fillings
  <2> QED BY ONLY <1>7, <1>8, <2>1, <2>2, Zenon DEF Admits
<1>10. PICK t : t = Emit(s, <<e>>)
  OBVIOUS
<1> HIDE DEF e
<1>11. Wrote(p, t, r) /\ t.c = s.c
  BY <1>2, <1>5, <1>9, <1>10, EmitOne
<1>12. t = Writes(s, type, i, kind) /\ g = At(f, i, st)
  BY <1>3, <1>10, Zenon DEF e, Writes, At
<1> QED BY ONLY <1>4, <1>6, <1>11, <1>12 DEF Adds

\* Two or three events about an item are written one by one.
WrittenSingly(s, i, kind, a, b, d) ==
  /\ Emit(s, <<Event(a, i, kind), Event(b, i, kind)>>) = Writes(Writes(s, a, i, kind), b, i, kind)
  /\ Emit(s, <<Event(a, i, kind), Event(b, i, kind), Event(d, i, kind)>>)
       = Writes(Writes(Writes(s, a, i, kind), b, i, kind), d, i, kind)

LEMMA WritesMore ==
  ASSUME NEW p, NEW s, NEW q, Wrote(p, s, q), NEW i \in Int, NEW kind \in EventKinds,
         NEW a \in ItemTypes, NEW b \in ItemTypes, NEW d \in ItemTypes
  PROVE  WrittenSingly(s, i, kind, a, b, d)
<1>1. AStep(s)
  BY DEF Wrote, AStep
<1>2. /\ Event(a, i, kind) \in ReplyEvents /\ Event(b, i, kind) \in ReplyEvents
      /\ Event(d, i, kind) \in ReplyEvents
  BY EventIsReply DEF EventKinds
<1>3. OneByOne(s, Event(a, i, kind), Event(b, i, kind), Event(d, i, kind))
  BY ONLY <1>1, <1>2, EmitMore, Zenon
<1> QED BY ONLY <1>3, Zenon DEF OneByOne, Writes, WrittenSingly

\* An item with a content part is announced.
LEMMA AddPart ==
  ASSUME NEW p, NEW s, NEW n \in Nat, NEW f \in [Nat -> ItemStages], Wrote(p, s, Within(n, f)),
         NEW kind \in EventKinds, NEW t,
         t = Emit(s, <<Event("item.added", n, kind), Event("part.added", n, kind)>>)
  PROVE  Adds(p, s, t, Within(n + 1, At(f, n, "part")))
<1>1. PICK x : x = Writes(s, "item.added", n, kind)
  OBVIOUS
<1>2. PICK g : g = At(f, n, "added")
  OBVIOUS
<1>3. Wrote(p, x, Within(n + 1, g)) /\ x.c = s.c /\ g \in [Nat -> ItemStages]
  <2>1. Adds(p, s, x, Within(n + 1, g)) /\ g \in [Nat -> ItemStages]
    BY <1>1, <1>2, AddItem, Zenon
  <2> QED BY <2>1, Zenon DEF Adds
<1>4. t = Writes(x, "part.added", n, kind)
  <2>1. "item.added" \in ItemTypes /\ "part.added" \in ItemTypes /\ n \in Int
    BY DEF ItemTypes
  <2>2. WrittenSingly(s, n, kind, "item.added", "part.added", "part.added")
    BY ONLY <2>1, kind \in EventKinds, Wrote(p, s, Within(n, f)), WritesMore, Zenon
  <2> QED BY <1>1, <2>2, Zenon DEF WrittenSingly
<1>5. "part.added" \in Fillings /\ n \in ItemNumbers(n + 1) /\ n + 1 \in Nat /\ "part" \in ItemStages
  BY DEF Fillings, ItemTypes, ItemNumbers, ItemStages
<1>6. StagedBy(g, n, "part.added", "part")
  BY <1>2, StagesLead DEF StagedBy, At
<1>7. Adds(p, x, t, Within(n + 1, At(g, n, "part")))
  BY ONLY <1>3, <1>4, <1>5, <1>6, kind \in EventKinds, FillItem, Zenon
<1>8. At(g, n, "part") = At(f, n, "part")
  BY <1>2 DEF At
<1> QED BY <1>3, <1>7, <1>8 DEF Adds

\* An item is closed: one with a content part, one without, and a call.
LEMMA CloseItem ==
  ASSUME NEW p, NEW s, NEW n \in Nat, NEW f \in [Nat -> ItemStages], Wrote(p, s, Within(n, f)),
         NEW i \in ItemNumbers(n), NEW kind \in EventKinds, NEW t,
         \/ /\ f[i] = "part"
            /\ t = Emit(s, <<Event("content.done", i, kind), Event("part.done", i, kind),
                             Event("item.done", i, kind)>>)
         \/ f[i] = "added" /\ t = Emit(s, <<Event("item.done", i, kind)>>)
         \/ /\ f[i] = "added"
            /\ t = Emit(s, <<Event("content.done", i, kind), Event("item.done", i, kind)>>)
  PROVE  Adds(p, s, t, Within(n, At(f, i, "closed")))
<1>1. /\ "content.done" \in Fillings /\ "part.done" \in Fillings /\ "item.done" \in Fillings
      /\ "filled" \in ItemStages /\ "told" \in ItemStages /\ "closed" \in ItemStages
      /\ i \in Nat /\ i \in Int
  BY DEF Fillings, ItemTypes, ItemStages, ItemNumbers
<1>2. Fillings \subseteq ItemTypes
  BY DEF Fillings
<1>3. CASE /\ f[i] = "part"
           /\ t = Emit(s, <<Event("content.done", i, kind), Event("part.done", i, kind),
                            Event("item.done", i, kind)>>)
  <2>1. PICK x : x = Writes(s, "content.done", i, kind)
    OBVIOUS
  <2>2. PICK y : y = Writes(x, "part.done", i, kind)
    OBVIOUS
  <2>3. t = Writes(y, "item.done", i, kind)
    <3>1. WrittenSingly(s, i, kind, "content.done", "part.done", "item.done")
      BY ONLY <1>1, <1>2, kind \in EventKinds, Wrote(p, s, Within(n, f)), WritesMore, Zenon
    <3> QED BY <1>3, <2>1, <2>2, <3>1, Zenon DEF WrittenSingly
  <2>4. PICK g : g = At(f, i, "filled")
    OBVIOUS
  <2>5. PICK h : h = At(g, i, "told")
    OBVIOUS
  <2>6. StagedBy(f, i, "content.done", "filled")
    BY <1>3, StagesLead DEF StagedBy
  <2>7. Adds(p, s, x, Within(n, g)) /\ g \in [Nat -> ItemStages]
    BY ONLY <1>1, <2>1, <2>4, <2>6, n \in Nat, f \in [Nat -> ItemStages], i \in ItemNumbers(n),
         kind \in EventKinds, Wrote(p, s, Within(n, f)), FillItem, Zenon
  <2>8. StagedBy(g, i, "part.done", "told") /\ Wrote(p, x, Within(n, g))
    BY <1>1, <2>4, <2>7, StagesLead DEF StagedBy, At, Adds
  <2>9. Adds(p, x, y, Within(n, h)) /\ h \in [Nat -> ItemStages]
    BY ONLY <1>1, <2>2, <2>5, <2>7, <2>8, n \in Nat, i \in ItemNumbers(n),
         kind \in EventKinds, FillItem, Zenon
  <2>10. StagedBy(h, i, "item.done", "closed") /\ Wrote(p, y, Within(n, h))
    BY <1>1, <2>5, <2>7, <2>9, StagesLead DEF StagedBy, At, Adds
  <2>11. Adds(p, y, t, Within(n, At(h, i, "closed")))
    BY ONLY <1>1, <2>3, <2>9, <2>10, n \in Nat, i \in ItemNumbers(n),
         kind \in EventKinds, FillItem, Zenon
  <2>12. At(h, i, "closed") = At(f, i, "closed")
    BY <1>1, <2>4, <2>5 DEF At
  <2> QED BY <2>7, <2>9, <2>11, <2>12 DEF Adds
<1>4. CASE f[i] = "added" /\ t = Emit(s, <<Event("item.done", i, kind)>>)
  <2>1. StagedBy(f, i, "item.done", "closed")
    BY <1>4, StagesLead DEF StagedBy
  <2>2. t = Writes(s, "item.done", i, kind)
    BY <1>4 DEF Writes
  <2> QED BY ONLY <1>1, <2>1, <2>2, n \in Nat, f \in [Nat -> ItemStages], i \in ItemNumbers(n),
         kind \in EventKinds, Wrote(p, s, Within(n, f)), FillItem, Zenon
<1>5. CASE /\ f[i] = "added"
           /\ t = Emit(s, <<Event("content.done", i, kind), Event("item.done", i, kind)>>)
  <2>1. PICK x : x = Writes(s, "content.done", i, kind)
    OBVIOUS
  <2>2. t = Writes(x, "item.done", i, kind)
    <3>1. WrittenSingly(s, i, kind, "content.done", "item.done", "item.done")
      BY ONLY <1>1, <1>2, kind \in EventKinds, Wrote(p, s, Within(n, f)), WritesMore, Zenon
    <3> QED BY <1>5, <2>1, <3>1, Zenon DEF WrittenSingly
  <2>3. PICK g : g = At(f, i, "told")
    OBVIOUS
  <2>4. StagedBy(f, i, "content.done", "told")
    BY <1>5, StagesLead DEF StagedBy
  <2>5. Adds(p, s, x, Within(n, g)) /\ g \in [Nat -> ItemStages]
    BY ONLY <1>1, <2>1, <2>3, <2>4, n \in Nat, f \in [Nat -> ItemStages], i \in ItemNumbers(n),
         kind \in EventKinds, Wrote(p, s, Within(n, f)), FillItem, Zenon
  <2>6. StagedBy(g, i, "item.done", "closed") /\ Wrote(p, x, Within(n, g))
    BY <1>1, <2>3, <2>5, StagesLead DEF StagedBy, At, Adds
  <2>7. Adds(p, x, t, Within(n, At(g, i, "closed")))
    BY ONLY <1>1, <2>2, <2>5, <2>6, n \in Nat, i \in ItemNumbers(n),
         kind \in EventKinds, FillItem, Zenon
  <2>8. At(g, i, "closed") = At(f, i, "closed")
    BY <1>1, <2>3 DEF At
  <2> QED BY <2>5, <2>7, <2>8 DEF Adds
<1> QED BY <1>3, <1>4, <1>5

\* The next number is that of reasoning, of the message or of one call more.
LEMMA DistinctMore ==
  ASSUME NEW ns, NEW i, i \notin ns, i # None, None \notin ns, NEW r, NEW m, NEW ts, Distinct(ns, r, m, ts),
         NEW more, more = ns \cup {i}
  PROVE  /\ r = None => Distinct(more, i, m, ts)
         /\ m = None => Distinct(more, r, i, ts)
         /\ \A y : y \notin DOMAIN ts =>
              Distinct(more, r, m, WithCall(ts, y, i))
<1>1. ASSUME r = None PROVE Distinct(more, i, m, ts)
  BY <1>1 DEF Distinct
<1>2. ASSUME m = None PROVE Distinct(more, r, i, ts)
  BY <1>2 DEF Distinct
<1>3. ASSUME NEW y, y \notin DOMAIN ts
      PROVE  Distinct(more, r, m, WithCall(ts, y, i))
  <2>1. PICK us : us = WithCall(ts, y, i)
    OBVIOUS
  <2>2. /\ DOMAIN us = DOMAIN ts \cup {y} /\ us[y] = i
        /\ \A x \in DOMAIN ts : us[x] = ts[x]
    BY <1>3, <2>1 DEF WithCall
  <2>3. Distinct(more, r, m, us)
    BY <1>3, <2>2 DEF Distinct
  <2> QED BY <2>1, <2>3
<1> QED BY <1>1, <1>2, <1>3

\* Reasoning was announced.
LEMMA ReasoningAnnounced ==
  ASSUME NEW c, NEW d, ConverterOK(c), c.reasoning = "none", c.next \in Nat,
         SameBut(c, d, {"reasoning", "reasoningAt", "next", "created"}), d.created,
         d.reasoning = "open", d.reasoningAt = c.next, d.next = c.next + 1
  PROVE  /\ ConverterOK(d)
         /\ StagesIn(d) = At(StagesIn(c), c.next, "part")
<1>1. /\ c \in Converters /\ c.reasoningAt = None /\ ItemsDistinct(c)
      /\ IsFiniteSet(DOMAIN c.tools)
  BY DEF ConverterOK
<1>2. /\ d \in Converters /\ d.messageAt = c.messageAt /\ d.tools = c.tools
      /\ d.compat = c.compat
  BY DEF SameBut
<1>3. c.next # None /\ ItemNumbers(c.next + 1) = ItemNumbers(c.next) \cup {c.next}
      /\ c.next \notin ItemNumbers(c.next) /\ None \notin ItemNumbers(c.next)
  BY DEF ItemNumbers, None
<1>4. ItemsDistinct(d)
  <2>1. Distinct(ItemNumbers(c.next), c.reasoningAt, c.messageAt, c.tools)
    BY <1>1 DEF ItemsDistinct
  <2>2. Distinct(ItemNumbers(c.next + 1), c.next, c.messageAt, c.tools)
    BY ONLY <1>1, <1>3, <2>1, DistinctMore, Zenon
  <2> QED BY <1>2, <2>2 DEF ItemsDistinct
<1>5. ConverterOK(d)
  BY <1>1, <1>2, <1>3, <1>4 DEF ConverterOK
<1>6. \A j \in Nat : StageIn(d, j) = IF j = c.next THEN "part" ELSE StageIn(c, j)
  BY <1>1, <1>2, <1>3 DEF StageIn, None
<1>7. StagesIn(d) = At(StagesIn(c), c.next, "part")
  BY <1>6 DEF StagesIn, At
<1> QED BY <1>5, <1>7

\* A step of a converter in order, and what it has shown.
LEMMA SpeaksFields ==
  ASSUME NEW p, NEW s, Speaks(p, s)
  PROVE  /\ ConverterOK(s.c) /\ s.c \in Converters /\ s.c.next \in Nat
         /\ StagesIn(s.c) \in [Nat -> ItemStages]
         /\ s = [c |-> s.c, out |-> s.out] /\ s.out \in Seq(ReplyEvents)
         /\ Wrote(p, s, [mode |-> ModeIn(s.c), next |-> s.c.next, stage |-> StagesIn(s.c)])
<1>1. ConverterOK(s.c) /\ s.c \in Converters
  BY DEF Speaks, ConverterOK
<1>2. s = [c |-> s.c, out |-> s.out] /\ s.out \in Seq(ReplyEvents)
  BY DEF Speaks, Wrote
<1>3. Wrote(p, s, [mode |-> ModeIn(s.c), next |-> s.c.next, stage |-> StagesIn(s.c)])
  BY Zenon DEF Speaks, Shown
<1> QED BY <1>1, <1>2, <1>3, ConverterFields, ShownFields

\* What leads to what is shown is in step.
LEMMA SpeaksNow ==
  ASSUME NEW p, NEW t, ConverterOK(t.c), t.c.created,
         NEW n, n = t.c.next, NEW f, f = StagesIn(t.c), Wrote(p, t, Within(n, f))
  PROVE  Speaks(p, t)
<1>1. Shown(t.c) = Within(n, f)
  BY ShownFields DEF ConverterOK
<1> QED BY <1>1 DEF Speaks

\* The converter is changed and has not written of it yet.
LEMMA Unwritten ==
  ASSUME NEW p, NEW s, NEW q, Wrote(p, s, q), NEW u, u = [c |-> u.c, out |-> u.out],
         u.out = s.out
  PROVE  Wrote(p, u, q)
BY DEF Wrote

\* The item of reasoning is announced before anything is written into it.
LEMMA EnsureReasoningOK ==
  ASSUME NEW p, NEW s, Speaks(p, s), NEW t, t = EnsureReasoning(s)
  PROVE  /\ Speaks(p, t) /\ t.c.reasoning # "none"
         /\ t.c.completed = s.c.completed
<1>1. /\ ConverterOK(s.c) /\ s.c \in Converters /\ s.c.next \in Nat
      /\ StagesIn(s.c) \in [Nat -> ItemStages]
      /\ s = [c |-> s.c, out |-> s.out] /\ s.out \in Seq(ReplyEvents)
      /\ Wrote(p, s, [mode |-> ModeIn(s.c), next |-> s.c.next, stage |-> StagesIn(s.c)])
  BY SpeaksFields
<1>2. CASE s.c.reasoning # "none"
  BY <1>2 DEF EnsureReasoning
<1>3. CASE s.c.reasoning = "none"
  <2>1. PICK i \in Nat : i = s.c.next
    BY <1>1
  <2>2. PICK u : u = [s EXCEPT !.c.reasoning = "open", !.c.reasoningAt = i, !.c.next = i + 1]
    OBVIOUS
  <2>3. PICK v : v = EnsureCreated(u)
    OBVIOUS
  <2>4. t = Emit(v, <<Event("item.added", i, "reasoning"), Event("part.added", i, "reasoning")>>)
    BY <1>3, <2>1, <2>2, <2>3 DEF EnsureReasoning
  <2>7. /\ u.c = [s.c EXCEPT !.reasoning = "open", !.reasoningAt = i, !.next = i + 1]
        /\ u.out = s.out /\ u = [c |-> u.c, out |-> u.out]
    BY <1>1, <2>2
  <2>8. /\ SameBut(s.c, u.c, {"reasoning", "reasoningAt", "next"})
        /\ u.c.reasoning = "open" /\ u.c.reasoningAt = i /\ u.c.next = i + 1
    <3>1. i \in Int /\ i + 1 \in Nat /\ "open" \in Reasonings
      BY DEF Reasonings
    <3> QED BY <1>1, <2>7, <3>1 DEF Converters, SameBut
  <2>9. ModeIn(u.c) = ModeIn(s.c) /\ u.c \in Converters
    BY <2>8 DEF ModeIn, SameBut
  <2>10. Wrote(p, u, [mode |-> ModeIn(u.c), next |-> i, stage |-> StagesIn(s.c)])
    BY <1>1, <2>1, <2>7, <2>9, Unwritten
  <2>11. Wrote(p, v, Within(i, StagesIn(s.c))) /\ v.c.created /\ SameBut(u.c, v.c, {"created"})
    BY <1>1, <2>3, <2>9, <2>10, EnsureCreatedOK, Zenon
  <2>12. /\ SameBut(s.c, v.c, {"reasoning", "reasoningAt", "next", "created"})
         /\ v.c.reasoning = "open" /\ v.c.reasoningAt = s.c.next /\ v.c.next = s.c.next + 1
         /\ v.c.completed = s.c.completed
    BY <2>1, <2>8, <2>11 DEF SameBut
  <2>13. ConverterOK(v.c) /\ StagesIn(v.c) = At(StagesIn(s.c), i, "part")
    BY <1>1, <1>3, <2>1, <2>11, <2>12, ReasoningAnnounced
  <2>14. Adds(p, v, t, Within(i + 1, At(StagesIn(s.c), i, "part")))
    <3>1. i \in Nat /\ "reasoning" \in EventKinds
      BY DEF EventKinds
    <3> QED BY ONLY <1>1, <2>4, <2>11, <3>1, AddPart, Zenon
  <2>15. Wrote(p, t, Within(i + 1, At(StagesIn(s.c), i, "part"))) /\ t.c = v.c
    BY <2>14, Zenon DEF Adds
  <2>16. Speaks(p, t)
    BY <2>1, <2>11, <2>12, <2>13, <2>15, SpeaksNow
  <2> QED BY <2>12, <2>15, <2>16
<1> QED BY <1>2, <1>3

\* Reasoning was closed.
LEMMA ReasoningClosed ==
  ASSUME NEW c, NEW d, ConverterOK(c), c.reasoning = "open",
         SameBut(c, d, {"reasoning"}), d.reasoning = "done"
  PROVE  /\ ConverterOK(d) /\ c.reasoningAt \in ItemNumbers(c.next) /\ c.created
         /\ StagesIn(c)[c.reasoningAt] = "part"
         /\ StagesIn(d) = At(StagesIn(c), c.reasoningAt, "closed")
<1>1. /\ c \in Converters /\ c.next \in Nat /\ c.reasoningAt # None /\ ItemsDistinct(c)
      /\ IsFiniteSet(DOMAIN c.tools)
  BY ConverterFields DEF ConverterOK
<1>2. /\ d \in Converters /\ d.messageAt = c.messageAt /\ d.tools = c.tools
      /\ d.compat = c.compat /\ d.reasoningAt = c.reasoningAt /\ d.next = c.next
      /\ d.created = c.created
  BY DEF SameBut
<1>3. c.reasoningAt \in ItemNumbers(c.next) /\ c.created
  <2>1. c.reasoningAt \in ItemNumbers(c.next)
    BY <1>1 DEF ItemsDistinct, Distinct
  <2>2. c.next > 0
    BY <1>1, <2>1 DEF ItemNumbers
  <2> QED BY <2>1, <2>2 DEF ConverterOK
<1>4. ConverterOK(d)
  <2>1. ItemsDistinct(d)
    BY <1>1, <1>2, Zenon DEF ItemsDistinct
  <2>2. d.next > 0 => d.created
    BY <1>2, <1>3
  <2>3. d.reasoning = "none" <=> d.reasoningAt = None
    BY <1>1, <1>2
  <2> QED BY <1>1, <1>2, <2>1, <2>2, <2>3, Zenon DEF ConverterOK
<1>5. c.reasoningAt \in Nat /\ c.reasoningAt < c.next
  BY <1>1, <1>3 DEF ItemNumbers
<1>6. StageIn(c, c.reasoningAt) = "part"
  BY <1>1, <1>5 DEF StageIn
<1>7. \A j \in Nat : StageIn(d, j) = IF j = c.reasoningAt THEN "closed" ELSE StageIn(c, j)
  BY <1>1, <1>2, <1>5 DEF StageIn
<1>8. StagesIn(d) = At(StagesIn(c), c.reasoningAt, "closed")
  BY <1>7 DEF StagesIn, At
<1>9. StagesIn(c)[c.reasoningAt] = "part"
  BY <1>5, <1>6 DEF StagesIn
<1> QED BY <1>3, <1>4, <1>8, <1>9

\* The item of reasoning is closed before anything else is written.
LEMMA CloseReasoningOK ==
  ASSUME NEW p, NEW s, Speaks(p, s), NEW t, t = CloseReasoning(s)
  PROVE  /\ Speaks(p, t) /\ t.c.reasoning # "open"
         /\ SameBut(s.c, t.c, {"reasoning"})
<1>1. /\ ConverterOK(s.c) /\ s.c \in Converters /\ s.c.next \in Nat
      /\ StagesIn(s.c) \in [Nat -> ItemStages]
      /\ s = [c |-> s.c, out |-> s.out] /\ s.out \in Seq(ReplyEvents)
      /\ Wrote(p, s, [mode |-> ModeIn(s.c), next |-> s.c.next, stage |-> StagesIn(s.c)])
  BY SpeaksFields
<1>2. CASE s.c.reasoning # "open"
  BY <1>1, <1>2 DEF CloseReasoning, SameBut
<1>3. CASE s.c.reasoning = "open"
  <2>1. PICK i : i = s.c.reasoningAt
    OBVIOUS
  <2>2. PICK u : u = [s EXCEPT !.c.reasoning = "done"]
    OBVIOUS
  <2>3. t = Emit(u, <<Event("content.done", i, "reasoning"), Event("part.done", i, "reasoning"),
                      Event("item.done", i, "reasoning")>>)
    BY <1>3, <2>1, <2>2 DEF CloseReasoning
  <2>7. u.c = [s.c EXCEPT !.reasoning = "done"] /\ u.out = s.out /\ u = [c |-> u.c, out |-> u.out]
    BY <1>1, <2>2
  <2>8. SameBut(s.c, u.c, {"reasoning"}) /\ u.c.reasoning = "done"
    <3>1. "done" \in Reasonings
      BY DEF Reasonings
    <3> QED BY <1>1, <2>7, <3>1 DEF Converters, SameBut
  <2>9. PICK f \in [Nat -> ItemStages] : f = StagesIn(s.c)
    BY <1>1
  <2>10. /\ ConverterOK(u.c) /\ i \in ItemNumbers(s.c.next) /\ s.c.created
         /\ f[i] = "part" /\ StagesIn(u.c) = At(f, i, "closed")
    BY <1>1, <1>3, <2>1, <2>8, <2>9, ReasoningClosed
  <2>11. Wrote(p, u, Within(s.c.next, f))
    <3>1. ModeIn(s.c) = "within"
      BY <2>10 DEF ModeIn
    <3>2. Wrote(p, s, Within(s.c.next, f))
      BY ONLY <1>1, <2>9, <3>1, Zenon DEF Within
    <3> QED BY ONLY <2>7, <3>2, Unwritten, Zenon
  <2>12. Adds(p, u, t, Within(s.c.next, At(f, i, "closed")))
    <3>1. "reasoning" \in EventKinds
      BY DEF EventKinds
    <3> QED BY ONLY <1>1, f \in [Nat -> ItemStages], <2>3, <2>10, <2>11, <3>1, CloseItem, Zenon
  <2>13. u.c.created /\ u.c.next = s.c.next
    BY <2>8, <2>10 DEF SameBut
  <2>14. Wrote(p, t, Within(s.c.next, At(f, i, "closed"))) /\ t.c = u.c
    BY <2>12, Zenon DEF Adds
  <2>15. Speaks(p, t)
    BY <2>10, <2>13, <2>14, SpeaksNow
  <2> QED BY <2>8, <2>14, <2>15
<1> QED BY <1>2, <1>3

\* The message was announced.
LEMMA MessageAnnounced ==
  ASSUME NEW c, NEW d, ConverterOK(c), c.messageAt = None,
         SameBut(c, d, {"messageAt", "next", "created"}), d.created,
         d.messageAt = c.next, d.next = c.next + 1
  PROVE  /\ ConverterOK(d)
         /\ StagesIn(d) = At(StagesIn(c), c.next, IF c.compat THEN "added" ELSE "part")
<1>1. /\ c \in Converters /\ c.next \in Nat /\ ItemsDistinct(c)
      /\ IsFiniteSet(DOMAIN c.tools)
      /\ c.reasoning = "none" <=> c.reasoningAt = None
  BY ConverterFields DEF ConverterOK
<1>2. /\ d \in Converters /\ d.reasoningAt = c.reasoningAt /\ d.reasoning = c.reasoning
      /\ d.tools = c.tools /\ d.compat = c.compat
  BY DEF SameBut
<1>3. c.next # None /\ ItemNumbers(c.next + 1) = ItemNumbers(c.next) \cup {c.next}
      /\ c.next \notin ItemNumbers(c.next) /\ None \notin ItemNumbers(c.next)
  BY <1>1 DEF ItemNumbers, None
<1>4. ItemsDistinct(d)
  <2>1. Distinct(ItemNumbers(c.next), c.reasoningAt, c.messageAt, c.tools)
    BY <1>1 DEF ItemsDistinct
  <2>2. Distinct(ItemNumbers(c.next + 1), c.reasoningAt, c.next, c.tools)
    BY ONLY <1>1, <1>3, <2>1, c.messageAt = None, DistinctMore, Zenon
  <2> QED BY <1>2, <2>2 DEF ItemsDistinct
<1>5. ConverterOK(d)
  <2>1. d.next > 0 => d.created
    OBVIOUS
  <2>2. d.reasoning = "none" <=> d.reasoningAt = None
    BY <1>1, <1>2
  <2> QED BY <1>1, <1>2, <1>4, <2>1, <2>2, Zenon DEF ConverterOK
<1>6. c.next # c.reasoningAt
  BY <1>1, <1>3 DEF ItemsDistinct, Distinct
<1>7. PICK st : st = IF c.compat THEN "added" ELSE "part"
  OBVIOUS
<1>8. \A j \in Nat : StageIn(d, j) = IF j = c.next THEN st ELSE StageIn(c, j)
  <2> SUFFICES ASSUME NEW j \in Nat PROVE StageIn(d, j) = IF j = c.next THEN st ELSE StageIn(c, j)
    OBVIOUS
  <2>1. CASE j = c.next
    <3>1. StageIn(d, j) = IF ~d.compat THEN "part" ELSE "added"
      BY <1>1, <1>2, <1>6, <2>1 DEF StageIn
    <3> QED BY <1>2, <1>7, <2>1, <3>1
  <2>2. CASE j > c.next
    BY <1>1, <2>2 DEF StageIn
  <2>3. CASE j < c.next
    <3>1. j # c.messageAt /\ j # d.messageAt /\ ~(j >= d.next) /\ ~(j >= c.next)
      BY <1>1, <2>3 DEF None
    <3> QED BY <1>2, <2>3, <3>1, Zenon DEF StageIn
  <2> QED BY <1>1, <2>1, <2>2, <2>3
<1>9. StagesIn(d) = At(StagesIn(c), c.next, st)
  BY <1>8 DEF StagesIn, At
<1> QED BY <1>5, <1>7, <1>9

\* The message is announced before anything is written into it.
LEMMA EnsureTextOK ==
  ASSUME NEW p, NEW s, Speaks(p, s), NEW t, t = EnsureText(s)
  PROVE  /\ Speaks(p, t) /\ t.c.messageAt # None
         /\ SameBut(s.c, t.c, {"messageAt", "next", "created"})
<1>1. /\ ConverterOK(s.c) /\ s.c \in Converters /\ s.c.next \in Nat
      /\ StagesIn(s.c) \in [Nat -> ItemStages]
      /\ s = [c |-> s.c, out |-> s.out] /\ s.out \in Seq(ReplyEvents)
      /\ Wrote(p, s, [mode |-> ModeIn(s.c), next |-> s.c.next, stage |-> StagesIn(s.c)])
  BY SpeaksFields
<1>2. CASE s.c.messageAt # None
  BY <1>1, <1>2 DEF EnsureText, SameBut
<1>3. CASE s.c.messageAt = None
  <2>1. PICK i \in Nat : i = s.c.next
    BY <1>1
  <2>2. PICK v : v = EnsureCreated(s)
    OBVIOUS
  <2>3. Wrote(p, v, Within(i, StagesIn(s.c))) /\ v.c.created /\ SameBut(s.c, v.c, {"created"})
    BY ONLY <1>1, <2>1, <2>2, EnsureCreatedOK, Zenon
  <2>4. v.c.next = i /\ v.c.compat = s.c.compat /\ v.c \in Converters
        /\ v = [c |-> v.c, out |-> v.out]
    BY <2>1, <2>3 DEF SameBut, Wrote
  <2>5. PICK u : u = [v EXCEPT !.c.messageAt = i, !.c.next = i + 1]
    OBVIOUS
  <2>6. /\ t = Emit(u, <<Event("item.added", i, "message")>>
                         \o IF u.c.compat THEN <<>> ELSE <<Event("part.added", i, "message")>>)
        /\ u.c = [v.c EXCEPT !.messageAt = i, !.next = i + 1] /\ u.out = v.out
        /\ u = [c |-> u.c, out |-> u.out]
    <3>1. u.c = [v.c EXCEPT !.messageAt = i, !.next = i + 1] /\ u.out = v.out
          /\ u = [c |-> u.c, out |-> u.out]
      BY <2>4, <2>5
    <3>2. u.c.compat = s.c.compat
      BY <2>4, <3>1 DEF Converters
    <3>3. t = Emit(u, <<Event("item.added", i, "message")>>
                        \o IF s.c.compat THEN <<>> ELSE <<Event("part.added", i, "message")>>)
      BY ONLY <1>3, <2>2, <2>4, <2>5, t = EnsureText(s), Zenon DEF EnsureText
    <3> QED BY <3>1, <3>2, <3>3
  <2>7. /\ SameBut(s.c, u.c, {"messageAt", "next", "created"}) /\ u.c.created
        /\ u.c.messageAt = s.c.next /\ u.c.next = s.c.next + 1
    <3>1. i \in Int /\ i + 1 \in Nat
      OBVIOUS
    <3> QED BY <2>1, <2>3, <2>4, <2>6, <3>1 DEF Converters, SameBut
  <2>8. PICK st : st = IF s.c.compat THEN "added" ELSE "part"
    OBVIOUS
  <2>9. PICK f \in [Nat -> ItemStages] : f = StagesIn(s.c)
    BY <1>1
  <2>10. ConverterOK(u.c) /\ StagesIn(u.c) = At(f, i, st)
    BY <1>1, <1>3, <2>1, <2>7, <2>8, <2>9, MessageAnnounced
  <2>11. Wrote(p, u, Within(i, f))
    BY ONLY <2>3, <2>6, <2>9, Unwritten, Zenon
  <2>12. "message" \in EventKinds
    BY DEF EventKinds
  <2>13. Adds(p, u, t, Within(i + 1, At(f, i, st)))
    <3>1. CASE ~s.c.compat
      <4>1. st = "part" /\ ~u.c.compat
        BY <2>7, <2>8, <3>1 DEF SameBut
      <4>2. t = Emit(u, <<Event("item.added", i, "message"), Event("part.added", i, "message")>>)
        <5>1. t = Emit(u, <<Event("item.added", i, "message")>> \o <<Event("part.added", i, "message")>>)
          BY ONLY <2>6, <4>1, Zenon
        <5>2. /\ Event("item.added", i, "message") \in ReplyEvents
              /\ Event("part.added", i, "message") \in ReplyEvents
          BY EventIsReply DEF ItemTypes
        <5> QED BY ONLY <5>1, <5>2, ConcatTwo, Zenon
      <4> QED BY ONLY f \in [Nat -> ItemStages], i \in Nat, <2>11, <2>12, <4>1, <4>2, AddPart, Zenon
    <3>2. CASE s.c.compat
      <4>1. st = "added" /\ u.c.compat
        BY <2>7, <2>8, <3>2 DEF SameBut
      <4>2. t = Emit(u, <<Event("item.added", i, "message")>>)
        BY <2>6, <4>1
      <4>3. t = Writes(u, "item.added", i, "message")
        BY <4>2 DEF Writes
      <4> QED BY ONLY f \in [Nat -> ItemStages], i \in Nat, <2>11, <2>12, <4>1, <4>3, AddItem, Zenon
    <3> QED BY <3>1, <3>2
  <2>14. Wrote(p, t, Within(i + 1, At(f, i, st))) /\ t.c = u.c
    BY <2>13, Zenon DEF Adds
  <2>15. Speaks(p, t)
    BY <2>1, <2>7, <2>10, <2>14, SpeaksNow
  <2>16. t.c.messageAt # None
    BY <2>1, <2>7, <2>14 DEF None
  <2> QED BY <2>7, <2>14, <2>15, <2>16
<1> QED BY <1>2, <1>3

\* A piece of an item that is open.
LEMMA DeltaOK ==
  ASSUME NEW p, NEW s, Speaks(p, s), NEW i \in ItemNumbers(s.c.next), NEW kind \in EventKinds,
         StageIn(s.c, i) \in {"added", "part"}, NEW t, t = Emit(s, <<Event("delta", i, kind)>>)
  PROVE  Speaks(p, t) /\ t.c = s.c
<1>1. /\ ConverterOK(s.c) /\ s.c \in Converters /\ s.c.next \in Nat
      /\ StagesIn(s.c) \in [Nat -> ItemStages]
      /\ s = [c |-> s.c, out |-> s.out] /\ s.out \in Seq(ReplyEvents)
      /\ Wrote(p, s, [mode |-> ModeIn(s.c), next |-> s.c.next, stage |-> StagesIn(s.c)])
  BY SpeaksFields
<1>2. PICK n \in Nat : n = s.c.next
  BY <1>1
<1>3. PICK f \in [Nat -> ItemStages] : f = StagesIn(s.c)
  BY <1>1
<1>4. i \in Nat /\ s.c.created
  BY <1>1 DEF ItemNumbers, ConverterOK
<1>5. Wrote(p, s, Within(n, f))
  <2>1. ModeIn(s.c) = "within"
    BY <1>4 DEF ModeIn
  <2> QED BY ONLY <1>1, <1>2, <1>3, <2>1, Zenon DEF Within
<1>6. f[i] \in {"added", "part"}
  BY <1>3, <1>4 DEF StagesIn
<1>7. PICK st \in ItemStages : st = f[i]
  BY <1>4
<1>8. StagedBy(f, i, "delta", st) /\ At(f, i, st) = f
  BY <1>4, <1>6, <1>7, StagesLead DEF StagedBy, At
<1>9. Adds(p, s, t, Within(n, At(f, i, st)))
  <2>1. t = Writes(s, "delta", i, kind)
    BY DEF Writes
  <2>2. "delta" \in Fillings /\ i \in ItemNumbers(n)
    BY <1>2 DEF Fillings, ItemTypes
  <2> QED BY ONLY f \in [Nat -> ItemStages], n \in Nat, <1>5, <1>8, <2>1, <2>2, st \in ItemStages,
            kind \in EventKinds, FillItem, Zenon
<1>10. Wrote(p, t, Within(n, f)) /\ t.c = s.c
  BY <1>8, <1>9, Zenon DEF Adds
<1>11. Speaks(p, t)
  BY <1>1, <1>2, <1>3, <1>4, <1>10, SpeaksNow
<1> QED BY <1>10, <1>11

\* A call was announced.
LEMMA CallAnnounced ==
  ASSUME NEW c, NEW d, NEW y \in Int, ConverterOK(c), y \notin DOMAIN c.tools,
         SameBut(c, d, {"tools", "next", "created"}), d.created, d.next = c.next + 1,
         d.tools = WithCall(c.tools, y, c.next)
  PROVE  ConverterOK(d) /\ StagesIn(d) = At(StagesIn(c), c.next, "added")
<1>1. /\ c \in Converters /\ c.next \in Nat /\ ItemsDistinct(c)
      /\ IsFiniteSet(DOMAIN c.tools)
      /\ c.reasoning = "none" <=> c.reasoningAt = None
  BY ConverterFields DEF ConverterOK
<1>2. /\ d \in Converters /\ d.reasoningAt = c.reasoningAt /\ d.reasoning = c.reasoning
      /\ d.messageAt = c.messageAt /\ d.compat = c.compat
  BY DEF SameBut
<1>3. c.next # None /\ ItemNumbers(c.next + 1) = ItemNumbers(c.next) \cup {c.next}
      /\ c.next \notin ItemNumbers(c.next) /\ None \notin ItemNumbers(c.next)
  BY <1>1 DEF ItemNumbers, None
<1>4. ItemsDistinct(d)
  <2>1. Distinct(ItemNumbers(c.next), c.reasoningAt, c.messageAt, c.tools)
    BY <1>1 DEF ItemsDistinct
  <2>2. Distinct(ItemNumbers(c.next + 1), c.reasoningAt, c.messageAt,
                 WithCall(c.tools, y, c.next))
    BY ONLY <1>1, <1>3, <2>1, y \notin DOMAIN c.tools, DistinctMore, Zenon
  <2> QED BY <1>2, <2>2 DEF ItemsDistinct
<1>5. ConverterOK(d)
  <2>1. d.next > 0 => d.created
    OBVIOUS
  <2>2. d.reasoning = "none" <=> d.reasoningAt = None
    BY <1>1, <1>2
  <2>3. IsFiniteSet(DOMAIN d.tools)
    <3>1. DOMAIN d.tools = DOMAIN c.tools \cup {y}
      BY DEF WithCall
    <3> QED BY <1>1, <3>1, FS_AddElement
  <2> QED BY <1>1, <1>2, <1>4, <2>1, <2>2, <2>3, Zenon DEF ConverterOK
<1>6. c.next # c.reasoningAt /\ c.next # c.messageAt
  BY <1>1, <1>3 DEF ItemsDistinct, Distinct
<1>7. \A j \in Nat : StageIn(d, j) = IF j = c.next THEN "added" ELSE StageIn(c, j)
  <2> SUFFICES ASSUME NEW j \in Nat PROVE StageIn(d, j) = IF j = c.next THEN "added" ELSE StageIn(c, j)
    OBVIOUS
  <2>1. CASE j = c.next
    BY <1>1, <1>2, <1>6, <2>1 DEF StageIn
  <2>2. CASE j > c.next
    BY <1>1, <2>2 DEF StageIn
  <2>3. CASE j < c.next
    <3>1. ~(j >= d.next) /\ ~(j >= c.next) /\ j # c.next
      BY <1>1, <2>3
    <3> QED BY <1>2, <2>3, <3>1, Zenon DEF StageIn
  <2> QED BY <1>1, <2>1, <2>2, <2>3
<1>8. StagesIn(d) = At(StagesIn(c), c.next, "added")
  BY <1>7 DEF StagesIn, At
<1> QED BY <1>5, <1>8

\* Where a call is.
LEMMA CallPlace ==
  ASSUME NEW c, ConverterOK(c), NEW x \in DOMAIN c.tools
  PROVE  c.tools[x] \in ItemNumbers(c.next) /\ StageIn(c, c.tools[x]) = "added"
<1>1. c.next \in Nat /\ ItemsDistinct(c)
  BY ConverterFields DEF ConverterOK
<1>2. c.tools[x] \in ItemNumbers(c.next) /\ c.tools[x] # c.reasoningAt /\ c.tools[x] # c.messageAt
  BY <1>1 DEF ItemsDistinct, Distinct
<1>3. ~(c.tools[x] >= c.next)
  BY <1>1, <1>2 DEF ItemNumbers
<1> QED BY <1>2, <1>3 DEF StageIn

\* The first delta of a call.
FirstDelta(s, d, i) ==
  Emit(EnsureCreated([s EXCEPT !.c.next = i + 1, !.c.tools = WithCall(s.c.tools, d.index, i)]),
       <<Event("item.added", i, "function")>>)

LEMMA FirstDeltaIs ==
  ASSUME NEW s, NEW d, d.index \notin DOMAIN s.c.tools, NEW w, w = FirstDelta(s, d, s.c.next)
  PROVE  ToolDelta(s, d) = IF d.args THEN Emit(w, <<Event("delta", s.c.next, "function")>>) ELSE w
BY SMT DEF ToolDelta, FirstDelta

\* One tool-call delta.
LEMMA ToolDeltaOK ==
  ASSUME NEW p, NEW s, Speaks(p, s), NEW d \in [index : Int, args : BOOLEAN],
         NEW t, t = ToolDelta(s, d)
  PROVE  Speaks(p, t) /\ t.c.completed = s.c.completed
<1>1. /\ ConverterOK(s.c) /\ s.c \in Converters /\ s.c.next \in Nat
      /\ StagesIn(s.c) \in [Nat -> ItemStages]
      /\ s = [c |-> s.c, out |-> s.out] /\ s.out \in Seq(ReplyEvents)
      /\ Wrote(p, s, [mode |-> ModeIn(s.c), next |-> s.c.next, stage |-> StagesIn(s.c)])
  BY SpeaksFields
<1>2. PICK y \in Int : y = d.index
  OBVIOUS
<1>3. "function" \in EventKinds
  BY DEF EventKinds
<1>4. ASSUME NEW v, NEW i, Speaks(p, v), y \in DOMAIN v.c.tools, i = v.c.tools[y],
             v.c.completed = s.c.completed,
             t = IF d.args THEN Emit(v, <<Event("delta", i, "function")>>) ELSE v
      PROVE  Speaks(p, t) /\ t.c.completed = s.c.completed
  <2>1. i \in ItemNumbers(v.c.next) /\ StageIn(v.c, i) = "added"
    BY <1>4, CallPlace DEF Speaks
  <2>2. CASE d.args
    <3>1. t = Emit(v, <<Event("delta", i, "function")>>)
      BY <1>4, <2>2
    <3>2. Speaks(p, t) /\ t.c = v.c
      BY <1>3, <1>4, <2>1, <3>1, DeltaOK
    <3> QED BY <1>4, <3>2
  <2>3. CASE ~d.args
    BY <1>4, <2>3
  <2> QED BY <2>2, <2>3
<1>5. CASE y \in DOMAIN s.c.tools
  <2>1. t = IF d.args THEN Emit(s, <<Event("delta", s.c.tools[y], "function")>>) ELSE s
    BY <1>2, <1>5 DEF ToolDelta
  <2> QED BY <1>4, <1>5, <2>1
<1>6. CASE y \notin DOMAIN s.c.tools
  <2>1. PICK i \in Nat : i = s.c.next
    BY <1>1
  <2>2. PICK ts : ts = WithCall(s.c.tools, y, i)
    OBVIOUS
  <2>3. PICK u : u = [s EXCEPT !.c.next = i + 1, !.c.tools = ts]
    OBVIOUS
  <2>4. PICK v : v = EnsureCreated(u)
    OBVIOUS
  <2>5. PICK w : w = Emit(v, <<Event("item.added", i, "function")>>)
    OBVIOUS
  <2>6. t = IF d.args THEN Emit(w, <<Event("delta", i, "function")>>) ELSE w
    <3>1. d.index \notin DOMAIN s.c.tools /\ ts = WithCall(s.c.tools, d.index, i)
      BY ONLY <1>2, <1>6, <2>2, Zenon
    <3>2. w = FirstDelta(s, d, i)
      BY ONLY <2>3, <2>4, <2>5, <3>1, Zenon DEF FirstDelta
    <3>3. ToolDelta(s, d) = IF d.args THEN Emit(w, <<Event("delta", i, "function")>>) ELSE w
      BY ONLY <2>1, <3>1, <3>2, FirstDeltaIs
    <3> QED BY ONLY <3>3, t = ToolDelta(s, d), Zenon
  <2>7. u.c = [s.c EXCEPT !.next = i + 1, !.tools = ts] /\ u.out = s.out
        /\ u = [c |-> u.c, out |-> u.out]
    BY ONLY <1>1, <2>3
  <2>8. SameBut(s.c, u.c, {"next", "tools"}) /\ u.c.next = i + 1 /\ u.c.tools = ts
    <3>1. ts \in Tables
      <4>1. s.c.tools \in Tables
        BY <1>1, ConverterFields
      <4>2. DOMAIN s.c.tools \cup {y} \in SUBSET Int /\ \A x \in DOMAIN s.c.tools : s.c.tools[x] \in Nat
        BY <4>1, TableFields
      <4>3. ts \in [DOMAIN s.c.tools \cup {y} -> Nat]
        BY <2>2, <4>2 DEF WithCall
      <4> QED BY <4>2, <4>3 DEF Tables
    <3>2. i + 1 \in Nat
      OBVIOUS
    <3> QED BY <1>1, <2>7, <3>1, <3>2 DEF Converters, SameBut
  <2>9. ModeIn(u.c) = ModeIn(s.c) /\ u.c \in Converters
    BY <2>8 DEF ModeIn, SameBut
  <2>10. Wrote(p, u, [mode |-> ModeIn(u.c), next |-> i, stage |-> StagesIn(s.c)])
    BY <1>1, <2>1, <2>7, <2>9, Unwritten
  <2>11. Wrote(p, v, Within(i, StagesIn(s.c))) /\ v.c.created /\ SameBut(u.c, v.c, {"created"})
    BY <1>1, <2>4, <2>9, <2>10, EnsureCreatedOK, Zenon
  <2>12. /\ SameBut(s.c, v.c, {"tools", "next", "created"}) /\ v.c.next = s.c.next + 1
         /\ v.c.tools = ts /\ v.c.completed = s.c.completed
    BY <2>1, <2>8, <2>11 DEF SameBut
  <2>13. ConverterOK(v.c) /\ StagesIn(v.c) = At(StagesIn(s.c), i, "added")
    <3>1. v.c.tools = WithCall(s.c.tools, y, s.c.next)
      BY <2>1, <2>2, <2>12, Zenon
    <3> QED BY <1>1, <1>6, <2>1, <2>11, <2>12, <3>1, CallAnnounced
  <2>14. Adds(p, v, w, Within(i + 1, At(StagesIn(s.c), i, "added")))
    <3>1. w = Writes(v, "item.added", i, "function")
      BY <2>5 DEF Writes
    <3> QED BY ONLY <1>1, <1>3, i \in Nat, <2>11, <3>1, AddItem, Zenon
  <2>15. Wrote(p, w, Within(i + 1, At(StagesIn(s.c), i, "added"))) /\ w.c = v.c
    BY <2>14, Zenon DEF Adds
  <2>16. Speaks(p, w)
    BY <2>1, <2>11, <2>12, <2>13, <2>15, SpeaksNow
  <2>17. y \in DOMAIN w.c.tools /\ w.c.tools[y] = i /\ w.c.completed = s.c.completed
    BY <2>2, <2>12, <2>15 DEF WithCall
  <2> QED BY <1>4, <2>6, <2>16, <2>17
<1> QED BY <1>5, <1>6

\* Whoever is in step has announced a response before any of its items.
LEMMA InTheMiddle ==
  ASSUME NEW p, NEW s, Speaks(p, s), s.c.next > 0
  PROVE  \E n \in Nat, f \in [Nat -> ItemStages] :
           /\ n = s.c.next /\ f = StagesIn(s.c) /\ Wrote(p, s, Within(n, f))
           /\ s.c.created
<1>1. /\ ConverterOK(s.c) /\ s.c \in Converters /\ s.c.next \in Nat
      /\ StagesIn(s.c) \in [Nat -> ItemStages]
      /\ Wrote(p, s, [mode |-> ModeIn(s.c), next |-> s.c.next, stage |-> StagesIn(s.c)])
  BY SpeaksFields
<1>2. s.c.created
  BY <1>1 DEF ConverterOK
<1>3. ModeIn(s.c) = "within"
  BY <1>2 DEF ModeIn
<1>4. Wrote(p, s, Within(s.c.next, StagesIn(s.c)))
  BY ONLY <1>1, <1>3, Zenon DEF Within
<1> QED BY ONLY <1>1, <1>2, <1>4, Zenon

\* Reasoning is written, after its item was closed too.
LEMMA SayReasoningOK ==
  ASSUME NEW p, NEW s, Speaks(p, s), NEW t, t = SayReasoning(s)
  PROVE  Speaks(p, t) /\ t.c.completed = s.c.completed
<1>1. PICK v : v = EnsureReasoning(s)
  OBVIOUS
<1>2. Speaks(p, v) /\ v.c.reasoning # "none" /\ v.c.completed = s.c.completed
  BY <1>1, EnsureReasoningOK
<1>3. PICK i : i = v.c.reasoningAt
  OBVIOUS
<1>4. t = Emit(v, <<Event("delta", i, "reasoning")>>)
  BY <1>1, <1>3 DEF SayReasoning
<1>5. ConverterOK(v.c) /\ v.c \in Converters /\ v.c.next \in Nat /\ v.c.reasoning \in Reasonings
  BY <1>2, ConverterFields DEF Speaks, ConverterOK
<1>6. i \in ItemNumbers(v.c.next)
  BY <1>2, <1>3, <1>5 DEF ConverterOK, ItemsDistinct, Distinct
<1>7. StageIn(v.c, i) = IF v.c.reasoning = "open" THEN "part" ELSE "closed"
  BY <1>3, <1>5, <1>6 DEF StageIn, ItemNumbers
<1>8. CASE v.c.reasoning = "open"
  <2>1. "reasoning" \in EventKinds /\ StageIn(v.c, i) \in {"added", "part"}
    BY <1>7, <1>8 DEF EventKinds
  <2>2. Speaks(p, t) /\ t.c = v.c
    BY ONLY <1>2, <1>4, <1>6, <2>1, DeltaOK
  <2> QED BY <1>2, <2>2
<1>9. CASE v.c.reasoning = "done"
  <2>1. v.c.next > 0 /\ i \in Nat
    BY <1>5, <1>6 DEF ItemNumbers
  <2>2. PICK n \in Nat, f \in [Nat -> ItemStages] :
          n = v.c.next /\ f = StagesIn(v.c) /\ Wrote(p, v, Within(n, f)) /\ v.c.created
    BY ONLY <1>2, <2>1, InTheMiddle, Zenon
  <2>3. PICK q \in Clients : q = Within(n, f)
    BY WithinFields
  <2>4. q.mode = "within" /\ q.next = n /\ q.stage = f /\ f[i] = "closed"
    BY <1>7, <1>9, <2>1, <2>2, <2>3, WithinFields DEF StagesIn
  <2>5. PICK e \in ReplyEvents : /\ e = Event("delta", i, "reasoning")
                                 /\ e.type = "delta" /\ e.at = i /\ e.kind = "reasoning"
    BY <2>1, EventIsReply DEF ItemTypes
  <2>6. Admits(q, e, q)
    BY ONLY <1>6, <2>2, <2>4, <2>5, Zenon DEF Admits
  <2>7. Wrote(p, t, q) /\ t.c = v.c
    BY <1>4, <2>2, <2>3, <2>5, <2>6, EmitOne
  <2>8. Speaks(p, t)
    BY <1>5, <2>2, <2>3, <2>7, SpeaksNow
  <2> QED BY <1>2, <2>7, <2>8
<1> QED BY <1>2, <1>5, <1>8, <1>9 DEF Reasonings

\* Text is written.
LEMMA SayTextOK ==
  ASSUME NEW p, NEW s, Speaks(p, s), NEW t, t = SayText(s)
  PROVE  Speaks(p, t) /\ t.c.completed = s.c.completed
<1>1. PICK u : u = CloseReasoning(s)
  OBVIOUS
<1>2. Speaks(p, u) /\ u.c.reasoning # "open" /\ u.c.completed = s.c.completed
  BY <1>1, CloseReasoningOK DEF SameBut
<1>3. PICK v : v = EnsureText(u)
  OBVIOUS
<1>4. Speaks(p, v) /\ v.c.messageAt # None /\ v.c.completed = s.c.completed
  BY <1>2, <1>3, EnsureTextOK DEF SameBut
<1>5. PICK i : i = v.c.messageAt
  OBVIOUS
<1>6. t = Emit(v, <<Event("delta", i, "message")>>)
  BY <1>1, <1>3, <1>5 DEF SayText
<1>7. ConverterOK(v.c) /\ v.c \in Converters /\ v.c.next \in Nat
  BY <1>4, ConverterFields DEF Speaks, ConverterOK
<1>8. i \in ItemNumbers(v.c.next) /\ i # v.c.reasoningAt
  BY <1>4, <1>5, <1>7 DEF ConverterOK, ItemsDistinct, Distinct
<1>9. StageIn(v.c, i) \in {"added", "part"}
  BY <1>5, <1>7, <1>8 DEF StageIn, ItemNumbers
<1>10. "message" \in EventKinds
  BY DEF EventKinds
<1>11. Speaks(p, t) /\ t.c = v.c
  BY ONLY <1>4, <1>6, <1>8, <1>9, <1>10, DeltaOK
<1> QED BY <1>4, <1>11

Steps == [c : Converters, out : Seq(ReplyEvents)]

\* u is in step, and as far as s was from the end.
SpeaksLike(p, s, u) == Speaks(p, u) /\ u.c.completed = s.c.completed

\* A converter in step is a step.
LEMMA InSteps ==
  ASSUME NEW p, NEW s, Speaks(p, s)
  PROVE  s \in Steps
<1>1. PICK c \in Converters : c = s.c
  BY SpeaksFields
<1>2. PICK w \in Seq(ReplyEvents) : w = s.out
  BY SpeaksFields
<1>3. s = [c |-> c, out |-> w]
  BY ONLY <1>1, <1>2, SpeaksFields, Speaks(p, s), Zenon
<1> QED BY ONLY <1>3, c \in Converters, w \in Seq(ReplyEvents) DEF Steps

Deltas == [index : Int, args : BOOLEAN]

\* Calls are written, delta by delta.
LEMMA SayToolsOK ==
  ASSUME NEW p, NEW s, Speaks(p, s), NEW deltas \in Seq(Deltas),
         NEW t, t = SayTools(s, deltas)
  PROVE  Speaks(p, t) /\ t.c.completed = s.c.completed
<1> DEFINE n == Len(deltas)
           V == {u \in Steps : SpeaksLike(p, s, u)}
           step == [i \in 1 .. n |-> [u \in V |-> ToolDelta(u, deltas[i])]]
<1>1. PICK base : base = CloseReasoning(s)
  OBVIOUS
<1> DEFINE rule(it) == [z \in SUBSET DOMAIN deltas |->
                  IF z = {} THEN base
                  ELSE ToolDelta(it[z \ {Max(z)}], deltas[Max(z)])]
           fold == CHOOSE it : it = rule(it)
<1>2. n \in Nat /\ DOMAIN deltas = 1 .. n /\ \A i \in 1 .. n : deltas[i] \in Deltas
  OBVIOUS
<1>3. base \in V
  <2>1. Speaks(p, base) /\ base.c.completed = s.c.completed
    BY <1>1, CloseReasoningOK DEF SameBut
  <2> QED BY <2>1, InSteps, Zenon DEF SpeaksLike
<1>4. \A i \in 1 .. n : \A u \in V : ToolDelta(u, deltas[i]) \in V
  <2> SUFFICES ASSUME NEW i \in 1 .. n, NEW u \in V PROVE ToolDelta(u, deltas[i]) \in V
    OBVIOUS
  <2>1. PICK v : v = ToolDelta(u, deltas[i])
    OBVIOUS
  <2>2. Speaks(p, u) /\ u.c.completed = s.c.completed
    BY Zenon DEF SpeaksLike
  <2>3. Speaks(p, v) /\ v.c.completed = u.c.completed
    BY ONLY <1>2, i \in 1 .. n, <2>1, <2>2, ToolDeltaOK, Zenon DEF Deltas
  <2>4. SpeaksLike(p, s, v) /\ v \in Steps
    BY ONLY <2>2, <2>3, InSteps, Zenon DEF SpeaksLike
  <2> QED BY <2>1, <2>4
<1>5. /\ step \in [1 .. n -> [V -> V]]
      /\ \A i \in 1 .. n : \A u \in V : step[i][u] = ToolDelta(u, deltas[i])
  <2> HIDE DEF V
  <2> QED BY <1>4
<1>6. t = fold[1 .. n]
  BY <1>1, <1>2 DEF SayTools, FoldLeft, MapThenFoldSet
<1> HIDE DEF n, step, V
<1>7. \E g : g = rule(g)
  <2>1. PICK g : TakesLast(g, V, base, n, step)
    BY <1>2, <1>3, <1>5, FoldExists, Zenon
  <2>2. ASSUME NEW z \in SUBSET (1 .. n), z # {}
        PROVE  g[z] = ToolDelta(g[z \ {Max(z)}], deltas[Max(z)])
    <3>1. Max(z) \in 1 .. n /\ g[z \ {Max(z)}] \in V
      BY <1>2, <2>1, <2>2, LargestIn DEF TakesLast
    <3> QED BY <1>5, <2>1, <2>2, <3>1 DEF TakesLast
  <2>3. g = rule(g)
    BY <1>2, <2>1, <2>2 DEF TakesLast
  <2> QED BY <2>3
<1>8. fold = rule(fold)
  BY <1>7
<1> HIDE DEF fold
<1>9. TakesLastIn(fold, V, base, n, step)
  <2>1. fold[{}] = base
    BY <1>8
  <2>2. ASSUME NEW z \in SUBSET (1 .. n), z # {}, fold[z \ {Max(z)}] \in V
        PROVE  fold[z] = step[Max(z)][fold[z \ {Max(z)}]]
    <3>1. Max(z) \in 1 .. n
      BY <1>2, <2>2, LargestIn
    <3>2. fold[z] = ToolDelta(fold[z \ {Max(z)}], deltas[Max(z)])
      BY <1>2, <1>8, <2>2
    <3> QED BY <1>5, <2>2, <3>1, <3>2
  <2> QED BY <2>1, <2>2 DEF TakesLastIn
<1>10. PICK f : Stepwise(f, V, base, n, step) /\ f[n] = fold[1 .. n]
  <2>1. n \in Nat /\ step \in [1 .. n -> [V -> V]]
    BY <1>2, <1>5
  <2>2. Folded(V, base, n, step, fold[1 .. n])
    BY ONLY <1>3, <1>9, <2>1, FoldPrefixes, Zenon
  <2> QED BY <2>2 DEF Folded
<1>11. t \in V
  BY <1>2, <1>6, <1>10 DEF Stepwise
<1> QED BY <1>11, Zenon DEF V, SpeaksLike

\* What a converter in order shows is what a client may have read.
LEMMA ShownClient ==
  ASSUME NEW c, ConverterOK(c)
  PROVE  Shown(c) \in Clients
<1>1. c \in Converters
  BY DEF ConverterOK
<1>2. PICK m \in Places : m = ModeIn(c)
  BY DEF ModeIn, Places
<1>3. PICK n \in Nat : n = c.next
  BY <1>1, ConverterFields
<1>4. PICK f \in [Nat -> ItemStages] : f = StagesIn(c)
  BY <1>1, ShownFields
<1>5. Shown(c) = [mode |-> m, next |-> n, stage |-> f]
  BY ONLY <1>2, <1>3, <1>4, Zenon DEF Shown
<1> QED BY ONLY <1>2, <1>3, <1>4, <1>5 DEF Clients

\* Nothing is written of a converter that says nothing new.
LEMMA QuietOK ==
  ASSUME NEW c, NEW q \in Clients, NEW s, s = Quiet(c)
  PROVE  Wrote(q, s, q) /\ s.c = c
<1>1. s.c = c /\ s.out = <<>> /\ s = [c |-> c, out |-> <<>>]
  BY DEF Quiet
<1>2. LeadsTo(q, <<>>, q)
  BY LeadingNowhere, Zenon DEF LeadsTo
<1>3. <<>> \in Seq(ReplyEvents)
  OBVIOUS
<1> QED BY <1>1, <1>2, <1>3, Zenon DEF Wrote

\* A change nobody sees.
LEMMA SameShown ==
  ASSUME NEW c, NEW d, ConverterOK(c), SameBut(c, d, {"completed", "finish"})
  PROVE  ConverterOK(d) /\ Shown(d) = Shown(c)
<1>1. /\ d \in Converters /\ d.compat = c.compat /\ d.created = c.created /\ d.next = c.next
      /\ d.reasoning = c.reasoning /\ d.reasoningAt = c.reasoningAt
      /\ d.messageAt = c.messageAt /\ d.tools = c.tools
  BY DEF SameBut
<1>2. ConverterOK(d)
  BY <1>1, Zenon DEF ConverterOK, ItemsDistinct
<1>3. ModeIn(d) = ModeIn(c)
  BY <1>1 DEF ModeIn
<1>4. \A i \in Nat : StageIn(d, i) = StageIn(c, i)
  BY <1>1, Zenon DEF StageIn
<1>5. StagesIn(d) = StagesIn(c)
  BY <1>4 DEF StagesIn
<1> QED BY <1>1, <1>2, <1>3, <1>5, Zenon DEF Shown

\* A chunk of the chat completion.
LEMMA ConvertOK ==
  ASSUME NEW c, ConverterOK(c), NEW chunk, chunk.finish \in Finishes, chunk.tools \in Seq(Deltas),
         NEW t, t = Convert(c, chunk)
  PROVE  Speaks(Shown(c), t) /\ t.c.completed = c.completed
<1>1. PICK p \in Clients : p = Shown(c)
  BY ShownClient
<1>2. PICK fin \in Finishes : fin = IF chunk.finish = "none" THEN c.finish ELSE chunk.finish
  BY ConverterFields DEF ConverterOK
<1>3. PICK d : d = [c EXCEPT !.finish = fin]
  OBVIOUS
<1>4. SameBut(c, d, {"completed", "finish"}) /\ d.completed = c.completed
  BY <1>2, <1>3 DEF ConverterOK, Converters, SameBut
<1>5. ConverterOK(d) /\ Shown(d) = p
  BY <1>1, <1>4, SameShown
<1>6. PICK s0 : s0 = Quiet(d)
  OBVIOUS
<1>7. Wrote(p, s0, p) /\ s0.c = d
  BY ONLY <1>6, p \in Clients, QuietOK, Zenon
<1>8. Speaks(p, s0)
  BY ONLY <1>5, <1>7, Zenon DEF Speaks
<1>9. PICK s1 : s1 = IF chunk.reasoning THEN SayReasoning(s0) ELSE s0
  OBVIOUS
<1>10. Speaks(p, s1) /\ s1.c.completed = s0.c.completed
  <2>1. CASE chunk.reasoning
    <3>1. s1 = SayReasoning(s0)
      BY <1>9, <2>1
    <3> QED BY ONLY <1>8, <3>1, SayReasoningOK
  <2>2. CASE ~chunk.reasoning
    BY <1>8, <1>9, <2>2
  <2> QED BY <2>1, <2>2
<1>11. PICK s2 : s2 = IF chunk.text THEN SayText(s1) ELSE s1
  OBVIOUS
<1>12. Speaks(p, s2) /\ s2.c.completed = s1.c.completed
  <2>1. CASE chunk.text
    <3>1. s2 = SayText(s1)
      BY <1>11, <2>1
    <3> QED BY ONLY <1>10, <3>1, SayTextOK
  <2>2. CASE ~chunk.text
    BY <1>10, <1>11, <2>2
  <2> QED BY <2>1, <2>2
<1>13. t = IF chunk.tools = <<>> THEN s2 ELSE SayTools(s2, chunk.tools)
  <2>1. t = LET z0 == Quiet([c EXCEPT !.finish = fin])
                z1 == IF chunk.reasoning THEN SayReasoning(z0) ELSE z0
                z2 == IF chunk.text THEN SayText(z1) ELSE z1
            IN  IF chunk.tools = <<>> THEN z2 ELSE SayTools(z2, chunk.tools)
    BY ONLY <1>2, t = Convert(c, chunk), Zenon DEF Convert
  <2> QED BY ONLY <1>3, <1>6, <1>9, <1>11, <2>1, Zenon
<1>14. Speaks(p, t) /\ t.c.completed = s2.c.completed
  <2>1. CASE chunk.tools = <<>>
    BY <1>12, <1>13, <2>1
  <2>2. CASE chunk.tools # <<>>
    <3>1. t = SayTools(s2, chunk.tools)
      BY <1>13, <2>2
    <3>2. PICK deltas \in Seq(Deltas) : deltas = chunk.tools
      OBVIOUS
    <3> QED BY ONLY <1>12, <3>1, <3>2, SayToolsOK
  <2> QED BY <2>1, <2>2
<1> QED BY <1>1, <1>4, <1>7, <1>10, <1>12, <1>14

\* A response of n items whose terminal event was read.
Over(n) == [mode |-> "after", next |-> n, stage |-> AllClosed(n)]

\* What a client has read that has read all the converter wrote.
Told(c) == IF c.completed THEN Over(c.next) ELSE Shown(c)

\* Sequences without repetition that share no element.
LEMMA OnceConcat ==
  ASSUME NEW E, NEW s \in Seq(E), NEW t \in Seq(E), IsInjective(s), IsInjective(t), Range(s) \cap Range(t) = {}
  PROVE  /\ s \o t \in Seq(E) /\ IsInjective(s \o t)
         /\ Range(s \o t) = Range(s) \cup Range(t)
<1>1. PICK m \in Nat : m = Len(s)
  OBVIOUS
<1>2. PICK n \in Nat : n = Len(t)
  OBVIOUS
<1>0. s \o t \in Seq(E)
  OBVIOUS
<1>3. PICK u : u = s \o t
  OBVIOUS
<1>4. /\ DOMAIN s = 1..m /\ DOMAIN t = 1..n /\ DOMAIN u = 1..(m + n)
      /\ \A k \in 1..(m + n) : u[k] = IF k <= m THEN s[k] ELSE t[k - m]
  BY <1>1, <1>2, <1>3
<1>5. \A k \in 1..m : s[k] \in Range(s)
  BY <1>4 DEF Range
<1>6. \A k \in 1..n : t[k] \in Range(t)
  BY <1>4 DEF Range
<1>7. Range(u) = Range(s) \cup Range(t)
  <2>1. ASSUME NEW x \in Range(u) PROVE x \in Range(s) \cup Range(t)
    <3>1. PICK k \in 1..(m + n) : x = u[k]
      BY <1>4, <2>1 DEF Range
    <3>2. CASE k <= m
      BY <1>4, <1>5, <3>1, <3>2
    <3>3. CASE ~(k <= m)
      <4>1. k - m \in 1..n
        BY <3>3
      <4> QED BY <1>4, <1>6, <3>1, <3>3, <4>1
    <3> QED BY <3>2, <3>3
  <2>2. ASSUME NEW x \in Range(s) PROVE x \in Range(u)
    <3>1. PICK k \in 1..m : x = s[k]
      BY <1>4, <2>2 DEF Range
    <3>2. k \in 1..(m + n) /\ u[k] = x
      BY <1>4, <3>1
    <3> QED BY <1>4, <3>2 DEF Range
  <2>3. ASSUME NEW x \in Range(t) PROVE x \in Range(u)
    <3>1. PICK k \in 1..n : x = t[k]
      BY <1>4, <2>3 DEF Range
    <3>2. k + m \in 1..(m + n) /\ ~(k + m <= m) /\ (k + m) - m = k
      OBVIOUS
    <3>3. u[k + m] = x
      BY <1>4, <3>1, <3>2
    <3> QED BY <1>4, <3>2, <3>3 DEF Range
  <2> QED BY <2>1, <2>2, <2>3
<1>8. IsInjective(u)
  <2> SUFFICES ASSUME NEW k \in 1..(m + n), NEW l \in 1..(m + n), u[k] = u[l] PROVE k = l
    BY <1>4 DEF IsInjective
  <2>1. CASE k <= m /\ l <= m
    <3>1. k \in 1..m /\ l \in 1..m /\ s[k] = s[l]
      BY <1>4, <2>1
    <3> QED BY <1>4, <3>1 DEF IsInjective
  <2>2. CASE ~(k <= m) /\ ~(l <= m)
    <3>1. k - m \in 1..n /\ l - m \in 1..n /\ t[k - m] = t[l - m]
      BY <1>4, <2>2
    <3>2. k - m = l - m
      BY <1>4, <3>1 DEF IsInjective
    <3> QED BY <3>2
  <2>3. ASSUME NEW a \in 1..(m + n), NEW b \in 1..(m + n), a <= m, ~(b <= m) PROVE u[a] # u[b]
    <3>1. a \in 1..m /\ b - m \in 1..n
      BY <2>3
    <3>2. u[a] \in Range(s) /\ u[b] \in Range(t)
      BY <1>4, <1>5, <1>6, <2>3, <3>1
    <3> QED BY <3>2
  <2> QED BY <2>1, <2>2, <2>3
<1> QED BY <1>0, <1>3, <1>7, <1>8

\* A sequence without repetition has as many elements as places.
LEMMA OnceCounted ==
  ASSUME NEW E, NEW s \in Seq(E), IsInjective(s)
  PROVE  Cardinality(Range(s)) = Len(s)
<1>1. PICK n \in Nat : n = Len(s) /\ DOMAIN s = 1..n
  OBVIOUS
<1>2. IsFiniteSet(1..n) /\ Cardinality(1..n) = n
  BY FS_Interval
<1>3. s \in Bijection(1..n, Range(s))
  BY <1>1 DEF Bijection, Injection, Surjection, IsInjective, Range
<1>4. ExistsBijection(1..n, Range(s))
  BY <1>3 DEF ExistsBijection
<1>5. Cardinality(Range(s)) = Cardinality(1..n)
  BY <1>2, <1>4, FS_Bijection
<1> QED BY <1>1, <1>2, <1>5

\* A sequence of one element, and one of none.
LEMMA OnceShort ==
  ASSUME NEW E
  PROVE  /\ <<>> \in Seq(E) /\ IsInjective(<<>>) /\ Range(<<>>) = {}
         /\ \A x \in E : <<x>> \in Seq(E) /\ IsInjective(<<x>>) /\ Range(<<x>>) = {x}
<1>1. <<>> \in Seq(E) /\ IsInjective(<<>>) /\ Range(<<>>) = {}
  BY DEF IsInjective, Range
<1>2. ASSUME NEW x \in E PROVE <<x>> \in Seq(E) /\ IsInjective(<<x>>) /\ Range(<<x>>) = {x}
  <2>1. <<x>> \in Seq(E)
    OBVIOUS
  <2>2. DOMAIN <<x>> = {1} /\ <<x>>[1] = x
    OBVIOUS
  <2> QED BY <2>1, <2>2 DEF IsInjective, Range
<1> QED BY <1>1, <1>2

\* The calls in order.
Ordered(c, n, order) ==
  /\ n \in Nat /\ order \in [1..n -> DOMAIN c.tools]
  /\ order = ToolOrder(c) /\ Len(order) = n /\ order \in Seq(DOMAIN c.tools)
  /\ \A x \in DOMAIN c.tools : \E k \in 1..n : order[k] = x
  /\ \A k, l \in 1..n : order[k] = order[l] => k = l

LEMMA CallsInOrder ==
  ASSUME NEW c, ConverterOK(c)
  PROVE  \E n, order : Ordered(c, n, order)
<1>1. PICK xs \in SUBSET Int : xs = DOMAIN c.tools /\ IsFiniteSet(xs)
  BY ConverterFields, TableFields DEF ConverterOK
<1>2. PICK order : order = InOrder(xs)
  OBVIOUS
<1>3. ToolOrder(c) = order
  <2>1. ToolOrder(c) = InOrder(DOMAIN c.tools)
    BY DEF ToolOrder, InOrder, UpTo
  <2> QED BY <1>1, <1>2, <2>1, Zenon
<1>4. PICK n \in Nat : n = Cardinality(xs)
  BY <1>1, FS_CardinalityType
<1>5. /\ order \in [1..n -> xs]
      /\ \A x \in xs : \E k \in 1..n : order[k] = x
      /\ \A k, l \in 1..n : order[k] = order[l] => k = l
  <2>1. Enumerates(order, n, xs)
    BY ONLY xs \in SUBSET Int, <1>1, <1>2, <1>4, Enumerated, Zenon
  <2> QED BY <2>1, Zenon DEF Enumerates
<1>6. order \in Seq(xs) /\ Len(order) = n
  BY <1>5
<1>7. Ordered(c, n, order)
  BY <1>1, <1>3, <1>5, <1>6 DEF Ordered
<1> QED BY <1>7

\* The terminal event lists the items.
LEMMA OutputLists ==
  ASSUME NEW c, ConverterOK(c)
  PROVE  FinalOutput(c) \in Seq(Int) /\ Lists(FinalOutput(c), c.next)
<1>1. /\ c \in Converters /\ c.next \in Nat /\ c.reasoningAt \in Int /\ c.messageAt \in Int
      /\ c.tools \in Tables
  BY ConverterFields DEF ConverterOK
<1>2. c.reasoning = "none" <=> c.reasoningAt = None
  BY DEF ConverterOK
<1>3. Distinct(ItemNumbers(c.next), c.reasoningAt, c.messageAt, c.tools)
  BY DEF ConverterOK, ItemsDistinct
<1>4. PICK n, order : Ordered(c, n, order)
  BY CallsInOrder, Zenon
<1>4a. /\ n \in Nat /\ order \in [1..n -> DOMAIN c.tools]
       /\ order = ToolOrder(c) /\ Len(ToolOrder(c)) = n
       /\ \A x \in DOMAIN c.tools : \E k \in 1..n : order[k] = x
       /\ \A k, l \in 1..n : order[k] = order[l] => k = l
  BY <1>4 DEF Ordered
<1>5. PICK a : a = IF c.reasoning = "none" THEN <<>> ELSE <<c.reasoningAt>>
  OBVIOUS
<1>6. PICK b : b = IF c.messageAt # None \/ DOMAIN c.tools = {} THEN <<c.messageAt>> ELSE <<>>
  OBVIOUS
<1>7. PICK d : d = [k \in 1..n |-> c.tools[order[k]]]
  OBVIOUS
<1>8. FinalOutput(c) = (a \o b) \o d
  BY ONLY <1>4a, <1>5, <1>6, <1>7, Zenon DEF FinalOutput
<1>9. /\ a \in Seq(Int) /\ IsInjective(a)
      /\ Range(a) = IF c.reasoningAt = None THEN {} ELSE {c.reasoningAt}
  <2>1. CASE c.reasoning = "none"
    <3>1. a = <<>> /\ c.reasoningAt = None
      BY <1>2, <1>5, <2>1
    <3> QED BY ONLY <3>1, OnceShort, Zenon
  <2>2. CASE c.reasoning # "none"
    <3>1. a = <<c.reasoningAt>> /\ c.reasoningAt # None
      BY <1>2, <1>5, <2>2
    <3> QED BY ONLY <1>1, <3>1, OnceShort, Zenon
  <2> QED BY <2>1, <2>2
<1>10. /\ b \in Seq(Int) /\ IsInjective(b)
       /\ Range(b) = IF c.messageAt # None \/ DOMAIN c.tools = {} THEN {c.messageAt} ELSE {}
  <2>1. CASE c.messageAt # None \/ DOMAIN c.tools = {}
    <3>1. b = <<c.messageAt>>
      BY <1>6, <2>1
    <3> QED BY ONLY <1>1, <2>1, <3>1, OnceShort, Zenon
  <2>2. CASE ~(c.messageAt # None \/ DOMAIN c.tools = {})
    <3>1. b = <<>>
      BY <1>6, <2>2
    <3> QED BY ONLY <2>2, <3>1, OnceShort, Zenon
  <2> QED BY <2>1, <2>2
<1>11. d \in Seq(Int) /\ IsInjective(d) /\ Range(d) = {c.tools[x] : x \in DOMAIN c.tools}
  <2>1. \A x \in DOMAIN c.tools : c.tools[x] \in Int
    BY <1>1, TableFields
  <2>2. \A x, y \in DOMAIN c.tools : c.tools[x] = c.tools[y] => x = y
    BY <1>3 DEF Distinct
  <2>3. d \in [1..n -> Int] /\ DOMAIN d = 1..n /\ \A k \in 1..n : d[k] = c.tools[order[k]]
    BY <1>4a, <1>7, <2>1
  <2>4. d \in Seq(Int)
    BY <1>4a, <2>3
  <2>5. IsInjective(d)
    BY <1>4a, <2>2, <2>3 DEF IsInjective
  <2>6. Range(d) = {c.tools[x] : x \in DOMAIN c.tools}
    BY <1>4a, <2>3 DEF Range
  <2> QED BY <2>4, <2>5, <2>6
<1>12. Range(a) \cap Range(b) = {}
  BY <1>2, <1>3, <1>9, <1>10 DEF Distinct
<1>13. /\ a \o b \in Seq(Int) /\ IsInjective(a \o b) /\ Range(a \o b) = Range(a) \cup Range(b)
  BY <1>9, <1>10, <1>12, OnceConcat
<1>14. (Range(a) \cup Range(b)) \cap Range(d) = {}
  BY <1>3, <1>9, <1>10, <1>11 DEF Distinct
<1>15. /\ (a \o b) \o d \in Seq(Int) /\ IsInjective((a \o b) \o d)
       /\ Range((a \o b) \o d) = (Range(a) \cup Range(b)) \cup Range(d)
  <2>1. PICK ab : ab = a \o b
    OBVIOUS
  <2>2. ab \in Seq(Int) /\ IsInjective(ab) /\ Range(ab) \cap Range(d) = {}
        /\ Range(ab) = Range(a) \cup Range(b)
    BY <1>13, <1>14, <2>1, Zenon
  <2>3. /\ ab \o d \in Seq(Int) /\ IsInjective(ab \o d)
        /\ Range(ab \o d) = Range(ab) \cup Range(d)
    BY <1>11, <2>2, OnceConcat
  <2> QED BY <2>1, <2>2, <2>3, Zenon
<1>16. ((Range(a) \cup Range(b)) \cup Range(d)) \ {None} = ItemNumbers(c.next)
  <2>1. None \notin ItemNumbers(c.next)
    BY <1>1 DEF None, ItemNumbers
  <2>2. Range(a) \ {None} = {c.reasoningAt} \ {None}
    BY <1>9
  <2>3. Range(b) \ {None} = {c.messageAt} \ {None}
    BY <1>10
  <2>4. Range(d) \subseteq ItemNumbers(c.next)
    BY <1>3, <1>11 DEF Distinct
  <2>5. {c.reasoningAt} \ {None} \subseteq ItemNumbers(c.next) /\ {c.messageAt} \ {None} \subseteq ItemNumbers(c.next)
    BY <1>3 DEF Distinct
  <2>6. \A i \in ItemNumbers(c.next) : i = c.reasoningAt \/ i = c.messageAt \/ i \in Range(d)
    BY <1>3, <1>11 DEF Distinct
  <2> QED BY <2>1, <2>2, <2>3, <2>4, <2>5, <2>6
<1>17. Cardinality(Range((a \o b) \o d)) = Len((a \o b) \o d)
  BY <1>15, OnceCounted
<1> QED BY <1>8, <1>15, <1>16, <1>17 DEF Lists

\* Whoever is in step with a response that was announced.
LEMMA ClientWithin ==
  ASSUME NEW p, NEW s, Speaks(p, s), s.c.created
  PROVE  Wrote(p, s, Within(s.c.next, StagesIn(s.c)))
<1>1. Wrote(p, s, [mode |-> ModeIn(s.c), next |-> s.c.next, stage |-> StagesIn(s.c)])
  BY SpeaksFields
<1>2. ModeIn(s.c) = "within"
  BY DEF ModeIn
<1> QED BY ONLY <1>1, <1>2, Zenon DEF Within

\* The response is announced, if only to be completed.
LEMMA AnnouncedFirstOK ==
  ASSUME NEW p, NEW s, Speaks(p, s), NEW t, t = EnsureCreated(s)
  PROVE  Speaks(p, t) /\ t.c.created /\ SameBut(s.c, t.c, {"created"})
<1>1. /\ ConverterOK(s.c) /\ s.c \in Converters /\ s.c.next \in Nat
      /\ StagesIn(s.c) \in [Nat -> ItemStages]
      /\ Wrote(p, s, [mode |-> ModeIn(s.c), next |-> s.c.next, stage |-> StagesIn(s.c)])
  BY SpeaksFields
<1>2. Wrote(p, t, Within(s.c.next, StagesIn(s.c))) /\ t.c.created /\ SameBut(s.c, t.c, {"created"})
  BY ONLY <1>1, t = EnsureCreated(s), EnsureCreatedOK, Zenon
<1>3. /\ t.c \in Converters /\ t.c.compat = s.c.compat /\ t.c.next = s.c.next
      /\ t.c.reasoning = s.c.reasoning /\ t.c.reasoningAt = s.c.reasoningAt
      /\ t.c.messageAt = s.c.messageAt /\ t.c.tools = s.c.tools
  BY <1>2 DEF SameBut
<1>4. ConverterOK(t.c)
  BY <1>1, <1>2, <1>3, Zenon DEF ConverterOK, ItemsDistinct
<1>5. \A i \in Nat : StageIn(t.c, i) = StageIn(s.c, i)
  BY <1>3, Zenon DEF StageIn
<1>6. StagesIn(t.c) = StagesIn(s.c)
  BY <1>5 DEF StagesIn
<1>7. Speaks(p, t)
  BY <1>2, <1>3, <1>4, <1>6, SpeaksNow
<1> QED BY <1>2, <1>7

\* All items but the calls are closed.
HalfClosed(c, g) ==
  /\ g \in [Nat -> ItemStages]
  /\ \A i \in Nat : i >= c.next => g[i] = "absent"
  /\ \A x \in DOMAIN c.tools : g[c.tools[x]] = "added"
  /\ \A i \in ItemNumbers(c.next) : (\A x \in DOMAIN c.tools : c.tools[x] # i) => g[i] = "closed"

\* The message is closed after reasoning.
LEMMA CloseMessageOK ==
  ASSUME NEW p, NEW s, Speaks(p, s), s.c.created, s.c.reasoning # "open",
         NEW t, t = CloseMessage(s)
  PROVE  \E g : HalfClosed(s.c, g) /\ Adds(p, s, t, Within(s.c.next, g))
<1>1. ConverterOK(s.c) /\ s.c \in Converters /\ s.c.next \in Nat /\ s.c.messageAt \in Int
      /\ s.c.tools \in Tables
  BY SpeaksFields, ConverterFields
<1>2. PICK n \in Nat : n = s.c.next
  BY <1>1
<1>3. PICK f \in [Nat -> ItemStages] : f = StagesIn(s.c)
  BY SpeaksFields
<1>4. Wrote(p, s, Within(n, f))
  BY <1>2, <1>3, ClientWithin
<1>5. Distinct(ItemNumbers(n), s.c.reasoningAt, s.c.messageAt, s.c.tools)
  BY <1>1, <1>2 DEF ConverterOK, ItemsDistinct
<1>6. /\ \A i \in Nat : f[i] = StageIn(s.c, i)
      /\ \A i \in Nat : i >= n => f[i] = "absent"
  BY <1>1, <1>2, <1>3, ShownFields DEF StageIn
<1>7. \A i \in ItemNumbers(n) : i \in Nat /\ ~(i >= n)
  BY DEF ItemNumbers
<1>8. \A x \in DOMAIN s.c.tools : s.c.tools[x] \in Nat /\ f[s.c.tools[x]] = "added"
  BY <1>1, <1>2, <1>6, <1>7, CallPlace
<1>9. \A i \in ItemNumbers(n) :
        (\A x \in DOMAIN s.c.tools : s.c.tools[x] # i) /\ i # s.c.messageAt => f[i] = "closed"
  <2> SUFFICES ASSUME NEW i \in ItemNumbers(n), \A x \in DOMAIN s.c.tools : s.c.tools[x] # i,
                      i # s.c.messageAt
               PROVE  f[i] = "closed"
    OBVIOUS
  <2>1. i = s.c.reasoningAt
    BY <1>5 DEF Distinct
  <2> QED BY <1>2, <1>6, <1>7, <2>1 DEF StageIn
<1>10. CASE s.c.messageAt = None
  <2>1. t = s
    BY <1>10 DEF CloseMessage
  <2>2. \A i \in ItemNumbers(n) : i # s.c.messageAt
    BY <1>7, <1>10 DEF None
  <2>3. HalfClosed(s.c, f)
    BY <1>2, <1>6, <1>8, <1>9, <2>2 DEF HalfClosed
  <2>4. Adds(p, s, t, Within(s.c.next, f))
    BY <1>2, <1>4, <2>1, Zenon DEF Adds
  <2> QED BY <2>3, <2>4
<1>11. CASE s.c.messageAt # None
  <2>1. PICK i \in ItemNumbers(n) : i = s.c.messageAt
    BY <1>5, <1>11 DEF Distinct
  <2>2. i # s.c.reasoningAt
    BY <1>5, <1>11, <2>1 DEF Distinct
  <2>3. "message" \in EventKinds /\ i \in Int
    BY <1>7 DEF EventKinds
  <2>4. Adds(p, s, t, Within(n, At(f, i, "closed")))
    <3>1. CASE s.c.compat
      <4>1. t = Emit(s, <<Event("item.done", i, "message")>>)
        <5>1. t = Emit(s, <<>> \o <<Event("item.done", i, "message")>>)
          BY ONLY <1>11, <2>1, <3>1, t = CloseMessage(s), Zenon DEF CloseMessage
        <5>2. \A w \in Seq(ReplyEvents) : <<>> \o w = w
          OBVIOUS
        <5>3. <<Event("item.done", i, "message")>> \in Seq(ReplyEvents)
          <6>1. PICK e \in ReplyEvents : e = Event("item.done", i, "message")
            BY <2>3, EventIsReply DEF ItemTypes
          <6>2. <<e>> \in Seq(ReplyEvents)
            OBVIOUS
          <6> QED BY ONLY <6>1, <6>2, Zenon
        <5> QED BY ONLY <5>1, <5>2, <5>3, Zenon
      <4>2. f[i] = "added"
        BY <1>2, <1>6, <1>7, <2>1, <2>2, <3>1 DEF StageIn
      <4> QED BY ONLY n \in Nat, f \in [Nat -> ItemStages], i \in ItemNumbers(n), <1>4, <2>3,
                <4>1, <4>2, CloseItem, Zenon
    <3>2. CASE ~s.c.compat
      <4>1. t = Emit(s, <<Event("content.done", i, "message"), Event("part.done", i, "message"),
                          Event("item.done", i, "message")>>)
        <5>1. t = Emit(s, <<Event("content.done", i, "message"), Event("part.done", i, "message")>>
                            \o <<Event("item.done", i, "message")>>)
          BY ONLY <1>11, <2>1, <3>2, t = CloseMessage(s), Zenon DEF CloseMessage
        <5>2. PICK a \in ReplyEvents : a = Event("content.done", i, "message")
          BY <2>3, EventIsReply DEF ItemTypes
        <5>3. PICK b \in ReplyEvents : b = Event("part.done", i, "message")
          BY <2>3, EventIsReply DEF ItemTypes
        <5>4. PICK d \in ReplyEvents : d = Event("item.done", i, "message")
          BY <2>3, EventIsReply DEF ItemTypes
        <5>5. <<a, b>> \o <<d>> = <<a, b, d>>
          BY ConcatThree
        <5> QED BY ONLY <5>1, <5>2, <5>3, <5>4, <5>5, Zenon
      <4>2. f[i] = "part"
        BY <1>2, <1>6, <1>7, <2>1, <2>2, <3>2 DEF StageIn
      <4> QED BY ONLY n \in Nat, f \in [Nat -> ItemStages], i \in ItemNumbers(n), <1>4, <2>3,
                <4>1, <4>2, CloseItem, Zenon
    <3> QED BY <3>1, <3>2
  <2>5. PICK g : g = At(f, i, "closed")
    OBVIOUS
  <2>6. /\ g \in [Nat -> ItemStages] /\ g[i] = "closed"
        /\ \A j \in Nat : j # i => g[j] = f[j]
    BY <1>7, <2>5 DEF At, ItemStages
  <2>7. HalfClosed(s.c, g)
    <3>1. \A j \in Nat : j >= s.c.next => g[j] = "absent"
      BY <1>2, <1>6, <1>7, <2>6
    <3>2. \A x \in DOMAIN s.c.tools : g[s.c.tools[x]] = "added"
      <4>1. \A x \in DOMAIN s.c.tools : s.c.tools[x] # i
        BY <1>5, <2>1 DEF Distinct
      <4> QED BY <1>8, <2>6, <4>1
    <3>3. \A j \in ItemNumbers(n) : (\A x \in DOMAIN s.c.tools : s.c.tools[x] # j) => g[j] = "closed"
      BY <1>7, <1>9, <2>1, <2>6
    <3> QED BY <1>2, <2>6, <3>1, <3>2, <3>3, Zenon DEF HalfClosed
  <2> QED BY <1>2, <2>4, <2>5, <2>7, Zenon
<1> QED BY <1>10, <1>11

\* The calls are closed after the rest.
LEMMA CloseToolsOK ==
  ASSUME NEW p, NEW s, NEW g, ConverterOK(s.c), HalfClosed(s.c, g),
         Wrote(p, s, Within(s.c.next, g)), NEW t, t = CloseTools(s)
  PROVE  Adds(p, s, t, Within(s.c.next, AllClosed(s.c.next)))
<1>1. PICK n \in Nat : n = s.c.next
  BY ConverterFields DEF ConverterOK
<1>2. PICK ts : ts = s.c.tools
  OBVIOUS
<1>3. PICK N, order : Ordered(s.c, N, order)
  BY CallsInOrder, Zenon
<1>4. /\ N \in Nat /\ order = ToolOrder(s.c) /\ DOMAIN order = 1 .. N
      /\ \A k \in 1 .. N : order[k] \in DOMAIN ts
      /\ \A x \in DOMAIN ts : \E k \in 1 .. N : order[k] = x
      /\ \A k, l \in 1 .. N : order[k] = order[l] => k = l
  BY <1>2, <1>3 DEF Ordered
<1>5. /\ g \in [Nat -> ItemStages]
      /\ \A i \in Nat : i >= n => g[i] = "absent"
      /\ \A x \in DOMAIN ts : g[ts[x]] = "added"
      /\ \A i \in ItemNumbers(n) : (\A x \in DOMAIN ts : ts[x] # i) => g[i] = "closed"
  BY <1>1, <1>2 DEF HalfClosed
<1>6. \A x \in DOMAIN ts : ts[x] \in ItemNumbers(n) /\ ts[x] \in Nat /\ ts[x] \in Int
  BY <1>1, <1>2, CallPlace DEF ItemNumbers
<1>7. \A x, y \in DOMAIN ts : ts[x] = ts[y] => x = y
  BY <1>2 DEF ConverterOK, ItemsDistinct, Distinct
<1>8. "function" \in EventKinds
  BY DEF EventKinds
<1> DEFINE V == {u \in [c : {s.c}, out : Seq(ReplyEvents)] : TRUE}
           close(u, x) == Emit(u, <<Event("content.done", ts[x], "function"),
                                    Event("item.done", ts[x], "function")>>)
           step == [i \in 1 .. N |-> [u \in V |-> close(u, order[i])]]
           rule(it) == [z \in SUBSET DOMAIN order |->
                  IF z = {} THEN s ELSE close(it[z \ {Max(z)}], order[Max(z)])]
           fold == CHOOSE it : it = rule(it)
<1>9. s \in V
  <2>1. s = [c |-> s.c, out |-> s.out] /\ s.out \in Seq(ReplyEvents)
    BY DEF Wrote
  <2>2. PICK c, w : c = s.c /\ w = s.out
    OBVIOUS
  <2> QED BY ONLY <2>1, <2>2
<1>10. \A i \in 1 .. N : \A u \in V : close(u, order[i]) \in V
  <2> SUFFICES ASSUME NEW i \in 1 .. N, NEW u \in V PROVE close(u, order[i]) \in V
    OBVIOUS
  <2>1. PICK c : c = s.c
    OBVIOUS
  <2>2. PICK w \in Seq(ReplyEvents) : u = [c |-> c, out |-> w]
    BY <2>1
  <2>3. ts[order[i]] \in Int
    BY <1>4, <1>6
  <2>4. PICK a \in ReplyEvents : a = Event("content.done", ts[order[i]], "function")
    BY <2>3, EventIsReply DEF ItemTypes
  <2>5. PICK b \in ReplyEvents : b = Event("item.done", ts[order[i]], "function")
    BY <2>3, EventIsReply DEF ItemTypes
  <2>6. AStep(u)
    BY ONLY <2>2 DEF AStep
  <2>7. OneByOne(u, a, b, b)
    BY ONLY a \in ReplyEvents, b \in ReplyEvents, <2>6, EmitMore, Zenon
  <2>8. Emit(u, <<a, b>>) = Emit(Emit(u, <<a>>), <<b>>)
    BY ONLY <2>7, Zenon DEF OneByOne
  <2>9. PICK x \in Seq(ReplyEvents) : x = Append(w, a)
    BY ConcatMore
  <2>10. PICK y \in Seq(ReplyEvents) : y = Append(x, b)
    BY ConcatMore
  <2>11. PICK v : v = Emit(u, <<a>>)
    OBVIOUS
  <2>12. v = [c |-> c, out |-> x]
    BY ONLY <2>2, <2>9, <2>11, w \in Seq(ReplyEvents), a \in ReplyEvents, EmitFields
  <2>13. PICK z : z = Emit(v, <<b>>)
    OBVIOUS
  <2>14. z = [c |-> c, out |-> y]
    BY ONLY <2>10, <2>12, <2>13, x \in Seq(ReplyEvents), b \in ReplyEvents, EmitFields
  <2>15. close(u, order[i]) = z
    BY ONLY <2>4, <2>5, <2>8, <2>11, <2>13, Zenon
  <2>16. z \in V
    BY ONLY <2>1, <2>14, y \in Seq(ReplyEvents)
  <2> QED BY ONLY <2>15, <2>16, Zenon
<1>11. /\ step \in [1 .. N -> [V -> V]]
       /\ \A i \in 1 .. N : \A u \in V : step[i][u] = close(u, order[i])
  <2> HIDE DEF V, close
  <2> QED BY <1>10
<1>12. t = fold[1 .. N]
  BY <1>2, <1>4 DEF CloseTools, FoldLeft, MapThenFoldSet
<1> HIDE DEF step, V, close
<1>13. \E h : h = rule(h)
  <2>1. PICK h : TakesLast(h, V, s, N, step)
    BY <1>4, <1>9, <1>11, FoldExists, Zenon
  <2>2. ASSUME NEW z \in SUBSET (1 .. N), z # {}
        PROVE  h[z] = close(h[z \ {Max(z)}], order[Max(z)])
    <3>1. Max(z) \in 1 .. N /\ h[z \ {Max(z)}] \in V
      BY <1>4, <2>1, <2>2, LargestIn DEF TakesLast
    <3> QED BY <1>11, <2>1, <2>2, <3>1 DEF TakesLast
  <2>3. h = rule(h)
    BY <1>4, <2>1, <2>2 DEF TakesLast
  <2> QED BY <2>3
<1>14. fold = rule(fold)
  BY <1>13
<1> HIDE DEF fold
<1>15. TakesLastIn(fold, V, s, N, step)
  <2>1. fold[{}] = s
    BY <1>14
  <2>2. ASSUME NEW z \in SUBSET (1 .. N), z # {}, fold[z \ {Max(z)}] \in V
        PROVE  fold[z] = step[Max(z)][fold[z \ {Max(z)}]]
    <3>1. Max(z) \in 1 .. N
      BY <1>4, <2>2, LargestIn
    <3>2. fold[z] = close(fold[z \ {Max(z)}], order[Max(z)])
      BY <1>4, <1>14, <2>2
    <3> QED BY <1>11, <2>2, <3>1, <3>2
  <2> QED BY <2>1, <2>2 DEF TakesLastIn
<1>16. PICK f : Stepwise(f, V, s, N, step) /\ f[N] = fold[1 .. N]
  <2>1. N \in Nat /\ step \in [1 .. N -> [V -> V]]
    BY <1>4, <1>11
  <2>2. Folded(V, s, N, step, fold[1 .. N])
    BY ONLY <1>9, <1>15, <2>1, FoldPrefixes, Zenon
  <2> QED BY <2>2 DEF Folded
<1>17. f[0] = s /\ \A m \in 1 .. N : f[m] = close(f[m - 1], order[m])
  <2>1. f \in [0 .. N -> V] /\ f[0] = s /\ \A m \in 1 .. N : f[m] = step[m][f[m - 1]]
    BY <1>16 DEF Stepwise
  <2>2. ASSUME NEW m \in 1 .. N PROVE f[m] = close(f[m - 1], order[m])
    <3>1. f[m - 1] \in V
      BY <1>4, <2>1
    <3> QED BY <1>11, <2>1, <3>1
  <2> QED BY <2>1, <2>2
<1> DEFINE G(m) == [i \in Nat |-> IF \E k \in 1 .. m : ts[order[k]] = i THEN "closed" ELSE g[i]]
           S == {m \in 0 .. N : Adds(p, s, f[m], Within(n, G(m)))}
<1>18. 0 \in S
  <2>1. G(0) = g
    BY <1>5
  <2>2. Adds(p, s, f[0], Within(n, G(0)))
    BY <1>1, <1>17, <2>1, Zenon DEF Adds
  <2>3. 0 \in 0 .. N
    BY <1>4
  <2> HIDE DEF G
  <2> QED BY <2>2, <2>3
<1>19. ASSUME NEW m \in 0 .. N - 1, m \in S PROVE m + 1 \in S
  <2>1. PICK x \in DOMAIN ts : x = order[m + 1]
    BY <1>4
  <2>2. PICK i : i = ts[x]
    OBVIOUS
  <2>3. i \in ItemNumbers(n) /\ i \in Nat /\ i \in Int
    BY <1>6, <2>2
  <2>4. \A k \in 1 .. m : ts[order[k]] # i
    BY <1>4, <1>7, <2>1, <2>2
  <2>5. PICK h : h = G(m)
    OBVIOUS
  <2>6. h \in [Nat -> ItemStages] /\ h[i] = "added"
    BY <1>5, <2>1, <2>2, <2>3, <2>4, <2>5 DEF ItemStages
  <2>7. f[m + 1] = Emit(f[m], <<Event("content.done", i, "function"), Event("item.done", i, "function")>>)
    <3>1. f[m + 1] = close(f[m], x)
      BY <1>4, <1>17, <2>1
    <3> QED BY <2>2, <3>1 DEF close
  <2>8. Wrote(p, f[m], Within(n, h)) /\ f[m].c = s.c
    BY <1>19, <2>5, Zenon DEF Adds
  <2>9. Adds(p, f[m], f[m + 1], Within(n, At(h, i, "closed")))
    BY ONLY n \in Nat, <1>8, <2>3, <2>6, <2>7, <2>8, CloseItem, Zenon
  <2>10. At(h, i, "closed") = G(m + 1)
    <3>1. At(h, i, "closed") = [j \in Nat |-> IF j = i THEN "closed" ELSE h[j]]
      BY <2>6 DEF At
    <3>2. \A j \in Nat : (\E k \in 1 .. m + 1 : ts[order[k]] = j)
                           <=> j = i \/ \E k \in 1 .. m : ts[order[k]] = j
      <4>1. 1 .. m + 1 = (1 .. m) \cup {m + 1}
        OBVIOUS
      <4> QED BY <2>1, <2>2, <4>1
    <3>3. \A j \in Nat : (IF j = i THEN "closed" ELSE h[j])
                           = IF \E k \in 1 .. m + 1 : ts[order[k]] = j THEN "closed" ELSE g[j]
      BY <2>5, <3>2
    <3> QED BY <3>1, <3>3
  <2>11. m + 1 \in 0 .. N
    BY <1>4
  <2>12. Adds(p, s, f[m + 1], Within(n, G(m + 1)))
    BY ONLY <2>8, <2>9, <2>10, Zenon DEF Adds
  <2> HIDE DEF G
  <2> QED BY <2>11, <2>12
<1>20. Adds(p, s, f[N], Within(n, G(N)))
  <2> HIDE DEF S
  <2>0. N \in 0 .. N
    BY <1>4
  <2>1. \A m \in 0 .. N - 1 : m \in S => m + 1 \in S
    BY ONLY <1>19
  <2>2. N \in S
    BY ONLY <1>4, <1>18, <2>0, <2>1, Induction
  <2> QED BY <2>2 DEF S
<1>21. G(N) = AllClosed(n)
  <2>1. ASSUME NEW i \in Nat
        PROVE  G(N)[i] = IF i < n THEN "closed" ELSE "absent"
    <3>1. CASE i < n
      <4>1. i \in ItemNumbers(n)
        BY <3>1 DEF ItemNumbers
      <4>2. CASE \E x \in DOMAIN ts : ts[x] = i
        BY <1>4, <3>1, <4>2
      <4>3. CASE ~ \E x \in DOMAIN ts : ts[x] = i
        BY <1>4, <1>5, <3>1, <4>1, <4>3
      <4> QED BY <4>2, <4>3
    <3>2. CASE ~(i < n)
      <4>1. i >= n /\ i \notin ItemNumbers(n)
        BY <3>2 DEF ItemNumbers
      <4>2. \A k \in 1 .. N : ts[order[k]] # i
        BY <1>4, <1>6, <4>1
      <4> QED BY <1>5, <3>2, <4>1, <4>2
    <3> QED BY <3>1, <3>2
  <2> QED BY <2>1 DEF AllClosed
<1> HIDE DEF G
<1> QED BY <1>1, <1>12, <1>16, <1>20, <1>21, Zenon

\* A client that read it all knows it.
LEMMA ToldClient ==
  ASSUME NEW c, ConverterOK(c)
  PROVE  Told(c) \in Clients
<1>1. c.next \in Nat /\ Shown(c) \in Clients
  BY ShownClient, ConverterFields DEF ConverterOK
<1>2. Over(c.next) \in Clients
  BY <1>1 DEF Over, AllClosed, Clients, Places, ItemStages
<1> QED BY <1>1, <1>2 DEF Told

\* The terminal event.
TheEnd(c) ==
  [type |-> "completed", at |-> None, kind |-> "none",
   status |-> IF c.finish = "length" THEN "incomplete" ELSE "completed",
   output |-> FinalOutput(c)]

\* It follows when every item is closed.
LEMMA TerminalOK ==
  ASSUME NEW p, NEW s, ConverterOK(s.c), NEW n \in Nat, n = s.c.next,
         Wrote(p, s, Within(n, AllClosed(n))), NEW t, t = Emit(s, <<TheEnd(s.c)>>)
  PROVE  Wrote(p, t, Over(n)) /\ t.c = s.c
<1>1. PICK o \in Seq(Int) : o = FinalOutput(s.c)
  BY OutputLists
<1>2. Lists(o, n)
  BY <1>1, OutputLists
<1>3. PICK st \in {"incomplete", "completed"} :
        st = IF s.c.finish = "length" THEN "incomplete" ELSE "completed"
  OBVIOUS
<1>4. PICK e : e = TheEnd(s.c)
  OBVIOUS
<1>5. e = [type |-> "completed", at |-> None, kind |-> "none", status |-> st, output |-> o]
  BY ONLY <1>1, <1>3, <1>4, Zenon DEF TheEnd
<1>6. e \in TerminalEvents
  BY ONLY <1>1, <1>3, <1>5 DEF TerminalEvents, None
<1>7. e \in ReplyEvents /\ e.type = "completed" /\ e.output = o
  BY <1>5, <1>6 DEF ReplyEvents
<1>8. AllClosed(n) \in [Nat -> ItemStages] /\ \A i \in ItemNumbers(n) : AllClosed(n)[i] = "closed"
  BY DEF AllClosed, ItemStages, ItemNumbers
<1>9. PICK f \in [Nat -> ItemStages] : f = AllClosed(n)
  BY <1>8
<1>10. Over(n) \in Clients /\ Over(n) = [Within(n, f) EXCEPT !.mode = "after"]
  BY <1>9 DEF Over, Within, Clients, Places
<1>11. Admits(Within(n, f), e, Over(n))
  <2>1. Within(n, f).mode = "within" /\ Within(n, f).next = n /\ Within(n, f).stage = f
    BY WithinFields
  <2>2. PICK q : q = Within(n, f)
    OBVIOUS
  <2>3. /\ e.type = "completed" /\ q.mode = "within"
        /\ \A i \in ItemNumbers(q.next) : q.stage[i] = "closed"
        /\ Lists(e.output, q.next)
        /\ Over(n) = [q EXCEPT !.mode = "after"]
    <3>1. q.mode = "within" /\ q.next = n /\ q.stage = AllClosed(n)
      BY ONLY <1>9, <2>1, <2>2
    <3>2. Over(n) = [q EXCEPT !.mode = "after"]
      BY ONLY <1>10, <2>2
    <3>3. \A i \in ItemNumbers(q.next) : q.stage[i] = "closed"
      BY ONLY <1>8, <3>1
    <3>4. e.type = "completed" /\ Lists(e.output, q.next)
      BY ONLY <1>2, <1>7, <3>1
    <3> QED BY ONLY <3>1, <3>2, <3>3, <3>4, Zenon
  <2>4. Admits(q, e, Over(n))
    BY ONLY <2>3, Zenon DEF Admits
  <2> QED BY <2>2, <2>4
<1>12. Wrote(p, s, Within(n, f))
  BY <1>9
<1>13. t = Emit(s, <<e>>)
  BY <1>4
<1>14. PICK q : q = Within(n, f)
  OBVIOUS
<1>15. PICK r \in Clients : r = Over(n)
  BY <1>10
<1>16. Wrote(p, t, r) /\ t.c = s.c
  BY ONLY <1>7, <1>11, <1>12, <1>13, <1>14, <1>15, EmitOne
<1> QED BY <1>15, <1>16

\* The end of the answer.
LEMMA CompleteOK ==
  ASSUME NEW c, ConverterOK(c), NEW t, t = Complete(Quiet(c))
  PROVE  ConverterOK(t.c) /\ t.c.completed /\ Wrote(Told(c), t, Told(t.c))
<1>0. PICK s : s = Quiet(c)
  OBVIOUS
<1>1. s.c = c /\ s.out = <<>> /\ s = [c |-> c, out |-> <<>>]
  BY <1>0 DEF Quiet
<1>2. CASE c.completed
  <2>1. t = s
    BY <1>0, <1>1, <1>2, Zenon DEF Complete
  <2>2. PICK q \in Clients : q = Told(c)
    BY ToldClient
  <2>3. Wrote(q, t, q) /\ t.c = c
    BY ONLY q \in Clients, <1>0, <2>1, QuietOK, Zenon
  <2> QED BY <1>2, <2>2, <2>3, Zenon
<1>3. CASE ~c.completed
  <2>1. PICK p \in Clients : p = Shown(c) /\ p = Told(c)
    BY <1>3, ShownClient DEF Told
  <2>2. PICK u : u = [s EXCEPT !.c.completed = TRUE]
    OBVIOUS
  <2>3. PICK d : d = [c EXCEPT !.completed = TRUE]
    OBVIOUS
  <2>4. u = Quiet(d)
    BY <1>1, <2>2, <2>3 DEF Quiet
  <2>5. SameBut(c, d, {"completed", "finish"}) /\ d.completed
    BY <2>3 DEF ConverterOK, Converters, SameBut, Flags
  <2>6. ConverterOK(d) /\ Shown(d) = p
    BY <2>1, <2>5, SameShown
  <2>7. Wrote(p, u, p) /\ u.c = d
    BY ONLY p \in Clients, <2>4, QuietOK, Zenon
  <2>8. Speaks(p, u)
    BY <2>6, <2>7, Zenon DEF Speaks
  <2>9. PICK t1 : t1 = EnsureCreated(u)
    OBVIOUS
  <2>10. Speaks(p, t1) /\ t1.c.created /\ SameBut(u.c, t1.c, {"created"})
    BY ONLY <2>8, <2>9, AnnouncedFirstOK, Zenon
  <2>11. PICK t2 : t2 = CloseReasoning(t1)
    OBVIOUS
  <2>12. Speaks(p, t2) /\ t2.c.reasoning # "open" /\ SameBut(t1.c, t2.c, {"reasoning"})
    BY ONLY <2>10, <2>11, CloseReasoningOK, Zenon
  <2>13. t2.c.created /\ t2.c.completed
    BY <2>5, <2>7, <2>10, <2>12, Zenon DEF SameBut
  <2>14. PICK t3 : t3 = CloseMessage(t2)
    OBVIOUS
  <2>15. PICK g : HalfClosed(t2.c, g) /\ Adds(p, t2, t3, Within(t2.c.next, g))
    BY ONLY <2>12, <2>13, <2>14, CloseMessageOK
  <2>16. t3.c = t2.c /\ Wrote(p, t3, Within(t3.c.next, g)) /\ HalfClosed(t3.c, g)
    BY <2>15, Zenon DEF Adds
  <2>17. ConverterOK(t3.c)
    BY <2>12, <2>16, SpeaksFields
  <2>18. PICK t4 : t4 = CloseTools(t3)
    OBVIOUS
  <2>19. Adds(p, t3, t4, Within(t3.c.next, AllClosed(t3.c.next)))
    BY ONLY <2>16, <2>17, <2>18, CloseToolsOK, Zenon
  <2>20. PICK n \in Nat : n = t4.c.next
    BY <2>17, <2>19, ConverterFields DEF Adds, ConverterOK
  <2>21. t4.c = t2.c /\ ConverterOK(t4.c) /\ Wrote(p, t4, Within(n, AllClosed(n)))
    BY <2>16, <2>17, <2>19, <2>20, Zenon DEF Adds
  <2>22. t = Emit(t4, <<TheEnd(t4.c)>>)
    <3>1. t = LET z == CloseTools(CloseMessage(CloseReasoning(EnsureCreated(u))))
              IN  Emit(z, <<TheEnd(z.c)>>)
      BY ONLY <1>0, <1>1, <1>3, <2>2, t = Complete(Quiet(c)), Zenon DEF Complete, TheEnd
    <3> QED BY ONLY <2>9, <2>11, <2>14, <2>18, <3>1, Zenon
  <2>23. Wrote(p, t, Over(n)) /\ t.c = t4.c
    BY ONLY n \in Nat, <2>20, <2>21, <2>22, TerminalOK, Zenon
  <2>24. ConverterOK(t.c) /\ t.c.completed /\ Over(n) = Told(t.c)
    BY <2>13, <2>20, <2>21, <2>23, Zenon DEF Told
  <2> QED BY <2>1, <2>23, <2>24, Zenon
<1> QED BY <1>2, <1>3

\* A chunk, and the end of the stream.
LEMMA FeedOK ==
  ASSUME NEW c, ConverterOK(c), ~c.completed, NEW chunk, ~chunk.done,
         chunk.finish \in Finishes, chunk.tools \in Seq(Deltas), NEW t, t = Feed(c, chunk)
  PROVE  ConverterOK(t.c) /\ ~t.c.completed /\ Wrote(Told(c), t, Told(t.c))
<1>1. t = Convert(c, chunk)
  BY Zenon DEF Feed
<1>2. Speaks(Shown(c), t) /\ t.c.completed = c.completed
  BY ONLY ConverterOK(c), chunk.finish \in Finishes, chunk.tools \in Seq(Deltas), <1>1, ConvertOK
<1>3. Told(c) = Shown(c) /\ Told(t.c) = Shown(t.c) /\ ~t.c.completed
  BY <1>2, Zenon DEF Told
<1> QED BY <1>2, <1>3, Zenon DEF Speaks

-----------------------------------------------------------------------------
(* The client of a converted stream.                                       *)
ReplyAt(p) ==
  /\ begun \in BOOLEAN /\ ended \in BOOLEAN
  /\ begun <=> p.mode # "before"
  /\ ended <=> p.mode = "after"
  /\ items = [i \in ItemNumbers(p.next) |-> p.stage[i]]
  /\ \A i \in ItemNumbers(p.next) : p.stage[i] # "absent"
  /\ p.mode = "after" => Lists(last.output, p.next)

\* What is on its way leads the client to where the converter is.
ReplyFollows ==
  /\ pending \in Seq(ReplyEvents)
  /\ \E p \in Clients : ReplyAt(p) /\ LeadsTo(p, pending, Told(conv))

\* The client is somewhere in its answer, whatever happens to the stream.
ReplyKnown == \E p \in Clients : ReplyAt(p)

ReplyOK ==
  /\ ConverterOK(conv) /\ ReplyKnown
  /\ phase # "broken" => ReplyFollows
  /\ phase = "open" => ~conv.completed

ReplyInv == UpstreamOK /\ (route = "fallback" => ReplyOK)

\* Where the client is does not change while it reads nothing.
LEMMA ReplyStays == ASSUME NEW p, ReplyAt(p), UNCHANGED client PROVE ReplyAt(p)'
BY DEF ReplyAt, client

\* A step of the converter, which the client had caught up with.
LEMMA ReplyCatchesUp ==
  ASSUME ReplyOK, phase # "broken", NEW t, ConverterOK(t.c), Wrote(Told(conv), t, Told(t.c)),
         Transform(t), UNCHANGED client
  PROVE  ReplyFollows' /\ ReplyKnown' /\ ConverterOK(conv)' /\ conv' = t.c
<1>1. pending = <<>> /\ conv' = t.c /\ pending' = t.out
  BY DEF Transform
<1>2. PICK p \in Clients : ReplyAt(p) /\ LeadsTo(p, pending, Told(conv))
  BY DEF ReplyOK, ReplyFollows
<1>3. p = Told(conv)
  BY <1>1, <1>2, LeadingNowhere, Zenon DEF LeadsTo
<1>4. t.out \in Seq(ReplyEvents) /\ LeadsTo(p, t.out, Told(t.c))
  BY <1>3 DEF Wrote
<1>5. ReplyAt(p)'
  BY <1>2, ReplyStays
<1>6. LeadsTo(p, pending, Told(conv))'
  <2>1. LeadsTo(p, pending', Told(conv'))
    BY <1>1, <1>4, Zenon
  <2> QED BY <2>1 DEF LeadsTo, Leading, Told, Over, Shown, ModeIn, StagesIn, StageIn
<1>7. ConverterOK(conv)'
  <2>1. ConverterOK(conv')
    BY <1>1, Zenon
  <2> QED BY <2>1 DEF ConverterOK, ItemsDistinct
<1> QED BY <1>1, <1>4, <1>5, <1>6, <1>7 DEF ReplyFollows, ReplyKnown

\* What a chunk may carry.
LEMMA ChunkFields ==
  ASSUME NEW chunk \in Chunks
  PROVE  ~chunk.done /\ chunk.finish \in Finishes /\ chunk.tools \in Seq(Deltas)
<1>1. <<>> \in Seq(Deltas)
  OBVIOUS
<1>2. CASE chunk = [EmptyChunk EXCEPT !.finish = "length"]
  BY <1>1, <1>2 DEF EmptyChunk, Finishes
<1>3. CASE chunk # [EmptyChunk EXCEPT !.finish = "length"]
  <2>1. chunk \in [done : {FALSE}, reasoning : BOOLEAN, text : BOOLEAN, tools : ToolDeltas,
                   finish : {"none"}]
    BY <1>3 DEF Chunks
  <2>2. chunk.tools \in Seq(Deltas)
    BY <2>1, StreamAssumption DEF Deltas
  <2> QED BY <2>1, <2>2 DEF Finishes
<1> QED BY <1>2, <1>3

\* Steps of the transform and of the upstream.
LEMMA ReplyOtherStep ==
  ASSUME UpstreamOK, ReplyOK, route = "fallback",
         FeedChunk \/ UpstreamEnds \/ FlushTransform \/ BreakStream
  PROVE  ReplyOK'
<1>1. CASE FeedChunk
  <2>1. PICK chunk \in Chunks \cup {DoneChunk} :
          Transform(Feed(conv, chunk)) /\ phase' = IF chunk.done THEN "final" ELSE phase
    BY <1>1 DEF FeedChunk
  <2>2. phase = "open" /\ UNCHANGED client /\ ~conv.completed /\ ConverterOK(conv)
    BY <1>1 DEF FeedChunk, ReplyOK
  <2>3. PICK t : t = Feed(conv, chunk)
    OBVIOUS
  <2>4. CASE chunk \in Chunks
    <3>1. ~chunk.done /\ chunk.finish \in Finishes /\ chunk.tools \in Seq(Deltas)
      BY <2>4, ChunkFields
    <3>2. ConverterOK(t.c) /\ ~t.c.completed /\ Wrote(Told(conv), t, Told(t.c))
      BY ONLY <2>2, <2>3, <3>1, FeedOK, Zenon
    <3>3. ReplyFollows' /\ ReplyKnown' /\ ConverterOK(conv)' /\ conv' = t.c
      BY <2>1, <2>2, <2>3, <3>2, ReplyCatchesUp
    <3> QED BY <3>2, <3>3 DEF ReplyOK
  <2>5. CASE chunk = DoneChunk
    <3>1. chunk.done = TRUE
      BY <2>5 DEF DoneChunk, EmptyChunk
    <3>2. t = Complete(Quiet(conv)) /\ phase' = "final"
      BY <2>1, <2>3, <3>1, Zenon DEF Feed
    <3>3. ConverterOK(t.c) /\ Wrote(Told(conv), t, Told(t.c))
      BY ONLY <2>2, <3>2, CompleteOK, Zenon
    <3>4. ReplyFollows' /\ ReplyKnown' /\ ConverterOK(conv)' /\ conv' = t.c
      BY <2>1, <2>2, <2>3, <3>3, ReplyCatchesUp
    <3> QED BY <3>2, <3>4 DEF ReplyOK
  <2> QED BY <2>1, <2>4, <2>5
<1>2. CASE UpstreamEnds
  <2>1. /\ phase' = "eof" /\ phase # "broken" /\ conv' = conv /\ pending' = pending
        /\ UNCHANGED client
    BY <1>2 DEF UpstreamEnds
  <2>2. PICK p \in Clients : ReplyAt(p) /\ LeadsTo(p, pending, Told(conv))
    BY <2>1 DEF ReplyOK, ReplyFollows
  <2>3. ReplyAt(p)'
    BY <2>1, <2>2, ReplyStays
  <2>4. LeadsTo(p, pending, Told(conv))'
    BY <2>1, <2>2 DEF LeadsTo, Leading, Told, Over, Shown, ModeIn, StagesIn, StageIn
  <2>5. ConverterOK(conv)'
    BY <2>1 DEF ReplyOK, ConverterOK, ItemsDistinct
  <2>6. pending' \in Seq(ReplyEvents)
    BY <2>1 DEF ReplyOK, ReplyFollows
  <2> QED BY <2>1, <2>3, <2>4, <2>5, <2>6 DEF ReplyOK, ReplyFollows, ReplyKnown
<1>3. CASE FlushTransform
  <2>1. /\ phase = "eof" /\ phase' = "flushed" /\ Transform(Complete(Quiet(conv)))
        /\ UNCHANGED client /\ ConverterOK(conv)
    BY <1>3 DEF FlushTransform, Flushed, Flush, ReplyOK
  <2>2. PICK t : t = Complete(Quiet(conv))
    OBVIOUS
  <2>3. ConverterOK(t.c) /\ Wrote(Told(conv), t, Told(t.c))
    BY ONLY <2>1, <2>2, CompleteOK, Zenon
  <2>4. ReplyFollows' /\ ReplyKnown' /\ ConverterOK(conv)'
    BY <2>1, <2>2, <2>3, ReplyCatchesUp
  <2> QED BY <2>1, <2>4 DEF ReplyOK
<1>4. CASE BreakStream
  <2>1. phase' = "broken" /\ conv' = conv /\ UNCHANGED client
    BY <1>4 DEF BreakStream
  <2>2. PICK p \in Clients : ReplyAt(p)
    BY DEF ReplyOK, ReplyKnown
  <2>3. ReplyAt(p)'
    BY <2>1, <2>2, ReplyStays
  <2>4. ConverterOK(conv)'
    BY <2>1 DEF ReplyOK, ConverterOK, ItemsDistinct
  <2> QED BY <2>1, <2>3, <2>4 DEF ReplyOK, ReplyKnown
<1> QED BY <1>1, <1>2, <1>3, <1>4

\* The contract, of a converted stream, is about what its client has read.
LEMMA ReplyContract ==
  ASSUME route = "fallback", route' = route
  PROVE  /\ Fallback(begun, FALSE) = begun /\ Fallback(begun, FALSE)' = begun'
         /\ Fallback(items, <<>>) = items /\ Fallback(items, <<>>)' = items'
         /\ Fallback(ended, FALSE) = ended /\ Fallback(ended, FALSE)' = ended'
         /\ Fallback(last, Nothing) = last /\ Fallback(last, Nothing)' = last'
BY Zenon DEF Fallback

\* An event about an item that can be read leaves it with a stage.
LEMMA AfterIsStage ==
  ASSUME NEW stage, stage \in ItemStages, NEW type, After(stage, type) # "broken"
  PROVE  After(stage, type) # "absent"
BY DEF After, Contract!StageAfter, ItemStages

\* What the client of a converted stream makes of an event.
LEMMA ReplyRead ==
  ASSUME UpstreamOK, ReplyOK, route = "fallback", Deliver
  PROVE  \E p \in Clients, q \in Clients, e \in ReplyEvents :
           /\ ReplyAt(p) /\ Admits(p, e, q) /\ last' = e
           /\ pending' \in Seq(ReplyEvents) /\ LeadsTo(q, pending', Told(conv))
           /\ begun' \in BOOLEAN /\ (begun' <=> begun \/ e.type = "created")
           /\ ended' \in BOOLEAN /\ (ended' <=> ended \/ e.type = "completed")
           /\ items' = ItemsAfter(e)
<1>1. pending # <<>> /\ pending' = Tail(pending) /\ phase # "broken"
  BY DEF Deliver, UpstreamOK
<1>2. pending \in Seq(ReplyEvents)
  BY <1>1 DEF ReplyOK, ReplyFollows
<1>3. PICK p \in Clients : ReplyAt(p) /\ LeadsTo(p, pending, Told(conv))
  BY <1>1 DEF ReplyOK, ReplyFollows
<1>4. PICK q \in Clients : <<p, Head(pending), q>> \in Admitted /\ LeadsTo(q, Tail(pending), Told(conv))
  BY <1>1, <1>2, <1>3, LeadingOn, Zenon DEF LeadsTo
<1>5. PICK e \in ReplyEvents : e = Head(pending)
  BY <1>1, <1>2, HeadTailProperties
<1>6. pending' \in Seq(ReplyEvents)
  BY <1>1, <1>2, HeadTailProperties
<1>7. /\ last' = e /\ items' = ItemsAfter(e)
      /\ begun' = (begun \/ e.type \in {"created", "message.start"})
      /\ ended' = (ended \/ e.type \in {"completed", "message.stop"})
  BY <1>5 DEF Deliver
<1>8. e.type \in {"created", "completed"} \cup ItemTypes
  BY DEF ReplyEvents, PlainEvents, TerminalEvents
<1>9. /\ begun' \in BOOLEAN /\ (begun' <=> begun \/ e.type = "created")
      /\ ended' \in BOOLEAN /\ (ended' <=> ended \/ e.type = "completed")
  <2>1. /\ e.type \in {"created", "message.start"} <=> e.type = "created"
        /\ e.type \in {"completed", "message.stop"} <=> e.type = "completed"
    BY <1>8 DEF ItemTypes
  <2> QED BY <1>7, <2>1, Zenon
<1>10. Admits(p, e, q)
  <2>1. <<p, e, q>> \in Admitted
    BY <1>4, <1>5
  <2> QED BY <2>1 DEF Admitted
<1> QED BY <1>1, <1>3, <1>4, <1>6, <1>7, <1>9, <1>10

\* What it makes of an event about an item.
LEMMA ReplyItems ==
  ASSUME route = "fallback", NEW e
  PROVE  /\ e.type \in {"created", "completed"} => ItemsAfter(e) = items
         /\ e.type = "item.added" => ItemsAfter(e) = Put(items, e.at, "added")
         /\ e.type \in Fillings /\ e.at \in DOMAIN items =>
              ItemsAfter(e) = IF items[e.at] = "closed" /\ e.type = "delta" THEN items
                              ELSE Put(items, e.at, After(items[e.at], e.type))
<1>1. ASSUME e.type \in {"created", "completed"} PROVE ItemsAfter(e) = items
  BY <1>1 DEF ItemsAfter
<1>2. ASSUME e.type = "item.added" PROVE ItemsAfter(e) = Put(items, e.at, "added")
  <2> DEFINE stage == IF route = "native" THEN "open" ELSE "added"
  <2>1. stage = "added"
    OBVIOUS
  <2>2. ItemsAfter(e) = Put(items, e.at, stage)
    BY <1>2 DEF ItemsAfter
  <2> HIDE DEF stage
  <2> QED BY <2>1, <2>2
<1>3. ASSUME e.type \in Fillings, e.at \in DOMAIN items
      PROVE  ItemsAfter(e) = IF items[e.at] = "closed" /\ e.type = "delta" THEN items
                             ELSE Put(items, e.at, After(items[e.at], e.type))
  BY <1>3 DEF ItemsAfter, Fillings, ItemTypes, After
<1> QED BY <1>1, <1>2, <1>3

\* Every event is one the contract allows where the client is.
LEMMA ReplyDeliverStep ==
  ASSUME ReplyInv, route = "fallback", Deliver
  PROVE  ReplyOK' /\ ResponsesContract!Next
<1>1. UpstreamOK /\ ReplyOK /\ route' = route /\ conv' = conv /\ phase' = phase
      /\ phase # "broken"
  BY DEF ReplyInv, Deliver, upstream, UpstreamOK
<1>2. PICK p \in Clients, q \in Clients, e \in ReplyEvents :
        /\ ReplyAt(p) /\ Admits(p, e, q) /\ last' = e
        /\ pending' \in Seq(ReplyEvents) /\ LeadsTo(q, pending', Told(conv))
        /\ begun' \in BOOLEAN /\ (begun' <=> begun \/ e.type = "created")
        /\ ended' \in BOOLEAN /\ (ended' <=> ended \/ e.type = "completed")
        /\ items' = ItemsAfter(e)
  BY <1>1, ReplyRead
<1> DEFINE n == p.next
           f == p.stage
<1>3. n \in Nat /\ p.mode \in Places /\ f \in [Nat -> ItemStages]
      /\ p = [mode |-> p.mode, next |-> n, stage |-> f]
  BY ClientFields
<1>4. /\ begun \in BOOLEAN /\ ended \in BOOLEAN
      /\ begun <=> p.mode # "before"
      /\ ended <=> p.mode = "after"
      /\ items = [i \in ItemNumbers(n) |-> f[i]]
      /\ \A i \in ItemNumbers(n) : f[i] # "absent"
  BY <1>2 DEF ReplyAt
<1>5. DOMAIN items = ItemNumbers(n) /\ \A i \in ItemNumbers(n) : items[i] = f[i]
  BY <1>4
<1>6. \A i \in ItemNumbers(n) : i \in Nat /\ i \in Int
  BY DEF ItemNumbers
<1>7. q.next \in Nat /\ q.stage \in [Nat -> ItemStages]
  BY ClientFields
<1> HIDE DEF n, f
<1>8. ASSUME e.type = "created", p.mode = "before", q = [p EXCEPT !.mode = "within"]
      PROVE  ReplyAt(q)' /\ ResponsesContract!Create
  <2>1. q.mode = "within" /\ q.next = n /\ q.stage = f
    BY <1>3, <1>8
  <2>2. begun' /\ ~ended' /\ ~begun /\ ~ended /\ items' = items
    BY <1>2, <1>4, <1>8, ReplyItems
  <2>3. last'.type = "created"
    BY <1>2, <1>8
  <2>4. ReplyAt(q)'
    BY <1>2, <1>4, <2>1, <2>2, Zenon DEF ReplyAt
  <2>5. ended' = ended /\ begun' = TRUE
    BY <1>2, <1>4, <2>2
  <2>6. ResponsesContract!Create
    BY <1>1, <2>2, <2>3, <2>5, ReplyContract, Zenon DEF ResponsesContract!Create
  <2> QED BY <2>4, <2>6
<1>9. ASSUME e.type = "item.added", p.mode = "within", e.at = n,
             q = [mode |-> "within", next |-> n + 1, stage |-> [f EXCEPT ![e.at] = "added"]]
      PROVE  ReplyAt(q)' /\ ResponsesContract!Announce
  <2>1. q.mode = "within" /\ q.next = n + 1 /\ q.stage = [f EXCEPT ![n] = "added"]
    BY <1>9
  <2>2. /\ begun' /\ ~ended' /\ begun /\ ~ended /\ begun' = begun /\ ended' = ended
        /\ items' = [x \in DOMAIN items \cup {n} |-> IF x = n THEN "added" ELSE items[x]]
    <3>1. begun' /\ ~ended' /\ begun /\ ~ended /\ begun' = begun /\ ended' = ended
      BY <1>2, <1>4, <1>9
    <3>2. items' = Put(items, n, "added")
      BY <1>2, <1>9, ReplyItems
    <3> QED BY <3>1, <3>2, Zenon DEF Put
  <2>3. DOMAIN items \cup {n} = ItemNumbers(n + 1) /\ n \notin ItemNumbers(n)
        /\ n \in ItemNumbers(n + 1)
    BY <1>3, <1>5 DEF ItemNumbers
  <2>4. \A i \in ItemNumbers(n + 1) : i = n \/ i \in ItemNumbers(n)
    BY <1>3 DEF ItemNumbers
  <2>5. \A i \in ItemNumbers(n + 1) : (IF i = n THEN "added" ELSE items[i]) = q.stage[i]
    BY <1>3, <1>5, <1>6, <2>1, <2>3, <2>4
  <2>6. items' = [i \in ItemNumbers(q.next) |-> q.stage[i]]
    <3>1. items' = [x \in ItemNumbers(n + 1) |-> IF x = n THEN "added" ELSE items[x]]
      BY ONLY <2>2, <2>3
    <3>2. [x \in ItemNumbers(n + 1) |-> IF x = n THEN "added" ELSE items[x]]
            = [x \in ItemNumbers(n + 1) |-> q.stage[x]]
      BY ONLY <2>5
    <3> QED BY ONLY <2>1, <3>1, <3>2
  <2>7. \A i \in ItemNumbers(q.next) : q.stage[i] # "absent"
    BY <1>4, <1>5, <2>1, <2>4, <2>5
  <2>8. ReplyAt(q)'
    BY <1>2, <2>1, <2>2, <2>6, <2>7, Zenon DEF ReplyAt
  <2>9. last'.type = "item.added" /\ last'.at = n
    BY <1>2, <1>9
  <2>10. ResponsesContract!Announce
    <3>1. Cardinality(DOMAIN items) = n
      BY <1>3, <1>5, CountedFromZero DEF ItemNumbers
    <3>2. ResponsesContract!Cardinality(DOMAIN items) = n
      BY <3>1 DEF Cardinality, ResponsesContract!Cardinality
    <3> DEFINE size == ResponsesContract!Cardinality(DOMAIN Fallback(items, <<>>))
    <3>3. size = n
      BY <1>1, <3>2, ReplyContract
    <3> HIDE DEF size
    <3>4. /\ Fallback(begun, FALSE) /\ ~Fallback(ended, FALSE)
          /\ UNCHANGED <<Fallback(begun, FALSE), Fallback(ended, FALSE)>>
      BY <1>1, <2>2, ReplyContract, Zenon
    <3>5. Fallback(last, Nothing)'.type = "item.added" /\ Fallback(last, Nothing)'.at = size
      BY <1>1, <2>9, <3>3, ReplyContract
    <3>6. Fallback(items, <<>>)' = [x \in DOMAIN Fallback(items, <<>>) \cup {size} |->
                                     IF x = size THEN "added" ELSE Fallback(items, <<>>)[x]]
      BY <1>1, <2>2, <3>3, ReplyContract
    <3> QED BY <3>4, <3>5, <3>6, Zenon DEF ResponsesContract!Announce, size
  <2> QED BY <2>8, <2>10
<1>10. ASSUME e.type \in Fillings, p.mode = "within", e.at \in ItemNumbers(n),
              After(f[e.at], e.type) # "broken",
              q = [mode |-> "within", next |-> n,
                   stage |-> [f EXCEPT ![e.at] = After(f[e.at], e.type)]]
       PROVE  ReplyAt(q)' /\ \E i \in DOMAIN items : ResponsesContract!Fill(i)
  <2>1. PICK i \in ItemNumbers(n) : i = e.at
    BY <1>10
  <2>2. PICK st : st = After(f[i], e.type)
    OBVIOUS
  <2>3. q.mode = "within" /\ q.next = n /\ q.stage = [f EXCEPT ![i] = st] /\ st # "broken"
    BY <1>10, <2>1, <2>2
  <2>4. e.type \notin {"created", "completed"} /\ i \in Nat /\ i \in DOMAIN items
        /\ items[i] = f[i] /\ f[i] \in ItemStages
    BY <1>3, <1>5, <1>6, <1>10, <2>1 DEF Fillings, ItemTypes
  <2>5. /\ begun' /\ ~ended' /\ begun /\ ~ended /\ begun' = begun /\ ended' = ended
    BY <1>2, <1>4, <1>10, <2>4
  <2>6. ~(items[i] = "closed" /\ e.type = "delta")
    <3>1. After("closed", "delta") = "broken"
      BY DEF After, Contract!StageAfter
    <3> QED BY <2>2, <2>3, <2>4, <3>1
  <2>7. items' = Put(items, i, st)
    <3>1. e.at \in DOMAIN items
      BY <2>1, <2>4
    <3>2. ItemsAfter(e) = Put(items, e.at, After(items[e.at], e.type))
      BY <1>10, <2>1, <2>6, <3>1, ReplyItems
    <3> QED BY <1>2, <2>1, <2>2, <2>4, <3>2
  <2>8. items' = [items EXCEPT ![i] = st] /\ DOMAIN items' = DOMAIN items
    <3>1. DOMAIN items \cup {i} = DOMAIN items
      BY <2>4
    <3> QED BY <2>7, <3>1 DEF Put
  <2>9. items' = [j \in ItemNumbers(q.next) |-> q.stage[j]]
    <3>1. \A j \in ItemNumbers(n) : (IF j = i THEN st ELSE items[j]) = q.stage[j]
      BY <1>3, <1>5, <1>6, <2>3
    <3>2. DOMAIN items \cup {i} = ItemNumbers(n)
      BY <1>5
    <3> QED BY <2>3, <2>7, <3>1, <3>2 DEF Put
  <2>10. \A j \in ItemNumbers(q.next) : q.stage[j] # "absent"
    <3>1. st # "absent"
      BY <2>2, <2>3, <2>4, AfterIsStage
    <3> QED BY <1>3, <1>4, <1>6, <2>3, <3>1
  <2>11. ReplyAt(q)'
    BY <1>2, <2>3, <2>5, <2>9, <2>10, Zenon DEF ReplyAt
  <2>12. last'.at = i /\ last'.type = e.type
    BY <1>2, <2>1
  <2>13. ResponsesContract!StageAfter(items[i], last'.type) = st
    BY <2>2, <2>4, <2>12 DEF After, Contract!StageAfter, ResponsesContract!StageAfter
  <2>14. ResponsesContract!Fill(i)
    <3>1. Fallback(items, <<>>)[i] = items[i] /\ Fallback(last, Nothing)'.type = last'.type
          /\ Fallback(last, Nothing)'.at = i /\ ~Fallback(ended, FALSE)
          /\ UNCHANGED <<Fallback(begun, FALSE), Fallback(ended, FALSE)>>
      BY <1>1, <2>5, <2>12, ReplyContract, Zenon
    <3>2. ResponsesContract!StageAfter(Fallback(items, <<>>)[i], Fallback(last, Nothing)'.type) = st
      BY <2>13, <3>1
    <3>3. Fallback(items, <<>>)' = [Fallback(items, <<>>) EXCEPT ![i] = st]
      BY <1>1, <2>8, ReplyContract
    <3> QED BY <2>3, <3>1, <3>2, <3>3, Zenon DEF ResponsesContract!Fill
  <2> QED BY <2>4, <2>11, <2>14
<1>11. ASSUME e.type = "delta", e.kind = "reasoning", p.mode = "within", e.at \in ItemNumbers(n),
              f[e.at] = "closed", q = p
       PROVE  ReplyAt(q)' /\ \E i \in DOMAIN items : ResponsesContract!LateReasoning(i)
  <2>1. PICK i \in ItemNumbers(n) : i = e.at
    BY <1>11
  <2>2. i \in DOMAIN items /\ items[i] = "closed"
    BY <1>5, <1>11, <2>1
  <2>3. /\ begun' /\ ~ended' /\ begun /\ ~ended /\ begun' = begun /\ ended' = ended
    BY <1>2, <1>4, <1>11
  <2>4. items' = items
    <3>1. e.type \in Fillings /\ e.at \in DOMAIN items
      BY <1>11, <2>1, <2>2 DEF Fillings, ItemTypes
    <3> QED BY <1>2, <1>11, <2>1, <2>2, <3>1, ReplyItems
  <2>5. ReplyAt(q)'
    BY <1>2, <1>4, <1>11, <2>3, <2>4, Zenon DEF ReplyAt, n, f
  <2>6. e = [type |-> "delta", at |-> i, kind |-> "reasoning"]
    <3>1. e \in PlainEvents
      BY <1>11 DEF ReplyEvents, TerminalEvents
    <3> QED BY <1>11, <2>1, <3>1 DEF PlainEvents
  <2>7. ResponsesContract!LateReasoning(i)
    BY <1>1, <1>2, <2>2, <2>3, <2>4, <2>6, ReplyContract, Zenon
       DEF ResponsesContract!LateReasoning
  <2> QED BY <2>2, <2>5, <2>7
<1>12. ASSUME e.type = "completed", p.mode = "within", q = [p EXCEPT !.mode = "after"],
              \A i \in ItemNumbers(n) : f[i] = "closed", Lists(e.output, n)
       PROVE  ReplyAt(q)' /\ ResponsesContract!Finish
  <2>1. q.mode = "after" /\ q.next = n /\ q.stage = f
    BY <1>3, <1>12
  <2>2. begun' /\ ended' /\ begun /\ ~ended /\ begun' = begun /\ ended' = TRUE /\ items' = items
    BY <1>2, <1>4, <1>12, ReplyItems
  <2>3. last'.type = "completed" /\ Lists(last'.output, n)
    BY <1>2, <1>12
  <2>4. ReplyAt(q)'
    BY <1>2, <1>4, <2>1, <2>2, <2>3, Zenon DEF ReplyAt, Lists
  <2>5. \A i \in DOMAIN items : items[i] = "closed"
    BY <1>5, <1>12
  <2>6. ResponsesContract!Finish
    BY <1>1, <2>2, <2>3, <2>5, ReplyContract, Zenon DEF ResponsesContract!Finish
  <2> QED BY <2>4, <2>6
<1>13. ReplyAt(q)' /\ ResponsesContract!Next
  <2>1. DOMAIN Fallback(items, <<>>) = DOMAIN items
    BY <1>1, ReplyContract
  <2>2. \/ e.type = "created" /\ p.mode = "before" /\ q = [p EXCEPT !.mode = "within"]
        \/ /\ e.type = "item.added" /\ p.mode = "within" /\ e.at = n
           /\ q = [mode |-> "within", next |-> n + 1, stage |-> [f EXCEPT ![e.at] = "added"]]
        \/ /\ e.type \in Fillings /\ p.mode = "within" /\ e.at \in ItemNumbers(n)
           /\ After(f[e.at], e.type) # "broken"
           /\ q = [mode |-> "within", next |-> n,
                   stage |-> [f EXCEPT ![e.at] = After(f[e.at], e.type)]]
        \/ /\ e.type = "delta" /\ e.kind = "reasoning" /\ p.mode = "within"
           /\ e.at \in ItemNumbers(n) /\ f[e.at] = "closed" /\ q = p
        \/ /\ e.type = "completed" /\ p.mode = "within"
           /\ \A i \in ItemNumbers(n) : f[i] = "closed"
           /\ Lists(e.output, n) /\ q = [p EXCEPT !.mode = "after"]
    BY <1>2, Zenon DEF Admits, n, f, Fillings
  <2> QED BY <1>8, <1>9, <1>10, <1>11, <1>12, <2>1, <2>2, Zenon DEF ResponsesContract!Next
<1>14. LeadsTo(q, pending, Told(conv))'
  <2>1. LeadsTo(q, pending', Told(conv'))
    BY <1>1, <1>2, Zenon
  <2> QED BY <2>1 DEF LeadsTo, Leading, Told, Over, Shown, ModeIn, StagesIn, StageIn
<1>15. ConverterOK(conv)' /\ (phase' = "open" => ~conv'.completed)
  BY <1>1 DEF ReplyOK, ConverterOK, ItemsDistinct
<1> QED BY <1>2, <1>13, <1>14, <1>15 DEF ReplyOK, ReplyFollows, ReplyKnown

\* A converted stream begins with a client that has read nothing.
LEMMA ReplyBegins == StreamInit => ReplyInv /\ ResponsesContract!Init
<1> SUFFICES ASSUME StreamInit PROVE ReplyInv /\ ResponsesContract!Init
  OBVIOUS
<1>1. begun = FALSE /\ items = <<>> /\ ended = FALSE /\ last = Nothing /\ pending = <<>>
  BY DEF StreamInit
<1>2. ResponsesContract!Init
  <2>1. ResponsesContract!Nothing = Nothing
    BY DEF ResponsesContract!Nothing, Nothing, Contract!Nothing
  <2> QED BY <1>1, <2>1, Zenon DEF ResponsesContract!Init, Fallback
<1>3. ASSUME route = "fallback" PROVE ReplyOK
  <2>1. PICK b \in BOOLEAN : conv = NewConverter(b)
    <3>1. conv \in {NewConverter(b) : b \in BOOLEAN}
      BY <1>3 DEF StreamInit
    <3> QED BY <3>1
  <2>2. conv = [compat |-> b, created |-> FALSE, completed |-> FALSE, next |-> 0,
                reasoning |-> "none", reasoningAt |-> None, messageAt |-> None,
                tools |-> <<>>, finish |-> "none"]
    BY <2>1, Zenon DEF NewConverter
  <2>3. <<>> \in Tables /\ DOMAIN <<>> = {}
    <3>1. DOMAIN <<>> = {}
      OBVIOUS
    <3>2. <<>> \in [{} -> Nat]
      OBVIOUS
    <3>3. {} \in SUBSET Int
      OBVIOUS
    <3> QED BY <3>1, <3>2, <3>3 DEF Tables
  <2>4. conv \in Converters
    <3>1. b \in Flags /\ FALSE \in Flags /\ None \in Int
      BY DEF Flags, None
    <3> HIDE DEF Flags, Tables
    <3> QED BY <2>2, <2>3, <3>1 DEF Converters, Reasonings, Finishes
  <2>5. /\ conv.next = 0 /\ conv.reasoning = "none" /\ conv.reasoningAt = None
        /\ conv.messageAt = None /\ DOMAIN conv.tools = {} /\ ~conv.created /\ ~conv.completed
    BY <2>2, <2>3
  <2>6. ItemNumbers(0) = {}
    BY DEF ItemNumbers
  <2>7. ItemsDistinct(conv)
    BY <2>5, <2>6 DEF ItemsDistinct, Distinct
  <2>8. IsFiniteSet({})
    BY FS_EmptySet
  <2>9. ConverterOK(conv)
    BY <2>4, <2>5, <2>7, <2>8 DEF ConverterOK
  <2>10. PICK p \in Clients : p = Shown(conv)
    BY <2>9, ShownClient
  <2>11. p = Told(conv)
    BY <2>5, <2>10 DEF Told
  <2>12. p.mode = "before" /\ p.next = 0
    BY <2>5, <2>10 DEF Shown, ModeIn
  <2>13. items = [i \in ItemNumbers(p.next) |-> p.stage[i]]
    BY <1>1, <2>6, <2>12
  <2>14. ReplyAt(p)
    BY <1>1, <2>6, <2>12, <2>13 DEF ReplyAt
  <2>15. LeadsTo(p, pending, Told(conv))
    BY <1>1, <2>11, LeadingNowhere, Zenon DEF LeadsTo
  <2>16. pending \in Seq(ReplyEvents)
    BY <1>1
  <2> QED BY <2>5, <2>9, <2>14, <2>15, <2>16 DEF ReplyOK, ReplyFollows, ReplyKnown
<1> QED BY <1>2, <1>3, UpstreamBegins DEF ReplyInv

\* The invariant of a converted stream: what the client has read and what is on
\* its way to it lead to where the converter is.
LEMMA ReplyInvariant == StreamSpec => []ReplyInv
<1>1. ReplyInv /\ NativeInv' /\ [StreamNext]_vars => ReplyInv'
  <2> SUFFICES ASSUME ReplyInv, NativeInv', [StreamNext]_vars, route' = "fallback"
               PROVE  ReplyOK'
    BY DEF ReplyInv, NativeInv
  <2>1. CASE StreamNext
    <3>1. route = "fallback"
      BY <2>1 DEF StreamNext, FeedChunk, FeedItem, FeedCreated, FeedCompleted, UpstreamEnds,
         FlushTransform, BreakStream, Deliver
    <3>2. ~FeedItem /\ ~FeedCreated /\ ~FeedCompleted
      BY <3>1 DEF FeedItem, FeedCreated, FeedCompleted
    <3>3. UpstreamOK /\ ReplyOK
      BY <3>1 DEF ReplyInv
    <3> QED BY <2>1, <3>1, <3>2, <3>3, ReplyOtherStep, ReplyDeliverStep DEF StreamNext
  <2>2. CASE UNCHANGED vars
    <3>1. /\ conv' = conv /\ phase' = phase /\ pending' = pending /\ UNCHANGED client
          /\ route = "fallback"
      BY <2>2 DEF vars, client
    <3>2. ReplyOK
      BY <3>1 DEF ReplyInv
    <3>3. ConverterOK(conv)' /\ (phase' = "open" => ~conv'.completed)
      BY <3>1, <3>2 DEF ReplyOK, ConverterOK, ItemsDistinct
    <3>4. phase' # "broken" => ReplyFollows'
      <4> SUFFICES ASSUME phase # "broken" PROVE ReplyFollows'
        BY <3>1
      <4>1. PICK p \in Clients : ReplyAt(p) /\ LeadsTo(p, pending, Told(conv))
        BY <3>2 DEF ReplyOK, ReplyFollows
      <4>2. ReplyAt(p)'
        BY <3>1, <4>1, ReplyStays
      <4>3. LeadsTo(p, pending, Told(conv))'
        BY <3>1, <4>1 DEF LeadsTo, Leading, Told, Over, Shown, ModeIn, StagesIn, StageIn
      <4>4. pending' \in Seq(ReplyEvents)
        BY <3>1, <3>2 DEF ReplyOK, ReplyFollows
      <4> QED BY <4>2, <4>3, <4>4 DEF ReplyFollows
    <3>5. ReplyKnown'
      <4>1. PICK p \in Clients : ReplyAt(p)
        BY <3>2 DEF ReplyOK, ReplyKnown
      <4> QED BY <3>1, <4>1, ReplyStays DEF ReplyKnown
    <3> QED BY <3>3, <3>4, <3>5 DEF ReplyOK
  <2> QED BY <2>1, <2>2
<1>2. StreamInit => ReplyInv
  BY ReplyBegins
<1> QED BY <1>1, <1>2, NativeInvariant, PTL DEF StreamSpec

\* A converted chat completion reads like a Responses stream
\* (FallbackKeepsContract): items under consecutive indexes, each filled while
\* it is open and closed once, and one terminal event after the last is closed.
THEOREM ConversionsKeepTheContract == StreamSpec => FallbackKeepsContract
<1>1. ReplyInv /\ [StreamNext]_vars => [ResponsesContract!Next]_(ResponsesContract!vars)
  <2> SUFFICES ASSUME ReplyInv, [StreamNext]_vars
               PROVE  [ResponsesContract!Next]_(ResponsesContract!vars)
    OBVIOUS
  <2>1. route' = route
    BY DEF StreamNext, FeedChunk, FeedItem, FeedCreated, FeedCompleted, UpstreamEnds,
       FlushTransform, BreakStream, Deliver, vars
  <2>2. CASE route = "fallback" /\ Deliver
    BY <2>2, ReplyDeliverStep
  <2>3. CASE route = "fallback" /\ ~Deliver
    <3>1. UNCHANGED <<begun, items, ended, last>>
      BY <2>3 DEF StreamNext, FeedChunk, FeedItem, FeedCreated, FeedCompleted, UpstreamEnds,
         FlushTransform, BreakStream, vars, client
    <3> QED BY <2>1, <2>3, <3>1, ReplyContract DEF ResponsesContract!vars
  <2>4. CASE route # "fallback"
    BY <2>1, <2>4, Zenon DEF ResponsesContract!vars, Fallback
  <2> QED BY <2>2, <2>3, <2>4
<1>2. StreamInit => ResponsesContract!Init
  BY ReplyBegins
<1> QED BY <1>1, <1>2, ReplyInvariant, PTL
    DEF StreamSpec, FallbackKeepsContract, ResponsesContract!Spec

\* The terminal event of a converted answer lists every item the client was
\* told of, once (FinalListsItems), whatever chunks the answer came in.
THEOREM NoItemIsForgotten == StreamSpec => []FinalListsItems
<1>1. ReplyInv => FinalListsItems
  <2> SUFFICES ASSUME ReplyInv, route = "fallback", ended
               PROVE  /\ DOMAIN items = Range(last.output) \ {None}
                      /\ Cardinality(Range(last.output)) = Len(last.output)
    BY Zenon DEF FinalListsItems
  <2>1. PICK p \in Clients : ReplyAt(p)
    BY DEF ReplyInv, ReplyOK, ReplyKnown
  <2>2. DOMAIN items = ItemNumbers(p.next) /\ Lists(last.output, p.next)
    BY <2>1 DEF ReplyAt
  <2> QED BY <2>2 DEF Lists
<1> QED BY <1>1, ReplyInvariant, PTL

\* What the upstream sent and the client has read of a stream is what
\* StreamTypeOK says, on every route.
THEOREM StreamsTypeCorrect ==
  ASSUME ~Interleaved PROVE StreamSpec => []StreamTypeOK
<1>1. NativeInv /\ BridgeInv /\ ReplyInv => StreamTypeOK
  <2> SUFFICES ASSUME NativeInv, BridgeInv, ReplyInv PROVE StreamTypeOK
    OBVIOUS
  <2>1. /\ route \in {"fallback", "native", "bridge"} /\ phase \in Phases
        /\ DOMAIN sent = 0..(Len(plan) - 1)
        /\ due \subseteq DOMAIN sent /\ calls \subseteq DOMAIN sent
    BY DEF BridgeInv, UpstreamOK, Indices
  <2>2. ASSUME route # "fallback" PROVE \A i \in DOMAIN items : items[i] \in {"open", "closed"}
    BY <2>1, <2>2 DEF NativeInv, NativeOK, BridgeInv, MessageOK, ClientKnown, ClientAt
  <2>3. ASSUME route = "fallback"
        PROVE  \A i \in DOMAIN items : items[i] \in {"added", "part", "filled", "told", "closed"}
    <3>1. PICK p \in Clients : ReplyAt(p)
      BY <2>3 DEF ReplyInv, ReplyOK, ReplyKnown
    <3>2. p.stage \in [Nat -> ItemStages]
      BY ClientFields
    <3>3. \A i \in ItemNumbers(p.next) : i \in Nat
      BY DEF ItemNumbers
    <3> QED BY <3>1, <3>2, <3>3 DEF ReplyAt, ItemStages
  <2> QED BY <2>1, <2>2, <2>3 DEF StreamTypeOK, Phases
<1> QED BY <1>1, NativeInvariant, BridgeInvariant, ReplyInvariant, PTL

=============================================================================
