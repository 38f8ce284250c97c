----------------------------- MODULE DataProofs -----------------------------
(***************************************************************************)
(* What is computed over sequences and finite sets of data.                *)
(*                                                                         *)
(* FoldLeft is a recursive function on the sets of places, which takes the *)
(* largest place last; the lemmas say that such a function exists and what *)
(* it is for the first n places.  An operator of the models becomes a      *)
(* function of each place here: step[i][u] is what the element at place i  *)
(* makes of the value u.                                                   *)
(*                                                                         *)
(* A sorted enumeration counts predecessors: in a strict total order of a  *)
(* finite set that gives every number below the size of the set, once.     *)
(*                                                                         *)
(* A filter and a total are known by what one more element does to them;   *)
(* the total of a list is the sum of those of its parts.                   *)
(***************************************************************************)
EXTENDS Selections, SequencesExt, FiniteSets, FiniteSetTheorems, WellFoundedInduction, TLAPS

-----------------------------------------------------------------------------
(* Folds.                                                                  *)

\* What holds of 0 and of the successor of what it holds of holds up to n.
LEMMA Induction ==
  ASSUME NEW n \in Nat, NEW S, 0 \in S, \A m \in 0 .. n - 1 : m \in S => m + 1 \in S
  PROVE  \A m \in 0 .. n : m \in S
<1> DEFINE bad == {m \in 0 .. n : m \notin S}
<1>1. SUFFICES ASSUME bad # {} PROVE FALSE
  OBVIOUS
<1>2. PICK m \in bad : \A k \in bad : <<k, m>> \notin OpToRel(<, Nat)
  <2>1. bad \subseteq Nat
    OBVIOUS
  <2> HIDE DEF bad
  <2> QED BY <1>1, <2>1, NatLessThanWellFounded, WFMin
<1>3. m # 0 /\ m - 1 \in 0 .. n - 1 /\ m - 1 + 1 = m
  OBVIOUS
<1>4. m - 1 \in bad
  BY <1>3
<1>5. <<m - 1, m>> \in OpToRel(<, Nat)
  BY <1>3 DEF OpToRel
<1> HIDE DEF bad
<1> QED BY <1>2, <1>4, <1>5

\* The largest of some of the first m + 1 places.
LEMMA LargestPlace ==
  ASSUME NEW m \in Nat, NEW s \in SUBSET (1 .. m + 1), m + 1 \in s
  PROVE  Max(s) = m + 1
<1>1. \A x \in s : m + 1 >= x
  OBVIOUS
<1>2. \A x \in s : (\A y \in s : x >= y) => x = m + 1
  OBVIOUS
<1> QED BY <1>1, <1>2 DEF Max

\* Some places have a largest one, which is one of them.
LEMMA LargestIn ==
  ASSUME NEW n \in Nat, NEW s \in SUBSET (1 .. n), s # {}
  PROVE  Max(s) \in s /\ \A x \in s : x <= Max(s)
<1> DEFINE S == {m \in 0 .. n : \A t \in SUBSET (1 .. m) :
                   t # {} => \E x \in t : \A y \in t : x >= y}
<1>1. 0 \in S
  <2>1. 0 \in 0 .. n /\ SUBSET (1 .. 0) = {{}}
    OBVIOUS
  <2> QED BY <2>1
<1>2. ASSUME NEW m \in 0 .. n - 1, m \in S PROVE m + 1 \in S
  <2>1. ASSUME NEW t \in SUBSET (1 .. m + 1), t # {}
        PROVE  \E x \in t : \A y \in t : x >= y
    <3>1. CASE m + 1 \in t
      <4>1. \A y \in t : m + 1 >= y
        OBVIOUS
      <4> QED BY <3>1, <4>1
    <3>2. CASE m + 1 \notin t
      <4>1. t \in SUBSET (1 .. m)
        BY <3>2
      <4> QED BY <1>2, <2>1, <4>1
    <3> QED BY <3>1, <3>2
  <2>2. m + 1 \in 0 .. n
    OBVIOUS
  <2> QED BY <2>1, <2>2
<1> HIDE DEF S
<1>3. \A m \in 0 .. n - 1 : m \in S => m + 1 \in S
  BY <1>2
<1>4. n \in 0 .. n /\ \A m \in 0 .. n : m \in S
  <2>1. n \in 0 .. n
    OBVIOUS
  <2>2. \A m \in 0 .. n : m \in S
    BY ONLY n \in Nat, <1>1, <1>3, Induction
  <2> QED BY <2>1, <2>2
<1>5. \E x \in s : \A y \in s : x >= y
  BY <1>4 DEF S
<1>6. Max(s) \in s /\ \A y \in s : Max(s) >= y
  BY <1>5 DEF Max
<1>7. \A y \in s : Max(s) >= y => y <= Max(s)
  BY <1>6
<1> QED BY <1>6, <1>7

\* A function of the sets of places that takes the largest place last.
TakesLast(g, V, base, n, step) ==
  /\ g \in [SUBSET (1 .. n) -> V]
  /\ \A s \in SUBSET (1 .. n) :
       g[s] = IF s = {} THEN base ELSE step[Max(s)][g[s \ {Max(s)}]]

\* One that is known to do so only where its values are in V.
TakesLastIn(it, V, base, n, step) ==
  /\ it[{}] = base
  /\ \A s \in SUBSET (1 .. n) : s # {} /\ it[s \ {Max(s)}] \in V =>
       it[s] = step[Max(s)][it[s \ {Max(s)}]]

\* The values after each place, from the first to the last.
Stepwise(f, V, base, n, step) ==
  /\ f \in [0 .. n -> V]
  /\ f[0] = base
  /\ \A m \in 1 .. n : f[m] = step[m][f[m - 1]]

Folded(V, base, n, step, result) ==
  \E f : Stepwise(f, V, base, n, step) /\ f[n] = result

\* The function a fold chooses exists, with a value for all sets of places.
LEMMA FoldExists ==
  ASSUME NEW V, NEW base \in V, NEW n \in Nat, NEW step \in [1 .. n -> [V -> V]]
  PROVE  \E g : TakesLast(g, V, base, n, step)
<1> DEFINE Folds(m, g) == \A s \in SUBSET (1 .. m) :
             g[s] = IF s = {} THEN base ELSE step[Max(s)][g[s \ {Max(s)}]]
           S == {m \in 0 .. n : \E g \in [SUBSET (1 .. m) -> V] : Folds(m, g)}
<1>1. 0 \in S
  <2> DEFINE g == [s \in SUBSET (1 .. 0) |-> base]
  <2>1. SUBSET (1 .. 0) = {{}}
    OBVIOUS
  <2>2. g \in [SUBSET (1 .. 0) -> V] /\ Folds(0, g)
    BY <2>1
  <2>3. 0 \in 0 .. n
    OBVIOUS
  <2> HIDE DEF g
  <2> QED BY <2>2, <2>3, Zenon
<1>2. ASSUME NEW m \in 0 .. n - 1, m \in S PROVE m + 1 \in S
  <2>1. PICK g \in [SUBSET (1 .. m) -> V] : Folds(m, g)
    BY <1>2
  <2> DEFINE h == [s \in SUBSET (1 .. m + 1) |->
                     IF m + 1 \in s THEN step[m + 1][g[s \ {m + 1}]] ELSE g[s]]
  <2>2. \A s \in SUBSET (1 .. m + 1) : s \ {m + 1} \in SUBSET (1 .. m)
    OBVIOUS
  <2>3. \A s \in SUBSET (1 .. m + 1) : m + 1 \notin s => s \in SUBSET (1 .. m)
    OBVIOUS
  <2>4. m + 1 \in 1 .. n
    OBVIOUS
  <2>5. h \in [SUBSET (1 .. m + 1) -> V]
    BY <2>2, <2>3, <2>4
  <2>6. ASSUME NEW s \in SUBSET (1 .. m + 1)
        PROVE  h[s] = IF s = {} THEN base ELSE step[Max(s)][h[s \ {Max(s)}]]
    <3>1. CASE m + 1 \in s
      <4>1. Max(s) = m + 1 /\ s # {}
        BY <3>1, LargestPlace
      <4>2. s \ {m + 1} \in SUBSET (1 .. m + 1) /\ m + 1 \notin s \ {m + 1}
        OBVIOUS
      <4>3. h[s \ {m + 1}] = g[s \ {m + 1}] /\ h[s] = step[m + 1][g[s \ {m + 1}]]
        BY <3>1, <4>2
      <4> HIDE DEF h
      <4> QED BY <4>1, <4>3
    <3>2. CASE m + 1 \notin s
      <4>1. s \in SUBSET (1 .. m)
        BY <2>3, <3>2
      <4>2. s \ {Max(s)} \in SUBSET (1 .. m + 1) /\ m + 1 \notin s \ {Max(s)}
        BY <3>2
      <4>3. h[s] = g[s] /\ h[s \ {Max(s)}] = g[s \ {Max(s)}]
        BY <3>2, <4>2
      <4> HIDE DEF h
      <4> QED BY <2>1, <4>1, <4>3
    <3> QED BY <3>1, <3>2
  <2> HIDE DEF h
  <2>7. m + 1 \in 0 .. n
    OBVIOUS
  <2> QED BY <2>5, <2>6, <2>7
<1> HIDE DEF S
<1>3. \A m \in 0 .. n - 1 : m \in S => m + 1 \in S
  BY <1>2
<1>4. n \in 0 .. n /\ \A m \in 0 .. n : m \in S
  <2>1. n \in 0 .. n
    OBVIOUS
  <2>2. \A m \in 0 .. n : m \in S
    BY ONLY n \in Nat, <1>1, <1>3, Induction
  <2> QED BY <2>1, <2>2
<1> QED BY <1>4 DEF S, TakesLast

\* A function that folds as the steps say, as long as its values are in V, has
\* at the first m places the value of the m-th step.
LEMMA FoldPrefixes ==
  ASSUME NEW V, NEW base \in V, NEW n \in Nat, NEW step \in [1 .. n -> [V -> V]],
         NEW it, TakesLastIn(it, V, base, n, step)
  PROVE  Folded(V, base, n, step, it[1 .. n])
<1> DEFINE f == [m \in 0 .. n |-> it[1 .. m]]
           S == {m \in 0 .. n : it[1 .. m] \in V}
<1>1. it[1 .. 0] = base
  BY DEF TakesLastIn
<1>2. ASSUME NEW m \in 0 .. n - 1, it[1 .. m] \in V
      PROVE  it[1 .. m + 1] = step[m + 1][it[1 .. m]] /\ it[1 .. m + 1] \in V
  <2>1. 1 .. m + 1 \in SUBSET (1 .. n) /\ 1 .. m + 1 # {} /\ m + 1 \in 1 .. m + 1
        /\ m + 1 \in 1 .. n
    <3>1. m \in Nat /\ m + 1 <= n /\ m + 1 \in 1 .. m + 1
      OBVIOUS
    <3>2. 1 .. m + 1 \subseteq 1 .. n
      BY ONLY n \in Nat, <3>1
    <3> QED BY <3>1, <3>2
  <2>2. Max(1 .. m + 1) = m + 1
    BY <2>1, LargestPlace
  <2>3. (1 .. m + 1) \ {m + 1} = 1 .. m
    OBVIOUS
  <2>4. it[1 .. m + 1] = step[m + 1][it[1 .. m]]
    BY <1>2, <2>1, <2>2, <2>3 DEF TakesLastIn
  <2> QED BY <1>2, <2>1, <2>4
<1>3. \A m \in 0 .. n : it[1 .. m] \in V
  <2>1. 0 \in S
    BY <1>1
  <2>2. \A m \in 0 .. n - 1 : m \in S => m + 1 \in S
    BY <1>2
  <2> HIDE DEF S
  <2>3. \A m \in 0 .. n : m \in S
    BY <2>1, <2>2, Induction
  <2> QED BY <2>3 DEF S
<1>4. \A m \in 1 .. n : it[1 .. m] = step[m][it[1 .. m - 1]]
  <2>1. ASSUME NEW m \in 1 .. n PROVE it[1 .. m] = step[m][it[1 .. m - 1]]
    <3>1. m - 1 \in 0 .. n - 1 /\ m - 1 \in 0 .. n /\ m - 1 + 1 = m
      OBVIOUS
    <3> QED BY <1>2, <1>3, <3>1
  <2> QED BY <2>1
<1>5. f \in [0 .. n -> V]
  BY <1>3
<1>6. f[0] = base
  BY <1>1
<1>7. \A m \in 1 .. n : f[m] = step[m][f[m - 1]]
  BY <1>4
<1>8. f[n] = it[1 .. n]
  OBVIOUS
<1> HIDE DEF f
<1> QED BY <1>5, <1>6, <1>7, <1>8 DEF Stepwise, Folded

-----------------------------------------------------------------------------
(* Sorted enumerations.                                                    *)

\* The predecessors of x in S under the order R, a set of pairs.
Under(S, R, x) == {y \in S : <<y, x>> \in R}

StrictTotal(S, R) ==
  /\ \A x \in S : <<x, x>> \notin R
  /\ \A x, y, z \in S : <<x, y>> \in R /\ <<y, z>> \in R => <<x, z>> \in R
  /\ \A x, y \in S : x = y \/ <<x, y>> \in R \/ <<y, x>> \in R

\* Counting predecessors numbers a finite set from 0, in its order.
LEMMA RankOnto ==
  ASSUME NEW S, IsFiniteSet(S), NEW R, StrictTotal(S, R)
  PROVE  /\ \A x \in S : Cardinality(Under(S, R, x)) \in Nat
         /\ \A x, y \in S :
              <<x, y>> \in R <=> Cardinality(Under(S, R, x)) < Cardinality(Under(S, R, y))
         /\ \A k \in 0..(Cardinality(S) - 1) :
              \E x \in S : Cardinality(Under(S, R, x)) = k
<1> DEFINE rank(x) == Cardinality(Under(S, R, x))
           places == 0..(Cardinality(S) - 1)
           f == [x \in S |-> rank(x)]
<1>1. ASSUME NEW x \in S
      PROVE  IsFiniteSet(Under(S, R, x)) /\ rank(x) \in places
  <2>1. Under(S, R, x) \in SUBSET S /\ x \notin Under(S, R, x)
    BY DEF Under, StrictTotal
  <2>2. /\ IsFiniteSet(Under(S, R, x))
        /\ rank(x) <= Cardinality(S)
        /\ rank(x) # Cardinality(S)
    BY <2>1, FS_Subset
  <2>3. rank(x) \in Nat /\ Cardinality(S) \in Nat
    BY <2>2, FS_CardinalityType
  <2> QED BY <2>2, <2>3
<1>2. ASSUME NEW x \in S, NEW y \in S, <<x, y>> \in R
      PROVE  rank(x) < rank(y)
  <2>1. Under(S, R, x) \in SUBSET Under(S, R, y)
    BY <1>2 DEF Under, StrictTotal
  <2>2. x \in Under(S, R, y) /\ x \notin Under(S, R, x)
    BY <1>2 DEF Under, StrictTotal
  <2>3. rank(x) <= rank(y) /\ rank(x) # rank(y)
    BY <1>1, <2>1, <2>2, FS_Subset
  <2> QED BY <1>1, <2>3
<1>3. ASSUME NEW x \in S, NEW y \in S, rank(x) < rank(y)
      PROVE  <<x, y>> \in R
  <2>1. rank(x) \in Nat /\ rank(y) \in Nat
    BY <1>1
  <2>2. x # y /\ ~(rank(y) < rank(x))
    BY <1>3, <2>1
  <2> QED BY <1>2, <2>2 DEF StrictTotal
<1>4. f \in Injection(S, places)
  <2>1. f \in [S -> places]
    BY <1>1
  <2>2. ASSUME NEW x \in S, NEW y \in S, f[x] = f[y] PROVE x = y
    <3>1. rank(x) \in Nat /\ rank(y) \in Nat /\ rank(x) = rank(y)
      BY <1>1, <2>2
    <3>2. ~(rank(x) < rank(y)) /\ ~(rank(y) < rank(x))
      BY <3>1
    <3> QED BY <1>2, <3>2 DEF StrictTotal
  <2> QED BY <2>1, <2>2 DEF Injection, IsInjective
<1>5. IsFiniteSet(places) /\ Cardinality(places) = Cardinality(S)
  <2>1. Cardinality(S) \in Nat
    BY FS_CardinalityType
  <2>2. 0 \in Int /\ Cardinality(S) - 1 \in Int
    BY <2>1
  <2>3. /\ IsFiniteSet(places)
        /\ Cardinality(places) = IF 0 > Cardinality(S) - 1 THEN 0 ELSE Cardinality(S) - 1 - 0 + 1
    BY <2>2, FS_Interval
  <2> QED BY <2>1, <2>3
<1>6. f \in Surjection(S, places)
  BY <1>4, <1>5, FS_Injection
<1>7. \A k \in places : \E x \in S : rank(x) = k
  BY <1>6 DEF Surjection
<1> QED BY <1>1, <1>2, <1>3, <1>7

\* The numbers of xs up to x.
UpTo(xs, x) == {y \in xs : y <= x}

\* For each place the number that has so many up to itself.
InOrder(xs) == [k \in 1..Cardinality(xs) |-> CHOOSE x \in xs : Cardinality(UpTo(xs, x)) = k]

\* f gives each of n places one of xs, and each of them once.
Enumerates(f, n, xs) ==
  /\ n \in Nat /\ f \in [1..n -> xs]
  /\ \A x \in xs : \E k \in 1..n : f[k] = x
  /\ \A k, l \in 1..n : f[k] = f[l] => k = l

\* A finite set of numbers is listed in order, each once.
LEMMA Enumerated ==
  ASSUME NEW xs \in SUBSET Int, IsFiniteSet(xs), NEW f, f = InOrder(xs)
  PROVE  Enumerates(f, Cardinality(xs), xs)
<1> DEFINE R == {p \in xs \X xs : p[1] < p[2]}
           rank(x) == Cardinality(Under(xs, R, x))
           n == Cardinality(xs)
<1>1. StrictTotal(xs, R)
  BY DEF StrictTotal
<1>2. /\ \A x \in xs : rank(x) \in Nat
      /\ \A x, y \in xs : <<x, y>> \in R <=> rank(x) < rank(y)
      /\ \A k \in 0..(n - 1) : \E x \in xs : rank(x) = k
  <2> HIDE DEF R
  <2> QED BY <1>1, RankOnto
<1>3. \A x \in xs : Cardinality(UpTo(xs, x)) = rank(x) + 1
  <2> SUFFICES ASSUME NEW x \in xs PROVE Cardinality(UpTo(xs, x)) = rank(x) + 1
    OBVIOUS
  <2>1. UpTo(xs, x) = Under(xs, R, x) \cup {x} /\ x \notin Under(xs, R, x)
    <3>1. \A y \in xs : <<y, x>> \in R <=> y < x
      OBVIOUS
    <3>2. Under(xs, R, x) = {y \in xs : y < x}
      BY <3>1, Zenon DEF Under
    <3>3. \A y \in xs : y \in Int
      OBVIOUS
    <3>4. UpTo(xs, x) = {y \in xs : y < x} \cup {x}
      <4>1. \A y \in xs : y <= x <=> y < x \/ y = x
        BY <3>3
      <4> QED BY <4>1, Zenon DEF UpTo
    <3> QED BY <3>2, <3>3, <3>4
  <2>2. IsFiniteSet(Under(xs, R, x))
    <3>1. Under(xs, R, x) \in SUBSET xs
      BY DEF Under
    <3> QED BY <3>1, FS_Subset
  <2> QED BY <2>1, <2>2, FS_AddElement
<1>4. n \in Nat
  BY FS_CardinalityType
<1>5. \A k \in 1..n : \E x \in xs : Cardinality(UpTo(xs, x)) = k
  <2> SUFFICES ASSUME NEW k \in 1..n PROVE \E x \in xs : Cardinality(UpTo(xs, x)) = k
    OBVIOUS
  <2>1. k - 1 \in 0..(n - 1) /\ k - 1 + 1 = k
    BY <1>4
  <2>2. PICK x \in xs : rank(x) = k - 1
    BY <1>2, <2>1
  <2> QED BY <1>3, <2>1, <2>2
<1>6. \A k \in 1..n : f[k] \in xs /\ Cardinality(UpTo(xs, f[k])) = k
  BY <1>5 DEF InOrder
<1>7. \A x, y \in xs : Cardinality(UpTo(xs, x)) = Cardinality(UpTo(xs, y)) => x = y
  <2> SUFFICES ASSUME NEW x \in xs, NEW y \in xs,
                      Cardinality(UpTo(xs, x)) = Cardinality(UpTo(xs, y))
               PROVE  x = y
    OBVIOUS
  <2> HIDE DEF rank
  <2>1. rank(x) = rank(y)
    BY <1>2, <1>3
  <2>2. <<x, y>> \notin R /\ <<y, x>> \notin R
    BY <1>2, <2>1
  <2> QED BY <2>2
<1>8. \A x \in xs : Cardinality(UpTo(xs, x)) \in 1..n
  <2> SUFFICES ASSUME NEW x \in xs PROVE Cardinality(UpTo(xs, x)) \in 1..n
    OBVIOUS
  <2>1. Cardinality(UpTo(xs, x)) <= n
    <3>1. UpTo(xs, x) \in SUBSET xs
      BY DEF UpTo
    <3> QED BY <3>1, FS_Subset
  <2> HIDE DEF rank
  <2> QED BY <1>2, <1>3, <1>4, <2>1
<1>9. \A x \in xs : f[Cardinality(UpTo(xs, x))] = x
  <2> SUFFICES ASSUME NEW x \in xs PROVE f[Cardinality(UpTo(xs, x))] = x
    OBVIOUS
  <2>1. PICK k \in 1..n : k = Cardinality(UpTo(xs, x))
    BY <1>8
  <2>2. f[k] \in xs /\ Cardinality(UpTo(xs, f[k])) = k
    BY <1>6
  <2> QED BY <1>7, <2>1, <2>2
<1> HIDE DEF n, rank, R
<1>10. f \in [1..n -> xs]
  BY <1>6 DEF n, InOrder
<1>11. /\ \A x \in xs : \E k \in 1..n : f[k] = x
       /\ \A k, l \in 1..n : f[k] = f[l] => k = l
  BY <1>6, <1>8, <1>9
<1> QED BY <1>4, <1>10, <1>11, Zenon DEF n, Enumerates

-----------------------------------------------------------------------------
(* Sequences, element by element.                                          *)

\* What holds of no element and of one more than what it holds of holds of all
\* sequences.
LEMMA SeqInduction ==
  ASSUME NEW E, NEW S, <<>> \in S, \A t \in Seq(E) : t \in S => \A e \in E : Append(t, e) \in S
  PROVE  \A s \in Seq(E) : s \in S
<1> SUFFICES ASSUME NEW s \in Seq(E) PROVE s \in S
  OBVIOUS
<1>1. PICK n \in Nat : n = Len(s)
  OBVIOUS
<1> DEFINE upto == [m \in 0 .. n |-> [i \in 1 .. m |-> s[i]]]
           M == {m \in 0 .. n : upto[m] \in S}
<1>2. \A m \in 0 .. n : upto[m] \in Seq(E) /\ Len(upto[m]) = m
  BY <1>1
<1>3. upto[0] = <<>> /\ upto[n] = s
  BY <1>1
<1>4. \A m \in 0 .. n - 1 : upto[m + 1] = Append(upto[m], s[m + 1]) /\ s[m + 1] \in E
  <2> SUFFICES ASSUME NEW m \in 0 .. n - 1
               PROVE  upto[m + 1] = Append(upto[m], s[m + 1]) /\ s[m + 1] \in E
    OBVIOUS
  <2>1. m \in 0 .. n /\ m + 1 \in 0 .. n /\ m + 1 \in 1 .. n
    OBVIOUS
  <2>2. upto[m] = [i \in 1 .. m |-> s[i]] /\ upto[m + 1] = [i \in 1 .. m + 1 |-> s[i]]
    BY <2>1
  <2>3. [i \in 1 .. m |-> s[i]] \in Seq(E) /\ s[m + 1] \in E
    BY <1>1, <2>1
  <2>4. Append([i \in 1 .. m |-> s[i]], s[m + 1]) = [i \in 1 .. m + 1 |-> s[i]]
    BY <2>1, <2>3
  <2> QED BY <2>2, <2>3, <2>4
<1>5. 0 \in M
  BY <1>3
<1>6. \A m \in 0 .. n - 1 : m \in M => m + 1 \in M
  <2>1. \A m \in 0 .. n - 1 : m + 1 \in 0 .. n /\ m \in 0 .. n
    OBVIOUS
  <2> HIDE DEF upto
  <2> QED BY <1>2, <1>4, <2>1
<1> HIDE DEF M
<1>7. n \in 0 .. n /\ \A m \in 0 .. n : m \in M
  BY <1>5, <1>6, Induction
<1> QED BY <1>3, <1>7 DEF M

\* One element after s: what a sequence function makes of it.
LEMMA Appended ==
  ASSUME NEW E, NEW s \in Seq(E), NEW e \in E
  PROVE  /\ Append(s, e) \in Seq(E)
         /\ Len(Append(s, e)) = Len(s) + 1
         /\ Append(s, e)[Len(s) + 1] = e
         /\ \A i \in 1 .. Len(s) : Append(s, e)[i] = s[i]
OBVIOUS

\* What is left after each place.
Keeps(r, s, places) ==
  /\ r[0] = <<>>
  /\ \A m \in 1 .. Len(s) :
       r[m] = IF m \in places THEN Append(r[m - 1], s[m]) ELSE r[m - 1]

\* The filter's recursion has a solution, and the filter is what it leaves last.
LEMMA WhereKeeps ==
  ASSUME NEW E, NEW s \in Seq(E), NEW places
  PROVE  \E r : Keeps(r, s, places) /\ Where(s, places) = r[Len(s)]
<1>1. PICK n \in Nat : n = Len(s)
  OBVIOUS
<1> DEFINE next(m, u) == IF m \in places THEN Append(u, s[m]) ELSE u
           step == [m \in 1 .. n |-> [u \in Seq(E) |-> next(m, u)]]
           rule(f) == [m \in 0 .. Len(s) |-> IF m = 0 THEN <<>> ELSE next(m, f[m - 1])]
           kept == CHOOSE f : f = rule(f)
<1>2. step \in [1 .. n -> [Seq(E) -> Seq(E)]] /\ <<>> \in Seq(E)
  <2>1. \A m \in 1 .. n : s[m] \in E
    BY <1>1
  <2>2. \A m \in 1 .. n : \A u \in Seq(E) : next(m, u) \in Seq(E)
    BY <2>1
  <2> QED BY <2>2
<1>3. \E f : f = rule(f)
  <2>1. PICK g : TakesLast(g, Seq(E), <<>>, n, step)
    <3> HIDE DEF step
    <3> QED BY <1>2, FoldExists
  <2>2. TakesLastIn(g, Seq(E), <<>>, n, step)
    <3> HIDE DEF step
    <3> QED BY <2>1 DEF TakesLast, TakesLastIn
  <2>3. PICK f : Stepwise(f, Seq(E), <<>>, n, step)
    <3> HIDE DEF step
    <3> QED BY <1>2, <2>2, FoldPrefixes DEF Folded
  <2>4. f = [m \in 0 .. n |-> f[m]] /\ f[0] = <<>>
    BY <2>3 DEF Stepwise
  <2>5. \A m \in 1 .. n : f[m] = next(m, f[m - 1])
    <3> SUFFICES ASSUME NEW m \in 1 .. n PROVE f[m] = next(m, f[m - 1])
      OBVIOUS
    <3>1. m - 1 \in 0 .. n /\ f[m - 1] \in Seq(E)
      BY <2>3 DEF Stepwise
    <3>2. f[m] = step[m][f[m - 1]]
      BY <2>3 DEF Stepwise
    <3> QED BY <3>1, <3>2
  <2> HIDE DEF next
  <2>6. \A m \in 0 .. n : f[m] = IF m = 0 THEN <<>> ELSE next(m, f[m - 1])
    BY <2>4, <2>5
  <2>7. f = rule(f)
    BY ONLY n \in Nat, <1>1, <2>4, <2>6
  <2> QED BY <2>7
<1>4. kept = rule(kept)
  BY <1>3
<1>5. Where(s, places) = kept[Len(s)]
  BY DEF Where
<1>6. Keeps(kept, s, places)
  <2> HIDE DEF kept
  <2>1. kept[0] = <<>>
    BY <1>1, <1>4
  <2>2. \A m \in 1 .. Len(s) : kept[m] = next(m, kept[m - 1])
    <3> HIDE DEF next
    <3> QED BY <1>1, <1>4
  <2> QED BY <2>1, <2>2 DEF Keeps
<1> QED BY <1>5, <1>6

\* A filter of an empty list.
LEMMA WhereNone == ASSUME NEW places PROVE Where(<<>>, places) = <<>>
<1>1. PICK r : Keeps(r, <<>>, places) /\ Where(<<>>, places) = r[Len(<<>>)]
  <2>1. <<>> \in Seq({})
    OBVIOUS
  <2> QED BY <2>1, WhereKeeps
<1> QED BY <1>1 DEF Keeps

\* What two filters leave of two lists that begin alike, after each place.
LEMMA WhereAlike ==
  ASSUME NEW E, NEW s \in Seq(E), NEW t \in Seq(E), NEW n \in Nat, n <= Len(s), n <= Len(t),
         NEW P, NEW Q, \A i \in 1 .. n : s[i] = t[i] /\ (i \in P <=> i \in Q),
         NEW p, NEW q, Keeps(p, s, P), Keeps(q, t, Q)
  PROVE  p[n] = q[n] /\ p[n] \in Seq(E)
<1> DEFINE M == {m \in 0 .. n : p[m] = q[m] /\ p[m] \in Seq(E)}
<1>1. 0 \in M
  <2>1. 0 \in 0 .. n /\ <<>> \in Seq(E)
    OBVIOUS
  <2>2. p[0] = <<>> /\ q[0] = <<>>
    BY DEF Keeps
  <2> QED BY <2>1, <2>2
<1>2. ASSUME NEW m \in 0 .. n - 1, m \in M PROVE m + 1 \in M
  <2>1. m + 1 \in 1 .. n /\ m + 1 - 1 = m /\ m + 1 \in 1 .. Len(s) /\ m + 1 \in 1 .. Len(t)
    OBVIOUS
  <2>2. p[m] = q[m] /\ p[m] \in Seq(E) /\ s[m + 1] = t[m + 1] /\ s[m + 1] \in E
    BY <1>2, <2>1
  <2>3. /\ p[m + 1] = IF m + 1 \in P THEN Append(p[m], s[m + 1]) ELSE p[m]
        /\ q[m + 1] = IF m + 1 \in Q THEN Append(q[m], t[m + 1]) ELSE q[m]
    BY <2>1 DEF Keeps
  <2>4. m + 1 \in P <=> m + 1 \in Q
    BY <2>1
  <2>5. p[m + 1] = q[m + 1] /\ p[m + 1] \in Seq(E)
    BY <2>2, <2>3, <2>4
  <2> QED BY <2>1, <2>5
<1> HIDE DEF M
<1>3. \A m \in 0 .. n - 1 : m \in M => m + 1 \in M
  BY <1>2
<1>4. n \in 0 .. n /\ \A m \in 0 .. n : m \in M
  <2>1. n \in 0 .. n
    OBVIOUS
  <2> QED BY ONLY n \in Nat, <1>1, <1>3, <2>1, Induction
<1> QED BY <1>4 DEF M

\* A filter of a list that is longer by an element.
LEMMA WhereMore ==
  ASSUME NEW E, NEW s \in Seq(E), NEW e \in E, NEW P, NEW Q,
         \A i \in 1 .. Len(s) : i \in P <=> i \in Q
  PROVE  /\ Where(s, Q) \in Seq(E)
         /\ Where(Append(s, e), P) =
              IF Len(s) + 1 \in P THEN Append(Where(s, Q), e) ELSE Where(s, Q)
<1>1. PICK n \in Nat : n = Len(s)
  OBVIOUS
<1>2. PICK t : t = Append(s, e)
  OBVIOUS
<1>3. /\ t \in Seq(E) /\ Len(t) = n + 1 /\ t[n + 1] = e
      /\ \A i \in 1 .. n : t[i] = s[i]
  BY <1>1, <1>2, Appended
<1>4. PICK p : Keeps(p, t, P) /\ Where(t, P) = p[n + 1]
  BY <1>3, WhereKeeps
<1>5. PICK q : Keeps(q, s, Q) /\ Where(s, Q) = q[n]
  BY <1>1, WhereKeeps
<1>6. p[n] = q[n] /\ p[n] \in Seq(E)
  <2>1. n <= Len(s) /\ n <= Len(t) /\ \A i \in 1 .. n : t[i] = s[i] /\ (i \in P <=> i \in Q)
    BY <1>1, <1>3
  <2> QED BY ONLY s \in Seq(E), n \in Nat, <1>3, <1>4, <1>5, <2>1, WhereAlike
<1>7. p[n + 1] = IF n + 1 \in P THEN Append(p[n], t[n + 1]) ELSE p[n]
  <2>1. n + 1 \in 1 .. Len(t) /\ n + 1 - 1 = n
    BY <1>3
  <2> QED BY <1>4, <2>1 DEF Keeps
<1> QED BY <1>1, <1>2, <1>3, <1>4, <1>5, <1>6, <1>7

\* A filter by what an element is.
KeptOf(s, R) == Where(s, {i \in DOMAIN s : s[i] \in R})

\* Nothing of an empty list is kept.
LEMMA KeptNone == ASSUME NEW R PROVE KeptOf(<<>>, R) = <<>>
BY WhereNone DEF KeptOf

\* What one more element does to it.
LEMMA KeptMore ==
  ASSUME NEW E, NEW s \in Seq(E), NEW e \in E, NEW R
  PROVE  /\ KeptOf(s, R) \in Seq(E)
         /\ KeptOf(Append(s, e), R) = IF e \in R THEN Append(KeptOf(s, R), e) ELSE KeptOf(s, R)
<1>1. PICK n \in Nat : n = Len(s)
  OBVIOUS
<1>2. PICK t : t = Append(s, e)
  OBVIOUS
<1>3. /\ t \in Seq(E) /\ Len(t) = n + 1 /\ t[n + 1] = e
      /\ \A i \in 1 .. n : t[i] = s[i]
  BY <1>1, <1>2, Appended
<1>4. PICK P, Q : P = {i \in DOMAIN t : t[i] \in R} /\ Q = {i \in DOMAIN s : s[i] \in R}
  OBVIOUS
<1>5. n + 1 \in P <=> e \in R
  BY <1>3, <1>4
<1>6. \A i \in 1 .. n : i \in P <=> i \in Q
  BY <1>1, <1>3, <1>4
<1>7. /\ Where(s, Q) \in Seq(E)
      /\ Where(t, P) = IF n + 1 \in P THEN Append(Where(s, Q), e) ELSE Where(s, Q)
  BY <1>1, <1>2, <1>6, WhereMore
<1> QED BY <1>2, <1>4, <1>5, <1>7 DEF KeptOf

\* What is kept are elements of s, all those in R.
LEMMA KeptIn ==
  ASSUME NEW E, NEW R
  PROVE  \A s \in Seq(E) : KeptOf(s, R) \in Seq(E \cap R)
<1> DEFINE S == {s \in Seq(E) : KeptOf(s, R) \in Seq(E \cap R)}
<1>1. <<>> \in S
  <2>1. <<>> \in Seq(E) /\ <<>> \in Seq(E \cap R)
    OBVIOUS
  <2> QED BY <2>1, KeptNone
<1>2. \A s \in Seq(E) : s \in S => \A e \in E : Append(s, e) \in S
  <2> SUFFICES ASSUME NEW s \in Seq(E), KeptOf(s, R) \in Seq(E \cap R), NEW e \in E
               PROVE  Append(s, e) \in S
    OBVIOUS
  <2>1. KeptOf(Append(s, e), R) = IF e \in R THEN Append(KeptOf(s, R), e) ELSE KeptOf(s, R)
    BY KeptMore
  <2>2. KeptOf(Append(s, e), R) \in Seq(E \cap R)
    BY <2>1
  <2> QED BY <2>2
<1> HIDE DEF S
<1>3. \A s \in Seq(E) : s \in S
  BY <1>1, <1>2, SeqInduction
<1> QED BY <1>3 DEF S

\* Every element of s that is in R is kept.
LEMMA KeptAll ==
  ASSUME NEW E, NEW R
  PROVE  \A s \in Seq(E) : \A i \in DOMAIN s : s[i] \in R =>
           \E j \in DOMAIN KeptOf(s, R) : KeptOf(s, R)[j] = s[i]
<1> DEFINE Found(s, x) == \E j \in DOMAIN KeptOf(s, R) : KeptOf(s, R)[j] = x
           S == {s \in Seq(E) : \A i \in DOMAIN s : s[i] \in R => Found(s, s[i])}
<1>1. <<>> \in S
  OBVIOUS
<1>2. \A s \in Seq(E) : s \in S => \A e \in E : Append(s, e) \in S
  <2> SUFFICES ASSUME NEW s \in Seq(E), NEW e \in E,
                      \A i \in DOMAIN s : s[i] \in R => Found(s, s[i])
               PROVE  Append(s, e) \in S
    OBVIOUS
  <2>1. PICK t : t = Append(s, e)
    OBVIOUS
  <2>2. /\ t \in Seq(E) /\ Len(t) = Len(s) + 1 /\ t[Len(s) + 1] = e
        /\ \A i \in 1 .. Len(s) : t[i] = s[i]
    BY <2>1, Appended
  <2>3. /\ KeptOf(s, R) \in Seq(E)
        /\ KeptOf(t, R) = IF e \in R THEN Append(KeptOf(s, R), e) ELSE KeptOf(s, R)
    <3>1. /\ KeptOf(s, R) \in Seq(E)
          /\ KeptOf(Append(s, e), R) = IF e \in R THEN Append(KeptOf(s, R), e) ELSE KeptOf(s, R)
      BY KeptMore
    <3> QED BY <2>1, <3>1
  <2>4. \A x : Found(s, x) => Found(t, x)
    BY <2>3
  <2>5. e \in R => Found(t, e)
    <3> SUFFICES ASSUME e \in R PROVE Found(t, e)
      OBVIOUS
    <3>1. PICK k : k = KeptOf(s, R)
      OBVIOUS
    <3>2. Len(k) + 1 \in DOMAIN Append(k, e) /\ Append(k, e)[Len(k) + 1] = e
      BY <2>3, <3>1
    <3> QED BY <2>3, <3>1, <3>2
  <2> HIDE DEF Found
  <2>6. \A i \in DOMAIN t : t[i] \in R => Found(t, t[i])
    <3> SUFFICES ASSUME NEW i \in DOMAIN t, t[i] \in R PROVE Found(t, t[i])
      OBVIOUS
    <3>1. CASE i = Len(s) + 1
      BY <2>2, <2>5, <3>1
    <3>2. CASE i # Len(s) + 1
      <4>1. i \in DOMAIN s /\ t[i] = s[i]
        BY <2>2, <3>2
      <4> QED BY <2>4, <4>1
    <3> QED BY <3>1, <3>2
  <2> QED BY <2>1, <2>2, <2>6
<1> HIDE DEF S
<1>3. \A s \in Seq(E) : s \in S
  BY <1>1, <1>2, SeqInduction
<1> QED BY <1>3 DEF S

\* A filter leaves no more than there was.
LEMMA KeptShorter ==
  ASSUME NEW E, NEW R
  PROVE  \A s \in Seq(E) : Len(KeptOf(s, R)) <= Len(s)
<1> DEFINE S == {s \in Seq(E) : Len(KeptOf(s, R)) <= Len(s)}
<1>1. <<>> \in S
  BY KeptNone
<1>2. \A s \in Seq(E) : s \in S => \A e \in E : Append(s, e) \in S
  <2> SUFFICES ASSUME NEW s \in Seq(E), NEW e \in E, Len(KeptOf(s, R)) <= Len(s)
               PROVE  Append(s, e) \in S
    OBVIOUS
  <2>1. /\ KeptOf(s, R) \in Seq(E)
        /\ KeptOf(Append(s, e), R) = IF e \in R THEN Append(KeptOf(s, R), e) ELSE KeptOf(s, R)
    BY KeptMore
  <2>2. Len(Append(KeptOf(s, R), e)) = Len(KeptOf(s, R)) + 1
    BY <2>1, Appended
  <2>3. Append(s, e) \in Seq(E) /\ Len(Append(s, e)) = Len(s) + 1
    BY Appended
  <2>4. Len(s) \in Nat /\ Len(KeptOf(s, R)) \in Nat
    BY <2>1
  <2>5. Len(KeptOf(Append(s, e), R)) <= Len(Append(s, e))
    BY <2>1, <2>2, <2>3, <2>4
  <2> QED BY <2>3, <2>5
<1> HIDE DEF S
<1>3. \A s \in Seq(E) : s \in S
  BY <1>1, <1>2, SeqInduction
<1> QED BY <1>3 DEF S

\* A filter of what another left keeps what both keep.
LEMMA KeptTwice ==
  ASSUME NEW E, NEW R, NEW Q
  PROVE  \A s \in Seq(E) : KeptOf(KeptOf(s, R), Q) = KeptOf(s, R \cap Q)
<1> DEFINE S == {s \in Seq(E) : KeptOf(KeptOf(s, R), Q) = KeptOf(s, R \cap Q)}
<1>1. <<>> \in S
  BY KeptNone
<1>2. \A s \in Seq(E) : s \in S => \A e \in E : Append(s, e) \in S
  <2> SUFFICES ASSUME NEW s \in Seq(E), NEW e \in E,
                      KeptOf(KeptOf(s, R), Q) = KeptOf(s, R \cap Q)
               PROVE  Append(s, e) \in S
    OBVIOUS
  <2>1. PICK k, t : k = KeptOf(s, R) /\ t = Append(s, e)
    OBVIOUS
  <2>2. k \in Seq(E) /\ KeptOf(t, R) = IF e \in R THEN Append(k, e) ELSE k
    <3>1. /\ KeptOf(s, R) \in Seq(E)
          /\ KeptOf(Append(s, e), R) = IF e \in R THEN Append(KeptOf(s, R), e) ELSE KeptOf(s, R)
      BY ONLY s \in Seq(E), e \in E, KeptMore
    <3> QED BY <2>1, <3>1
  <2>3. KeptOf(t, R \cap Q) =
          IF e \in R \cap Q THEN Append(KeptOf(s, R \cap Q), e) ELSE KeptOf(s, R \cap Q)
    <3>1. PICK B : B = R \cap Q
      OBVIOUS
    <3>2. KeptOf(Append(s, e), B) = IF e \in B THEN Append(KeptOf(s, B), e) ELSE KeptOf(s, B)
      BY ONLY s \in Seq(E), e \in E, KeptMore
    <3> QED BY <2>1, <3>1, <3>2
  <2>4. KeptOf(KeptOf(t, R), Q) = KeptOf(t, R \cap Q)
    <3>1. CASE e \in R
      <4>1. KeptOf(Append(k, e), Q) = IF e \in Q THEN Append(KeptOf(k, Q), e) ELSE KeptOf(k, Q)
        <5>1. k \in Seq(E)
          BY <2>2
        <5> QED BY ONLY e \in E, <5>1, KeptMore
      <4>2. KeptOf(t, R) = Append(k, e) /\ (e \in R \cap Q <=> e \in Q)
        BY <2>2, <3>1
      <4>3. KeptOf(k, Q) = KeptOf(s, R \cap Q)
        BY <2>1
      <4> QED BY ONLY <2>3, <4>1, <4>2, <4>3
    <3>2. CASE e \notin R
      BY <2>1, <2>2, <2>3, <3>2
    <3> QED BY <3>1, <3>2
  <2>5. t \in Seq(E)
    BY <2>1, Appended
  <2> QED BY <2>1, <2>4, <2>5
<1> HIDE DEF S
<1>3. \A s \in Seq(E) : s \in S
  BY <1>1, <1>2, SeqInduction
<1> QED BY <1>3 DEF S

\* A filter that keeps every element keeps the list.
LEMMA KeptWhole ==
  ASSUME NEW E, NEW R, E \subseteq R
  PROVE  \A s \in Seq(E) : KeptOf(s, R) = s
<1> DEFINE S == {s \in Seq(E) : KeptOf(s, R) = s}
<1>1. <<>> \in S
  BY KeptNone
<1>2. \A s \in Seq(E) : s \in S => \A e \in E : Append(s, e) \in S
  <2> SUFFICES ASSUME NEW s \in Seq(E), NEW e \in E, KeptOf(s, R) = s
               PROVE  Append(s, e) \in S
    OBVIOUS
  <2>1. KeptOf(Append(s, e), R) = IF e \in R THEN Append(KeptOf(s, R), e) ELSE KeptOf(s, R)
    BY KeptMore
  <2>2. Append(s, e) \in Seq(E) /\ e \in R
    BY Appended
  <2>3. KeptOf(Append(s, e), R) = Append(s, e)
    BY <2>1, <2>2
  <2> QED BY <2>2, <2>3
<1> HIDE DEF S
<1>3. \A s \in Seq(E) : s \in S
  BY <1>1, <1>2, SeqInduction
<1> QED BY <1>3 DEF S

\* What lists have become after each of them, one after the other.
Joins(r, lists) ==
  r[0] = <<>> /\ \A m \in 0 .. Len(lists) - 1 : r[m + 1] = r[m] \o lists[m + 1]

\* Joining lists is a recursion that has a solution.
LEMMA FlattenJoins ==
  ASSUME NEW E, NEW lists \in Seq(Seq(E))
  PROVE  \E r \in [0 .. Len(lists) -> Seq(E)] :
           Joins(r, lists) /\ FlattenSeq(lists) = r[Len(lists)]
<1>1. PICK n \in Nat : n = Len(lists)
  OBVIOUS
<1> DEFINE step == [m \in 1 .. n |-> [u \in Seq(E) |-> u \o lists[m]]]
           rule(f) == [i \in 1 .. Len(lists) |->
                         IF i = 1 THEN lists[i] ELSE f[i - 1] \o lists[i]]
           flatten == CHOOSE f : f = rule(f)
<1>2. \A m \in 1 .. n : lists[m] \in Seq(E)
  BY <1>1
<1>3. step \in [1 .. n -> [Seq(E) -> Seq(E)]] /\ <<>> \in Seq(E)
  BY <1>2
<1>4. PICK r : Stepwise(r, Seq(E), <<>>, n, step)
  <2> HIDE DEF step
  <2>1. PICK g : TakesLast(g, Seq(E), <<>>, n, step)
    BY <1>3, FoldExists
  <2>2. TakesLastIn(g, Seq(E), <<>>, n, step)
    BY <2>1 DEF TakesLast, TakesLastIn
  <2> QED BY <1>3, <2>2, FoldPrefixes DEF Folded
<1>5. r \in [0 .. n -> Seq(E)] /\ r[0] = <<>>
  BY <1>4 DEF Stepwise
<1>6. \A m \in 1 .. n : r[m] = r[m - 1] \o lists[m]
  <2> SUFFICES ASSUME NEW m \in 1 .. n PROVE r[m] = r[m - 1] \o lists[m]
    OBVIOUS
  <2>1. r[m] = step[m][r[m - 1]]
    <3> HIDE DEF step
    <3> QED BY <1>4 DEF Stepwise
  <2>2. r[m - 1] \in Seq(E)
    BY <1>5
  <2> QED BY <2>1, <2>2
<1>7. FlattenSeq(lists) = r[n]
  <2>1. CASE n = 0
    <3>1. lists = <<>>
      <4>1. Len(lists) = 0
        BY <1>1, <2>1
      <4> QED BY ONLY lists \in Seq(Seq(E)), <4>1
    <3>2. FlattenSeq(lists) = lists
      BY <1>1, <2>1 DEF FlattenSeq
    <3> QED BY <1>5, <2>1, <3>1, <3>2
  <2>2. CASE n # 0
    <3>1. FlattenSeq(lists) = flatten[n]
      BY <1>1, <2>2 DEF FlattenSeq
    <3>2. PICK known : known = [i \in 1 .. n |-> r[i]]
      OBVIOUS
    <3>3. \A i \in 1 .. n : known[i] = IF i = 1 THEN lists[i] ELSE known[i - 1] \o lists[i]
      <4> SUFFICES ASSUME NEW i \in 1 .. n
                   PROVE  known[i] = IF i = 1 THEN lists[i] ELSE known[i - 1] \o lists[i]
        OBVIOUS
      <4>1. known[i] = r[i - 1] \o lists[i]
        BY <1>6, <3>2
      <4>2. CASE i = 1
        <5>1. i - 1 = 0
          BY <4>2
        <5>2. <<>> \o lists[i] = lists[i]
          BY <1>2
        <5> QED BY <1>5, <4>1, <4>2, <5>1, <5>2
      <4>3. CASE i # 1
        <5>1. i - 1 \in 1 .. n
          BY <4>3
        <5> QED BY <3>2, <4>1, <4>3, <5>1
      <4> QED BY <4>2, <4>3
    <3>4. known = rule(known)
      BY <1>1, <3>2, <3>3
    <3>5. flatten = rule(flatten)
      <4> HIDE DEF rule
      <4> QED BY <3>4
    <3>6. \A i \in 1 .. n : flatten[i] = IF i = 1 THEN lists[i] ELSE flatten[i - 1] \o lists[i]
      <4> HIDE DEF flatten
      <4> QED BY <1>1, <3>5
    <3> DEFINE M == {m \in 0 .. n - 1 : flatten[m + 1] = known[m + 1]}
    <3> HIDE DEF flatten
    <3>7. 0 \in M
      <4>1. 0 \in 0 .. n - 1 /\ 0 + 1 = 1 /\ 1 \in 1 .. n
        BY <2>2
      <4>2. flatten[1] = known[1]
        BY <3>3, <3>6, <4>1
      <4> QED BY <4>1, <4>2
    <3>8. \A m \in 0 .. n - 1 - 1 : m \in M => m + 1 \in M
      <4> SUFFICES ASSUME NEW m \in 0 .. n - 1 - 1, m \in M PROVE m + 1 \in M
        OBVIOUS
      <4>1. PICK k : k = m + 1 + 1
        OBVIOUS
      <4>2. k \in 1 .. n /\ k # 1 /\ k - 1 = m + 1 /\ m + 1 \in 0 .. n - 1
        BY <4>1
      <4>3. flatten[k] = flatten[k - 1] \o lists[k] /\ known[k] = known[k - 1] \o lists[k]
        BY <3>3, <3>6, <4>2
      <4>4. flatten[k] = known[k]
        BY <4>2, <4>3
      <4> QED BY <4>1, <4>2, <4>4
    <3> HIDE DEF M
    <3>9. n - 1 \in M
      <4>1. n - 1 \in Nat /\ n - 1 \in 0 .. n - 1
        BY <2>2
      <4> QED BY ONLY <3>7, <3>8, <4>1, Induction
    <3>10. flatten[n] = known[n] /\ n \in 1 .. n
      <4>1. n - 1 + 1 = n /\ n \in 1 .. n
        BY <2>2
      <4> QED BY <3>9, <4>1 DEF M
    <3> QED BY <3>1, <3>2, <3>10
  <2> QED BY <2>1, <2>2
<1>8. Joins(r, lists)
  <2> SUFFICES ASSUME NEW m \in 0 .. n - 1 PROVE r[m + 1] = r[m] \o lists[m + 1]
    BY <1>1, <1>5 DEF Joins
  <2>1. PICK k : k = m + 1
    OBVIOUS
  <2>2. k \in 1 .. n /\ k - 1 = m
    BY <2>1
  <2>3. r[k] = r[k - 1] \o lists[k]
    BY <1>6, <2>2
  <2> QED BY <2>1, <2>2, <2>3
<1> QED BY <1>1, <1>5, <1>7, <1>8

\* No lists joined.
LEMMA FlattenNone == FlattenSeq(<<>>) = <<>>
BY DEF FlattenSeq

\* One more list is joined to the others.
LEMMA FlattenMore ==
  ASSUME NEW E, NEW lists \in Seq(Seq(E)), NEW new \in Seq(E)
  PROVE  /\ FlattenSeq(lists) \in Seq(E)
         /\ FlattenSeq(Append(lists, new)) = FlattenSeq(lists) \o new
<1>1. PICK n \in Nat : n = Len(lists)
  OBVIOUS
<1>2. PICK more : more = Append(lists, new)
  OBVIOUS
<1>3. /\ more \in Seq(Seq(E)) /\ Len(more) = n + 1 /\ more[n + 1] = new
      /\ \A i \in 1 .. n : more[i] = lists[i]
  BY <1>1, <1>2, Appended
<1>4. PICK r \in [0 .. n -> Seq(E)] : Joins(r, lists) /\ FlattenSeq(lists) = r[n]
  BY <1>1, FlattenJoins
<1>5. PICK q : Joins(q, more) /\ FlattenSeq(more) = q[n + 1]
  BY <1>3, FlattenJoins
<1>11. \A m \in 0 .. n : q[m + 1] = q[m] \o more[m + 1]
  <2>1. \A m \in 0 .. Len(more) - 1 : q[m + 1] = q[m] \o more[m + 1]
    BY <1>5 DEF Joins
  <2>2. Len(more) - 1 = n
    BY <1>3
  <2> QED BY <2>1, <2>2
<1> DEFINE M == {m \in 0 .. n : q[m] = r[m]}
<1>6. 0 \in M
  BY <1>4, <1>5 DEF Joins
<1>7. \A m \in 0 .. n - 1 : m \in M => m + 1 \in M
  <2> SUFFICES ASSUME NEW m \in 0 .. n - 1, m \in M PROVE m + 1 \in M
    OBVIOUS
  <2>1. m + 1 \in 1 .. n /\ m + 1 \in 0 .. n
    OBVIOUS
  <2>2. r[m + 1] = r[m] \o lists[m + 1]
    BY <1>1, <1>4, <2>1 DEF Joins
  <2>3. q[m + 1] = q[m] \o more[m + 1]
    BY <1>11
  <2>4. more[m + 1] = lists[m + 1] /\ q[m] = r[m]
    BY <1>3, <2>1
  <2> QED BY <2>1, <2>2, <2>3, <2>4
<1> HIDE DEF M
<1>8. n \in M
  <2>1. n \in 0 .. n
    OBVIOUS
  <2> QED BY ONLY n \in Nat, <1>6, <1>7, <2>1, Induction
<1>9. q[n] = r[n]
  BY <1>8 DEF M
<1>10. q[n + 1] = r[n] \o new
  <2>1. q[n + 1] = q[n] \o more[n + 1]
    <3>1. n \in 0 .. n
      OBVIOUS
    <3> QED BY ONLY <1>11, <3>1
  <2>2. more[n + 1] = new
    BY <1>3
  <2> QED BY <1>9, <2>1, <2>2, Zenon
<1>12. r[n] \in Seq(E)
  BY <1>4
<1> QED BY ONLY <1>2, <1>4, <1>5, <1>10, <1>12

-----------------------------------------------------------------------------
(* Totals.  W weighs each element of E, in integers.                       *)

\* The running totals of s.
RunningTotals(f, s, W) ==
  /\ f \in [0 .. Len(s) -> Int]
  /\ f[0] = 0
  /\ \A m \in 1 .. Len(s) : f[m] = f[m - 1] + W[s[m]]

TotalOf(s, W) == (CHOOSE f : RunningTotals(f, s, W))[Len(s)]

\* There are running totals.
LEMMA RunningTotalsExist ==
  ASSUME NEW E, NEW s \in Seq(E), NEW W \in [E -> Int]
  PROVE  \E f : RunningTotals(f, s, W)
<1>1. PICK n \in Nat : n = Len(s)
  OBVIOUS
<1> DEFINE step == [m \in 1 .. n |-> [u \in Int |-> u + W[s[m]]]]
<1>2. \A m \in 1 .. n : W[s[m]] \in Int
  <2>1. \A m \in 1 .. n : s[m] \in E
    BY <1>1
  <2> QED BY <2>1
<1>3. step \in [1 .. n -> [Int -> Int]] /\ 0 \in Int
  BY <1>2
<1>4. PICK f : Stepwise(f, Int, 0, n, step)
  <2> HIDE DEF step
  <2>1. PICK g : TakesLast(g, Int, 0, n, step)
    BY <1>3, FoldExists
  <2>2. TakesLastIn(g, Int, 0, n, step)
    BY <2>1 DEF TakesLast, TakesLastIn
  <2> QED BY <1>3, <2>2, FoldPrefixes DEF Folded
<1>5. f \in [0 .. n -> Int] /\ f[0] = 0
  BY <1>4 DEF Stepwise
<1>6. \A m \in 1 .. n : f[m] = f[m - 1] + W[s[m]]
  <2> SUFFICES ASSUME NEW m \in 1 .. n PROVE f[m] = f[m - 1] + W[s[m]]
    OBVIOUS
  <2>1. f[m] = step[m][f[m - 1]]
    <3> HIDE DEF step
    <3> QED BY <1>4 DEF Stepwise
  <2>2. f[m - 1] \in Int
    BY <1>5
  <2> QED BY <2>1, <2>2
<1> QED BY <1>1, <1>5, <1>6 DEF RunningTotals

\* They are the same for lists that begin alike.
LEMMA RunningTotalsAlike ==
  ASSUME NEW n \in Nat, NEW s, NEW t, NEW W, NEW f, NEW g,
         RunningTotals(f, s, W), RunningTotals(g, t, W),
         Len(s) \in Nat, Len(t) \in Nat, n <= Len(s), n <= Len(t),
         \A i \in 1 .. n : s[i] = t[i]
  PROVE  f[n] = g[n]
<1> DEFINE M == {m \in 0 .. n : f[m] = g[m]}
<1>1. 0 \in M
  BY DEF RunningTotals
<1>2. ASSUME NEW m \in 0 .. n - 1, m \in M PROVE m + 1 \in M
  <2>1. m + 1 \in 1 .. n /\ m + 1 - 1 = m /\ m + 1 \in 1 .. Len(s) /\ m + 1 \in 1 .. Len(t)
    OBVIOUS
  <2> HIDE DEF M
  <2>2. /\ \A k \in 1 .. Len(s) : f[k] = f[k - 1] + W[s[k]]
        /\ \A k \in 1 .. Len(t) : g[k] = g[k - 1] + W[t[k]]
    BY ONLY RunningTotals(f, s, W), RunningTotals(g, t, W) DEF RunningTotals
  <2>3. f[m + 1] = f[m] + W[s[m + 1]] /\ g[m + 1] = g[m] + W[t[m + 1]]
    BY ONLY <2>1, <2>2
  <2>4. f[m] = g[m] /\ s[m + 1] = t[m + 1] /\ m + 1 \in 0 .. n
    BY <1>2, <2>1 DEF M
  <2> QED BY <2>3, <2>4 DEF M
<1> HIDE DEF M
<1>3. \A m \in 0 .. n - 1 : m \in M => m + 1 \in M
  BY <1>2
<1>4. n \in 0 .. n /\ \A m \in 0 .. n : m \in M
  <2>1. n \in 0 .. n
    OBVIOUS
  <2> QED BY ONLY n \in Nat, <1>1, <1>3, <2>1, Induction
<1> QED BY <1>4 DEF M

\* A total is the last of any running totals.
LEMMA TotalIs ==
  ASSUME NEW E, NEW s \in Seq(E), NEW W \in [E -> Int]
  PROVE  /\ TotalOf(s, W) \in Int
         /\ \A f : RunningTotals(f, s, W) => TotalOf(s, W) = f[Len(s)]
<1>1. PICK g : g = CHOOSE f : RunningTotals(f, s, W)
  OBVIOUS
<1>2. RunningTotals(g, s, W) /\ TotalOf(s, W) = g[Len(s)]
  BY <1>1, RunningTotalsExist DEF TotalOf
<1>3. Len(s) \in Nat /\ Len(s) \in 0 .. Len(s)
  OBVIOUS
<1>4. g[Len(s)] \in Int
  BY <1>2, <1>3 DEF RunningTotals
<1>5. \A f : RunningTotals(f, s, W) => g[Len(s)] = f[Len(s)]
  BY <1>2, <1>3, RunningTotalsAlike
<1> QED BY <1>2, <1>4, <1>5

\* An empty list weighs nothing.
LEMMA TotalNone == ASSUME NEW W PROVE TotalOf(<<>>, W) = 0
<1>1. \E f : RunningTotals(f, <<>>, W)
  <2>1. RunningTotals([m \in 0 .. Len(<<>>) |-> 0], <<>>, W)
    BY DEF RunningTotals
  <2> QED BY <2>1
<1>2. RunningTotals(CHOOSE f : RunningTotals(f, <<>>, W), <<>>, W)
  BY <1>1
<1> QED BY <1>2 DEF RunningTotals, TotalOf

\* One more element adds its weight.
LEMMA TotalMore ==
  ASSUME NEW E, NEW s \in Seq(E), NEW e \in E, NEW W \in [E -> Int]
  PROVE  TotalOf(Append(s, e), W) = TotalOf(s, W) + W[e] /\ TotalOf(s, W) \in Int
<1>1. PICK n \in Nat : n = Len(s)
  OBVIOUS
<1>2. PICK t : t = Append(s, e)
  OBVIOUS
<1>3. /\ t \in Seq(E) /\ Len(t) = n + 1 /\ t[n + 1] = e
      /\ \A i \in 1 .. n : t[i] = s[i]
  BY <1>1, <1>2, Appended
<1>4. PICK f : RunningTotals(f, s, W)
  BY RunningTotalsExist
<1>5. PICK g : RunningTotals(g, t, W)
  BY <1>3, RunningTotalsExist
<1>6. TotalOf(s, W) = f[n] /\ TotalOf(t, W) = g[n + 1] /\ TotalOf(s, W) \in Int
  BY <1>1, <1>3, <1>4, <1>5, TotalIs
<1>7. f[n] = g[n]
  <2>1. n <= Len(s) /\ n <= Len(t) /\ Len(s) \in Nat /\ Len(t) \in Nat
        /\ \A i \in 1 .. n : s[i] = t[i]
    BY <1>1, <1>3
  <2> QED BY ONLY n \in Nat, <1>4, <1>5, <2>1, RunningTotalsAlike
<1>8. g[n + 1] = g[n] + W[e]
  <2>1. n + 1 \in 1 .. Len(t) /\ n + 1 - 1 = n
    BY <1>3
  <2> QED BY <1>3, <1>5, <2>1 DEF RunningTotals
<1> QED BY <1>2, <1>6, <1>7, <1>8

\* The total of two lists one after the other.
LEMMA TotalJoined ==
  ASSUME NEW E, NEW s \in Seq(E), NEW W \in [E -> Int]
  PROVE  \A t \in Seq(E) : TotalOf(s \o t, W) = TotalOf(s, W) + TotalOf(t, W)
<1> DEFINE S == {t \in Seq(E) : TotalOf(s \o t, W) = TotalOf(s, W) + TotalOf(t, W)}
<1>1. <<>> \in S
  <2>1. s \o <<>> = s /\ <<>> \in Seq(E)
    OBVIOUS
  <2>2. TotalOf(s, W) \in Int
    BY TotalIs
  <2> QED BY <2>1, <2>2, TotalNone
<1>2. \A t \in Seq(E) : t \in S => \A e \in E : Append(t, e) \in S
  <2> SUFFICES ASSUME NEW t \in Seq(E), NEW e \in E,
                      TotalOf(s \o t, W) = TotalOf(s, W) + TotalOf(t, W)
               PROVE  Append(t, e) \in S
    OBVIOUS
  <2>1. Append(t, e) \in Seq(E) /\ s \o t \in Seq(E) /\ s \o Append(t, e) = Append(s \o t, e)
    OBVIOUS
  <2>2. PICK u : u = s \o t
    OBVIOUS
  <2>3. u \in Seq(E)
    BY <2>1, <2>2
  <2>4. TotalOf(Append(t, e), W) = TotalOf(t, W) + W[e] /\ TotalOf(t, W) \in Int
    BY TotalMore
  <2>5. TotalOf(Append(u, e), W) = TotalOf(u, W) + W[e]
    BY <2>3, TotalMore
  <2>6. TotalOf(s, W) \in Int /\ W[e] \in Int
    BY TotalIs
  <2>7. TotalOf(s \o Append(t, e), W) = TotalOf(s, W) + TotalOf(Append(t, e), W)
    <3>1. PICK a, b, c : a = TotalOf(s, W) /\ b = TotalOf(t, W) /\ c = W[e]
      OBVIOUS
    <3>2. a \in Int /\ b \in Int /\ c \in Int
      BY <2>4, <2>6, <3>1
    <3>3. TotalOf(Append(u, e), W) = a + b + c /\ TotalOf(Append(t, e), W) = b + c
      BY <2>2, <2>4, <2>5, <3>1
    <3>4. s \o Append(t, e) = Append(u, e)
      BY <2>1, <2>2
    <3> QED BY <3>1, <3>2, <3>3, <3>4
  <2> QED BY <2>1, <2>7
<1> HIDE DEF S
<1>3. \A t \in Seq(E) : t \in S
  BY <1>1, <1>2, SeqInduction
<1> QED BY <1>3 DEF S

\* Totals of weights that add up.
LEMMA TotalSplit ==
  ASSUME NEW E, NEW U \in [E -> Int], NEW V \in [E -> Int], NEW W \in [E -> Int],
         \A e \in E : W[e] = U[e] + V[e]
  PROVE  \A s \in Seq(E) : TotalOf(s, W) = TotalOf(s, U) + TotalOf(s, V)
<1> DEFINE S == {s \in Seq(E) : TotalOf(s, W) = TotalOf(s, U) + TotalOf(s, V)}
<1>1. <<>> \in S
  BY TotalNone
<1>2. \A s \in Seq(E) : s \in S => \A e \in E : Append(s, e) \in S
  <2> SUFFICES ASSUME NEW s \in Seq(E), NEW e \in E,
                      TotalOf(s, W) = TotalOf(s, U) + TotalOf(s, V)
               PROVE  Append(s, e) \in S
    OBVIOUS
  <2>1. /\ TotalOf(Append(s, e), W) = TotalOf(s, W) + W[e]
        /\ TotalOf(Append(s, e), U) = TotalOf(s, U) + U[e] /\ TotalOf(s, U) \in Int
        /\ TotalOf(Append(s, e), V) = TotalOf(s, V) + V[e] /\ TotalOf(s, V) \in Int
    BY TotalMore
  <2>2. U[e] \in Int /\ V[e] \in Int /\ Append(s, e) \in Seq(E)
    OBVIOUS
  <2> QED BY <2>1, <2>2
<1> HIDE DEF S
<1>3. \A s \in Seq(E) : s \in S
  BY <1>1, <1>2, SeqInduction
<1> QED BY <1>3 DEF S

\* Weights that are never negative have totals that are not.
LEMMA TotalPositive ==
  ASSUME NEW E, NEW W \in [E -> Int], \A e \in E : W[e] >= 0
  PROVE  \A s \in Seq(E) : TotalOf(s, W) >= 0
<1> DEFINE S == {s \in Seq(E) : TotalOf(s, W) >= 0}
<1>1. <<>> \in S
  BY TotalNone
<1>2. \A s \in Seq(E) : s \in S => \A e \in E : Append(s, e) \in S
  <2> SUFFICES ASSUME NEW s \in Seq(E), NEW e \in E, TotalOf(s, W) >= 0
               PROVE  Append(s, e) \in S
    OBVIOUS
  <2>1. TotalOf(Append(s, e), W) = TotalOf(s, W) + W[e] /\ TotalOf(s, W) \in Int
    BY TotalMore
  <2>2. W[e] \in Int /\ W[e] >= 0 /\ Append(s, e) \in Seq(E)
    OBVIOUS
  <2> QED BY <2>1, <2>2
<1> HIDE DEF S
<1>3. \A s \in Seq(E) : s \in S
  BY <1>1, <1>2, SeqInduction
<1> QED BY <1>3 DEF S

\* A length is a total of ones.
LEMMA TotalOnes ==
  ASSUME NEW E, NEW W \in [E -> Int], \A e \in E : W[e] = 1
  PROVE  \A s \in Seq(E) : TotalOf(s, W) = Len(s)
<1> DEFINE S == {s \in Seq(E) : TotalOf(s, W) = Len(s)}
<1>1. <<>> \in S
  BY TotalNone
<1>2. \A s \in Seq(E) : s \in S => \A e \in E : Append(s, e) \in S
  <2> SUFFICES ASSUME NEW s \in Seq(E), NEW e \in E, TotalOf(s, W) = Len(s)
               PROVE  Append(s, e) \in S
    OBVIOUS
  <2>1. TotalOf(Append(s, e), W) = TotalOf(s, W) + W[e]
    BY TotalMore
  <2> QED BY <2>1, Appended
<1> HIDE DEF S
<1>3. \A s \in Seq(E) : s \in S
  BY <1>1, <1>2, SeqInduction
<1> QED BY <1>3 DEF S

\* The weights of the elements in R; the others weigh nothing.
Only(W, R) == [e \in DOMAIN W |-> IF e \in R THEN W[e] ELSE 0]

\* The total of what a filter keeps.
LEMMA TotalKept ==
  ASSUME NEW E, NEW W \in [E -> Int], NEW R
  PROVE  /\ Only(W, R) \in [E -> Int]
         /\ \A s \in Seq(E) : TotalOf(KeptOf(s, R), W) = TotalOf(s, Only(W, R))
<1> DEFINE S == {s \in Seq(E) : TotalOf(KeptOf(s, R), W) = TotalOf(s, Only(W, R))}
<1>1. Only(W, R) \in [E -> Int] /\ \A e \in E : Only(W, R)[e] = IF e \in R THEN W[e] ELSE 0
  BY DEF Only
<1>2. <<>> \in S
  BY TotalNone, KeptNone
<1>3. \A s \in Seq(E) : s \in S => \A e \in E : Append(s, e) \in S
  <2> SUFFICES ASSUME NEW s \in Seq(E), NEW e \in E,
                      TotalOf(KeptOf(s, R), W) = TotalOf(s, Only(W, R))
               PROVE  Append(s, e) \in S
    OBVIOUS
  <2>1. /\ KeptOf(s, R) \in Seq(E)
        /\ KeptOf(Append(s, e), R) = IF e \in R THEN Append(KeptOf(s, R), e) ELSE KeptOf(s, R)
    BY KeptMore
  <2>2. /\ TotalOf(Append(s, e), Only(W, R)) = TotalOf(s, Only(W, R)) + Only(W, R)[e]
        /\ TotalOf(s, Only(W, R)) \in Int
    BY <1>1, TotalMore
  <2>3. TotalOf(Append(KeptOf(s, R), e), W) = TotalOf(KeptOf(s, R), W) + W[e]
    BY <2>1, TotalMore
  <2>4. TotalOf(KeptOf(Append(s, e), R), W) = TotalOf(Append(s, e), Only(W, R))
    <3>1. CASE e \in R
      BY <1>1, <2>1, <2>2, <2>3, <3>1
    <3>2. CASE e \notin R
      BY <1>1, <2>1, <2>2, <3>2
    <3> QED BY <3>1, <3>2
  <2> QED BY <2>4
<1> HIDE DEF S
<1>4. \A s \in Seq(E) : s \in S
  BY <1>2, <1>3, SeqInduction
<1> QED BY <1>1, <1>4 DEF S

\* A total depends on the weights of the elements there are.
LEMMA TotalSame ==
  ASSUME NEW E, NEW s \in Seq(E), NEW U \in [E -> Int], NEW W \in [E -> Int],
         \A i \in DOMAIN s : U[s[i]] = W[s[i]]
  PROVE  TotalOf(s, U) = TotalOf(s, W)
<1>1. PICK f : RunningTotals(f, s, U)
  BY RunningTotalsExist
<1>2. \A i \in 1 .. Len(s) : U[s[i]] = W[s[i]]
  OBVIOUS
<1>3. RunningTotals(f, s, W)
  BY ONLY <1>1, <1>2 DEF RunningTotals
<1>4. TotalOf(s, U) = f[Len(s)]
  BY <1>1, TotalIs
<1>5. TotalOf(s, W) = f[Len(s)]
  BY <1>3, TotalIs
<1> QED BY <1>4, <1>5

\* What weighs nothing adds up to nothing.
LEMMA TotalZero ==
  ASSUME NEW E, NEW s \in Seq(E), NEW W \in [E -> Int], \A e \in E : W[e] = 0
  PROVE  TotalOf(s, W) = 0
<1>1. \A e \in E : W[e] = W[e] + W[e]
  OBVIOUS
<1>2. TotalOf(s, W) = TotalOf(s, W) + TotalOf(s, W) /\ TotalOf(s, W) \in Int
  BY <1>1, TotalSplit, TotalIs
<1> QED BY <1>2

\* A fold that adds the weight of each element.
AddsUp(it, s, W) ==
  it = [S \in SUBSET DOMAIN s |->
          IF S = {} THEN 0 ELSE it[S \ {Max(S)}] + W[s[Max(S)]]]

\* One that is known to do so only where its values are integers.
AddsUpIn(it, s, W) ==
  /\ it[{}] = 0
  /\ \A S \in SUBSET DOMAIN s : S # {} /\ it[S \ {Max(S)}] \in Int =>
       it[S] = it[S \ {Max(S)}] + W[s[Max(S)]]

\* There is such a fold, and it ends with the total.
LEMMA FoldTotal ==
  ASSUME NEW E, NEW s \in Seq(E), NEW W \in [E -> Int]
  PROVE  /\ \E it \in [SUBSET DOMAIN s -> Int] : AddsUp(it, s, W)
         /\ \A it : AddsUpIn(it, s, W) => it[DOMAIN s] = TotalOf(s, W)
<1>1. PICK n \in Nat : n = Len(s) /\ DOMAIN s = 1 .. n
  OBVIOUS
<1> DEFINE step == [m \in 1 .. n |-> [u \in Int |-> u + W[s[m]]]]
<1>2. \A m \in 1 .. n : W[s[m]] \in Int
  <2>1. \A m \in 1 .. n : s[m] \in E
    BY <1>1
  <2> QED BY <2>1
<1>3. step \in [1 .. n -> [Int -> Int]] /\ 0 \in Int
  BY <1>2
<1>4. \A S \in SUBSET (1 .. n) : S # {} => Max(S) \in 1 .. n
  BY LargestIn
<1>5. \A m \in 1 .. n : \A u \in Int : step[m][u] = u + W[s[m]]
  OBVIOUS
<1> HIDE DEF step
<1>6. \E it \in [SUBSET DOMAIN s -> Int] : AddsUp(it, s, W)
  <2>1. PICK g : TakesLast(g, Int, 0, n, step)
    BY <1>3, FoldExists
  <2>2. \A S \in SUBSET (1 .. n) :
          g[S] = IF S = {} THEN 0 ELSE g[S \ {Max(S)}] + W[s[Max(S)]]
    <3> SUFFICES ASSUME NEW S \in SUBSET (1 .. n)
                 PROVE  g[S] = IF S = {} THEN 0 ELSE g[S \ {Max(S)}] + W[s[Max(S)]]
      OBVIOUS
    <3>1. g[S] = IF S = {} THEN 0 ELSE step[Max(S)][g[S \ {Max(S)}]]
      BY <2>1 DEF TakesLast
    <3>2. S \ {Max(S)} \in SUBSET (1 .. n) /\ g \in [SUBSET (1 .. n) -> Int]
      BY <2>1 DEF TakesLast
    <3> QED BY <1>4, <1>5, <3>1, <3>2
  <2>3. g = [S \in SUBSET (1 .. n) |-> g[S]]
    BY <2>1 DEF TakesLast
  <2>4. AddsUp(g, s, W)
    BY <1>1, <2>2, <2>3 DEF AddsUp
  <2>5. g \in [SUBSET DOMAIN s -> Int]
    BY <1>1, <2>1 DEF TakesLast
  <2> QED BY <2>4, <2>5
<1>7. ASSUME NEW it, AddsUpIn(it, s, W) PROVE it[DOMAIN s] = TotalOf(s, W)
  <2>1. /\ it[{}] = 0
        /\ \A S \in SUBSET (1 .. n) : S # {} /\ it[S \ {Max(S)}] \in Int =>
             it[S] = it[S \ {Max(S)}] + W[s[Max(S)]]
    BY <1>1, <1>7 DEF AddsUpIn
  <2>2. TakesLastIn(it, Int, 0, n, step)
    <3>1. it[{}] = 0
      BY <2>1
    <3>2. ASSUME NEW S \in SUBSET (1 .. n), S # {}, it[S \ {Max(S)}] \in Int
          PROVE  it[S] = step[Max(S)][it[S \ {Max(S)}]]
      BY <1>4, <1>5, <2>1, <3>2
    <3> QED BY <3>1, <3>2 DEF TakesLastIn
  <2>3. PICK f : Stepwise(f, Int, 0, n, step) /\ f[n] = it[1 .. n]
    <3>1. Folded(Int, 0, n, step, it[1 .. n])
      BY ONLY n \in Nat, <1>3, <2>2, FoldPrefixes
    <3> QED BY <3>1 DEF Folded
  <2>4. f \in [0 .. n -> Int] /\ f[0] = 0 /\ \A m \in 1 .. n : f[m] = step[m][f[m - 1]]
    BY <2>3 DEF Stepwise
  <2>5. \A m \in 1 .. n : f[m] = f[m - 1] + W[s[m]]
    <3> SUFFICES ASSUME NEW m \in 1 .. n PROVE f[m] = f[m - 1] + W[s[m]]
      OBVIOUS
    <3>1. f[m - 1] \in Int /\ f[m] = step[m][f[m - 1]]
      BY <2>4
    <3> QED BY <1>5, <3>1
  <2>6. RunningTotals(f, s, W)
    BY <1>1, <2>4, <2>5 DEF RunningTotals
  <2> QED BY <1>1, <2>3, <2>6, TotalIs
<1> QED BY <1>6, <1>7

\* There are finitely many values on a list.
LEMMA ValuesFinite ==
  ASSUME NEW n \in Nat, NEW f
  PROVE  IsFiniteSet({f[i] : i \in 1 .. n})
<1> DEFINE g == [i \in 1 .. n |-> f[i]]
           T == {f[i] : i \in 1 .. n}
<1>1. g \in Surjection(1 .. n, T)
  BY DEF Surjection
<1>2. IsFiniteSet(1 .. n)
  BY FS_Interval
<1> HIDE DEF g
<1> QED BY <1>1, <1>2, FS_Surjection

\* A sum over a set, which takes one element after another.
SumsUp(it, V, part) ==
  it = [S \in SUBSET V |->
          IF S = {} THEN 0
          ELSE part[CHOOSE x \in S : TRUE] + it[S \ {CHOOSE x \in S : TRUE}]]

\* The elements to which label gives v.
Labelled(E, label, v) == {e \in E : label[e] = v}

\* The parts of a total: part[v] is that of the elements which label gives v.
LEMMA PartsTotal ==
  ASSUME NEW E, NEW s \in Seq(E), NEW W \in [E -> Int], NEW label,
         NEW V, IsFiniteSet(V), \A i \in DOMAIN s : label[s[i]] \in V,
         NEW part, \A v \in V : part[v] = TotalOf(s, Only(W, Labelled(E, label, v)))
  PROVE  /\ \E it : SumsUp(it, V, part)
         /\ \A it : SumsUp(it, V, part) => it[V] = TotalOf(s, W)
<1> DEFINE Of(S) == {e \in E : label[e] \in S}
           closed(S) == TotalOf(s, Only(W, Of(S)))
           pick(S) == CHOOSE x \in S : TRUE
<1>1. \A R : /\ Only(W, R) \in [E -> Int]
             /\ \A e \in E : Only(W, R)[e] = IF e \in R THEN W[e] ELSE 0
  BY DEF Only
<1>2. closed({}) = 0
  <2>1. \A e \in E : Only(W, Of({}))[e] = 0
    BY <1>1
  <2> HIDE DEF Of
  <2> QED BY <1>1, <2>1, TotalZero
<1>3. \A S \in SUBSET V : S # {} => closed(S) = part[pick(S)] + closed(S \ {pick(S)})
  <2> SUFFICES ASSUME NEW S \in SUBSET V, S # {}
               PROVE  closed(S) = part[pick(S)] + closed(S \ {pick(S)})
    OBVIOUS
  <2>1. PICK x \in S : x = pick(S)
    OBVIOUS
  <2>2. PICK A, B, C : A = Of(S) /\ B = {e \in E : label[e] = x} /\ C = Of(S \ {x})
    OBVIOUS
  <2>3. \A e \in E : (e \in A <=> e \in B \/ e \in C) /\ ~(e \in B /\ e \in C)
    BY <2>2
  <2>4. PICK a, b, c : a = Only(W, A) /\ b = Only(W, B) /\ c = Only(W, C)
    OBVIOUS
  <2>5. a \in [E -> Int] /\ b \in [E -> Int] /\ c \in [E -> Int]
    BY <1>1, <2>4
  <2>6. \A e \in E : a[e] = b[e] + c[e]
    <3> SUFFICES ASSUME NEW e \in E PROVE a[e] = b[e] + c[e]
      OBVIOUS
    <3>1. /\ a[e] = IF e \in A THEN W[e] ELSE 0
          /\ b[e] = IF e \in B THEN W[e] ELSE 0
          /\ c[e] = IF e \in C THEN W[e] ELSE 0
      BY <1>1, <2>4
    <3>2. W[e] \in Int
      OBVIOUS
    <3> QED BY <2>3, <3>1, <3>2
  <2>7. TotalOf(s, a) = TotalOf(s, b) + TotalOf(s, c)
    BY <2>5, <2>6, TotalSplit
  <2>8. part[x] = TotalOf(s, b)
    <3>1. B = Labelled(E, label, x) /\ x \in V
      BY <2>2 DEF Labelled
    <3> QED BY <2>4, <3>1
  <2> QED BY <2>1, <2>2, <2>4, <2>7, <2>8
<1>4. closed(V) = TotalOf(s, W)
  <2>1. \A i \in DOMAIN s : Only(W, Of(V))[s[i]] = W[s[i]]
    <3> SUFFICES ASSUME NEW i \in DOMAIN s PROVE Only(W, Of(V))[s[i]] = W[s[i]]
      OBVIOUS
    <3>1. s[i] \in E /\ s[i] \in Of(V)
      OBVIOUS
    <3> HIDE DEF Of
    <3> QED BY <1>1, <3>1
  <2> HIDE DEF Of
  <2> QED BY <1>1, <2>1, TotalSame
<1> HIDE DEF closed, Of
<1>5. \E it : SumsUp(it, V, part)
  <2> DEFINE it == [S \in SUBSET V |-> closed(S)]
  <2>1. \A S \in SUBSET V : S \ {pick(S)} \in SUBSET V
    OBVIOUS
  <2>2. \A S \in SUBSET V : it[S] = closed(S) /\ it[S \ {pick(S)}] = closed(S \ {pick(S)})
    BY <2>1
  <2>3. \A S \in SUBSET V :
          it[S] = IF S = {} THEN 0 ELSE part[pick(S)] + it[S \ {pick(S)}]
    <3> HIDE DEF it, pick
    <3> QED BY <1>2, <1>3, <2>2
  <2>4. it = [S \in SUBSET V |-> it[S]]
    OBVIOUS
  <2> HIDE DEF it
  <2>5. SumsUp(it, V, part)
    BY <2>3, <2>4 DEF SumsUp
  <2> QED BY <2>5
<1>6. ASSUME NEW it, SumsUp(it, V, part) PROVE it[V] = TotalOf(s, W)
  <2> DEFINE M == {m \in 0 .. Cardinality(V) :
                     \A S \in SUBSET V : Cardinality(S) = m => it[S] = closed(S)}
  <2>1. \A S \in SUBSET V : it[S] = IF S = {} THEN 0 ELSE part[pick(S)] + it[S \ {pick(S)}]
    BY <1>6 DEF SumsUp
  <2>2. \A S \in SUBSET V : IsFiniteSet(S) /\ Cardinality(S) \in Nat
    BY FS_Subset, FS_CardinalityType
  <2>3. Cardinality(V) \in Nat
    BY FS_CardinalityType
  <2>4. 0 \in M
    <3>1. \A S \in SUBSET V : Cardinality(S) = 0 => S = {}
      BY <2>2, FS_EmptySet
    <3>2. it[{}] = closed({})
      BY ONLY <1>2, <2>1
    <3>3. 0 \in 0 .. Cardinality(V)
      BY <2>3
    <3> QED BY <3>1, <3>2, <3>3, Zenon
  <2>5. ASSUME NEW m \in 0 .. Cardinality(V) - 1, m \in M PROVE m + 1 \in M
    <3>1. ASSUME NEW S \in SUBSET V, Cardinality(S) = m + 1 PROVE it[S] = closed(S)
      <4>1. S # {} /\ m \in Nat /\ IsFiniteSet(S)
        <5>1. m \in Nat
          BY <2>3
        <5>2. IsFiniteSet(S)
          BY <2>2
        <5>3. Cardinality({}) = 0
          BY FS_EmptySet
        <5>4. ASSUME S = {} PROVE FALSE
          <6>1. m + 1 = 0
            BY ONLY <3>1, <5>3, <5>4, Zenon
          <6> QED BY ONLY <5>1, <6>1
        <5> QED BY <5>1, <5>2, <5>4
      <4>2. pick(S) \in S
        BY <4>1
      <4>3. Cardinality(S \ {pick(S)}) = m /\ S \ {pick(S)} \in SUBSET V
        <5> HIDE DEF pick
        <5>1. Cardinality(S \ {pick(S)}) = Cardinality(S) - 1
          BY ONLY <4>1, <4>2, FS_RemoveElement
        <5> QED BY ONLY S \in SUBSET V, <3>1, <4>1, <5>1
      <4>4. it[S \ {pick(S)}] = closed(S \ {pick(S)})
        BY <2>5, <4>3
      <4> HIDE DEF pick, M
      <4> QED BY <1>3, <2>1, <4>1, <4>4
    <3>2. m + 1 \in 0 .. Cardinality(V)
      BY <2>3
    <3> QED BY <3>1, <3>2
  <2> HIDE DEF M
  <2>6. \A m \in 0 .. Cardinality(V) - 1 : m \in M => m + 1 \in M
    BY <2>5
  <2>7. Cardinality(V) \in M
    <3>1. Cardinality(V) \in 0 .. Cardinality(V)
      BY <2>3
    <3> QED BY ONLY <2>3, <2>4, <2>6, <3>1, Induction
  <2> QED BY <1>4, <2>7 DEF M
<1> QED BY <1>5, <1>6

\* The elements of lists that are joined are as many as those of each together.
LEMMA FlattenLength ==
  ASSUME NEW E, NEW W \in [Seq(E) -> Int], \A t \in Seq(E) : W[t] = Len(t)
  PROVE  \A lists \in Seq(Seq(E)) :
           FlattenSeq(lists) \in Seq(E) /\ Len(FlattenSeq(lists)) = TotalOf(lists, W)
<1> DEFINE S == {lists \in Seq(Seq(E)) : /\ FlattenSeq(lists) \in Seq(E)
                                        /\ Len(FlattenSeq(lists)) = TotalOf(lists, W)}
<1>1. <<>> \in S
  <2>1. <<>> \in Seq(Seq(E)) /\ <<>> \in Seq(E) /\ Len(<<>>) = 0
    OBVIOUS
  <2> QED BY <2>1, FlattenNone, TotalNone
<1>2. \A lists \in Seq(Seq(E)) : lists \in S => \A t \in Seq(E) : Append(lists, t) \in S
  <2> SUFFICES ASSUME NEW lists \in Seq(Seq(E)), NEW t \in Seq(E),
                      Len(FlattenSeq(lists)) = TotalOf(lists, W)
               PROVE  Append(lists, t) \in S
    OBVIOUS
  <2>1. PICK u, more : u = FlattenSeq(lists) /\ more = Append(lists, t)
    OBVIOUS
  <2>2. u \in Seq(E) /\ FlattenSeq(more) = u \o t
    BY <2>1, FlattenMore
  <2>3. u \o t \in Seq(E) /\ Len(u \o t) = Len(u) + Len(t)
    BY <2>2
  <2>4. TotalOf(more, W) = TotalOf(lists, W) + W[t]
    BY <2>1, TotalMore
  <2>5. more \in Seq(Seq(E))
    BY <2>1, Appended
  <2>6. FlattenSeq(more) \in Seq(E) /\ Len(FlattenSeq(more)) = TotalOf(more, W)
    BY <2>1, <2>2, <2>3, <2>4
  <2> QED BY <2>1, <2>5, <2>6
<1> HIDE DEF S
<1>3. \A lists \in Seq(Seq(E)) : lists \in S
  BY <1>1, <1>2, SeqInduction
<1> QED BY <1>3 DEF S

\* A total is the sum over the places.
LEMMA PlacesTotal ==
  ASSUME NEW E, NEW s, s \in Seq(E), NEW W, W \in [E -> Int],
         NEW part, \A i \in DOMAIN s : part[i] = W[s[i]]
  PROVE  /\ \E it : SumsUp(it, DOMAIN s, part)
         /\ \A it : SumsUp(it, DOMAIN s, part) => it[DOMAIN s] = TotalOf(s, W)
<1>1. PICK n \in Nat : n = Len(s) /\ DOMAIN s = 1 .. n
  OBVIOUS
<1>2. PICK V, places : V = 1 .. n /\ places = [i \in 1 .. n |-> i]
  OBVIOUS
<1>3. /\ places \in Seq(V) /\ Len(places) = n /\ IsFiniteSet(V)
      /\ \A i \in DOMAIN places : places[i] \in V /\ places[places[i]] \in V
  BY <1>2, FS_Interval
<1>4. PICK U : U = [i \in V |-> W[s[i]]]
  OBVIOUS
<1>5. U \in [V -> Int]
  <2>1. \A i \in V : s[i] \in E
    BY <1>1, <1>2
  <2> QED BY <1>4, <2>1
<1>6. ASSUME NEW v \in V
      PROVE  part[v] = TotalOf(places, Only(U, Labelled(V, places, v)))
  <2>1. PICK X : X = Only(U, Labelled(V, places, v))
    OBVIOUS
  <2>2. X \in [V -> Int] /\ \A i \in V : X[i] = IF i = v THEN U[v] ELSE 0
    BY <1>2, <1>5, <2>1 DEF Only, Labelled
  <2>3. PICK f : f = [m \in 0 .. n |-> IF v <= m THEN U[v] ELSE 0]
    OBVIOUS
  <2>4. f \in [0 .. n -> Int] /\ f[0] = 0 /\ f[n] = U[v]
    BY <1>2, <1>5, <2>3
  <2>5. \A m \in 1 .. n : f[m] = f[m - 1] + X[places[m]]
    <3> SUFFICES ASSUME NEW m \in 1 .. n PROVE f[m] = f[m - 1] + X[places[m]]
      OBVIOUS
    <3>1. places[m] = m /\ X[m] = IF m = v THEN U[v] ELSE 0
      BY <1>2, <2>2
    <3>2. f[m] = IF v <= m THEN U[v] ELSE 0
      BY <2>3
    <3>3. m - 1 \in 0 .. n /\ f[m - 1] = IF v <= m - 1 THEN U[v] ELSE 0
      BY <2>3
    <3>4. U[v] \in Int /\ v \in 1 .. n
      BY <1>2, <1>5
    <3> QED BY <3>1, <3>2, <3>3, <3>4
  <2>6. RunningTotals(f, places, X)
    BY <1>3, <2>4, <2>5 DEF RunningTotals
  <2>7. TotalOf(places, X) = f[n]
    BY <1>3, <2>2, <2>6, TotalIs
  <2>8. part[v] = U[v]
    BY <1>1, <1>2, <1>4
  <2> QED BY <2>1, <2>4, <2>7, <2>8
<1>7. TotalOf(places, U) = TotalOf(s, W)
  <2>1. PICK f : RunningTotals(f, s, W)
    BY RunningTotalsExist
  <2>2. \A m \in 1 .. n : U[places[m]] = W[s[m]]
    BY <1>2, <1>4
  <2>3. RunningTotals(f, places, U)
    BY <1>1, <1>3, <2>1, <2>2 DEF RunningTotals
  <2>4. TotalOf(s, W) = f[n]
    BY <1>1, <2>1, TotalIs
  <2>5. TotalOf(places, U) = f[n]
    BY <1>3, <1>5, <2>3, TotalIs
  <2> QED BY <2>4, <2>5
<1>8. /\ \E it : SumsUp(it, V, part)
      /\ \A it : SumsUp(it, V, part) => it[V] = TotalOf(places, U)
  <2>0. PICK label, A : label = places /\ A = V
    OBVIOUS
  <2>1. \A i \in DOMAIN places : label[places[i]] \in V
    BY <1>3, <2>0
  <2>2. \A v \in V : part[v] = TotalOf(places, Only(U, Labelled(A, label, v)))
    BY <1>6, <2>0
  <2>3. places \in Seq(A)
    BY <1>3, <2>0
  <2>4. U \in [A -> Int]
    BY <1>5, <2>0
  <2>5. IsFiniteSet(V)
    BY <1>3
  <2> QED BY ONLY <2>1, <2>2, <2>3, <2>4, <2>5, PartsTotal
<1> QED BY <1>1, <1>2, <1>7, <1>8

-----------------------------------------------------------------------------
\* F values every element of E.
Values(F, E, V) == F \in [E -> V]

\* What F makes of each element of a list.
Each(s, F) == [i \in DOMAIN s |-> F[s[i]]]

\* One more element is one more value.
LEMMA EachMore ==
  ASSUME NEW E, NEW V, NEW F, Values(F, E, V), NEW s \in Seq(E), NEW e \in E
  PROVE  /\ Each(s, F) \in Seq(V)
         /\ Each(Append(s, e), F) = Append(Each(s, F), F[e])
<1>1. PICK n \in Nat : n = Len(s) /\ DOMAIN s = 1 .. n
  OBVIOUS
<1>9. F \in [E -> V]
  BY DEF Values
<1>2. PICK t, u, v : t = Append(s, e) /\ u = Each(s, F) /\ v = F[e]
  OBVIOUS
<1>3. /\ DOMAIN t = 1 .. n + 1 /\ t[n + 1] = e
      /\ \A i \in 1 .. n : t[i] = s[i] /\ s[i] \in E
  BY <1>1, <1>2
<1>4. u \in Seq(V) /\ Len(u) = n /\ \A i \in 1 .. n : u[i] = F[s[i]]
  <2>1. u = [i \in 1 .. n |-> F[s[i]]]
    BY <1>1, <1>2 DEF Each
  <2>2. \A i \in 1 .. n : F[s[i]] \in V
    BY <1>3, <1>9
  <2> QED BY <2>1, <2>2
<1>5. PICK w : w = Append(u, v)
  OBVIOUS
<1>6. /\ w = [i \in 1 .. n + 1 |-> w[i]] /\ w[n + 1] = v
      /\ \A i \in 1 .. n : w[i] = u[i]
  BY <1>2, <1>4, <1>5
<1>7. \A i \in 1 .. n + 1 : w[i] = F[t[i]]
  <2> SUFFICES ASSUME NEW i \in 1 .. n + 1 PROVE w[i] = F[t[i]]
    OBVIOUS
  <2>1. CASE i = n + 1
    BY <1>2, <1>3, <1>6, <2>1
  <2>2. CASE i # n + 1
    <3>1. i \in 1 .. n
      BY <2>2
    <3> QED BY <1>3, <1>4, <1>6, <3>1
  <2> QED BY <2>1, <2>2
<1>8. Each(t, F) = w
  BY <1>3, <1>6, <1>7 DEF Each
<1> QED BY <1>2, <1>4, <1>5, <1>8

\* What F makes of the elements that are kept.
Picked(s, R, F) == Each(KeptOf(s, R), F)

\* An element that is kept adds its value, any other adds nothing.
LEMMA PickedMore ==
  ASSUME NEW E, NEW V, NEW F, Values(F, E, V), NEW R, NEW s \in Seq(E), NEW e \in E
  PROVE  /\ Picked(<<>>, R, F) = <<>>
         /\ Picked(s, R, F) \in Seq(V)
         /\ Picked(Append(s, e), R, F) =
              IF e \in R THEN Append(Picked(s, R, F), F[e]) ELSE Picked(s, R, F)
<1>1. PICK k : k = KeptOf(s, R)
  OBVIOUS
<1>2. k \in Seq(E) /\ KeptOf(Append(s, e), R) = IF e \in R THEN Append(k, e) ELSE k
  <2>1. /\ KeptOf(s, R) \in Seq(E)
        /\ KeptOf(Append(s, e), R) = IF e \in R THEN Append(KeptOf(s, R), e) ELSE KeptOf(s, R)
    BY ONLY s \in Seq(E), e \in E, KeptMore
  <2> QED BY <1>1, <2>1
<1>3. Each(k, F) \in Seq(V) /\ Each(Append(k, e), F) = Append(Each(k, F), F[e])
  <2>1. k \in Seq(E)
    BY <1>2
  <2> QED BY ONLY Values(F, E, V), e \in E, <2>1, EachMore
<1>4. Each(<<>>, F) = <<>>
  BY DEF Each
<1> QED BY <1>1, <1>2, <1>3, <1>4, KeptNone DEF Picked

\* What is picked of a list that is put together.
LEMMA PickedJoined ==
  ASSUME NEW E, NEW V, NEW F, Values(F, E, V), NEW R, NEW s \in Seq(E)
  PROVE  \A t \in Seq(E) : Picked(s \o t, R, F) = Picked(s, R, F) \o Picked(t, R, F)
<1> DEFINE S == {t \in Seq(E) : Picked(s \o t, R, F) = Picked(s, R, F) \o Picked(t, R, F)}
<1>1. <<>> \in S
  <2>1. s \o <<>> = s /\ <<>> \in Seq(E)
    OBVIOUS
  <2>2. PICK u \in Seq(V) : u = Picked(s, R, F)
    <3>1. CASE s = <<>>
      <4>1. Picked(s, R, F) = <<>>
        BY <3>1, KeptNone DEF Picked, Each
      <4>2. <<>> \in Seq(V)
        OBVIOUS
      <4> QED BY ONLY <4>1, <4>2
    <3>2. CASE s # <<>>
      <4>1. PICK e \in E : TRUE
        BY <3>2
      <4> QED BY ONLY Values(F, E, V), s \in Seq(E), e \in E, PickedMore
    <3> QED BY <3>1, <3>2
  <2>3. Picked(<<>>, R, F) = <<>>
    BY KeptNone DEF Picked, Each
  <2>4. u \o <<>> = u
    OBVIOUS
  <2> QED BY <2>1, <2>2, <2>3, <2>4
<1>2. \A t \in Seq(E) : t \in S => \A e \in E : Append(t, e) \in S
  <2> SUFFICES ASSUME NEW t \in Seq(E), t \in S, NEW e \in E PROVE Append(t, e) \in S
    OBVIOUS
  <2>1. PICK a, b, v : a = Picked(s, R, F) /\ b = Picked(t, R, F) /\ v = F[e]
    OBVIOUS
  <2>2. b \in Seq(V) /\ Picked(Append(t, e), R, F) = IF e \in R THEN Append(b, v) ELSE b
    <3>1. /\ Picked(t, R, F) \in Seq(V)
          /\ Picked(Append(t, e), R, F) =
               IF e \in R THEN Append(Picked(t, R, F), F[e]) ELSE Picked(t, R, F)
      BY ONLY Values(F, E, V), t \in Seq(E), e \in E, PickedMore
    <3> QED BY <2>1, <3>1
  <2>3. a \in Seq(V)
    <3>1. Picked(s, R, F) \in Seq(V)
      BY ONLY Values(F, E, V), s \in Seq(E), e \in E, PickedMore
    <3> QED BY <2>1, <3>1
  <2>4. PICK j : j = s \o t
    OBVIOUS
  <2>5. j \in Seq(E)
    BY <2>4
  <2>6. Picked(Append(j, e), R, F) = IF e \in R THEN Append(Picked(j, R, F), v) ELSE Picked(j, R, F)
    <3>1. Picked(Append(j, e), R, F) =
            IF e \in R THEN Append(Picked(j, R, F), F[e]) ELSE Picked(j, R, F)
      BY ONLY Values(F, E, V), <2>5, e \in E, PickedMore
    <3> QED BY <2>1, <3>1
  <2>7. Picked(j, R, F) = a \o b
    BY <2>1, <2>4
  <2>8. s \o Append(t, e) = Append(j, e)
    BY <2>4
  <2>9. v \in V
    BY <2>1 DEF Values
  <2>10. Append(a \o b, v) = a \o Append(b, v)
    <3>1. b \in Seq(V)
      BY <2>2
    <3>2. PICK ab : ab = a \o b
      OBVIOUS
    <3>3. ab \in Seq(V)
      BY ONLY <2>3, <3>1, <3>2
    <3>4. a \o Append(b, v) = Append(ab, v)
      BY ONLY <2>3, <2>9, <3>1, <3>2, <3>3
    <3> QED BY <3>2, <3>4
  <2>11. Picked(s \o Append(t, e), R, F) = a \o Picked(Append(t, e), R, F)
    BY <2>2, <2>6, <2>7, <2>8, <2>10
  <2>12. Append(t, e) \in Seq(E)
    BY Appended
  <2> QED BY <2>1, <2>11, <2>12
<1> HIDE DEF S
<1>3. \A t \in Seq(E) : t \in S
  BY <1>1, <1>2, SeqInduction
<1> QED BY <1>3 DEF S

\* The last of the n elements of s follows front, and e in its place too.
EndsAfter(front, s, n, e) ==
  s = Append(front, s[n]) /\ [s EXCEPT ![n] = e] = Append(front, e)

\* A list whose last element is replaced.
LEMMA LastReplaced ==
  ASSUME NEW E, NEW s \in Seq(E), NEW n \in Nat, n = Len(s), n > 0, NEW e \in E
  PROVE  \E front \in Seq(E) : EndsAfter(front, s, n, e)
<1>1. PICK front : front = [i \in 1 .. n - 1 |-> s[i]]
  OBVIOUS
<1>2. n - 1 \in Nat /\ n - 1 + 1 = n /\ DOMAIN s = 1 .. n /\ n \in 1 .. n
  OBVIOUS
<1>3. front \in Seq(E) /\ Len(front) = n - 1 /\ \A i \in 1 .. n - 1 : front[i] = s[i]
  <2>1. \A i \in 1 .. n - 1 : s[i] \in E
    BY <1>2
  <2> QED BY <1>1, <1>2, <2>1
<1>4. s[n] \in E
  BY <1>2
<1>5. PICK t, u : t = Append(front, s[n]) /\ u = Append(front, e)
  OBVIOUS
<1>6. /\ t \in Seq(E) /\ Len(t) = n /\ t[n] = s[n] /\ \A i \in 1 .. n - 1 : t[i] = s[i]
      /\ u \in Seq(E) /\ Len(u) = n /\ u[n] = e /\ \A i \in 1 .. n - 1 : u[i] = s[i]
  BY <1>2, <1>3, <1>4, <1>5
<1>7. \A i \in 1 .. n : t[i] = s[i]
  <2>1. \A i \in 1 .. n : i = n \/ i \in 1 .. n - 1
    OBVIOUS
  <2> QED BY <1>6, <2>1
<1>8. t = s
  BY <1>6, <1>7
<1>9. PICK r : r = [s EXCEPT ![n] = e]
  OBVIOUS
<1>10. r \in Seq(E) /\ Len(r) = n /\ \A i \in 1 .. n : r[i] = u[i]
  <2>1. r \in Seq(E) /\ Len(r) = n /\ r[n] = e /\ \A i \in 1 .. n : i # n => r[i] = s[i]
    BY <1>2, <1>9
  <2>2. \A i \in 1 .. n : i = n \/ i \in 1 .. n - 1
    OBVIOUS
  <2> QED BY <1>6, <2>1, <2>2
<1>11. r = u
  BY <1>6, <1>10
<1> QED BY <1>3, <1>5, <1>8, <1>9, <1>11 DEF EndsAfter

\* The first n elements of a list.
Upto(s, n) == [i \in 1 .. n |-> s[i]]

\* A list grows element by element.
LEMMA UptoMore ==
  ASSUME NEW E, NEW s \in Seq(E), NEW n \in Nat, n < Len(s)
  PROVE  /\ Upto(s, n) \in Seq(E)
         /\ Upto(s, n + 1) = Append(Upto(s, n), s[n + 1])
<1>1. \A i \in 1 .. n + 1 : s[i] \in E
  OBVIOUS
<1>2. n + 1 \in 1 .. n + 1
  OBVIOUS
<1>3. PICK u : u = [i \in 1 .. n |-> s[i]]
  OBVIOUS
<1>4. u \in Seq(E) /\ Len(u) = n
  BY <1>1, <1>3
<1>5. Append(u, s[n + 1]) = [i \in 1 .. n + 1 |-> s[i]]
  BY <1>1, <1>2, <1>3, <1>4
<1> QED BY <1>3, <1>4, <1>5 DEF Upto

=============================================================================
