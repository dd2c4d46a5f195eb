---------------------------- MODULE CityDBProofs ----------------------------
(***************************************************************************)
(* Theorems about CityDB, for every set of cities, ranges and queries: the *)
(* indexes and their bounds are exact, and a well-formed query answers     *)
(* what it means and leaves nothing on the stacks.                         *)
(*                                                                         *)
(* The loops of the code are folds over sequences.  A fold is a recursive  *)
(* function, whose equation the first lemmas solve: what it gives for a    *)
(* sequence is a step from what it gives for the sequence before its last  *)
(* element.                                                                *)
(***************************************************************************)
EXTENDS CityDB, SequenceTheorems, FiniteSetTheorems, WellFoundedInduction, TLAPS
-----------------------------------------------------------------------------
(* Numbers and sequences *)

\* A set of natural numbers has a least element.
LEMMA LeastElement ==
  ASSUME NEW S \in SUBSET Nat, S # {}
  PROVE  \E m \in S : \A n \in S : m <= n
<1>1. \E m \in S : \A n \in S : <<n, m>> \notin OpToRel(<, Nat)
  BY NatLessThanWellFounded, WFMin
<1>2. \A m, n \in Nat : <<n, m>> \notin OpToRel(<, Nat) => m <= n
  BY DEF OpToRel
<1> QED
  BY <1>1, <1>2

\* A set that holds 0 and the successors of its elements holds every number.
LEMMA SetInduction ==
  ASSUME NEW S, 0 \in S, \A n \in Nat : n \in S => n + 1 \in S
  PROVE  Nat \subseteq S
<1> SUFFICES ASSUME Nat \ S # {} PROVE FALSE
  OBVIOUS
<1>1. PICK m \in Nat \ S : \A n \in Nat \ S : m <= n
  BY LeastElement
<1>2. m - 1 \in Nat /\ m - 1 \in S
  BY <1>1
<1> QED
  BY <1>1, <1>2

LEMMA AppendFacts ==
  ASSUME NEW T, NEW s \in Seq(T), NEW e \in T
  PROVE  /\ Append(s, e) \in Seq(T) /\ Len(Append(s, e)) = Len(s) + 1
         /\ Append(s, e) \in [1..Len(s) + 1 -> T]
         /\ Append(s, e)[Len(s) + 1] = e /\ \A i \in 1..Len(s) : Append(s, e)[i] = s[i]
<1>1. Append(s, e) \in Seq(T) /\ Len(Append(s, e)) = Len(s) + 1
  OBVIOUS
<1>2. \A r \in Seq(T) : r \in [1..Len(r) -> T]
  OBVIOUS
<1>3. Append(s, e) \in [1..Len(s) + 1 -> T]
  BY <1>1, <1>2
<1> QED
  BY <1>1, <1>3

\* What holds for the empty sequence, and for a sequence with one more element
\* when it holds for the sequence, holds for each.
LEMMA AppendInduction ==
  ASSUME NEW T, NEW Good, <<>> \in Good,
         \A s \in Seq(T), e \in T : s \in Good => Append(s, e) \in Good
  PROVE  Seq(T) \subseteq Good
<1> DEFINE Sizes == {n \in Nat : \A s \in Seq(T) : Len(s) = n => s \in Good}
<1>1. 0 \in Sizes
  BY EmptySeq
<1>2. ASSUME NEW n \in Nat, n \in Sizes PROVE n + 1 \in Sizes
  <2> SUFFICES ASSUME NEW s \in Seq(T), Len(s) = n + 1 PROVE s \in Good
    OBVIOUS
  <2> DEFINE r == SubSeq(s, 1, n)
  <2>1. r \in Seq(T) /\ Len(r) = n /\ s[n + 1] \in T /\ \A i \in 1..n : r[i] = s[i]
    OBVIOUS
  <2>2. s = Append(r, s[n + 1])
    <3> DEFINE q == Append(r, s[n + 1])
    <3>1. q \in Seq(T) /\ Len(q) = n + 1 /\ q[n + 1] = s[n + 1] /\ \A i \in 1..n : q[i] = r[i]
      BY <2>1
    <3>2. \A i \in 1..n + 1 : q[i] = s[i]
      BY <2>1, <3>1
    <3> QED
      BY <3>1, <3>2, SeqEqual
  <2> QED
    BY <1>2, <2>1, <2>2
<1> HIDE DEF Sizes
<1>3. Nat \subseteq Sizes
  BY <1>1, <1>2, SetInduction
<1> QED
  BY <1>3 DEF Sizes
-----------------------------------------------------------------------------
(* Folds *)

\* One round of the loop of deserialize, of recursive_decent, of query.
Loops == {"deserialize", "recursive_decent", "query"}
Round(loop, s, e) ==
  CASE loop = "deserialize"      -> indexCreate(s, e)
    [] loop = "recursive_decent" -> Shunt(s, e)
    [] loop = "query"            -> Evaluate(s, e)

\* What the fold of a subset of a sequence's elements is, when g is that of
\* smaller ones.
FoldWith(loop, base, seq, g, S) ==
  IF S = {} THEN base ELSE Round(loop, g[S \ {Max(S)}], seq[Max(S)])

IsFold(loop, base, seq, g) == g = [S \in SUBSET DOMAIN seq |-> FoldWith(loop, base, seq, g, S)]

\* The elements before the n-th.
LEMMA LargestOfPrefix ==
  ASSUME NEW n \in Nat
  PROVE  Max(1..n + 1) = n + 1 /\ (1..n + 1) \ {n + 1} = 1..n
<1>1. n + 1 \in 1..n + 1 /\ \A i \in 1..n + 1 : n + 1 >= i
  OBVIOUS
<1>2. \A m \in 1..n + 1 : (\A i \in 1..n + 1 : m >= i) => m = n + 1
  BY <1>1
<1>3. Max(1..n + 1) = n + 1
  BY <1>1, <1>2 DEF Max
<1> QED
  BY <1>3

\* A set of positions has a last one.
LEMMA LargestPosition ==
  ASSUME NEW n \in Nat, NEW S \in SUBSET (0..n), S # {}
  PROVE  Max(S) \in S /\ \A i \in S : Max(S) >= i
<1> DEFINE From == {n - i : i \in S}
<1>1. From \in SUBSET Nat /\ From # {}
  <2>1. \A i \in S : n - i \in Nat
    OBVIOUS
  <2> QED
    BY <2>1
<1>2. PICK m \in From : \A d \in From : m <= d
  BY <1>1, LeastElement
<1>3. PICK i \in S : m = n - i
  OBVIOUS
<1>4. \A j \in S : i >= j
  BY <1>2, <1>3
<1> QED
  BY <1>4 DEF Max

LEMMA FoldsExist ==
  ASSUME NEW loop, NEW base, NEW T, NEW seq \in Seq(T)
  PROVE  \E g : IsFold(loop, base, seq, g)
<1> DEFINE n == Len(seq)
           Below(m) == {S \in SUBSET DOMAIN seq : S \subseteq 1..m}
           Known == {m \in Nat : \E g : g = [S \in Below(m) |-> FoldWith(loop, base, seq, g, S)]}
<1>1. n \in Nat /\ DOMAIN seq = 1..n
  OBVIOUS
<1>2. 0 \in Known
  <2> DEFINE g == [S \in Below(0) |-> base]
  <2>1. \A S \in Below(0) : S = {}
    OBVIOUS
  <2>2. g = [S \in Below(0) |-> FoldWith(loop, base, seq, g, S)]
    BY <2>1 DEF FoldWith
  <2> QED
    BY <2>2
<1>3. ASSUME NEW m \in Nat, m \in Known PROVE m + 1 \in Known
  <2>1. PICK g : g = [S \in Below(m) |-> FoldWith(loop, base, seq, g, S)]
    BY <1>3
  <2> DEFINE h == [S \in Below(m + 1) |-> FoldWith(loop, base, seq, g, S)]
  <2>2. ASSUME NEW S \in Below(m + 1)
        PROVE  FoldWith(loop, base, seq, g, S) = FoldWith(loop, base, seq, h, S)
    <3>1. CASE S = {}
      BY <3>1 DEF FoldWith
    <3>2. CASE S # {}
      <4> DEFINE R == S \ {Max(S)}
      <4>1. Max(S) \in S /\ \A i \in S : Max(S) >= i
        <5>1. PICK k \in Nat : DOMAIN seq = 1..k
          BY <1>1
        <5>2. S \in SUBSET (0..k)
          BY <5>1
        <5> QED
          BY <3>2, <5>1, <5>2, LargestPosition
      <4>3. R \in Below(m) /\ R \in Below(m + 1)
        BY <1>1, <4>1
      <4> HIDE DEF R, Below
      <4>4. g[R] = FoldWith(loop, base, seq, g, R) /\ h[R] = FoldWith(loop, base, seq, g, R)
        BY <2>1, <4>3
      <4> QED
        BY <3>2, <4>4 DEF FoldWith, R
    <3> QED
      BY <3>1, <3>2
  <2>3. h = [S \in Below(m + 1) |-> FoldWith(loop, base, seq, h, S)]
    BY <2>2
  <2> HIDE DEF h, Below
  <2>4. \E gg : gg = [S \in Below(m + 1) |-> FoldWith(loop, base, seq, gg, S)]
    BY <2>3
  <2> QED
    BY <2>4
<1>4. n \in Known
  <2> HIDE DEF Known
  <2> QED
    BY <1>1, <1>2, <1>3, SetInduction
<1>5. SUBSET DOMAIN seq = Below(n)
  BY <1>1
<1> QED
  BY <1>4, <1>5 DEF IsFold

\* The fold of a sequence, and its equation.
Folded(loop, base, seq) == (CHOOSE g : IsFold(loop, base, seq, g))[DOMAIN seq]

LEMMA FoldOfPrefix ==
  ASSUME NEW loop, NEW base, NEW T, NEW seq \in Seq(T), NEW g, IsFold(loop, base, seq, g),
         NEW n \in Nat, n < Len(seq)
  PROVE  g[1..n + 1] = Round(loop, g[1..n], seq[n + 1])
<1>1. 1..n + 1 \in SUBSET DOMAIN seq /\ 1..n + 1 # {}
  <2>1. DOMAIN seq = 1..Len(seq) /\ Len(seq) \in Nat
    OBVIOUS
  <2>2. 1 \in 1..n + 1 /\ \A i \in 1..n + 1 : i \in 1..Len(seq)
    BY <2>1
  <2> QED
    BY <2>1, <2>2
<1>2. g[1..n + 1] = FoldWith(loop, base, seq, g, 1..n + 1)
  BY <1>1 DEF IsFold
<1>3. Max(1..n + 1) = n + 1 /\ (1..n + 1) \ {n + 1} = 1..n
  BY LargestOfPrefix
<1> QED
  BY <1>1, <1>2, <1>3 DEF FoldWith

LEMMA FoldOfNone ==
  ASSUME NEW loop, NEW base
  PROVE  Folded(loop, base, <<>>) = base
<1> DEFINE g == CHOOSE g : IsFold(loop, base, <<>>, g)
<1>1. <<>> \in Seq({}) /\ DOMAIN <<>> = {}
  OBVIOUS
<1>2. IsFold(loop, base, <<>>, g)
  BY <1>1, FoldsExist
<1> HIDE DEF g
<1>3. g[{}] = base
  BY <1>1, <1>2 DEF IsFold, FoldWith
<1> QED
  BY <1>1, <1>3 DEF Folded, g

LEMMA FoldOfAppend ==
  ASSUME NEW loop, NEW base, NEW T, NEW seq \in Seq(T), NEW e \in T
  PROVE  Folded(loop, base, Append(seq, e)) = Round(loop, Folded(loop, base, seq), e)
<1> DEFINE n == Len(seq)
           more == Append(seq, e)
           g == CHOOSE gg : IsFold(loop, base, seq, gg)
           h == CHOOSE hh : IsFold(loop, base, more, hh)
           Agreed == {k \in Nat : k <= n => g[1..k] = h[1..k]}
<1>1. /\ n \in Nat /\ DOMAIN seq = 1..n /\ more \in Seq(T) /\ Len(more) = n + 1
      /\ DOMAIN more = 1..n + 1 /\ more[n + 1] = e /\ \A i \in 1..n : more[i] = seq[i]
  OBVIOUS
<1>2. IsFold(loop, base, seq, g) /\ IsFold(loop, base, more, h)
  BY <1>1, FoldsExist
<1>3. Folded(loop, base, seq) = g[1..n] /\ Folded(loop, base, more) = h[1..n + 1]
  BY <1>1 DEF Folded
<1> HIDE DEF g, h, more, n
<1>4. 0 \in Agreed
  <2>1. 1..0 = {}
    OBVIOUS
  <2> QED
    BY <1>2, <2>1 DEF IsFold, FoldWith
<1>5. ASSUME NEW k \in Nat, k \in Agreed PROVE k + 1 \in Agreed
  <2> SUFFICES ASSUME k + 1 <= n PROVE g[1..k + 1] = h[1..k + 1]
    OBVIOUS
  <2>1. k < n /\ k <= n /\ k < n + 1 /\ k + 1 \in 1..n
    BY <1>1
  <2>2. g[1..k + 1] = Round(loop, g[1..k], seq[k + 1])
    BY <1>1, <1>2, <2>1, FoldOfPrefix DEF n
  <2>3. h[1..k + 1] = Round(loop, h[1..k], more[k + 1])
    BY <1>1, <1>2, <2>1, FoldOfPrefix
  <2>4. g[1..k] = h[1..k]
    BY <1>5, <2>1
  <2> QED
    BY <1>1, <2>1, <2>2, <2>3, <2>4
<1> HIDE DEF Agreed
<1>6. n \in Agreed
  BY <1>1, <1>4, <1>5, SetInduction
<1>7. g[1..n] = h[1..n]
  BY <1>1, <1>6 DEF Agreed
<1>8. h[1..n + 1] = Round(loop, h[1..n], more[n + 1])
  <2>1. n < n + 1
    BY <1>1
  <2> QED
    BY <1>1, <1>2, <2>1, FoldOfPrefix
<1> QED
  BY <1>1, <1>3, <1>7, <1>8 DEF more

\* The folds of the model are these.
LEMMA ShuntFolds ==
  ASSUME NEW base, NEW seq
  PROVE  FoldLeft(Shunt, base, seq) = Folded("recursive_decent", base, seq)
<1> DEFINE Solves(g) == g = [S \in SUBSET DOMAIN seq |->
                               IF S = {} THEN base ELSE Shunt(g[S \ {Max(S)}], seq[Max(S)])]
<1>1. FoldLeft(Shunt, base, seq) = (CHOOSE g : Solves(g))[DOMAIN seq]
  BY DEF FoldLeft, MapThenFoldSet
<1>2. \A g : Solves(g) <=> IsFold("recursive_decent", base, seq, g)
  BY DEF IsFold, FoldWith, Round
<1> HIDE DEF Solves
<1>3. (CHOOSE g : Solves(g)) = CHOOSE g : IsFold("recursive_decent", base, seq, g)
  BY <1>2
<1> QED
  BY <1>1, <1>3 DEF Folded

LEMMA CreateFolds ==
  ASSUME NEW base, NEW seq
  PROVE  FoldLeft(indexCreate, base, seq) = Folded("deserialize", base, seq)
<1> DEFINE Solves(g) == g = [S \in SUBSET DOMAIN seq |->
                               IF S = {} THEN base ELSE indexCreate(g[S \ {Max(S)}], seq[Max(S)])]
<1>1. FoldLeft(indexCreate, base, seq) = (CHOOSE g : Solves(g))[DOMAIN seq]
  BY DEF FoldLeft, MapThenFoldSet
<1>2. \A g : Solves(g) <=> IsFold("deserialize", base, seq, g)
  BY DEF IsFold, FoldWith, Round
<1> HIDE DEF Solves
<1>3. (CHOOSE g : Solves(g)) = CHOOSE g : IsFold("deserialize", base, seq, g)
  BY <1>2
<1> QED
  BY <1>1, <1>3 DEF Folded

LEMMA EvaluateFolds ==
  ASSUME NEW base, NEW seq
  PROVE  FoldLeft(Evaluate, base, seq) = Folded("query", base, seq)
<1> DEFINE Solves(g) == g = [S \in SUBSET DOMAIN seq |->
                               IF S = {} THEN base ELSE Evaluate(g[S \ {Max(S)}], seq[Max(S)])]
<1>1. FoldLeft(Evaluate, base, seq) = (CHOOSE g : Solves(g))[DOMAIN seq]
  BY DEF FoldLeft, MapThenFoldSet
<1>2. \A g : Solves(g) <=> IsFold("query", base, seq, g)
  BY DEF IsFold, FoldWith, Round
<1> HIDE DEF Solves
<1>3. (CHOOSE g : Solves(g)) = CHOOSE g : IsFold("query", base, seq, g)
  BY <1>2
<1> QED
  BY <1>1, <1>3 DEF Folded

LEMMA Rounds ==
  ASSUME NEW s, NEW e
  PROVE  /\ Round("deserialize", s, e) = indexCreate(s, e)
         /\ Round("recursive_decent", s, e) = Shunt(s, e)
         /\ Round("query", s, e) = Evaluate(s, e)
BY DEF Round

\* What holds at first and is kept by each round holds in the end.
LEMMA FoldKeeps ==
  ASSUME NEW loop, NEW base, NEW T, NEW Good, base \in Good,
         \A s \in Good, e \in T : Round(loop, s, e) \in Good
  PROVE  \A seq \in Seq(T) : Folded(loop, base, seq) \in Good
<1> DEFINE Kept == {seq \in Seq(T) : Folded(loop, base, seq) \in Good}
<1>1. <<>> \in Kept
  BY FoldOfNone
<1>2. ASSUME NEW seq \in Seq(T), NEW e \in T, seq \in Kept PROVE Append(seq, e) \in Kept
  BY <1>2, FoldOfAppend
<1>3. Seq(T) \subseteq Kept
  <2> HIDE DEF Kept
  <2> QED
    BY <1>1, <1>2, AppendInduction
<1> QED
  BY <1>3
-----------------------------------------------------------------------------
(* The indexes *)

\* The ranges of the cities by their keys, which are numbered from 1.
Climate == [k \in 1..key_ |-> cityObjectDB_[cityDB_[k]]]

\* An index holds each key at just the numbers of the city's range.
Holding(climates, which) ==
  [n \in Numbers |-> {k \in DOMAIN climates : InRightOpen(n, climates[k][which])}]

\* The least and the largest bound of the cities' ranges.
Bounding(bounds, climates, which) ==
  /\ bounds \in Int \X Int
  /\ \/ climates = <<>> /\ bounds = NoBounds
     \/ /\ \E k \in DOMAIN climates : bounds[1] = climates[k][which][1]
        /\ \E k \in DOMAIN climates : bounds[2] = climates[k][which][2]
  /\ \A k \in DOMAIN climates :
       bounds[1] <= climates[k][which][1] /\ climates[k][which][2] <= bounds[2]

Exact(x, climates) ==
  /\ x.tempIndex = Holding(climates, 1) /\ x.humIndex = Holding(climates, 2)
  /\ Bounding(x.temp, climates, 1) /\ Bounding(x.hum, climates, 2)

LEMMA ClimateFacts ==
  ASSUME NEW climate \in Climates, NEW which \in 1..2
  PROVE  /\ climate[which] \in Ranges
         /\ climate[which][1] \in Int /\ climate[which][2] \in Int
         /\ climate[which][1] <= climate[which][2]
         /\ -Largest < climate[which][1] /\ climate[which][2] < Largest
         /\ Largest \in Nat
<1>1. climate[1] \in Ranges /\ climate[2] \in Ranges /\ (which = 1 \/ which = 2)
  BY CityAssumption
<1> QED
  BY <1>1, CityAssumption

LEMMA MinMaxOfTwo ==
  ASSUME NEW a \in Int, NEW b \in Int
  PROVE  /\ Min({a, b}) = IF a <= b THEN a ELSE b
         /\ Max({a, b}) = IF a <= b THEN b ELSE a
<1>1. \E m \in {a, b} : \A n \in {a, b} : m <= n
  BY DEF Min
<1>2. \E m \in {a, b} : \A n \in {a, b} : m >= n
  BY DEF Max
<1>3. Min({a, b}) \in {a, b} /\ Min({a, b}) <= a /\ Min({a, b}) <= b
  BY <1>1 DEF Min
<1>4. Max({a, b}) \in {a, b} /\ Max({a, b}) >= a /\ Max({a, b}) >= b
  BY <1>2 DEF Max
<1> QED
  BY <1>3, <1>4

\* One more city in an index.
LEMMA AddToHolding ==
  ASSUME NEW climates \in Seq(Climates), NEW climate \in Climates, NEW which \in 1..2
  PROVE  AddTo(Holding(climates, which), Len(climates) + 1, climate[which]) =
           Holding(Append(climates, climate), which)
<1> DEFINE more == Append(climates, climate)
           n == Len(climates)
<1>1. /\ n \in Nat /\ DOMAIN climates = 1..n /\ DOMAIN more = 1..n + 1
      /\ more[n + 1] = climate /\ \A k \in 1..n : more[k] = climates[k]
  OBVIOUS
<1> HIDE DEF more, n
<1>2. ASSUME NEW m \in Numbers
      PROVE  (IF InRightOpen(m, climate[which])
               THEN {k \in 1..n : InRightOpen(m, climates[k][which])} \cup {n + 1}
               ELSE {k \in 1..n : InRightOpen(m, climates[k][which])})
               = {k \in 1..n + 1 : InRightOpen(m, more[k][which])}
  <2>1. \A k \in 1..n + 1 : k \in 1..n \/ k = n + 1
    BY <1>1
  <2>2. n + 1 \in 1..n + 1 /\ \A k \in 1..n : k \in 1..n + 1
    BY <1>1
  <2> QED
    BY <1>1, <2>1, <2>2
<1> QED
  BY <1>1, <1>2 DEF AddTo, Holding, more, n

LEMMA WidenedBounds ==
  ASSUME NEW climates \in Seq(Climates), NEW climate \in Climates, NEW which \in 1..2,
         NEW bounds, Bounding(bounds, climates, which)
  PROVE  Bounding(Widened(bounds, climate[which]), Append(climates, climate), which)
<1> DEFINE more == Append(climates, climate)
           n == Len(climates)
           r == climate[which]
           w == Widened(bounds, r)
<1>1. /\ n \in Nat /\ DOMAIN climates = 1..n /\ DOMAIN more = 1..n + 1
      /\ more[n + 1] = climate /\ \A k \in 1..n : more[k] = climates[k] /\ climates[k] \in Climates
  OBVIOUS
<1>2. /\ r[1] \in Int /\ r[2] \in Int /\ r[1] <= r[2] /\ -Largest < r[1] /\ r[2] < Largest
      /\ Largest \in Nat
  BY ClimateFacts
<1>3. \A k \in 1..n : climates[k][which][1] \in Int /\ climates[k][which][2] \in Int
  BY <1>1, ClimateFacts
<1>4. bounds[1] \in Int /\ bounds[2] \in Int
  BY DEF Bounding
<1>5. /\ w \in Int \X Int
      /\ w[1] = IF bounds[1] <= r[1] THEN bounds[1] ELSE r[1]
      /\ w[2] = IF bounds[2] <= r[2] THEN r[2] ELSE bounds[2]
  <2>1. /\ Min({bounds[1], r[1]}) = IF bounds[1] <= r[1] THEN bounds[1] ELSE r[1]
        /\ Max({bounds[2], r[2]}) = IF bounds[2] <= r[2] THEN r[2] ELSE bounds[2]
    BY <1>2, <1>4, MinMaxOfTwo
  <2> HIDE DEF r
  <2> QED
    BY <1>2, <1>4, <2>1 DEF Widened
<1>6. \/ w[1] = r[1]
      \/ w[1] = bounds[1] /\ climates # <<>>
  BY <1>2, <1>4, <1>5 DEF Bounding, NoBounds
<1>7. \/ w[2] = r[2]
      \/ w[2] = bounds[2] /\ climates # <<>>
  BY <1>2, <1>4, <1>5 DEF Bounding, NoBounds
<1>8. more[n + 1][which] = r /\ \A k \in 1..n : more[k][which] = climates[k][which]
  BY <1>1
<1>9. n + 1 \in 1..n + 1 /\ (\A k \in 1..n : k \in 1..n + 1) /\ \A k \in 1..n + 1 : k \in 1..n \/ k = n + 1
  BY <1>1
<1> HIDE DEF more, n, r, w
<1>10. \E k \in DOMAIN more : w[1] = more[k][which][1]
  BY <1>1, <1>6, <1>8, <1>9 DEF Bounding
<1>11. \E k \in DOMAIN more : w[2] = more[k][which][2]
  BY <1>1, <1>7, <1>8, <1>9 DEF Bounding
<1>12. ASSUME NEW k \in DOMAIN more
       PROVE  w[1] <= more[k][which][1] /\ more[k][which][2] <= w[2]
  <2>1. CASE k = n + 1
    BY <1>2, <1>4, <1>5, <1>8, <2>1
  <2>2. CASE k \in 1..n
    <3>1. bounds[1] <= climates[k][which][1] /\ climates[k][which][2] <= bounds[2]
      BY <1>1, <2>2 DEF Bounding
    <3>2. more[k][which] = climates[k][which]
      BY <1>8, <2>2
    <3>3. climates[k][which][1] \in Int /\ climates[k][which][2] \in Int
      BY <1>3, <2>2
    <3> QED
      BY <1>2, <1>4, <1>5, <3>1, <3>2, <3>3
  <2> QED
    BY <1>1, <1>9, <2>1, <2>2
<1> QED
  BY <1>5, <1>10, <1>11, <1>12 DEF Bounding, more, w, r

\* indexCreate keeps indexes exact.
LEMMA CreateKeepsExact ==
  ASSUME NEW climates \in Seq(Climates), NEW climate \in Climates, NEW x, Exact(x, climates)
  PROVE  Exact(indexCreate(x, [key |-> Len(climates) + 1, climate |-> climate]),
               Append(climates, climate))
<1> DEFINE y == indexCreate(x, [key |-> Len(climates) + 1, climate |-> climate])
<1>1. /\ y.tempIndex = AddTo(x.tempIndex, Len(climates) + 1, climate[1])
      /\ y.humIndex = AddTo(x.humIndex, Len(climates) + 1, climate[2])
      /\ y.temp = Widened(x.temp, climate[1]) /\ y.hum = Widened(x.hum, climate[2])
  BY DEF indexCreate
<1>2. 1 \in 1..2 /\ 2 \in 1..2
  OBVIOUS
<1>3. y.tempIndex = Holding(Append(climates, climate), 1) /\ y.humIndex = Holding(Append(climates, climate), 2)
  BY <1>1, <1>2, AddToHolding DEF Exact
<1>4. /\ Bounding(y.temp, Append(climates, climate), 1)
      /\ Bounding(y.hum, Append(climates, climate), 2)
  BY <1>1, <1>2, WidenedBounds DEF Exact
<1> QED
  BY <1>3, <1>4 DEF Exact

LEMMA NoIndexesExact == Exact(NoIndexes, <<>>)
<1>1. DOMAIN <<>> = {} /\ NoBounds \in Int \X Int
  BY CityAssumption DEF NoBounds
<1> QED
  BY <1>1 DEF Exact, NoIndexes, EmptyIndex, Holding, Bounding
\* The cities of a file as deserialize adds them.
Numbered(climates) == [k \in DOMAIN climates |-> [key |-> k, climate |-> climates[k]]]

City == [key : Nat, climate : Climates]

LEMMA NumberedOfAppend ==
  ASSUME NEW climates \in Seq(Climates), NEW climate \in Climates
  PROVE  /\ Numbered(climates) \in Seq(City)
         /\ Numbered(Append(climates, climate)) =
              Append(Numbered(climates), [key |-> Len(climates) + 1, climate |-> climate])
<1> DEFINE n == Len(climates)
           more == Append(climates, climate)
           last == [key |-> n + 1, climate |-> climate]
<1>1. /\ n \in Nat /\ DOMAIN climates = 1..n /\ DOMAIN more = 1..n + 1
      /\ more[n + 1] = climate /\ \A k \in 1..n : more[k] = climates[k] /\ climates[k] \in Climates
  OBVIOUS
<1>2. last \in City /\ \A k \in 1..n : [key |-> k, climate |-> climates[k]] \in City
  BY <1>1 DEF City
<1> HIDE DEF n, more, last
<1>3. Numbered(climates) \in Seq(City) /\ Len(Numbered(climates)) = n
  BY <1>1, <1>2 DEF Numbered
<1> DEFINE s == Append(Numbered(climates), last)
           t == Numbered(more)
<1>4. s \in [1..n + 1 -> City] /\ s[n + 1] = last /\ \A k \in 1..n : s[k] = Numbered(climates)[k]
  <2> HIDE DEF last
  <2> QED
    BY <1>2, <1>3, AppendFacts
<1>5. DOMAIN t = 1..n + 1 /\ t = [k \in 1..n + 1 |-> t[k]]
  BY <1>1 DEF Numbered
<1>6. ASSUME NEW k \in 1..n + 1 PROVE t[k] = s[k]
  <2>1. t[k] = [key |-> k, climate |-> more[k]]
    BY <1>1 DEF Numbered
  <2>2. CASE k = n + 1
    <3> HIDE DEF s, t
    <3> QED
      BY <1>1, <1>4, <2>1, <2>2 DEF last
  <2>3. CASE k \in 1..n
    <3>1. Numbered(climates)[k] = [key |-> k, climate |-> climates[k]]
      BY <1>1, <2>3 DEF Numbered
    <3> HIDE DEF s, t
    <3> QED
      BY <1>1, <1>4, <2>1, <2>3, <3>1
  <2> HIDE DEF s, t
  <2> QED
    BY <1>1, <2>2, <2>3
<1>7. s = t
  <2>1. s = [k \in 1..n + 1 |-> s[k]]
    BY <1>4
  <2> HIDE DEF s, t
  <2> QED
    BY <1>5, <1>6, <2>1
<1> QED
  BY <1>3, <1>7 DEF n, more, last

\* The indexes of a loaded file are exact.
LEMMA LoadIsExact ==
  ASSUME NEW climates \in Seq(Climates)
  PROVE  Exact(FoldLeft(indexCreate, NoIndexes, Numbered(climates)), climates)
<1> DEFINE Loaded(s) == Folded("deserialize", NoIndexes, Numbered(s))
           Good == {s \in Seq(Climates) : Exact(Loaded(s), s)}
<1>1. <<>> \in Good
  <2>1. Numbered(<<>>) = <<>>
    BY DEF Numbered
  <2> QED
    BY <2>1, FoldOfNone, NoIndexesExact
<1>2. ASSUME NEW s \in Seq(Climates), NEW e \in Climates, s \in Good
      PROVE  Append(s, e) \in Good
  <2> DEFINE city == [key |-> Len(s) + 1, climate |-> e]
  <2>1. Numbered(s) \in Seq(City) /\ Numbered(Append(s, e)) = Append(Numbered(s), city)
    BY NumberedOfAppend
  <2>2. city \in City /\ Append(s, e) \in Seq(Climates)
    BY DEF City
  <2>3. Loaded(Append(s, e)) = indexCreate(Loaded(s), city)
    <3> HIDE DEF city
    <3> QED
      BY <2>1, <2>2, FoldOfAppend, Rounds
  <2>4. Exact(Loaded(s), s)
    BY <1>2
  <2>5. Exact(indexCreate(Loaded(s), city), Append(s, e))
    <3> HIDE DEF Loaded
    <3> QED
      BY <2>4, CreateKeepsExact
  <2> QED
    BY <2>2, <2>3, <2>5
<1>3. Seq(Climates) \subseteq Good
  <2> HIDE DEF Good
  <2> QED
    BY <1>1, <1>2, AppendInduction
<1> QED
  BY <1>3, CreateFolds
-----------------------------------------------------------------------------
(* Keys and names *)

\* An enumeration without repetition of as many elements as a set has holds
\* all of them.
LEMMA Enumeration ==
  ASSUME NEW S \in SUBSET Names, NEW names \in [1..Cardinality(S) -> S],
         \A i, j \in DOMAIN names : i < j => names[i] < names[j]
  PROVE  /\ names \in Seq(Names) /\ Len(names) = Cardinality(S)
         /\ Cardinality(S) \in Nat /\ ToSet(names) = S
<1> DEFINE n == Cardinality(S)
<1>1. IsFiniteSet(S) /\ S \subseteq Nat
  BY CityAssumption, FS_Subset
<1>2. n \in Nat
  BY <1>1, FS_CardinalityType
<1>3. names \in Seq(Names) /\ Len(names) = n
  BY <1>2
<1>4. ASSUME NEW i \in 1..n, NEW j \in 1..n, names[i] = names[j] PROVE i = j
  <2>1. names[i] \in Nat /\ names[j] \in Nat
    BY <1>1
  <2>2. (i < j => names[i] < names[j]) /\ (j < i => names[j] < names[i])
    OBVIOUS
  <2> QED
    BY <1>2, <1>4, <2>1, <2>2
<1>5. names \in Injection(1..n, S)
  BY <1>4 DEF Injection, IsInjective
<1>6. IsFiniteSet(1..n) /\ Cardinality(1..n) = n
  BY <1>2, FS_Interval
<1>7. names \in Surjection(1..n, S)
  BY <1>1, <1>5, <1>6, FS_Injection
<1>8. ToSet(names) = S
  BY <1>7 DEF Surjection, ToSet
<1> QED
  BY <1>2, <1>3, <1>8

-----------------------------------------------------------------------------
(* The types of queries *)

Operands == {t \in Tokens : isOperand(t)}

LEMMA PieceOfSeq ==
  ASSUME NEW T, NEW s \in Seq(T), NEW m \in 1..Len(s) + 1, NEW n \in 0..Len(s)
  PROVE  SubSeq(s, m, n) \in Seq(T)
<1>1. \A i \in m..n : s[i] \in T
  OBVIOUS
<1> QED
  BY <1>1

LEMMA ReverseOfSeq ==
  ASSUME NEW T, NEW s \in Seq(T)
  PROVE  /\ Reverse(s) \in Seq(T) /\ Len(Reverse(s)) = Len(s)
         /\ \A i \in 1..Len(s) : Reverse(s)[i] = s[Len(s) - i + 1]
<1>1. Len(s) \in Nat /\ \A i \in 1..Len(s) : (Len(s) - i) + 1 \in 1..Len(s)
  OBVIOUS
<1>2. \A i \in 1..Len(s) : s[(Len(s) - i) + 1] \in T
  BY <1>1
<1> QED
  BY <1>1, <1>2 DEF Reverse

\* The position up to which an operator leaves the stack.
LEMMA KeptInStack ==
  ASSUME NEW n \in Nat, NEW lower \in SUBSET (1..n)
  PROVE  Max(lower \cup {0}) \in 0..n
<1>1. lower \cup {0} \in SUBSET (0..n) /\ lower \cup {0} # {}
  OBVIOUS
<1>2. Max(lower \cup {0}) \in lower \cup {0}
  BY <1>1, LargestPosition
<1> QED
  BY <1>1, <1>2

Shunting == [out : Seq(Tokens), stack : Seq(Tokens)]

LEMMA ShuntKeepsType ==
  ASSUME NEW s \in Shunting, NEW token \in Tokens
  PROVE  Shunt(s, token) \in Shunting
<1> DEFINE lower == {i \in DOMAIN s.stack :
                      \/ precedence(s.stack[i]) < precedence(token)
                      \/ token.type = "UNARY" /\ precedence(s.stack[i]) = precedence(token)}
           kept == Max(lower \cup {0})
           n == Len(s.stack)
           moved == SubSeq(s.stack, kept + 1, n)
           left == SubSeq(s.stack, 1, kept)
<1>1. s.out \in Seq(Tokens) /\ s.stack \in Seq(Tokens) /\ n \in Nat /\ DOMAIN s.stack = 1..n
  BY DEF Shunting
<1>2. lower \in SUBSET (1..n)
  BY <1>1
<1> HIDE DEF lower
<1>3. kept \in 0..n
  BY <1>1, <1>2, KeptInStack
<1> HIDE DEF kept
<1>4. moved \in Seq(Tokens) /\ left \in Seq(Tokens)
  <2>1. kept + 1 \in 1..n + 1 /\ n \in 0..n /\ 1 \in 1..n + 1
    BY <1>1, <1>3
  <2> QED
    BY <1>1, <1>3, <2>1, PieceOfSeq
<1> HIDE DEF moved, left
<1>5. Reverse(moved) \in Seq(Tokens)
  BY <1>4, ReverseOfSeq
<1>6. s.out \o Reverse(moved) \in Seq(Tokens) /\ Append(left, token) \in Seq(Tokens)
        /\ Append(s.out, token) \in Seq(Tokens)
  BY <1>1, <1>4, <1>5
<1>7. Shunt(s, token) = IF isOperand(token) THEN [s EXCEPT !.out = Append(@, token)]
                        ELSE [out |-> s.out \o Reverse(moved), stack |-> Append(left, token)]
  BY DEF Shunt, moved, left, kept, lower, n
<1>8. [s EXCEPT !.out = Append(@, token)] \in Shunting
  BY <1>6 DEF Shunting
<1>9. [out |-> s.out \o Reverse(moved), stack |-> Append(left, token)] \in Shunting
  BY <1>6 DEF Shunting
<1> QED
  BY <1>7, <1>8, <1>9

LEMMA PostfixOfTokens ==
  ASSUME NEW tokens \in Seq(Tokens)
  PROVE  recursive_decent(tokens) \in Seq(Tokens)
<1> DEFINE base == [out |-> <<>>, stack |-> <<>>]
           s == Folded("recursive_decent", base, tokens)
<1>1. base \in Shunting
  BY DEF Shunting
<1>2. \A r \in Shunting, e \in Tokens : Round("recursive_decent", r, e) \in Shunting
  BY ShuntKeepsType, Rounds
<1>3. s \in Shunting
  <2> HIDE DEF base
  <2> QED
    BY <1>1, <1>2, FoldKeeps
<1>4. FoldLeft(Shunt, base, tokens) = s
  BY ShuntFolds
<1> HIDE DEF s
<1>5. recursive_decent(tokens) = s.out \o Reverse(s.stack)
  BY <1>4 DEF recursive_decent
<1>6. s.out \in Seq(Tokens) /\ s.stack \in Seq(Tokens)
  BY <1>3 DEF Shunting
<1>7. Reverse(s.stack) \in Seq(Tokens)
  BY <1>6, ReverseOfSeq
<1> QED
  BY <1>5, <1>6, <1>7

Evaluating == [tokens : Seq(Operands), results : Seq(SUBSET (1..key_)), ok : BOOLEAN]

IndexTyped == /\ key_ \in Nat
              /\ tempIndex_ \in [Numbers -> SUBSET (1..key_)]
              /\ humIndex_ \in [Numbers -> SUBSET (1..key_)]

LEMMA ComparedKeys ==
  ASSUME IndexTyped, NEW keyword, NEW type, NEW value
  PROVE  Compared(keyword, type, value) \in SUBSET (1..key_)
BY DEF Compared, IndexTyped

LEMMA EvaluateKeepsType ==
  ASSUME IndexTyped, NEW s \in Evaluating, NEW token \in Tokens
  PROVE  Evaluate(s, token) \in Evaluating
<1>1. s.tokens \in Seq(Operands) /\ s.results \in Seq(SUBSET (1..key_)) /\ s.ok \in BOOLEAN
  BY DEF Evaluating
<1>2. Failed(s) \in Evaluating
  BY DEF Failed, Evaluating
<1>3. resultJoin(s, token) \in Evaluating
  <2>1. CASE Len(s.results) < 2
    BY <1>2, <2>1 DEF resultJoin
  <2>2. CASE ~(Len(s.results) < 2)
    <3> DEFINE n == Len(s.results)
               r == s.results[n]
               l == s.results[n - 1]
               joined == IF token.type = "AND" THEN l \cap r ELSE l \cup r
               left == SubSeq(s.results, 1, n - 2)
    <3>1. n \in Nat /\ n >= 2 /\ n \in 1..n /\ n - 1 \in 1..n
      BY <1>1, <2>2
    <3>2. r \in SUBSET (1..key_) /\ l \in SUBSET (1..key_)
      BY <1>1, <3>1
    <3>3. joined \in SUBSET (1..key_)
      BY <3>2
    <3>4. left \in Seq(SUBSET (1..key_))
      <4>1. 1 \in 1..n + 1 /\ n - 2 \in 0..n
        BY <3>1
      <4> QED
        BY <1>1, <4>1, PieceOfSeq
    <3> HIDE DEF joined, left
    <3>5. Append(left, joined) \in Seq(SUBSET (1..key_))
      BY <3>3, <3>4
    <3>6. resultJoin(s, token) = [s EXCEPT !.results = Append(left, joined)]
      BY <2>2 DEF resultJoin, joined, left
    <3> QED
      BY <3>5, <3>6 DEF Evaluating
  <2> QED
    BY <2>1, <2>2
<1>4. queryOperator(s, token) \in Evaluating
  <2>1. CASE queryOperator(s, token) = Failed(s)
    BY <1>2, <2>1
  <2>2. CASE queryOperator(s, token) # Failed(s)
    <3> DEFINE n == Len(s.tokens)
               l == s.tokens[n]
               r == s.tokens[n - 1]
               k == IF l.type = "KEYWORD" THEN l ELSE r
               v == IF l.type = "KEYWORD" THEN r ELSE l
               found == Compared(k.value, token.type, v.value)
               left == SubSeq(s.tokens, 1, n - 2)
    <3>1. n >= 2 /\ n \in Nat
      BY <1>1, <2>2 DEF queryOperator
    <3>2. left \in Seq(Operands)
      <4>1. 1 \in 1..n + 1 /\ n - 2 \in 0..n
        BY <3>1
      <4> QED
        BY <1>1, <4>1, PieceOfSeq
    <3>3. found \in SUBSET (1..key_)
      BY ComparedKeys
    <3>4. queryOperator(s, token) = [s EXCEPT !.tokens = left, !.results = Append(@, found)]
      BY <2>2 DEF queryOperator
    <3> HIDE DEF left, found
    <3>5. Append(s.results, found) \in Seq(SUBSET (1..key_))
      BY <1>1, <3>3
    <3> QED
      BY <3>2, <3>4, <3>5 DEF Evaluating
  <2> QED
    BY <2>1, <2>2
<1>5. CASE ~s.ok
  BY <1>5 DEF Evaluate
<1>6. CASE s.ok /\ isOperand(token)
  <2>1. Append(s.tokens, token) \in Seq(Operands)
    BY <1>1, <1>6 DEF Operands
  <2>2. Evaluate(s, token) = [s EXCEPT !.tokens = Append(@, token)]
    BY <1>1, <1>6 DEF Evaluate, isOperand, Comparisons
  <2> QED
    BY <2>1, <2>2 DEF Evaluating
<1>7. CASE s.ok /\ token.type \in {"AND", "OR"}
  BY <1>1, <1>3, <1>7 DEF Evaluate, isOperand, Comparisons
<1>8. CASE s.ok /\ token.type \in Comparisons
  BY <1>4, <1>8 DEF Evaluate, isOperand, Comparisons
<1>9. CASE s.ok /\ token.type = "UNARY"
  BY <1>2, <1>9 DEF Evaluate, isOperand, Comparisons
<1> QED
  BY <1>1, <1>5, <1>6, <1>7, <1>8, <1>9 DEF Tokens, isOperand

\* A query leaves operands and sets of keys on the stacks.
LEMMA QueryTyped ==
  ASSUME IndexTyped, NEW tokens \in Seq(Tokens), NEW base \in Evaluating
  PROVE  FoldLeft(Evaluate, base, recursive_decent(tokens)) \in Evaluating
<1>1. \A r \in Evaluating, e \in Tokens : Round("query", r, e) \in Evaluating
  BY EvaluateKeepsType, Rounds
<1> QED
  BY <1>1, FoldKeeps, PostfixOfTokens, EvaluateFolds
-----------------------------------------------------------------------------
(* The invariant *)

\* Keys are given out in order, one to a city.
Keyed ==
  /\ key_ \in Nat /\ cityDB_ \in Seq(Names) /\ Len(cityDB_) = key_
  /\ Cities \subseteq Names /\ \A n \in Cities : cityObjectDB_[n] \in Climates
  /\ ToSet(cityDB_) = Cities /\ Cardinality(Cities) = key_

FileTyped ==
  file # NoFile => DOMAIN file \subseteq Names /\ \A n \in DOMAIN file : file[n] \in Climates

\* A result that a query leaves is the end of the process.
StacksTyped ==
  /\ tokenStack_ \in Seq(Operands) /\ resultStack_ \in Seq(SUBSET (1..key_))
  /\ cityAborted \in BOOLEAN /\ (~cityAborted => resultStack_ = <<>>)

IInv == Keyed /\ Exact(Indexes, Climate) /\ FileTyped /\ StacksTyped

LEMMA ClimateTyped ==
  ASSUME Keyed
  PROVE  /\ Climate \in Seq(Climates) /\ Len(Climate) = key_ /\ DOMAIN Climate = 1..key_
         /\ \A k \in 1..key_ : Climate[k] = cityObjectDB_[cityDB_[k]] /\ cityDB_[k] \in Cities
<1>1. key_ \in Nat /\ DOMAIN cityDB_ = 1..key_
  BY DEF Keyed
<1>2. \A k \in 1..key_ : cityDB_[k] \in Cities
  BY <1>1 DEF Keyed, ToSet
<1>3. \A k \in 1..key_ : cityObjectDB_[cityDB_[k]] \in Climates
  BY <1>2 DEF Keyed
<1>4. Climate \in [1..key_ -> Climates]
  BY <1>3 DEF Climate
<1> QED
  BY <1>1, <1>2, <1>4 DEF Climate

LEMMA ExactIsTyped ==
  ASSUME Keyed, Exact(Indexes, Climate)
  PROVE  /\ IndexTyped
         /\ temp_ \in Int \X Int /\ hum_ \in Int \X Int
<1>1. DOMAIN Climate = 1..key_ /\ key_ \in Nat
  BY ClimateTyped DEF Keyed
<1>2. Indexes.tempIndex = tempIndex_ /\ Indexes.humIndex = humIndex_
        /\ Indexes.temp = temp_ /\ Indexes.hum = hum_
  BY DEF Indexes
<1>3. tempIndex_ = Holding(Climate, 1) /\ humIndex_ = Holding(Climate, 2)
  BY <1>2 DEF Exact
<1>4. \A which \in 1..2 : Holding(Climate, which) \in [Numbers -> SUBSET (1..key_)]
  BY <1>1 DEF Holding
<1> QED
  BY <1>1, <1>2, <1>3, <1>4 DEF Exact, Bounding, IndexTyped

LEMMA InitInvariant == InitCity => IInv
<1> SUFFICES ASSUME InitCity PROVE IInv
  OBVIOUS
<1>1. Cities = {} /\ key_ = 0 /\ cityDB_ = <<>>
  BY DEF InitCity, Cities
<1>2. Keyed
  BY <1>1, FS_EmptySet DEF Keyed, ToSet
<1>3. Climate = <<>> /\ Indexes = NoIndexes
  BY <1>1 DEF Climate, Indexes, NoIndexes, InitCity
<1>4. FileTyped /\ StacksTyped
  <2>1. FileTyped
    BY DEF InitCity, FileTyped
  <2>2. <<>> \in Seq(Operands) /\ <<>> \in Seq(SUBSET (1..key_))
    OBVIOUS
  <2>3. tokenStack_ = <<>> /\ resultStack_ = <<>> /\ cityAborted = FALSE
    BY DEF InitCity
  <2> QED
    BY <2>1, <2>2, <2>3 DEF StacksTyped
<1> QED
  BY <1>2, <1>3, <1>4, NoIndexesExact DEF IInv

LEMMA AddCityInvariant ==
  ASSUME IInv, ~cityAborted, NEW name \in Names, NEW climate \in Climates, addCity(name, climate)
  PROVE  IInv'
<1>1. /\ key_ \in Nat /\ cityDB_ \in Seq(Names) /\ Len(cityDB_) = key_ /\ Cities \subseteq Names
      /\ ToSet(cityDB_) = Cities /\ Cardinality(Cities) = key_ /\ DOMAIN cityDB_ = 1..key_
      /\ \A n \in Cities : cityObjectDB_[n] \in Climates
  BY DEF IInv, Keyed
<1>2. /\ name \notin Cities /\ Cities' = Cities \cup {name} /\ key_' = key_ + 1
      /\ cityObjectDB_'[name] = climate
      /\ \A n \in Cities : cityObjectDB_'[n] = cityObjectDB_[n]
      /\ cityDB_' = Append(cityDB_, name)
  BY DEF addCity, Cities
<1>3. /\ cityDB_' \in Seq(Names) /\ Len(cityDB_') = key_' /\ DOMAIN cityDB_' = 1..key_ + 1
      /\ cityDB_'[key_ + 1] = name /\ \A k \in 1..key_ : cityDB_'[k] = cityDB_[k]
  BY <1>1, <1>2
<1>4. /\ key_ + 1 \in 1..key_ + 1 /\ \A k \in 1..key_ : k \in 1..key_ + 1
      /\ \A k \in 1..key_ + 1 : k \in 1..key_ \/ k = key_ + 1
  BY <1>1
<1>5. ToSet(cityDB_') = Cities'
  BY <1>1, <1>2, <1>3, <1>4 DEF ToSet
<1>6. IsFiniteSet(Cities)
  BY <1>1, CityAssumption, FS_Subset
<1>7. Cardinality(Cities') = key_'
  BY <1>1, <1>2, <1>6, FS_AddElement
<1>8. Keyed'
  BY <1>1, <1>2, <1>3, <1>5, <1>7 DEF Keyed
<1>9. Climate' = Append(Climate, climate)
  <2> DEFINE s == Append(Climate, climate)
             t == Climate'
  <2>1. /\ Climate \in Seq(Climates) /\ Len(Climate) = key_
        /\ \A k \in 1..key_ : Climate[k] = cityObjectDB_[cityDB_[k]] /\ cityDB_[k] \in Cities
    BY ClimateTyped DEF IInv
  <2>2. /\ s \in [1..key_ + 1 -> Climates] /\ s[key_ + 1] = climate
        /\ \A k \in 1..key_ : s[k] = Climate[k]
    BY <2>1, AppendFacts
  <2>3. t = [k \in 1..key_ + 1 |-> cityObjectDB_'[cityDB_'[k]]]
    BY <1>2 DEF Climate
  <2>4. \A k \in 1..key_ : cityObjectDB_'[cityDB_'[k]] = Climate[k]
    BY <1>2, <1>3, <2>1
  <2> HIDE DEF s
  <2>5. \A k \in 1..key_ + 1 : cityObjectDB_'[cityDB_'[k]] = s[k]
    BY <1>2, <1>3, <1>4, <2>2, <2>4
  <2> QED
    BY <2>2, <2>3, <2>5 DEF s
<1>10. Exact(Indexes, Climate)'
  <2> DEFINE x == indexCreate(Indexes, [key |-> key_ + 1, climate |-> climate])
  <2>1. Climate \in Seq(Climates) /\ Len(Climate) = key_ /\ Exact(Indexes, Climate)
    BY ClimateTyped DEF IInv
  <2>2. Exact(x, Append(Climate, climate))
    BY <2>1, CreateKeepsExact
  <2>3. IndexesBecome(x)
    BY DEF addCity
  <2>4. /\ Indexes'.tempIndex = x.tempIndex /\ Indexes'.humIndex = x.humIndex
        /\ Indexes'.temp = x.temp /\ Indexes'.hum = x.hum
    <3> HIDE DEF x
    <3> QED
      BY <2>3 DEF IndexesBecome, Indexes
  <2> HIDE DEF x
  <2> QED
    BY <1>9, <2>2, <2>4 DEF Exact
<1>11. FileTyped'
  BY DEF IInv, FileTyped, addCity
<1>12. StacksTyped'
  <2>1. SUBSET (1..key_) \subseteq SUBSET (1..key_')
    BY <1>2, <1>4
  <2>2. resultStack_' = <<>> /\ tokenStack_' = tokenStack_ /\ cityAborted' \in BOOLEAN
    BY DEF addCity, stacks, IInv, StacksTyped
  <2> QED
    BY <2>1, <2>2 DEF IInv, StacksTyped
<1> QED
  BY <1>8, <1>10, <1>11, <1>12 DEF IInv

LEMMA LoadInvariant ==
  ASSUME IInv, ~cityAborted, load
  PROVE  IInv'
<1>1. PICK names \in [1..Cardinality(DOMAIN file) -> DOMAIN file] :
        /\ \A i, j \in DOMAIN names : i < j => names[i] < names[j]
        /\ cityDB_' = names
        /\ key_' = Len(names)
        /\ IndexesBecome(FoldLeft(indexCreate, NoIndexes,
                         [k \in DOMAIN names |-> [key |-> k, climate |-> file[names[k]]]]))
  BY DEF load
<1>2. /\ file # NoFile /\ cityObjectDB_' = file /\ file' = file /\ cityAborted' \in BOOLEAN
      /\ tokenStack_' = tokenStack_ /\ resultStack_' = resultStack_
  BY DEF load, stacks
<1>3. DOMAIN file \in SUBSET Names /\ \A n \in DOMAIN file : file[n] \in Climates
  BY <1>2 DEF IInv, FileTyped
<1>4. /\ names \in Seq(Names) /\ Len(names) = Cardinality(DOMAIN file)
      /\ Cardinality(DOMAIN file) \in Nat /\ ToSet(names) = DOMAIN file
  BY <1>1, <1>3, Enumeration
<1>5. Keyed'
  <2>1. Cities' = DOMAIN file
    BY <1>2 DEF Cities
  <2> QED
    BY <1>1, <1>2, <1>3, <1>4, <2>1 DEF Keyed
<1>6. /\ Climate' \in Seq(Climates) /\ DOMAIN (Climate') = 1..key_'
      /\ \A k \in 1..key_' : (Climate')[k] = file[names[k]]
  <2>1. Climate' = [k \in 1..key_' |-> file[names[k]]]
    BY <1>1, <1>2 DEF Climate
  <2>2. \A k \in 1..key_' : names[k] \in DOMAIN file /\ file[names[k]] \in Climates
    BY <1>1, <1>3, <1>4
  <2>3. key_' \in Nat /\ Climate' \in [1..key_' -> Climates]
    BY <1>1, <1>4, <2>1, <2>2
  <2> QED
    BY <2>1, <2>3
<1>7. Numbered(Climate') = [k \in DOMAIN names |-> [key |-> k, climate |-> file[names[k]]]]
  <2>1. DOMAIN names = 1..key_'
    BY <1>1, <1>4
  <2> QED
    BY <1>6, <2>1 DEF Numbered
<1>8. Exact(Indexes, Climate)'
  <2> DEFINE x == FoldLeft(indexCreate, NoIndexes, Numbered(Climate'))
  <2>1. Exact(x, Climate')
    BY <1>6, LoadIsExact
  <2>2. IndexesBecome(x)
    BY <1>1, <1>7
  <2> HIDE DEF x
  <2>3. /\ Indexes'.tempIndex = x.tempIndex /\ Indexes'.humIndex = x.humIndex
        /\ Indexes'.temp = x.temp /\ Indexes'.hum = x.hum
    BY <2>2 DEF IndexesBecome, Indexes
  <2> QED
    BY <2>1, <2>3 DEF Exact
<1>9. FileTyped'
  BY <1>2 DEF IInv, FileTyped
<1>10. StacksTyped'
  <2>1. <<>> \in Seq(SUBSET (1..key_'))
    OBVIOUS
  <2> QED
    BY <1>2, <2>1 DEF IInv, StacksTyped
<1> QED
  BY <1>5, <1>8, <1>9, <1>10 DEF IInv

LEMMA ConstructInvariant ==
  ASSUME IInv, construct
  PROVE  IInv'
<1>1. /\ Cities' = {} /\ key_' = 0 /\ cityDB_' = <<>> /\ IndexesBecome(NoIndexes)
      /\ tokenStack_' = <<>> /\ resultStack_' = <<>> /\ file' = file /\ cityAborted' = cityAborted
  BY DEF construct, Cities
<1>2. Keyed'
  BY <1>1, FS_EmptySet DEF Keyed, ToSet
<1>3. Climate' = <<>>
  BY <1>1 DEF Climate
<1>4. /\ Indexes'.tempIndex = NoIndexes.tempIndex /\ Indexes'.humIndex = NoIndexes.humIndex
      /\ Indexes'.temp = NoIndexes.temp /\ Indexes'.hum = NoIndexes.hum
  BY <1>1 DEF IndexesBecome, Indexes
<1>5. Exact(Indexes, Climate)'
  BY <1>3, <1>4, NoIndexesExact DEF Exact
<1>6. FileTyped' /\ StacksTyped'
  <2>1. <<>> \in Seq(Operands) /\ <<>> \in Seq(SUBSET (1..key_'))
    OBVIOUS
  <2> QED
    BY <1>1, <2>1 DEF IInv, FileTyped, StacksTyped
<1> QED
  BY <1>2, <1>5, <1>6 DEF IInv

LEMMA QueryInvariant ==
  ASSUME IInv, NEW tokens \in Seq(Tokens), query(tokens)
  PROVE  IInv'
<1> DEFINE base == [tokens |-> tokenStack_, results |-> resultStack_, ok |-> TRUE]
           s == FoldLeft(Evaluate, base, recursive_decent(tokens))
<1>1. IndexTyped
  BY ExactIsTyped DEF IInv
<1>2. s \in Evaluating
  <2>1. base \in Evaluating
    BY DEF IInv, StacksTyped, Evaluating
  <2> HIDE DEF base
  <2> QED
    BY <1>1, <2>1, QueryTyped
<1>3. /\ tokenStack_' = s.tokens
      /\ \/ /\ s.ok /\ Len(s.results) = 1
            /\ resultStack_' = Front(s.results) /\ cityAborted' = (resultStack_' # <<>>)
         \/ resultStack_' = s.results /\ cityAborted' = TRUE
      /\ UNCHANGED <<database, file>>
  BY DEF query, Answered
<1> HIDE DEF s
<1>4. s.tokens \in Seq(Operands) /\ s.results \in Seq(SUBSET (1..key_))
  BY <1>2 DEF Evaluating
<1>5. StacksTyped'
  <2>1. key_' = key_
    BY <1>3 DEF database
  <2>2. CASE Len(s.results) = 1 /\ resultStack_' = Front(s.results) /\ cityAborted' = (resultStack_' # <<>>)
    <3>1. Front(s.results) \in Seq(SUBSET (1..key_))
      <4>1. 1 \in 1..Len(s.results) + 1 /\ Len(s.results) - 1 \in 0..Len(s.results)
        BY <2>2
      <4> QED
        BY <1>4, <4>1, PieceOfSeq DEF Front
    <3> QED
      BY <1>3, <1>4, <2>1, <2>2, <3>1 DEF StacksTyped
  <2>3. CASE resultStack_' = s.results /\ cityAborted' = TRUE
    BY <1>3, <1>4, <2>1, <2>3 DEF StacksTyped
  <2> QED
    BY <1>3, <2>2, <2>3
<1>6. Keyed' /\ FileTyped'
  BY <1>3 DEF IInv, Keyed, Cities, FileTyped, database
<1>7. Exact(Indexes, Climate)'
  <2>1. Indexes' = Indexes /\ Climate' = Climate
    BY <1>3 DEF database, Indexes, Climate
  <2> QED
    BY <2>1 DEF IInv
<1> QED
  BY <1>5, <1>6, <1>7 DEF IInv

LEMMA NextInvariant == IInv /\ [NextCity]_cityVars => IInv'
<1> SUFFICES ASSUME IInv, [NextCity]_cityVars PROVE IInv'
  OBVIOUS
<1>1. ASSUME ~cityAborted, NEW name \in Names, NEW climate \in Climates, addCity(name, climate)
      PROVE  IInv'
  BY <1>1, AddCityInvariant
<1>2. ASSUME NEW tokens \in Queries, query(tokens) PROVE IInv'
  <2>1. tokens \in Seq(Tokens)
    BY CityAssumption
  <2> QED
    BY <1>2, <2>1, QueryInvariant
<1>3. ASSUME ~cityAborted, load PROVE IInv'
  BY <1>3, LoadInvariant
<1>4. CASE construct
  BY <1>4, ConstructInvariant
<1>5. CASE save
  <2>1. /\ file' = cityObjectDB_ /\ cityAborted' = cityAborted
        /\ UNCHANGED <<cityObjectDB_, cityDB_, key_>> /\ UNCHANGED <<tempIndex_, humIndex_, temp_, hum_>>
        /\ UNCHANGED <<tokenStack_, resultStack_>>
    BY <1>5 DEF save, database, stacks
  <2>2. Keyed' /\ FileTyped' /\ StacksTyped'
    BY <2>1 DEF IInv, Keyed, Cities, FileTyped, StacksTyped
  <2>3. Indexes' = Indexes /\ Climate' = Climate
    BY <2>1 DEF Indexes, Climate
  <2> QED
    BY <2>2, <2>3 DEF IInv
<1>6. CASE UNCHANGED cityVars
  <2>1. /\ UNCHANGED <<cityObjectDB_, cityDB_, key_>> /\ UNCHANGED <<tempIndex_, humIndex_, temp_, hum_>>
        /\ UNCHANGED <<tokenStack_, resultStack_, file, cityAborted>>
    BY <1>6 DEF cityVars, database, stacks
  <2>2. Keyed' /\ FileTyped' /\ StacksTyped'
    BY <2>1 DEF IInv, Keyed, Cities, FileTyped, StacksTyped
  <2>3. Indexes' = Indexes /\ Climate' = Climate
    BY <2>1 DEF Indexes, Climate
  <2> QED
    BY <2>2, <2>3 DEF IInv
<1> QED
  BY <1>1, <1>2, <1>3, <1>4, <1>5, <1>6 DEF NextCity

LEMMA NumbersAreIntegers == Numbers \subseteq Int
BY CityAssumption DEF Numbers

\* The least and the largest of a set that has them.
LEMMA MinMaxAre ==
  ASSUME NEW S \in SUBSET Int, NEW m \in S
  PROVE  /\ (\A n \in S : m <= n) => Min(S) = m
         /\ (\A n \in S : n <= m) => Max(S) = m
<1>1. ASSUME \A n \in S : m <= n PROVE Min(S) = m
  <2>1. \A x \in S : (\A y \in S : x <= y) => x = m
    BY <1>1
  <2> QED
    BY <1>1, <2>1 DEF Min
<1>2. ASSUME \A n \in S : n <= m PROVE Max(S) = m
  <2>1. \A x \in S : (\A y \in S : x >= y) => x = m
    BY <1>2
  <2>2. \A y \in S : m >= y
    BY <1>2
  <2> QED
    BY <2>1, <2>2 DEF Max
<1> QED
  BY <1>1, <1>2

LEMMA BoundsOfCities ==
  ASSUME Keyed, Cities # {}, NEW bounds, NEW which \in 1..2, Bounding(bounds, Climate, which)
  PROVE  /\ bounds[1] = Min({cityObjectDB_[n][which][1] : n \in Cities})
         /\ bounds[2] = Max({cityObjectDB_[n][which][2] : n \in Cities})
<1> DEFINE Lows == {cityObjectDB_[n][which][1] : n \in Cities}
           Highs == {cityObjectDB_[n][which][2] : n \in Cities}
<1>1. /\ DOMAIN Climate = 1..key_ /\ Climate \in Seq(Climates)
      /\ \A k \in 1..key_ : Climate[k] = cityObjectDB_[cityDB_[k]] /\ cityDB_[k] \in Cities
  BY ClimateTyped
<1>2. \A n \in Cities : \E k \in 1..key_ : cityDB_[k] = n
  BY DEF Keyed, ToSet
<1>3. Climate # <<>>
  <2>1. 1..key_ # {} /\ DOMAIN <<>> = {}
    BY <1>2
  <2> QED
    BY <1>1, <2>1
<1>4. /\ \E k \in 1..key_ : bounds[1] = Climate[k][which][1]
      /\ \E k \in 1..key_ : bounds[2] = Climate[k][which][2]
      /\ \A k \in 1..key_ : bounds[1] <= Climate[k][which][1] /\ Climate[k][which][2] <= bounds[2]
  BY <1>1, <1>3 DEF Bounding
<1>5. Lows \in SUBSET Int /\ Highs \in SUBSET Int
  BY ClimateFacts DEF Keyed
<1>6. bounds[1] \in Lows /\ bounds[2] \in Highs
  BY <1>1, <1>4
<1>7. (\A l \in Lows : bounds[1] <= l) /\ \A h \in Highs : h <= bounds[2]
  <2>1. \A n \in Cities : bounds[1] <= cityObjectDB_[n][which][1] /\ cityObjectDB_[n][which][2] <= bounds[2]
    BY <1>1, <1>2, <1>4
  <2> QED
    BY <2>1
<1> HIDE DEF Lows, Highs
<1>8. Min(Lows) = bounds[1] /\ Max(Highs) = bounds[2]
  BY <1>5, <1>6, <1>7, MinMaxAre
<1> QED
  BY <1>8 DEF Lows, Highs

LEMMA InvariantImpliesExact == IInv => IndexExact
<1> SUFFICES ASSUME IInv PROVE IndexExact
  OBVIOUS
<1>1. /\ DOMAIN Climate = 1..key_
      /\ \A k \in 1..key_ : Climate[k] = cityObjectDB_[cityDB_[k]] /\ cityDB_[k] \in Cities
      /\ IndexTyped /\ temp_ \in Int \X Int /\ hum_ \in Int \X Int
  BY ClimateTyped, ExactIsTyped DEF IInv
<1>2. /\ tempIndex_ = Holding(Climate, 1) /\ humIndex_ = Holding(Climate, 2)
      /\ Bounding(temp_, Climate, 1) /\ Bounding(hum_, Climate, 2)
  BY DEF IInv, Exact, Indexes
<1>3. TypeOK
  <2>1. key_ \in 0..Cardinality(Names)
    <3>1. IsFiniteSet(Names) /\ Cities \in SUBSET Names /\ Cardinality(Cities) = key_ /\ key_ \in Nat
      BY CityAssumption DEF IInv, Keyed
    <3>2. key_ <= Cardinality(Names) /\ Cardinality(Names) \in Nat
      BY <3>1, FS_Subset, FS_CardinalityType
    <3> QED
      BY <3>1, <3>2
  <2>2. \A i \in DOMAIN tokenStack_ : isOperand(tokenStack_[i])
    BY DEF IInv, StacksTyped, Operands
  <2> QED
    BY <1>1, <2>1, <2>2 DEF TypeOK, IInv, Keyed, StacksTyped, IndexTyped
<1>4. ASSUME NEW n \in Numbers, NEW which \in 1..2
      PROVE  Holding(Climate, which)[n] = {k \in 1..key_ : LET r == cityObjectDB_[cityDB_[k]][which]
                                                            IN n \in r[1]..r[2] - 1}
  <2>1. n \in Int
    BY NumbersAreIntegers
  <2>2. Holding(Climate, which)[n] = {k \in 1..key_ : InRightOpen(n, cityObjectDB_[cityDB_[k]][which])}
    BY <1>1 DEF Holding
  <2>3. ASSUME NEW k \in 1..key_
        PROVE  InRightOpen(n, cityObjectDB_[cityDB_[k]][which])
                 <=> n \in cityObjectDB_[cityDB_[k]][which][1]..cityObjectDB_[cityDB_[k]][which][2] - 1
    <3>1. cityObjectDB_[cityDB_[k]] \in Climates
      BY <1>1 DEF IInv, Keyed
    <3>2. /\ cityObjectDB_[cityDB_[k]][which][1] \in Int
          /\ cityObjectDB_[cityDB_[k]][which][2] \in Int
      BY <3>1, ClimateFacts
    <3> QED
      BY <2>1, <3>2 DEF InRightOpen
  <2> QED
    BY <2>2, <2>3
<1>5. \A n \in Numbers :
        LET Keys(which) == {k \in 1..key_ : LET r == cityObjectDB_[cityDB_[k]][which]
                                             IN n \in r[1]..r[2] - 1}
        IN tempIndex_[n] = Keys(1) /\ humIndex_[n] = Keys(2)
  <2>1. 1 \in 1..2 /\ 2 \in 1..2
    OBVIOUS
  <2> QED
    BY <1>2, <1>4, <2>1
<1>6. Cities # {} =>
       /\ temp_[1] = Min({cityObjectDB_[n][1][1] : n \in Cities})
       /\ temp_[2] = Max({cityObjectDB_[n][1][2] : n \in Cities})
       /\ hum_[1] = Min({cityObjectDB_[n][2][1] : n \in Cities})
       /\ hum_[2] = Max({cityObjectDB_[n][2][2] : n \in Cities})
  <2>1. Keyed /\ 1 \in 1..2 /\ 2 \in 1..2
    BY DEF IInv
  <2> QED
    BY <1>2, <2>1, BoundsOfCities
<1> QED
  BY <1>3, <1>5, <1>6 DEF IndexExact, IInv, Keyed

\* Whatever cities are added, saved and loaded and whatever is asked in
\* between: the indexes hold the ranges of exactly the cities there are, and
\* their bounds are those of the cities.
THEOREM IndexesAreExact == SpecCity => []IndexExact
<1>1. InitCity => IInv
  BY InitInvariant
<1>2. IInv /\ [NextCity]_cityVars => IInv'
  BY NextInvariant
<1>3. IInv => IndexExact
  BY InvariantImpliesExact
<1> QED
  BY <1>1, <1>2, <1>3, PTL DEF SpecCity
-----------------------------------------------------------------------------
(* The answers: steps of the loops *)

\* The first m elements, one at a time.
LEMMA PrefixStep ==
  ASSUME NEW T, NEW s \in Seq(T), NEW m \in Nat, m < Len(s)
  PROVE  /\ SubSeq(s, 1, m) \in Seq(T) /\ s[m + 1] \in T
         /\ SubSeq(s, 1, m + 1) = Append(SubSeq(s, 1, m), s[m + 1])
<1> DEFINE r == SubSeq(s, 1, m)
           q == Append(r, s[m + 1])
           p == SubSeq(s, 1, m + 1)
<1>1. /\ r \in Seq(T) /\ Len(r) = m /\ s[m + 1] \in T /\ \A i \in 1..m : r[i] = s[i]
      /\ p \in Seq(T) /\ Len(p) = m + 1 /\ \A i \in 1..m + 1 : p[i] = s[i]
  OBVIOUS
<1> HIDE DEF r, p
<1>2. /\ q \in Seq(T) /\ Len(q) = m + 1 /\ q[m + 1] = s[m + 1]
      /\ \A i \in 1..m : q[i] = r[i]
  BY <1>1, AppendFacts
<1>3. \A i \in 1..m + 1 : q[i] = p[i]
  BY <1>1, <1>2
<1> HIDE DEF q
<1>4. q = p
  BY <1>1, <1>2, <1>3
<1> QED
  BY <1>1, <1>4 DEF r, q, p

\* What a loop has after m elements.
After(loop, base, seq, m) == Folded(loop, base, SubSeq(seq, 1, m))

LEMMA AfterStep ==
  ASSUME NEW loop, NEW base, NEW T, NEW seq \in Seq(T), NEW m \in Nat, m < Len(seq)
  PROVE  After(loop, base, seq, m + 1) = Round(loop, After(loop, base, seq, m), seq[m + 1])
<1> DEFINE r == SubSeq(seq, 1, m)
<1>1. r \in Seq(T) /\ seq[m + 1] \in T /\ SubSeq(seq, 1, m + 1) = Append(r, seq[m + 1])
  BY PrefixStep
<1> HIDE DEF r
<1>2. Folded(loop, base, Append(r, seq[m + 1])) = Round(loop, Folded(loop, base, r), seq[m + 1])
  BY <1>1, FoldOfAppend
<1> QED
  BY <1>1, <1>2 DEF After, r

LEMMA AfterNoneAndAll ==
  ASSUME NEW loop, NEW base, NEW T, NEW seq \in Seq(T)
  PROVE  /\ After(loop, base, seq, 0) = base
         /\ After(loop, base, seq, Len(seq)) = Folded(loop, base, seq)
<1>1. SubSeq(seq, 1, 0) = <<>> /\ SubSeq(seq, 1, Len(seq)) = seq
  OBVIOUS
<1> QED
  BY <1>1, FoldOfNone DEF After

\* Append, kept whole.
Push(s, x) == Append(s, x)

LEMMA PushTyped ==
  ASSUME NEW T, NEW s \in Seq(T), NEW x \in T
  PROVE  Push(s, x) \in Seq(T) /\ <<>> \in Seq(T)
BY DEF Push

\* The output takes the stack from its top.
Flush(out, s) == out \o Reverse(s)

LEMMA FlushFromTop ==
  ASSUME NEW T, NEW out \in Seq(T), NEW s \in Seq(T), NEW x \in T
  PROVE  /\ Flush(out, Push(s, x)) = Flush(Push(out, x), s)
         /\ Flush(out, <<>>) = out
         /\ Flush(out, Push(<<>>, x)) = Push(out, x)
<1> DEFINE n == Len(out)
           m == Len(s)
           r == Reverse(Append(s, x))
           u == Reverse(s)
           p == out \o r
           q == Append(out, x) \o u
<1>1. n \in Nat /\ m \in Nat
  OBVIOUS
<1>2. /\ Append(s, x) \in Seq(T) /\ Len(Append(s, x)) = m + 1 /\ Append(s, x)[m + 1] = x
      /\ \A i \in 1..m : Append(s, x)[i] = s[i]
  BY AppendFacts
<1>3. /\ r \in Seq(T) /\ Len(r) = m + 1 /\ r[1] = x
      /\ \A i \in 2..m + 1 : r[i] = s[m + 2 - i]
  <2>1. /\ r \in Seq(T) /\ Len(r) = m + 1
        /\ \A i \in 1..m + 1 : r[i] = Append(s, x)[((m + 1) - i) + 1]
    <3> DEFINE a == Append(s, x)
    <3>1. a \in Seq(T) /\ Len(a) = m + 1
      BY <1>2
    <3> HIDE DEF a, m
    <3>2. /\ Reverse(a) \in Seq(T) /\ Len(Reverse(a)) = Len(a)
          /\ \A i \in 1..Len(a) : Reverse(a)[i] = a[Len(a) - i + 1]
      BY <3>1, ReverseOfSeq
    <3> QED
      BY <3>1, <3>2 DEF a
  <2> HIDE DEF r, m
  <2>3. \A i \in 2..m + 1 : i \in 1..m + 1 /\ ((m + 1) - i) + 1 = m + 2 - i /\ m + 2 - i \in 1..m
    BY <1>1
  <2>4. 1 \in 1..m + 1 /\ ((m + 1) - 1) + 1 = m + 1
    BY <1>1
  <2>5. r[1] = x
    BY <1>2, <2>1, <2>4
  <2>6. \A i \in 2..m + 1 : r[i] = s[m + 2 - i]
    <3> SUFFICES ASSUME NEW i \in 2..m + 1 PROVE r[i] = s[m + 2 - i]
      OBVIOUS
    <3>1. r[i] = Append(s, x)[m + 2 - i]
      BY <2>1, <2>3
    <3> QED
      BY <1>2, <2>3, <3>1
  <2> QED
    BY <2>1, <2>5, <2>6
<1>4. u \in Seq(T) /\ Len(u) = m /\ \A i \in 1..m : u[i] = s[m - i + 1]
  BY ReverseOfSeq
<1> HIDE DEF r, u
<1>5. /\ Append(out, x) \in Seq(T) /\ Len(Append(out, x)) = n + 1 /\ Append(out, x)[n + 1] = x
      /\ \A i \in 1..n : Append(out, x)[i] = out[i]
  BY AppendFacts
<1>6. /\ p \in Seq(T) /\ Len(p) = n + m + 1
      /\ \A i \in 1..n + m + 1 : p[i] = IF i <= n THEN out[i] ELSE r[i - n]
  <2>1. /\ p \in Seq(T) /\ Len(p) = n + Len(r)
        /\ \A i \in 1..n + Len(r) : p[i] = IF i <= n THEN out[i] ELSE r[i - n]
    BY <1>3, ConcatProperties
  <2>2. n + Len(r) = n + m + 1
    <3> HIDE DEF n, m
    <3> QED
      BY <1>1, <1>3
  <2> HIDE DEF p, n, m
  <2> QED
    BY <2>1, <2>2
<1>7. /\ q \in Seq(T) /\ Len(q) = n + m + 1
      /\ \A i \in 1..n + m + 1 : q[i] = IF i <= n + 1 THEN Append(out, x)[i] ELSE u[i - (n + 1)]
  <2> DEFINE a == Append(out, x)
  <2>1. a \in Seq(T) /\ Len(a) = n + 1
    BY <1>5
  <2> HIDE DEF n, m, a
  <2>2. /\ a \o u \in Seq(T) /\ Len(a \o u) = Len(a) + Len(u)
        /\ \A i \in 1..Len(a) + Len(u) : (a \o u)[i] = IF i <= Len(a) THEN a[i] ELSE u[i - Len(a)]
    BY <1>4, <2>1, ConcatProperties
  <2>3. Len(a) + Len(u) = n + m + 1
    BY <1>1, <1>4, <2>1
  <2> QED
    BY <2>1, <2>2, <2>3 DEF a
<1> HIDE DEF p, q
<1>8. ASSUME NEW i \in 1..n + m + 1 PROVE p[i] = q[i]
  <2>1. CASE i <= n
    <3> HIDE DEF n, m
    <3>1. i \in 1..n /\ i <= n + 1
      BY <1>1, <2>1
    <3> QED
      BY <1>5, <1>6, <1>7, <2>1, <3>1
  <2>2. CASE i = n + 1
    BY <1>1, <1>3, <1>5, <1>6, <1>7, <2>2
  <2>3. CASE i > n + 1
    <3>1. i - n \in 2..m + 1 /\ i - (n + 1) \in 1..m /\ m + 2 - (i - n) = m - (i - (n + 1)) + 1
      BY <1>1, <2>3
    <3>2. p[i] = r[i - n] /\ q[i] = u[i - (n + 1)]
      BY <1>1, <1>6, <1>7, <2>3
    <3> QED
      BY <1>3, <1>4, <3>1, <3>2
  <2> QED
    BY <1>1, <2>1, <2>2, <2>3
<1>9. p = q
  BY <1>6, <1>7, <1>8
<1>10. out \o Reverse(<<>>) = out
  <2>1. Reverse(<<>>) = <<>>
    BY DEF Reverse
  <2> QED
    BY <2>1
<1>11. out \o Reverse(Append(<<>>, x)) = Append(out, x)
  <2> DEFINE e == Append(<<>>, x)
             o == Append(out, x)
  <2>1. e \in Seq(T) /\ Len(e) = 1 /\ e[1] = x /\ out \in Seq(T)
    OBVIOUS
  <2>2. o \in Seq(T) /\ Len(o) = n + 1 /\ o[n + 1] = x /\ (\A i \in 1..n : o[i] = out[i]) /\ Len(out) = n
    BY <1>5
  <2> HIDE DEF e, o, n
  <2>3. Reverse(e) \in Seq(T) /\ Len(Reverse(e)) = 1 /\ Reverse(e)[1] = x
    <3>1. 1 \in 1..Len(e) /\ Len(e) - 1 + 1 = 1
      BY <2>1
    <3> QED
      BY <2>1, <3>1, ReverseOfSeq
  <2>4. /\ out \o Reverse(e) \in Seq(T) /\ Len(out \o Reverse(e)) = n + 1
        /\ \A i \in 1..n + 1 : (out \o Reverse(e))[i] = IF i <= n THEN out[i] ELSE Reverse(e)[i - n]
    <3> DEFINE f == Reverse(e)
    <3>1. f \in Seq(T) /\ Len(f) = 1
      BY <2>3
    <3> HIDE DEF f
    <3>2. /\ out \o f \in Seq(T) /\ Len(out \o f) = Len(out) + Len(f)
          /\ \A i \in 1..Len(out) + Len(f) :
               (out \o f)[i] = IF i <= Len(out) THEN out[i] ELSE f[i - Len(out)]
      BY <3>1, ConcatProperties
    <3> QED
      BY <2>2, <3>1, <3>2 DEF f
  <2>5. \A i \in 1..n + 1 : (out \o Reverse(e))[i] = o[i]
    <3> SUFFICES ASSUME NEW i \in 1..n + 1 PROVE (out \o Reverse(e))[i] = o[i]
      OBVIOUS
    <3>1. CASE i <= n
      BY <1>1, <2>2, <2>4, <3>1
    <3>2. CASE i = n + 1
      <4>1. i - n = 1 /\ ~(i <= n) /\ i \in 1..n + 1
        BY <1>1, <3>2
      <4> QED
        BY <2>2, <2>3, <2>4, <3>2, <4>1
    <3>3. i <= n \/ i = n + 1
      BY <1>1
    <3> QED
      BY <3>1, <3>2, <3>3
  <2>6. out \o Reverse(e) = o
    BY <2>2, <2>4, <2>5
  <2> QED
    BY <2>6 DEF e, o
<1> QED
  BY <1>9, <1>10, <1>11 DEF p, q, r, u, Flush, Push
-----------------------------------------------------------------------------
(* The answers: rounds of the loops *)

LEMMA ShuntOperand ==
  ASSUME NEW s \in Shunting, NEW token \in Tokens, isOperand(token)
  PROVE  Shunt(s, token).out = Push(s.out, token) /\ Shunt(s, token).stack = s.stack
<1>1. Shunt(s, token) = [s EXCEPT !.out = Append(@, token)]
  BY DEF Shunt
<1> QED
  BY <1>1 DEF Shunting, Push

\* An operator leaves on the stack what binds less, which is below the rest.
LEMMA ShuntOperator ==
  ASSUME NEW s \in Shunting, NEW token \in Tokens, ~isOperand(token), token.type # "UNARY",
         NEW m \in 0..Len(s.stack),
         \A i \in 1..m : precedence(s.stack[i]) < precedence(token),
         \A i \in m + 1..Len(s.stack) : ~(precedence(s.stack[i]) < precedence(token))
  PROVE  /\ Shunt(s, token).out = s.out \o Reverse(SubSeq(s.stack, m + 1, Len(s.stack)))
         /\ Shunt(s, token).stack = Push(SubSeq(s.stack, 1, m), token)
<1> DEFINE lower == {i \in DOMAIN s.stack :
                      \/ precedence(s.stack[i]) < precedence(token)
                      \/ token.type = "UNARY" /\ precedence(s.stack[i]) = precedence(token)}
           kept == Max(lower \cup {0})
           n == Len(s.stack)
<1>1. n \in Nat /\ DOMAIN s.stack = 1..n /\ m \in Nat /\ m <= n
  BY DEF Shunting
<1>2. \A i \in 1..n : i \in 1..m \/ i \in m + 1..n
  BY <1>1
<1>3. \A i \in 1..m : i \in 1..n
  BY <1>1
<1>4. lower = 1..m
  BY <1>1, <1>2, <1>3
<1> HIDE DEF lower
<1>5. kept = m
  <2> DEFINE S == lower \cup {0}
  <2>1. m \in S /\ S \in SUBSET Int /\ \A i \in S : i <= m
    BY <1>1, <1>4
  <2> HIDE DEF S
  <2>2. Max(S) = m
    BY <2>1, MinMaxAre
  <2> QED
    BY <2>2 DEF S
<1>6. Shunt(s, token) = [out |-> s.out \o Reverse(SubSeq(s.stack, kept + 1, n)),
                         stack |-> Append(SubSeq(s.stack, 1, kept), token)]
  BY DEF Shunt, lower
<1> HIDE DEF kept, n
<1> DEFINE left == Append(SubSeq(s.stack, 1, m), token)
           out == s.out \o Reverse(SubSeq(s.stack, m + 1, n))
<1>7. Shunt(s, token) = [out |-> out, stack |-> left]
  BY <1>5, <1>6
<1> HIDE DEF left, out
<1>8. Shunt(s, token).out = out /\ Shunt(s, token).stack = left
  BY <1>7
<1> QED
  BY <1>8 DEF n, left, out, Push

\* What evaluating an output leaves.
Left(ts, rs) == [tokens |-> ts, results |-> rs, ok |-> TRUE]
Done(ts, out) == Folded("query", Left(ts, <<>>), out)

LEMMA EvaluateOperand ==
  ASSUME NEW tokens, NEW results, NEW token \in Tokens, isOperand(token)
  PROVE  Evaluate(Left(tokens, results), token) = Left(Push(tokens, token), results)
<1> DEFINE s == [tokens |-> tokens, results |-> results, ok |-> TRUE]
<1>1. s.ok /\ token.type \notin {"AND", "OR"} /\ token.type \notin Comparisons /\ token.type # "UNARY"
  BY DEF isOperand, Comparisons
<1>2. Evaluate(s, token) = [s EXCEPT !.tokens = Append(@, token)]
  BY <1>1 DEF Evaluate
<1> QED
  BY <1>2 DEF Left, Push

LEMMA EvaluateComparison ==
  ASSUME NEW T0 \in Seq(Operands), NEW results, NEW token \in Tokens,
         token.type \in Comparisons \ {"NEQ"},
         NEW k \in Operands, k.type = "KEYWORD", NEW v \in Operands, v.type = "ID"
  PROVE  Evaluate(Left(Push(Push(T0, k), v), results), token) =
           Left(T0, Push(results, Compared(k.value, token.type, v.value)))
<1> DEFINE ts == Append(Append(T0, k), v)
           s == [tokens |-> ts, results |-> results, ok |-> TRUE]
           n == Len(T0)
<1>1. /\ n \in Nat /\ ts \in Seq(Operands) /\ Len(ts) = n + 2 /\ ts[n + 1] = k /\ ts[n + 2] = v
      /\ \A i \in 1..n : ts[i] = T0[i]
  <2> DEFINE a == Append(T0, k)
  <2>1. /\ a \in Seq(Operands) /\ Len(a) = n + 1 /\ a[n + 1] = k
        /\ \A i \in 1..n : a[i] = T0[i]
    BY AppendFacts
  <2> HIDE DEF a, n
  <2>2. /\ ts \in Seq(Operands) /\ Len(ts) = Len(a) + 1 /\ ts[Len(a) + 1] = v
        /\ \A i \in 1..Len(a) : ts[i] = a[i]
    <3>1. /\ Append(a, v) \in Seq(Operands) /\ Len(Append(a, v)) = Len(a) + 1
          /\ Append(a, v)[Len(a) + 1] = v /\ \A i \in 1..Len(a) : Append(a, v)[i] = a[i]
      BY <2>1, AppendFacts
    <3> QED
      BY <3>1 DEF a
  <2>3. n \in Nat
    BY DEF n
  <2>4. n + 1 \in 1..n + 1 /\ (\A i \in 1..n : i \in 1..n + 1) /\ n + 1 + 1 = n + 2
    BY <2>3
  <2> HIDE DEF ts
  <2> QED
    BY <2>1, <2>2, <2>3, <2>4
<1> HIDE DEF ts, n
<1>2. SubSeq(ts, 1, n) = T0
  <2>1. SubSeq(ts, 1, n) \in Seq(Operands) /\ Len(SubSeq(ts, 1, n)) = n
          /\ \A i \in 1..n : SubSeq(ts, 1, n)[i] = ts[i]
    BY <1>1
  <2>2. Len(T0) = n
    BY DEF n
  <2> QED
    BY <1>1, <2>1, <2>2
<1>3. s.ok /\ ~isOperand(token) /\ token.type \notin {"AND", "OR"} /\ token.type # "UNARY"
        /\ token.type \in Comparisons /\ token.type # "NEQ"
  BY DEF isOperand, Comparisons
<1>4. Evaluate(s, token) = queryOperator(s, token)
  BY <1>3 DEF Evaluate
<1>5. /\ s.tokens = ts /\ Len(ts) - 1 = n + 1 /\ Len(ts) = n + 2 /\ Len(ts) - 2 = n /\ ~(Len(ts) < 2)
  BY <1>1
<1>6. queryOperator(s, token) = [s EXCEPT !.tokens = SubSeq(@, 1, Len(@) - 2),
                                          !.results = Append(@, Compared(k.value, token.type, v.value))]
  <2>1. ts[Len(ts)] = v /\ ts[Len(ts) - 1] = k /\ v.type # "KEYWORD" /\ {k.type, v.type} = {"KEYWORD", "ID"}
    BY <1>1, <1>5
  <2> QED
    BY <1>3, <1>5, <2>1 DEF queryOperator
<1>7. queryOperator(s, token) = [tokens |-> SubSeq(ts, 1, Len(ts) - 2),
                                 results |-> Append(results, Compared(k.value, token.type, v.value)),
                                 ok |-> TRUE]
  BY <1>6
<1> QED
  BY <1>2, <1>4, <1>5, <1>7 DEF ts, Left, Push

KeySets == SUBSET (1..key_)

Joined(token, l, r) == IF token.type = "AND" THEN l \cap r ELSE l \cup r

LEMMA EvaluateJoin ==
  ASSUME NEW ts, NEW R \in Seq(KeySets), NEW l \in KeySets, NEW r \in KeySets,
         NEW token \in Tokens, token.type \in {"AND", "OR"}
  PROVE  Evaluate(Left(ts, Push(Push(R, l), r)), token) = Left(ts, Push(R, Joined(token, l, r)))
<1> DEFINE rs == Append(Append(R, l), r)
           s == [tokens |-> ts, results |-> rs, ok |-> TRUE]
           n == Len(R)
           joined == IF token.type = "AND" THEN l \cap r ELSE l \cup r
<1>1. /\ n \in Nat /\ rs \in Seq(KeySets) /\ Len(rs) = n + 2 /\ rs[n + 1] = l /\ rs[n + 2] = r
      /\ \A i \in 1..n : rs[i] = R[i]
  OBVIOUS
<1> HIDE DEF rs, n, joined
<1>2. SubSeq(rs, 1, n) = R
  <2>1. SubSeq(rs, 1, n) \in Seq(KeySets) /\ Len(SubSeq(rs, 1, n)) = n
          /\ \A i \in 1..n : SubSeq(rs, 1, n)[i] = rs[i]
    BY <1>1
  <2>2. Len(R) = n
    BY DEF n
  <2> QED
    BY <1>1, <2>1, <2>2
<1>3. s.ok /\ ~isOperand(token) /\ token.type # "UNARY" /\ token.type \notin Comparisons
  BY DEF isOperand, Comparisons
<1>4. Evaluate(s, token) = resultJoin(s, token)
  BY <1>3 DEF Evaluate
<1>5. s.results = rs /\ Len(rs) - 1 = n + 1 /\ Len(rs) = n + 2 /\ Len(rs) - 2 = n /\ ~(Len(rs) < 2)
  BY <1>1
<1>6. rs[Len(rs)] = r /\ rs[Len(rs) - 1] = l
  BY <1>1, <1>5
<1>7. resultJoin(s, token) = [s EXCEPT !.results = Append(SubSeq(@, 1, Len(@) - 2), joined)]
  BY <1>5, <1>6 DEF resultJoin, joined
<1>8. resultJoin(s, token) = [tokens |-> ts, ok |-> TRUE,
                              results |-> Append(SubSeq(rs, 1, Len(rs) - 2), joined)]
  BY <1>7
<1>9. Evaluate(s, token) = Left(ts, Append(R, joined)) /\ s = Left(ts, rs)
  BY <1>2, <1>4, <1>5, <1>8 DEF Left
<1> HIDE DEF s
<1> QED
  BY <1>9 DEF rs, joined, Push, Joined
-----------------------------------------------------------------------------
(* The answers: what the tokens mean *)

\* The parts of a query: its comparisons and what joins them.
Comparison(tokens, d) ==
  /\ tokens[4 * d - 3] \in Operands /\ tokens[4 * d - 3].type = "KEYWORD"
  /\ tokens[4 * d - 3].value \in {"T", "H"}
  /\ tokens[4 * d - 2] \in Tokens /\ tokens[4 * d - 2].type \in Comparisons \ {"NEQ"}
  /\ tokens[4 * d - 1] \in Operands /\ tokens[4 * d - 1].type = "ID"
  /\ tokens[4 * d - 1].value \in Int

Joint(tokens, d) == tokens[4 * d] \in Tokens /\ tokens[4 * d].type \in {"AND", "OR"}

LEMMA PartsOfQuery ==
  ASSUME NEW tokens \in Seq(Tokens), WellFormed(tokens)
  PROVE  \E n \in Nat \ {0} :
           /\ n = (Len(tokens) + 1) \div 4 /\ Len(tokens) = 4 * n - 1
           /\ \A d \in 1..n : Comparison(tokens, d)
           /\ \A d \in 1..n - 1 : Joint(tokens, d)
<1> DEFINE len == Len(tokens)
           n == (len + 1) \div 4
<1>1. len \in Nat /\ len % 4 = 3 /\ DOMAIN tokens = 1..len /\ \A i \in 1..len : tokens[i] \in Tokens
  BY DEF WellFormed
<1> HIDE DEF len
<1>0. \A i \in 1..len : /\ i % 4 = 1 => tokens[i].type = "KEYWORD"
                        /\ i % 4 = 2 => tokens[i].type \in Comparisons \ {"NEQ"}
                        /\ i % 4 = 3 => tokens[i].type = "ID"
                        /\ i % 4 = 0 => tokens[i].type \in {"AND", "OR"}
  <2> SUFFICES ASSUME NEW i \in 1..len
               PROVE  /\ i % 4 = 1 => tokens[i].type = "KEYWORD"
                      /\ i % 4 = 2 => tokens[i].type \in Comparisons \ {"NEQ"}
                      /\ i % 4 = 3 => tokens[i].type = "ID"
                      /\ i % 4 = 0 => tokens[i].type \in {"AND", "OR"}
    OBVIOUS
  <2>1. (CASE i % 4 = 1 -> tokens[i].type = "KEYWORD"
           [] i % 4 = 2 -> tokens[i].type \in Comparisons \ {"NEQ"}
           [] i % 4 = 3 -> tokens[i].type = "ID"
           [] i % 4 = 0 -> tokens[i].type \in {"AND", "OR"})
    BY <1>1 DEF WellFormed
  <2> DEFINE r == i % 4
  <2>2. 1 # 2 /\ 1 # 3 /\ 1 # 0 /\ 2 # 3 /\ 2 # 0 /\ 3 # 0
    OBVIOUS
  <2> HIDE DEF r
  <2>3. (CASE r = 1 -> tokens[i].type = "KEYWORD"
           [] r = 2 -> tokens[i].type \in Comparisons \ {"NEQ"}
           [] r = 3 -> tokens[i].type = "ID"
           [] r = 0 -> tokens[i].type \in {"AND", "OR"})
    BY <2>1 DEF r
  <2>4. r = 1 => tokens[i].type = "KEYWORD"
    BY <2>2, <2>3
  <2>5. r = 2 => tokens[i].type \in Comparisons \ {"NEQ"}
    BY <2>2, <2>3
  <2>6. r = 3 => tokens[i].type = "ID"
    BY <2>2, <2>3
  <2>7. r = 0 => tokens[i].type \in {"AND", "OR"}
    BY <2>2, <2>3
  <2> QED
    BY <2>4, <2>5, <2>6, <2>7 DEF r
<1>2. n \in Nat \ {0} /\ len = 4 * n - 1
  BY <1>1
<1> HIDE DEF n
<1>3. ASSUME NEW d \in 1..n PROVE Comparison(tokens, d)
  <2>1. /\ 4 * d - 3 \in 1..len /\ (4 * d - 3) % 4 = 1
        /\ 4 * d - 2 \in 1..len /\ (4 * d - 2) % 4 = 2
        /\ 4 * d - 1 \in 1..len /\ (4 * d - 1) % 4 = 3
    BY <1>2
  <2>2. /\ tokens[4 * d - 3].type = "KEYWORD" /\ tokens[4 * d - 3] \in Tokens
        /\ tokens[4 * d - 2].type \in Comparisons \ {"NEQ"} /\ tokens[4 * d - 2] \in Tokens
        /\ tokens[4 * d - 1].type = "ID" /\ tokens[4 * d - 1] \in Tokens
    BY <1>0, <1>1, <2>1
  <2>3. \A t \in Tokens : /\ t.type = "KEYWORD" => t.value \in {"T", "H"}
                          /\ t.type = "ID" => t.value \in Int
    BY DEF Tokens, Comparisons
  <2> QED
    BY <2>2, <2>3 DEF Comparison, Operands, isOperand
<1>4. ASSUME NEW d \in 1..n - 1 PROVE Joint(tokens, d)
  <2>1. 4 * d \in 1..len /\ (4 * d) % 4 = 0
    BY <1>2
  <2> QED
    BY <1>0, <1>1, <2>1 DEF Joint
<1> QED
  BY <1>2, <1>3, <1>4 DEF n, len

\* The keys of the cities that meet the d-th comparison.
Meeting(tokens, d) ==
  {k \in 1..key_ : Holds(cityDB_[k], tokens[4 * d - 3].value, tokens[4 * d - 2].type,
                         tokens[4 * d - 1].value)}

\* No || between two comparisons.
Together(tokens, c, d) == \A e \in c..d - 1 : tokens[4 * e].type = "AND"

Start(tokens, c) == c = 1 \/ tokens[4 * (c - 1)].type = "OR"

\* The keys that meet every comparison of the alternative of the d-th, up to it,
\* and those that meet every comparison of an alternative before.
MeetingLast(tokens, d) ==
  {k \in 1..key_ : \A x \in 1..d : Together(tokens, x, d) => k \in Meeting(tokens, x)}

MeetingEarlier(tokens, d) ==
  {k \in 1..key_ : \E c \in 1..d :
     /\ Start(tokens, c) /\ ~Together(tokens, c, d)
     /\ \A x \in c..d : Together(tokens, c, x) => k \in Meeting(tokens, x)}

LEMMA FirstMeeting ==
  ASSUME NEW tokens
  PROVE  MeetingLast(tokens, 1) = Meeting(tokens, 1) /\ MeetingEarlier(tokens, 1) = {}
<1>1. 1..1 = {1} /\ Together(tokens, 1, 1)
  BY DEF Together
<1>2. MeetingLast(tokens, 1) = Meeting(tokens, 1)
  BY <1>1 DEF MeetingLast, Meeting
<1> QED
  BY <1>1, <1>2 DEF MeetingEarlier

LEMMA TogetherFacts ==
  ASSUME NEW tokens, NEW d \in Nat, NEW c \in 1..d
  PROVE  /\ Together(tokens, d, d)
         /\ Together(tokens, c, d + 1) <=> Together(tokens, c, d) /\ tokens[4 * d].type = "AND"
         /\ \A x \in c..d : Together(tokens, c, d) <=> Together(tokens, c, x) /\ Together(tokens, x, d)
<1>1. \A e : e \in c..d + 1 - 1 <=> e \in c..d - 1 \/ e = d
  OBVIOUS
<1>2. ASSUME NEW x \in c..d
      PROVE  \A e : e \in c..d - 1 <=> e \in c..x - 1 \/ e \in x..d - 1
  OBVIOUS
<1>3. \A e : e \notin d..d - 1
  OBVIOUS
<1> QED
  BY <1>1, <1>2, <1>3 DEF Together

\* With && the alternative goes on.
LEMMA MeetingWithAnd ==
  ASSUME NEW tokens, NEW d \in Nat \ {0}, tokens[4 * d].type = "AND"
  PROVE  /\ MeetingLast(tokens, d + 1) = MeetingLast(tokens, d) \cap Meeting(tokens, d + 1)
         /\ MeetingEarlier(tokens, d + 1) = MeetingEarlier(tokens, d)
<1>1. /\ \A x \in 1..d : Together(tokens, x, d + 1) <=> Together(tokens, x, d)
      /\ Together(tokens, d + 1, d + 1)
  <2>1. \A e : e \notin d + 1..d + 1 - 1
    OBVIOUS
  <2>2. Together(tokens, d + 1, d + 1)
    BY <2>1 DEF Together
  <2> QED
    BY <2>2, TogetherFacts
<1>2. \A x : x \in 1..d + 1 <=> x \in 1..d \/ x = d + 1
  OBVIOUS
<1>3. MeetingLast(tokens, d + 1) = MeetingLast(tokens, d) \cap Meeting(tokens, d + 1)
  BY <1>1, <1>2 DEF MeetingLast, Meeting
<1>4. ASSUME NEW k \in 1..key_, NEW c \in 1..d + 1, ~Together(tokens, c, d + 1)
      PROVE  /\ c \in 1..d /\ ~Together(tokens, c, d)
             /\ (\A x \in c..d + 1 : Together(tokens, c, x) => k \in Meeting(tokens, x))
                  <=> \A x \in c..d : Together(tokens, c, x) => k \in Meeting(tokens, x)
  <2>1. c \in 1..d /\ ~Together(tokens, c, d)
    BY <1>1, <1>2, <1>4
  <2>2. \A x : x \in c..d + 1 <=> x \in c..d \/ x = d + 1
    BY <2>1
  <2> QED
    BY <1>4, <2>1, <2>2
<1>5. \A c \in 1..d : c \in 1..d + 1 /\ (~Together(tokens, c, d) => ~Together(tokens, c, d + 1))
  BY <1>1, <1>2
<1>6. MeetingEarlier(tokens, d + 1) = MeetingEarlier(tokens, d)
  BY <1>4, <1>5 DEF MeetingEarlier
<1> QED
  BY <1>3, <1>6

\* The alternative of a comparison has a start.
LEMMA StartOf ==
  ASSUME NEW tokens, NEW d \in Nat \ {0},
         \A e \in 1..d - 1 : tokens[4 * e].type \in {"AND", "OR"}
  PROVE  \E c \in 1..d : Start(tokens, c) /\ Together(tokens, c, d)
<1> DEFINE S == {c \in 1..d : Together(tokens, c, d)}
<1>1. d \in S /\ S \in SUBSET Nat
  <2>1. d \in 1..d
    OBVIOUS
  <2> QED
    BY <2>1, TogetherFacts
<1>2. PICK c \in S : \A x \in S : c <= x
  <2> HIDE DEF S
  <2> QED
    BY <1>1, LeastElement
<1>3. Start(tokens, c)
  <2> SUFFICES ASSUME c # 1, tokens[4 * (c - 1)].type # "OR" PROVE FALSE
    BY DEF Start
  <2>1. c - 1 \in 1..d - 1 /\ c - 1 \in 1..d
    OBVIOUS
  <2>2. tokens[4 * (c - 1)].type = "AND"
    BY <2>1
  <2>3. \A e \in c - 1..d - 1 : e = c - 1 \/ e \in c..d - 1
    OBVIOUS
  <2>4. Together(tokens, c - 1, d)
    BY <2>2, <2>3 DEF Together
  <2> QED
    BY <1>2, <2>1, <2>4
<1> QED
  BY <1>3

\* A key meets an alternative when it meets its comparisons from the start.
LEMMA MeetingFromStart ==
  ASSUME NEW tokens, NEW d \in Nat \ {0}, NEW c \in 1..d,
         Start(tokens, c), Together(tokens, c, d), NEW k \in 1..key_
  PROVE  k \in MeetingLast(tokens, d)
           <=> \A x \in c..d : Together(tokens, c, x) => k \in Meeting(tokens, x)
<1>1. ASSUME NEW x \in 1..d, Together(tokens, x, d) PROVE x \in c..d /\ Together(tokens, c, x)
  <2>1. x >= c
    <3> SUFFICES ASSUME x < c PROVE FALSE
      OBVIOUS
    <3>1. c # 1 /\ c - 1 \in x..d - 1
      OBVIOUS
    <3> QED
      BY <1>1, <3>1 DEF Start, Together
  <2>2. x \in c..d
    BY <2>1
  <2>3. Together(tokens, c, d) <=> Together(tokens, c, x) /\ Together(tokens, x, d)
    BY <2>2, TogetherFacts
  <2> QED
    BY <2>2, <2>3
<1>2. ASSUME NEW x \in c..d PROVE x \in 1..d /\ Together(tokens, x, d)
  BY TogetherFacts
<1> QED
  BY <1>1, <1>2 DEF MeetingLast

MeetingSome(tokens, d) ==
  {k \in 1..key_ : \E c \in 1..d :
     Start(tokens, c) /\ \A x \in c..d : Together(tokens, c, x) => k \in Meeting(tokens, x)}

LEMMA MeetingEarlierOrLast ==
  ASSUME NEW tokens, NEW d \in Nat \ {0},
         \A e \in 1..d - 1 : tokens[4 * e].type \in {"AND", "OR"}
  PROVE  MeetingEarlier(tokens, d) \cup MeetingLast(tokens, d) = MeetingSome(tokens, d)
<1> DEFINE Meets(k, c) == \A x \in c..d : Together(tokens, c, x) => k \in Meeting(tokens, x)
<1>1. MeetingEarlier(tokens, d) =
        {k \in 1..key_ : \E c \in 1..d : Start(tokens, c) /\ ~Together(tokens, c, d) /\ Meets(k, c)}
  BY DEF MeetingEarlier
<1>2. MeetingLast(tokens, d) =
        {k \in 1..key_ : \E c \in 1..d : Start(tokens, c) /\ Together(tokens, c, d) /\ Meets(k, c)}
  <2>1. \A k \in 1..key_, c \in 1..d : Start(tokens, c) /\ Together(tokens, c, d) =>
          (k \in MeetingLast(tokens, d) <=> Meets(k, c))
    BY MeetingFromStart
  <2>2. PICK c \in 1..d : Start(tokens, c) /\ Together(tokens, c, d)
    BY StartOf
  <2>3. MeetingLast(tokens, d) \subseteq 1..key_
    BY DEF MeetingLast
  <2> HIDE DEF Meets
  <2> QED
    BY <2>1, <2>2, <2>3
<1>3. MeetingSome(tokens, d) = {k \in 1..key_ : \E c \in 1..d : Start(tokens, c) /\ Meets(k, c)}
  BY DEF MeetingSome
<1> HIDE DEF Meets
<1> QED
  BY <1>1, <1>2, <1>3

\* With || the next alternative starts.
LEMMA MeetingWithOr ==
  ASSUME NEW tokens, NEW d \in Nat \ {0}, tokens[4 * d].type = "OR",
         \A e \in 1..d - 1 : tokens[4 * e].type \in {"AND", "OR"}
  PROVE  /\ MeetingLast(tokens, d + 1) = Meeting(tokens, d + 1)
         /\ MeetingEarlier(tokens, d + 1) = MeetingEarlier(tokens, d) \cup MeetingLast(tokens, d)
<1>1. /\ \A x \in 1..d : ~Together(tokens, x, d + 1)
      /\ Together(tokens, d + 1, d + 1)
  <2>1. \A e : e \notin d + 1..d + 1 - 1
    OBVIOUS
  <2>2. Together(tokens, d + 1, d + 1)
    BY <2>1 DEF Together
  <2> QED
    BY <2>2, TogetherFacts
<1>2. \A x : x \in 1..d + 1 <=> x \in 1..d \/ x = d + 1
  OBVIOUS
<1>3. MeetingLast(tokens, d + 1) = Meeting(tokens, d + 1)
  BY <1>1, <1>2 DEF MeetingLast, Meeting
<1>4. ASSUME NEW k \in 1..key_, NEW c \in 1..d
      PROVE  (\A x \in c..d + 1 : Together(tokens, c, x) => k \in Meeting(tokens, x))
               <=> \A x \in c..d : Together(tokens, c, x) => k \in Meeting(tokens, x)
  <2>1. \A x : x \in c..d + 1 <=> x \in c..d \/ x = d + 1
    OBVIOUS
  <2> QED
    BY <1>1, <2>1
<1>5. MeetingEarlier(tokens, d + 1) = MeetingSome(tokens, d)
  BY <1>1, <1>2, <1>4 DEF MeetingEarlier, MeetingSome
<1> QED
  BY <1>3, <1>5, MeetingEarlierOrLast

\* The end of an alternative is the last comparison together with its start.
LEMMA EndOfAlternative ==
  ASSUME NEW tokens, NEW n \in Nat \ {0}, NEW c \in 1..n, NEW x \in c..n,
         \A e \in 1..n - 1 : tokens[4 * e].type \in {"AND", "OR"}
  PROVE  x <= Min({e \in c..n : e = n \/ tokens[4 * e].type = "OR"}) <=> Together(tokens, c, x)
<1> DEFINE S == {e \in c..n : e = n \/ tokens[4 * e].type = "OR"}
<1>1. S \in SUBSET Nat /\ n \in S
  OBVIOUS
<1>2. PICK m \in S : \A e \in S : m <= e
  <2> HIDE DEF S
  <2> QED
    BY <1>1, LeastElement
<1>3. Min(S) = m
  <2>1. S \in SUBSET Int
    OBVIOUS
  <2> HIDE DEF S
  <2> QED
    BY <1>2, <2>1, MinMaxAre
<1>4. m \in c..n
  OBVIOUS
<1>5. ASSUME x <= m PROVE Together(tokens, c, x)
  <2> SUFFICES ASSUME NEW e \in c..x - 1 PROVE tokens[4 * e].type = "AND"
    BY DEF Together
  <2>1. e \in c..n /\ e < m /\ e \in 1..n - 1
    BY <1>4, <1>5
  <2>2. e \notin S
    <3> HIDE DEF S
    <3> QED
      BY <1>2, <1>4, <2>1
  <2> QED
    BY <2>1, <2>2
<1>6. ASSUME Together(tokens, c, x), ~(x <= m) PROVE FALSE
  <2>1. m \in c..x - 1 /\ m # n
    BY <1>4, <1>6
  <2> QED
    BY <1>6, <2>1 DEF Together
<1> QED
  BY <1>3, <1>5, <1>6

\* These are the cities that the query means.
LEMMA MeetingIsMeant ==
  ASSUME NEW tokens \in Seq(Tokens), WellFormed(tokens),
         NEW n \in Nat \ {0}, n = (Len(tokens) + 1) \div 4,
         \A e \in 1..n - 1 : tokens[4 * e].type \in {"AND", "OR"}
  PROVE  MeetingSome(tokens, n) = {k \in 1..key_ : Means(tokens, cityDB_[k])}
<1> DEFINE EndOf(c) == Min({e \in c..n : e = n \/ tokens[4 * e].type = "OR"})
           H(city, d) == Holds(city, tokens[4 * d - 3].value, tokens[4 * d - 2].type,
                               tokens[4 * d - 1].value)
<1>1. \A c \in 1..n : \A x \in c..n : x <= EndOf(c) <=> Together(tokens, c, x)
  BY EndOfAlternative
<1>2. \A c \in 1..n : EndOf(c) \in c..n
  <2> SUFFICES ASSUME NEW c \in 1..n PROVE EndOf(c) \in c..n
    OBVIOUS
  <2> DEFINE S == {e \in c..n : e = n \/ tokens[4 * e].type = "OR"}
  <2>1. S \in SUBSET Nat /\ n \in S /\ S \in SUBSET Int
    OBVIOUS
  <2>2. PICK m \in S : \A e \in S : m <= e
    <3> HIDE DEF S
    <3> QED
      BY <2>1, LeastElement
  <2>3. Min(S) = m
    <3> HIDE DEF S
    <3> QED
      BY <2>1, <2>2, MinMaxAre
  <2> QED
    BY <2>3
<1>3. \A city : Means(tokens, city) <=>
        \E c \in {e \in 1..n : e = 1 \/ tokens[4 * (e - 1)].type = "OR"} :
          \A d \in c..EndOf(c) : H(city, d)
  BY DEF Means
<1> HIDE DEF EndOf, H
<1>4. \A c \in 1..n : \A x : x \in c..EndOf(c) <=> x \in c..n /\ Together(tokens, c, x)
  <2> SUFFICES ASSUME NEW c \in 1..n, NEW x PROVE x \in c..EndOf(c) <=> x \in c..n /\ Together(tokens, c, x)
    OBVIOUS
  <2>1. EndOf(c) \in c..n
    BY <1>2
  <2>2. x \in c..EndOf(c) <=> x \in c..n /\ x <= EndOf(c)
    BY <2>1
  <2> QED
    BY <1>1, <2>2
<1>5. \A k \in 1..key_ : \A x : k \in Meeting(tokens, x) <=> H(cityDB_[k], x)
  BY DEF Meeting, H
<1>6. \A k \in 1..key_ : Means(tokens, cityDB_[k]) <=>
        \E c \in 1..n : /\ Start(tokens, c)
                        /\ \A x \in c..n : Together(tokens, c, x) => k \in Meeting(tokens, x)
  BY <1>3, <1>4, <1>5 DEF Start
<1> QED
  BY <1>6 DEF MeetingSome

\* The window of a comparison cuts the range of a city where some number of
\* the range compares so.
LEMMA WindowMeets ==
  ASSUME NEW climates \in Seq(Climates), NEW which \in 1..2, NEW bounds,
         Bounding(bounds, climates, which), NEW value \in Int,
         NEW type \in Comparisons \ {"NEQ"}, NEW k \in DOMAIN climates
  PROVE  (\E n \in Numbers : /\ InRightOpen(n, Window(type, value, bounds))
                             /\ InRightOpen(n, climates[k][which]))
           <=> \E n \in climates[k][which][1]..climates[k][which][2] - 1 :
                 CASE type = "EQ" -> n = value
                   [] type = "LT" -> n < value
                   [] type = "LE" -> n <= value
                   [] type = "GT" -> n >= value
                   [] type = "GE" -> n > value
<1> DEFINE r == climates[k][which]
           w == Window(type, value, bounds)
           Compares(n) == CASE type = "EQ" -> n = value
                            [] type = "LT" -> n < value
                            [] type = "LE" -> n <= value
                            [] type = "GT" -> n >= value
                            [] type = "GE" -> n > value
<1>1. climates[k] \in Climates
  OBVIOUS
<1>2. r \in Ranges /\ r[1] \in Int /\ r[2] \in Int
  BY <1>1, ClimateFacts
<1>3. bounds[1] \in Int /\ bounds[2] \in Int /\ bounds[1] <= r[1] /\ r[2] <= bounds[2]
  BY DEF Bounding
<1> HIDE DEF r
<1>4. \A n \in r[1]..r[2] - 1 : n \in Int /\ n \in Numbers /\ InRightOpen(n, r)
  BY <1>2 DEF Numbers, InRightOpen
<1>5. \A n \in Numbers : InRightOpen(n, r) => n \in Int /\ n \in r[1]..r[2] - 1
  BY <1>2, NumbersAreIntegers DEF InRightOpen
<1>6. ASSUME NEW n \in Int, InRightOpen(n, r) PROVE InRightOpen(n, w) <=> Compares(n)
  <2>1. bounds[1] <= n /\ n < bounds[2]
    BY <1>2, <1>3, <1>6 DEF InRightOpen
  <2>2. CASE type = "EQ"
    BY <2>1, <2>2 DEF InRightOpen, Window
  <2>3. CASE type = "LT"
    BY <1>3, <2>1, <2>3 DEF InRightOpen, Window
  <2>4. CASE type = "LE"
    BY <1>3, <2>1, <2>4 DEF InRightOpen, Window
  <2>5. CASE type = "GT"
    BY <1>3, <2>1, <2>5 DEF InRightOpen, Window
  <2>6. CASE type = "GE"
    BY <1>3, <2>1, <2>6 DEF InRightOpen, Window
  <2> QED
    BY <2>2, <2>3, <2>4, <2>5, <2>6 DEF Comparisons
<1> HIDE DEF w, Compares
<1>7. (\E n \in Numbers : InRightOpen(n, w) /\ InRightOpen(n, r)) <=> \E n \in r[1]..r[2] - 1 : Compares(n)
  BY <1>4, <1>5, <1>6
<1> QED
  BY <1>7 DEF r, w, Compares

\* What a comparison finds in its index.
LEMMA ComparedMeets ==
  ASSUME Keyed, Exact(Indexes, Climate), NEW tokens, NEW d, Comparison(tokens, d)
  PROVE  Compared(tokens[4 * d - 3].value, tokens[4 * d - 2].type, tokens[4 * d - 1].value)
           = Meeting(tokens, d)
<1> DEFINE keyword == tokens[4 * d - 3].value
           type == tokens[4 * d - 2].type
           value == tokens[4 * d - 1].value
           which == IF keyword = "T" THEN 1 ELSE 2
           idx == IF keyword = "T" THEN tempIndex_ ELSE humIndex_
           bounds == IF keyword = "T" THEN temp_ ELSE hum_
           w == Window(type, value, bounds)
<1>1. keyword \in {"T", "H"} /\ type \in Comparisons \ {"NEQ"} /\ value \in Int
  BY DEF Comparison
<1>2. /\ Climate \in Seq(Climates) /\ DOMAIN Climate = 1..key_
      /\ \A k \in 1..key_ : Climate[k] = cityObjectDB_[cityDB_[k]]
  BY ClimateTyped
<1> HIDE DEF keyword, type, value
<1>3. which \in 1..2 /\ idx = Holding(Climate, which) /\ Bounding(bounds, Climate, which)
  BY <1>1 DEF Exact, Indexes
<1>4. Compared(keyword, type, value) = UNION {idx[n] : n \in {m \in Numbers : InRightOpen(m, w)}}
  BY DEF Compared
<1>5. ASSUME NEW n \in Numbers PROVE idx[n] = {k \in 1..key_ : InRightOpen(n, Climate[k][which])}
  BY <1>2, <1>3 DEF Holding
<1> HIDE DEF which, idx, bounds, w
<1>6. Compared(keyword, type, value) =
        {k \in 1..key_ : \E n \in Numbers : InRightOpen(n, w) /\ InRightOpen(n, Climate[k][which])}
  BY <1>4, <1>5
<1>7. ASSUME NEW k \in 1..key_
      PROVE  (\E n \in Numbers : InRightOpen(n, w) /\ InRightOpen(n, Climate[k][which]))
               <=> Holds(cityDB_[k], keyword, type, value)
  <2>1. Climate[k][which] = cityObjectDB_[cityDB_[k]][IF keyword = "T" THEN 1 ELSE 2]
    BY <1>2 DEF which
  <2>2. Holds(cityDB_[k], keyword, type, value) <=>
          \E n \in Climate[k][which][1]..Climate[k][which][2] - 1 :
            CASE type = "EQ" -> n = value
              [] type = "LT" -> n < value
              [] type = "LE" -> n <= value
              [] type = "GT" -> n >= value
              [] type = "GE" -> n > value
    BY <2>1 DEF Holds
  <2>3. (\E n \in Numbers : InRightOpen(n, w) /\ InRightOpen(n, Climate[k][which])) <=>
          \E n \in Climate[k][which][1]..Climate[k][which][2] - 1 :
            CASE type = "EQ" -> n = value
              [] type = "LT" -> n < value
              [] type = "LE" -> n <= value
              [] type = "GT" -> n >= value
              [] type = "GE" -> n > value
    BY <1>1, <1>2, <1>3, WindowMeets DEF w
  <2> QED
    BY <2>2, <2>3
<1>8. Meeting(tokens, d) = {k \in 1..key_ : Holds(cityDB_[k], keyword, type, value)}
  BY DEF Meeting, keyword, type, value
<1>9. Compared(keyword, type, value) = Meeting(tokens, d)
  BY <1>6, <1>7, <1>8
<1> QED
  BY <1>9 DEF keyword, type, value
-----------------------------------------------------------------------------
(* The answers: the stacks between two comparisons *)

Shunted(tokens, m) == After("recursive_decent", [out |-> <<>>, stack |-> <<>>], tokens, m)

LEMMA DoneStep ==
  ASSUME NEW ts, NEW out \in Seq(Tokens), NEW token \in Tokens
  PROVE  /\ Done(ts, Push(out, token)) = Evaluate(Done(ts, out), token)
         /\ Done(ts, <<>>) = Left(ts, <<>>)
BY FoldOfAppend, FoldOfNone, Rounds DEF Done, Push

LEMMA ShuntedStep ==
  ASSUME NEW tokens \in Seq(Tokens), NEW m \in Nat, m < Len(tokens)
  PROVE  /\ Shunted(tokens, m) \in Shunting /\ tokens[m + 1] \in Tokens
         /\ Shunted(tokens, m + 1) = Shunt(Shunted(tokens, m), tokens[m + 1])
<1> DEFINE base == [out |-> <<>>, stack |-> <<>>]
<1>1. base \in Shunting
  BY DEF Shunting
<1>2. \A r \in Shunting, e \in Tokens : Round("recursive_decent", r, e) \in Shunting
  BY ShuntKeepsType, Rounds
<1>3. SubSeq(tokens, 1, m) \in Seq(Tokens) /\ tokens[m + 1] \in Tokens
  BY PrefixStep
<1> HIDE DEF base
<1>4. Folded("recursive_decent", base, SubSeq(tokens, 1, m)) \in Shunting
  BY <1>1, <1>2, <1>3, FoldKeeps
<1>5. After("recursive_decent", base, tokens, m + 1)
        = Round("recursive_decent", After("recursive_decent", base, tokens, m), tokens[m + 1])
  BY AfterStep
<1> QED
  BY <1>3, <1>4, <1>5, Rounds DEF Shunted, After, base

LEMMA PrecedenceOf ==
  ASSUME NEW token \in Tokens
  PROVE  /\ token.type = "OR" => precedence(token) = 1
         /\ token.type = "AND" => precedence(token) = 2
         /\ token.type \in Comparisons => precedence(token) \in {3, 4}
<1>1. ASSUME token.type = "OR" PROVE precedence(token) = 1
  BY <1>1 DEF precedence, Comparisons
<1>2. ASSUME token.type = "AND" PROVE precedence(token) = 2
  BY <1>2 DEF precedence, Comparisons
<1>3. ASSUME token.type \in {"EQ", "NEQ"} PROVE precedence(token) = 3
  BY <1>3 DEF precedence
<1>4. ASSUME token.type \in Comparisons \ {"EQ", "NEQ"} PROVE precedence(token) = 4
  BY <1>4 DEF precedence, Comparisons
<1> QED
  BY <1>1, <1>2, <1>3, <1>4

\* B is what waits on the stack for the end of the query and P its result:
\* || and the keys of the alternatives before, when there are any.
WaitsForEnd(tokens, d, B, P) ==
  \/ B = <<>> /\ P = <<>> /\ MeetingEarlier(tokens, d) = {}
  \/ /\ \E o \in Tokens : o.type = "OR" /\ B = Push(<<>>, o)
     /\ P = Push(<<>>, MeetingEarlier(tokens, d))

\* W is what waits for the d-th comparison and Q its results: that, and && with
\* the keys of this alternative, unless the comparison is its first.
WaitsForComparison(tokens, d, B, P, W, Q) ==
  \/ W = B /\ Q = P /\ MeetingLast(tokens, d) = Meeting(tokens, d)
  \/ \E a \in Tokens, M \in KeySets :
       /\ a.type = "AND" /\ W = Push(B, a) /\ Q = Push(P, M)
       /\ MeetingLast(tokens, d) = M \cap Meeting(tokens, d)

\* After the d-th comparison: it is on the stack itself, its operands are out.
AtComparison(ts, tokens, d) ==
  \E B, W \in Seq(Tokens), P, Q \in Seq(KeySets) :
    /\ WaitsForEnd(tokens, d, B, P) /\ WaitsForComparison(tokens, d, B, P, W, Q)
    /\ Shunted(tokens, 4 * d - 1).stack = Push(W, tokens[4 * d - 2])
    /\ Done(ts, Shunted(tokens, 4 * d - 1).out) =
         Left(Push(Push(ts, tokens[4 * d - 3]), tokens[4 * d - 1]), Q)

LEMMA MeetingTyped ==
  ASSUME NEW tokens, NEW d
  PROVE  /\ Meeting(tokens, d) \in KeySets /\ MeetingLast(tokens, d) \in KeySets
         /\ MeetingEarlier(tokens, d) \in KeySets
BY DEF Meeting, MeetingLast, MeetingEarlier, KeySets

\* The next comparison.
LEMMA ComparisonIsRead ==
  ASSUME NEW tokens \in Seq(Tokens), NEW d \in Nat \ {0}, 4 * d - 1 <= Len(tokens),
         Comparison(tokens, d), NEW ts \in Seq(Operands),
         NEW W \in Seq(Tokens), NEW Q \in Seq(KeySets),
         \A i \in 1..Len(W) : W[i].type \in {"AND", "OR"},
         Shunted(tokens, 4 * d - 4).stack = W,
         Done(ts, Shunted(tokens, 4 * d - 4).out) = Left(ts, Q)
  PROVE  /\ Shunted(tokens, 4 * d - 1).stack = Push(W, tokens[4 * d - 2])
         /\ Done(ts, Shunted(tokens, 4 * d - 1).out) =
              Left(Push(Push(ts, tokens[4 * d - 3]), tokens[4 * d - 1]), Q)
<1> DEFINE m == 4 * d - 4
           s0 == Shunted(tokens, m)
           s1 == Shunted(tokens, m + 1)
           s2 == Shunted(tokens, m + 2)
           s3 == Shunted(tokens, m + 3)
           k == tokens[m + 1]
           c == tokens[m + 2]
           v == tokens[m + 3]
<1>1. /\ m \in Nat /\ m + 1 = 4 * d - 3 /\ m + 2 = 4 * d - 2 /\ m + 3 = 4 * d - 1
      /\ m < Len(tokens) /\ m + 1 < Len(tokens) /\ m + 2 < Len(tokens)
      /\ m + 1 + 1 = m + 2 /\ m + 2 + 1 = m + 3 /\ m + 1 \in Nat /\ m + 2 \in Nat
  OBVIOUS
<1>2. /\ k \in Tokens /\ isOperand(k) /\ v \in Tokens /\ isOperand(v)
      /\ c \in Tokens /\ ~isOperand(c) /\ c.type # "UNARY" /\ c.type \in Comparisons
  BY <1>1 DEF Comparison, Operands, isOperand, Comparisons
<1>3. s0.stack = W /\ Done(ts, s0.out) = Left(ts, Q)
  OBVIOUS
<1> HIDE DEF m
<1>4. s0 \in Shunting /\ s1 = Shunt(s0, k)
  BY <1>1, ShuntedStep
<1>5. s1 \in Shunting /\ s2 = Shunt(s1, c)
  <2>1. Shunted(tokens, m + 1) \in Shunting
          /\ Shunted(tokens, m + 1 + 1) = Shunt(Shunted(tokens, m + 1), tokens[m + 1 + 1])
    BY <1>1, ShuntedStep
  <2> QED
    BY <1>1, <2>1
<1>6. s2 \in Shunting /\ s3 = Shunt(s2, v)
  <2>1. Shunted(tokens, m + 2) \in Shunting
          /\ Shunted(tokens, m + 2 + 1) = Shunt(Shunted(tokens, m + 2), tokens[m + 2 + 1])
    BY <1>1, ShuntedStep
  <2> QED
    BY <1>1, <2>1
<1> HIDE DEF s0, s1, s2, s3, k, c, v
<1>7. s1.out = Push(s0.out, k) /\ s1.stack = W
  BY <1>2, <1>3, <1>4, ShuntOperand
<1>8. s2.out = s1.out /\ s2.stack = Push(W, c)
  <2>1. Len(W) \in 0..Len(s1.stack) /\ Len(W) \in Nat
    BY <1>7
  <2>2. \A i \in 1..Len(W) : precedence(s1.stack[i]) < precedence(c)
    <3> SUFFICES ASSUME NEW i \in 1..Len(W) PROVE precedence(s1.stack[i]) < precedence(c)
      OBVIOUS
    <3>1. W[i] \in Tokens /\ W[i].type \in {"AND", "OR"}
      OBVIOUS
    <3>2. precedence(W[i]) \in {1, 2} /\ precedence(c) \in {3, 4}
      BY <1>2, <3>1, PrecedenceOf
    <3> QED
      BY <1>7, <3>2
  <2>3. \A i \in Len(W) + 1..Len(s1.stack) : ~(precedence(s1.stack[i]) < precedence(c))
    BY <1>7, <2>1
  <2>4. /\ s2.out = s1.out \o Reverse(SubSeq(s1.stack, Len(W) + 1, Len(s1.stack)))
        /\ s2.stack = Push(SubSeq(s1.stack, 1, Len(W)), c)
    BY <1>2, <1>5, <2>1, <2>2, <2>3, ShuntOperator
  <2>5. SubSeq(W, Len(W) + 1, Len(W)) = <<>> /\ SubSeq(W, 1, Len(W)) = W
    OBVIOUS
  <2>6. s1.out \o Reverse(<<>>) = s1.out
    BY <1>2, <1>5, FlushFromTop DEF Shunting, Flush
  <2> QED
    BY <1>7, <2>4, <2>5, <2>6
<1>9. s3.out = Push(s2.out, v) /\ s3.stack = Push(W, c)
  BY <1>2, <1>6, <1>8, ShuntOperand
<1>10. s0.out \in Seq(Tokens) /\ s1.out \in Seq(Tokens)
  BY <1>4, <1>5 DEF Shunting
<1>11. Done(ts, s1.out) = Left(Push(ts, k), Q)
  <2>1. Done(ts, s1.out) = Evaluate(Left(ts, Q), k)
    BY <1>2, <1>3, <1>7, <1>10, DoneStep
  <2> QED
    BY <1>2, <2>1, EvaluateOperand
<1>12. Done(ts, s3.out) = Left(Push(Push(ts, k), v), Q)
  <2>1. Done(ts, s3.out) = Evaluate(Left(Push(ts, k), Q), v)
    BY <1>2, <1>8, <1>9, <1>10, <1>11, DoneStep
  <2> QED
    BY <1>2, <2>1, EvaluateOperand
<1> QED
  BY <1>1, <1>9, <1>12 DEF s3, k, c, v

\* The pieces of a stack with a comparison on it.
LEMMA PiecesOfStackFacts ==
  ASSUME NEW T, NEW B \in Seq(T), NEW a \in T, NEW c \in T
  PROVE  /\ SubSeq(Push(B, c), 1, Len(B)) = B
         /\ SubSeq(Push(B, c), Len(B) + 1, Len(B) + 1) = Push(<<>>, c)
         /\ SubSeq(Push(Push(B, a), c), 1, Len(B)) = B
         /\ SubSeq(Push(Push(B, a), c), Len(B) + 1, Len(B) + 2) = Push(Push(<<>>, a), c)
         /\ Len(Push(B, c)) = Len(B) + 1 /\ Len(Push(Push(B, a), c)) = Len(B) + 2
<1> DEFINE n == Len(B)
           s == Append(B, c)
           t == Append(Append(B, a), c)
<1>1. /\ n \in Nat /\ s \in Seq(T) /\ Len(s) = n + 1 /\ s[n + 1] = c /\ \A i \in 1..n : s[i] = B[i]
      /\ t \in Seq(T) /\ Len(t) = n + 2 /\ t[n + 1] = a /\ t[n + 2] = c /\ \A i \in 1..n : t[i] = B[i]
  OBVIOUS
<1>2. Len(B) = n /\ B \in Seq(T)
  OBVIOUS
<1> HIDE DEF n, s, t
<1>3. SubSeq(s, 1, n) = B
  <2>1. SubSeq(s, 1, n) \in Seq(T) /\ Len(SubSeq(s, 1, n)) = n
          /\ \A i \in 1..n : SubSeq(s, 1, n)[i] = s[i]
    BY <1>1
  <2> QED
    BY <1>1, <1>2, <2>1
<1>4. SubSeq(t, 1, n) = B
  <2>1. SubSeq(t, 1, n) \in Seq(T) /\ Len(SubSeq(t, 1, n)) = n
          /\ \A i \in 1..n : SubSeq(t, 1, n)[i] = t[i]
    BY <1>1
  <2> QED
    BY <1>1, <1>2, <2>1
<1>5. SubSeq(s, n + 1, n + 1) = Append(<<>>, c)
  <2> DEFINE x == SubSeq(s, n + 1, n + 1)
             y == Append(<<>>, c)
  <2>1. x \in Seq(T) /\ Len(x) = 1 /\ x[1] = c
    BY <1>1
  <2>2. y \in Seq(T) /\ Len(y) = 1 /\ y[1] = c
    OBVIOUS
  <2> HIDE DEF x, y
  <2>3. x = y
    BY <2>1, <2>2
  <2> QED
    BY <2>3 DEF x, y
<1>6. SubSeq(t, n + 1, n + 2) = Append(Append(<<>>, a), c)
  <2> DEFINE x == SubSeq(t, n + 1, n + 2)
             y == Append(Append(<<>>, a), c)
  <2>1. x \in Seq(T) /\ Len(x) = 2 /\ x[1] = a /\ x[2] = c
    BY <1>1
  <2>2. y \in Seq(T) /\ Len(y) = 2 /\ y[1] = a /\ y[2] = c
    OBVIOUS
  <2> HIDE DEF x, y
  <2>3. x = y
    BY <2>1, <2>2
  <2> QED
    BY <2>3 DEF x, y
<1> QED
  BY <1>1, <1>3, <1>4, <1>5, <1>6 DEF n, s, t, Push

LEMMA PiecesOfStack ==
  ASSUME NEW T, NEW B \in Seq(T), NEW c \in T
  PROVE  /\ SubSeq(Push(B, c), 1, Len(B)) = B
         /\ SubSeq(Push(B, c), Len(B) + 1, Len(B) + 1) = Push(<<>>, c)
         /\ Len(Push(B, c)) = Len(B) + 1
         /\ \A a \in T :
              /\ SubSeq(Push(Push(B, a), c), 1, Len(B)) = B
              /\ SubSeq(Push(Push(B, a), c), Len(B) + 1, Len(B) + 2) = Push(Push(<<>>, a), c)
              /\ Len(Push(Push(B, a), c)) = Len(B) + 2
<1>1. /\ SubSeq(Push(B, c), 1, Len(B)) = B
      /\ SubSeq(Push(B, c), Len(B) + 1, Len(B) + 1) = Push(<<>>, c)
      /\ Len(Push(B, c)) = Len(B) + 1
  BY PiecesOfStackFacts
<1>2. ASSUME NEW a \in T
      PROVE  /\ SubSeq(Push(Push(B, a), c), 1, Len(B)) = B
             /\ SubSeq(Push(Push(B, a), c), Len(B) + 1, Len(B) + 2) = Push(Push(<<>>, a), c)
             /\ Len(Push(Push(B, a), c)) = Len(B) + 2
  BY PiecesOfStackFacts
<1> QED
  BY <1>1, <1>2

LEMMA FlushTwo ==
  ASSUME NEW out \in Seq(Tokens), NEW a \in Tokens, NEW c \in Tokens
  PROVE  Flush(out, Push(Push(<<>>, a), c)) = Push(Push(out, c), a)
<1> DEFINE e == Push(<<>>, a)
           o == Push(out, c)
<1>1. e \in Seq(Tokens) /\ o \in Seq(Tokens)
  BY PushTyped
<1>2. Flush(o, e) = Push(o, a)
  <2> HIDE DEF o
  <2> QED
    BY <1>1, FlushFromTop
<1> HIDE DEF e
<1>3. Flush(out, Push(e, c)) = Flush(o, e)
  BY <1>1, FlushFromTop
<1> QED
  BY <1>2, <1>3 DEF e, o

LEMMA EvaluateAnd ==
  ASSUME NEW ts, NEW R \in Seq(KeySets), NEW l \in KeySets, NEW r \in KeySets,
         NEW token \in Tokens, token.type = "AND"
  PROVE  Evaluate(Left(ts, Push(Push(R, l), r)), token) = Left(ts, Push(R, l \cap r))
<1>1. token.type \in {"AND", "OR"}
  OBVIOUS
<1>2. Evaluate(Left(ts, Push(Push(R, l), r)), token) = Left(ts, Push(R, Joined(token, l, r)))
  BY ONLY <1>1, EvaluateJoin
<1>3. Joined(token, l, r) = l \cap r
  BY DEF Joined
<1> QED
  BY <1>2, <1>3

LEMMA EvaluateOr ==
  ASSUME NEW ts, NEW l \in KeySets, NEW r \in KeySets, NEW token \in Tokens, token.type = "OR"
  PROVE  Evaluate(Left(ts, Push(Push(<<>>, l), r)), token) = Left(ts, Push(<<>>, l \cup r))
<1>1. token.type \in {"AND", "OR"}
  OBVIOUS
<1> DEFINE none == <<>>
<1>2. none \in Seq(KeySets)
  OBVIOUS
<1> HIDE DEF none
<1>3. Evaluate(Left(ts, Push(Push(none, l), r)), token) = Left(ts, Push(none, Joined(token, l, r)))
  BY <1>1, <1>2, EvaluateJoin
<1>4. Joined(token, l, r) = l \cup r
  BY DEF Joined
<1> QED
  BY <1>3, <1>4 DEF none

\* A comparison, and && before it, move to the output and are evaluated.
Closed(ts, tokens, d, B, P, out, stack, more) ==
  /\ Done(ts, more) = Left(ts, Push(P, MeetingLast(tokens, d)))
  /\ Flush(out, stack) = Flush(more, B)
  /\ Flush(out, SubSeq(stack, Len(B) + 1, Len(stack))) = more

LEMMA AlternativeCloses ==
  ASSUME NEW tokens, NEW d, Comparison(tokens, d), NEW ts \in Seq(Operands),
         Keyed, Exact(Indexes, Climate),
         NEW B \in Seq(Tokens), NEW W \in Seq(Tokens), NEW P \in Seq(KeySets), NEW Q \in Seq(KeySets),
         NEW out \in Seq(Tokens),
         WaitsForComparison(tokens, d, B, P, W, Q),
         Done(ts, out) = Left(Push(Push(ts, tokens[4 * d - 3]), tokens[4 * d - 1]), Q)
  PROVE  \E more \in Seq(Tokens) : Closed(ts, tokens, d, B, P, out, Push(W, tokens[4 * d - 2]), more)
<1> DEFINE c == tokens[4 * d - 2]
           k == tokens[4 * d - 3]
           v == tokens[4 * d - 1]
           M == Meeting(tokens, d)
           o1 == Push(out, c)
<1>1. c \in Tokens /\ M \in KeySets
  BY MeetingTyped DEF Comparison
<1>2. /\ k \in Operands /\ k.type = "KEYWORD" /\ v \in Operands /\ v.type = "ID"
      /\ c.type \in Comparisons \ {"NEQ"}
  BY DEF Comparison
<1>3. Compared(k.value, c.type, v.value) = M
  BY ComparedMeets
<1>4. Done(ts, out) = Left(Push(Push(ts, k), v), Q)
  OBVIOUS
<1>5. WaitsForComparison(tokens, d, B, P, W, Q)
  OBVIOUS
<1> HIDE DEF c, k, v, M
<1>6. o1 \in Seq(Tokens) /\ Done(ts, o1) = Left(ts, Push(Q, M))
  <2>1. Done(ts, o1) = Evaluate(Done(ts, out), c)
    BY <1>1, DoneStep
  <2>2. Evaluate(Left(Push(Push(ts, k), v), Q), c) = Left(ts, Push(Q, M))
    BY <1>1, <1>2, <1>3, EvaluateComparison
  <2>3. o1 \in Seq(Tokens)
    BY <1>1, PushTyped
  <2> QED
    BY <1>4, <2>1, <2>2, <2>3
<1>7. /\ Flush(out, Push(W, c)) = Flush(o1, W)
      /\ Flush(out, Push(<<>>, c)) = o1
  BY <1>1, FlushFromTop
<1>8. CASE W = B /\ Q = P /\ MeetingLast(tokens, d) = M
  <2>1. SubSeq(Push(W, c), Len(B) + 1, Len(Push(W, c))) = Push(<<>>, c)
    <3>1. /\ SubSeq(Push(B, c), Len(B) + 1, Len(B) + 1) = Push(<<>>, c)
          /\ Len(Push(B, c)) = Len(B) + 1
      BY <1>1, PiecesOfStack
    <3> QED
      BY <1>8, <3>1
  <2>2. Flush(out, SubSeq(Push(W, c), Len(B) + 1, Len(Push(W, c)))) = o1
    BY <1>7, <2>1
  <2> HIDE DEF o1
  <2> QED
    BY <1>6, <1>7, <1>8, <2>2 DEF c, Closed
<1>9. ASSUME NEW a \in Tokens, NEW N \in KeySets, a.type = "AND", W = Push(B, a), Q = Push(P, N),
             MeetingLast(tokens, d) = N \cap M
      PROVE  \E more \in Seq(Tokens) : Closed(ts, tokens, d, B, P, out, Push(W, c), more)
  <2> HIDE DEF o1
  <2> DEFINE o2 == Push(o1, a)
  <2>1. o2 \in Seq(Tokens) /\ Done(ts, o2) = Evaluate(Done(ts, o1), a)
    BY <1>6, DoneStep, PushTyped
  <2>2. Evaluate(Left(ts, Push(Push(P, N), M)), a) = Left(ts, Push(P, N \cap M))
    BY <1>1, <1>9, EvaluateAnd
  <2>3. Flush(o1, Push(B, a)) = Flush(o2, B)
    BY <1>6, FlushFromTop
  <2>4. Flush(out, Push(Push(<<>>, a), c)) = o2
    BY <1>1, FlushTwo DEF o1
  <2>5. SubSeq(Push(W, c), Len(B) + 1, Len(Push(W, c))) = Push(Push(<<>>, a), c)
    <3>1. /\ SubSeq(Push(Push(B, a), c), Len(B) + 1, Len(B) + 2) = Push(Push(<<>>, a), c)
          /\ Len(Push(Push(B, a), c)) = Len(B) + 2
      BY <1>1, PiecesOfStack
    <3> QED
      BY <1>9, <3>1
  <2> HIDE DEF o2
  <2>6. Done(ts, o2) = Left(ts, Push(P, MeetingLast(tokens, d)))
    BY <1>6, <1>9, <2>1, <2>2
  <2>7. Flush(out, Push(W, c)) = Flush(o2, B)
    BY <1>7, <1>9, <2>3
  <2>8. Flush(out, SubSeq(Push(W, c), Len(B) + 1, Len(Push(W, c)))) = o2
    BY <2>4, <2>5
  <2> QED
    BY <2>1, <2>6, <2>7, <2>8 DEF Closed
<1>10. \/ W = B /\ Q = P /\ MeetingLast(tokens, d) = M
       \/ \E a \in Tokens, N \in KeySets :
            /\ a.type = "AND" /\ W = Push(B, a) /\ Q = Push(P, N)
            /\ MeetingLast(tokens, d) = N \cap M
  BY <1>5 DEF WaitsForComparison, M
<1> QED
  BY <1>8, <1>9, <1>10 DEF c

\* What waits for the end is evaluated at the end of an alternative.
Ended(ts, tokens, d) == Left(ts, Push(<<>>, MeetingEarlier(tokens, d) \cup MeetingLast(tokens, d)))

LEMMA EndCloses ==
  ASSUME NEW tokens, NEW d, NEW ts \in Seq(Operands),
         NEW B \in Seq(Tokens), NEW P \in Seq(KeySets), NEW out \in Seq(Tokens),
         WaitsForEnd(tokens, d, B, P),
         Done(ts, out) = Left(ts, Push(P, MeetingLast(tokens, d)))
  PROVE  Done(ts, Flush(out, B)) = Ended(ts, tokens, d)
<1> DEFINE E == MeetingEarlier(tokens, d)
           L == MeetingLast(tokens, d)
<1>1. E \in KeySets /\ L \in KeySets
  BY MeetingTyped
<1>2. WaitsForEnd(tokens, d, B, P) /\ Done(ts, out) = Left(ts, Push(P, L))
  OBVIOUS
<1>3. ASSUME B = <<>>, P = <<>>, E = {}
      PROVE  Done(ts, Flush(out, B)) = Left(ts, Push(<<>>, E \cup L))
  <2>1. Flush(out, B) = out
    <3>1. Reverse(<<>>) = <<>>
      BY DEF Reverse
    <3> QED
      BY <1>3, <3>1 DEF Flush
  <2>2. E \cup L = L
    BY <1>3
  <2> HIDE DEF E, L
  <2> QED
    BY <1>2, <1>3, <2>1, <2>2 DEF E, L
<1> HIDE DEF E, L
<1>4. ASSUME NEW o \in Tokens, o.type = "OR", B = Push(<<>>, o), P = Push(<<>>, E)
      PROVE  Done(ts, Flush(out, B)) = Left(ts, Push(<<>>, E \cup L))
  <2>1. Flush(out, B) = Push(out, o)
    BY <1>4, FlushFromTop
  <2>2. Done(ts, Push(out, o)) = Evaluate(Left(ts, Push(P, L)), o)
    BY <1>2, DoneStep
  <2>3. Evaluate(Left(ts, Push(Push(<<>>, E), L)), o) = Left(ts, Push(<<>>, E \cup L))
    BY <1>1, <1>4, EvaluateOr
  <2> QED
    BY <1>4, <2>1, <2>2, <2>3
<1>5. \/ B = <<>> /\ P = <<>> /\ E = {}
      \/ (\E o \in Tokens : o.type = "OR" /\ B = Push(<<>>, o)) /\ P = Push(<<>>, E)
  BY <1>2 DEF WaitsForEnd, E
<1> QED
  BY <1>3, <1>4, <1>5 DEF E, L, Ended
-----------------------------------------------------------------------------
(* The answers: from one comparison to the next *)

LEMMA FirstComparison ==
  ASSUME NEW tokens \in Seq(Tokens), 3 <= Len(tokens), Comparison(tokens, 1), NEW ts \in Seq(Operands)
  PROVE  AtComparison(ts, tokens, 1)
<1> DEFINE none == <<>>
<1>1. Shunted(tokens, 0) = [out |-> <<>>, stack |-> <<>>]
  BY AfterNoneAndAll DEF Shunted
<1>2. Done(ts, <<>>) = Left(ts, <<>>)
  BY FoldOfNone DEF Done
<1>3. none \in Seq(Tokens) /\ none \in Seq(KeySets) /\ \A i : i \notin 1..Len(none)
  OBVIOUS
<1>4. PICK d \in Nat \ {0} : d = 1
  OBVIOUS
<1>5. 4 * d - 1 <= Len(tokens) /\ Comparison(tokens, d) /\ 4 * d - 4 = 0
  BY <1>4
<1>6. /\ Shunted(tokens, 4 * d - 4).stack = none
      /\ Done(ts, Shunted(tokens, 4 * d - 4).out) = Left(ts, none)
  BY <1>1, <1>2, <1>5
<1> HIDE DEF none
<1>7. /\ Shunted(tokens, 4 * d - 1).stack = Push(none, tokens[4 * d - 2])
      /\ Done(ts, Shunted(tokens, 4 * d - 1).out) =
           Left(Push(Push(ts, tokens[4 * d - 3]), tokens[4 * d - 1]), none)
  <2>1. \A i \in 1..Len(none) : none[i].type \in {"AND", "OR"}
    BY <1>3
  <2>2. none \in Seq(Tokens) /\ none \in Seq(KeySets)
    BY <1>3
  <2>3. 4 * d - 1 <= Len(tokens) /\ Comparison(tokens, d)
    BY <1>5
  <2> QED
    BY <1>6, <2>1, <2>2, <2>3, ComparisonIsRead
<1>8. MeetingLast(tokens, d) = Meeting(tokens, d) /\ MeetingEarlier(tokens, d) = {}
  BY <1>4, FirstMeeting
<1>9. WaitsForEnd(tokens, d, none, none)
  BY <1>8 DEF WaitsForEnd, none
<1>10. WaitsForComparison(tokens, d, none, none, none, none)
  BY <1>8 DEF WaitsForComparison
<1>11. AtComparison(ts, tokens, d)
  BY <1>3, <1>7, <1>9, <1>10 DEF AtComparison
<1> QED
  BY <1>4, <1>11

\* What is on the stack with a comparison on top of it.
LEMMA TypesOnStack ==
  ASSUME NEW tokens, NEW d, NEW B \in Seq(Tokens), NEW W \in Seq(Tokens), NEW P, NEW Q,
         WaitsForEnd(tokens, d, B, P), WaitsForComparison(tokens, d, B, P, W, Q),
         NEW c \in Tokens, c.type \in Comparisons
  PROVE  /\ Len(B) \in 0..Len(Push(W, c)) /\ SubSeq(Push(W, c), 1, Len(B)) = B
         /\ \A i \in 1..Len(B) : Push(W, c)[i] \in Tokens /\ Push(W, c)[i].type = "OR"
         /\ \A i \in Len(B) + 1..Len(Push(W, c)) :
              Push(W, c)[i] \in Tokens /\ Push(W, c)[i].type \in Comparisons \cup {"AND"}
<1>1. \A i \in 1..Len(B) : B[i] \in Tokens /\ B[i].type = "OR"
  <2>1. CASE B = <<>>
    BY <2>1
  <2>2. ASSUME NEW o \in Tokens, o.type = "OR", B = Push(<<>>, o)
        PROVE  \A i \in 1..Len(B) : B[i] \in Tokens /\ B[i].type = "OR"
    BY <2>2 DEF Push
  <2> QED
    BY <2>1, <2>2 DEF WaitsForEnd
<1>2. CASE W = B
  <2> DEFINE s == Append(B, c)
  <2>1. /\ s \in Seq(Tokens) /\ Len(s) = Len(B) + 1 /\ s[Len(B) + 1] = c /\ Len(B) \in Nat
        /\ \A i \in 1..Len(B) : s[i] = B[i]
    OBVIOUS
  <2>2. SubSeq(s, 1, Len(B)) = B
    BY PiecesOfStack DEF Push
  <2>3. Push(W, c) = s
    BY <1>2 DEF Push
  <2> HIDE DEF s
  <2>4. \A i \in Len(B) + 1..Len(s) : s[i] = c
    BY <2>1
  <2>5. Len(B) \in 0..Len(s)
    BY <2>1
  <2> QED
    BY <1>1, <2>1, <2>2, <2>3, <2>4, <2>5
<1>3. ASSUME NEW a \in Tokens, a.type = "AND", W = Push(B, a)
      PROVE  /\ Len(B) \in 0..Len(Push(W, c)) /\ SubSeq(Push(W, c), 1, Len(B)) = B
             /\ \A i \in 1..Len(B) : Push(W, c)[i] \in Tokens /\ Push(W, c)[i].type = "OR"
             /\ \A i \in Len(B) + 1..Len(Push(W, c)) :
                  Push(W, c)[i] \in Tokens /\ Push(W, c)[i].type \in Comparisons \cup {"AND"}
  <2> DEFINE s == Append(Append(B, a), c)
  <2>1. /\ s \in Seq(Tokens) /\ Len(s) = Len(B) + 2 /\ s[Len(B) + 1] = a /\ s[Len(B) + 2] = c
        /\ Len(B) \in Nat /\ \A i \in 1..Len(B) : s[i] = B[i]
    OBVIOUS
  <2>2. SubSeq(s, 1, Len(B)) = B
    BY PiecesOfStack DEF Push
  <2>3. Push(W, c) = s
    BY <1>3 DEF Push
  <2> HIDE DEF s
  <2>4. \A i \in Len(B) + 1..Len(s) : s[i] = c \/ s[i] = a
    BY <2>1
  <2>5. Len(B) \in 0..Len(s)
    BY <2>1
  <2> QED
    BY <1>1, <1>3, <2>1, <2>2, <2>3, <2>4, <2>5
<1> QED
  BY <1>2, <1>3 DEF WaitsForComparison

\* && takes the comparison from the stack, and an && before it.
LEMMA NextWithAnd ==
  ASSUME NEW tokens \in Seq(Tokens), NEW d \in Nat \ {0}, 4 * (d + 1) - 1 <= Len(tokens),
         Comparison(tokens, d), Comparison(tokens, d + 1), Joint(tokens, d),
         tokens[4 * d].type = "AND", NEW ts \in Seq(Operands),
         Keyed, Exact(Indexes, Climate), AtComparison(ts, tokens, d)
  PROVE  AtComparison(ts, tokens, d + 1)
<1> DEFINE J == tokens[4 * d]
           c == tokens[4 * d - 2]
           s == Shunted(tokens, 4 * d - 1)
           L == MeetingLast(tokens, d)
<1>1. /\ J \in Tokens /\ J.type = "AND" /\ ~isOperand(J) /\ J.type # "UNARY"
      /\ c \in Tokens /\ c.type \in Comparisons
  BY DEF Joint, Comparison, isOperand
<1>2. PICK B \in Seq(Tokens), W \in Seq(Tokens), P \in Seq(KeySets), Q \in Seq(KeySets) :
        /\ WaitsForEnd(tokens, d, B, P) /\ WaitsForComparison(tokens, d, B, P, W, Q)
        /\ s.stack = Push(W, c)
        /\ Done(ts, s.out) = Left(Push(Push(ts, tokens[4 * d - 3]), tokens[4 * d - 1]), Q)
  BY DEF AtComparison
<1>3. s \in Shunting /\ Shunted(tokens, 4 * d) = Shunt(s, J)
  <2>1. 4 * d - 1 \in Nat /\ 4 * d - 1 < Len(tokens) /\ 4 * d - 1 + 1 = 4 * d
    OBVIOUS
  <2>2. /\ Shunted(tokens, 4 * d - 1) \in Shunting
        /\ Shunted(tokens, 4 * d - 1 + 1) = Shunt(Shunted(tokens, 4 * d - 1), tokens[4 * d - 1 + 1])
    BY <2>1, ShuntedStep
  <2> QED
    BY <2>1, <2>2
<1>4. s.out \in Seq(Tokens)
  BY <1>3 DEF Shunting
<1>5. PICK more \in Seq(Tokens) :
        /\ Done(ts, more) = Left(ts, Push(P, L))
        /\ Flush(s.out, SubSeq(Push(W, c), Len(B) + 1, Len(Push(W, c)))) = more
  <2>1. WaitsForComparison(tokens, d, B, P, W, Q)
    BY <1>2
  <2>2. Done(ts, s.out) = Left(Push(Push(ts, tokens[4 * d - 3]), tokens[4 * d - 1]), Q)
    BY <1>2
  <2> HIDE DEF s
  <2>3. \E more \in Seq(Tokens) : Closed(ts, tokens, d, B, P, s.out, Push(W, tokens[4 * d - 2]), more)
    BY <1>4, <2>1, <2>2, AlternativeCloses
  <2> QED
    BY <2>3 DEF Closed
<1> HIDE DEF J, c, s, L
<1>6. Shunt(s, J).out = more /\ Shunt(s, J).stack = Push(B, J)
  <2>1. /\ Len(B) \in 0..Len(s.stack) /\ SubSeq(s.stack, 1, Len(B)) = B
        /\ \A i \in 1..Len(B) : s.stack[i] \in Tokens /\ s.stack[i].type = "OR"
        /\ \A i \in Len(B) + 1..Len(s.stack) :
             s.stack[i] \in Tokens /\ s.stack[i].type \in Comparisons \cup {"AND"}
    <3>1. /\ Len(B) \in 0..Len(Push(W, c)) /\ SubSeq(Push(W, c), 1, Len(B)) = B
          /\ \A i \in 1..Len(B) : Push(W, c)[i] \in Tokens /\ Push(W, c)[i].type = "OR"
          /\ \A i \in Len(B) + 1..Len(Push(W, c)) :
               Push(W, c)[i] \in Tokens /\ Push(W, c)[i].type \in Comparisons \cup {"AND"}
      BY <1>1, <1>2, TypesOnStack
    <3> QED
      BY <1>2, <3>1
  <2>2. precedence(J) = 2
    BY <1>1, PrecedenceOf
  <2>3. \A i \in 1..Len(B) : precedence(s.stack[i]) < precedence(J)
    <3> SUFFICES ASSUME NEW i \in 1..Len(B) PROVE precedence(s.stack[i]) < precedence(J)
      OBVIOUS
    <3>1. precedence(s.stack[i]) = 1
      BY <2>1, PrecedenceOf
    <3> QED
      BY <2>2, <3>1
  <2>4. \A i \in Len(B) + 1..Len(s.stack) : ~(precedence(s.stack[i]) < precedence(J))
    <3> SUFFICES ASSUME NEW i \in Len(B) + 1..Len(s.stack)
                 PROVE  ~(precedence(s.stack[i]) < precedence(J))
      OBVIOUS
    <3>1. precedence(s.stack[i]) \in {2, 3, 4}
      BY <2>1, PrecedenceOf
    <3> QED
      BY <2>2, <3>1
  <2>5. /\ Shunt(s, J).out = s.out \o Reverse(SubSeq(s.stack, Len(B) + 1, Len(s.stack)))
        /\ Shunt(s, J).stack = Push(SubSeq(s.stack, 1, Len(B)), J)
    BY <1>1, <1>3, <2>1, <2>3, <2>4, ShuntOperator
  <2> QED
    BY <1>2, <1>5, <2>1, <2>5 DEF Flush
<1> DEFINE W2 == Push(B, J)
           Q2 == Push(P, L)
<1>7. L \in KeySets /\ W2 \in Seq(Tokens) /\ Q2 \in Seq(KeySets)
  BY <1>1, MeetingTyped, PushTyped DEF L
<1>8. \A i \in 1..Len(W2) : W2[i].type \in {"AND", "OR"}
  <2>1. \A i \in 1..Len(B) : B[i].type = "OR"
    <3>1. CASE B = <<>>
      BY <3>1
    <3>2. ASSUME NEW o \in Tokens, o.type = "OR", B = Push(<<>>, o)
          PROVE  \A i \in 1..Len(B) : B[i].type = "OR"
      BY <3>2 DEF Push
    <3> QED
      BY <1>2, <3>1, <3>2 DEF WaitsForEnd
  <2>2. /\ Len(W2) = Len(B) + 1 /\ W2[Len(B) + 1] = J /\ Len(B) \in Nat
        /\ \A i \in 1..Len(B) : W2[i] = B[i]
    BY DEF Push
  <2> HIDE DEF W2
  <2>3. \A i \in 1..Len(W2) : i \in 1..Len(B) \/ i = Len(B) + 1
    BY <2>2
  <2> QED
    BY <1>1, <2>1, <2>2, <2>3
<1>9. WaitsForEnd(tokens, d + 1, B, P)
  BY <1>1, <1>2, MeetingWithAnd DEF J, WaitsForEnd
<1>10. WaitsForComparison(tokens, d + 1, B, P, W2, Q2)
  <2>1. MeetingLast(tokens, d + 1) = L \cap Meeting(tokens, d + 1)
    BY <1>1, MeetingWithAnd DEF J, L
  <2> QED
    BY <1>1, <1>7, <2>1 DEF WaitsForComparison
<1> HIDE DEF W2, Q2
<1>11. /\ Shunted(tokens, 4 * (d + 1) - 1).stack = Push(W2, tokens[4 * (d + 1) - 2])
       /\ Done(ts, Shunted(tokens, 4 * (d + 1) - 1).out) =
            Left(Push(Push(ts, tokens[4 * (d + 1) - 3]), tokens[4 * (d + 1) - 1]), Q2)
  <2>1. d + 1 \in Nat \ {0} /\ 4 * (d + 1) - 4 = 4 * d
    OBVIOUS
  <2>2. /\ Shunted(tokens, 4 * (d + 1) - 4).stack = W2
        /\ Done(ts, Shunted(tokens, 4 * (d + 1) - 4).out) = Left(ts, Q2)
    BY <1>3, <1>5, <1>6, <2>1 DEF W2, Q2
  <2> QED
    BY <1>7, <1>8, <2>1, <2>2, ComparisonIsRead
<1> QED
  BY <1>7, <1>9, <1>10, <1>11 DEF AtComparison

\* || takes everything from the stack.
LEMMA NextWithOr ==
  ASSUME NEW tokens \in Seq(Tokens), NEW d \in Nat \ {0}, 4 * (d + 1) - 1 <= Len(tokens),
         Comparison(tokens, d), Comparison(tokens, d + 1), Joint(tokens, d),
         \A e \in 1..d - 1 : tokens[4 * e].type \in {"AND", "OR"},
         tokens[4 * d].type = "OR", NEW ts \in Seq(Operands),
         Keyed, Exact(Indexes, Climate), AtComparison(ts, tokens, d)
  PROVE  AtComparison(ts, tokens, d + 1)
<1> DEFINE J == tokens[4 * d]
           c == tokens[4 * d - 2]
           s == Shunted(tokens, 4 * d - 1)
           L == MeetingLast(tokens, d)
           E == MeetingEarlier(tokens, d)
<1>1. /\ J \in Tokens /\ J.type = "OR" /\ ~isOperand(J) /\ J.type # "UNARY"
      /\ c \in Tokens /\ c.type \in Comparisons
  BY DEF Joint, Comparison, isOperand
<1>2. PICK B \in Seq(Tokens), W \in Seq(Tokens), P \in Seq(KeySets), Q \in Seq(KeySets) :
        /\ WaitsForEnd(tokens, d, B, P) /\ WaitsForComparison(tokens, d, B, P, W, Q)
        /\ s.stack = Push(W, c)
        /\ Done(ts, s.out) = Left(Push(Push(ts, tokens[4 * d - 3]), tokens[4 * d - 1]), Q)
  BY DEF AtComparison
<1>3. s \in Shunting /\ Shunted(tokens, 4 * d) = Shunt(s, J)
  <2>1. 4 * d - 1 \in Nat /\ 4 * d - 1 < Len(tokens) /\ 4 * d - 1 + 1 = 4 * d
    OBVIOUS
  <2>2. /\ Shunted(tokens, 4 * d - 1) \in Shunting
        /\ Shunted(tokens, 4 * d - 1 + 1) = Shunt(Shunted(tokens, 4 * d - 1), tokens[4 * d - 1 + 1])
    BY <2>1, ShuntedStep
  <2> QED
    BY <2>1, <2>2
<1>4. s.out \in Seq(Tokens)
  BY <1>3 DEF Shunting
<1>5. PICK more \in Seq(Tokens) :
        /\ Done(ts, more) = Left(ts, Push(P, L))
        /\ Flush(s.out, Push(W, c)) = Flush(more, B)
  <2>1. WaitsForComparison(tokens, d, B, P, W, Q)
    BY <1>2
  <2>2. Done(ts, s.out) = Left(Push(Push(ts, tokens[4 * d - 3]), tokens[4 * d - 1]), Q)
    BY <1>2
  <2> HIDE DEF s
  <2>3. \E more \in Seq(Tokens) : Closed(ts, tokens, d, B, P, s.out, Push(W, tokens[4 * d - 2]), more)
    BY <1>4, <2>1, <2>2, AlternativeCloses
  <2> QED
    BY <2>3 DEF Closed
<1>6. Done(ts, Flush(more, B)) = Left(ts, Push(<<>>, E \cup L))
  <2>1. WaitsForEnd(tokens, d, B, P)
    BY <1>2
  <2>2. Done(ts, more) = Left(ts, Push(P, MeetingLast(tokens, d)))
    BY <1>5
  <2>3. Done(ts, Flush(more, B)) = Ended(ts, tokens, d)
    BY <2>1, <2>2, EndCloses
  <2> QED
    BY <2>3 DEF Ended
<1> HIDE DEF J, c, s, L, E
<1> DEFINE none == <<>>
<1>7. Shunt(s, J).out = Flush(more, B) /\ Shunt(s, J).stack = Push(none, J)
  <2>1. /\ Len(B) \in 0..Len(s.stack)
        /\ \A i \in 1..Len(B) : s.stack[i] \in Tokens /\ s.stack[i].type = "OR"
        /\ \A i \in Len(B) + 1..Len(s.stack) :
             s.stack[i] \in Tokens /\ s.stack[i].type \in Comparisons \cup {"AND"}
    <3>1. /\ Len(B) \in 0..Len(Push(W, c)) /\ SubSeq(Push(W, c), 1, Len(B)) = B
          /\ \A i \in 1..Len(B) : Push(W, c)[i] \in Tokens /\ Push(W, c)[i].type = "OR"
          /\ \A i \in Len(B) + 1..Len(Push(W, c)) :
               Push(W, c)[i] \in Tokens /\ Push(W, c)[i].type \in Comparisons \cup {"AND"}
      BY <1>1, <1>2, TypesOnStack
    <3> QED
      BY <1>2, <3>1
  <2>2. precedence(J) = 1
    BY <1>1, PrecedenceOf
  <2>3. Len(s.stack) \in Nat /\ 0 \in 0..Len(s.stack) /\ \A i : i \notin 1..0
    BY <1>3 DEF Shunting
  <2>4. \A i \in 0 + 1..Len(s.stack) : ~(precedence(s.stack[i]) < precedence(J))
    <3> SUFFICES ASSUME NEW i \in 0 + 1..Len(s.stack)
                 PROVE  ~(precedence(s.stack[i]) < precedence(J))
      OBVIOUS
    <3>1. i \in 1..Len(B) \/ i \in Len(B) + 1..Len(s.stack)
      BY <2>1, <2>3
    <3>2. precedence(s.stack[i]) \in {1, 2, 3, 4}
      BY <2>1, <3>1, PrecedenceOf
    <3> QED
      BY <2>2, <3>2
  <2>5. /\ Shunt(s, J).out = s.out \o Reverse(SubSeq(s.stack, 0 + 1, Len(s.stack)))
        /\ Shunt(s, J).stack = Push(SubSeq(s.stack, 1, 0), J)
    BY <1>1, <1>3, <2>3, <2>4, ShuntOperator
  <2>6. SubSeq(s.stack, 0 + 1, Len(s.stack)) = s.stack /\ SubSeq(s.stack, 1, 0) = <<>>
    BY <1>3 DEF Shunting
  <2> QED
    BY <1>2, <1>5, <2>5, <2>6 DEF Flush
<1> DEFINE W2 == Push(none, J)
           Q2 == Push(none, E \cup L)
<1>8. L \in KeySets /\ E \in KeySets /\ E \cup L \in KeySets
  <2>1. L \in KeySets /\ E \in KeySets
    BY MeetingTyped DEF L, E
  <2> QED
    BY <2>1 DEF KeySets
<1>9. W2 \in Seq(Tokens) /\ Q2 \in Seq(KeySets)
  <2>1. none \in Seq(Tokens) /\ none \in Seq(KeySets)
    OBVIOUS
  <2> HIDE DEF none
  <2> QED
    BY <1>1, <1>8, <2>1, PushTyped
<1>10. \A i \in 1..Len(W2) : W2[i].type \in {"AND", "OR"}
  BY <1>1 DEF Push
<1>11. /\ MeetingLast(tokens, d + 1) = Meeting(tokens, d + 1)
       /\ MeetingEarlier(tokens, d + 1) = E \cup L
  BY <1>1, MeetingWithOr DEF J, L, E
<1>12. WaitsForEnd(tokens, d + 1, W2, Q2)
  BY <1>1, <1>11 DEF WaitsForEnd
<1> HIDE DEF W2, Q2
<1>13. WaitsForComparison(tokens, d + 1, W2, Q2, W2, Q2)
  BY <1>11 DEF WaitsForComparison
<1>14. /\ Shunted(tokens, 4 * (d + 1) - 1).stack = Push(W2, tokens[4 * (d + 1) - 2])
       /\ Done(ts, Shunted(tokens, 4 * (d + 1) - 1).out) =
            Left(Push(Push(ts, tokens[4 * (d + 1) - 3]), tokens[4 * (d + 1) - 1]), Q2)
  <2>1. d + 1 \in Nat \ {0} /\ 4 * (d + 1) - 4 = 4 * d
    OBVIOUS
  <2>2. /\ Shunted(tokens, 4 * (d + 1) - 4).stack = W2
        /\ Done(ts, Shunted(tokens, 4 * (d + 1) - 4).out) = Left(ts, Q2)
    BY <1>3, <1>6, <1>7, <2>1 DEF W2, Q2
  <2> QED
    BY <1>9, <1>10, <2>1, <2>2, ComparisonIsRead
<1> QED
  BY <1>9, <1>12, <1>13, <1>14 DEF AtComparison
-----------------------------------------------------------------------------
(* The answers: a query *)

LEMMA EachComparison ==
  ASSUME Keyed, Exact(Indexes, Climate), NEW tokens \in Seq(Tokens), NEW n \in Nat \ {0},
         Len(tokens) = 4 * n - 1, \A d \in 1..n : Comparison(tokens, d),
         \A d \in 1..n - 1 : Joint(tokens, d), NEW ts \in Seq(Operands)
  PROVE  AtComparison(ts, tokens, n)
<1> DEFINE S == {d \in Nat : d + 1 <= n => AtComparison(ts, tokens, d + 1)}
<1>1. 0 \in S
  <2>1. 3 <= Len(tokens) /\ Comparison(tokens, 1)
    OBVIOUS
  <2>2. AtComparison(ts, tokens, 1)
    BY <2>1, FirstComparison
  <2>3. 0 + 1 = 1
    OBVIOUS
  <2> QED
    BY <2>2, <2>3
<1>2. ASSUME NEW m \in Nat, m \in S PROVE m + 1 \in S
  <2> SUFFICES ASSUME m + 1 + 1 <= n PROVE AtComparison(ts, tokens, m + 1 + 1)
    OBVIOUS
  <2> DEFINE d == m + 1
  <2>1. /\ d \in Nat \ {0} /\ d \in 1..n /\ d + 1 \in 1..n /\ d \in 1..n - 1
        /\ 4 * (d + 1) - 1 <= Len(tokens) /\ \A e \in 1..d - 1 : e \in 1..n - 1
    OBVIOUS
  <2>2. AtComparison(ts, tokens, d)
    BY <1>2
  <2> HIDE DEF d, S
  <2>3. Comparison(tokens, d) /\ Comparison(tokens, d + 1) /\ Joint(tokens, d)
    BY <2>1
  <2>4. ASSUME tokens[4 * d].type = "AND" PROVE AtComparison(ts, tokens, d + 1)
    BY <2>1, <2>2, <2>3, <2>4, NextWithAnd
  <2>5. ASSUME tokens[4 * d].type = "OR" PROVE AtComparison(ts, tokens, d + 1)
    <3>1. \A e \in 1..d - 1 : tokens[4 * e].type \in {"AND", "OR"}
      BY <2>1 DEF Joint
    <3> QED
      BY <2>1, <2>2, <2>3, <2>5, <3>1, NextWithOr
  <2>6. tokens[4 * d].type = "AND" \/ tokens[4 * d].type = "OR"
    BY <2>3 DEF Joint
  <2>7. AtComparison(ts, tokens, d + 1)
    BY <2>4, <2>5, <2>6
  <2> QED
    BY <2>7 DEF d
<1> HIDE DEF S
<1>3. Nat \subseteq S
  BY <1>1, <1>2, SetInduction
<1>4. n - 1 \in S /\ n - 1 + 1 = n /\ n <= n
  BY <1>3
<1> QED
  BY <1>4 DEF S

\* A well-formed query leaves one result, the keys of the cities it means.
LEMMA QueryIsMeant ==
  ASSUME Keyed, Exact(Indexes, Climate), NEW tokens \in Seq(Tokens), WellFormed(tokens),
         NEW ts \in Seq(Operands)
  PROVE  FoldLeft(Evaluate, Left(ts, <<>>), recursive_decent(tokens)) =
           Left(ts, Push(<<>>, {k \in 1..key_ : Means(tokens, cityDB_[k])}))
<1>1. PICK n \in Nat \ {0} :
        /\ n = (Len(tokens) + 1) \div 4 /\ Len(tokens) = 4 * n - 1
        /\ \A d \in 1..n : Comparison(tokens, d)
        /\ \A d \in 1..n - 1 : Joint(tokens, d)
  BY PartsOfQuery
<1> DEFINE s == Shunted(tokens, 4 * n - 1)
           c == tokens[4 * n - 2]
           L == MeetingLast(tokens, n)
           E == MeetingEarlier(tokens, n)
<1>2. AtComparison(ts, tokens, n)
  BY <1>1, EachComparison
<1>3. PICK B \in Seq(Tokens), W \in Seq(Tokens), P \in Seq(KeySets), Q \in Seq(KeySets) :
        /\ WaitsForEnd(tokens, n, B, P) /\ WaitsForComparison(tokens, n, B, P, W, Q)
        /\ s.stack = Push(W, c)
        /\ Done(ts, s.out) = Left(Push(Push(ts, tokens[4 * n - 3]), tokens[4 * n - 1]), Q)
  BY <1>2 DEF AtComparison
<1>4. s = Folded("recursive_decent", [out |-> <<>>, stack |-> <<>>], tokens) /\ s.out \in Seq(Tokens)
  <2> DEFINE base == [out |-> <<>>, stack |-> <<>>]
  <2>1. base \in Shunting
    BY DEF Shunting
  <2>2. \A r \in Shunting, e \in Tokens : Round("recursive_decent", r, e) \in Shunting
    BY ShuntKeepsType, Rounds
  <2> HIDE DEF base
  <2>3. Folded("recursive_decent", base, tokens) \in Shunting
    BY <2>1, <2>2, FoldKeeps
  <2>4. After("recursive_decent", base, tokens, Len(tokens)) = Folded("recursive_decent", base, tokens)
    BY AfterNoneAndAll
  <2>5. s = Folded("recursive_decent", base, tokens)
    BY <1>1, <2>4 DEF Shunted, base
  <2> HIDE DEF s
  <2> QED
    BY <2>3, <2>5 DEF base, Shunting
<1>5. PICK more \in Seq(Tokens) :
        Done(ts, more) = Left(ts, Push(P, L)) /\ Flush(s.out, Push(W, c)) = Flush(more, B)
  <2>1. WaitsForComparison(tokens, n, B, P, W, Q)
    BY <1>3
  <2>2. Done(ts, s.out) = Left(Push(Push(ts, tokens[4 * n - 3]), tokens[4 * n - 1]), Q)
    BY <1>3
  <2>3. Comparison(tokens, n)
    BY <1>1
  <2> HIDE DEF s
  <2>4. \E more \in Seq(Tokens) : Closed(ts, tokens, n, B, P, s.out, Push(W, tokens[4 * n - 2]), more)
    BY <1>4, <2>1, <2>2, <2>3, AlternativeCloses
  <2> QED
    BY <2>4 DEF Closed
<1>6. Done(ts, Flush(more, B)) = Left(ts, Push(<<>>, E \cup L))
  <2>1. WaitsForEnd(tokens, n, B, P)
    BY <1>3
  <2>2. Done(ts, more) = Left(ts, Push(P, MeetingLast(tokens, n)))
    BY <1>5
  <2> HIDE DEF s, c, L, E
  <2>3. Done(ts, Flush(more, B)) = Ended(ts, tokens, n)
    BY <2>1, <2>2, EndCloses
  <2> QED
    BY <2>3 DEF Ended, L, E
<1> HIDE DEF s, c, L, E
<1>7. recursive_decent(tokens) = Flush(more, B)
  <2>1. recursive_decent(tokens) = s.out \o Reverse(s.stack)
    BY <1>4, ShuntFolds DEF recursive_decent
  <2> QED
    BY <1>3, <1>5, <2>1 DEF Flush
<1>8. E \cup L = {k \in 1..key_ : Means(tokens, cityDB_[k])}
  <2>1. \A e \in 1..n - 1 : tokens[4 * e].type \in {"AND", "OR"}
    BY <1>1 DEF Joint
  <2>2. E \cup L = MeetingSome(tokens, n)
    BY <2>1, MeetingEarlierOrLast DEF E, L
  <2>3. MeetingSome(tokens, n) = {k \in 1..key_ : Means(tokens, cityDB_[k])}
    BY <1>1, <2>1, MeetingIsMeant
  <2> QED
    BY <2>2, <2>3
<1>9. FoldLeft(Evaluate, Left(ts, <<>>), recursive_decent(tokens)) = Done(ts, recursive_decent(tokens))
  BY EvaluateFolds DEF Done
<1> QED
  BY <1>6, <1>7, <1>8, <1>9

\* So it returns, with the names of these, and the stacks as they were.
LEMMA QueryAnswers ==
  ASSUME IInv, ~cityAborted, NEW tokens \in Seq(Tokens), WellFormed(tokens), query(tokens)
  PROVE  /\ answer' = [query |-> tokens, names |-> {c \in Cities : Means(tokens, c)}]
         /\ ~cityAborted' /\ resultStack_' = resultStack_ /\ tokenStack_' = tokenStack_
<1> DEFINE M == {k \in 1..key_ : Means(tokens, cityDB_[k])}
           one == Push(<<>>, M)
           s == FoldLeft(Evaluate, [tokens |-> tokenStack_, results |-> resultStack_, ok |-> TRUE],
                         recursive_decent(tokens))
<1>1. tokenStack_ \in Seq(Operands) /\ resultStack_ = <<>> /\ Keyed /\ Exact(Indexes, Climate)
  BY DEF IInv, StacksTyped
<1>2. s = Left(tokenStack_, one)
  <2>1. FoldLeft(Evaluate, Left(tokenStack_, <<>>), recursive_decent(tokens)) = Left(tokenStack_, one)
    BY <1>1, QueryIsMeant
  <2> HIDE DEF one
  <2> QED
    BY <1>1, <2>1 DEF Left
<1>3. Len(one) = 1 /\ Last(one) = M /\ Front(one) = <<>>
  <2> HIDE DEF M
  <2>1. one \in Seq({M}) /\ Len(one) = 1 /\ one[1] = M
    BY DEF Push
  <2> HIDE DEF one
  <2>2. Len(one) - 1 = 0 /\ SubSeq(one, 1, 0) = <<>>
    BY <2>1
  <2> QED
    BY <2>1, <2>2 DEF Last, Front
<1> HIDE DEF one, M
<1>4. s.ok /\ s.results = one /\ s.tokens = tokenStack_
  <2> HIDE DEF s
  <2> QED
    BY <1>2 DEF Left
<1>5. /\ tokenStack_' = s.tokens
      /\ s.ok /\ Len(s.results) = 1 =>
           /\ answer' = [query |-> tokens, names |-> {cityDB_[k] : k \in Last(s.results)}]
           /\ resultStack_' = Front(s.results)
           /\ cityAborted' = (resultStack_' # <<>>)
  BY DEF query, Answered
<1> HIDE DEF s
<1>6. {cityDB_[k] : k \in M} = {c \in Cities : Means(tokens, c)}
  <2>1. /\ \A k \in 1..key_ : cityDB_[k] \in Cities
        /\ \A c \in Cities : \E k \in 1..key_ : cityDB_[k] = c
    BY <1>1, ClimateTyped DEF Keyed, ToSet
  <2> QED
    BY <2>1 DEF M
<1> QED
  BY <1>1, <1>3, <1>4, <1>5, <1>6
-----------------------------------------------------------------------------
(* The theorems about queries *)

\* The invariant, with a name for the query that has returned.
AnswerMeant ==
  answer # NoAnswer /\ WellFormed(answer.query) =>
    /\ ~cityAborted
    /\ \E q : q = answer.query /\ answer.names = {c \in Cities : Means(q, c)}

LEMMA MeaningKept ==
  ASSUME cityObjectDB_' = cityObjectDB_, NEW q
  PROVE  {c \in Cities : Means(q, c)}' = {c \in Cities : Means(q, c)}
BY DEF Cities, Means, Holds

LEMMA NextAnswers == IInv /\ AnswerMeant /\ [NextCity]_cityVars => AnswerMeant'
<1> SUFFICES ASSUME IInv, AnswerMeant, [NextCity]_cityVars PROVE AnswerMeant'
  OBVIOUS
<1>1. ASSUME ~cityAborted, NEW tokens \in Queries, query(tokens) PROVE AnswerMeant'
  <2>1. tokens \in Seq(Tokens)
    BY CityAssumption
  <2>2. cityObjectDB_' = cityObjectDB_ /\ answer'.query = tokens
    BY <1>1 DEF query, database
  <2>3. CASE WellFormed(tokens)
    <3>1. answer' = [query |-> tokens, names |-> {c \in Cities : Means(tokens, c)}] /\ ~cityAborted'
      BY <1>1, <2>1, <2>3, QueryAnswers
    <3>2. answer'.names = {c \in Cities : Means(tokens, c)}'
      BY <2>2, <3>1, MeaningKept
    <3> QED
      BY <2>2, <3>1, <3>2 DEF AnswerMeant
  <2>4. CASE ~WellFormed(tokens)
    BY <2>2, <2>4 DEF AnswerMeant
  <2> QED
    BY <2>3, <2>4
<1>2. ASSUME answer' = NoAnswer PROVE AnswerMeant'
  BY <1>2 DEF AnswerMeant
<1>3. ASSUME UNCHANGED cityVars PROVE AnswerMeant'
  <2>1. answer' = answer /\ cityAborted' = cityAborted /\ cityObjectDB_' = cityObjectDB_
    BY <1>3 DEF cityVars, database
  <2> SUFFICES ASSUME answer # NoAnswer, WellFormed(answer.query)
               PROVE  ~cityAborted /\ \E q : q = answer.query /\ answer.names = {c \in Cities : Means(q, c)}'
    BY <2>1 DEF AnswerMeant
  <2>2. PICK q : q = answer.query /\ answer.names = {c \in Cities : Means(q, c)}
    BY DEF AnswerMeant
  <2>3. {c \in Cities : Means(q, c)}' = {c \in Cities : Means(q, c)}
    BY <2>1, MeaningKept
  <2> QED
    BY <2>2, <2>3 DEF AnswerMeant
<1>4. ASSUME NextCity
      PROVE  answer' = NoAnswer \/ \E tokens \in Queries : ~cityAborted /\ query(tokens)
  BY <1>4 DEF NextCity, addCity, save, load, construct
<1> QED
  BY <1>1, <1>2, <1>3, <1>4

\* A well-formed query returns, and names exactly the cities it means: whatever
\* cities there are, from a file or one by one, whatever numbers the query
\* compares with and however many comparisons && and || join, and whatever
\* earlier queries have left on the stacks.
THEOREM QueriesAnswerTheirMeaning == SpecCity => []AnswersAreMeant
<1>1. InitCity => IInv /\ AnswerMeant
  BY InitInvariant DEF InitCity, AnswerMeant
<1>2. IInv /\ AnswerMeant /\ [NextCity]_cityVars => (IInv /\ AnswerMeant)'
  BY NextInvariant, NextAnswers
<1>3. AnswerMeant => AnswersAreMeant
  BY DEF AnswerMeant, AnswersAreMeant
<1> QED
  BY <1>1, <1>2, <1>3, PTL DEF SpecCity

\* It leaves both stacks as it found them.
THEOREM QueriesCleanUp == SpecCity => QueriesLeaveNothing
<1> DEFINE Clean == answer' # answer /\ answer' # NoAnswer /\ WellFormed(answer'.query) =>
                      resultStack_' = resultStack_ /\ tokenStack_' = tokenStack_
<1>1. InitCity => IInv
  BY InitInvariant
<1>2. IInv /\ [NextCity]_cityVars => IInv'
  BY NextInvariant
<1>3. IInv /\ [NextCity]_cityVars => [Clean]_cityVars
  <2> SUFFICES ASSUME IInv, NextCity, answer' # NoAnswer, WellFormed(answer'.query)
               PROVE  resultStack_' = resultStack_ /\ tokenStack_' = tokenStack_
    OBVIOUS
  <2>1. PICK tokens \in Queries : ~cityAborted /\ query(tokens)
    BY DEF NextCity, addCity, save, load, construct
  <2>2. tokens \in Seq(Tokens) /\ answer'.query = tokens
    BY <2>1, CityAssumption DEF query
  <2> QED
    BY <2>1, <2>2, QueryAnswers
<1> QED
  BY <1>1, <1>2, <1>3, PTL DEF SpecCity, QueriesLeaveNothing
=============================================================================
