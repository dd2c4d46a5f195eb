------------------------------ MODULE Exercises -------------------------------
(***************************************************************************)
(* The programs of one thread, each run by itself: the circular list and   *)
(* the city database, which are state machines, and the pure algorithms,   *)
(* of each of which a behaviour is the choice of one input and which are   *)
(* checked against what they are meant to compute.                         *)
(***************************************************************************)
EXTENDS CircularList, CityDB, Dates, Sorting, Optimizing, Trees, Primes, Batches, Iterators,
        Strings, Chunkers

Calc == INSTANCE Calculator

CONSTANT NoInput

VARIABLE input      \* of the one algorithm that is run, or of the database

SeqsUpTo(S, n) == UNION {[1..k -> S] : k \in 0..n}

\* Bounds, algorithm by algorithm.

Dates_ == {[year |-> y, month |-> m, day |-> d] :
             y \in {1899, 1900, 2000, 2001, 2004}, m \in {0, 1, 2, 11}, d \in {1, 28, 29, 31}}
ValidDates == {d \in Dates_ : d.day <= DaysInMonth(d, d.month)}

Increasing(s) == \A i, j \in DOMAIN s : i <= j => s[i] <= s[j]

Objects_ == {[weight |-> w, value |-> v] : w \in {1, 2, 3}, v \in {1, 2, 4}}
ByWeight == {s \in SeqsUpTo(Objects_, 3) : Increasing([i \in DOMAIN s |-> s[i].weight])}

\* Every debt between three persons.
Graphs_ == {g \in [1..3 -> [1..3 -> {0, 1, 3}]] : \A p \in 1..3 : g[p][p] = 0}

\* A number that fits, one that does not, and one that stays in range twice.
Integer(n) == [type |-> "integer", value |-> n]
Sign(type) == [type |-> type, value |-> 0]
AnyTexts == SeqsUpTo({Integer(0), Integer(3), Integer(200), Sign("plus"), Sign("divide"), Sign("unknown")}, 4)
Operands == {Integer(n) : n \in {0, 3, 12, 100}}
Signs == {Sign(type) : type \in Calc!Operators}
Formulas == {<<a, f, b, g, c>> : a, b, c \in Operands, f, g \in Signs}

\* Intervals of which some fill a word of the vector, alone and with a greater one.
IntervalEnds == (1..40) \cup {66, 67}
Intervals == {i \in [of : {"primes"}, start : 1..30, end : IntervalEnds, max_end : IntervalEnds] :
                i.start <= i.end /\ i.max_end \in {i.end, 67}}

\* A char outside ASCII, a space and two letters.
Space == 0
Strings_(n) == SeqsUpTo({-1, Space, 1, 2}, n)

\* Values of two chars in CharacterHash's table, without and with collisions.
HashTables == {<<0, 0>>, <<1, 3>>, <<2, 5>>, <<7, 1>>}

Inputs ==
  [of : {"date"}, a : ValidDates, b : ValidDates]
  \cup [of : {"sort"}, elements : SeqsUpTo(1..3, 5)]
  \cup [of : {"hanoi"}, disks : 0..6]
  \cup [of : {"coins"}, denoms : {SetToSortSeq(D, <) : D \in SUBSET (1..6) \ {{}}}, value : 0..9]
  \cup [of : {"knapsack"}, objects : ByWeight, weight : 0..5]
  \cup [of : {"subset"}, elements : {s \in SeqsUpTo(1..5, 4) : Increasing(s)}, sum : 1..10,
        beyond : {0, 3, 255}]
  \cup [of : {"tree"}, elements : SeqsUpTo(1..4, 5)]
  \cup Intervals
  \cup [of : {"batches"}, metaMap : SeqsUpTo({<<>>, <<1>>, <<2, 3>>}, 4)]
  \cup [of : {"range"}, from : 0..7, to : 0..7]
  \cup [of : {"debts"}, graph : Graphs_]
  \cup [of : {"calculate"}, text : AnyTexts \cup Formulas]
  \cup [of : {"string"}, str : Strings_(4)]
  \cup [of : {"strings"}, s1 : Strings_(3), s2 : Strings_(3)]
  \cup [of : {"match"}, text : SeqsUpTo({1, 2}, 5), match : SeqsUpTo({1, 2}, 2), table : HashTables]
  \cup [of : {"chunk"}, values : SeqsUpTo(0..1, 7), min : {0, 1, 2}, max : {2, 4}]
  \cup [of : {"city"}]

vars == <<listVars, cityVars, input>>

Init == InitList /\ InitCity /\ input = NoInput

\* Before the list is begun; whatever its length, and so for one of them.
Choose ==
  /\ pc = "PushBack" /\ size = 0 /\ input = NoInput /\ nelements = 1
  /\ input' \in Inputs
  /\ UNCHANGED <<listVars, cityVars>>

RunList ==
  /\ input = NoInput
  /\ NextList
  /\ UNCHANGED <<cityVars, input>>

RunCity ==
  /\ input # NoInput /\ input.of = "city"
  /\ NextCity
  /\ UNCHANGED <<listVars, input>>

Next == Choose \/ RunList \/ RunCity

\* main of the circular list runs alone, so that it goes on.
Spec == Init /\ [][Next]_vars /\ WF_vars(RunList)
-----------------------------------------------------------------------------
(* Reference definitions *)

Of(algorithm) == input # NoInput /\ input.of = algorithm

Sorted(s) == SortSeq(s, <=)

\* The sums that n coins make.
SumsOf(denoms, n, value) ==
  LET sums[k \in 0..n] ==
        IF k = 0 THEN {0} ELSE {s \in {t + d : t \in sums[k - 1], d \in denoms} : s <= value}
  IN sums[n]

LeastCoins(denoms, value) ==
  Min({n \in 0..value : value \in SumsOf(denoms, n, value)} \cup {value + 1})

Total(s, chosen) == FoldLeft(LAMBDA a, i : IF i \in chosen THEN a + s[i] ELSE a, 0, [i \in DOMAIN s |-> i])
-----------------------------------------------------------------------------
(* Properties *)

\* date.cpp: whenever a difference comes back it is the days from one date to
\* the other, over months and leap years; and it comes back unless each date
\* counts as later than the other.
DifferenceIsDays == Of("date") => IsDifference(input.a, input.b)

\* Quickselect leaves the element of each rank at its place, with what is less
\* before it and what is more behind.
Selected(s) ==
  \A index \in DOMAIN s :
    LET vec == QuickSelect(s, 1, Len(s), index)
    IN /\ Sorted(vec) = Sorted(s)
       /\ vec[index] = Sorted(s)[index]
       /\ \A i, j \in DOMAIN vec : i <= index /\ index <= j => vec[i] <= vec[j]

\* The towers once main has moved n disks.
Arrived(n) ==
  LET disks == [i \in 1..n |-> n + 1 - i]
  IN TowerOfHannoi(n, [t1 |-> disks, t2 |-> <<>>, t3 |-> <<>>, threw |-> FALSE],
                   "t1", "t3", "t2", n)
       = [t1 |-> <<>>, t2 |-> <<>>, t3 |-> disks, threw |-> FALSE]

\* Quicksort sorts, and loses and makes up nothing; so do PriorityQueue.cpp,
\* whether elements are pushed or made a heap at once, and the second stack of
\* SortStack.cpp: what moves back and forth always finds room in a stack of the
\* first one's size.  Quickselect selects.  And TowerOfHanoi.cpp puts no disk on
\* a smaller one (PushDisk would throw), and all of them on the other tower.
SortingSorts ==
  /\ Of("sort") =>
       LET s == input.elements IN
       /\ QuickSort(s, 1, Len(s)) = Sorted(s)
       /\ Selected(s)
       /\ Drained("max", Pushed("max", s)) = Reverse(Sorted(s))
       /\ Drained("min", Pushed("min", s)) = Sorted(s)
       /\ Drained("max", Heapify("max", s)) = Reverse(Sorted(s))
       /\ SortStack(s, <<>>, Len(s)) = Sorted(s)
  /\ Of("hanoi") => Arrived(input.disks)

\* Coin.cpp gives change with the fewest coins when there is change, and its
\* assert holds.
CoinsAreFewest(denoms, value) ==
  LET coins == GetCoins(denoms, BuildCoinTable(denoms, value), value)
      least == LeastCoins(ToSet(denoms), value)
  IN IF least > value THEN coins = <<>>
     ELSE Len(coins) = least /\ Total(coins, DOMAIN coins) = value
            /\ ToSet(coins) \subseteq ToSet(denoms)

\* DPCoin.cpp finds the same numbers of coins, and main's walk over the
\* predecessors stays in their table when there is change.
PredecessorsReachZero(denoms, value) ==
  LET coins == DPCoin(denoms, value)
      path == Predecessors(coins, coins[value].pred)
  IN /\ \A v \in 0..value :
          LET least == LeastCoins(ToSet(denoms), v)
          IN coins[v].count = IF least <= v THEN least ELSE value + 1
     /\ coins[value].count <= value =>
          Last(path) = 0 /\ (value > 0 => Len(path) = coins[value].count)

\* Knapsack-01.cpp packs each object once at most, within the limit, and no
\* packing is worth more; its assert holds.
KnapsackIsBest(objects, limit) ==
  LET packed == GetObjects(objects, BuildTable(objects, limit), limit)
      Weight(chosen) == Total([i \in DOMAIN objects |-> objects[i].weight], chosen)
      Value(chosen) == Total([i \in DOMAIN objects |-> objects[i].value], chosen)
  IN /\ Cardinality(ToSet(packed)) = Len(packed) /\ ToSet(packed) \subseteq DOMAIN objects
     /\ Weight(ToSet(packed)) <= limit
     /\ \A chosen \in SUBSET DOMAIN objects :
          Weight(chosen) <= limit => Value(chosen) <= Value(ToSet(packed))

\* SubsetSum.cpp finds exactly the subsets with the sum, its bounding function
\* cuts off none, and the word behind the vector that it reads does no harm,
\* unless that word is so large that adding it wraps around.  SumOfSubset.cpp
\* tells in its last row which sums the elements make.
SubsetsAreFound(elements, sum, beyond) ==
  LET search == [numbers |-> elements, sum |-> sum, beyond |-> beyond, width |-> 8]
      table == SumTable(elements, sum)
      With(s) == {chosen \in SUBSET DOMAIN elements : Total(elements, chosen) = s}
  IN /\ beyond < 255 => SubsetSum(search) = With(sum)
     /\ elements # <<>> => \A s \in 0..sum : table[Len(elements), s] = (With(s) # {})

\* temp.c settles all debts, each payment from a debtor to a creditor, with as
\* few payments as three persons can do with.
DebtsAreSettled(graph) ==
  LET payments == minCashFlow(graph)
      Paid(p) == FoldLeft(LAMBDA a, y : a + (IF y.from = p THEN y.sum ELSE 0)
                                          - (IF y.to = p THEN y.sum ELSE 0), 0, payments)
      Owes(p) == Total(graph[p], DOMAIN graph) - Total([q \in DOMAIN graph |-> graph[q][p]], DOMAIN graph)
      involved == {p \in DOMAIN graph : Owes(p) # 0}
  IN /\ \A p \in DOMAIN graph : Paid(p) = Owes(p)
     /\ \A i \in DOMAIN payments :
          payments[i].sum > 0 /\ Owes(payments[i].from) > 0 /\ Owes(payments[i].to) < 0
     /\ Len(payments) = Max({0, Cardinality(involved) - 1})

\* The tables, the walks back through them and the search find the fewest coins,
\* the best packing, all subsets of a sum, and the fewest payments.
OptimaFound ==
  /\ Of("coins") => CoinsAreFewest(input.denoms, input.value)
                       /\ PredecessorsReachZero(input.denoms, input.value)
  /\ Of("knapsack") /\ input.objects # <<>> => KnapsackIsBest(input.objects, input.weight)
  /\ Of("subset") => SubsetsAreFound(input.elements, input.sum, input.beyond)
  /\ Of("debts") => DebtsAreSettled(input.graph)

\* BinaryTree.h: the inorder walk of a search tree is sorted; that of any tree
\* meets each node once and comes to its end; and a tree filled breadth first,
\* in whatever order, is balanced and of least height, and its breadth-first
\* walk meets the nodes as they came.  (IsEmpty is right of larger trees only.)
TreesAreOrdered(elements) ==
  LET bst == FoldLeft(BSTInsert, EmptyTree, elements)
      full == FoldLeft(BinaryTreeInsert, EmptyTree, elements)
      balanced == InsertSorted(EmptyTree, Sorted(elements), 0, Len(elements) - 1)
      Data(tree) == [i \in DOMAIN Inorder(tree) |-> tree.data[Inorder(tree)[i]]]
  IN /\ Data(bst) = Sorted(elements)
     /\ \A tree \in {full, balanced} :
          /\ Sorted(Data(tree)) = Sorted(elements)
          /\ Sorted(Inorder(tree)) = [n \in Nodes(tree) |-> n]
          /\ IsBalanced(tree)
          /\ elements # <<>> =>
               /\ 2 ^ (Height(tree, 1) - 1) <= Len(elements)
               /\ BfsWalk(tree, BfsIterator(tree, 1)) = [n \in Nodes(tree) |-> n]
     /\ \A tree \in {bst, full, balanced} :
          IsEmpty(tree) = CASE Len(elements) = 0 -> "null" [] Len(elements) = 1 -> "yes"
                            [] OTHER -> "no"

\* SPOJ/prime1: what PrintsPrimes says.  The old program prints the primes of
\* any interval; the next one prints nothing else, whatever other intervals it is
\* asked for with it; and each of the two that sieve just the interval prints
\* all of them when the end is of the parity it can do with.
SievesPrintPrimes == Of("primes") => PrintsPrimes(input.start, input.end, input.max_end)

\* "For every test case print all prime numbers p such that m <= p <= n"
\* (prime1.cpp:13).
AllPrimesArePrinted == Of("primes") => PrintsAllPrimes(input.start, input.end, input.max_end)

\* MetaBatchesMapInputIterator: as far as the walk goes it meets the elements,
\* vector after vector; when it comes to the end it has met all of them; and it
\* reads behind a vector just when it has come to an empty one.
BatchesAreVisited(metaMap) ==
  LET all == FlattenSeq(metaMap)
      empty == {k \in DOMAIN metaMap : metaMap[k] = <<>>}
  IN \A w \in Walks(metaMap, Begin(metaMap)) :
       /\ IsPrefix(w.met, all)
       /\ w.ends = "end" => w.met = all /\ empty = {}
       /\ w.ends = "outside" =>
            empty # {} /\ w.met = FlattenSeq(SubSeq(metaMap, 1, Min(empty) - 1))

\* num_range, linklist: from a number to a later one each number in between; a
\* list backwards.
ListsAreWalked(elements) ==
  Listed(FoldLeft(Add, NewList, elements)) = Reverse(elements)

RangesAreWalked(from, to) ==
  LET walked == NumRange(from, to, 3)
  IN /\ from <= to => walked = [i \in 1..to - from |-> from + i - 1]
     /\ to \notin ToSet(walked) /\ Cardinality(ToSet(walked)) = Len(walked)

\* The iterators over trees, batches, lists and ranges meet all there is, in order.
WalksMeetAll ==
  /\ Of("tree") => TreesAreOrdered(input.elements)
  /\ Of("batches") => BatchesAreVisited(input.metaMap)
  /\ Of("tree") => ListsAreWalked(input.elements)
  /\ Of("range") => RangesAreWalked(input.from, input.to)
-----------------------------------------------------------------------------
(* The calculator *)

WellFormedText(text) ==
  /\ Len(text) % 2 = 1
  /\ \A i \in DOMAIN text : IF i % 2 = 1 THEN text[i].type = "integer" /\ text[i].value <= Calc!MaxInt
                             ELSE text[i].type \in Calc!Operators

\* The quotient and remainder of least magnitude: the remainder is of a's sign.
Division(a, b) ==
  CHOOSE d \in [q : Calc!MinInt..Calc!MaxInt, r : 1 - b..b - 1] : a = d.q * b + d.r /\ d.r * a >= 0

\* What two numbers give, as the set of one number, or none: not in range, or
\* divided by zero.
Fitting(n) == {n} \cap (Calc!MinInt..Calc!MaxInt)
\* From the exponent Bits on, which is even, all is out of range but powers of
\* 0, 1 and -1.
Power(a, n) ==
  LET p[k \in 0..Calc!Bits + 1] == IF k = 0 THEN {1} ELSE UNION {Fitting(m * a) : m \in p[k - 1]}
  IN p[IF n <= Calc!Bits THEN n ELSE Calc!Bits + (n % 2)]
Result(type, a, b) ==
  CASE type = "plus" -> Fitting(a + b) [] type = "minus" -> Fitting(a - b)
    [] type = "multiply" -> Fitting(a * b) [] type = "power" -> Power(a, b)
    [] type = "divide" -> IF b = 0 THEN {} ELSE {Division(a, b).q}
    [] type = "mod" -> IF b = 0 THEN {} ELSE {Division(a, b).r}

LeftToRight(text) ==
  FoldLeft(LAMBDA so, k : UNION {Result(text[2 * k].type, a, text[2 * k + 1].value) : a \in so},
           {text[1].value}, [k \in 1..(Len(text) \div 2) |-> k])

\* Calculator.cpp gives a value only for a whole line of integers with an operator
\* between any two, although nothing reports an unknown character: the token
\* that comes again in its place always meets an assert.  And when no result on
\* the way is out of range, the value is that from left to right.
CalculatesLeftToRight ==
  Of("calculate") =>
    LET end == Calc!Expr(input.text)
    IN /\ end.ends = "value" => WellFormedText(input.text)
       /\ WellFormedText(input.text) =>
            LET meant == LeftToRight(input.text)
            IN /\ \A n \in meant : end = Calc!Value(n)
               /\ end.ends = "value" \/ (meant = {} /\ Integer(0) \in ToSet(input.text))
-----------------------------------------------------------------------------
(* Strings *)

IsAscii(str) == \A i \in DOMAIN str : str[i] >= 0

FirstOccurrences(str) ==
  LET first == {i \in DOMAIN str : \A j \in 1..i - 1 : str[j] # str[i]}
  IN [k \in 1..Cardinality(first) |-> str[SetToSortSeq(first, <)[k]]]

Bijections(n) == {f \in [1..n -> 1..n] : \A i, j \in 1..n : f[i] = f[j] => i = j}
Rearranged(str, f) == [i \in DOMAIN str |-> str[f[i]]]

\* Permute gives each arrangement as often as there are ways to it, and leaves
\* the string as it was.
PermutationsAreAll(str) ==
  LET all == Permutations_(str)
      Ways(s) == {f \in Bijections(Len(str)) : Rearranged(str, f) = s}
      Times(s) == {k \in DOMAIN all.result : all.result[k] = s}
  IN /\ all.chars = str
     /\ str # <<>> => /\ \A f \in Bijections(Len(str)) :
                           LET s == Rearranged(str, f) IN Cardinality(Times(s)) = Cardinality(Ways(s))
                       /\ Len(all.result) = Cardinality(Bijections(Len(str)))

\* What is done in place reads each char before it is overwritten; and what
\* goes by bits or counts agrees with what does not, for ASCII, and throws
\* otherwise.
StringIsEdited(str) ==
  LET once == FirstOccurrences(str) IN
  /\ ReverseString(str) = Reverse(str)
  /\ Replace(str, Space, <<7, 8, 9>>)
       = FlattenSeq([i \in DOMAIN str |-> IF str[i] = Space THEN <<7, 8, 9>> ELSE <<str[i]>>])
  /\ RemoveDuplicateNoBuffer(str) = once
  /\ RemoveDuplicate(str) = IF IsAscii(str) THEN once ELSE Threw
  /\ HasUniqueCharacters(str) \in {"threw", IF once = str THEN "unique" ELSE "repeated"}
  /\ IsAscii(str) => HasUniqueCharacters(str) # "threw"

StringsAreCompared(s1, s2) ==
  LET anagrams == Len(s1) = Len(s2) /\ \E f \in Bijections(Len(s1)) : Rearranged(s1, f) = s2
      rotated == \E k \in 0..Len(s1) : s2 = SubSeq(s1, k + 1, Len(s1)) \o SubSeq(s1, 1, k)
  IN /\ IsAnagramUsingSort(s1, s2) = anagrams
     /\ ~CountsOutside(s1) /\ ~CountsOutside(s2) => IsAnangram(s1, s2) = anagrams
     /\ IsRotation(s1, s2) = rotated

\* The hash that rolls is that of the window, so that no match is passed over.
MatchesAreFound(table, text, match) ==
  LET n == Len(match)
      At(out, k) == SubSeq(text, out + 1, out + k)
  IN /\ Matches(table, text, match) = {out \in 0..Len(text) - n : At(out, n) = match}
     /\ \A out \in 0..Len(text) - n : WindowHashes(table, text, n)[out] = GetStringHash(table, At(out, n))
     /\ \A i \in 1..Len(text) - 3 : PrintedHashes(table, text)[i] = GetStringHash(table, At(i, 3))

\* BSW cuts where the hash says so, but not before min + 2 bytes, and after max + 1
\* at the latest; only the end of a buffer is not ready.
ChunkIsCut(values, min, max) ==
  LET cut == Chunkify(values, min, max, 1)
      Ends(n) == values[n] = 0
  IN IF cut.ready
     THEN /\ cut.taken \in min + 2..Max({min + 2, max + 1})
          /\ Ends(cut.taken) \/ cut.taken > max
          /\ \A n \in min + 2..cut.taken - 1 : ~Ends(n)
     ELSE cut.taken = Len(values) /\ Len(values) <= Max({min + 1, max})

\* BasicDS/String and the chunkers of BasicDS/CDC that are not in use.
StringsAreHandled ==
  /\ Of("string") => StringIsEdited(input.str) /\ PermutationsAreAll(input.str)
  /\ Of("strings") => StringsAreCompared(input.s1, input.s2)
  /\ Of("match") => MatchesAreFound(input.table, input.text, input.match)
  /\ Of("chunk") => ChunkIsCut(input.values, input.min, input.max)
=============================================================================
