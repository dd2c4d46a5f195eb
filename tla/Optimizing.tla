----------------------------- MODULE Optimizing -----------------------------
(***************************************************************************)
(* BasicDS: making change (Coin.cpp, DPCoin.cpp), the knapsack             *)
(* (Knapsack-01.cpp) and subsets of a given sum (SumOfSubset.cpp,          *)
(* SubsetSum.cpp); and settling debts (temp.c).  A table is a function;    *)
(* indices of objects start at 1, so that row 0 is the missing row before  *)
(* the first.                                                              *)
(***************************************************************************)
EXTENDS Integers, Sequences, SequencesExt, FiniteSetsExt

(* Coin.cpp: denoms is increasing *)

BuildCoinTable(denoms, value) ==
  LET table[d \in 0..Len(denoms), c \in 0..value] ==
        IF c = 0 THEN 0 ELSE IF d = 0 THEN value + 1
        ELSE IF c < denoms[d] THEN table[d - 1, c]
        ELSE Min({table[d - 1, c], table[d, c - denoms[d]] + 1})
  IN table

AssertFails == <<-1>>

\* The loop of GetCoins, from a row and a rest.
RECURSIVE CoinsFrom(_, _, _, _)
CoinsFrom(denoms, table, d, v) ==
  IF v = 0 THEN <<>>
  ELSE IF d > 1 /\ table[d, v] = table[d - 1, v] THEN CoinsFrom(denoms, table, d - 1, v)
  ELSE IF v < denoms[d] THEN AssertFails
  ELSE <<denoms[d]>> \o CoinsFrom(denoms, table, d, v - denoms[d])

\* No coins are given when there is no change, nor for the value 0.
GetCoins(denoms, table, value) ==
  IF table[Len(denoms), value] > value THEN <<>>
  ELSE CoinsFrom(denoms, table, Len(denoms), value)

(* DPCoin.cpp *)

\* For each value the least number of coins and the value before the last coin:
\* value + 1 coins and a predecessor of v + 1 where there is no change.
DPCoin(denoms, value) ==
  LET coins[v \in 0..value] ==
        IF v = 0 THEN [count |-> 0, pred |-> 0]
        ELSE FoldLeft(LAMBDA best, d : IF v < d \/ best.count <= coins[v - d].count + 1 THEN best
                                       ELSE [count |-> coins[v - d].count + 1, pred |-> v - d],
                      [count |-> value + 1, pred |-> v + 1], denoms)
  IN coins

\* Main's walk over the predecessors: the indices it looks at.
RECURSIVE Predecessors(_, _)
Predecessors(coins, v) ==
  IF v = 0 THEN <<0>>
  ELSE IF v \notin DOMAIN coins THEN <<v>>
  ELSE <<v>> \o Predecessors(coins, coins[v].pred)
-----------------------------------------------------------------------------
(* Knapsack-01.cpp: an object is [weight, value] *)

Impossible == -1000      \* numeric_limits<int32_t>::min()

\* Column 0 stays as it was initialised: 0.
BuildTable(objects, weight) ==
  LET table[i \in 0..Len(objects), j \in 0..weight] ==
        IF i = 0 \/ j = 0 THEN 0
        ELSE LET object == objects[i]
                 without == IF j < object.weight THEN Impossible ELSE table[i - 1, j - object.weight]
             IN Max({table[i - 1, j], without + object.value})
  IN table

\* The loop of GetObjects: an object that was taken is left behind since the
\* rest of the value is the value of the row before.
RECURSIVE ObjectsFrom(_, _, _, _, _)
ObjectsFrom(objects, table, i, weight, value) ==
  IF weight = 0 \/ value = 0 THEN <<>>
  ELSE IF value = table[i - 1, weight] THEN ObjectsFrom(objects, table, i - 1, weight, value)
  ELSE IF weight < objects[i].weight THEN AssertFails
  ELSE <<i>> \o ObjectsFrom(objects, table, i, weight - objects[i].weight, value - objects[i].value)

\* The indices of the objects; their order is left out.
GetObjects(objects, table, weight) ==
  IF table[Len(objects), weight] <= 0 THEN <<>>
  ELSE ObjectsFrom(objects, table, Len(objects), weight, table[Len(objects), weight])
-----------------------------------------------------------------------------
(* SumOfSubset.cpp *)

\* Get is false outside the table.
SumTable(elements, expected) ==
  LET table[i \in 0..Len(elements), j \in 0..expected] ==
        i > 0 /\ \/ j = 0 \/ elements[i] = j \/ table[i - 1, j]
                 \/ j >= elements[i] /\ table[i - 1, j - elements[i]]
  IN table

(* SubsetSum.cpp.  A search is [numbers, sum, beyond, width]: beyond is the  *)
(* word behind the vector, which the code reads, and sums are of width bits. *)

Wrapped(search, n) == n % 2 ^ search.width

NumberAt(search, index) ==
  IF index <= Len(search.numbers) THEN search.numbers[index] ELSE search.beyond

OutOfRange == {0}      \* a number that is not there was taken

\* Variant of Prunes: what is still to come is not looked at.
PrunesLarge(search, current_sum, pending, index) ==
  Wrapped(search, current_sum + NumberAt(search, index + 1)) >= search.sum

\* The bounding function.
Prunes(search, current_sum, pending, index) ==
  \/ Wrapped(search, current_sum + pending) < search.sum
  \/ Wrapped(search, current_sum + NumberAt(search, index + 1)) > search.sum

\* Compute: the results, as sets of indices, of a search that has taken the
\* given ones and now takes, then leaves, the number at index.
RECURSIVE Subsets(_, _, _, _, _)
Subsets(search, taken, current_sum, index, pending) ==
  IF index > Len(search.numbers) THEN {OutOfRange}
  ELSE
    LET x == search.numbers[index]
        rest == pending - x
        sum == Wrapped(search, current_sum + x)
        With == IF sum = search.sum THEN {taken \cup {index}}
                ELSE IF Wrapped(search, sum + NumberAt(search, index + 1)) <= search.sum
                THEN Subsets(search, taken \cup {index}, sum, index + 1, rest)
                ELSE {}
        Without == IF Prunes(search, current_sum, rest, index) THEN {}
                   ELSE Subsets(search, taken, current_sum, index + 1, rest)
    IN With \cup Without

SubsetSum(search) ==
  LET s == FoldLeft(LAMBDA a, b : a + b, 0, search.numbers)
  IN IF s < search.sum THEN {} ELSE Subsets(search, {}, 0, 1, s)
-----------------------------------------------------------------------------
(* temp.c: graph[i][j] is what person i owes to person j *)

\* The first of the least and of the greatest elements.
getMin(arr) == Min({i \in DOMAIN arr : \A j \in DOMAIN arr : arr[i] <= arr[j]})
getMax(arr) == Min({i \in DOMAIN arr : \A j \in DOMAIN arr : arr[i] >= arr[j]})

\* The payments, each [from, to, sum].
RECURSIVE minCashFlowRec(_)
minCashFlowRec(amount) ==
  LET mxCredit == getMax(amount)
      mxDebit == getMin(amount)
      min == Min({-amount[mxDebit], amount[mxCredit]})
  IN IF amount[mxCredit] = 0 /\ amount[mxDebit] = 0 THEN <<>>
     ELSE <<[from |-> mxDebit, to |-> mxCredit, sum |-> min]>>
            \o minCashFlowRec([amount EXCEPT ![mxCredit] = @ - min, ![mxDebit] = @ + min])

NetAmount(graph, p) ==
  FoldLeft(LAMBDA a, i : a + graph[i][p] - graph[p][i], 0, [i \in DOMAIN graph |-> i])

minCashFlow(graph) == minCashFlowRec([p \in DOMAIN graph |-> NetAmount(graph, p)])
=============================================================================
