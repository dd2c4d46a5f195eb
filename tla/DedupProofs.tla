----------------------------- MODULE DedupProofs -----------------------------
(***************************************************************************)
(* Theorems about Dedup, for every number of threads, disk, buffer size    *)
(* and chunk bounds: the table counts every chunk that was given to        *)
(* HashRefer, chunks are of bounded size and do not overlap, what is lost  *)
(* are forced cuts, regions meet, and the final numbers are exact.         *)
(*                                                                         *)
(* What the table holds is about the bytes of the disk, so IInv says what  *)
(* a buffer holds of them, how far each thread is, and that the lookup of  *)
(* HashRefer is still true when the table is changed.                      *)
(***************************************************************************)
EXTENDS Dedup, SequenceTheorems, FiniteSetTheorems, WellFoundedInduction, TLAPS

DiskIsRead == DiskSize \in DiskSizes /\ disk \in [0..(DiskSize - 1) -> Bytes]

TableTyped == table \in [DOMAIN table -> [size_ : Nat, ref_cnt_ : Nat]]

\* What TableExact says of the table.
TableCounts ==
  /\ DOMAIN table = {OnDisk(r) : r \in referred}
  /\ \A c \in DOMAIN table :
       /\ table[c].size_ = Len(c)
       /\ table[c].ref_cnt_ = Cardinality({r \in referred : OnDisk(r) = c})

\* The table's mutex is held just by the thread that is between find and
\* change, and what it found is so.
LookupHolds ==
  \A t \in Threads : /\ pc[t] = "found" <=> mutex_ = t
                     /\ pc[t] = "found" => found[t] = (Chunk(t) \in DOMAIN table)

HasBuffer(t) == pc[t] \in {"pread", "cut", "refer", "found"}
Filled(t) == IF pc[t] = "pread" THEN copied[t] ELSE kReadSize

\* Buffers lie on the disk and hold what is there, as far as they were read.
BuffersHoldDisk ==
  \A t \in Threads : HasBuffer(t) =>
    /\ offset[t] + kReadSize < DiskSize
    /\ \A n \in 0..(Filled(t) - 1) : data[t][n] = disk[offset[t] + n]

\* A thread goes on buffer by buffer, begins each at its first byte, and has
\* read something just if the device lets it begin where its region begins.
BuffersInSteps ==
  \A t \in Threads :
    /\ offset[t] = read_begin(t) + i[t] * kReadSize
    /\ pc[t] = "pread" => it[t] = 0
    /\ \/ i[t] > 0 \/ pc[t] \in {"cut", "refer", "found"}
       \/ pc[t] = "pread" /\ copied[t] > 0
       => read_begin(t) % Align = 0

\* A thread leaves its region by less than a buffer, and only when there is
\* no other to read.
StaysInReach ==
  \A t \in Threads :
    /\ HasBuffer(t) => offset[t] < read_end(t)
    /\ offset[t] < read_end(t) + kReadSize
    /\ pc[t] = "done" => ~CanRead(t)

\* The chunk at hand is not empty, and of a size that a chunk may have.
ChunksAtHand ==
  \A t \in Threads : pc[t] \in {"refer", "found"} =>
    /\ it[t] < stopped[t] /\ stopped[t] <= it[t] + max_
    /\ stopped[t] >= it[t] + min_ \/ stopped[t] = kReadSize

\* How far thread t is through its region.
Progress(t) == IF pc[t] \in {"cut", "refer", "found"} THEN From(t) ELSE offset[t]

\* A chunk that was counted lies behind its thread.
ReferredIsPast ==
  /\ IsFiniteSet(referred)
  /\ \A r \in referred : r[2] < r[3] /\ r[3] <= Progress(r[1])

\* The bytes thread t is through with that are in no chunk.
Lost(t) == PassedIn(t) \ Covered(t)

\* Nowhere in the max_ bytes from the a-th on may a chunk end.
NoDivisor(a) ==
  LET h == Hashes([k \in 1..max_ |-> disk[a + k - 1]], max_)
  IN \A m \in min_..max_ : h[m] % backup_divisor_ # 0

\* What OnlyForcedCutsAreSkipped says.
LostAreForced ==
  \A t \in Threads : \A n \in Lost(t) : \E a \in Lost(t) :
    /\ n \in a..(a + max_ - 1) /\ a..(a + max_ - 1) \subseteq Lost(t)
    /\ NoDivisor(a)

IInv ==
  /\ TypeOK /\ TableTyped /\ TableCounts
  /\ DiskIsRead /\ LookupHolds /\ BuffersHoldDisk /\ BuffersInSteps /\ StaysInReach
  /\ ChunksAtHand /\ ReferredIsPast /\ ChunksBounded /\ LostAreForced
-----------------------------------------------------------------------------
(* Numbers *)

\* A set of natural numbers has a least element.
LEMMA LeastElement ==
  ASSUME NEW S \in SUBSET Nat, S # {}
  PROVE  Min(S) \in S /\ \A n \in S : Min(S) <= n
<1>1. \E m \in S : \A n \in S : <<n, m>> \notin OpToRel(<, Nat)
  BY NatLessThanWellFounded, WFMin
<1>2. \A m, n \in Nat : <<n, m>> \notin OpToRel(<, Nat) => m <= n
  BY DEF OpToRel
<1>3. \E m \in S : \A n \in S : m <= n
  BY <1>1, <1>2
<1> QED
  BY <1>3 DEF Min

\* A set of natural numbers up to a bound has a largest element.
LEMMA LargestElement ==
  ASSUME NEW bound \in Nat, NEW S \in SUBSET (0..bound), S # {}
  PROVE  Max(S) \in S /\ \A n \in S : n <= Max(S)
<1> DEFINE Up == {bound - n : n \in S}
<1>1. \A n \in S : bound - n \in Up /\ bound - n \in Nat /\ n \in Nat
  OBVIOUS
<1>2. Up \in SUBSET Nat /\ Up # {}
  BY <1>1
<1>3. Min(Up) \in Up /\ \A u \in Up : Min(Up) <= u
  BY <1>2, LeastElement
<1>4. PICK m \in S : Min(Up) = bound - m
  BY <1>3
<1> HIDE DEF Up
<1>5. \A n \in S : bound - m <= bound - n
  BY <1>1, <1>3, <1>4
<1>6. \A n \in S : n <= m
  BY <1>1, <1>5
<1> QED
  BY <1>6 DEF Max

\* A set that holds 0 and the successors of its elements holds every number.
LEMMA SetInduction ==
  ASSUME NEW S, 0 \in S, \A n \in Nat : n \in S => n + 1 \in S
  PROVE  Nat \subseteq S
<1> SUFFICES ASSUME Nat \ S # {} PROVE FALSE
  OBVIOUS
<1>1. PICK m \in Nat \ S : \A n \in Nat \ S : m <= n
  BY LeastElement
<1>2. m - 1 \in Nat /\ m - 1 \in S
  BY <1>1
<1> QED
  BY <1>1, <1>2

-----------------------------------------------------------------------------
(* Sums over finite sets *)

Pick(s) == CHOOSE e \in s : TRUE

\* What the sum of F over s is, when g is the sum over less.
SumWith(g, F, s) == IF s = {} THEN 0 ELSE F[Pick(s)] + g[s \ {Pick(s)}]

\* g is the sum of F over each subset of S.
IsSum(g, F, S) == g = [s \in SUBSET S |-> SumWith(g, F, s)]

LEMMA SumIs ==
  ASSUME NEW F, NEW S
  PROVE  SumFunctionOnSet(F, S) = (CHOOSE g : IsSum(g, F, S))[S]
BY DEF SumFunctionOnSet, FoldFunctionOnSet, MapThenFoldSet, IsSum, SumWith, Pick

LEMMA SumsExist ==
  ASSUME NEW F, NEW S, IsFiniteSet(S)
  PROVE  \E g : IsSum(g, F, S)
<1> DEFINE Small(n) == {s \in SUBSET S : Cardinality(s) <= n}
           Known == {n \in Nat : \E g : g = [s \in Small(n) |-> SumWith(g, F, s)]}
<1>1. \A s \in SUBSET S : IsFiniteSet(s) /\ Cardinality(s) \in Nat /\ (Cardinality(s) = 0 <=> s = {})
  BY FS_Subset, FS_CardinalityType, FS_EmptySet
<1>2. 0 \in Known
  <2> DEFINE g == [s \in Small(0) |-> 0]
  <2>1. \A s \in Small(0) : s = {}
    BY <1>1
  <2>2. g = [s \in Small(0) |-> SumWith(g, F, s)]
    BY <2>1 DEF SumWith
  <2> QED
    BY <2>2
<1>3. ASSUME NEW n \in Nat, n \in Known PROVE n + 1 \in Known
  <2>1. PICK g : g = [s \in Small(n) |-> SumWith(g, F, s)]
    BY <1>3
  <2> DEFINE h == [s \in Small(n + 1) |-> SumWith(g, F, s)]
  <2>2. ASSUME NEW s \in Small(n + 1) PROVE SumWith(g, F, s) = SumWith(h, F, s)
    <3>1. CASE s = {}
      BY <3>1 DEF SumWith
    <3>2. CASE s # {}
      <4> DEFINE t == s \ {Pick(s)}
      <4>1. Pick(s) \in s
        BY <3>2 DEF Pick
      <4>2. t \in SUBSET S /\ Cardinality(t) = Cardinality(s) - 1
        BY <1>1, <4>1, FS_RemoveElement
      <4>3. t \in Small(n) /\ t \in Small(n + 1)
        BY <1>1, <4>2
      <4> HIDE DEF t, Small
      <4>4. g[t] = SumWith(g, F, t) /\ h[t] = SumWith(g, F, t)
        BY <2>1, <4>3
      <4> QED
        BY <3>2, <4>4 DEF SumWith, t
    <3> QED
      BY <3>1, <3>2
  <2>3. h = [s \in Small(n + 1) |-> SumWith(h, F, s)]
    BY <2>2
  <2> HIDE DEF h, Small
  <2>4. \E gg : gg = [s \in Small(n + 1) |-> SumWith(gg, F, s)]
    BY <2>3
  <2> QED
    BY <2>4
<1>4. Cardinality(S) \in Known
  <2> HIDE DEF Known
  <2> QED
    BY <1>1, <1>2, <1>3, SetInduction
<1>5. SUBSET S = Small(Cardinality(S))
  BY <1>1, FS_Subset
<1> QED
  BY <1>4, <1>5 DEF IsSum

\* The sums over the subsets of T are the same in any set around it.
LEMMA SumsAgree ==
  ASSUME NEW F, NEW S, IsFiniteSet(S), NEW T \in SUBSET S,
         NEW g, IsSum(g, F, S), NEW h, IsSum(h, F, T)
  PROVE  \A s \in SUBSET T : g[s] = h[s]
<1> DEFINE Agreed == {n \in Nat : \A s \in SUBSET T : Cardinality(s) = n => g[s] = h[s]}
<1>1. \A s \in SUBSET T : IsFiniteSet(s) /\ Cardinality(s) \in Nat /\ (Cardinality(s) = 0 <=> s = {})
  BY FS_Subset, FS_CardinalityType, FS_EmptySet
<1>2. \A s \in SUBSET T : g[s] = SumWith(g, F, s) /\ h[s] = SumWith(h, F, s)
  BY DEF IsSum
<1>3. 0 \in Agreed
  BY <1>1, <1>2 DEF SumWith
<1>4. ASSUME NEW n \in Nat, n \in Agreed PROVE n + 1 \in Agreed
  <2> SUFFICES ASSUME NEW s \in SUBSET T, Cardinality(s) = n + 1 PROVE g[s] = h[s]
    OBVIOUS
  <2>1. s # {} /\ Pick(s) \in s
    BY <1>1 DEF Pick
  <2>2. s \ {Pick(s)} \in SUBSET T /\ Cardinality(s \ {Pick(s)}) = n
    <3>1. IsFiniteSet(s) /\ Cardinality(s) \in Nat
      BY <1>1
    <3>2. Cardinality(s \ {Pick(s)}) = Cardinality(s) - 1
      BY <2>1, <3>1, FS_RemoveElement
    <3> QED
      BY <3>1, <3>2
  <2>3. g[s \ {Pick(s)}] = h[s \ {Pick(s)}]
    BY <1>4, <2>2
  <2> QED
    BY <1>2, <2>1, <2>3 DEF SumWith
<1> HIDE DEF Agreed
<1>5. Nat \subseteq Agreed
  BY <1>3, <1>4, SetInduction
<1> QED
  BY <1>1, <1>5 DEF Agreed

\* The sum is taken element by element.
LEMMA SumUnfolds ==
  ASSUME NEW F, NEW S, IsFiniteSet(S)
  PROVE  SumFunctionOnSet(F, S) =
           IF S = {} THEN 0 ELSE F[Pick(S)] + SumFunctionOnSet(F, S \ {Pick(S)})
<1> DEFINE T == S \ {Pick(S)}
           g == CHOOSE gg : IsSum(gg, F, S)
           h == CHOOSE hh : IsSum(hh, F, T)
<1>1. IsFiniteSet(T) /\ T \in SUBSET S /\ S \in SUBSET S /\ T \in SUBSET T
  BY FS_RemoveElement
<1> HIDE DEF T
<1>2. IsSum(g, F, S) /\ IsSum(h, F, T)
  BY <1>1, SumsExist
<1>3. SumFunctionOnSet(F, S) = g[S] /\ SumFunctionOnSet(F, T) = h[T]
  BY SumIs
<1> HIDE DEF g, h
<1>4. g[T] = h[T]
  BY <1>1, <1>2, SumsAgree
<1>5. g[S] = SumWith(g, F, S)
  BY <1>1, <1>2 DEF IsSum
<1> QED
  BY <1>3, <1>4, <1>5 DEF SumWith, T

LEMMA EmptySum == \A F : SumFunctionOnSet(F, {}) = 0
  BY SumUnfolds, FS_EmptySet

\* What holds for the empty set, and for a set when it holds without the element
\* that is taken first, holds for each subset of a finite set.
LEMMA PickInduction ==
  ASSUME NEW S, IsFiniteSet(S), NEW Good, {} \in Good,
         \A s \in SUBSET S : s # {} /\ s \ {Pick(s)} \in Good => s \in Good
  PROVE  SUBSET S \subseteq Good
<1> DEFINE Sizes == {n \in Nat : \A s \in SUBSET S : Cardinality(s) = n => s \in Good}
<1>1. \A s \in SUBSET S : IsFiniteSet(s) /\ Cardinality(s) \in Nat /\ (Cardinality(s) = 0 <=> s = {})
  BY FS_Subset, FS_CardinalityType, FS_EmptySet
<1>2. 0 \in Sizes
  BY <1>1
<1>3. ASSUME NEW n \in Nat, n \in Sizes PROVE n + 1 \in Sizes
  <2> SUFFICES ASSUME NEW s \in SUBSET S, Cardinality(s) = n + 1 PROVE s \in Good
    OBVIOUS
  <2>1. s # {} /\ Pick(s) \in s
    BY <1>1 DEF Pick
  <2>2. s \ {Pick(s)} \in SUBSET S /\ Cardinality(s \ {Pick(s)}) = n
    <3>1. IsFiniteSet(s) /\ Cardinality(s) \in Nat
      BY <1>1
    <3>2. Cardinality(s \ {Pick(s)}) = Cardinality(s) - 1
      BY <2>1, <3>1, FS_RemoveElement
    <3> QED
      BY <3>1, <3>2
  <2> QED
    BY <1>3, <2>1, <2>2
<1> HIDE DEF Sizes
<1>4. Nat \subseteq Sizes
  BY <1>2, <1>3, SetInduction
<1> QED
  BY <1>1, <1>4 DEF Sizes

\* One sum is no less than two others together when each of its terms is.
LEMMA SumsTogether ==
  ASSUME NEW S, IsFiniteSet(S), NEW F \in [S -> Nat], NEW G \in [S -> Nat], NEW H \in [S -> Nat],
         \A e \in S : F[e] >= G[e] + H[e]
  PROVE  /\ SumFunctionOnSet(F, S) \in Nat /\ SumFunctionOnSet(G, S) \in Nat
         /\ SumFunctionOnSet(H, S) \in Nat
         /\ SumFunctionOnSet(F, S) >= SumFunctionOnSet(G, S) + SumFunctionOnSet(H, S)
<1> DEFINE Good == {s \in SUBSET S :
                      /\ SumFunctionOnSet(F, s) \in Nat /\ SumFunctionOnSet(G, s) \in Nat
                      /\ SumFunctionOnSet(H, s) \in Nat
                      /\ SumFunctionOnSet(F, s) >= SumFunctionOnSet(G, s) + SumFunctionOnSet(H, s)}
<1>1. {} \in Good
  BY EmptySum
<1>2. ASSUME NEW s \in SUBSET S, s # {}, s \ {Pick(s)} \in Good PROVE s \in Good
  <2>1. Pick(s) \in s /\ IsFiniteSet(s)
    BY <1>2, FS_Subset DEF Pick
  <2>2. /\ SumFunctionOnSet(F, s) = F[Pick(s)] + SumFunctionOnSet(F, s \ {Pick(s)})
        /\ SumFunctionOnSet(G, s) = G[Pick(s)] + SumFunctionOnSet(G, s \ {Pick(s)})
        /\ SumFunctionOnSet(H, s) = H[Pick(s)] + SumFunctionOnSet(H, s \ {Pick(s)})
    BY <1>2, <2>1, SumUnfolds
  <2>3. /\ F[Pick(s)] \in Nat /\ G[Pick(s)] \in Nat /\ H[Pick(s)] \in Nat
        /\ F[Pick(s)] >= G[Pick(s)] + H[Pick(s)]
    BY <2>1
  <2> QED
    BY <1>2, <2>2, <2>3
<1> HIDE DEF Good
<1>3. SUBSET S \subseteq Good
  BY <1>1, <1>2, PickInduction
<1> QED
  BY <1>3 DEF Good

\* A sum whose terms are at most so many times those of another.
LEMMA SumTimes ==
  ASSUME NEW S, IsFiniteSet(S), NEW F \in [S -> Nat], NEW G \in [S -> Nat], NEW k \in Nat,
         \A e \in S : F[e] <= k * G[e]
  PROVE  SumFunctionOnSet(F, S) <= k * SumFunctionOnSet(G, S)
<1> DEFINE Good == {s \in SUBSET S :
                      /\ SumFunctionOnSet(F, s) \in Nat /\ SumFunctionOnSet(G, s) \in Nat
                      /\ SumFunctionOnSet(F, s) <= k * SumFunctionOnSet(G, s)}
<1>1. {} \in Good
  BY EmptySum
<1>2. ASSUME NEW s \in SUBSET S, s # {}, s \ {Pick(s)} \in Good PROVE s \in Good
  <2> DEFINE r == s \ {Pick(s)}
  <2>1. Pick(s) \in s /\ IsFiniteSet(s)
    BY <1>2, FS_Subset DEF Pick
  <2>2. /\ SumFunctionOnSet(F, s) = F[Pick(s)] + SumFunctionOnSet(F, r)
        /\ SumFunctionOnSet(G, s) = G[Pick(s)] + SumFunctionOnSet(G, r)
    BY <1>2, <2>1, SumUnfolds
  <2>3. F[Pick(s)] \in Nat /\ G[Pick(s)] \in Nat /\ F[Pick(s)] <= k * G[Pick(s)]
    BY <2>1
  <2>4. /\ SumFunctionOnSet(F, r) \in Nat /\ SumFunctionOnSet(G, r) \in Nat
        /\ SumFunctionOnSet(F, r) <= k * SumFunctionOnSet(G, r)
    BY <1>2
  <2> HIDE DEF r
  <2>5. k * (G[Pick(s)] + SumFunctionOnSet(G, r)) = k * G[Pick(s)] + k * SumFunctionOnSet(G, r)
    BY <2>3, <2>4
  <2>6. k * G[Pick(s)] \in Nat /\ k * SumFunctionOnSet(G, r) \in Nat
    BY <2>3, <2>4
  <2>7. SumFunctionOnSet(F, s) <= k * SumFunctionOnSet(G, s)
    BY <2>2, <2>3, <2>4, <2>5, <2>6
  <2> QED
    BY <2>2, <2>3, <2>4, <2>7
<1> HIDE DEF Good
<1>3. SUBSET S \subseteq Good
  BY <1>1, <1>2, PickInduction
<1> QED
  BY <1>3 DEF Good

Together(A, S) == UNION {A[e] : e \in S}

\* Sets that have nothing in common have together as many elements as each
\* has.
LEMMA SumOfSizes ==
  ASSUME NEW S, IsFiniteSet(S), NEW F, NEW A,
         \A e \in S : IsFiniteSet(A[e]) /\ F[e] = Cardinality(A[e]),
         \A d, e \in S : d # e => A[d] \cap A[e] = {}
  PROVE  IsFiniteSet(Together(A, S)) /\ SumFunctionOnSet(F, S) = Cardinality(Together(A, S))
<1> DEFINE Whole(s) == UNION {A[e] : e \in s}
           Good == {s \in SUBSET S :
                      IsFiniteSet(Whole(s)) /\ SumFunctionOnSet(F, s) = Cardinality(Whole(s))}
<1>1. {} \in Good
  <2>1. Whole({}) = {}
    OBVIOUS
  <2> HIDE DEF Whole
  <2> QED
    BY <2>1, FS_EmptySet, EmptySum
<1>2. ASSUME NEW s \in SUBSET S, s # {}, s \ {Pick(s)} \in Good PROVE s \in Good
  <2> DEFINE r == s \ {Pick(s)}
  <2>1. Pick(s) \in s /\ IsFiniteSet(s)
    BY <1>2, FS_Subset DEF Pick
  <2>2. Whole(s) = A[Pick(s)] \cup Whole(r)
    BY <2>1
  <2>3. A[Pick(s)] \cap Whole(r) = {}
    BY <2>1
  <2>4. IsFiniteSet(Whole(r)) /\ SumFunctionOnSet(F, r) = Cardinality(Whole(r))
    BY <1>2
  <2>5. IsFiniteSet(A[Pick(s)]) /\ F[Pick(s)] = Cardinality(A[Pick(s)])
    BY <2>1
  <2>6. SumFunctionOnSet(F, s) = F[Pick(s)] + SumFunctionOnSet(F, r)
    BY <1>2, <2>1, SumUnfolds
  <2> HIDE DEF Whole, r
  <2>7. /\ IsFiniteSet(A[Pick(s)] \cup Whole(r))
        /\ Cardinality(A[Pick(s)] \cup Whole(r)) =
             Cardinality(A[Pick(s)]) + Cardinality(Whole(r)) - Cardinality(A[Pick(s)] \cap Whole(r))
    BY <2>4, <2>5, FS_Union
  <2>8. Cardinality(A[Pick(s)] \cap Whole(r)) = 0 /\ Cardinality(A[Pick(s)]) \in Nat
        /\ Cardinality(Whole(r)) \in Nat
    BY <2>3, <2>4, <2>5, FS_EmptySet, FS_CardinalityType
  <2>9. IsFiniteSet(Whole(s)) /\ SumFunctionOnSet(F, s) = Cardinality(Whole(s))
    BY <2>2, <2>4, <2>5, <2>6, <2>7, <2>8
  <2> QED
    BY <2>9
<1> HIDE DEF Good
<1>3. SUBSET S \subseteq Good
  BY <1>1, <1>2, PickInduction
<1> QED
  BY <1>3 DEF Good, Together
-----------------------------------------------------------------------------
(* Hashes and cuts *)

\* Multiples leave no remainder.
LEMMA NoRemainder ==
  ASSUME NEW a \in Nat, NEW b \in Nat \ {0}
  PROVE  (a * b) % b = 0
  OBVIOUS

\* The recursive definition of Hashes has a solution, so that Hashes is one.
LEMMA HashesExist ==
  ASSUME NEW bytes, NEW size \in Nat
  PROVE  Hashes(bytes, size) =
           [n \in 0..size |-> IF n = 0 THEN 0 ELSE Update(bytes, n, Hashes(bytes, size)[n - 1])]
<1> DEFINE Solves(h, last) ==
             h = [n \in 0..last |-> IF n = 0 THEN 0 ELSE Update(bytes, n, h[n - 1])]
           Solved == {last \in Nat : \E h : Solves(h, last)}
<1>1. 0 \in Solved
  <2>1. Solves([n \in 0..0 |-> 0], 0)
    OBVIOUS
  <2> QED
    BY <2>1
<1>2. ASSUME NEW last \in Nat, last \in Solved
      PROVE  last + 1 \in Solved
  <2>1. PICK h : Solves(h, last)
    BY <1>2
  <2> DEFINE g == [n \in 0..(last + 1) |-> IF n <= last THEN h[n] ELSE Update(bytes, n, h[n - 1])]
  <2>2. \A n \in 0..(last + 1) : n # 0 => g[n - 1] = h[n - 1]
    OBVIOUS
  <2>3. \A n \in 0..(last + 1) : g[n] = IF n = 0 THEN 0 ELSE Update(bytes, n, h[n - 1])
    BY <2>1
  <2>4. g = [n \in 0..(last + 1) |-> g[n]]
    OBVIOUS
  <2> HIDE DEF g
  <2>5. Solves(g, last + 1)
    BY <2>2, <2>3, <2>4
  <2> QED
    BY <2>5
<1>3. \E h : Solves(h, size)
  <2> HIDE DEF Solved
  <2>1. size \in Solved
    BY <1>1, <1>2, SetInduction
  <2> QED
    BY <2>1 DEF Solved
<1> QED
  BY <1>3 DEF Hashes

\* What is hashed up to a byte does not depend on what follows.
LEMMA HashesOfPrefix ==
  ASSUME NEW a, NEW b, NEW m \in Nat, NEW n \in Nat, m <= n,
         \A k \in 1..m : a[k] = b[k]
  PROVE  \A k \in 0..m : Hashes(a, m)[k] = Hashes(b, n)[k]
<1> DEFINE Same == {k \in Nat : k <= m => Hashes(a, m)[k] = Hashes(b, n)[k]}
<1>1. 0 \in Same
  <2>1. Hashes(a, m)[0] = 0 /\ Hashes(b, n)[0] = 0
    BY HashesExist
  <2> QED
    BY <2>1
<1>2. ASSUME NEW k \in Nat, k \in Same
      PROVE  k + 1 \in Same
  <2> SUFFICES ASSUME k + 1 <= m PROVE Hashes(a, m)[k + 1] = Hashes(b, n)[k + 1]
    OBVIOUS
  <2>1. /\ Hashes(a, m)[k + 1] = Update(a, k + 1, Hashes(a, m)[k])
        /\ Hashes(b, n)[k + 1] = Update(b, k + 1, Hashes(b, n)[k])
    <3>1. k + 1 \in 0..m /\ k + 1 \in 0..n /\ k + 1 # 0 /\ (k + 1) - 1 = k
      OBVIOUS
    <3> QED
      BY <3>1, HashesExist
  <2>2. Hashes(a, m)[k] = Hashes(b, n)[k]
    BY <1>2
  <2> QED
    BY <2>1, <2>2 DEF Update
<1> HIDE DEF Same
<1>3. Nat \subseteq Same
  BY <1>1, <1>2, SetInduction
<1> QED
  BY <1>3 DEF Same

\* A chunk that is neither ready nor the end of the buffer has max_ bytes,
\* at none of which the backup divisor divides the hash.
LEMMA ForcedCuts ==
  ASSUME NEW bytes, NEW size \in Nat \ {0}, ~Chunkify(bytes, size).ready,
         Chunkify(bytes, size).taken # size
  PROVE  /\ Chunkify(bytes, size).taken = max_ /\ max_ <= size
         /\ \A m \in min_..max_ : Hashes(bytes, size)[m] % backup_divisor_ # 0
<1> DEFINE h == Hashes(bytes, size)
           main == Divided(h, main_divisor_, LastByte(size))
           backup == Divided(h, backup_divisor_, LastByte(size))
<1>1. /\ main = {} /\ size >= max_ /\ backup = {}
      /\ Chunkify(bytes, size).taken = max_
  BY TTTDAssumption DEF Chunkify, Cut
<1>2. LastByte(size) = max_
  <2>1. {max_, size} \in SUBSET Nat /\ {max_, size} # {}
    BY TTTDAssumption
  <2>2. LastByte(size) \in {max_, size} /\ LastByte(size) <= max_ /\ LastByte(size) <= size
    BY <2>1, LeastElement DEF LastByte
  <2> QED
    BY <1>1, <2>2, TTTDAssumption
<1> QED
  BY <1>1, <1>2 DEF Divided

\* What follows a chunk is not empty, and has a size that a chunk may have.
LEMMA ChunkSizes ==
  ASSUME NEW bytes, NEW size \in Nat \ {0}
  PROVE  LET taken == Chunkify(bytes, size).taken
         IN  /\ taken \in 1..size /\ taken <= max_
             /\ taken >= min_ \/ taken = size
<1> DEFINE h == Hashes(bytes, size)
           main == Divided(h, main_divisor_, LastByte(size))
           backup == Divided(h, backup_divisor_, LastByte(size))
<1>1. /\ LastByte(size) \in Nat /\ LastByte(size) <= max_ /\ LastByte(size) <= size
  <2>1. {max_, size} \in SUBSET Nat /\ {max_, size} # {}
    BY TTTDAssumption
  <2> QED
    BY <2>1, LeastElement DEF LastByte
<1>2. main \in SUBSET (min_..LastByte(size)) /\ backup \in SUBSET (min_..LastByte(size))
  BY DEF Divided
<1>3. CASE main # {}
  <2>1. Min(main) \in min_..LastByte(size)
    BY <1>1, <1>2, <1>3, LeastElement, TTTDAssumption
  <2>2. Chunkify(bytes, size).taken = Min(main)
    BY <1>3 DEF Chunkify, Cut
  <2> QED
    BY <1>1, <2>1, <2>2, TTTDAssumption
<1>4. CASE main = {} /\ size < max_
  <2>1. Chunkify(bytes, size).taken = size
    BY <1>4, TTTDAssumption DEF Chunkify, Cut
  <2> QED
    BY <1>4, <2>1, TTTDAssumption
<1>5. CASE main = {} /\ size >= max_ /\ backup # {}
  <2> backup \in SUBSET (0..LastByte(size)) /\ backup # {}
    BY <1>1, <1>2, <1>5, TTTDAssumption
  <2>1. Max(backup) \in min_..LastByte(size)
    BY <1>1, <1>2, LargestElement
  <2>2. Chunkify(bytes, size).taken = Max(backup)
    BY <1>5, TTTDAssumption DEF Chunkify, Cut
  <2> QED
    BY <1>1, <2>1, <2>2, TTTDAssumption
<1>6. CASE main = {} /\ size >= max_ /\ backup = {}
  <2>1. Chunkify(bytes, size).taken = max_
    BY <1>6, TTTDAssumption DEF Chunkify, Cut
  <2> QED
    BY <1>6, <2>1, TTTDAssumption
<1>7. size < max_ \/ size >= max_
  BY TTTDAssumption
<1> QED
  BY <1>3, <1>4, <1>5, <1>6, <1>7
-----------------------------------------------------------------------------
(* The regions of the threads *)

LEMMA Regions ==
  ASSUME DiskIsRead
  PROVE  /\ DiskSize \in Nat /\ x \in Nat \ {0}
         /\ kThreads * x <= DiskSize /\ DiskSize < kThreads * x + kThreads
         /\ \A t \in Threads : /\ read_begin(t) \in Nat /\ read_end(t) \in Nat
                               /\ read_end(t) = read_begin(t) + x - 1
<1>1. DiskSize \in Nat /\ DiskSize >= kThreads
  BY DedupAssumption DEF DiskIsRead
<1>2. /\ x \in Nat \ {0} /\ kThreads * x <= DiskSize /\ DiskSize < kThreads * x + kThreads
  BY <1>1, DedupAssumption DEF x
<1>3. ASSUME NEW t \in Threads
      PROVE  /\ read_begin(t) \in Nat /\ read_end(t) \in Nat
             /\ read_end(t) = read_begin(t) + x - 1
  <2>1. t \in Nat
    BY DEF Threads
  <2>2. \A y \in Nat : t * y \in Nat /\ (t + 1) * y = t * y + y
    BY <2>1
  <2> QED
    BY <1>2, <2>2 DEF read_begin, read_end
<1> QED
  BY <1>1, <1>2, <1>3

\* Nothing of this depends on more than the disk.
LEMMA RegionsStay ==
  ASSUME UNCHANGED disk
  PROVE  /\ DiskSize' = DiskSize /\ x' = x /\ DiskIsRead' = DiskIsRead
         /\ \A t : read_begin(t)' = read_begin(t) /\ read_end(t)' = read_end(t)
         /\ \A r : OnDisk(r)' = OnDisk(r)
<1>1. DiskSize' = DiskSize /\ x' = x
  BY DEF DiskSize, x
<1> QED
  BY <1>1 DEF DiskIsRead, read_begin, read_end, OnDisk

\* The table is right as long as no one touches it.
LEMMA TableStays ==
  ASSUME TableTyped, TableCounts, UNCHANGED <<disk, table, referred>>
  PROVE  TableTyped' /\ TableCounts'
<1>1. \A r : OnDisk(r)' = OnDisk(r)
  BY RegionsStay
<1> QED
  BY <1>1 DEF TableTyped, TableCounts
-----------------------------------------------------------------------------
(* The invariant *)

LEMMA Initially == Init => IInv
<1> SUFFICES ASSUME Init PROVE IInv
  OBVIOUS
<1>1. DiskIsRead
  <2>1. PICK size \in DiskSizes, piece \in [0..(Period - 1) -> Bytes] :
          disk = [n \in 0..(size - 1) |-> piece[n % Period]]
    BY DEF Init
  <2>2. size \in Nat /\ Cardinality(0..(size - 1)) = size
    BY FS_Interval, DedupAssumption
  <2>3. DiskSize = size
    BY <2>1, <2>2 DEF DiskSize
  <2>4. \A n \in 0..(size - 1) : n % Period \in 0..(Period - 1)
    BY <2>2, DedupAssumption
  <2> QED
    BY <2>1, <2>3, <2>4 DEF DiskIsRead
<1>2. TypeOK
  <2>1. \A t \in Threads : read_begin(t) \in Nat
    BY <1>1, Regions
  <2>2. offset \in [Threads -> Nat] /\ pc \in [Threads -> {"read"}]
    BY <2>1 DEF Init
  <2>3. data \in [Threads -> [0..(kReadSize - 1) -> Bytes \cup {0}]]
    BY DEF Init
  <2>4. /\ i \in [Threads -> Nat] /\ found \in [Threads -> BOOLEAN]
        /\ copied \in [Threads -> 0..kReadSize]
        /\ it \in [Threads -> 0..kReadSize] /\ stopped \in [Threads -> 0..kReadSize]
    BY DedupAssumption DEF Init
  <2>5. DOMAIN table = {}
    BY DEF Init
  <2>6. pc \in [Threads -> {"read", "pread", "cut", "refer", "found", "dumping", "done"}]
    BY <2>2
  <2> QED
    BY <2>2, <2>3, <2>4, <2>5, <2>6 DEF Init, TypeOK
<1>3. TableTyped /\ TableCounts /\ ReferredIsPast /\ ChunksBounded
  <2>1. DOMAIN table = {} /\ referred = {} /\ IsFiniteSet({})
    BY FS_EmptySet DEF Init
  <2> QED
    BY <2>1 DEF TableTyped, TableCounts, ReferredIsPast, ChunksBounded
<1>4. LookupHolds /\ BuffersHoldDisk /\ ChunksAtHand
  BY DedupAssumption DEF Init, LookupHolds, BuffersHoldDisk, ChunksAtHand, HasBuffer, Threads
<1>5. BuffersInSteps /\ StaysInReach
  <2>1. \A t \in Threads : /\ read_begin(t) \in Nat /\ read_end(t) \in Nat
                           /\ read_begin(t) <= read_end(t)
    BY <1>1, Regions
  <2>2. ASSUME NEW t \in Threads
        PROVE  /\ offset[t] = read_begin(t) + i[t] * kReadSize
               /\ offset[t] < read_end(t) + kReadSize
               /\ i[t] = 0
    <3>1. i[t] = 0 /\ offset[t] = read_begin(t) /\ kReadSize \in Nat \ {0}
      BY DedupAssumption DEF Init
    <3>2. read_begin(t) \in Nat /\ read_end(t) \in Nat /\ read_begin(t) <= read_end(t)
      BY <2>1
    <3>3. 0 * kReadSize = 0
      BY <3>1
    <3> HIDE DEF read_begin, read_end
    <3> QED
      BY <3>1, <3>2, <3>3
  <2> QED
    BY <2>2 DEF Init, BuffersInSteps, StaysInReach, HasBuffer
<1>6. LostAreForced
  <2>1. \A t \in Threads : read_begin(t) \in Nat
    BY <1>1, Regions
  <2>2. \A t \in Threads : PassedIn(t) = {}
    BY <2>1 DEF Init, PassedIn
  <2> QED
    BY <2>2 DEF LostAreForced, Lost
<1> QED
  BY <1>1, <1>2, <1>3, <1>4, <1>5, <1>6 DEF IInv

\* What was counted stays counted, where it was.
LEMMA ChunksStay ==
  ASSUME IInv, UNCHANGED <<disk, referred>>,
         \A t \in Threads : Progress(t)' = Progress(t)
  PROVE  ReferredIsPast' /\ ChunksBounded' /\ LostAreForced'
<1>1. \A r \in referred : r[1] \in Threads
  BY DEF IInv, TypeOK
<1>2. DiskSize' = DiskSize /\ \A t : read_begin(t)' = read_begin(t)
  BY RegionsStay
<1>3. \A t \in Threads : Lost(t)' = Lost(t)
  BY <1>2 DEF Lost, PassedIn, Covered, Progress
<1>4. LostAreForced'
  BY <1>3 DEF IInv, LostAreForced, NoDivisor
<1> QED
  BY <1>1, <1>2, <1>4 DEF IInv, ReferredIsPast, ChunksBounded

LEMMA ReadKeeps ==
  ASSUME IInv, NEW t \in Threads, Read(t)
  PROVE  IInv'
<1> USE DEF IInv
<1>1. /\ DiskSize' = DiskSize /\ DiskIsRead' = DiskIsRead
      /\ \A u : read_begin(u)' = read_begin(u) /\ read_end(u)' = read_end(u)
  BY RegionsStay DEF Read
<1>2. TypeOK'
  <2>1. /\ pc' \in [Threads -> {"read", "pread", "cut", "refer", "found", "dumping", "done"}]
    BY DEF Read, TypeOK, Goto
  <2>2. 0 \in 0..kReadSize
    BY DedupAssumption
  <2>3. it' \in [Threads -> 0..kReadSize] /\ copied' \in [Threads -> 0..kReadSize]
    BY <2>2 DEF Read, TypeOK
  <2> QED
    BY <2>1, <2>3 DEF Read, TypeOK, shared, ended
<1>3. TableTyped' /\ TableCounts'
  BY TableStays DEF Read, shared
<1>4. LookupHolds'
  <2>1. /\ pc[t] # "found" /\ pc'[t] # "found"
        /\ \A u \in Threads \ {t} : pc'[u] = pc[u] /\ it'[u] = it[u]
    BY DEF Read, TypeOK, Goto
  <2>2. \A u \in Threads \ {t} : Chunk(u)' = Chunk(u)
    BY <2>1 DEF Read, Chunk, Content
  <2> QED
    BY <2>1, <2>2 DEF Read, LookupHolds, shared
<1>5. BuffersHoldDisk'
  <2>1. ASSUME NEW u \in Threads \ {t}, HasBuffer(u)'
        PROVE  /\ HasBuffer(u) /\ Filled(u)' = Filled(u)
               /\ offset'[u] = offset[u] /\ data'[u] = data[u]
    BY <2>1 DEF Read, TypeOK, HasBuffer, Filled, Goto
  <2>2. HasBuffer(t)' => /\ offset'[t] + kReadSize < DiskSize
                         /\ 0..(Filled(t)' - 1) = {}
    BY DEF Read, TypeOK, HasBuffer, Filled, CanRead, Goto
  <2> QED
    BY <1>1, <2>1, <2>2 DEF Read, BuffersHoldDisk
<1>6. BuffersInSteps' /\ StaysInReach'
  BY <1>1 DEF Read, TypeOK, BuffersInSteps, StaysInReach, HasBuffer, CanRead, Goto
<1>7. ChunksAtHand'
  BY DEF Read, TypeOK, ChunksAtHand, Goto
<1>8. \A u \in Threads : Progress(u)' = Progress(u)
  BY DEF Read, TypeOK, Progress, From, Goto
<1> QED
  BY <1>1, <1>2, <1>3, <1>4, <1>5, <1>6, <1>7, <1>8, ChunksStay DEF Read, shared

LEMMA PreadKeeps ==
  ASSUME IInv, NEW t \in Threads, Pread(t)
  PROVE  IInv'
<1> USE DEF IInv
<1>1. /\ DiskSize' = DiskSize /\ DiskIsRead' = DiskIsRead
      /\ \A u : read_begin(u)' = read_begin(u) /\ read_end(u)' = read_end(u)
  BY RegionsStay DEF Pread
<1>2. PICK r \in 1..(kReadSize - copied[t]) :
        /\ r % Align = 0 /\ (offset[t] + copied[t]) % Align = 0
        /\ data' = [data EXCEPT ![t] = [n \in DOMAIN @ |->
                      IF n \in copied[t]..(copied[t] + r - 1) THEN disk[offset[t] + n] ELSE @[n]]]
        /\ copied' = [copied EXCEPT ![t] = @ + r]
        /\ IF copied'[t] = kReadSize THEN Goto(t, "cut") ELSE UNCHANGED pc
  BY DEF Pread
<1>3. /\ pc[t] = "pread" /\ copied[t] \in 0..kReadSize /\ offset[t] \in Nat
      /\ offset[t] + kReadSize < DiskSize /\ kReadSize \in Nat
      /\ copied'[t] = copied[t] + r /\ copied'[t] \in 1..kReadSize
      /\ DOMAIN data[t] = 0..(kReadSize - 1)
  <2>1. /\ pc[t] = "pread" /\ copied[t] \in 0..kReadSize /\ offset[t] \in Nat
        /\ kReadSize \in Nat /\ copied'[t] = copied[t] + r
        /\ DOMAIN data[t] = 0..(kReadSize - 1)
    BY <1>2, DedupAssumption DEF Pread, TypeOK
  <2>2. offset[t] + kReadSize < DiskSize
    BY <2>1 DEF BuffersHoldDisk, HasBuffer
  <2> QED
    BY <2>1, <2>2
<1>4. \A n \in 0..(kReadSize - 1) :
        /\ data'[t][n] = IF n \in copied[t]..(copied[t] + r - 1) THEN disk[offset[t] + n]
                                                                 ELSE data[t][n]
        /\ disk[offset[t] + n] \in Bytes
  <2>1. \A n \in 0..(kReadSize - 1) : disk[offset[t] + n] \in Bytes
    BY <1>3, Regions DEF DiskIsRead
  <2>2. data'[t] = [n \in 0..(kReadSize - 1) |->
                      IF n \in copied[t]..(copied[t] + r - 1) THEN disk[offset[t] + n]
                                                               ELSE data[t][n]]
    BY <1>2, <1>3 DEF TypeOK
  <2> QED
    BY <2>1, <2>2
<1>5. TypeOK'
  <2>1. data' \in [Threads -> [0..(kReadSize - 1) -> Bytes \cup {0}]]
    <3>1. data'[t] \in [0..(kReadSize - 1) -> Bytes \cup {0}]
      BY <1>2, <1>3, <1>4 DEF TypeOK
    <3> QED
      BY <1>2, <3>1 DEF TypeOK
  <2>2. pc' \in [Threads -> {"read", "pread", "cut", "refer", "found", "dumping", "done"}]
    BY <1>2 DEF TypeOK, Goto
  <2>3. copied' \in [Threads -> 0..kReadSize]
    <3>1. copied[t] + r \in 0..kReadSize
      BY <1>2, <1>3
    <3> QED
      BY <1>2, <3>1 DEF TypeOK
  <2> QED
    BY <2>1, <2>2, <2>3 DEF Pread, TypeOK, cutting, shared, ended
<1>6. TableTyped' /\ TableCounts'
  BY TableStays DEF Pread, shared
<1>7. LookupHolds'
  <2>1. \A u \in Threads : pc'[u] = "found" <=> pc[u] = "found"
    BY <1>2, <1>3 DEF TypeOK, Goto
  <2>2. \A u \in Threads \ {t} : data'[u] = data[u]
    BY <1>2 DEF TypeOK
  <2>3. \A u \in Threads \ {t} : Chunk(u)' = Chunk(u)
    BY <2>2 DEF Pread, Chunk, Content, cutting
  <2>4. pc'[t] # "found" /\ UNCHANGED <<mutex_, found, table>>
    BY <1>3, <2>1 DEF Pread, shared
  <2> QED
    BY <2>1, <2>3, <2>4 DEF LookupHolds
<1>8. BuffersHoldDisk'
  <2>1. ASSUME NEW u \in Threads \ {t}, HasBuffer(u)'
        PROVE  /\ offset'[u] + kReadSize < DiskSize'
               /\ \A n \in 0..(Filled(u)' - 1) : data'[u][n] = disk'[offset'[u] + n]
    <3>1. pc'[u] = pc[u] /\ copied'[u] = copied[u] /\ data'[u] = data[u]
      BY <1>2, <2>1 DEF TypeOK, Goto
    <3>2. HasBuffer(u) /\ Filled(u)' = Filled(u)
      BY <2>1, <3>1 DEF HasBuffer, Filled
    <3> QED
      BY <1>1, <3>1, <3>2 DEF Pread, BuffersHoldDisk
  <2>2. \A n \in 0..(copied[t] - 1) : data[t][n] = disk[offset[t] + n]
    BY <1>3 DEF BuffersHoldDisk, HasBuffer, Filled
  <2>3. ASSUME NEW n \in 0..(copied'[t] - 1)
        PROVE  data'[t][n] = disk[offset[t] + n]
    <3>1. n \in 0..(kReadSize - 1)
      BY <1>3
    <3>2. n \in 0..(copied[t] - 1) \/ n \in copied[t]..(copied[t] + r - 1)
      BY <1>2, <1>3
    <3>3. n \in 0..(copied[t] - 1) => n \notin copied[t]..(copied[t] + r - 1)
      BY <1>2, <1>3
    <3> QED
      BY <1>4, <2>2, <3>1, <3>2, <3>3
  <2>4. Filled(t)' = copied'[t]
    BY <1>2, <1>3 DEF TypeOK, Filled, Goto
  <2> QED
    BY <1>1, <1>3, <2>1, <2>3, <2>4 DEF Pread, BuffersHoldDisk
<1>9. BuffersInSteps' /\ StaysInReach'
  <2>1. read_begin(t) % Align = 0
    <3>1. CASE i[t] = 0 /\ copied[t] = 0
      BY <1>2, <1>3, <3>1, Regions DEF BuffersInSteps
    <3> QED
      BY <1>3, <3>1 DEF BuffersInSteps, TypeOK
  <2> QED
    <3>1. /\ pc'[t] \in {"pread", "cut"}
          /\ \A u \in Threads \ {t} : pc'[u] = pc[u] /\ copied'[u] = copied[u]
          /\ UNCHANGED <<disk, i, offset, it>>
      BY <1>2, <1>3 DEF Pread, TypeOK, Goto, cutting
    <3>2. BuffersInSteps'
      BY <1>1, <1>3, <2>1, <3>1 DEF BuffersInSteps
    <3>3. StaysInReach'
      BY <1>1, <1>3, <3>1 DEF StaysInReach, HasBuffer, CanRead
    <3> QED
      BY <3>2, <3>3
<1>10. ChunksAtHand'
  BY <1>2 DEF Pread, TypeOK, ChunksAtHand, Goto, cutting
<1>11. \A u \in Threads : Progress(u)' = Progress(u)
  <2>1. \A u \in Threads \ {t} : pc'[u] = pc[u]
    BY <1>2 DEF TypeOK, Goto
  <2>2. pc'[t] \in {"pread", "cut"} /\ it[t] = 0
    BY <1>2, <1>3 DEF TypeOK, BuffersInSteps, Goto
  <2>3. UNCHANGED <<offset, it>>
    BY DEF Pread, cutting
  <2> QED
    BY <1>3, <2>1, <2>2, <2>3 DEF Progress, From
<1> QED
  BY <1>1, <1>5, <1>6, <1>7, <1>8, <1>9, <1>10, <1>11, ChunksStay DEF Pread, shared

\* A chunk that is cut by force is lost, and nothing else is by CutChunk.
LEMMA CutChunkLoses ==
  ASSUME IInv, NEW t \in Threads, CutChunk(t)
  PROVE  LostAreForced'
<1> USE DEF IInv
<1> DEFINE bytes == Content(t, it[t], kReadSize)
           size == kReadSize - it[t]
           cut == Chunkify(bytes, size)
           a == From(t)
           new == a..(a + max_ - 1)
<1>1. /\ \A u \in Threads \ {t} : pc'[u] = pc[u] /\ it'[u] = it[u]
      /\ UNCHANGED <<disk, offset, referred>> /\ pc[t] = "cut"
  BY DEF CutChunk, TypeOK, Goto, shared
<1>2. \A u : read_begin(u)' = read_begin(u)
  BY <1>1, RegionsStay
<1>3. /\ \A u : Covered(u)' = Covered(u) /\ PassedIn(u) = read_begin(u)..(Progress(u) - 1)
      /\ \A u : PassedIn(u)' = read_begin(u)..(Progress(u)' - 1)
  BY <1>1, <1>2 DEF Covered, PassedIn, Progress
<1>4. \A u \in Threads \ {t} : Lost(u)' = Lost(u)
  BY <1>1, <1>3 DEF Lost, Progress, From
<1>5. /\ it[t] \in 0..kReadSize /\ kReadSize \in Nat /\ offset[t] \in Nat /\ read_begin(t) \in Nat
      /\ size \in Nat \ {0} /\ a = offset[t] + it[t]
  <2>1. it[t] \in 0..kReadSize /\ it[t] # kReadSize /\ kReadSize \in Nat /\ offset[t] \in Nat
    BY DedupAssumption DEF CutChunk, TypeOK
  <2>2. read_begin(t) \in Nat
    BY Regions
  <2> QED
    BY <2>1, <2>2 DEF From
<1>6. CASE pc'[t] = "refer" /\ UNCHANGED it
  <2>1. Lost(t)' = Lost(t)
    BY <1>1, <1>3, <1>6 DEF Lost, Progress, From
  <2> QED
    BY <1>1, <1>4, <2>1 DEF LostAreForced, NoDivisor
<1>7. CASE /\ ~cut.ready /\ it[t] + cut.taken # kReadSize
           /\ it' = [it EXCEPT ![t] = it[t] + cut.taken] /\ UNCHANGED pc
  <2>1. cut.taken \in Nat
    BY <1>5, ChunkSizes
  <2>2. cut.taken # size
    <3> HIDE DEF cut
    <3> QED
      BY <1>5, <1>7, <2>1
  <2>3. /\ cut.taken = max_ /\ max_ <= size /\ max_ \in Nat \ {0}
        /\ \A m \in min_..max_ : Hashes(bytes, size)[m] % backup_divisor_ # 0
    BY <1>5, <1>7, <2>2, ForcedCuts, TTTDAssumption
  <2> HIDE DEF cut
  <2>4. NoDivisor(a)
    <3> DEFINE piece == [k \in 1..max_ |-> disk[a + k - 1]]
    <3>1. ASSUME NEW k \in 1..max_ PROVE piece[k] = bytes[k]
      <4>1. /\ it[t] + k - 1 \in 0..(kReadSize - 1)
            /\ offset[t] + (it[t] + k - 1) = a + k - 1
            /\ k \in 1..size
        BY <1>5, <2>3
      <4>2. data[t][it[t] + k - 1] = disk[offset[t] + (it[t] + k - 1)]
        BY <1>1, <4>1 DEF BuffersHoldDisk, HasBuffer, Filled
      <4>3. bytes[k] = data[t][it[t] + k - 1]
        BY <4>1 DEF Content
      <4> QED
        BY <4>1, <4>2, <4>3
    <3> HIDE DEF piece, bytes
    <3>2. \A m \in 0..max_ : Hashes(piece, max_)[m] = Hashes(bytes, size)[m]
      BY <1>5, <2>3, <3>1, HashesOfPrefix
    <3>3. min_..max_ \subseteq 0..max_
      BY TTTDAssumption
    <3>4. \A m \in min_..max_ : Hashes(piece, max_)[m] % backup_divisor_ # 0
      BY <2>3, <3>2, <3>3
    <3> QED
      BY <3>4 DEF NoDivisor, piece
  <2>5. Progress(t) = a /\ Progress(t)' = a + max_
    BY <1>1, <1>5, <1>7, <2>3 DEF Progress, From, TypeOK
  <2>6. read_begin(t) <= a
    <3>1. offset[t] = read_begin(t) + i[t] * kReadSize /\ i[t] \in Nat
      BY DEF BuffersInSteps, TypeOK
    <3>2. i[t] * kReadSize \in Nat
      BY <1>5, <3>1
    <3> HIDE DEF read_begin
    <3> QED
      BY <1>5, <3>1, <3>2
  <2>7. new \cap Covered(t) = {}
    <3>1. \A r \in referred : r[1] = t => r[2] \in Nat /\ r[3] \in Nat /\ r[3] <= a
      BY <2>5 DEF TypeOK, ReferredIsPast
    <3> HIDE DEF a
    <3>2. \A r \in referred : r[1] = t => new \cap (r[2]..(r[3] - 1)) = {}
      BY <1>5, <3>1
    <3> QED
      BY <3>2 DEF Covered
  <2>8. PassedIn(t)' = PassedIn(t) \cup new
    <3> HIDE DEF a, read_begin
    <3> QED
      BY <1>3, <1>5, <2>3, <2>5, <2>6
  <2>9. Lost(t)' = Lost(t) \cup new
    BY <1>3, <2>7, <2>8 DEF Lost
  <2>10. a \in new
    BY <1>5, <2>3
  <2>11. \A b : NoDivisor(b)' = NoDivisor(b)
    BY <1>1 DEF NoDivisor
  <2> HIDE DEF a
  <2>12. ASSUME NEW n \in Lost(t)'
         PROVE  \E b \in Lost(t)' : /\ n \in b..(b + max_ - 1) /\ b..(b + max_ - 1) \subseteq Lost(t)'
                                    /\ NoDivisor(b)
    <3>1. CASE n \in new
      BY <2>4, <2>9, <2>10, <3>1
    <3>2. CASE n \in Lost(t)
      BY <2>9, <3>2 DEF LostAreForced
    <3> QED
      BY <2>9, <3>1, <3>2
  <2> QED
    BY <1>4, <2>11, <2>12 DEF LostAreForced
<1>8. \/ pc'[t] = "refer" /\ UNCHANGED it
      \/ /\ ~cut.ready /\ it[t] + cut.taken # kReadSize
         /\ it' = [it EXCEPT ![t] = it[t] + cut.taken] /\ UNCHANGED pc
  BY DEF CutChunk, Hashed, Goto, TypeOK
<1> QED
  BY <1>6, <1>7, <1>8

LEMMA CutChunkKeeps ==
  ASSUME IInv, NEW t \in Threads, CutChunk(t)
  PROVE  IInv'
<1> USE DEF IInv
<1> DEFINE size == kReadSize - it[t]
           cut == Chunkify(Content(t, it[t], kReadSize), size)
           end == it[t] + cut.taken
<1>1. /\ DiskSize' = DiskSize /\ DiskIsRead' = DiskIsRead
      /\ \A u : read_begin(u)' = read_begin(u) /\ read_end(u)' = read_end(u)
  BY RegionsStay DEF CutChunk
<1>2. /\ pc[t] = "cut" /\ it[t] \in 0..kReadSize /\ kReadSize \in Nat /\ offset[t] \in Nat
      /\ size \in Nat \ {0}
  BY DedupAssumption DEF CutChunk, TypeOK
<1>3. /\ end \in 1..kReadSize /\ it[t] < end /\ end <= it[t] + max_
      /\ end >= it[t] + min_ \/ end = kReadSize
  <2>1. /\ cut.taken \in 1..size /\ cut.taken <= max_
        /\ cut.taken >= min_ \/ cut.taken = size
    BY <1>2, ChunkSizes
  <2> HIDE DEF cut
  <2> QED
    BY <1>2, <2>1, TTTDAssumption
<1>4. /\ stopped' = [stopped EXCEPT ![t] = end]
      /\ \/ pc' = [pc EXCEPT ![t] = "refer"] /\ UNCHANGED it
         \/ it' = [it EXCEPT ![t] = end] /\ UNCHANGED pc
  BY DEF CutChunk, Goto
<1> HIDE DEF end, cut, size
<1>5. TypeOK'
  <2>1. pc' \in [Threads -> {"read", "pread", "cut", "refer", "found", "dumping", "done"}]
    BY <1>4 DEF TypeOK
  <2>2. end \in 0..kReadSize
    BY <1>2, <1>3
  <2>3. it' \in [Threads -> 0..kReadSize] /\ stopped' \in [Threads -> 0..kReadSize]
    BY <1>4, <2>2 DEF TypeOK
  <2> QED
    BY <2>1, <2>3 DEF CutChunk, TypeOK, reading, shared, ended
<1>6. TableTyped' /\ TableCounts'
  BY TableStays DEF CutChunk, shared
<1>7. /\ pc'[t] \in {"cut", "refer"} /\ stopped'[t] = end
      /\ pc'[t] = "refer" => it'[t] = it[t]
      /\ \A u \in Threads \ {t} : /\ pc'[u] = pc[u] /\ it'[u] = it[u]
                                  /\ stopped'[u] = stopped[u]
      /\ UNCHANGED <<offset, data, copied, i, mutex_, found, table>>
  BY <1>2, <1>4 DEF CutChunk, TypeOK, reading, shared
<1>8. LookupHolds'
  <2>1. \A u \in Threads \ {t} : Chunk(u)' = Chunk(u)
    BY <1>7 DEF Chunk, Content
  <2> QED
    BY <1>2, <1>7, <2>1 DEF LookupHolds
<1>9. BuffersHoldDisk'
  BY <1>1, <1>2, <1>7 DEF CutChunk, BuffersHoldDisk, HasBuffer, Filled
<1>10. BuffersInSteps' /\ StaysInReach'
  BY <1>1, <1>2, <1>7 DEF BuffersInSteps, StaysInReach, HasBuffer, CanRead
<1>11. ChunksAtHand'
  BY <1>3, <1>7 DEF ChunksAtHand
<1>12. ReferredIsPast' /\ ChunksBounded'
  <2>1. \A u \in Threads : Progress(u) \in Nat /\ Progress(u)' \in Nat /\ Progress(u) <= Progress(u)'
    <3>1. \A u \in Threads \ {t} : Progress(u) \in Nat /\ Progress(u)' = Progress(u)
      BY <1>7, DedupAssumption DEF TypeOK, Progress, From
    <3>2. it'[t] \in Nat /\ it'[t] >= it[t]
      BY <1>2, <1>3, <1>4 DEF TypeOK
    <3>3. Progress(t) = offset[t] + it[t] /\ Progress(t)' = offset[t] + it'[t]
      BY <1>2, <1>7 DEF Progress, From
    <3> QED
      BY <1>2, <3>1, <3>2, <3>3
  <2>2. UNCHANGED referred /\ referred \subseteq Threads \X Nat \X Nat
    BY DEF CutChunk, shared, TypeOK
  <2>3. ReferredIsPast'
    <3>1. ASSUME NEW r \in referred
          PROVE  r[2] < r[3] /\ r[3] <= Progress(r[1])'
      <4>1. r[1] \in Threads /\ r[3] \in Nat /\ r[2] < r[3] /\ r[3] <= Progress(r[1])
        BY <2>2 DEF ReferredIsPast
      <4> QED
        BY <2>1, <4>1
    <3> QED
      BY <2>2, <3>1 DEF ReferredIsPast
  <2>4. ChunksBounded'
    BY <1>1, <2>2 DEF ChunksBounded
  <2> QED
    BY <2>3, <2>4
<1> QED
  BY <1>1, <1>5, <1>6, <1>8, <1>9, <1>10, <1>11, <1>12, CutChunkLoses

LEMMA LockKeeps ==
  ASSUME IInv, NEW t \in Threads, Lock(t)
  PROVE  IInv'
<1> USE DEF IInv
<1>1. /\ DiskSize' = DiskSize /\ DiskIsRead' = DiskIsRead
      /\ \A u : read_begin(u)' = read_begin(u) /\ read_end(u)' = read_end(u)
  BY RegionsStay DEF Lock
<1>2. /\ pc[t] = "refer" /\ mutex_ = NoOne /\ mutex_' = t
      /\ pc'[t] = "found" /\ found'[t] = (Chunk(t) \in DOMAIN table)
      /\ \A u \in Threads \ {t} : pc'[u] = pc[u] /\ found'[u] = found[u]
      /\ UNCHANGED <<disk, i, offset, data, copied, it, stopped, table, referred>>
  BY DEF Lock, TypeOK, Goto, reading, cutting
<1>3. TypeOK'
  BY DEF Lock, TypeOK, Goto, reading, cutting, ended
<1>4. TableTyped' /\ TableCounts'
  BY <1>2, TableStays
<1>5. LookupHolds'
  <2>1. \A u \in Threads : Chunk(u)' = Chunk(u)
    BY <1>2 DEF Chunk, Content
  <2>2. \A u \in Threads : u # NoOne
    BY DedupAssumption DEF Threads
  <2>3. \A u \in Threads : pc[u] # "found"
    BY <1>2, <2>2 DEF LookupHolds
  <2> QED
    BY <1>2, <2>1, <2>3 DEF LookupHolds
<1>6. BuffersHoldDisk'
  BY <1>1, <1>2 DEF BuffersHoldDisk, HasBuffer, Filled
<1>7. BuffersInSteps' /\ StaysInReach'
  BY <1>1, <1>2 DEF BuffersInSteps, StaysInReach, HasBuffer, CanRead
<1>8. ChunksAtHand'
  BY <1>2 DEF ChunksAtHand
<1>9. \A u \in Threads : Progress(u)' = Progress(u)
  BY <1>2 DEF Progress, From
<1> QED
  BY <1>1, <1>2, <1>3, <1>4, <1>5, <1>6, <1>7, <1>8, <1>9, ChunksStay

\* A chunk more in a table that is right leaves it right: whoever looks the
\* chunk up and changes the table in one step counts it.
LEMMA OneMoreCounted ==
  ASSUME TableTyped, TableCounts, IsFiniteSet(referred), UNCHANGED disk,
         NEW r, r \notin referred, referred' = referred \cup {r}, Len(OnDisk(r)) \in Nat,
         table' = IF OnDisk(r) \in DOMAIN table THEN ReferenceAdd(OnDisk(r)) ELSE Emplace(OnDisk(r))
  PROVE  TableTyped' /\ TableCounts'
<1> DEFINE c == OnDisk(r)
           At(d) == {s \in referred : OnDisk(s) = d}
<1>1. \A s : OnDisk(s)' = OnDisk(s)
  BY RegionsStay
<1>2. \A d : {s \in referred' : OnDisk(s)' = d} = IF d = c THEN At(d) \cup {r} ELSE At(d)
  BY <1>1
<1>3. \A d : IsFiniteSet(At(d)) /\ Cardinality(At(d)) \in Nat
  BY FS_Subset, FS_CardinalityType
<1>4. Cardinality(At(c) \cup {r}) = Cardinality(At(c)) + 1
  <2>1. r \notin At(c) /\ IsFiniteSet(At(c))
    BY <1>3
  <2> HIDE DEF At
  <2> QED
    BY <2>1, FS_AddElement
<1>5. DOMAIN table = {OnDisk(s) : s \in referred}
      /\ \A d \in DOMAIN table : table[d].size_ = Len(d) /\ table[d].ref_cnt_ = Cardinality(At(d))
  BY DEF TableCounts
<1>6. DOMAIN table' = DOMAIN table \cup {c}
  BY DEF ReferenceAdd, Emplace
<1>7. DOMAIN table' = {OnDisk(s)' : s \in referred'}
  BY <1>1, <1>5, <1>6
<1>8. c \notin DOMAIN table => Cardinality(At(c)) = 0
  BY <1>5, FS_EmptySet
<1>9. /\ table'[c].size_ = Len(c) /\ table'[c].ref_cnt_ = Cardinality(At(c)) + 1
      /\ table'[c] \in [size_ : Nat, ref_cnt_ : Nat]
  <2>1. CASE c \in DOMAIN table
    <3>1. /\ table'[c] = [table[c] EXCEPT !.ref_cnt_ = @ + 1]
          /\ table[c] \in [size_ : Nat, ref_cnt_ : Nat]
      BY <2>1 DEF ReferenceAdd, TableTyped
    <3>2. /\ table'[c].size_ = table[c].size_ /\ table'[c].ref_cnt_ = table[c].ref_cnt_ + 1
          /\ table'[c] \in [size_ : Nat, ref_cnt_ : Nat]
      BY <3>1
    <3> QED
      BY <1>5, <2>1, <3>2
  <2>2. CASE c \notin DOMAIN table
    <3>1. table'[c] = [size_ |-> Len(c), ref_cnt_ |-> 1]
      BY <2>2 DEF Emplace
    <3> QED
      BY <1>8, <2>2, <3>1
  <2> QED
    BY <2>1, <2>2
<1>10. \A d \in DOMAIN table \ {c} : table'[d] = table[d]
  BY DEF ReferenceAdd, Emplace
<1>11. TableTyped'
  <2>1. \A d \in DOMAIN table' : table'[d] \in [size_ : Nat, ref_cnt_ : Nat]
    BY <1>6, <1>9, <1>10 DEF TableTyped
  <2>2. table' = [d \in DOMAIN table' |-> table'[d]]
    BY DEF ReferenceAdd, Emplace, TableTyped
  <2> QED
    BY <2>1, <2>2 DEF TableTyped
<1>12. ASSUME NEW d \in DOMAIN table'
       PROVE  /\ table'[d].size_ = Len(d)
              /\ table'[d].ref_cnt_ = Cardinality({s \in referred' : OnDisk(s)' = d})
  <2>1. CASE d = c
    BY <1>2, <1>4, <1>9, <2>1
  <2>2. CASE d # c
    BY <1>2, <1>5, <1>6, <1>10, <2>2
  <2> QED
    BY <2>1, <2>2
<1> QED
  BY <1>7, <1>11, <1>12 DEF TableCounts

LEMMA ReferKeeps ==
  ASSUME IInv, NEW t \in Threads, Refer(t)
  PROVE  IInv'
<1> USE DEF IInv
<1> DEFINE r == <<t, From(t), To(t)>>
<1>1. /\ DiskSize' = DiskSize /\ DiskIsRead' = DiskIsRead
      /\ \A u : read_begin(u)' = read_begin(u) /\ read_end(u)' = read_end(u)
  BY RegionsStay DEF Refer
<1>2. /\ pc[t] = "found" /\ mutex_' = NoOne /\ pc'[t] = "cut" /\ it'[t] = stopped[t]
      /\ referred' = referred \cup {r}
      /\ table' = IF found[t] THEN ReferenceAdd(Chunk(t)) ELSE Emplace(Chunk(t))
      /\ \A u \in Threads \ {t} : pc'[u] = pc[u] /\ it'[u] = it[u]
      /\ UNCHANGED <<disk, i, offset, data, copied, stopped, found>>
  BY DEF Refer, TypeOK, Goto, reading
<1>3. /\ offset[t] \in Nat /\ it[t] \in 0..kReadSize /\ stopped[t] \in 0..kReadSize
      /\ kReadSize \in Nat /\ it[t] < stopped[t]
      /\ offset[t] + kReadSize < DiskSize /\ DiskSize \in Nat
  BY <1>2, DedupAssumption, Regions DEF TypeOK, ChunksAtHand, BuffersHoldDisk, HasBuffer
<1>4. /\ r[1] = t /\ r[2] = offset[t] + it[t] /\ r[3] = offset[t] + stopped[t]
      /\ r[2] \in Nat /\ r[3] \in Nat /\ r[2] < r[3]
  BY <1>3 DEF From, To
<1>5. Progress(t) = r[2] /\ Progress(t)' = r[3]
  BY <1>2, <1>3, <1>4 DEF Progress, From
<1>6. r \notin referred
  BY <1>4, <1>5 DEF ReferredIsPast
<1> HIDE DEF r
<1>7. OnDisk(r) = Chunk(t) /\ Len(OnDisk(r)) \in Nat
  <2>1. \A n \in 0..(kReadSize - 1) : data[t][n] = disk[offset[t] + n]
    BY <1>2 DEF BuffersHoldDisk, HasBuffer, Filled
  <2>2. r[3] - r[2] = stopped[t] - it[t] /\ stopped[t] - it[t] \in Nat
    BY <1>3, <1>4
  <2>3. ASSUME NEW n \in 1..(stopped[t] - it[t])
        PROVE  disk[r[2] + n - 1] = data[t][it[t] + n - 1]
    <3>1. it[t] + n - 1 \in 0..(kReadSize - 1)
      BY <1>3
    <3>2. r[2] + n - 1 = offset[t] + (it[t] + n - 1)
      BY <1>3, <1>4
    <3> QED
      BY <2>1, <3>1, <3>2
  <2>4. OnDisk(r) = Chunk(t)
    BY <2>2, <2>3 DEF OnDisk, Chunk, Content
  <2>5. Len(OnDisk(r)) = stopped[t] - it[t]
    <3>1. OnDisk(r) = [n \in 1..(stopped[t] - it[t]) |-> disk[r[2] + n - 1]]
      BY <2>2 DEF OnDisk
    <3>2. DOMAIN OnDisk(r) = 1..(stopped[t] - it[t])
      BY <3>1
    <3> QED
      BY <2>2, <3>1, <3>2
  <2> QED
    BY <2>2, <2>4, <2>5
<1>8. TableTyped' /\ TableCounts'
  <2>1. found[t] = (OnDisk(r) \in DOMAIN table)
    BY <1>2, <1>7 DEF LookupHolds
  <2>2. table' = IF OnDisk(r) \in DOMAIN table THEN ReferenceAdd(OnDisk(r))
                                               ELSE Emplace(OnDisk(r))
    BY <1>2, <1>7, <2>1
  <2>3. IsFiniteSet(referred)
    BY DEF ReferredIsPast
  <2> QED
    BY <1>2, <1>6, <1>7, <2>2, <2>3, OneMoreCounted
<1>9. IsFiniteSet(referred') /\ referred' \subseteq Threads \X Nat \X Nat
  <2>1. r \in Threads \X Nat \X Nat
    BY <1>3 DEF r, From, To
  <2> QED
    BY <1>2, <2>1, FS_AddElement DEF ReferredIsPast, TypeOK
<1>10. TypeOK'
  <2>1. \A c \in DOMAIN table' : table'[c].size_ \in Nat /\ table'[c].ref_cnt_ \in Nat \ {0}
    <3>1. \A c \in DOMAIN table : table[c].size_ \in Nat /\ table[c].ref_cnt_ \in Nat \ {0}
      BY DEF TypeOK
    <3>2. CASE Chunk(t) \in DOMAIN table
      <4>1. found[t]
        BY <1>2, <3>2 DEF LookupHolds
      <4>2. table' = [table EXCEPT ![Chunk(t)] = [table[Chunk(t)] EXCEPT !.ref_cnt_ = @ + 1]]
        BY <1>2, <4>1 DEF ReferenceAdd
      <4>3. table[Chunk(t)] \in [size_ : Nat, ref_cnt_ : Nat]
        BY <3>2 DEF TableTyped
      <4> QED
        BY <3>1, <3>2, <4>2, <4>3
    <3>3. CASE Chunk(t) \notin DOMAIN table
      <4>1. ~found[t]
        BY <1>2, <3>3 DEF LookupHolds
      <4>2. table' = [c \in DOMAIN table \cup {Chunk(t)} |->
                        IF c = Chunk(t) THEN [size_ |-> Len(Chunk(t)), ref_cnt_ |-> 1] ELSE table[c]]
        BY <1>2, <3>3, <4>1 DEF Emplace
      <4> QED
        BY <1>7, <3>1, <3>3, <4>2
    <3> QED
      BY <3>2, <3>3
  <2>2. /\ pc' \in [Threads -> {"read", "pread", "cut", "refer", "found", "dumping", "done"}]
        /\ it' \in [Threads -> 0..kReadSize] /\ aborted' \in BOOLEAN
    BY DEF Refer, TypeOK, Goto
  <2>3. mutex_' \in Threads \cup {NoOne} /\ UNCHANGED <<joined>>
    BY DEF Refer, ended
  <2> QED
    BY <1>2, <1>9, <2>1, <2>2, <2>3 DEF TypeOK
<1>11. LookupHolds'
  <2>1. \A u \in Threads : u # NoOne
    BY DedupAssumption DEF Threads
  <2>2. \A u \in Threads \ {t} : pc[u] # "found"
    BY <1>2 DEF LookupHolds
  <2> QED
    BY <1>2, <2>1, <2>2 DEF LookupHolds
<1>12. BuffersHoldDisk'
  BY <1>1, <1>2 DEF BuffersHoldDisk, HasBuffer, Filled
<1>13. BuffersInSteps' /\ StaysInReach'
  BY <1>1, <1>2 DEF BuffersInSteps, StaysInReach, HasBuffer, CanRead
<1>14. ChunksAtHand'
  BY <1>2 DEF ChunksAtHand
<1>15. ReferredIsPast'
  <2>1. \A u \in Threads \ {t} : Progress(u)' = Progress(u)
    BY <1>2 DEF Progress, From
  <2>2. ASSUME NEW s \in referred
        PROVE  s[2] < s[3] /\ s[3] <= Progress(s[1])'
    <3>1. s[1] \in Threads /\ s[3] \in Nat /\ s[2] < s[3] /\ s[3] <= Progress(s[1])
      BY DEF ReferredIsPast, TypeOK
    <3> QED
      BY <1>4, <1>5, <2>1, <3>1
  <2> QED
    BY <1>2, <1>4, <1>5, <1>9, <2>2 DEF ReferredIsPast
<1>16. ChunksBounded'
  <2>1. r[3] <= r[2] + max_ /\ r[3] < DiskSize
    BY <1>2, <1>3, <1>4, TTTDAssumption DEF ChunksAtHand
  <2>2. r[3] >= r[2] + min_ \/ (r[3] - read_begin(t)) % kReadSize = 0
    <3>1. CASE stopped[t] >= it[t] + min_
      BY <1>3, <1>4, <3>1, TTTDAssumption
    <3>2. CASE stopped[t] = kReadSize
      <4>1. /\ offset[t] = read_begin(t) + i[t] * kReadSize /\ i[t] \in Nat
            /\ read_begin(t) \in Nat /\ kReadSize \in Nat \ {0}
        BY Regions, DedupAssumption DEF BuffersInSteps, TypeOK
      <4>2. i[t] * kReadSize + kReadSize = (i[t] + 1) * kReadSize
        BY <4>1
      <4>3. i[t] * kReadSize \in Nat
        BY <4>1
      <4>4. r[3] - read_begin(t) = (i[t] + 1) * kReadSize
        <5> HIDE DEF read_begin
        <5> QED
          BY <1>4, <3>2, <4>1, <4>2, <4>3
      <4>5. i[t] + 1 \in Nat /\ kReadSize \in Nat \ {0}
        BY <4>1
      <4>6. ((i[t] + 1) * kReadSize) % kReadSize = 0
        BY <4>5, NoRemainder
      <4> QED
        BY <4>4, <4>6
    <3> QED
      BY <1>2, <3>1, <3>2 DEF ChunksAtHand
  <2>3. \A s \in referred : s[1] = t => s[3] <= r[2]
    BY <1>5 DEF ReferredIsPast
  <2>4. \A s \in referred : s[2] \in Nat /\ s[3] \in Nat
    BY DEF TypeOK
  <2>5. ASSUME NEW s \in referred'
        PROVE  /\ s[2] < s[3] /\ s[3] <= s[2] + max_ /\ s[3] < DiskSize
               /\ s[3] >= s[2] + min_ \/ (s[3] - read_begin(s[1])) % kReadSize = 0
    BY <1>2, <1>4, <2>1, <2>2 DEF ChunksBounded
  <2>6. ASSUME NEW s \in referred', NEW u \in referred', u[1] = s[1], u # s
        PROVE  u[3] <= s[2] \/ u[2] >= s[3]
    <3>1. CASE s = r
      BY <1>2, <1>4, <2>3, <2>6, <3>1
    <3>2. CASE u = r
      BY <1>2, <1>4, <2>3, <2>4, <2>6, <3>2
    <3>3. CASE s # r /\ u # r
      BY <1>2, <2>6, <3>3 DEF ChunksBounded
    <3> QED
      BY <3>1, <3>2, <3>3
  <2> QED
    BY <1>1, <2>5, <2>6 DEF ChunksBounded
<1>17. LostAreForced'
  <2>1. /\ \A u : PassedIn(u) = read_begin(u)..(Progress(u) - 1)
        /\ \A u : PassedIn(u)' = read_begin(u)..(Progress(u)' - 1)
    BY <1>1 DEF PassedIn, Progress
  <2>2. \A u \in Threads \ {t} : Progress(u)' = Progress(u)
    BY <1>2 DEF Progress, From
  <2>3. \A u \in Threads \ {t} : Covered(u)' = Covered(u)
    BY <1>2, <1>4 DEF Covered
  <2>4. Covered(t)' = Covered(t) \cup r[2]..(r[3] - 1)
    BY <1>2, <1>4 DEF Covered
  <2>5. read_begin(t) \in Nat /\ read_begin(t) <= r[2]
    <3>1. /\ offset[t] = read_begin(t) + i[t] * kReadSize /\ i[t] \in Nat
          /\ read_begin(t) \in Nat
      BY Regions DEF BuffersInSteps, TypeOK
    <3>2. i[t] * kReadSize \in Nat
      BY <1>3, <3>1
    <3> HIDE DEF read_begin
    <3> QED
      BY <1>3, <1>4, <3>1, <3>2
  <2> HIDE DEF read_begin
  <2>6. /\ PassedIn(t)' = PassedIn(t) \cup r[2]..(r[3] - 1)
        /\ PassedIn(t) \cap r[2]..(r[3] - 1) = {}
    BY <1>4, <1>5, <2>1, <2>5
  <2>7. Lost(t)' = Lost(t)
    BY <2>4, <2>6 DEF Lost
  <2>8. \A u \in Threads \ {t} : Lost(u)' = Lost(u)
    BY <2>1, <2>2, <2>3 DEF Lost
  <2> QED
    BY <1>2, <2>7, <2>8 DEF LostAreForced, NoDivisor
<1> QED
  BY <1>1, <1>8, <1>10, <1>11, <1>12, <1>13, <1>14, <1>15, <1>16, <1>17

LEMMA NextBufferKeeps ==
  ASSUME IInv, NEW t \in Threads, NextBuffer(t)
  PROVE  IInv'
<1> USE DEF IInv
<1>1. /\ DiskSize' = DiskSize /\ DiskIsRead' = DiskIsRead
      /\ \A u : read_begin(u)' = read_begin(u) /\ read_end(u)' = read_end(u)
  BY RegionsStay DEF NextBuffer
<1>2. /\ pc[t] = "cut" /\ it[t] = kReadSize /\ pc'[t] \in {"read", "dumping"}
      /\ i'[t] = i[t] + 1 /\ offset'[t] = offset[t] + kReadSize
      /\ \A u \in Threads \ {t} : pc'[u] = pc[u] /\ i'[u] = i[u] /\ offset'[u] = offset[u]
      /\ UNCHANGED <<disk, data, copied, it, stopped, mutex_, found, table, referred>>
  BY DEF NextBuffer, TypeOK, Goto, reading, cutting, shared
<1>3. /\ offset[t] \in Nat /\ i[t] \in Nat /\ kReadSize \in Nat \ {0}
      /\ read_begin(t) \in Nat /\ read_end(t) \in Nat
  BY DedupAssumption, Regions DEF TypeOK
<1>4. TypeOK'
  <2>1. pc' \in [Threads -> {"read", "pread", "cut", "refer", "found", "dumping", "done"}]
    BY DEF NextBuffer, TypeOK, Goto
  <2>2. offset[t] + kReadSize \in Nat /\ i[t] + 1 \in Nat
    BY <1>3
  <2>3. offset' \in [Threads -> Nat] /\ i' \in [Threads -> Nat]
    BY <2>2 DEF NextBuffer, TypeOK
  <2> QED
    BY <2>1, <2>3 DEF NextBuffer, TypeOK, reading, cutting, shared, ended
<1>5. TableTyped' /\ TableCounts'
  BY <1>2, TableStays
<1>6. LookupHolds'
  <2>1. \A u \in Threads : Chunk(u)' = Chunk(u)
    BY <1>2 DEF Chunk, Content
  <2> QED
    BY <1>2, <2>1 DEF LookupHolds
<1>7. BuffersHoldDisk'
  BY <1>1, <1>2 DEF BuffersHoldDisk, HasBuffer, Filled
<1>8. BuffersInSteps'
  <2>1. offset'[t] = read_begin(t) + i'[t] * kReadSize
    <3>1. offset[t] = read_begin(t) + i[t] * kReadSize
      BY DEF BuffersInSteps
    <3>2. (i[t] + 1) * kReadSize = i[t] * kReadSize + kReadSize /\ i[t] * kReadSize \in Nat
      BY <1>3
    <3> HIDE DEF read_begin
    <3> QED
      BY <1>2, <1>3, <3>1, <3>2
  <2>2. read_begin(t) % Align = 0
    BY <1>2 DEF BuffersInSteps
  <2> QED
    BY <1>1, <1>2, <2>1, <2>2 DEF BuffersInSteps
<1>9. StaysInReach'
  <2>1. offset[t] < read_end(t)
    BY <1>2 DEF StaysInReach, HasBuffer
  <2>2. offset'[t] < read_end(t) + kReadSize
    <3> HIDE DEF read_end
    <3> QED
      BY <1>2, <1>3, <2>1
  <2> QED
    BY <1>1, <1>2, <2>2 DEF StaysInReach, HasBuffer, CanRead
<1>10. ChunksAtHand'
  BY <1>2 DEF ChunksAtHand
<1>11. \A u \in Threads : Progress(u)' = Progress(u)
  BY <1>2 DEF Progress, From
<1> QED
  BY <1>1, <1>2, <1>4, <1>5, <1>6, <1>7, <1>8, <1>9, <1>10, <1>11, ChunksStay

\* Steps that end the process, dump the table or leave everything as it is
\* move no thread within a buffer.
LEMMA OthersKeep ==
  ASSUME IInv, UNCHANGED <<disk, i, offset, data, copied, it, stopped, mutex_, found, table, referred>>,
         joined' \in BOOLEAN, aborted' \in BOOLEAN,
         \/ UNCHANGED pc
         \/ \E t \in Threads : pc[t] = "dumping" /\ pc' = [pc EXCEPT ![t] = "read"]
  PROVE  IInv'
<1> USE DEF IInv
<1>1. /\ DiskSize' = DiskSize /\ DiskIsRead' = DiskIsRead
      /\ \A u : read_begin(u)' = read_begin(u) /\ read_end(u)' = read_end(u)
  BY RegionsStay
<1>2. \A u \in Threads : \/ pc'[u] = pc[u]
                         \/ pc[u] = "dumping" /\ pc'[u] = "read"
  BY DEF TypeOK
<1>3. TypeOK'
  BY DEF TypeOK
<1>4. TableTyped' /\ TableCounts'
  BY TableStays
<1>5. LookupHolds'
  <2>1. \A u \in Threads : Chunk(u)' = Chunk(u)
    BY DEF Chunk, Content
  <2> QED
    BY <1>2, <2>1 DEF LookupHolds
<1>6. BuffersHoldDisk'
  BY <1>1, <1>2 DEF BuffersHoldDisk, HasBuffer, Filled
<1>7. BuffersInSteps' /\ StaysInReach'
  BY <1>1, <1>2 DEF BuffersInSteps, StaysInReach, HasBuffer, CanRead
<1>8. ChunksAtHand'
  BY <1>2 DEF ChunksAtHand
<1>9. \A u \in Threads : Progress(u)' = Progress(u)
  BY <1>2 DEF Progress, From
<1> QED
  BY <1>1, <1>3, <1>4, <1>5, <1>6, <1>7, <1>8, <1>9, ChunksStay

LEMMA Inductive == IInv /\ [Next]_vars => IInv'
<1> SUFFICES ASSUME IInv, [Next]_vars PROVE IInv'
  OBVIOUS
<1> USE DEF reading, cutting, shared, ended
<1>1. ASSUME NEW t \in Threads, Read(t) PROVE IInv'
  BY <1>1, ReadKeeps
<1>2. ASSUME NEW t \in Threads, Pread(t) PROVE IInv'
  BY <1>2, PreadKeeps
<1>3. ASSUME NEW t \in Threads, CutChunk(t) PROVE IInv'
  BY <1>3, CutChunkKeeps
<1>4. ASSUME NEW t \in Threads, Lock(t) PROVE IInv'
  BY <1>4, LockKeeps
<1>5. ASSUME NEW t \in Threads, Refer(t) PROVE IInv'
  BY <1>5, ReferKeeps
<1>6. ASSUME NEW t \in Threads, NextBuffer(t) PROVE IInv'
  BY <1>6, NextBufferKeeps
<1>7. joined \in BOOLEAN /\ aborted \in BOOLEAN
  BY DEF IInv, TypeOK
<1>8. ASSUME NEW t \in Threads, Dumped(t) PROVE IInv'
  BY <1>7, <1>8, OthersKeep DEF Dumped, Goto, DumpDies
<1>9. ASSUME NEW t \in Threads, PreadFails(t) PROVE IInv'
  BY <1>7, <1>9, OthersKeep DEF PreadFails
<1>10. ASSUME Join PROVE IInv'
  BY <1>10, OthersKeep DEF Join, DumpDies
<1>11. ASSUME UNCHANGED vars PROVE IInv'
  BY <1>7, <1>11, OthersKeep DEF vars
<1> QED
  BY <1>1, <1>2, <1>3, <1>4, <1>5, <1>6, <1>8, <1>9, <1>10, <1>11 DEF Next, Step

LEMMA Invariant == Spec => []IInv
  BY Initially, Inductive, PTL DEF Spec
-----------------------------------------------------------------------------
(* The theorems *)

\* Whatever the number of threads and however they interleave, the table
\* counts every chunk given to HashRefer once, under what the disk holds
\* there and with its size (the assert of HashRefer, main.cpp line 209).
THEOREM EveryReferenceCounted == Spec => []TableExact
<1>1. IInv => TableExact
  BY DEF IInv, TableExact, TableCounts
<1> QED
  BY <1>1, Invariant, PTL

\* TTTD::Chunkify and the loop of CreateDedupHashes give HashRefer chunks of
\* bounded size, on the disk, that do not overlap within a region.
THEOREM ChunksAreBounded == Spec => []ChunksBounded
<1>1. IInv => ChunksBounded
  BY DEF IInv
<1> QED
  BY <1>1, Invariant, PTL

\* What TTTD::Chunkify returns as not ready is not hashed in the middle of a
\* buffer: nothing but whole chunks that were cut by force is passed over.
THEOREM OnlyForcedCutsAreLost == Spec => []OnlyForcedCutsAreSkipped
<1>1. IInv => OnlyForcedCutsAreSkipped
  BY DEF IInv, LostAreForced, Lost, NoDivisor, OnlyForcedCutsAreSkipped
<1> QED
  BY <1>1, Invariant, PTL

\* Neighbours differ in what they leave: no multiple of b follows another.
LEMMA NoNeighbours ==
  ASSUME NEW b \in Nat \ {0, 1}, NEW k \in Nat, k % b = 0, NEW n \in Nat, NEW y \in Nat, y % b = 0
  PROVE  y - 1 # n * k
<1>1. PICK m \in Nat : k = m * b
  <2>1. k \div b \in Nat /\ k = (k \div b) * b
    OBVIOUS
  <2> QED
    BY <2>1
<1>2. PICK l \in Nat : y = l * b
  <2>1. y \div b \in Nat /\ y = (y \div b) * b
    OBVIOUS
  <2> QED
    BY <2>1
<1>3. n * k = (n * m) * b /\ n * m \in Nat
  BY <1>1
<1>4. ASSUME NEW d \in Int PROVE d * b # 1
  <2>1. CASE d <= 0
    BY <2>1
  <2>2. CASE d >= 1
    BY <2>2
  <2> QED
    BY <2>1, <2>2
<1>5. y - n * k = (l - n * m) * b
  BY <1>2, <1>3
<1>6. l - n * m \in Int
  BY <1>2, <1>3
<1>7. y - n * k # 1
  BY <1>4, <1>5, <1>6
<1> QED
  BY <1>3, <1>7

\* When the threads are through, their regions meet, for every size of the
\* disk: main divides it among them without regard to the buffers, and a
\* region that would leave a gap begins where the device does not read.
THEOREM NothingIsLeftOut == Spec => []RegionsMeet
<1>1. ASSUME IInv, \A t \in Threads : pc[t] = "done"
      PROVE  RegionsMeet
  <2> USE <1>1 DEF IInv
  <2>1. /\ \A t \in Threads : PassedIn(t) = read_begin(t)..(offset[t] - 1)
        /\ \A t \in Threads : offset[t] \in Nat /\ i[t] \in Nat
        /\ kReadSize \in Nat \ {0} /\ kThreads \in Nat \ {0} /\ 2 * kThreads <= kReadSize
    BY DedupAssumption DEF PassedIn, TypeOK
  <2>2. /\ DiskSize \in Nat /\ x \in Nat \ {0}
        /\ kThreads * x \in Nat /\ kThreads * x <= DiskSize /\ DiskSize < kThreads * x + kThreads
        /\ \A t \in Threads : /\ read_begin(t) \in Nat /\ read_end(t) \in Nat
                              /\ read_end(t) = read_begin(t) + x - 1
    BY <2>1, Regions
  <2>3. \A t \in Threads : /\ offset[t] < read_end(t) + kReadSize
                           /\ offset[t] >= read_end(t) \/ offset[t] + kReadSize >= DiskSize
    <3>1. ASSUME NEW t \in Threads
          PROVE  /\ offset[t] < read_end(t) + kReadSize
                 /\ offset[t] >= read_end(t) \/ offset[t] + kReadSize >= DiskSize
      <4>1. /\ offset[t] \in Nat /\ read_end(t) \in Nat /\ DiskSize \in Nat /\ kReadSize \in Nat
            /\ offset[t] < read_end(t) + kReadSize
            /\ ~(offset[t] < read_end(t) /\ offset[t] + kReadSize < DiskSize)
        BY <2>1, <2>2 DEF StaysInReach, CanRead
      <4> QED
        BY <4>1
    <3> QED
      BY <3>1
  <2>4. ASSUME NEW t \in Threads, NEW u \in Threads, t < u
        PROVE  PassedIn(t) \cap PassedIn(u) \subseteq read_begin(u)..(read_end(t) + kReadSize - 1)
    <3>1. /\ PassedIn(t) = read_begin(t)..(offset[t] - 1)
          /\ PassedIn(u) = read_begin(u)..(offset[u] - 1)
          /\ read_begin(t) \in Nat /\ read_begin(u) \in Nat /\ read_end(t) \in Nat
          /\ offset[t] \in Nat /\ offset[u] \in Nat /\ offset[t] < read_end(t) + kReadSize
      BY <2>1, <2>2, <2>3
    <3> HIDE DEF read_begin, read_end, PassedIn
    <3> QED
      BY <2>1, <3>1
  <2>5. ASSUME NEW n \in DOMAIN disk, \A t \in Threads : n \notin PassedIn(t),
               n < DiskSize - kReadSize
        PROVE  FALSE
    <3> DEFINE t == n \div x
    <3>1. n \in Nat
      BY DEF DiskIsRead
    <3>2. t \in Nat /\ t * x <= n /\ n < t * x + x
      BY <2>2, <3>1
    <3> HIDE DEF t
    <3>3. t \in Threads
      <4>1. n < kThreads * x
        BY <2>1, <2>2, <2>5, <3>1
      <4>2. t >= kThreads => t * x >= kThreads * x
        BY <2>1, <2>2, <3>2
      <4>3. t < kThreads
        BY <2>1, <2>2, <3>1, <3>2, <4>1, <4>2
      <4> QED
        BY <2>1, <3>2, <4>3 DEF Threads
    <3>4. read_begin(t) = t * x /\ read_begin(t) <= n /\ n <= read_end(t)
      BY <2>2, <3>1, <3>2, <3>3 DEF read_begin
    <3>5. offset[t] <= n
      <4> HIDE DEF read_begin, PassedIn
      <4> QED
        BY <2>1, <2>2, <2>5, <3>1, <3>3, <3>4
    <3>6. n = offset[t] /\ n = read_end(t)
      <4> HIDE DEF read_end
      <4> QED
        BY <2>1, <2>2, <2>3, <2>5, <3>1, <3>3, <3>4, <3>5
    <3>7. x - 1 = i[t] * kReadSize
      <4> DEFINE read == i[t] * kReadSize
      <4>1. offset[t] = read_begin(t) + read /\ read \in Nat
        BY <2>1, <3>3 DEF BuffersInSteps
      <4>2. read_end(t) = read_begin(t) + x - 1 /\ read_begin(t) \in Nat /\ x \in Nat
        BY <2>2, <3>3
      <4> HIDE DEF read
      <4>3. read_begin(t) + x - 1 = read_begin(t) + read
        BY <3>6, <4>1, <4>2
      <4>4. \A a \in Nat : a + x - 1 = a + read => x - 1 = read
        BY <4>1, <4>2
      <4>5. x - 1 = read
        BY <4>2, <4>3, <4>4
      <4> QED
        BY <4>5 DEF read
    <3>8. t + 1 < kThreads
      <4>1. n = t * x + x - 1 /\ t * x \in Nat
        BY <2>2, <3>2, <3>3, <3>4, <3>6
      <4>2. t = kThreads - 1 => kThreads * x = t * x + x
        BY <2>1, <2>2, <3>2
      <4>3. t # kThreads - 1
        BY <2>1, <2>2, <2>5, <3>1, <4>1, <4>2
      <4> QED
        BY <2>1, <3>3, <4>3 DEF Threads
    <3>9. 1 \in Threads /\ read_begin(1) = x /\ 2 * x <= DiskSize
      <4>1. kThreads >= 2
        BY <2>1, <3>2, <3>8
      <4>2. kThreads * x >= 2 * x
        BY <2>1, <2>2, <4>1
      <4> QED
        BY <2>1, <2>2, <4>1, <4>2 DEF Threads, read_begin
    <3>10. x > kReadSize
      <4>1. CASE i[t] = 0
        <5>1. x = 1
          BY <2>1, <2>2, <3>7, <4>1
        <5> QED
          BY <2>1, <2>2, <2>5, <3>1, <5>1
      <4>2. CASE i[t] >= 1
        <5>1. i[t] * kReadSize >= kReadSize
          BY <2>1, <3>3, <4>2
        <5> QED
          BY <2>1, <2>2, <3>7, <5>1
      <4> QED
        BY <2>1, <3>3, <4>1, <4>2
    <3>11. i[1] > 0
      <4>1. CASE i[1] = 0
        <5>1. offset[1] = x
          <6>1. offset[1] = read_begin(1) + i[1] * kReadSize /\ 0 * kReadSize = 0
            BY <2>1, <3>9 DEF BuffersInSteps
          <6> QED
            BY <2>2, <3>9, <4>1, <6>1
        <5>2. read_end(1) = x + x - 1
          BY <2>2, <3>9
        <5> QED
          BY <2>1, <2>2, <2>3, <3>9, <3>10, <5>1, <5>2
      <4> QED
        BY <2>1, <3>9, <4>1
    <3>12. x % Align = 0
      BY <3>9, <3>11 DEF BuffersInSteps
    <3> QED
      BY <2>1, <2>2, <3>3, <3>7, <3>12, NoNeighbours, DedupAssumption
  <2>6. ASSUME NEW n \in DOMAIN disk, \A t \in Threads : n \notin PassedIn(t)
        PROVE  n >= DiskSize - kReadSize
    <3>1. n \in Nat
      BY DEF DiskIsRead
    <3> QED
      BY <2>1, <2>2, <2>5, <2>6, <3>1
  <2> QED
    BY <2>4, <2>6 DEF RegionsMeet
<1>2. IInv => RegionsMeet
  BY <1>1 DEF RegionsMeet
<1> QED
  BY <1>2, Invariant, PTL
-----------------------------------------------------------------------------
(* The final numbers *)

\* The last dump is of a table that no thread changes any more.
FinalIsDumped ==
  /\ joined => \A t \in Threads : pc[t] = "done"
  /\ final # NoOne => joined /\ ~DumpDies /\ final = DumpStats

\* Each byte that thread t has in a chunk, as the thread's.
CoveredBy(t) == {<<t, n>> : n \in Covered(t)}

\* The bytes that were hashed as content c, each as its thread's.
HashedAs(c) ==
  {<<b[1][1], b[2]>> : b \in {d \in referred \X Nat :
                               OnDisk(d[1]) = c /\ d[2] \in d[1][2]..(d[1][3] - 1)}}

\* A chunk is as long as its place on the disk.
LEMMA ChunkLength ==
  ASSUME IInv, NEW r \in referred
  PROVE  /\ r[1] \in Threads /\ r[2] \in Nat /\ r[3] \in Nat /\ r[2] < r[3]
         /\ OnDisk(r) \in Seq({disk[n] : n \in Nat}) /\ Len(OnDisk(r)) = r[3] - r[2]
<1>1. r[1] \in Threads /\ r[2] \in Nat /\ r[3] \in Nat /\ r[2] < r[3]
  BY DEF IInv, TypeOK, ReferredIsPast
<1>2. \A n \in 1..(r[3] - r[2]) : r[2] + n - 1 \in Nat
  BY <1>1
<1>3. OnDisk(r) \in [1..(r[3] - r[2]) -> {disk[n] : n \in Nat}]
  BY <1>2 DEF OnDisk
<1>4. r[3] - r[2] \in Nat
  BY <1>1
<1>5. OnDisk(r) \in Seq({disk[n] : n \in Nat}) /\ Len(OnDisk(r)) = r[3] - r[2]
  BY <1>3, <1>4, LenProperties
<1> QED
  BY <1>1, <1>5

\* What the table says of a content, while the histogram takes it.
LEMMA TableHas ==
  ASSUME IInv, ~DumpDies
  PROVE  /\ IsFiniteSet(DOMAIN table) /\ DOMAIN table # {}
         /\ \A c \in DOMAIN table :
              /\ Len(c) \in Nat \ {0} /\ table[c].size_ = Len(c)
              /\ table[c].ref_cnt_ \in 1..LastRange
              /\ table[c].ref_cnt_ = Cardinality({r \in referred : OnDisk(r) = c})
<1>1. DOMAIN table = {OnDisk(r) : r \in referred} /\ IsFiniteSet(referred)
  BY DEF IInv, TableCounts, ReferredIsPast
<1>2. [r \in referred |-> OnDisk(r)] \in Surjection(referred, DOMAIN table)
  BY <1>1 DEF Surjection
<1>3. IsFiniteSet(DOMAIN table)
  BY <1>1, <1>2, FS_Surjection
<1>4. ASSUME NEW c \in DOMAIN table PROVE Len(c) \in Nat \ {0}
  <2>1. PICK r \in referred : c = OnDisk(r)
    BY <1>1
  <2>2. r[2] \in Nat /\ r[3] \in Nat /\ r[2] < r[3] /\ Len(OnDisk(r)) = r[3] - r[2]
    BY ChunkLength
  <2>3. r[3] - r[2] \in Nat \ {0}
    BY <2>2
  <2> QED
    BY <2>1, <2>2, <2>3
<1>5. \A c \in DOMAIN table :
        /\ table[c].size_ = Len(c) /\ table[c].ref_cnt_ \in Nat \ {0}
        /\ table[c].ref_cnt_ = Cardinality({r \in referred : OnDisk(r) = c})
        /\ ~(table[c].ref_cnt_ > LastRange)
  BY DEF IInv, TypeOK, TableCounts, DumpDies
<1>6. \A c \in DOMAIN table : table[c].ref_cnt_ \in 1..LastRange
  <2>1. ASSUME NEW c \in DOMAIN table PROVE table[c].ref_cnt_ \in 1..LastRange
    <3>1. table[c].ref_cnt_ \in Nat \ {0} /\ ~(table[c].ref_cnt_ > LastRange) /\ LastRange \in Nat
      BY <1>5, DedupAssumption
    <3> QED
      BY <3>1
  <2> QED
    BY <2>1
<1> QED
  BY <1>3, <1>4, <1>5, <1>6 DEF DumpDies

\* As many bytes were hashed as a content as it is long, each time.
LEMMA HashedBytes ==
  ASSUME IInv, ~DumpDies, NEW c \in DOMAIN table
  PROVE  /\ IsFiniteSet(HashedAs(c))
         /\ Cardinality(HashedAs(c)) = table[c].size_ * table[c].ref_cnt_
<1> DEFINE R == {r \in referred : OnDisk(r) = c}
           P == R \X (1..Len(c))
           f == [p \in P |-> <<p[1][1], p[1][2] + p[2] - 1>>]
<1>1. IsFiniteSet(R) /\ Cardinality(R) = table[c].ref_cnt_ /\ Len(c) \in Nat
      /\ table[c].size_ = Len(c) /\ table[c].ref_cnt_ \in Nat
  <2>1. IsFiniteSet(referred) /\ R \in SUBSET referred
    BY DEF IInv, ReferredIsPast
  <2>2. IsFiniteSet(R)
    BY <2>1, FS_Subset
  <2>3. /\ Len(c) \in Nat \ {0} /\ table[c].size_ = Len(c)
        /\ table[c].ref_cnt_ \in 1..LastRange /\ table[c].ref_cnt_ = Cardinality(R)
    BY TableHas
  <2>4. table[c].ref_cnt_ \in Nat
    BY <2>3
  <2> QED
    BY <2>2, <2>3, <2>4
<1>2. ASSUME NEW r \in R
      PROVE  /\ r \in referred /\ r[1] \in Threads /\ r[2] \in Nat /\ r[3] \in Nat
             /\ r[3] = r[2] + Len(c)
  <2>1. r \in referred /\ OnDisk(r) = c
    OBVIOUS
  <2>2. r[1] \in Threads /\ r[2] \in Nat /\ r[3] \in Nat /\ Len(OnDisk(r)) = r[3] - r[2]
    BY <2>1, ChunkLength
  <2>3. r[3] = r[2] + (r[3] - r[2])
    BY <2>2
  <2> QED
    BY <2>1, <2>2, <2>3
<1>3. IsFiniteSet(1..Len(c)) /\ Cardinality(1..Len(c)) = Len(c)
  <2>1. Len(c) \in Nat
    BY <1>1
  <2>2. IsFiniteSet(1..Len(c)) /\ Cardinality(1..Len(c)) = IF 1 > Len(c) THEN 0 ELSE Len(c) - 1 + 1
    BY <2>1, FS_Interval
  <2> QED
    BY <2>1, <2>2
<1>4. IsFiniteSet(P) /\ Cardinality(P) = Cardinality(R) * Len(c)
  <2> HIDE DEF R
  <2> QED
    BY <1>1, <1>3, FS_Product
<1>5. ASSUME NEW p \in P PROVE f[p] \in HashedAs(c)
  <2>1. p[1] \in R /\ p[2] \in 1..Len(c)
    OBVIOUS
  <2> DEFINE n == p[1][2] + p[2] - 1
  <2>2. n \in Nat /\ n \in p[1][2]..(p[1][3] - 1)
    BY <1>1, <1>2, <2>1
  <2>3. <<p[1], n>> \in referred \X Nat
    BY <2>1, <2>2
  <2> QED
    BY <2>1, <2>2, <2>3 DEF HashedAs
<1>6. ASSUME NEW b \in HashedAs(c) PROVE \E p \in P : f[p] = b
  <2>1. PICK d \in referred \X Nat :
          OnDisk(d[1]) = c /\ d[2] \in d[1][2]..(d[1][3] - 1) /\ b = <<d[1][1], d[2]>>
    BY DEF HashedAs
  <2>2. d[1] \in R /\ d[2] \in Nat
    BY <2>1
  <2>3. d[2] - d[1][2] + 1 \in 1..Len(c) /\ d[1][2] + (d[2] - d[1][2] + 1) - 1 = d[2]
    BY <1>1, <1>2, <2>1, <2>2
  <2>4. <<d[1], d[2] - d[1][2] + 1>> \in P
    BY <2>2, <2>3
  <2> QED
    BY <2>1, <2>3, <2>4
<1>7. ASSUME NEW p \in P, NEW q \in P, f[p] = f[q] PROVE p = q
  <2>1. /\ p[1] \in R /\ p[2] \in 1..Len(c) /\ p = <<p[1], p[2]>>
        /\ q[1] \in R /\ q[2] \in 1..Len(c) /\ q = <<q[1], q[2]>>
        /\ p[1][1] = q[1][1] /\ p[1][2] + p[2] - 1 = q[1][2] + q[2] - 1
    BY <1>7
  <2>2. p[1] # q[1] => p[1][3] <= q[1][2] \/ p[1][2] >= q[1][3]
    BY <1>2, <2>1 DEF IInv, ChunksBounded
  <2>3. p[1] = q[1]
    <3>1. /\ p[1][2] \in Nat /\ p[1][3] \in Nat /\ p[1][3] = p[1][2] + Len(c)
          /\ q[1][2] \in Nat /\ q[1][3] \in Nat /\ q[1][3] = q[1][2] + Len(c)
          /\ Len(c) \in Nat
      BY <1>1, <1>2, <2>1
    <3>2. p[2] \in Nat /\ p[2] <= Len(c) /\ q[2] \in Nat /\ q[2] <= Len(c) /\ p[2] >= 1 /\ q[2] >= 1
      BY <2>1, <3>1
    <3> HIDE DEF R, P, f
    <3> QED
      BY <2>1, <2>2, <3>1, <3>2
  <2>4. p[2] = q[2]
    BY <1>1, <1>2, <2>1, <2>3
  <2> QED
    BY <2>1, <2>3, <2>4
<1>8. f \in Bijection(P, HashedAs(c))
  <2>1. f \in [P -> HashedAs(c)]
    BY <1>5
  <2> HIDE DEF f, P
  <2> QED
    BY <2>1, <1>6, <1>7 DEF Bijection, Injection, Surjection, IsInjective
<1>9. ExistsBijection(P, HashedAs(c))
  BY <1>8 DEF ExistsBijection
<1> HIDE DEF P, R
<1> QED
  BY <1>1, <1>4, <1>9, FS_Bijection

\* A part of a hundred.
LEMMA Percent ==
  ASSUME NEW a \in Nat \ {0}, NEW p \in Nat \ {0}, a <= p
  PROVE  /\ (100 * a) \div p \in 0..100
         /\ a = p => (100 * a) \div p = 100
         /\ p <= 100 * a => (100 * a) \div p >= 1
<1> DEFINE q == (100 * a) \div p
           r == (100 * a) % p
<1>1. q \in Int /\ r \in 0..(p - 1) /\ 100 * a = p * q + r
  OBVIOUS
<1> HIDE DEF q, r
<1>2. q >= 0
  <2>1. SUFFICES ASSUME q <= -1 PROVE FALSE
    BY <1>1
  <2>2. p * q <= p * (-1)
    BY <1>1, <2>1
  <2> QED
    BY <1>1, <2>2
<1>3. q <= 100
  <2>1. SUFFICES ASSUME q >= 101 PROVE FALSE
    BY <1>1
  <2>2. p * q >= p * 101
    BY <1>1, <2>1
  <2> QED
    BY <1>1, <2>2
<1>4. a = p => q = 100
  <2>1. SUFFICES ASSUME a = p, q <= 99 PROVE FALSE
    BY <1>1, <1>3
  <2>2. p * q <= p * 99
    BY <1>1, <2>1
  <2> QED
    BY <1>1, <2>1, <2>2
<1>5. p <= 100 * a => q >= 1
  <2>1. SUFFICES ASSUME p <= 100 * a, q = 0 PROVE FALSE
    BY <1>1, <1>2
  <2>2. p * q = 0
    BY <2>1
  <2> QED
    BY <1>1, <2>1, <2>2
<1> QED
  BY <1>1, <1>2, <1>3, <1>4, <1>5 DEF q

\* The bytes processed are those in the threads' chunks.
LEMMA BytesProcessed ==
  ASSUME IInv, ~DumpDies
  PROVE  SumFunction([c \in DOMAIN table |-> table[c].size_ * table[c].ref_cnt_]) =
           SumFunction([t \in Threads |-> Cardinality(Covered(t))])
<1> DEFINE F == [c \in DOMAIN table |-> table[c].size_ * table[c].ref_cnt_]
           G == [t \in Threads |-> Cardinality(Covered(t))]
           A == [c \in DOMAIN table |-> HashedAs(c)]
           B == [t \in Threads |-> CoveredBy(t)]
<1>1. \A c \in DOMAIN table : IsFiniteSet(A[c]) /\ F[c] = Cardinality(A[c])
  BY HashedBytes
<1>2. ASSUME NEW c \in DOMAIN table, NEW e \in DOMAIN table, c # e PROVE A[c] \cap A[e] = {}
  <2> SUFFICES ASSUME NEW b \in HashedAs(c), b \in HashedAs(e) PROVE FALSE
    OBVIOUS
  <2>1. PICK d \in referred \X Nat :
          OnDisk(d[1]) = c /\ d[2] \in d[1][2]..(d[1][3] - 1) /\ b = <<d[1][1], d[2]>>
    BY DEF HashedAs
  <2>2. PICK d2 \in referred \X Nat :
          OnDisk(d2[1]) = e /\ d2[2] \in d2[1][2]..(d2[1][3] - 1) /\ b = <<d2[1][1], d2[2]>>
    BY DEF HashedAs
  <2>3. /\ d[1] \in referred /\ d2[1] \in referred /\ d[1] # d2[1] /\ d[2] \in Nat
        /\ d[1][1] = d2[1][1] /\ d[2] = d2[2]
    BY <1>2, <2>1, <2>2
  <2>4. d[1][3] <= d2[1][2] \/ d[1][2] >= d2[1][3]
    BY <2>3 DEF IInv, ChunksBounded
  <2>5. d[1][2] \in Nat /\ d[1][3] \in Nat /\ d2[1][2] \in Nat /\ d2[1][3] \in Nat
    BY <2>3, ChunkLength
  <2>6. d[1][2] <= d[2] /\ d[2] < d[1][3] /\ d2[1][2] <= d[2] /\ d[2] < d2[1][3]
    BY <2>1, <2>2, <2>3, <2>5
  <2> QED
    BY <2>3, <2>4, <2>5, <2>6
<1>3. IsFiniteSet(DOMAIN table)
  BY TableHas
<1>4. SumFunctionOnSet(F, DOMAIN table) = Cardinality(Together(A, DOMAIN table))
  <2> HIDE DEF A, F
  <2> QED
    BY <1>1, <1>2, <1>3, SumOfSizes
<1>5. ASSUME NEW t \in Threads PROVE IsFiniteSet(B[t]) /\ G[t] = Cardinality(B[t])
  <2>1. DiskSize \in Nat
    BY Regions DEF IInv
  <2>2. ASSUME NEW n \in Covered(t) PROVE n \in 0..DiskSize
    <3>1. PICK r \in referred : n \in r[2]..(r[3] - 1)
      BY DEF Covered
    <3>2. r[2] \in Nat /\ r[3] \in Nat /\ r[3] < DiskSize
      BY ChunkLength DEF IInv, ChunksBounded
    <3> QED
      BY <2>1, <3>1, <3>2
  <2>3. IsFiniteSet(Covered(t))
    <3>1. IsFiniteSet(0..DiskSize)
      BY <2>1, FS_Interval
    <3>2. Covered(t) \in SUBSET (0..DiskSize)
      BY <2>2
    <3> QED
      BY <3>1, <3>2, FS_Subset
  <2> DEFINE f == [n \in Covered(t) |-> <<t, n>>]
  <2>4. f \in Bijection(Covered(t), CoveredBy(t))
    BY DEF CoveredBy, Bijection, Injection, Surjection, IsInjective
  <2>5. ExistsBijection(Covered(t), CoveredBy(t))
    BY <2>4 DEF ExistsBijection
  <2> QED
    BY <2>3, <2>5, FS_Bijection
<1>6. \A t, u \in Threads : t # u => B[t] \cap B[u] = {}
  BY DEF CoveredBy
<1>7. IsFiniteSet(Threads)
  BY FS_Interval, DedupAssumption DEF Threads
<1>8. SumFunctionOnSet(G, Threads) = Cardinality(Together(B, Threads))
  <2> HIDE DEF B, G
  <2> QED
    BY <1>5, <1>6, <1>7, SumOfSizes
<1>9. Together(A, DOMAIN table) \subseteq Together(B, Threads)
  <2> SUFFICES ASSUME NEW c \in DOMAIN table, NEW b \in HashedAs(c)
               PROVE  \E t \in Threads : b \in CoveredBy(t)
    BY DEF Together
  <2>1. PICK d \in referred \X Nat : d[2] \in d[1][2]..(d[1][3] - 1) /\ b = <<d[1][1], d[2]>>
    BY DEF HashedAs
  <2>2. d[1] \in referred /\ d[1][1] \in Threads
    BY <2>1, ChunkLength
  <2>3. d[2] \in Covered(d[1][1])
    BY <2>1, <2>2 DEF Covered
  <2> QED
    BY <2>1, <2>2, <2>3 DEF CoveredBy
<1>10. Together(B, Threads) \subseteq Together(A, DOMAIN table)
  <2> SUFFICES ASSUME NEW t \in Threads, NEW n \in Covered(t)
               PROVE  \E c \in DOMAIN table : <<t, n>> \in HashedAs(c)
    BY DEF CoveredBy, Together
  <2>1. PICK r \in referred : r[1] = t /\ n \in r[2]..(r[3] - 1)
    BY DEF Covered
  <2>2. r[2] \in Nat /\ r[3] \in Nat
    BY ChunkLength
  <2>3. n \in Nat
    BY <2>1, <2>2
  <2>4. OnDisk(r) \in DOMAIN table
    BY DEF IInv, TableCounts
  <2>5. <<r, n>> \in referred \X Nat /\ <<r, n>>[1] = r /\ <<r, n>>[2] = n
    BY <2>3
  <2>6. <<t, n>> \in HashedAs(OnDisk(r))
    BY <2>1, <2>5 DEF HashedAs
  <2> QED
    BY <2>4, <2>6
<1>11. DOMAIN F = DOMAIN table /\ DOMAIN G = Threads
  OBVIOUS
<1> HIDE DEF A, B, F, G
<1>12. Together(A, DOMAIN table) = Together(B, Threads)
  BY <1>9, <1>10
<1>13. SumFunction(F) = SumFunction(G)
  BY <1>4, <1>8, <1>11, <1>12 DEF SumFunction
<1> QED
  BY <1>13 DEF F, G

\* Of a table with something in it, in the histogram's ranges, the dump tells
\* what FinalNumbersExact says.
LEMMA DumpIsExact ==
  ASSUME IInv, ~DumpDies, NEW d, d = DumpStats
  PROVE  /\ d.data_size = SumFunction([t \in Threads |-> Cardinality(Covered(t))])
         /\ d.data_size_after_dedup = SumFunction([c \in {OnDisk(r) : r \in referred} |-> Len(c)])
         /\ d.total = d.non_one + d.only_one
         /\ d.least <= d.most /\ d.percent \in 0..100
         /\ d.most = 1 => d.percent = 0
         /\ d.percent = 100 => d.most > 100
         /\ d.data_size_after_dedup + d.non_one <= d.data_size
<1> DEFINE hashes == DOMAIN table
           refs == {table[c].ref_cnt_ : c \in hashes}
           F == [c \in hashes |-> table[c].size_ * table[c].ref_cnt_]
           G == [c \in hashes |-> table[c].size_]
           H == [c \in hashes |-> IF table[c].ref_cnt_ > 1 THEN 1 ELSE 0]
           N == {c \in hashes : table[c].ref_cnt_ > 1}
           O == {c \in hashes : table[c].ref_cnt_ <= 1}
<1>1. /\ d.total = Cardinality(hashes) /\ d.least = Min(refs) /\ d.most = Max(refs)
      /\ d.non_one = Cardinality(N) /\ d.only_one = Cardinality(O)
      /\ d.data_size = SumFunction(F) /\ d.data_size_after_dedup = SumFunction(G)
      /\ d.percent = 100 - (100 * SumFunction(G)) \div SumFunction(F)
  BY DEF DumpStats
<1>2. IsFiniteSet(hashes) /\ hashes # {} /\ LastRange \in Nat \ {0}
  BY TableHas, DedupAssumption
<1>3. ASSUME NEW c \in hashes
      PROVE  /\ table[c].size_ \in Nat \ {0} /\ table[c].size_ = Len(c)
             /\ table[c].ref_cnt_ \in Nat /\ table[c].ref_cnt_ >= 1 /\ table[c].ref_cnt_ <= LastRange
             /\ F[c] \in Nat /\ G[c] \in Nat \ {0} /\ H[c] \in Nat
             /\ F[c] = G[c] * table[c].ref_cnt_
  <2>1. /\ Len(c) \in Nat \ {0} /\ table[c].size_ = Len(c) /\ table[c].ref_cnt_ \in 1..LastRange
    BY TableHas
  <2>2. table[c].ref_cnt_ \in Nat /\ table[c].ref_cnt_ >= 1 /\ table[c].ref_cnt_ <= LastRange
    BY <1>2, <2>1
  <2> QED
    BY <2>1, <2>2
<1>4. SumFunction(F) = SumFunctionOnSet(F, hashes) /\ SumFunction(G) = SumFunctionOnSet(G, hashes)
  BY DEF SumFunction
<1>5. d.data_size_after_dedup = SumFunction([c \in {OnDisk(r) : r \in referred} |-> Len(c)])
  <2>1. hashes = {OnDisk(r) : r \in referred}
    BY DEF IInv, TableCounts
  <2>2. G = [c \in {OnDisk(r) : r \in referred} |-> Len(c)]
    BY <1>3, <2>1
  <2> QED
    BY <1>1, <2>2
<1>6. d.total = d.non_one + d.only_one
  <2>1. hashes = N \cup O /\ N \cap O = {}
    <3>1. ASSUME NEW c \in hashes
          PROVE  (table[c].ref_cnt_ > 1 \/ table[c].ref_cnt_ <= 1)
                 /\ ~(table[c].ref_cnt_ > 1 /\ table[c].ref_cnt_ <= 1)
      <4>1. table[c].ref_cnt_ \in Nat
        BY <1>3
      <4> QED
        BY <4>1
    <3> QED
      BY <3>1
  <2>2. IsFiniteSet(N) /\ IsFiniteSet(O) /\ Cardinality(N) \in Nat /\ Cardinality(O) \in Nat
    BY <1>2, FS_Subset, FS_CardinalityType
  <2> HIDE DEF hashes, N, O
  <2>3. Cardinality(N \cup O) = Cardinality(N) + Cardinality(O) - Cardinality(N \cap O)
    BY <2>2, FS_Union
  <2>4. Cardinality(N \cap O) = 0
    BY <2>1, FS_EmptySet
  <2> QED
    BY <1>1, <2>1, <2>2, <2>3, <2>4
<1>7. /\ d.least \in refs /\ d.most \in refs
      /\ \A n \in refs : n \in Nat /\ n >= 1 /\ d.least <= n /\ n <= d.most
  <2>1. \A n \in refs : n \in Nat /\ n >= 1 /\ n <= LastRange
    BY <1>3
  <2>2. refs \in SUBSET Nat /\ refs \in SUBSET (0..LastRange) /\ refs # {}
    BY <1>2, <2>1
  <2> HIDE DEF refs
  <2>3. Min(refs) \in refs /\ \A n \in refs : Min(refs) <= n
    BY <2>2, LeastElement
  <2>4. Max(refs) \in refs /\ \A n \in refs : n <= Max(refs)
    BY <1>2, <2>2, LargestElement
  <2> QED
    BY <1>1, <2>1, <2>3, <2>4
<1>8. d.least <= d.most
  BY <1>7
<1>9. F \in [hashes -> Nat] /\ G \in [hashes -> Nat] /\ H \in [hashes -> Nat]
  BY <1>3
<1>10. /\ SumFunctionOnSet(F, hashes) \in Nat /\ SumFunctionOnSet(G, hashes) \in Nat
       /\ SumFunctionOnSet(H, hashes) \in Nat
       /\ SumFunctionOnSet(F, hashes) >= SumFunctionOnSet(G, hashes) + SumFunctionOnSet(H, hashes)
  <2>1. ASSUME NEW c \in hashes PROVE F[c] >= G[c] + H[c]
    <3>1. CASE table[c].ref_cnt_ = 1
      BY <1>3, <3>1
    <3>2. CASE table[c].ref_cnt_ >= 2
      <4>1. H[c] = 1
        BY <1>3, <3>2
      <4>2. G[c] * table[c].ref_cnt_ >= G[c] * 2
        BY <1>3, <3>2
      <4> QED
        BY <1>3, <4>1, <4>2
    <3> QED
      BY <1>3, <3>1, <3>2
  <2> HIDE DEF F, G, H, hashes
  <2> QED
    BY <1>2, <1>9, <2>1, SumsTogether
<1>11. SumFunctionOnSet(H, hashes) = Cardinality(N)
  <2> DEFINE A == [c \in hashes |-> IF table[c].ref_cnt_ > 1 THEN {c} ELSE {}]
  <2>1. \A c \in hashes : IsFiniteSet(A[c]) /\ H[c] = Cardinality(A[c])
    BY FS_Singleton, FS_EmptySet
  <2>2. \A c, e \in hashes : c # e => A[c] \cap A[e] = {}
    OBVIOUS
  <2>3. Together(A, hashes) = N
    BY DEF Together
  <2> HIDE DEF A, H, hashes, N
  <2> QED
    BY <1>2, <2>1, <2>2, <2>3, SumOfSizes
<1>12. SumFunctionOnSet(G, hashes) > 0
  <2> DEFINE rest == hashes \ {Pick(hashes)}
  <2>1. Pick(hashes) \in hashes
    BY <1>2 DEF Pick
  <2>2. IsFiniteSet(rest)
    BY <1>2, FS_RemoveElement
  <2>3. G[Pick(hashes)] \in Nat \ {0}
    BY <1>3, <2>1
  <2>4. SumFunctionOnSet(G, hashes) = G[Pick(hashes)] + SumFunctionOnSet(G, rest)
    BY <1>2, SumUnfolds
  <2>5. SumFunctionOnSet(G, rest) \in Nat
    <3> DEFINE Good == {s \in SUBSET hashes : SumFunctionOnSet(G, s) \in Nat}
    <3>1. {} \in Good
      BY EmptySum
    <3>2. ASSUME NEW s \in SUBSET hashes, s # {}, s \ {Pick(s)} \in Good PROVE s \in Good
      <4>1. Pick(s) \in s /\ IsFiniteSet(s)
        BY <1>2, <3>2, FS_Subset DEF Pick
      <4>2. SumFunctionOnSet(G, s) = G[Pick(s)] + SumFunctionOnSet(G, s \ {Pick(s)})
        BY <3>2, <4>1, SumUnfolds
      <4>3. G[Pick(s)] \in Nat
        BY <1>3, <4>1
      <4> QED
        BY <3>2, <4>2, <4>3
    <3> HIDE DEF Good
    <3>3. SUBSET hashes \subseteq Good
      BY <1>2, <3>1, <3>2, PickInduction
    <3> QED
      BY <3>3 DEF Good
  <2> HIDE DEF rest, G
  <2> QED
    BY <2>3, <2>4, <2>5
<1>13. d.data_size_after_dedup + d.non_one <= d.data_size
  BY <1>1, <1>4, <1>10, <1>11
<1> DEFINE a == SumFunctionOnSet(G, hashes)
           p == SumFunctionOnSet(F, hashes)
<1>14. a \in Nat \ {0} /\ p \in Nat \ {0} /\ a <= p /\ d.percent = 100 - (100 * a) \div p
  BY <1>1, <1>4, <1>10, <1>12
<1>15. d.most = 1 => a = p
  <2> SUFFICES ASSUME d.most = 1 PROVE a = p
    OBVIOUS
  <2>1. ASSUME NEW c \in hashes PROVE F[c] = G[c]
    <3>1. table[c].ref_cnt_ \in refs
      OBVIOUS
    <3>2. table[c].ref_cnt_ = 1
      <4> HIDE DEF refs
      <4>1. table[c].ref_cnt_ \in Nat /\ table[c].ref_cnt_ >= 1 /\ table[c].ref_cnt_ <= d.most
        BY <1>7, <3>1
      <4> QED
        BY <4>1
    <3>3. F[c] = G[c] * 1 /\ G[c] \in Nat
      BY <1>3, <3>2
    <3> QED
      BY <3>3
  <2>2. F = G
    BY <2>1
  <2> QED
    BY <2>2
<1>16. d.most <= 100 => p <= 100 * a
  <2> SUFFICES ASSUME d.most <= 100 PROVE p <= 100 * a
    OBVIOUS
  <2>1. ASSUME NEW c \in hashes PROVE F[c] <= 100 * G[c]
    <3>1. table[c].ref_cnt_ \in refs
      OBVIOUS
    <3>2. table[c].ref_cnt_ <= 100
      BY <1>3, <1>7, <3>1
    <3>3. G[c] * table[c].ref_cnt_ <= G[c] * 100
      BY <1>3, <3>2
    <3> QED
      BY <1>3, <3>3
  <2> HIDE DEF F, G, hashes
  <2> QED
    BY <1>2, <1>9, <2>1, SumTimes
<1>17. d.most \in Nat
  BY <1>7
<1> HIDE DEF a, p
<1>18. /\ (100 * a) \div p \in 0..100
       /\ a = p => (100 * a) \div p = 100
       /\ p <= 100 * a => (100 * a) \div p >= 1
  BY <1>14, Percent
<1>19. d.percent \in 0..100
  BY <1>14, <1>18
<1>20. d.most = 1 => d.percent = 0
  BY <1>14, <1>15, <1>18
<1>21. d.percent = 100 => d.most > 100
  BY <1>14, <1>16, <1>17, <1>18
<1>22. d.data_size = SumFunction([t \in Threads |-> Cardinality(Covered(t))])
  BY <1>1, BytesProcessed
<1> HIDE DEF hashes, refs, F, G, H, N, O
<1> QED
  BY <1>5, <1>6, <1>8, <1>13, <1>19, <1>20, <1>21, <1>22

LEMMA FinalStays == FinalIsDumped /\ [Next]_vars => FinalIsDumped'
<1> SUFFICES ASSUME FinalIsDumped, [Next]_vars PROVE FinalIsDumped'
  OBVIOUS
<1>1. ASSUME UNCHANGED <<table, joined, final>>, joined => UNCHANGED pc PROVE FinalIsDumped'
  <2>1. DumpDies' = DumpDies /\ DumpStats' = DumpStats
    BY <1>1 DEF DumpDies, DumpStats
  <2> QED
    BY <1>1, <2>1 DEF FinalIsDumped
<1>2. ASSUME UNCHANGED <<joined, final>>, ~joined PROVE FinalIsDumped'
  BY <1>2 DEF FinalIsDumped
<1>3. ASSUME Join PROVE FinalIsDumped'
  <2>1. /\ joined' = TRUE /\ UNCHANGED <<table, pc>> /\ \A t \in Threads : pc[t] = "done"
        /\ final' = IF DumpDies THEN NoOne ELSE DumpStats
    BY <1>3 DEF Join, shared
  <2>2. DumpDies' = DumpDies /\ DumpStats' = DumpStats
    BY <2>1 DEF DumpDies, DumpStats
  <2> QED
    BY <2>1, <2>2 DEF FinalIsDumped
<1>4. ASSUME NEW t \in Threads, Step(t) \/ PreadFails(t) PROVE FinalIsDumped'
  <2>1. UNCHANGED <<joined, final>> /\ pc[t] # "done"
    BY <1>4 DEF Step, Read, Pread, PreadFails, CutChunk, Lock, Refer, NextBuffer, Dumped, ended
  <2>2. ~joined
    BY <2>1 DEF FinalIsDumped
  <2> QED
    BY <1>2, <2>1, <2>2
<1> QED
  BY <1>1, <1>3, <1>4 DEF Next, vars

\* The final numbers are about the bytes that were hashed, for any number of
\* threads and any disk, and they are of the table as the threads left it.
THEOREM FinalNumbersAreExact == Spec => []FinalNumbersExact
<1>1. Init => FinalIsDumped
  BY DEF Init, FinalIsDumped
<1>2. IInv /\ FinalIsDumped => FinalNumbersExact
  BY DumpIsExact DEF FinalIsDumped, FinalNumbersExact
<1> QED
  BY <1>1, <1>2, FinalStays, Invariant, PTL DEF Spec
=============================================================================
