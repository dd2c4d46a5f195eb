--------------------------- MODULE ExercisesProofs ---------------------------
(***************************************************************************)
(* Theorems about three of the exercises.                                  *)
(*                                                                         *)
(* CircularList, for lists of every length, closed at any node: the        *)
(* meeting point is found just on a closed list, cutting the list open     *)
(* there restores it, and no null pointer is followed.  A list closed at   *)
(* `link' is a way into a circle of size - link nodes.  An iterator that   *)
(* made u steps stands at the node u, or at the node of the circle that    *)
(* is u less some laps (After).  The slow iterator meets the fast one      *)
(* after a number of steps that is a number of laps, so that going on      *)
(* from there in step with an iterator from the beginning, the two meet    *)
(* at link, coming from the two nodes that lead to it.                     *)
(*                                                                         *)
(* Dates, for any two dates of the years there are: the difference is the  *)
(* number of days between them.  The two loops, over months and over       *)
(* years, are folds: their sums are taken apart round by round (SumStep)   *)
(* and added up by induction, a year having a leap day just when the       *)
(* count of leap years grows (LeapStep).                                   *)
(*                                                                         *)
(* Primes, for every interval: what the three programs print.  A number    *)
(* that is not prime has a prime divisor at most its root (LeastDivisor,   *)
(* SmallIsEnough), and that one the sieves look at; a number that the old  *)
(* sieve has taken out may be passed over, a divisor of it having taken    *)
(* out its multiples (SieveRound).                                         *)
(***************************************************************************)
EXTENDS CircularList, Dates, Primes, SequenceTheorems, WellFoundedInduction, TLAPS

\* CircularList by itself.
SpecList == InitList /\ [][NextList]_listVars

Nodes(sz) == 0..(sz - 1)

\* The list is open, or closed at a node.
Chain(sz, end) == [n \in Nodes(sz) |-> IF n = sz - 1 THEN end ELSE n + 1]
Open == nextp = Chain(size, Null)
ClosedAt(link) == link \in Nodes(size) /\ nextp = Chain(size, link)

\* Where u steps from the beginning lead on a list that is closed at link.
After(u, n, sz, link) ==
  /\ n \in Nodes(sz)
  /\ \E laps \in Nat : u = n + laps * (sz - link) /\ (laps > 0 => n >= link)

\* MeetingPoint on an open list: the fast iterator is ahead of the slow one.
OpenWalk ==
  \/ fit = Null
  \/ ~met /\ \E s \in Nat : sit = s /\ fit = 2 * s /\ 2 * s < size

\* MeetingPoint on a closed list: it has made twice the steps.
ClosedWalk(link) ==
  \E s \in Nat : /\ After(s, sit, size, link) /\ After(2 * s, fit, size, link)
                 /\ met => s > 0 /\ sit = fit

\* The loop of FixList: meeting_it is some laps ahead of it, and prev_node is
\* where it comes from.
CutWalk(link) ==
  \E d \in Nat \ {0}, j \in 0..link :
    /\ it = j /\ After(d * (size - link) + j, meeting_it, size, link)
    /\ j = 0 => meeting_it # 0
    /\ j > 0 => After(d * (size - link) + j - 1, prev_node, size, link)

OpenPlaces == {"PushBack", "assertNotCircular", "assertFixed", "done"}
ClosedPlaces == {"assertCircular", "FixList", "cut"}

\* The count main was given, and how much of the list there is.
Counted ==
  /\ size \in Nat /\ nelements \in Int \ {0} /\ met \in BOOLEAN
  /\ pc # "PushBack" /\ size = 0 => nelements < 0
  /\ aborted => nelements < 0

\* What main has made of the list, and how far an iterator is on it.
Walked ==
  \/ /\ pc \in OpenPlaces \/ (pc \in ClosedPlaces \ {"cut"} /\ size = 0)
     /\ Open
     /\ pc \in Meeting => OpenWalk
  \/ /\ pc \in ClosedPlaces
     /\ \E link \in Nodes(size) :
          ClosedAt(link) /\ IF pc = "cut" THEN CutWalk(link) ELSE ClosedWalk(link)

IInv == Counted /\ Walked
-----------------------------------------------------------------------------
(* Lists *)

\* Laps of c nodes.
LEMMA Laps ==
  ASSUME NEW c \in Nat \ {0}, NEW a \in Nat, NEW b \in Nat
  PROVE  /\ a * c \in Nat /\ (a + 1) * c = a * c + c
         /\ a <= b => (b - a) * c = b * c - a * c
         /\ a < b => b * c >= a * c + c
         /\ 0 * c = 0 /\ 1 * c = c
<1>1. a * c \in Nat /\ b * c \in Nat /\ (a + 1) * c = a * c + c /\ 0 * c = 0 /\ 1 * c = c
  OBVIOUS
<1>2. a <= b => (b - a) * c = b * c - a * c
  OBVIOUS
<1>3. ASSUME a < b PROVE b * c >= a * c + c
  <2>1. b - a - 1 \in Nat
    BY <1>3
  <2>2. (b - a - 1) * c \in Nat
    BY <2>1
  <2>3. (b - a - 1) * c = b * c - a * c - c
    OBVIOUS
  <2> QED
    BY <1>1, <2>2, <2>3
<1> QED
  BY <1>1, <1>2, <1>3

LEMMA Chained ==
  ASSUME NEW sz \in Nat, NEW end, NEW n \in Nodes(sz)
  PROVE  /\ sz - 1 \in Nodes(sz) /\ 0 \in Nodes(sz) /\ sz > 0
         /\ n = sz - 1 => Chain(sz, end)[n] = end
         /\ n # sz - 1 => Chain(sz, end)[n] = n + 1 /\ n + 1 \in Nodes(sz)
  BY DEF Nodes, Chain

LEMMA LongerChain ==
  ASSUME NEW sz \in Nat, NEW end, 0..sz = 0..(sz + 1 - 1)
  PROVE  Chain(sz + 1, end) = [n \in 0..sz |-> IF n = sz + 1 - 1 THEN end ELSE n + 1]
<1>1. Chain(sz + 1, end) = [n \in Nodes(sz + 1) |-> IF n = sz + 1 - 1 THEN end ELSE n + 1]
  BY DEF Chain
<1>2. Nodes(sz + 1) = 0..sz
  BY DEF Nodes
<1> QED
  BY <1>1, <1>2

\* Cutting the last link of a list opens it.
LEMMA CutOpen ==
  ASSUME NEW sz \in Nat, NEW end
  PROVE  [Chain(sz, end) EXCEPT ![sz - 1] = Null] = Chain(sz, Null)
  BY DEF Chain, Nodes

\* One step more, on a list closed at link.
LEMMA AfterNext ==
  ASSUME NEW sz \in Nat, NEW link \in Nodes(sz), NEW u \in Nat, NEW n, After(u, n, sz, link)
  PROVE  After(u + 1, Chain(sz, link)[n], sz, link)
<1>1. PICK laps \in Nat : u = n + laps * (sz - link) /\ (laps > 0 => n >= link)
  BY DEF After
<1>2. n \in Nodes(sz) /\ n \in Nat /\ link \in Nat /\ sz - link \in Nat \ {0}
  BY DEF After, Nodes
<1>3. laps * (sz - link) \in Nat /\ (laps + 1) * (sz - link) = laps * (sz - link) + (sz - link)
  BY <1>2, Laps
<1>4. CASE n = sz - 1
  <2>1. Chain(sz, link)[n] = link
    BY <1>2, <1>4, Chained
  <2>2. u + 1 = link + (laps + 1) * (sz - link)
    BY <1>1, <1>2, <1>3, <1>4
  <2>3. laps + 1 \in Nat /\ link >= link
    BY <1>2
  <2>4. After(u + 1, link, sz, link)
    BY <2>2, <2>3 DEF After
  <2> QED
    BY <2>1, <2>4
<1>5. CASE n # sz - 1
  <2>1. Chain(sz, link)[n] = n + 1 /\ n + 1 \in Nodes(sz)
    BY <1>2, <1>5, Chained
  <2>2. u + 1 = (n + 1) + laps * (sz - link) /\ (laps > 0 => n + 1 >= link)
    BY <1>1, <1>2, <1>3
  <2> QED
    BY <2>1, <2>2 DEF After
<1> QED
  BY <1>4, <1>5

\* Where two iterators meet of which one has made twice the steps, the steps
\* are laps.
LEMMA MetAfterLaps ==
  ASSUME NEW sz \in Nat, NEW link \in Nodes(sz), NEW s \in Nat \ {0}, NEW n,
         After(s, n, sz, link), After(2 * s, n, sz, link)
  PROVE  \E d \in Nat \ {0} : s = d * (sz - link)
<1> DEFINE round == sz - link
<1>1. round \in Nat \ {0} /\ n \in Nat
  BY DEF After, Nodes
<1>2. PICK a \in Nat : s = n + a * round
  BY DEF After
<1>3. PICK b \in Nat : 2 * s = n + b * round
  BY DEF After
<1> HIDE DEF round
<1>4. a * round \in Nat /\ b * round \in Nat
  BY <1>1, Laps
<1>5. s = b * round - a * round
  BY <1>1, <1>2, <1>3, <1>4
<1>6. a < b
  <2>1. b < a => a * round >= b * round + round
    BY <1>1, Laps
  <2> QED
    BY <1>1, <1>4, <1>5, <2>1
<1>7. s = (b - a) * round /\ b - a \in Nat \ {0}
  BY <1>1, <1>5, <1>6, Laps
<1> QED
  BY <1>7 DEF round

\* After some laps and as many steps as lead to link from the beginning an
\* iterator stands at link, and before that at the last node; and with fewer
\* steps it does not stand where these lead from the beginning.
LEMMA BackAtLink ==
  ASSUME NEW sz \in Nat, NEW link \in Nodes(sz), NEW d \in Nat \ {0}, NEW j \in 0..link, NEW n,
         After(d * (sz - link) + j, n, sz, link)
  PROVE  n = j <=> j = link
<1> DEFINE round == sz - link
<1>1. round \in Nat \ {0} /\ n \in Nat /\ n < link + round /\ link \in Nat /\ j \in Nat /\ j <= link
  BY DEF After, Nodes
<1>2. PICK a \in Nat : d * round + j = n + a * round /\ (a > 0 => n >= link)
  BY DEF After
<1> HIDE DEF round
<1>3. a * round \in Nat /\ d * round \in Nat /\ d * round >= round
  <2>1. d > 0 /\ 0 \in Nat
    OBVIOUS
  <2>2. 0 * round = 0 /\ d * round >= 0 * round + round
    BY <1>1, <2>1, Laps
  <2> QED
    BY <1>1, <2>2, Laps
<1>4. ASSUME n = j PROVE j = link
  <2>1. a * round = d * round
    BY <1>1, <1>2, <1>3, <1>4
  <2>2. a > 0
    BY <1>1, <1>3, <2>1, Laps
  <2> QED
    BY <1>1, <1>2, <1>4, <2>2
<1>5. ASSUME j = link PROVE n = j
  <2>1. a > 0
    <3>1. a = 0 => a * round = 0
      BY <1>1, Laps
    <3> QED
      BY <1>1, <1>2, <1>3, <1>5, <3>1
  <2>2. n >= link /\ n - link = d * round - a * round
    BY <1>1, <1>2, <1>3, <1>5, <2>1
  <2>3. a < d => d * round >= a * round + round
    BY <1>1, Laps
  <2>4. d < a => a * round >= d * round + round
    BY <1>1, Laps
  <2>5. a = d
    BY <1>1, <1>3, <2>2, <2>3, <2>4
  <2> QED
    BY <1>1, <1>5, <2>2, <2>5
<1> QED
  BY <1>4, <1>5

LEMMA BeforeLink ==
  ASSUME NEW sz \in Nat, NEW link \in Nodes(sz), NEW d \in Nat \ {0}, NEW n,
         After(d * (sz - link) + link - 1, n, sz, link), link > 0
  PROVE  n = sz - 1
<1> DEFINE round == sz - link
<1>1. round \in Nat \ {0} /\ n \in Nat /\ n <= link + round - 1 /\ link \in Nat /\ sz = link + round
  BY DEF After, Nodes
<1>2. PICK a \in Nat : d * round + link - 1 = n + a * round /\ (a > 0 => n >= link)
  BY DEF After
<1> HIDE DEF round
<1>3. a * round \in Nat /\ d * round \in Nat
  BY <1>1, Laps
<1>4. n - link + 1 = d * round - a * round
  BY <1>1, <1>2, <1>3
<1>5. ~(d <= a)
  <2> SUFFICES ASSUME d <= a PROVE FALSE
    OBVIOUS
  <2>1. a > 0 /\ n >= link
    BY <1>2
  <2>2. d < a => a * round >= d * round + round
    BY <1>1, Laps
  <2> QED
    BY <1>1, <1>3, <1>4, <2>1, <2>2
<1>6. d * round >= a * round + round
  BY <1>1, <1>5, Laps
<1> QED
  BY <1>1, <1>3, <1>4, <1>6
-----------------------------------------------------------------------------
(* The steps of main *)

LEMMA NullIsNoNode == Null \notin Int /\ \A sz \in Nat : Nodes(sz) \subseteq Nat
  BY MaxAssumption DEF Nodes

LEMMA Initially == InitList => IInv
<1> SUFFICES ASSUME InitList PROVE IInv
  OBVIOUS
<1>1. Counted
  <2>1. nelements \in Int \ {0}
    BY MaxAssumption DEF InitList
  <2> QED
    BY <2>1 DEF InitList, Counted
<1>2. Open
  BY DEF InitList, Open, Chain, Nodes
<1>3. pc = "PushBack" /\ pc \notin Meeting
  BY DEF InitList, Meeting
<1> QED
  BY <1>1, <1>2, <1>3 DEF IInv, Walked, OpenPlaces

\* MeetingPoint begins: on an open list, and on one that is closed.
LEMMA WalkBegins ==
  ASSUME size \in Nat, NEW place, MeetFor(place), size' = size
  PROVE  OpenWalk' /\ \A link \in Nodes(size) : ClosedWalk(link)'
<1>1. /\ sit' = IF size = 0 THEN Null ELSE 0
      /\ fit' = IF size = 0 THEN Null ELSE 0
      /\ met' = FALSE
  BY DEF MeetFor, begin
<1>2. OpenWalk'
  <2>1. size # 0 => 2 * 0 = 0 /\ 2 * 0 < size /\ 0 \in Nat
    OBVIOUS
  <2> QED
    BY <1>1, <2>1 DEF OpenWalk
<1>3. ASSUME NEW link \in Nodes(size) PROVE ClosedWalk(link)'
  <2>1. sit' = 0 /\ fit' = 0 /\ 0 \in Nodes(size) /\ size - link \in Nat \ {0}
    BY <1>1 DEF Nodes
  <2>2. 0 = 0 + 0 * (size - link) /\ 2 * 0 = 0
    BY <2>1, Laps
  <2>3. After(0, 0, size, link)
    BY <2>1, <2>2 DEF After
  <2> QED
    BY <1>1, <2>1, <2>2, <2>3 DEF ClosedWalk
<1> QED
  BY <1>2, <1>3

LEMMA PushBackKeeps ==
  ASSUME IInv, PushBack, ~aborted
  PROVE  IInv'
<1>1. /\ pc = "PushBack" /\ Open /\ size \in Nat /\ nelements \in Int \ {0} /\ met \in BOOLEAN
      /\ nelements' = nelements /\ aborted' = aborted
  BY DEF IInv, Counted, Walked, ClosedPlaces, PushBack
<1>2. CASE size < nelements
  <2>1. /\ size' = size + 1 /\ pc' = pc /\ met' = met
        /\ nextp' = [n \in 0..size |-> IF n = size THEN Null
                                       ELSE IF n = tailp THEN size ELSE nextp[n]]
    BY <1>2 DEF PushBack, walk
  <2>2. ASSUME NEW n \in 0..size
        PROVE  (IF n = size THEN Null ELSE IF n = tailp THEN size ELSE nextp[n]) =
               (IF n = size + 1 - 1 THEN Null ELSE n + 1)
    BY <1>1 DEF tailp, Open, Chain, Nodes
  <2>3. Open'
    <3>1. 0..size = 0..(size + 1 - 1)
      BY <1>1
    <3>2. nextp' = [n \in 0..size |-> IF n = size + 1 - 1 THEN Null ELSE n + 1]
      BY <2>1, <2>2
    <3>3. Chain(size + 1, Null) = [n \in 0..size |-> IF n = size + 1 - 1 THEN Null ELSE n + 1]
      BY <1>1, <3>1, LongerChain
    <3> QED
      BY <2>1, <3>2, <3>3 DEF Open
  <2> QED
    BY <1>1, <2>1, <2>3 DEF IInv, Counted, Walked, OpenPlaces, Meeting
<1>3. CASE ~(size < nelements)
  <2>1. MeetFor("assertNotCircular") /\ size' = size /\ nextp' = nextp
    BY <1>3 DEF PushBack
  <2>2. OpenWalk' /\ pc' = "assertNotCircular" /\ met' = FALSE
    BY <1>1, <2>1, WalkBegins DEF MeetFor
  <2>3. size = 0 => nelements < 0
    BY <1>1, <1>3
  <2>4. Open'
    BY <1>1, <2>1 DEF Open
  <2> QED
    BY <1>1, <2>1, <2>2, <2>3, <2>4 DEF IInv, Counted, Walked, OpenPlaces
<1> QED
  BY <1>2, <1>3

LEMMA MeetingPointKeeps ==
  ASSUME IInv, MeetingPoint, ~aborted
  PROVE  IInv'
<1>1. /\ size \in Nat /\ nelements \in Int \ {0}
      /\ size' = size /\ nelements' = nelements /\ nextp' = nextp /\ pc' = pc /\ aborted' = aborted
      /\ pc \in Meeting /\ ~met /\ pc # "cut" /\ pc # "PushBack"
  BY DEF IInv, Counted, MeetingPoint, list, fix, Meeting
<1>2. met' \in BOOLEAN
  BY DEF MeetingPoint
<1>3. Counted'
  BY <1>1, <1>2 DEF IInv, Counted
<1>4. CASE pc \in OpenPlaces \/ (pc \in ClosedPlaces \ {"cut"} /\ size = 0)
  <2>1. Open /\ OpenWalk
    <3>1. (\E link \in Nodes(size) : TRUE) => size # 0
      BY <1>1 DEF Nodes
    <3> QED
      BY <1>1, <1>4, <3>1 DEF IInv, Walked, OpenPlaces, ClosedPlaces
  <2>2. OpenWalk'
    <3>1. CASE fit = Null
      BY <3>1 DEF MeetingPoint, OpenWalk
    <3>2. CASE fit # Null
      <4>1. PICK s \in Nat : sit = s /\ fit = 2 * s /\ 2 * s < size
        BY <2>1, <3>2 DEF OpenWalk
      <4>2. /\ fit' = Further /\ sit' = IF fit' = Null THEN sit ELSE nextp[sit]
            /\ met' = (fit' = Null \/ sit' = fit')
        BY <3>2 DEF MeetingPoint
      <4>3. 2 * s \in Nodes(size)
        BY <1>1, <4>1 DEF Nodes
      <4>4. nextp = Chain(size, Null)
        BY <2>1 DEF Open
      <4>5. CASE fit' = Null
        BY <4>5 DEF OpenWalk
      <4>6. CASE fit' # Null
        <5>1. nextp[fit] # Null /\ fit' = nextp[nextp[fit]]
          BY <4>2, <4>6 DEF Further
        <5>2. 2 * s # size - 1
          BY <1>1, <4>1, <4>3, <4>4, <5>1, Chained
        <5>3. nextp[fit] = 2 * s + 1 /\ 2 * s + 1 \in Nodes(size)
          BY <1>1, <4>1, <4>3, <4>4, <5>2, Chained
        <5>4. 2 * s + 1 # size - 1
          BY <1>1, <4>4, <4>6, <5>1, <5>3, Chained
        <5>5. fit' = 2 * s + 1 + 1 /\ 2 * s + 1 + 1 \in Nodes(size)
          BY <1>1, <4>4, <5>1, <5>3, <5>4, Chained
        <5>6. fit' = 2 * (s + 1) /\ 2 * (s + 1) < size
          BY <1>1, <5>5 DEF Nodes
        <5>7. s \in Nodes(size) /\ s # size - 1
          BY <1>1, <5>6 DEF Nodes
        <5>8. sit' = s + 1
          BY <1>1, <4>1, <4>2, <4>4, <4>6, <5>7, Chained
        <5>9. met' = FALSE
          <6>1. s + 1 # 2 * (s + 1)
            OBVIOUS
          <6> QED
            BY <4>2, <4>6, <5>6, <5>8, <6>1
        <5>10. s + 1 \in Nat
          OBVIOUS
        <5> QED
          BY <1>1, <5>6, <5>8, <5>9, <5>10 DEF OpenWalk
      <4> QED
        BY <4>5, <4>6
    <3> QED
      BY <3>1, <3>2
  <2>3. Open'
    BY <1>1, <2>1 DEF Open
  <2> QED
    BY <1>1, <1>3, <1>4, <2>2, <2>3 DEF IInv, Walked
<1>5. CASE ~(pc \in OpenPlaces \/ (pc \in ClosedPlaces \ {"cut"} /\ size = 0))
  <2>1. PICK link \in Nodes(size) : ClosedAt(link) /\ ClosedWalk(link)
    BY <1>1, <1>5 DEF IInv, Walked
  <2>2. pc \in ClosedPlaces
    BY <1>5 DEF IInv, Walked
  <2>3. PICK s \in Nat : After(s, sit, size, link) /\ After(2 * s, fit, size, link)
    BY <2>1 DEF ClosedWalk
  <2>4. nextp = Chain(size, link)
    BY <2>1 DEF ClosedAt
  <2>5. ASSUME NEW u \in Nat, NEW n, After(u, n, size, link)
        PROVE  After(u + 1, nextp[n], size, link) /\ nextp[n] # Null /\ n # Null
    <3>1. After(u + 1, nextp[n], size, link)
      BY <1>1, <2>4, <2>5, AfterNext
    <3>2. n \in Nodes(size) /\ nextp[n] \in Nodes(size)
      BY <2>5, <3>1 DEF After
    <3> QED
      BY <1>1, <3>1, <3>2, NullIsNoNode
  <2>6. fit # Null
    <3>1. 2 * s \in Nat
      OBVIOUS
    <3> QED
      BY <2>3, <2>5, <3>1
  <2>7. /\ fit' = Further /\ sit' = IF fit' = Null THEN sit ELSE nextp[sit]
        /\ met' = (fit' = Null \/ sit' = fit')
    BY <2>6 DEF MeetingPoint
  <2>8. fit' = nextp[nextp[fit]] /\ fit' # Null /\ After(2 * (s + 1), fit', size, link)
    <3>1. 2 * s \in Nat /\ 2 * s + 1 \in Nat /\ 2 * s + 1 + 1 = 2 * (s + 1)
      OBVIOUS
    <3>2. After(2 * s + 1, nextp[fit], size, link) /\ nextp[fit] # Null
      BY <2>3, <2>5, <3>1
    <3>3. After(2 * s + 1 + 1, nextp[nextp[fit]], size, link) /\ nextp[nextp[fit]] # Null
      BY <2>5, <3>1, <3>2
    <3>4. fit' = nextp[nextp[fit]]
      BY <2>7, <3>2 DEF Further
    <3> QED
      BY <3>1, <3>3, <3>4
  <2>9. After(s + 1, sit', size, link) /\ (met' => sit' = fit')
    BY <2>3, <2>5, <2>7, <2>8
  <2>10. ClosedWalk(link)'
    <3>1. s + 1 \in Nat /\ s + 1 > 0
      OBVIOUS
    <3> QED
      BY <1>1, <2>8, <2>9, <3>1 DEF ClosedWalk
  <2>11. ClosedAt(link)' /\ link \in Nodes(size')
    BY <1>1, <2>1 DEF ClosedAt
  <2> QED
    BY <1>1, <1>3, <2>2, <2>10, <2>11 DEF IInv, Walked
<1> QED
  BY <1>4, <1>5

\* MeetingPoint has ended: with no node on an open list, with one on a list
\* that is closed.
LEMMA MetSays ==
  ASSUME IInv, met, pc \in Meeting
  PROVE  \/ fit = Null /\ Open /\ (pc \in OpenPlaces \/ size = 0)
         \/ /\ fit \in Nodes(size) /\ fit # Null /\ pc \in ClosedPlaces
            /\ \E link \in Nodes(size) : /\ ClosedAt(link)
                 /\ \E d \in Nat \ {0} : After(d * (size - link), fit, size, link)
<1>1. pc # "cut" /\ size \in Nat
  BY DEF Meeting, IInv, Counted
<1>2. CASE pc \in OpenPlaces \/ (pc \in ClosedPlaces \ {"cut"} /\ size = 0)
  <2>1. Open /\ OpenWalk
    <3>1. (\E link \in Nodes(size) : TRUE) => size # 0
      BY <1>1 DEF Nodes
    <3> QED
      BY <1>1, <1>2, <3>1 DEF IInv, Walked, OpenPlaces, ClosedPlaces
  <2> QED
    BY <1>2, <2>1 DEF OpenWalk
<1>3. CASE ~(pc \in OpenPlaces \/ (pc \in ClosedPlaces \ {"cut"} /\ size = 0))
  <2>1. PICK link \in Nodes(size) : ClosedAt(link) /\ ClosedWalk(link)
    BY <1>1, <1>3 DEF IInv, Walked
  <2>2. PICK s \in Nat : /\ After(s, sit, size, link) /\ After(2 * s, fit, size, link)
                         /\ s > 0 /\ sit = fit
    BY <2>1 DEF ClosedWalk
  <2>3. PICK d \in Nat \ {0} : s = d * (size - link)
    BY <1>1, <2>2, MetAfterLaps
  <2>4. fit \in Nodes(size) /\ fit # Null
    BY <1>1, <2>2, NullIsNoNode DEF After
  <2>5. After(d * (size - link), fit, size, link)
    BY <2>2, <2>3
  <2>6. pc \in ClosedPlaces
    BY <1>3 DEF IInv, Walked
  <2> QED
    BY <2>1, <2>4, <2>5, <2>6
<1> QED
  BY <1>2, <1>3

LEMMA MakeListCircularKeeps ==
  ASSUME IInv, MakeListCircular, ~aborted
  PROVE  IInv'
<1>1. /\ size \in Nat /\ nelements \in Int \ {0} /\ (size = 0 => nelements < 0)
      /\ size' = size /\ nelements' = nelements
      /\ pc' = "assertCircular" /\ met' = FALSE /\ MeetFor("assertCircular")
  BY DEF IInv, Counted, MakeListCircular, MeetFor
<1>2. fit = Null /\ Open
  BY MetSays DEF MakeListCircular, Meeting, ClosedPlaces
<1>3. Counted'
  BY <1>1, <1>2 DEF MakeListCircular, IsCircular, Counted
<1>4. OpenWalk' /\ \A link \in Nodes(size) : ClosedWalk(link)'
  BY <1>1, WalkBegins
<1>5. CASE size = 0
  <2>1. Open'
    BY <1>1, <1>2, <1>5 DEF MakeListCircular, Open
  <2> QED
    BY <1>1, <1>3, <1>4, <1>5, <2>1 DEF IInv, Walked, ClosedPlaces
<1>6. CASE size # 0
  <2>1. PICK link \in Nodes(size) : nextp' = [nextp EXCEPT ![size - 1] = link]
    BY <1>6 DEF MakeListCircular, Nodes, tailp
  <2>2. nextp' = Chain(size, link)
    BY <1>2, <2>1 DEF Open, Chain, Nodes
  <2>3. ClosedAt(link)' /\ link \in Nodes(size') /\ ClosedWalk(link)'
    BY <1>1, <1>4, <2>2 DEF ClosedAt
  <2> QED
    BY <1>1, <1>3, <2>3 DEF IInv, Walked, ClosedPlaces
<1> QED
  BY <1>5, <1>6

LEMMA AssertCircularKeeps ==
  ASSUME IInv, AssertCircular, ~aborted
  PROVE  IInv'
<1>1. /\ size \in Nat /\ nelements \in Int \ {0} /\ (size = 0 => nelements < 0)
      /\ size' = size /\ nelements' = nelements /\ nextp' = nextp
      /\ pc' = "FixList" /\ met' = FALSE /\ MeetFor("FixList")
      /\ pc = "assertCircular" /\ met /\ aborted' = (fit = Null)
  BY DEF IInv, Counted, AssertCircular, MeetFor, list, IsCircular
<1>2. \/ fit = Null /\ Open /\ size = 0
      \/ fit # Null /\ \E link \in Nodes(size) : ClosedAt(link)
  BY <1>1, MetSays DEF Meeting, OpenPlaces
<1>3. Counted'
  BY <1>1, <1>2 DEF Counted
<1>4. OpenWalk' /\ \A link \in Nodes(size) : ClosedWalk(link)'
  BY <1>1, WalkBegins
<1>5. CASE Open /\ size = 0
  BY <1>1, <1>3, <1>4, <1>5 DEF IInv, Walked, ClosedPlaces, Open
<1>6. ASSUME NEW link \in Nodes(size), ClosedAt(link) PROVE IInv'
  <2>1. ClosedAt(link)' /\ link \in Nodes(size') /\ ClosedWalk(link)'
    BY <1>1, <1>4, <1>6 DEF ClosedAt
  <2> QED
    BY <1>1, <1>3, <2>1 DEF IInv, Walked, ClosedPlaces
<1> QED
  BY <1>2, <1>5, <1>6

LEMMA FixListKeeps ==
  ASSUME IInv, FixList, ~aborted
  PROVE  IInv'
<1>1. /\ size \in Nat /\ nelements \in Int \ {0} /\ (size = 0 => nelements < 0) /\ met
      /\ size' = size /\ nelements' = nelements /\ aborted' = aborted /\ pc = "FixList"
  BY DEF IInv, Counted, FixList
<1>2. CASE fit \in {Null, begin}
  <2>1. /\ MeetFor("assertFixed") /\ pc' = "assertFixed" /\ met' = FALSE
        /\ nextp' = IF fit = Null THEN nextp ELSE [nextp EXCEPT ![tailp] = Null]
    BY <1>2 DEF FixList, MeetFor
  <2>2. Open'
    <3>1. CASE fit = Null
      <4>1. Open
        BY <1>1, <3>1, MetSays DEF Meeting
      <4> QED
        BY <1>1, <2>1, <3>1, <4>1 DEF Open
    <3>2. CASE fit # Null
      <4>1. PICK link \in Nodes(size) : ClosedAt(link)
        BY <1>1, <3>2, MetSays DEF Meeting
      <4>2. nextp' = Chain(size, Null)
        BY <1>1, <2>1, <3>2, <4>1, CutOpen DEF ClosedAt, tailp
      <4> QED
        BY <1>1, <4>2 DEF Open
    <3> QED
      BY <3>1, <3>2
  <2>3. OpenWalk'
    BY <1>1, <2>1, WalkBegins
  <2>4. Counted'
    BY <1>1, <2>1 DEF Counted
  <2> QED
    BY <2>1, <2>2, <2>3, <2>4 DEF IInv, Walked, OpenPlaces
<1>3. CASE fit \notin {Null, begin}
  <2>1. /\ pc' = "cut" /\ it' = begin /\ meeting_it' = fit /\ nextp' = nextp /\ met' = met
    BY <1>3 DEF FixList, walk
  <2>2. PICK link \in Nodes(size), d \in Nat \ {0} :
          ClosedAt(link) /\ After(d * (size - link), fit, size, link)
    BY <1>1, <1>3, MetSays DEF Meeting
  <2>3. it' = 0 /\ meeting_it' # 0 /\ 0 \in 0..link /\ link \in Nodes(size')
    BY <1>1, <1>3, <2>1, <2>2 DEF begin, Nodes
  <2>4. d * (size - link) + 0 = d * (size - link)
    <3>1. size - link \in Nat \ {0}
      BY <1>1, <2>2 DEF Nodes
    <3> QED
      BY <3>1, Laps
  <2>5. CutWalk(link)'
    BY <1>1, <2>1, <2>2, <2>3, <2>4 DEF CutWalk
  <2>6. ClosedAt(link)'
    BY <1>1, <2>1, <2>2 DEF ClosedAt
  <2>7. Counted'
    BY <1>1, <2>1 DEF Counted, IInv
  <2> QED
    BY <2>1, <2>3, <2>5, <2>6, <2>7 DEF IInv, Walked, ClosedPlaces
<1> QED
  BY <1>2, <1>3

LEMMA CutKeeps ==
  ASSUME IInv, Cut, ~aborted
  PROVE  IInv'
<1>1. /\ size \in Nat /\ nelements \in Int \ {0} /\ (size = 0 => nelements < 0)
      /\ size' = size /\ nelements' = nelements /\ aborted' = aborted /\ pc = "cut"
  BY DEF IInv, Counted, Cut
<1>2. PICK link \in Nodes(size) : ClosedAt(link) /\ CutWalk(link)
  BY <1>1 DEF IInv, Walked, OpenPlaces, ClosedPlaces
<1>3. PICK d \in Nat \ {0}, j \in 0..link :
        /\ it = j /\ After(d * (size - link) + j, meeting_it, size, link)
        /\ j = 0 => meeting_it # 0
        /\ j > 0 => After(d * (size - link) + j - 1, prev_node, size, link)
  BY <1>2 DEF CutWalk
<1>4. nextp = Chain(size, link) /\ link \in Nat /\ j \in Nat /\ d * (size - link) \in Nat
      /\ size - link \in Nat \ {0}
  <2>1. size - link \in Nat \ {0} /\ link \in Nat /\ nextp = Chain(size, link)
    BY <1>1, <1>2 DEF Nodes, ClosedAt
  <2> QED
    BY <2>1, Laps
<1>5. meeting_it = j <=> j = link
  BY <1>1, <1>3, BackAtLink
<1>6. CASE it # meeting_it
  <2>1. /\ prev_node' = meeting_it /\ meeting_it' = nextp[meeting_it] /\ it' = nextp[it]
        /\ nextp' = nextp /\ pc' = pc /\ met' = met
    BY <1>6 DEF Cut, walk
  <2>2. j < link /\ j \in Nodes(size) /\ j # size - 1
    BY <1>1, <1>3, <1>4, <1>5, <1>6 DEF Nodes
  <2>3. it' = j + 1 /\ j + 1 \in 0..link /\ j + 1 > 0 /\ j + 1 # 0
    BY <1>1, <1>3, <1>4, <2>1, <2>2, Chained
  <2>4. After(d * (size - link) + (j + 1), meeting_it', size, link)
    <3>1. d * (size - link) + j \in Nat /\ d * (size - link) + j + 1 = d * (size - link) + (j + 1)
      BY <1>4
    <3> QED
      BY <1>1, <1>3, <1>4, <2>1, <3>1, AfterNext
  <2>5. After(d * (size - link) + (j + 1) - 1, prev_node', size, link)
    <3>1. d * (size - link) + (j + 1) - 1 = d * (size - link) + j
      BY <1>4
    <3> QED
      BY <1>3, <2>1, <3>1
  <2>6. CutWalk(link)'
    BY <1>1, <2>3, <2>4, <2>5 DEF CutWalk
  <2>7. ClosedAt(link)' /\ link \in Nodes(size')
    BY <1>1, <1>2, <2>1 DEF ClosedAt
  <2>8. Counted'
    BY <1>1, <2>1 DEF Counted, IInv
  <2> QED
    BY <1>1, <2>1, <2>6, <2>7, <2>8 DEF IInv, Walked, ClosedPlaces
<1>7. CASE it = meeting_it
  <2>1. /\ nextp' = [nextp EXCEPT ![prev_node] = Null] /\ MeetFor("assertFixed")
        /\ pc' = "assertFixed" /\ met' = FALSE
    BY <1>7 DEF Cut, MeetFor
  <2>2. j = link /\ j > 0
    BY <1>3, <1>4, <1>5, <1>7
  <2>3. prev_node = size - 1
    BY <1>1, <1>3, <2>2, BeforeLink
  <2>4. nextp' = Chain(size, Null)
    BY <1>1, <1>4, <2>1, <2>3, CutOpen
  <2>5. Open' /\ OpenWalk'
    BY <1>1, <2>1, <2>4, WalkBegins DEF Open
  <2>6. Counted'
    BY <1>1, <2>1 DEF Counted
  <2> QED
    BY <2>1, <2>5, <2>6 DEF IInv, Walked, OpenPlaces
<1> QED
  BY <1>6, <1>7

LEMMA AssertFixedKeeps ==
  ASSUME IInv, AssertFixed, ~aborted
  PROVE  IInv'
<1>1. /\ size \in Nat /\ nelements \in Int \ {0} /\ (size = 0 => nelements < 0) /\ met
      /\ UNCHANGED <<size, nelements, nextp, met>> /\ aborted' = (fit # Null)
      /\ pc = "assertFixed" /\ pc' = "done"
  BY DEF IInv, Counted, AssertFixed, list, walk, IsCircular
<1>2. fit = Null /\ Open
  BY <1>1, MetSays DEF Meeting, ClosedPlaces
<1>3. Counted'
  BY <1>1, <1>2 DEF Counted
<1> QED
  BY <1>1, <1>2, <1>3 DEF IInv, Walked, OpenPlaces, Open, Meeting

LEMMA Inductive == IInv /\ [NextList]_listVars => IInv'
<1>1. IInv /\ UNCHANGED listVars => IInv'
  BY DEF listVars, list, walk, fix, IInv, Counted, Walked, Open, OpenWalk, ClosedAt, ClosedWalk, CutWalk
<1> QED
  BY <1>1, PushBackKeeps, MeetingPointKeeps, MakeListCircularKeeps, AssertCircularKeeps,
     FixListKeeps, CutKeeps, AssertFixedKeeps DEF NextList

LEMMA Always == SpecList => []IInv
  BY Initially, Inductive, PTL DEF SpecList

\* ListRestored, for lists of every length: main's asserts hold, and FixList
\* gives back the list that main built.
THEOREM FixedListIsTheOldOne == SpecList => []ListRestored
<1>1. IInv => ListRestored
  BY DEF IInv, Counted, Walked, Open, Chain, Nodes, ListRestored, tailp, OpenPlaces, ClosedPlaces
<1> QED
  BY <1>1, Always, PTL

\* Where an iterator is dereferenced: in MeetingPoint unless fit is at the end,
\* and in FixList's loop and the cut behind it.
PointersHold ==
  /\ pc \in Meeting /\ ~met /\ fit # Null =>
       {sit, fit} \subseteq Nodes(size) /\ nextp[fit] \in Nodes(size) \cup {Null}
  /\ pc = "cut" => /\ {it, meeting_it} \subseteq Nodes(size)
                   /\ it = meeting_it => prev_node \in Nodes(size)

\* No iterator is dereferenced that is null or off the list, on a list of any
\* length, open or closed.
THEOREM NoNullIsFollowed == SpecList => []PointersHold
<1>1. ASSUME IInv PROVE PointersHold
  <2>1. size \in Nat /\ met \in BOOLEAN /\ Walked
    BY <1>1 DEF IInv, Counted
  <2>2. CASE Open /\ pc # "cut" /\ (pc \in Meeting => OpenWalk)
    <3>1. SUFFICES ASSUME pc \in Meeting, ~met, fit # Null
                   PROVE  {sit, fit} \subseteq Nodes(size)
                          /\ nextp[fit] \in Nodes(size) \cup {Null}
      BY <2>2 DEF PointersHold
    <3>2. PICK s \in Nat : sit = s /\ fit = 2 * s /\ 2 * s < size
      BY <2>2, <3>1 DEF OpenWalk
    <3>3. s \in Nodes(size) /\ 2 * s \in Nodes(size)
      BY <2>1, <3>2 DEF Nodes
    <3> QED
      BY <2>1, <2>2, <3>2, <3>3, Chained DEF Open
  <2>3. CASE \E link \in Nodes(size) :
               ClosedAt(link) /\ IF pc = "cut" THEN CutWalk(link) ELSE ClosedWalk(link)
    <3>1. PICK link \in Nodes(size) :
            ClosedAt(link) /\ IF pc = "cut" THEN CutWalk(link) ELSE ClosedWalk(link)
      BY <2>3
    <3>2. \A n \in Nodes(size) : nextp[n] \in Nodes(size)
      BY <2>1, <3>1, Chained DEF ClosedAt
    <3>3. CASE pc = "cut"
      <4>1. PICK d \in Nat \ {0}, j \in 0..link :
              /\ it = j /\ meeting_it \in Nodes(size)
              /\ j = 0 => meeting_it # 0
              /\ j > 0 => prev_node \in Nodes(size)
        BY <3>1, <3>3 DEF CutWalk, After
      <4>2. j \in Nodes(size) /\ (j = 0 \/ j > 0)
        BY <2>1 DEF Nodes
      <4> QED
        BY <3>3, <4>1, <4>2 DEF PointersHold, Meeting
    <3>4. CASE pc # "cut"
      <4>1. sit \in Nodes(size) /\ fit \in Nodes(size)
        BY <3>1, <3>4 DEF ClosedWalk, After
      <4> QED
        BY <3>2, <3>4, <4>1 DEF PointersHold
    <3> QED
      BY <3>3, <3>4
  <2> QED
    BY <2>1, <2>2, <2>3 DEF Walked, OpenPlaces, ClosedPlaces
<1> QED
  BY <1>1, Always, PTL
-----------------------------------------------------------------------------
(* Loops *)

\* A set of natural numbers has a least element.
LEMMA LeastElement ==
  ASSUME NEW S \in SUBSET Nat, S # {}
  PROVE  \E m \in S : \A n \in S : m <= n
<1>1. \E m \in S : \A n \in S : <<n, m>> \notin OpToRel(<, Nat)
  BY NatLessThanWellFounded, WFMin
<1>2. \A m, n \in Nat : <<n, m>> \notin OpToRel(<, Nat) => m <= n
  BY DEF OpToRel
<1> QED
  BY <1>1, <1>2

\* A set that holds 0 and the successors of its elements holds every number.
LEMMA SetInduction ==
  ASSUME NEW S, 0 \in S, \A n \in Nat : n \in S => n + 1 \in S
  PROVE  Nat \subseteq S
<1> SUFFICES ASSUME Nat \ S # {} PROVE FALSE
  OBVIOUS
<1>1. PICK m \in Nat \ S : \A n \in Nat \ S : m <= n
  BY LeastElement
<1>2. m - 1 \in Nat /\ m - 1 \in S
  BY <1>1
<1> QED
  BY <1>1, <1>2

\* A set of positions has a last one.
LEMMA LargestPosition ==
  ASSUME NEW n \in Nat, NEW S \in SUBSET (0..n), S # {}
  PROVE  Max(S) \in S /\ \A i \in S : Max(S) >= i
<1> DEFINE From == {n - i : i \in S}
<1>1. From \in SUBSET Nat /\ From # {}
  <2>1. \A i \in S : n - i \in Nat
    OBVIOUS
  <2> QED
    BY <2>1
<1>2. PICK m \in From : \A d \in From : m <= d
  BY <1>1, LeastElement
<1>3. PICK i \in S : m = n - i
  OBVIOUS
<1>4. \A j \in S : i >= j
  BY <1>2, <1>3
<1> QED
  BY <1>4 DEF Max

\* The loops that are folds: date.cpp adds days to what it has, the sieve of
\* prime1-old.cpp takes multiples out.
Adding(days) == [does |-> "add", days |-> days]
Sieving(end) == [does |-> "sieve", end |-> end]

Round(loop, a, i) ==
  IF loop.does = "add" THEN a + loop.days[i] ELSE SetAllMultiples(a, 2 * i + 7, loop.end)

\* What a set of rounds comes to, when g is what less of them come to.
LoopWith(base, loop, g, S) ==
  IF S = {} THEN base ELSE Round(loop, g[S \ {Max(S)}], Max(S))
IsLoop(base, loop, n, g) == g = [S \in SUBSET (1..n) |-> LoopWith(base, loop, g, S)]
Looped(base, loop, n) == (CHOOSE g : IsLoop(base, loop, n, g))[1..n]

LEMMA LoopsExist ==
  ASSUME NEW base, NEW loop, NEW n \in Nat
  PROVE  \E g : IsLoop(base, loop, n, g)
<1> DEFINE Known == {m \in Nat : \E g : IsLoop(base, loop, m, g)}
<1>1. 0 \in Known
  <2> DEFINE g == [S \in SUBSET (1..0) |-> base]
  <2>1. \A S \in SUBSET (1..0) : S = {}
    OBVIOUS
  <2>2. g = [S \in SUBSET (1..0) |-> LoopWith(base, loop, g, S)]
    BY <2>1 DEF LoopWith
  <2>3. IsLoop(base, loop, 0, g)
    BY <2>2 DEF IsLoop
  <2> QED
    BY <2>3
<1>2. ASSUME NEW m \in Nat, m \in Known PROVE m + 1 \in Known
  <2>1. PICK g : g = [S \in SUBSET (1..m) |-> LoopWith(base, loop, g, S)]
    BY <1>2 DEF IsLoop
  <2> DEFINE h == [S \in SUBSET (1..m + 1) |-> LoopWith(base, loop, g, S)]
  <2>2. ASSUME NEW S \in SUBSET (1..m + 1)
        PROVE  LoopWith(base, loop, g, S) = LoopWith(base, loop, h, S)
    <3>1. CASE S = {}
      BY <3>1 DEF LoopWith
    <3>2. CASE S # {}
      <4> DEFINE R == S \ {Max(S)}
      <4>1. Max(S) \in S /\ \A i \in S : Max(S) >= i
        <5>1. S \in SUBSET (0..m + 1) /\ m + 1 \in Nat
          OBVIOUS
        <5> QED
          BY <3>2, <5>1, LargestPosition
      <4>2. R \in SUBSET (1..m) /\ R \in SUBSET (1..m + 1)
        <5>1. PICK last \in 1..m + 1 : last = Max(S)
          BY <4>1
        <5>2. \A i \in S : i \in 1..m + 1 /\ i <= last /\ (i # last => i \in 1..m)
          BY <4>1, <5>1
        <5> QED
          BY <5>1, <5>2
      <4> HIDE DEF R
      <4>3. g[R] = LoopWith(base, loop, g, R) /\ h[R] = LoopWith(base, loop, g, R)
        BY <2>1, <4>2
      <4> QED
        BY <3>2, <4>3 DEF LoopWith, R
    <3> QED
      BY <3>1, <3>2
  <2>3. h = [S \in SUBSET (1..m + 1) |-> LoopWith(base, loop, h, S)]
    BY <2>2
  <2> HIDE DEF h
  <2>4. IsLoop(base, loop, m + 1, h)
    BY <2>3 DEF IsLoop
  <2> QED
    BY <2>4
<1> HIDE DEF Known
<1>3. n \in Known
  BY <1>1, <1>2, SetInduction
<1> QED
  BY <1>3 DEF Known

Stepwise(base, loop, n, g) == g[{}] = base /\ \A k \in 0..n - 1 : g[1..k + 1] = Round(loop, g[1..k], k + 1)

LEMMA LoopOfPrefix ==
  ASSUME NEW base, NEW loop, NEW n \in Nat, NEW g, IsLoop(base, loop, n, g)
  PROVE  Stepwise(base, loop, n, g)
<1>1. g[{}] = base
  <2>1. {} \in SUBSET (1..n)
    OBVIOUS
  <2> QED
    BY <2>1 DEF IsLoop, LoopWith
<1>2. ASSUME NEW k \in 0..n - 1 PROVE g[1..k + 1] = Round(loop, g[1..k], k + 1)
  <2>1. 1..k + 1 \in SUBSET (1..n) /\ 1..k + 1 # {}
    <3>1. k \in Nat /\ k + 1 <= n
      OBVIOUS
    <3>2. ASSUME NEW i \in 1..k + 1 PROVE i \in 1..n
      BY <3>1
    <3>3. k + 1 \in 1..k + 1
      BY <3>1
    <3> QED
      BY <3>2, <3>3
  <2>2. g[1..k + 1] = LoopWith(base, loop, g, 1..k + 1)
    BY <2>1 DEF IsLoop
  <2>3. Max(1..k + 1) = k + 1
    <3>1. k + 1 \in Nat /\ 1..k + 1 \in SUBSET (0..k + 1) /\ k + 1 \in 1..k + 1
      OBVIOUS
    <3>2. Max(1..k + 1) \in 1..k + 1 /\ Max(1..k + 1) >= k + 1
      BY <2>1, <3>1, LargestPosition
    <3> QED
      BY <3>2
  <2>4. (1..k + 1) \ {k + 1} = 1..k
    OBVIOUS
  <2> QED
    BY <2>1, <2>2, <2>3, <2>4 DEF LoopWith
<1> QED
  BY <1>1, <1>2 DEF Stepwise

\* One round more.
LEMMA LoopStep ==
  ASSUME NEW base, NEW loop, NEW n \in Nat
  PROVE  Looped(base, loop, 0) = base /\ Looped(base, loop, n + 1) = Round(loop, Looped(base, loop, n), n + 1)
<1> DEFINE g == CHOOSE gg : IsLoop(base, loop, n, gg)
           h == CHOOSE hh : IsLoop(base, loop, n + 1, hh)
           z == CHOOSE zz : IsLoop(base, loop, 0, zz)
           Agreed == {k \in Nat : k <= n => g[1..k] = h[1..k]}
<1>1. IsLoop(base, loop, n, g) /\ IsLoop(base, loop, n + 1, h) /\ IsLoop(base, loop, 0, z)
  <2>1. n + 1 \in Nat /\ 0 \in Nat
    OBVIOUS
  <2> QED
    BY <2>1, LoopsExist
<1>2. Looped(base, loop, n) = g[1..n] /\ Looped(base, loop, n + 1) = h[1..n + 1] /\ Looped(base, loop, 0) = z[1..0]
  BY DEF Looped
<1> HIDE DEF g, h, z
<1>3. 1..0 = {} /\ n + 1 - 1 = n /\ n + 1 \in Nat
  OBVIOUS
<1>4. z[1..0] = base
  <2>1. 0 \in Nat
    OBVIOUS
  <2>2. Stepwise(base, loop, 0, z)
    BY <1>1, <2>1, LoopOfPrefix
  <2> QED
    BY <1>3, <2>2 DEF Stepwise
<1>5. /\ g[{}] = base /\ \A k \in 0..n - 1 : g[1..k + 1] = Round(loop, g[1..k], k + 1)
      /\ h[{}] = base /\ \A k \in 0..n : h[1..k + 1] = Round(loop, h[1..k], k + 1)
  <2>1. Stepwise(base, loop, n, g)
    BY <1>1, LoopOfPrefix
  <2>2. Stepwise(base, loop, n + 1, h)
    BY <1>1, <1>3, LoopOfPrefix
  <2> QED
    BY <1>3, <2>1, <2>2 DEF Stepwise
<1>6. 0 \in Agreed
  BY <1>3, <1>5
<1>7. ASSUME NEW k \in Nat, k \in Agreed PROVE k + 1 \in Agreed
  <2> SUFFICES ASSUME k + 1 <= n PROVE g[1..k + 1] = h[1..k + 1]
    OBVIOUS
  <2>1. k \in 0..n - 1 /\ k \in 0..n /\ k <= n
    OBVIOUS
  <2> QED
    BY <1>5, <1>7, <2>1
<1> HIDE DEF Agreed
<1>8. n \in Agreed
  BY <1>6, <1>7, SetInduction
<1>9. h[1..n + 1] = Round(loop, h[1..n], n + 1)
  BY <1>5
<1> QED
  BY <1>2, <1>4, <1>8, <1>9 DEF Agreed

\* Sums.
Sum_(base, w, n) == Looped(base, Adding(w), n)

LEMMA SumStep ==
  ASSUME NEW base, NEW w, NEW n \in Nat
  PROVE  Sum_(base, w, 0) = base /\ Sum_(base, w, n + 1) = Sum_(base, w, n) + w[n + 1]
<1>1. \A a : Round(Adding(w), a, n + 1) = a + w[n + 1]
  BY DEF Round, Adding
<1> QED
  BY <1>1, LoopStep DEF Sum_
-----------------------------------------------------------------------------
(* Dates: months and years *)

MonthsBefore == <<0, 31, 59, 90, 120, 151, 181, 212, 243, 273, 304, 334>>
LeapDay(year) == IF CheckLeapYear(year) THEN 1 ELSE 0

\* The loop of ElapsedDays counts the days of the months.
MonthDays(date) == [m \in Nat |-> DaysInMonth(date, m - 1)]

LEMMA ElapsedIsSum ==
  ASSUME NEW date, date.month \in Nat
  PROVE  ElapsedDays(date) = Sum_(date.day, MonthDays(date), date.month)
<1> DEFINE n == date.month
           seq == [m \in 1..n |-> m]
           w == MonthDays(date)
           Solves(g) == g = [S \in SUBSET DOMAIN seq |->
                               IF S = {} THEN date.day
                               ELSE g[S \ {Max(S)}] + DaysInMonth(date, seq[Max(S)] - 1)]
<1>1. ElapsedDays(date) = (CHOOSE g : Solves(g))[DOMAIN seq]
  BY DEF ElapsedDays, FoldLeft, MapThenFoldSet
<1>2. DOMAIN seq = 1..n /\ n \in Nat
  OBVIOUS
<1>3. ASSUME NEW S \in SUBSET (1..n), S # {}
      PROVE  DaysInMonth(date, seq[Max(S)] - 1) = w[Max(S)]
  <2>1. S \in SUBSET (0..n)
    OBVIOUS
  <2>2. Max(S) \in S
    BY <1>2, <1>3, <2>1, LargestPosition
  <2>3. PICK m \in 1..n : m = Max(S)
    BY <2>2
  <2> QED
    BY <2>3 DEF MonthDays
<1> HIDE DEF w, seq, n
<1>4. \A g : Solves(g) <=> IsLoop(date.day, Adding(w), n, g)
  BY <1>2, <1>3 DEF IsLoop, LoopWith, Round, Adding
<1> HIDE DEF Solves
<1>5. (CHOOSE g : Solves(g)) = CHOOSE g : IsLoop(date.day, Adding(w), n, g)
  BY <1>4
<1> QED
  BY <1>1, <1>2, <1>5 DEF Sum_, Looped, w, n

LEMMA ElapsedDaysAre ==
  ASSUME NEW date \in AnyDate
  PROVE  /\ ElapsedDays(date) = MonthsBefore[date.month + 1] + date.day
                                  + IF date.month > 1 THEN LeapDay(date.year) ELSE 0
         /\ ElapsedDays(date) \in Int
<1> DEFINE w == MonthDays(date)
           d == date.day
           leap == LeapDay(date.year)
           Total(k) == MonthsBefore[k + 1] + d + (IF k > 1 THEN leap ELSE 0)
           Right == {k \in Nat : k <= 11 => Sum_(d, w, k) = Total(k)}
<1>1. date.month \in 0..11 /\ d \in Int /\ leap \in {0, 1}
  BY DEF AnyDate, LeapDay
<1>2. \A k \in 0..10 : /\ MonthsBefore[k + 1] \in Int
                       /\ MonthsBefore[k + 1 + 1] = MonthsBefore[k + 1] + kDaysInMonth[k + 1]
  BY DEF MonthsBefore, kDaysInMonth
<1>3. \A k \in 0..10 : w[k + 1] = kDaysInMonth[k + 1] + IF k = 1 THEN leap ELSE 0
  BY DEF MonthDays, DaysInMonth, LeapDay
<1>4. \A k \in 0..10 : kDaysInMonth[k + 1] \in Int
  BY DEF kDaysInMonth
<1> HIDE DEF w, d, leap
<1>5. 0 \in Right
  <2>1. Sum_(d, w, 0) = d
    BY SumStep
  <2>2. MonthsBefore[0 + 1] = 0
    BY DEF MonthsBefore
  <2> QED
    BY <1>1, <2>1, <2>2
<1>6. ASSUME NEW k \in Nat, k \in Right PROVE k + 1 \in Right
  <2> SUFFICES ASSUME k + 1 <= 11 PROVE Sum_(d, w, k + 1) = Total(k + 1)
    OBVIOUS
  <2>1. k \in 0..10 /\ k <= 11
    OBVIOUS
  <2>2. Sum_(d, w, k + 1) = Sum_(d, w, k) + w[k + 1]
    BY SumStep
  <2>3. Sum_(d, w, k) = Total(k)
    BY <1>6, <2>1
  <2> QED
    BY <1>1, <1>2, <1>3, <1>4, <2>1, <2>2, <2>3
<1>7. Nat \subseteq Right
  <2> HIDE DEF Right
  <2> QED
    BY <1>5, <1>6, SetInduction
<1>8. Sum_(d, w, date.month) = Total(date.month)
  BY <1>1, <1>7
<1>9. ElapsedDays(date) = Total(date.month)
  BY <1>1, <1>8, ElapsedIsSum DEF d, w
<1>10. \A k \in 0..11 : MonthsBefore[k + 1] \in Int
  BY DEF MonthsBefore
<1>11. Total(date.month) \in Int
  BY <1>1, <1>10
<1> QED
  BY <1>9, <1>11 DEF d, leap

\* A year has a leap day just when the count of leap years grows.
LEMMA LeapStep ==
  ASSUME NEW year \in Int
  PROVE  /\ LeapYearsUpTo(year) \in Int /\ LeapYearsUpTo(year - 1) \in Int
         /\ LeapYearsUpTo(year) = LeapYearsUpTo(year - 1) + LeapDay(year)
         /\ DaysInYear(year) = 365 + LeapDay(year) /\ LeapDay(year) \in Int
<1> DEFINE f == year \div 4      g == (year - 1) \div 4
           c == year \div 100    e == (year - 1) \div 100
           q == year \div 400    r == (year - 1) \div 400
<1>1. f = g + IF year % 4 = 0 THEN 1 ELSE 0
  OBVIOUS
<1>2. c = e + IF year % 100 = 0 THEN 1 ELSE 0
  OBVIOUS
<1>3. q = r + IF year % 400 = 0 THEN 1 ELSE 0
  OBVIOUS
<1>4. (year % 400 = 0 => year % 100 = 0) /\ (year % 100 = 0 => year % 4 = 0)
  OBVIOUS
<1>5. f \in Int /\ g \in Int /\ c \in Int /\ e \in Int /\ q \in Int /\ r \in Int
  OBVIOUS
<1>6. LeapYearsUpTo(year) = f - c + q /\ LeapYearsUpTo(year - 1) = g - e + r
  BY DEF LeapYearsUpTo
<1>7. LeapDay(year) = IF year % 400 = 0 \/ (year % 100 # 0 /\ year % 4 = 0) THEN 1 ELSE 0
  BY DEF LeapDay, CheckLeapYear
<1>8. DaysInYear(year) = 365 + LeapDay(year)
  BY DEF DaysInYear, LeapDay
<1> DEFINE A == year % 4 = 0
           B == year % 100 = 0
           C == year % 400 = 0
<1> HIDE DEF f, g, c, e, q, r, A, B, C
<1> QED
  BY <1>1, <1>2, <1>3, <1>4, <1>5, <1>6, <1>7, <1>8 DEF A, B, C

\* The loop of operator - counts the days of the years between.
YearDays(year) == [y \in Nat |-> DaysInYear(year + y)]

LEMMA YearsBetweenIsSum ==
  ASSUME NEW year, NEW n \in Nat
  PROVE  FoldLeft(LAMBDA days, y : days + DaysInYear(year + y), 0, [y \in 1..n |-> y])
           = Sum_(0, YearDays(year), n)
<1> DEFINE seq == [y \in 1..n |-> y]
           w == YearDays(year)
           Solves(g) == g = [S \in SUBSET DOMAIN seq |->
                               IF S = {} THEN 0
                               ELSE g[S \ {Max(S)}] + DaysInYear(year + seq[Max(S)])]
<1>1. FoldLeft(LAMBDA days, y : days + DaysInYear(year + y), 0, seq) = (CHOOSE g : Solves(g))[DOMAIN seq]
  BY DEF FoldLeft, MapThenFoldSet
<1>2. DOMAIN seq = 1..n
  OBVIOUS
<1>3. ASSUME NEW S \in SUBSET (1..n), S # {}
      PROVE  DaysInYear(year + seq[Max(S)]) = w[Max(S)]
  <2>1. S \in SUBSET (0..n)
    OBVIOUS
  <2>2. Max(S) \in S
    BY <1>3, <2>1, LargestPosition
  <2>3. PICK m \in 1..n : m = Max(S)
    BY <2>2
  <2> QED
    BY <2>3 DEF YearDays
<1> HIDE DEF w, seq
<1>4. \A g : Solves(g) <=> IsLoop(0, Adding(w), n, g)
  BY <1>2, <1>3 DEF IsLoop, LoopWith, Round, Adding
<1> HIDE DEF Solves
<1>5. (CHOOSE g : Solves(g)) = CHOOSE g : IsLoop(0, Adding(w), n, g)
  BY <1>4
<1> QED
  BY <1>1, <1>2, <1>5 DEF Sum_, Looped, w, seq

LEMMA YearsBetween ==
  ASSUME NEW year \in Int, NEW n \in Nat
  PROVE  Sum_(0, YearDays(year), n) = 365 * n + LeapYearsUpTo(year + n) - LeapYearsUpTo(year)
<1> DEFINE w == YearDays(year)
           Right == {k \in Nat : Sum_(0, w, k) = 365 * k + LeapYearsUpTo(year + k) - LeapYearsUpTo(year)}
<1>1. LeapYearsUpTo(year) \in Int
  BY LeapStep
<1>2. 0 \in Right
  <2>1. Sum_(0, w, 0) = 0
    BY SumStep
  <2>2. year + 0 = year
    OBVIOUS
  <2> HIDE DEF w
  <2> QED
    BY <1>1, <2>1, <2>2
<1>3. ASSUME NEW k \in Nat, k \in Right PROVE k + 1 \in Right
  <2>1. Sum_(0, w, k + 1) = Sum_(0, w, k) + w[k + 1]
    BY SumStep
  <2>2. w[k + 1] = DaysInYear(year + (k + 1))
    BY DEF YearDays
  <2>3. PICK y \in Int : y = year + (k + 1) /\ y - 1 = year + k
    OBVIOUS
  <2>4. /\ LeapYearsUpTo(y) \in Int /\ LeapYearsUpTo(y - 1) \in Int
        /\ LeapYearsUpTo(y) = LeapYearsUpTo(y - 1) + LeapDay(y)
        /\ DaysInYear(y) = 365 + LeapDay(y) /\ LeapDay(y) \in Int
    BY LeapStep
  <2> HIDE DEF w
  <2>5. Sum_(0, w, k) = 365 * k + LeapYearsUpTo(y - 1) - LeapYearsUpTo(year)
    BY <1>3, <2>3
  <2>6. Sum_(0, w, k + 1) = 365 * (k + 1) + LeapYearsUpTo(y) - LeapYearsUpTo(year)
    BY <1>1, <2>1, <2>2, <2>3, <2>4, <2>5
  <2> QED
    BY <2>3, <2>6
<1> HIDE DEF Right
<1>4. n \in Right
  BY <1>2, <1>3, SetInduction
<1> QED
  BY <1>4 DEF Right

\* The number of a day.
LEMMA DayNumberIs ==
  ASSUME NEW date \in AnyDate
  PROVE  /\ DayNumber(date) = 365 * (date.year - 1) + LeapYearsUpTo(date.year - 1) + ElapsedDays(date)
         /\ DayNumber(date) \in Int
<1>1. date.year \in Int /\ date.day \in Int /\ date.month \in 0..11
  BY DEF AnyDate
<1>2. /\ LeapYearsUpTo(date.year) \in Int /\ LeapYearsUpTo(date.year - 1) \in Int
      /\ LeapYearsUpTo(date.year) = LeapYearsUpTo(date.year - 1) + LeapDay(date.year)
      /\ LeapDay(date.year) \in Int
  BY <1>1, LeapStep
<1>3. /\ ElapsedDays(date) = MonthsBefore[date.month + 1] + date.day
                               + IF date.month > 1 THEN LeapDay(date.year) ELSE 0
      /\ ElapsedDays(date) \in Int
  BY ElapsedDaysAre
<1>4. DayNumber(date) = 365 * (date.year - 1) + LeapYearsUpTo(date.year - 1) + date.day
        + MonthsBefore[date.month + 1]
        + IF date.month > 1 THEN LeapYearsUpTo(date.year) - LeapYearsUpTo(date.year - 1) ELSE 0
  BY DEF DayNumber, MonthsBefore
<1>5. MonthsBefore[date.month + 1] \in Int
  <2>1. \A k \in 0..11 : MonthsBefore[k + 1] \in Int
    BY DEF MonthsBefore
  <2> QED
    BY <1>1, <2>1
<1>6. CASE date.month > 1
  BY <1>1, <1>2, <1>3, <1>4, <1>5, <1>6
<1>7. CASE ~(date.month > 1)
  BY <1>1, <1>2, <1>3, <1>4, <1>5, <1>7
<1> QED
  BY <1>6, <1>7

\* The difference with the earlier year first.
LEMMA LaterYear ==
  ASSUME NEW a \in AnyDate, NEW b \in AnyDate, a.year < b.year
  PROVE  MinusLaterYear(a, b) = DayNumber(a) - DayNumber(b)
<1> DEFINE n == b.year - a.year - 1
           sum == FoldLeft(LAMBDA days, y : days + DaysInYear(a.year + y), 0, [y \in 1..n |-> y])
<1>1. a.year \in Int /\ b.year \in Int /\ n \in Nat /\ a.year + n = b.year - 1
  BY DEF AnyDate
<1>2. sum = 365 * n + LeapYearsUpTo(b.year - 1) - LeapYearsUpTo(a.year)
  <2>1. sum = Sum_(0, YearDays(a.year), n)
    BY <1>1, YearsBetweenIsSum
  <2> HIDE DEF sum, n
  <2>2. Sum_(0, YearDays(a.year), n) = 365 * n + LeapYearsUpTo(a.year + n) - LeapYearsUpTo(a.year)
    BY <1>1, YearsBetween
  <2> QED
    BY <1>1, <2>1, <2>2
<1>3. MinusLaterYear(a, b) = -(sum + RemainingDays(a) + ElapsedDays(b))
  BY DEF MinusLaterYear
<1>4. RemainingDays(a) = DaysInYear(a.year) - ElapsedDays(a)
  BY DEF RemainingDays
<1>5. n = b.year - a.year - 1
  OBVIOUS
<1> HIDE DEF sum, n
<1>6. /\ LeapYearsUpTo(a.year) \in Int /\ LeapYearsUpTo(a.year - 1) \in Int
      /\ LeapYearsUpTo(a.year) = LeapYearsUpTo(a.year - 1) + LeapDay(a.year)
      /\ DaysInYear(a.year) = 365 + LeapDay(a.year) /\ LeapDay(a.year) \in Int
      /\ LeapYearsUpTo(b.year - 1) \in Int
  BY <1>1, LeapStep
<1>7. /\ DayNumber(a) = 365 * (a.year - 1) + LeapYearsUpTo(a.year - 1) + ElapsedDays(a)
      /\ DayNumber(b) = 365 * (b.year - 1) + LeapYearsUpTo(b.year - 1) + ElapsedDays(b)
  BY DayNumberIs
<1>8. ElapsedDays(a) \in Int /\ ElapsedDays(b) \in Int
  BY ElapsedDaysAre
<1> QED
  BY <1>1, <1>2, <1>3, <1>4, <1>5, <1>6, <1>7, <1>8

\* The difference of any two dates of the 65536 years that there are is the
\* number of days between them, over months, leap years and centuries, in both
\* directions; and it comes back unless the two differ in their years and each
\* counts as later than the other.
THEOREM DifferencesAreDays == \A a, b \in AnyDate : IsDifference(a, b)
<1> SUFFICES ASSUME NEW a \in AnyDate, NEW b \in AnyDate PROVE IsDifference(a, b)
  OBVIOUS
<1>1. /\ a.year \in Int /\ b.year \in Int /\ DayNumber(a) \in Int /\ DayNumber(b) \in Int
      /\ ElapsedDays(a) \in Int /\ ElapsedDays(b) \in Int
      /\ DayNumber(a) = 365 * (a.year - 1) + LeapYearsUpTo(a.year - 1) + ElapsedDays(a)
      /\ DayNumber(b) = 365 * (b.year - 1) + LeapYearsUpTo(b.year - 1) + ElapsedDays(b)
  BY ElapsedDaysAre, DayNumberIs DEF AnyDate
<1>2. LeapYearsUpTo(a.year - 1) \in Int
  BY <1>1, LeapStep
<1> DEFINE days == DayNumber(a) - DayNumber(b)
<1>3. days \in Int /\ days # NoReturn
  BY <1>1, NoReturnAssumption
<1>4. CASE a = b
  <2>1. Minus(a, b) = 0 /\ days = 0
    BY <1>1, <1>4 DEF Minus
  <2> QED
    BY <1>3, <2>1 DEF IsDifference
<1>5. CASE a # b /\ a.year = b.year
  <2>1. Minus(a, b) = ElapsedDays(a) - ElapsedDays(b)
    BY <1>5 DEF Minus
  <2>2. Minus(a, b) = days
    BY <1>1, <1>2, <1>5, <2>1
  <2> QED
    BY <1>3, <2>2 DEF IsDifference
<1>6. CASE a.year # b.year /\ ~Later(a, b)
  <2>1. a.year < b.year
    BY <1>1, <1>6 DEF Later
  <2>2. Minus(a, b) = MinusLaterYear(a, b)
    BY <1>6 DEF Minus
  <2>3. Minus(a, b) = days
    BY <2>1, <2>2, LaterYear
  <2> QED
    BY <1>3, <2>3 DEF IsDifference
<1>7. CASE a.year # b.year /\ Later(a, b) /\ ~Later(b, a)
  <2>1. b.year < a.year
    BY <1>1, <1>7 DEF Later
  <2>2. Minus(a, b) = -MinusLaterYear(b, a)
    BY <1>7 DEF Minus
  <2>3. MinusLaterYear(b, a) = DayNumber(b) - DayNumber(a)
    BY <2>1, LaterYear
  <2>4. Minus(a, b) = days
    BY <1>1, <2>2, <2>3
  <2> QED
    BY <1>3, <2>4 DEF IsDifference
<1>8. CASE a.year # b.year /\ Later(a, b) /\ Later(b, a)
  <2>1. Minus(a, b) = NoReturn
    BY <1>8 DEF Minus
  <2> QED
    BY <1>8, <2>1 DEF IsDifference
<1> QED
  BY <1>4, <1>5, <1>6, <1>7, <1>8
-----------------------------------------------------------------------------
(* Primes: divisors *)

LEMMA DividesIs ==
  ASSUME NEW n \in Nat, NEW d \in Nat \ {0}
  PROVE  n % d = 0 <=> \E k \in Nat : n = k * d
<1>1. n % d = 0 => \E k \in Nat : n = k * d
  <2>1. n = (n \div d) * d + (n % d) /\ n \div d \in Nat
    OBVIOUS
  <2> QED
    BY <2>1
<1>2. ASSUME NEW k \in Nat, n = k * d PROVE n % d = 0
  <2>1. (k * d) % d = 0
    OBVIOUS
  <2> QED
    BY <1>2, <2>1
<1> QED
  BY <1>1, <1>2

\* A divisor of a divisor.
LEMMA DividesOn ==
  ASSUME NEW n \in Nat, NEW d \in Nat \ {0}, NEW e \in Nat \ {0}, n % d = 0, d % e = 0
  PROVE  n % e = 0
<1>1. PICK k \in Nat : n = k * d
  BY DividesIs
<1>2. PICK j \in Nat : d = j * e
  BY DividesIs
<1>3. n = (k * j) * e /\ k * j \in Nat
  BY <1>1, <1>2
<1> QED
  BY <1>3, DividesIs

\* A number that is not prime has a prime divisor, which is no more than its
\* root.
LEMMA LeastDivisor ==
  ASSUME NEW n \in Nat, n >= 2
  PROVE  \E d \in 2..n : /\ n % d = 0 /\ IsPrime(d)
                         /\ ~IsPrime(n) => d < n /\ d * d <= n
<1> DEFINE Divisors == {d \in Nat : d >= 2 /\ n % d = 0}
<1>1. n \in Divisors
  <2>1. n = 1 * n
    OBVIOUS
  <2> QED
    BY <2>1, DividesIs
<1>2. PICK d \in Divisors : \A e \in Divisors : d <= e
  BY <1>1, LeastElement
<1>3. d \in 2..n /\ n % d = 0 /\ d \in Nat \ {0}
  BY <1>1, <1>2
<1>4. ASSUME NEW e \in 2..d - 1, d % e = 0 PROVE FALSE
  <2>1. e \in Nat \ {0} /\ e >= 2 /\ e < d
    BY <1>3
  <2>2. n % e = 0
    BY <1>3, <1>4, <2>1, DividesOn
  <2> QED
    BY <1>2, <2>1, <2>2
<1>5. IsPrime(d)
  BY <1>3, <1>4 DEF IsPrime
<1>6. ASSUME ~IsPrime(n) PROVE d < n /\ d * d <= n
  <2>1. PICK e \in 2..n - 1 : n % e = 0
    BY <1>6 DEF IsPrime
  <2>2. e \in Divisors
    BY <2>1
  <2>3. d < n
    BY <1>2, <1>3, <2>1, <2>2
  <2>4. PICK k \in Nat : n = k * d
    BY <1>3, DividesIs
  <2>5. k >= 2
    <3>1. k # 0 /\ k # 1
      BY <1>3, <2>3, <2>4
    <3> QED
      BY <3>1
  <2>6. n = d * k
    BY <1>3, <2>4
  <2>7. n % k = 0
    BY <1>3, <2>5, <2>6, DividesIs
  <2>8. d <= k
    BY <1>2, <2>5, <2>7
  <2>9. d * d <= k * d
    BY <1>3, <2>8
  <2> QED
    BY <2>3, <2>4, <2>9
<1> QED
  BY <1>3, <1>5, <1>6

\* A divisor of a number is not more than it.
LEMMA DivisorIsLess ==
  ASSUME NEW n \in Nat \ {0}, NEW d \in Nat \ {0}, n % d = 0
  PROVE  d <= n
<1>1. PICK k \in Nat : n = k * d
  BY DividesIs
<1>2. k >= 1
  BY <1>1
<1>3. k * d >= d
  BY <1>2
<1> QED
  BY <1>1, <1>3

\* Root is the root, rounded down.
LEMMA RootIs ==
  ASSUME NEW n \in Nat
  PROVE  /\ Root(n) \in Nat /\ Root(n) <= n
         /\ \A r \in Nat : r <= Root(n) <=> r * r <= n
<1> DEFINE S == {r \in 0..n : r * r <= n}
<1>1. S \in SUBSET (0..n) /\ S # {}
  <2>1. 0 \in S
    OBVIOUS
  <2> QED
    BY <2>1
<1>2. Root(n) \in S /\ \A r \in S : Root(n) >= r
  <2> HIDE DEF S
  <2>1. Max(S) \in S /\ \A r \in S : Max(S) >= r
    BY <1>1, LargestPosition
  <2> QED
    BY <2>1 DEF Root, S
<1>3. Root(n) \in Nat /\ Root(n) * Root(n) <= n /\ Root(n) <= n
  BY <1>2
<1>4. ASSUME NEW r \in Nat, r * r <= n PROVE r <= Root(n)
  <2>1. r <= r * r
    OBVIOUS
  <2>2. r \in S
    BY <1>4, <2>1
  <2> QED
    BY <1>2, <1>3, <2>2
<1>5. ASSUME NEW r \in Nat, r <= Root(n) PROVE r * r <= n
  <2> DEFINE q == Root(n)
  <2>1. q \in Nat /\ q * q <= n /\ r <= q
    BY <1>3, <1>5
  <2> HIDE DEF q
  <2>2. r * r <= r * q /\ r * q <= q * q
    BY <2>1
  <2> QED
    BY <2>1, <2>2
<1> QED
  BY <1>3, <1>4, <1>5
-----------------------------------------------------------------------------
(* Primes: the sieve of an interval *)

SmallPrimes == {2, 3, 5, 7}

\* A number whose multiples are not taken out has a small divisor, whose
\* multiples are.
LEMMA SmallIsEnough ==
  ASSUME NEW s \in Nat, s >= 2, Skipped(s)
  PROVE  \E q \in 2..s - 1 : q \in SmallPrimes /\ ~Skipped(q) /\ s % q = 0
<1>1. PICK q \in SmallPrimes : s # q /\ s % q = 0
  BY DEF Skipped, SmallPrimes
<1>2. q \in Nat \ {0} /\ q >= 2
  BY DEF SmallPrimes
<1>3. q <= s
  BY <1>1, <1>2, DivisorIsLess
<1>4. ~Skipped(q)
  BY DEF SmallPrimes, Skipped
<1> QED
  BY <1>1, <1>2, <1>3, <1>4

\* The divisors are the primes up to the root.
LEMMA BasicPrimes ==
  ASSUME NEW max \in Nat, NEW p
  PROVE  p \in compute_all_primes(max) <=> p \in Nat /\ IsPrime(p) /\ p * p <= max
<1>1. /\ Root(max) \in Nat
      /\ \A r \in Nat : r <= Root(max) <=> r * r <= max
  BY RootIs
<1>2. p \in 2..(Root(max) + 1) - 1 <=> p \in Nat /\ p > 1 /\ p * p <= max
  <2>1. 2..(Root(max) + 1) - 1 = 2..Root(max)
    BY <1>1
  <2>2. p \in 2..Root(max) <=> p \in Nat /\ p > 1 /\ p <= Root(max)
    BY <1>1
  <2> QED
    BY <1>1, <2>1, <2>2
<1>3. ASSUME p \in Nat, p > 1
      PROVE  (\E s \in 2..p - 1 : ~Skipped(s) /\ p % s = 0) <=> ~IsPrime(p)
  <2>1. ASSUME NEW s \in 2..p - 1, p % s = 0
        PROVE  \E q \in 2..p - 1 : ~Skipped(q) /\ p % q = 0
    <3>1. CASE ~Skipped(s)
      BY <2>1, <3>1
    <3>2. CASE Skipped(s)
      <4>1. PICK q \in 2..s - 1 : ~Skipped(q) /\ s % q = 0
        BY <1>3, <3>2, SmallIsEnough
      <4>2. q \in 2..p - 1 /\ q \in Nat \ {0} /\ s \in Nat \ {0}
        BY <1>3
      <4>3. p % q = 0
        BY <1>3, <2>1, <4>1, <4>2, DividesOn
      <4> QED
        BY <4>1, <4>2, <4>3
    <3> QED
      BY <3>1, <3>2
  <2> QED
    BY <1>3, <2>1 DEF IsPrime
<1>4. p \in compute_all_primes(max) <=>
        p \in 2..(Root(max) + 1) - 1 /\ ~\E s \in 2..p - 1 : ~Skipped(s) /\ p % s = 0
  <2>1. compute_all_primes(max) =
          {q \in 2..(Root(max) + 1) - 1 : ~\E s \in 2..q - 1 : ~Skipped(s) /\ q % s = 0}
    BY DEF compute_all_primes
  <2> QED
    BY <2>1
<1>5. IsPrime(p) /\ p \in Nat => p > 1
  BY DEF IsPrime
<1> QED
  BY <1>2, <1>3, <1>4, <1>5

\* The first multiple of a divisor in an interval, if there is one.
LEMMA FirstMultiple ==
  ASSUME NEW low \in Nat, NEW high \in Nat, NEW d \in Nat \ {0}
  PROVE  \E first \in Nat :
           /\ first = find_first_odd_divisible(low, high, d)
           /\ first <= high => low <= first /\ first % d = 0
           /\ \A n \in low..high : n % d = 0 => first <= n
<1> DEFINE S == {no \in low..high : no % d = 0} \cup {high + 1}
           first == find_first_odd_divisible(low, high, d)
<1>1. PICK m \in S : \A e \in S : m <= e
  <2>1. S \in SUBSET Nat /\ S # {}
    OBVIOUS
  <2> QED
    BY <2>1, LeastElement
<1>2. first \in S /\ \A e \in S : first <= e
  BY <1>1 DEF find_first_odd_divisible, Min
<1>3. first = find_first_odd_divisible(low, high, d)
  OBVIOUS
<1> HIDE DEF first
<1>4. (first \in low..high /\ first % d = 0) \/ first = high + 1
  BY <1>2
<1>5. \A n \in low..high : n % d = 0 => first <= n
  BY <1>2
<1>6. /\ first \in Nat
      /\ first <= high => low <= first /\ first % d = 0
  BY <1>4
<1> QED
  BY <1>3, <1>5, <1>6

\* The difference of two multiples.
LEMMA MultiplesApart ==
  ASSUME NEW a \in Nat, NEW b \in Nat, NEW d \in Nat \ {0}, a % d = 0, a <= b
  PROVE  (b - a) % d = 0 <=> b % d = 0
<1>1. PICK k \in Nat : a = k * d
  BY DividesIs
<1>2. ASSUME (b - a) % d = 0 PROVE b % d = 0
  <2>1. PICK j \in Nat : b - a = j * d
    <3>1. b - a \in Nat
      OBVIOUS
    <3> QED
      BY <1>2, <3>1, DividesIs
  <2>2. b = (k + j) * d /\ k + j \in Nat
    BY <1>1, <2>1
  <2> QED
    BY <2>2, DividesIs
<1>3. ASSUME b % d = 0 PROVE (b - a) % d = 0
  <2>1. PICK j \in Nat : b = j * d
    BY <1>3, DividesIs
  <2>2. k <= j
    <3> SUFFICES ASSUME k >= j + 1 PROVE FALSE
      OBVIOUS
    <3>1. k * d >= (j + 1) * d
      OBVIOUS
    <3> QED
      BY <1>1, <2>1, <3>1
  <2>3. b - a = (j - k) * d /\ j - k \in Nat /\ b - a \in Nat
    BY <1>1, <2>1, <2>2
  <2> QED
    BY <2>3, DividesIs
<1> QED
  BY <1>2, <1>3

\* What a divisor takes out of an interval.
LEMMA MultiplesAre ==
  ASSUME NEW low \in Nat, NEW high \in Nat, NEW last \in Nat, last <= high, NEW d \in Nat \ {0},
         NEW n \in low..last
  PROVE  \E first : /\ first = find_first_odd_divisible(low, high, d)
                    /\ n \in first..last /\ (n - first) % d = 0 <=> n % d = 0
<1>1. PICK first \in Nat :
        /\ first = find_first_odd_divisible(low, high, d)
        /\ first <= high => low <= first /\ first % d = 0
        /\ \A k \in low..high : k % d = 0 => first <= k
  BY FirstMultiple
<1>2. n \in low..high /\ n \in Nat
  OBVIOUS
<1>3. ASSUME n \in first..last PROVE (n - first) % d = 0 <=> n % d = 0
  <2>1. first % d = 0 /\ first <= n
    BY <1>1, <1>2, <1>3
  <2> QED
    BY <1>1, <1>2, <2>1, MultiplesApart
<1>4. ASSUME n % d = 0 PROVE n \in first..last
  BY <1>1, <1>2, <1>4
<1>5. n \in first..last /\ (n - first) % d = 0 <=> n % d = 0
  BY <1>3, <1>4
<1> QED
  BY <1>1, <1>5

\* Half the numbers are even.
LEMMA EvenAndOdd ==
  ASSUME NEW n \in Nat
  PROVE  /\ n % 2 \in {0, 1}
         /\ n - (n % 2) \in Nat /\ (n - (n % 2)) % 2 = 0
         /\ n + (n % 2) \in Nat /\ (n + (n % 2)) % 2 = 0
OBVIOUS

\* No even number is prime but 2.
LEMMA EvenPrime == ASSUME NEW n \in Nat, IsPrime(n), n % 2 = 0 PROVE n = 2
BY DEF IsPrime

\* prime1.cpp prints the primes but for a 2 at the end, if it prints.
LEMMA PrintPrime ==
  ASSUME NEW start \in Nat, NEW end \in Nat, NEW max_end \in Nat,
         1 <= start, start <= end, end <= max_end,
         NEW outcomes, outcomes = print_prime(compute_all_primes(max_end), start, end)
  PROVE  /\ \A printed \in outcomes \ {Died} :
              printed = {p \in start..end : IsPrime(p) /\ ~(p = 2 /\ end = 2)}
         /\ end % 2 = 1 => outcomes = {{p \in start..end : IsPrime(p)}}
<1> DEFINE basic == compute_all_primes(max_end)
           low == start - (start % 2)
           high == end + (end % 2)
           MultiplesOf(prime) ==
             LET first == find_first_odd_divisible(low, high, prime)
             IN {cur \in first..end : (cur - first) % prime = 0} \ {prime}
           Composite == UNION {MultiplesOf(p) : p \in {q \in basic : q * q <= high}}
           shown == {cur \in low..(high - 1) :
                       cur \notin Composite /\ cur # 1 /\ cur >= start /\ cur <= end}
<1>1. /\ low \in Nat /\ low <= start /\ start <= low + 1
      /\ high \in {end, end + 1} /\ high % 2 = 0 /\ end <= high
  BY EvenAndOdd
<1>2. outcomes = IF high \notin Composite \/ (high - low) % Word # 0 THEN {shown}
                 ELSE IF high - low = 0 THEN {Died} ELSE {shown, Died}
  BY DEF print_prime
<1>3. \A p : p \in basic <=> p \in Nat /\ IsPrime(p) /\ p * p <= max_end
  BY BasicPrimes
<1>4. ASSUME NEW n \in low..end, NEW p \in basic
      PROVE  n \in MultiplesOf(p) <=> n % p = 0 /\ n # p
  <2>1. p \in Nat \ {0}
    BY <1>3 DEF IsPrime
  <2>2. low \in Nat /\ high \in Nat /\ end <= high
    BY <1>1
  <2> HIDE DEF low, high, shown, Composite
  <2>3. PICK first : /\ first = find_first_odd_divisible(low, high, p)
                     /\ n \in first..end /\ (n - first) % p = 0 <=> n % p = 0
    BY <2>1, <2>2, MultiplesAre
  <2> QED
    BY <2>3
<1>5. ASSUME high = end + 1 PROVE high \notin Composite
  BY <1>1, <1>5
<1> HIDE DEF basic, low, high, MultiplesOf
<1>6. ASSUME NEW n \in low..end, n >= 2
      PROVE  n \in Composite <=> ~IsPrime(n)
  <2>1. n \in Nat
    BY <1>1
  <2>2. ASSUME n \in Composite PROVE ~IsPrime(n)
    <3>1. PICK p \in basic : n \in MultiplesOf(p)
      BY <2>2
    <3>2. n % p = 0 /\ n # p
      BY <1>4, <3>1
    <3>3. p \in Nat /\ p > 1
      BY <1>3 DEF IsPrime
    <3>4. p <= n
      BY <1>6, <2>1, <3>2, <3>3, DivisorIsLess
    <3>5. p \in 2..n - 1
      BY <2>1, <3>2, <3>3, <3>4
    <3> QED
      BY <3>2, <3>5 DEF IsPrime
  <2>3. ASSUME ~IsPrime(n) PROVE n \in Composite
    <3>1. PICK d \in 2..n : n % d = 0 /\ IsPrime(d) /\ d < n /\ d * d <= n
      BY <1>6, <2>1, <2>3, LeastDivisor
    <3>2. d \in Nat /\ d * d <= max_end /\ d * d <= high /\ n # d
      BY <1>1, <2>1, <3>1
    <3>3. d \in basic
      BY <1>3, <3>1, <3>2
    <3>4. n \in MultiplesOf(d)
      BY <1>4, <3>1, <3>2, <3>3
    <3> QED
      BY <3>2, <3>3, <3>4
  <2> QED
    BY <2>2, <2>3
<1> HIDE DEF Composite
<1>7. ASSUME NEW n
      PROVE  (n \in low..(high - 1) /\ n \notin Composite /\ n # 1 /\ n >= start /\ n <= end)
               <=> (n \in start..end /\ IsPrime(n) /\ ~(n = 2 /\ end = 2))
  <2>1. ASSUME n \in low..(high - 1), n \notin Composite, n # 1, n >= start, n <= end
        PROVE  n \in start..end /\ IsPrime(n) /\ ~(n = 2 /\ end = 2)
    <3>1. n \in low..end /\ n >= 2 /\ n \in start..end /\ n < high
      BY <1>1, <2>1
    <3>2. ~(n = 2 /\ end = 2)
      BY <1>1, <3>1
    <3> QED
      BY <1>6, <2>1, <3>1, <3>2
  <2>2. ASSUME n \in start..end, IsPrime(n), ~(n = 2 /\ end = 2)
        PROVE  n \in low..(high - 1) /\ n \notin Composite /\ n # 1 /\ n >= start /\ n <= end
    <3>1. n \in Nat /\ n >= 2 /\ n \in low..end
      BY <1>1, <2>2 DEF IsPrime
    <3>2. n # high
      BY <1>1, <2>2, <3>1, EvenPrime
    <3>3. n \in low..(high - 1)
      BY <1>1, <3>1, <3>2
    <3> QED
      BY <1>6, <2>2, <3>1, <3>3
  <2> QED
    BY <2>1, <2>2
<1>8. shown = {p \in start..end : IsPrime(p) /\ ~(p = 2 /\ end = 2)}
  BY <1>7
<1> HIDE DEF shown
<1>9. ASSUME NEW printed \in outcomes \ {Died} PROVE printed = shown
  BY <1>2, <1>9
<1>10. ASSUME end % 2 = 1 PROVE outcomes = {{p \in start..end : IsPrime(p)}}
  <2>1. high = end + 1 /\ end # 2
    BY <1>10 DEF high
  <2>2. outcomes = {shown}
    BY <1>2, <1>5, <2>1
  <2>3. shown = {p \in start..end : IsPrime(p)}
    BY <1>8, <2>1
  <2> QED
    BY <2>2, <2>3
<1> QED
  BY <1>8, <1>9, <1>10

-----------------------------------------------------------------------------
(* Primes: the odd numbers of an interval *)

\* The places of notprimes are the odd numbers up to an even end, and but for
\* the end up to an odd one.
LEMMA OddNumbers ==
  ASSUME NEW start \in Nat, NEW end \in Nat, start <= end, NEW n
  PROVE  n \in {start - (start % 2) + 2 * i - 1 : i \in 1..(end - (start - (start % 2))) \div 2}
           <=> n \in Nat /\ n % 2 = 1 /\ start <= n /\ n < end - (end % 2)
<1> DEFINE low == start - (start % 2)
<1>1. PICK a \in Nat : low = 2 * a /\ low <= start /\ start <= low + 1
  <2>1. low \in Nat /\ low % 2 = 0 /\ low <= start /\ start <= low + 1
    BY EvenAndOdd
  <2>2. PICK a \in Nat : low = a * 2
    BY <2>1, DividesIs
  <2> QED
    BY <2>1, <2>2
<1>2. PICK b \in Nat : end - (end % 2) = 2 * b /\ 2 * b <= end /\ end <= 2 * b + 1
  <2>1. PICK high \in Nat : high = end - (end % 2) /\ high % 2 = 0 /\ high <= end /\ end <= high + 1
    BY EvenAndOdd
  <2>2. PICK b \in Nat : high = b * 2
    BY <2>1, DividesIs
  <2> QED
    BY <2>1, <2>2
<1> HIDE DEF low
<1>3. (end - low) \div 2 = b - a /\ a <= b
  BY <1>1, <1>2
<1>4. ASSUME NEW i \in 1..b - a, n = low + 2 * i - 1
      PROVE  n \in Nat /\ n % 2 = 1 /\ start <= n /\ n < 2 * b
  BY <1>1, <1>4
<1>5. ASSUME n \in Nat, n % 2 = 1, start <= n, n < 2 * b
      PROVE  \E i \in 1..b - a : n = low + 2 * i - 1
  <2>1. PICK c \in Nat : n = 2 * c + 1
    <3>1. n = 2 * (n \div 2) + 1 /\ n \div 2 \in Nat
      BY <1>5
    <3> QED
      BY <3>1
  <2>2. c + 1 - a \in 1..b - a
    BY <1>1, <1>5, <2>1
  <2>3. n = low + 2 * (c + 1 - a) - 1
    BY <1>1, <2>1
  <2> QED
    BY <2>2, <2>3
<1>6. n \in {low + 2 * i - 1 : i \in 1..(end - low) \div 2}
        <=> n \in Nat /\ n % 2 = 1 /\ start <= n /\ n < end - (end % 2)
  BY <1>2, <1>3, <1>4, <1>5
<1> QED
  BY <1>6 DEF low

\* prime2.cpp prints the primes up to an even end.
LEMMA PrintPrime2 ==
  ASSUME NEW start \in Nat, NEW end \in Nat, 1 <= start, start <= end, end % 2 = 0
  PROVE  print_prime2(start, end) = {p \in start..end : IsPrime(p)}
<1> DEFINE primes == {p \in start..end : IsPrime(p)}
           two == IF start <= 2 THEN {2} ELSE {}
           low == start - (start % 2)
           divisors == {s \in 3..Root(end) : s % 2 = 1 /\ (s = 3 \/ s % 3 # 0) /\ (s = 5 \/ s % 5 # 0)
                                               /\ (s = 7 \/ s % 7 # 0)}
           numbers == {low + 2 * i - 1 : i \in 1..(end - low) \div 2}
           notprimes == {n \in numbers : \E s \in divisors : n # s /\ n % s = 0}
<1>1. print_prime2(start, end) = (numbers \ (notprimes \cup {1})) \cup two
  BY DEF print_prime2
<1>2. ASSUME NEW n
      PROVE  n \in numbers <=> n \in Nat /\ n % 2 = 1 /\ start <= n /\ n < end - (end % 2)
  BY OddNumbers
<1>3. Root(end) \in Nat /\ \A r \in Nat : r <= Root(end) <=> r * r <= end
  BY RootIs
<1>4. ASSUME NEW d \in Nat, IsPrime(d), d # 2, d * d <= end PROVE d \in divisors
  <2>1. d >= 3 /\ d <= Root(end)
    BY <1>3, <1>4 DEF IsPrime
  <2>2. \A q \in {2, 3, 5, 7} : d # q /\ d % q = 0 => q <= d
    BY <1>4, DivisorIsLess DEF IsPrime
  <2>3. \A q \in {2, 3, 5, 7} : d # q => d % q # 0
    BY <1>4, <2>2 DEF IsPrime
  <2>4. d % 2 = 1
    BY <1>4, <2>3
  <2> QED
    BY <1>3, <2>1, <2>3, <2>4
<1>5. ASSUME NEW d \in divisors PROVE d \in Nat /\ d >= 3 /\ d <= Root(end)
  BY <1>3, <1>5
<1> HIDE DEF numbers, divisors
<1>6. ASSUME NEW n \in numbers, n # 1
      PROVE  n \in notprimes <=> ~IsPrime(n)
  <2>1. n \in Nat /\ n >= 2 /\ n % 2 = 1 /\ n <= end
    BY <1>2, <1>6
  <2>2. ASSUME n \in notprimes PROVE ~IsPrime(n)
    <3>1. PICK s \in divisors : n # s /\ n % s = 0
      BY <2>2
    <3>2. s \in Nat /\ s >= 3 /\ s <= n
      BY <1>5, <2>1, <3>1, DivisorIsLess
    <3>3. s \in 2..n - 1
      BY <2>1, <3>1, <3>2
    <3> QED
      BY <3>1, <3>3 DEF IsPrime
  <2>3. ASSUME ~IsPrime(n) PROVE n \in notprimes
    <3>1. PICK d \in 2..n : n % d = 0 /\ IsPrime(d) /\ d < n /\ d * d <= n
      BY <2>1, <2>3, LeastDivisor
    <3>2. d \in Nat /\ d # 2 /\ d * d <= end /\ n # d
      BY <2>1, <3>1
    <3> QED
      BY <1>4, <1>6, <3>1, <3>2
  <2> QED
    BY <2>2, <2>3
<1> HIDE DEF notprimes
<1>7. ASSUME NEW n
      PROVE  n \in (numbers \ (notprimes \cup {1})) \cup two
               <=> (n \in primes /\ n < end - (end % 2)) \/ n \in two
  <2>1. ASSUME n \in numbers, n \notin notprimes, n # 1
        PROVE  n \in primes /\ n < end - (end % 2)
    BY <1>2, <1>6, <2>1
  <2>2. ASSUME n \in primes, n < end - (end % 2), n \notin two
        PROVE  n \in numbers /\ n \notin notprimes /\ n # 1
    <3>1. n \in Nat /\ IsPrime(n) /\ start <= n /\ n # 1
      BY <2>2 DEF IsPrime
    <3>2. n # 2
      BY <2>2, <3>1
    <3>3. n % 2 = 1
      BY <3>1, <3>2, EvenPrime, EvenAndOdd
    <3> QED
      BY <1>2, <1>6, <2>2, <3>1, <3>3
  <2> QED
    BY <2>1, <2>2
<1>8. IsPrime(2)
  BY DEF IsPrime
<1>9. two \subseteq primes
  BY <1>8
<1>10. ASSUME NEW n \in primes, n = end PROVE n \in two
  BY <1>10, EvenPrime
<1>11. \A n \in primes : n \in Nat /\ n <= end /\ (n < end - (end % 2) <=> n # end)
  OBVIOUS
<1> QED
  BY <1>1, <1>7, <1>9, <1>10, <1>11
-----------------------------------------------------------------------------
(* Primes: the sieve of all numbers *)

\* What has been looked at after so many rounds, and what was taken out then.
Sieves(k) == {2, 3, 5, 7} \cup {2 * i + 7 : i \in 1..k}
TakenOut(end, k) == {0, 1} \cup {m \in 2..end : \E d \in Sieves(k) : m # d /\ m % d = 0}

LEMMA SieveIsLoop ==
  ASSUME NEW base, NEW end, NEW n \in Nat
  PROVE  FoldLeft(LAMBDA a, s : SetAllMultiples(a, s, end), base, [i \in 1..n |-> 2 * i + 7])
           = Looped(base, Sieving(end), n)
<1> DEFINE seq == [i \in 1..n |-> 2 * i + 7]
           Solves(g) == g = [S \in SUBSET DOMAIN seq |->
                               IF S = {} THEN base
                               ELSE SetAllMultiples(g[S \ {Max(S)}], seq[Max(S)], end)]
<1>1. FoldLeft(LAMBDA a, s : SetAllMultiples(a, s, end), base, seq)
        = (CHOOSE g : Solves(g))[DOMAIN seq]
  BY DEF FoldLeft, MapThenFoldSet
<1>2. DOMAIN seq = 1..n
  OBVIOUS
<1>3. ASSUME NEW S \in SUBSET (1..n), S # {}
      PROVE  seq[Max(S)] = 2 * Max(S) + 7
  <2>1. S \in SUBSET (0..n)
    OBVIOUS
  <2>2. Max(S) \in S
    BY <1>3, <2>1, LargestPosition
  <2>3. PICK m \in 1..n : m = Max(S)
    BY <2>2
  <2> QED
    BY <2>3
<1> HIDE DEF seq
<1>4. \A g : Solves(g) <=> IsLoop(base, Sieving(end), n, g)
  BY <1>2, <1>3 DEF IsLoop, LoopWith, Round, Sieving
<1> HIDE DEF Solves
<1>5. (CHOOSE g : Solves(g)) = CHOOSE g : IsLoop(base, Sieving(end), n, g)
  BY <1>4
<1> QED
  BY <1>1, <1>2, <1>5 DEF Looped, seq

\* A number that was taken out is passed over: its multiples are out, too.
LEMMA SieveRound ==
  ASSUME NEW end \in Nat, NEW k \in Nat
  PROVE  SetAllMultiples(TakenOut(end, k), 2 * k + 9, end) = TakenOut(end, k + 1)
<1> DEFINE s == 2 * k + 9
<1>1. Sieves(k + 1) = Sieves(k) \cup {s}
  <2>1. 1..(k + 1) = (1..k) \cup {k + 1} /\ 2 * (k + 1) + 7 = s
    OBVIOUS
  <2> QED
    BY <2>1 DEF Sieves
<1>2. s \in Nat /\ s >= 9 /\ \A d \in Sieves(k) : d \in Nat /\ d >= 2 /\ d < s
  BY DEF Sieves
<1> HIDE DEF s
<1>3. ASSUME NEW m \in Nat, m >= 2, m % s = 0, m # s PROVE m >= s + s
  <2>1. PICK j \in Nat : m = j * s
    BY <1>2, <1>3, DividesIs
  <2>2. j >= 2
    <3>1. j # 0 /\ j # 1
      BY <1>2, <1>3, <2>1
    <3> QED
      BY <3>1
  <2>3. j * s >= 2 * s
    BY <1>2, <2>2
  <2> QED
    BY <1>2, <2>1, <2>3
<1>4. CASE s \in TakenOut(end, k)
  <2>1. PICK d \in Sieves(k) : s # d /\ s % d = 0
    BY <1>2, <1>4 DEF TakenOut
  <2>2. ASSUME NEW m \in 2..end, m # s, m % s = 0
        PROVE  m # d /\ m % d = 0
    <3>1. m \in Nat /\ m >= s + s /\ d \in Nat \ {0} /\ s \in Nat \ {0} /\ d < s
      BY <1>2, <1>3, <2>2
    <3>2. m % d = 0
      BY <2>1, <2>2, <3>1, DividesOn
    <3> QED
      BY <3>1, <3>2
  <2>3. TakenOut(end, k + 1) = TakenOut(end, k)
    BY <1>1, <2>2 DEF TakenOut
  <2> QED
    BY <1>4, <2>3 DEF SetAllMultiples, s
<1>5. CASE s \notin TakenOut(end, k)
  <2>1. {m \in s + s..end : m % s = 0} = {m \in 2..end : m # s /\ m % s = 0}
    <3>1. ASSUME NEW m \in s + s..end PROVE m \in 2..end /\ m # s
      BY <1>2
    <3>2. ASSUME NEW m \in 2..end, m # s, m % s = 0 PROVE m \in s + s..end
      BY <1>2, <1>3, <3>2
    <3> QED
      BY <3>1, <3>2
  <2>2. TakenOut(end, k + 1) = TakenOut(end, k) \cup {m \in 2..end : m # s /\ m % s = 0}
    BY <1>1 DEF TakenOut
  <2> QED
    BY <1>5, <2>1, <2>2 DEF SetAllMultiples, s
<1> QED
  BY <1>4, <1>5

LEMMA SieveLoop ==
  ASSUME NEW end \in Nat, NEW n \in Nat
  PROVE  Looped(NotPrimesAtFirst(end), Sieving(end), n) = TakenOut(end, n)
<1> DEFINE base == NotPrimesAtFirst(end)
           Right == {k \in Nat : Looped(base, Sieving(end), k) = TakenOut(end, k)}
<1>1. base = TakenOut(end, 0)
  <2>1. Sieves(0) = {2, 3, 5, 7}
    BY DEF Sieves
  <2> QED
    BY <2>1 DEF TakenOut, NotPrimesAtFirst
<1> HIDE DEF base
<1>2. 0 \in Right
  <2>1. Looped(base, Sieving(end), 0) = base
    BY LoopStep
  <2> QED
    BY <1>1, <2>1
<1>3. ASSUME NEW k \in Nat, k \in Right PROVE k + 1 \in Right
  <2>1. Looped(base, Sieving(end), k + 1) = Round(Sieving(end), Looped(base, Sieving(end), k), k + 1)
    BY LoopStep
  <2>2. Looped(base, Sieving(end), k) = TakenOut(end, k)
    BY <1>3
  <2>3. 2 * (k + 1) + 7 = 2 * k + 9
    OBVIOUS
  <2>4. Round(Sieving(end), TakenOut(end, k), k + 1)
          = SetAllMultiples(TakenOut(end, k), 2 * k + 9, end)
    BY <2>3 DEF Round, Sieving
  <2>5. Looped(base, Sieving(end), k + 1) = TakenOut(end, k + 1)
    BY <2>1, <2>2, <2>4, SieveRound
  <2> QED
    BY <2>5
<1> HIDE DEF Right
<1>4. n \in Right
  BY <1>2, <1>3, SetInduction
<1> QED
  BY <1>4 DEF Right, base

\* prime1-old.cpp prints the primes.
LEMMA PrintPrimeOld ==
  ASSUME NEW start \in Nat, NEW end \in Nat, 1 <= start, start <= end
  PROVE  print_prime_old(start, end) = {p \in start..end : IsPrime(p)}
<1>1. PICK n \in Nat : /\ 1..((end - 7) \div 2) = 1..n
                       /\ \A d \in Nat : 2 * d + 7 < end => d <= n
                       /\ 2 * n + 7 <= end \/ n = 0
  <2> DEFINE q == (end - 7) \div 2
  <2>1. q \in Int /\ 2 * q <= end - 7 /\ end - 7 <= 2 * q + 1
    OBVIOUS
  <2> HIDE DEF q
  <2>2. CASE q >= 0
    <3>1. q \in Nat /\ 1..q = 1..q /\ (\A d \in Nat : 2 * d + 7 < end => d <= q) /\ 2 * q + 7 <= end
      BY <2>1, <2>2
    <3> QED
      BY <3>1 DEF q
  <2>3. CASE q < 0
    <3>1. 1..q = 1..0 /\ (\A d \in Nat : 2 * d + 7 < end => d <= 0) /\ 0 \in Nat
      BY <2>1, <2>3
    <3> QED
      BY <3>1 DEF q
  <2> QED
    BY <2>1, <2>2, <2>3
<1>2. print_prime_old(start, end) = start..end \ TakenOut(end, n)
  <2> DEFINE Taken(s) == FoldLeft(LAMBDA a, e : SetAllMultiples(a, e, end), NotPrimesAtFirst(end), s)
  <2>1. print_prime_old(start, end) = start..end \ Taken([i \in 1..((end - 7) \div 2) |-> 2 * i + 7])
    BY DEF print_prime_old
  <2>2. Taken([i \in 1..n |-> 2 * i + 7]) = TakenOut(end, n)
    BY SieveIsLoop, SieveLoop
  <2> HIDE DEF Taken
  <2> QED
    BY <1>1, <2>1, <2>2
<1>3. ASSUME NEW m \in start..end
      PROVE  m \in TakenOut(end, n) <=> ~IsPrime(m)
  <2>1. m \in Nat /\ m >= 1 /\ m <= end
    OBVIOUS
  <2>2. CASE m = 1
    BY <2>2 DEF TakenOut, IsPrime
  <2>3. CASE m >= 2
    <3>1. ASSUME m \in TakenOut(end, n) PROVE ~IsPrime(m)
      <4>1. PICK d \in Sieves(n) : m # d /\ m % d = 0
        BY <2>3, <3>1 DEF TakenOut
      <4>2. d \in Nat /\ d >= 2
        BY DEF Sieves
      <4>3. d <= m
        BY <2>1, <4>1, <4>2, DivisorIsLess
      <4>4. d \in 2..m - 1
        BY <2>1, <4>1, <4>2, <4>3
      <4> QED
        BY <4>1, <4>4 DEF IsPrime
    <3>2. ASSUME ~IsPrime(m) PROVE m \in TakenOut(end, n)
      <4>1. PICK d \in 2..m : m % d = 0 /\ IsPrime(d) /\ d < m
        BY <2>1, <2>3, <3>2, LeastDivisor
      <4>2. d \in Nat /\ (d % 2 = 0 => d = 2)
        BY <4>1, EvenPrime
      <4>3. CASE d < 9
        <5>1. d \in {2, 3, 5, 7}
          BY <4>1, <4>2, <4>3
        <5> QED
          BY <2>1, <2>3, <4>1, <5>1 DEF TakenOut, Sieves
      <4>4. CASE d >= 9
        <5>1. d % 2 = 1
          BY <4>2, <4>4
        <5>2. PICK i \in Nat : d = 2 * i + 7 /\ i >= 1
          <6>1. d = 2 * ((d - 7) \div 2) + 7 /\ (d - 7) \div 2 \in Nat /\ (d - 7) \div 2 >= 1
            BY <4>2, <4>4, <5>1
          <6> QED
            BY <6>1
        <5>3. i \in 1..n
          BY <1>1, <2>1, <4>1, <5>2
        <5>4. d \in Sieves(n)
          BY <5>2, <5>3 DEF Sieves
        <5> QED
          BY <2>1, <2>3, <4>1, <5>4 DEF TakenOut
      <4> QED
        BY <4>2, <4>3, <4>4
    <3> QED
      BY <3>1, <3>2
  <2> QED
    BY <2>1, <2>2, <2>3
<1> QED
  BY <1>2, <1>3

\* PrintsPrimes holds of every interval, and every greater end of another:
\* prime1-old.cpp prints the primes, prime1.cpp nothing else and, for an odd end,
\* all of them, prime2.cpp all of them for an even end.
THEOREM PrimesOfEveryInterval ==
  \A start, end, max_end \in Nat :
    1 <= start /\ start <= end /\ end <= max_end => PrintsPrimes(start, end, max_end)
<1> SUFFICES ASSUME NEW start \in Nat, NEW end \in Nat, NEW max_end \in Nat,
                    1 <= start, start <= end, end <= max_end
             PROVE  PrintsPrimes(start, end, max_end)
  OBVIOUS
<1> DEFINE primes == {p \in start..end : IsPrime(p)}
           outcomes == print_prime(compute_all_primes(max_end), start, end)
<1>1. /\ \A printed \in outcomes \ {Died} :
           printed = {p \in start..end : IsPrime(p) /\ ~(p = 2 /\ end = 2)}
      /\ end % 2 = 1 => outcomes = {primes}
  BY PrintPrime
<1>2. print_prime_old(start, end) = primes
  BY PrintPrimeOld
<1>3. end % 2 = 0 => print_prime2(start, end) = primes
  BY PrintPrime2
<1>4. {p \in start..end : IsPrime(p) /\ ~(p = 2 /\ end = 2)} \subseteq primes
  OBVIOUS
<1> HIDE DEF outcomes
<1>5. \A printed \in outcomes \ {Died} : printed \subseteq primes
  BY <1>1, <1>4
<1> QED
  BY <1>1, <1>2, <1>3, <1>5 DEF PrintsPrimes, outcomes
=============================================================================
