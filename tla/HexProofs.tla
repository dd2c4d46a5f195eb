------------------------------ MODULE HexProofs ------------------------------
(***************************************************************************)
(* Theorems about Hex, for boards of every size: the search for a winner   *)
(* misses no chain, and what it leaves is one.                             *)
(*                                                                         *)
(* The argument is that of a depth-first search.  The path is the calls    *)
(* that have not returned; a hex that is marked and not in the path has    *)
(* touched only marked ones; so when a start has failed, the marked hexes  *)
(* are a closed set without one at the far edge, and no chain crosses it.  *)
(***************************************************************************)
EXTENDS Hex, FiniteSetTheorems, WellFoundedInduction, TLAPS

\* A closed set holds the hex, and none at the far edge.
Hopeless(player, h) ==
  \E S \in SUBSET Owned(player) :
    h \in S /\ Closed(player, S) /\ \A g \in S : ~AtFarEdge(g, player)

\* Every hex that is not free has been played once.
MovesCounted == moves_played = Cardinality({h \in Hexes : board[h] # "kFree"})

\* Between calls nothing is left of a search but a winner's path.
IdleIsClean ==
  searching = "kFree" =>
    calls = <<>> /\ c = 0 /\ (winner = "kFree" => winner_path = <<>>)

\* The path is the hexes of the calls that have not returned.
PathIsCalls == searching # "kFree" => winner = "kFree" /\ winner_path = calls

\* The starts before this one have failed.
StartsFailed ==
  searching # "kFree" =>
    \A i \in 0..c - 1 :
      board[StartOf(searching, i)] = searching => Hopeless(searching, StartOf(searching, i))

\* What the search has marked: hexes of the player, none at the far edge.  The
\* path is a chain of them; and whoever has left the path touches marked ones.
Marked ==
  calls # <<>> =>
    /\ searching # "kFree" /\ c < nrows
    /\ Chain(calls, searching) /\ calls[1] = StartOf(searching, c)
    /\ ToSet(calls) \subseteq evaluated
    /\ evaluated \subseteq Owned(searching)
    /\ \A g \in evaluated : ~AtFarEdge(g, searching)
    /\ \A g \in evaluated \ ToSet(calls), h \in Owned(searching) :
         Touch(g, h) => h \in evaluated

WonByChain ==
  winner # "kFree" => Chain(winner_path, winner) /\ AtFarEdge(Last(winner_path), winner)

\* Without a winner nobody has a chain but the one who is searched for.
OthersAreApart ==
  winner = "kFree" => \A player \in Players \ {searching} : ~Connected(player)

IInv ==
  /\ TypeOK /\ MovesCounted /\ IdleIsClean /\ PathIsCalls /\ StartsFailed /\ Marked
  /\ WonByChain /\ OthersAreApart
-----------------------------------------------------------------------------
(* The board *)

LEMMA Numbers == nrows \in Nat /\ nrows >= 2
BY HexAssumption

\* Every hex is a pair of its column and its row.
LEMMA HexIs ==
  ASSUME NEW h \in Hexes
  PROVE  h[1] \in 0..nrows - 1 /\ h[2] \in 0..nrows - 1 /\ h = <<h[1], h[2]>>
BY Numbers DEF Hexes

\* A start is on the board, and not yet at the far edge.
LEMMA StartFacts ==
  ASSUME NEW player \in Players, NEW i \in 0..nrows - 1
  PROVE  /\ StartOf(player, i) \in Hexes /\ StartOf(player, i) \in NearEdge(player)
         /\ ~AtFarEdge(StartOf(player, i), player)
BY Numbers DEF StartOf, NearEdge, AtFarEdge, Hexes, Players

\* The loop over kDirections meets just the hexes that share a side.
LEMMA NeighborsTouch ==
  ASSUME NEW g \in Hexes, NEW h \in Hexes
  PROVE  Touch(g, h) <=> \E i \in DOMAIN kDirections : h = Neighbor(g, kDirections[i])
<1> USE DEF kDirections, Neighbor
<1>1. /\ g[1] \in Int /\ g[2] \in Int /\ h[1] \in Int /\ h[2] \in Int
      /\ g = <<g[1], g[2]>> /\ h = <<h[1], h[2]>>
  BY HexIs, Numbers
<1>2. DOMAIN kDirections = 1..6
  OBVIOUS
<1>3. ASSUME NEW i \in 1..6, h = Neighbor(g, kDirections[i])
      PROVE  Touch(g, h)
  <2>1. i = 1 \/ i = 2 \/ i = 3 \/ i = 4 \/ i = 5 \/ i = 6
    OBVIOUS
  <2>2. /\ kDirections[1] = <<1, 0>> /\ kDirections[2] = <<1, -1>> /\ kDirections[3] = <<0, -1>>
        /\ kDirections[4] = <<-1, 0>> /\ kDirections[5] = <<-1, 1>> /\ kDirections[6] = <<0, 1>>
    OBVIOUS
  <2> HIDE DEF kDirections
  <2> QED
    BY <1>1, <1>3, <2>1, <2>2 DEF Touch
<1>4. ASSUME Touch(g, h)
      PROVE  \E i \in 1..6 : h = Neighbor(g, kDirections[i])
  <2>1. \/ h[1] = g[1] + 1 /\ h[2] = g[2] + 0
        \/ h[1] = g[1] + 1 /\ h[2] = g[2] + (-1)
        \/ h[1] = g[1] + 0 /\ h[2] = g[2] + (-1)
        \/ h[1] = g[1] + (-1) /\ h[2] = g[2] + 0
        \/ h[1] = g[1] + (-1) /\ h[2] = g[2] + 1
        \/ h[1] = g[1] + 0 /\ h[2] = g[2] + 1
    BY <1>1, <1>4 DEF Touch
  <2>2. /\ kDirections[1] = <<1, 0>> /\ kDirections[2] = <<1, -1>> /\ kDirections[3] = <<0, -1>>
        /\ kDirections[4] = <<-1, 0>> /\ kDirections[5] = <<-1, 1>> /\ kDirections[6] = <<0, 1>>
    OBVIOUS
  <2> HIDE DEF kDirections
  <2>3. \/ h = Neighbor(g, kDirections[1]) \/ h = Neighbor(g, kDirections[2])
        \/ h = Neighbor(g, kDirections[3]) \/ h = Neighbor(g, kDirections[4])
        \/ h = Neighbor(g, kDirections[5]) \/ h = Neighbor(g, kDirections[6])
    BY <1>1, <2>1, <2>2
  <2> QED
    BY <2>3
<1> QED
  BY <1>2, <1>3, <1>4

\* Hexes touch each other.
LEMMA TouchIsMutual ==
  ASSUME NEW g \in Hexes, NEW h \in Hexes, Touch(g, h)
  PROVE  Touch(h, g)
BY HexIs, Numbers DEF Touch
-----------------------------------------------------------------------------
(* Chains *)

\* A set that holds the first hex of a chain and is closed holds the last.
LEMMA ChainConnects ==
  ASSUME NEW player \in Players, NEW p \in Seq(Hexes),
         Chain(p, player), AtFarEdge(Last(p), player)
  PROVE  Connected(player)
<1> SUFFICES ASSUME NEW S \in SUBSET Owned(player),
                    Owned(player) \cap NearEdge(player) \subseteq S, Closed(player, S)
             PROVE  \E h \in S : AtFarEdge(h, player)
  BY DEF Connected
<1> DEFINE Outside == {i \in 1..Len(p) : p[i] \notin S}
<1>1. /\ Len(p) \in Nat /\ Len(p) >= 1 /\ DOMAIN p = 1..Len(p)
      /\ \A i \in 1..Len(p) : p[i] \in Owned(player)
  BY DEF Chain, ToSet
<1>2. p[1] \in S
  BY <1>1 DEF Chain
<1>3. ASSUME NEW i \in 1..Len(p) - 1, p[i] \in S
      PROVE  p[i + 1] \in S
  <2>1. Touch(p[i], p[i + 1]) /\ i + 1 \in 1..Len(p)
    BY <1>1 DEF Chain
  <2> QED
    BY <1>1, <1>3, <2>1 DEF Closed
<1>4. Outside = {}
  <2> SUFFICES ASSUME Outside # {} PROVE FALSE
    OBVIOUS
  <2>1. PICK m \in Outside : \A n \in Outside : m <= n
    <3>1. Outside \in SUBSET Nat
      BY <1>1
    <3>2. \E m \in Outside : \A n \in Outside : <<n, m>> \notin OpToRel(<, Nat)
      BY <3>1, NatLessThanWellFounded, WFMin
    <3>3. \A m, n \in Nat : <<n, m>> \notin OpToRel(<, Nat) => m <= n
      BY DEF OpToRel
    <3> QED
      BY <3>1, <3>2, <3>3
  <2>2. m # 1 /\ m - 1 \in 1..Len(p) - 1 /\ (m - 1) + 1 = m
    BY <1>1, <1>2
  <2>3. m - 1 \notin Outside
    BY <2>1, <2>2, <1>1
  <2> QED
    BY <1>1, <1>3, <2>2, <2>3
<1> QED
  BY <1>1, <1>4 DEF Last

\* A chain goes on to a hex that its last one touches.
LEMMA ChainExtends ==
  ASSUME NEW player, NEW p \in Seq(Hexes), Chain(p, player),
         NEW h \in Owned(player), Touch(Last(p), h), h \notin ToSet(p)
  PROVE  /\ Chain(Append(p, h), player)
         /\ Append(p, h)[1] = p[1] /\ ToSet(Append(p, h)) = ToSet(p) \cup {h}
         /\ Append(p, h) \in Seq(Hexes) /\ Last(Append(p, h)) = h
<1> DEFINE n == Len(p)
           q == Append(p, h)
<1>1. /\ n \in Nat /\ n >= 1 /\ DOMAIN p = 1..n /\ h \in Hexes
      /\ \A i \in 1..n : p[i] \in Owned(player)
  BY DEF Chain, ToSet, Owned
<1>2. /\ q \in Seq(Hexes) /\ Len(q) = n + 1 /\ DOMAIN q = 1..(n + 1)
      /\ q[n + 1] = h /\ \A i \in 1..n : q[i] = p[i]
  BY <1>1
<1>3. Touch(p[n], h) /\ h \notin {p[i] : i \in 1..n}
  BY <1>1 DEF Last, ToSet
<1>4. \A i \in 1..n - 1 : Touch(p[i], p[i + 1])
  BY DEF Chain
<1>5. \A i, j \in 1..n : p[i] = p[j] => i = j
  BY <1>1 DEF Chain, IsInjective
<1> HIDE DEF q, n
<1>6. ToSet(q) = ToSet(p) \cup {h}
  BY <1>1, <1>2 DEF ToSet
<1>7. ToSet(q) \subseteq Owned(player)
  BY <1>6 DEF Chain
<1>8. IsInjective(q)
  <2> SUFFICES ASSUME NEW i \in 1..(n + 1), NEW j \in 1..(n + 1), q[i] = q[j]
               PROVE  i = j
    BY <1>2 DEF IsInjective
  <2>1. (i \in 1..n \/ i = n + 1) /\ (j \in 1..n \/ j = n + 1)
    BY <1>1
  <2> QED
    BY <1>2, <1>3, <1>5, <2>1
<1>9. \A i \in 1..Len(q) - 1 : Touch(q[i], q[i + 1])
  <2> SUFFICES ASSUME NEW i \in 1..n
               PROVE  Touch(q[i], q[i + 1])
    BY <1>1, <1>2
  <2>1. CASE i = n
    BY <1>1, <1>2, <1>3, <2>1
  <2>2. CASE i # n
    <3>1. i \in 1..n - 1 /\ i + 1 \in 1..n
      BY <1>1, <2>2
    <3> QED
      BY <1>2, <1>4, <3>1
  <2> QED
    BY <2>1, <2>2
<1>10. q[1] = p[1] /\ q # <<>> /\ Last(q) = h
  BY <1>1, <1>2 DEF Last
<1> QED
  BY <1>2, <1>6, <1>7, <1>8, <1>9, <1>10 DEF Chain, q

\* A chain without its last hex is one still.
LEMMA ChainShortens ==
  ASSUME NEW player, NEW p \in Seq(Hexes), Chain(p, player), Len(p) # 1
  PROVE  /\ Chain(Front(p), player)
         /\ Front(p)[1] = p[1] /\ ToSet(Front(p)) = ToSet(p) \ {Last(p)}
         /\ Front(p) \in Seq(Hexes)
<1> DEFINE n == Len(p)
           q == Front(p)
<1>1. /\ n \in Nat /\ n >= 2 /\ DOMAIN p = 1..n
      /\ \A i \in 1..n : p[i] \in Owned(player)
  <2>1. n \in Nat /\ n >= 1 /\ DOMAIN p = 1..n
    BY DEF Chain
  <2> QED
    BY <2>1 DEF Chain, ToSet
<1>2. /\ q \in Seq(Hexes) /\ Len(q) = n - 1 /\ DOMAIN q = 1..(n - 1)
      /\ \A i \in 1..(n - 1) : q[i] = p[i]
  BY <1>1 DEF Front
<1>3. \A i \in 1..n - 1 : Touch(p[i], p[i + 1])
  BY DEF Chain
<1>4. \A i, j \in 1..n : p[i] = p[j] => i = j
  BY <1>1 DEF Chain, IsInjective
<1> HIDE DEF q
<1>5. ToSet(q) = ToSet(p) \ {Last(p)}
  <2> HIDE DEF n
  <2>1. \A i \in 1..n : i # n => i \in 1..(n - 1)
    BY <1>1
  <2>2. \A i \in 1..(n - 1) : i \in 1..n /\ i # n
    BY <1>1
  <2>3. n \in 1..n
    BY <1>1
  <2>4. ToSet(q) = {p[i] : i \in 1..(n - 1)} /\ ToSet(p) = {p[i] : i \in 1..n} /\ Last(p) = p[n]
    BY <1>1, <1>2 DEF ToSet, Last, n
  <2> QED
    BY <1>4, <2>1, <2>2, <2>3, <2>4
<1>6. ToSet(q) \subseteq Owned(player)
  BY <1>5 DEF Chain
<1>7. IsInjective(q)
  BY <1>1, <1>2, <1>4 DEF IsInjective
<1>8. \A i \in 1..Len(q) - 1 : Touch(q[i], q[i + 1])
  <2> SUFFICES ASSUME NEW i \in 1..n - 2
               PROVE  Touch(q[i], q[i + 1])
    BY <1>1, <1>2
  <2>1. i \in 1..n - 1 /\ i + 1 \in 1..n - 1
    BY <1>1
  <2> QED
    BY <1>2, <1>3, <2>1
<1>9. q[1] = p[1] /\ q # <<>>
  BY <1>1, <1>2
<1> QED
  BY <1>2, <1>5, <1>6, <1>7, <1>8, <1>9 DEF Chain, q

\* A start alone is a chain.
LEMMA ChainBegins ==
  ASSUME NEW player, NEW h \in Owned(player) \cap NearEdge(player)
  PROVE  /\ Chain(<<h>>, player) /\ ToSet(<<h>>) = {h}
         /\ <<h>> \in Seq(Hexes)
BY DEF Chain, ToSet, IsInjective, Owned

\* When every start is in a closed set without a hex at the far edge, so are
\* all together: the player has no chain.
LEMMA AllStartsFailed ==
  ASSUME NEW player,
         \A i \in 0..nrows - 1 :
           board[StartOf(player, i)] = player => Hopeless(player, StartOf(player, i))
  PROVE  ~Connected(player)
<1> DEFINE Apart(S) == Closed(player, S) /\ \A g \in S : ~AtFarEdge(g, player)
           All == UNION {S \in SUBSET Owned(player) : Apart(S)}
<1>1. All \in SUBSET Owned(player) /\ Closed(player, All)
  BY DEF Closed
<1>2. \A g \in All : ~AtFarEdge(g, player)
  OBVIOUS
<1>3. Owned(player) \cap NearEdge(player) \subseteq All
  BY DEF NearEdge, Owned, Hopeless
<1> HIDE DEF All
<1> QED
  BY <1>1, <1>2, <1>3 DEF Connected

LEMMA HexesAreFinite == IsFiniteSet(Hexes) /\ Cardinality(Hexes) = moves_possible
<1> DEFINE side == 0..nrows - 1
<1>1. IsFiniteSet(side) /\ Cardinality(side) = nrows
  BY FS_Interval, Numbers
<1> HIDE DEF side
<1>2. IsFiniteSet(side \X side) /\ Cardinality(side \X side) = nrows * nrows
  <2>1. Cardinality(side \X side) = Cardinality(side) * Cardinality(side)
    BY <1>1, FS_Product
  <2> QED
    BY <1>1, <2>1, FS_Product
<1> QED
  BY <1>2 DEF Hexes, moves_possible, side
-----------------------------------------------------------------------------
(* The invariant *)

LEMMA InitIsClean == Init => IInv
<1> SUFFICES ASSUME Init PROVE IInv
  OBVIOUS
<1>1. TypeOK
  BY Numbers DEF Init, TypeOK, moves_possible
<1>2. {h \in Hexes : board[h] # "kFree"} = {}
  BY DEF Init
<1>3. MovesCounted
  BY <1>2, FS_EmptySet DEF MovesCounted, Init
<1>4. ASSUME NEW player \in Players
      PROVE  ~Connected(player)
  BY AllStartsFailed, StartFacts DEF Init, Players
<1> QED
  BY <1>1, <1>3, <1>4
  DEF Init, IInv, IdleIsClean, PathIsCalls, StartsFailed, Marked, WonByChain, OthersAreApart

\* A game that does not go on leaves who owns what, and what follows from it.
LEMMA SameGame ==
  ASSUME UNCHANGED game
  PROVE  /\ \A player : Owned(player)' = Owned(player)
         /\ \A player, S : Closed(player, S)' = Closed(player, S)
         /\ \A player : Connected(player)' = Connected(player)
         /\ \A player, h : Hopeless(player, h)' = Hopeless(player, h)
         /\ \A player, p : Chain(p, player)' = Chain(p, player)
         /\ MovesCounted' = MovesCounted
BY DEF game, Owned, Closed, Connected, Hopeless, Chain, MovesCounted

\* IsGameOver begins: nothing has been searched yet.
LEMMA AskKeeps ==
  ASSUME IInv, ~aborted, NEW player \in Players, AskIsGameOver(player)
  PROVE  IInv'
<1> USE DEF AskIsGameOver, IsGameOver
<1>1. UNCHANGED game
  OBVIOUS
<1>2. TypeOK'
  BY Numbers DEF IInv, TypeOK, IdleIsClean, game
<1>3. IdleIsClean' /\ PathIsCalls' /\ Marked'
  BY DEF IInv, IdleIsClean, PathIsCalls, Marked
<1>4. StartsFailed'
  BY DEF StartsFailed
<1>5. WonByChain'
  BY <1>1, SameGame DEF IInv, WonByChain
<1>6. OthersAreApart'
  BY <1>1, SameGame DEF IInv, OthersAreApart, Players
<1> QED
  BY <1>1, <1>2, <1>3, <1>4, <1>5, <1>6, SameGame DEF IInv

\* A move is counted, and gives no hex to the other player.
LEMMA PlayedKeeps ==
  ASSUME IInv, ~aborted, NEW player \in Players, NEW h \in Hexes, PlayerPlayed(h, player)
  PROVE  IInv'
<1> USE DEF PlayerPlayed, IsGameOver
<1> DEFINE played == {g \in Hexes : board[g] # "kFree"}
<1>1. board \in [Hexes -> Players \cup {"kFree"}] /\ player # "kFree"
  BY DEF IInv, TypeOK, Players
<1>2. /\ played' = played \cup {h} /\ h \notin played
      /\ \A other : Owned(other)' = IF other = player THEN Owned(other) \cup {h}
                                    ELSE Owned(other) \ {h}
  BY <1>1 DEF Owned
<1>3. \A other : other # "kFree" /\ other # player => Owned(other)' = Owned(other)
  BY <1>1, <1>2 DEF Owned
<1>4. IsFiniteSet(played) /\ Cardinality(played') = Cardinality(played) + 1
  BY <1>2, HexesAreFinite, FS_Subset, FS_AddElement
<1>5. MovesCounted'
  BY <1>4 DEF IInv, MovesCounted
<1>6. moves_played' \in 0..moves_possible
  <2>1. played' \subseteq Hexes
    BY <1>2
  <2>2. Cardinality(played') \in Nat /\ Cardinality(played') <= moves_possible
    BY <2>1, HexesAreFinite, FS_Subset, FS_CardinalityType
  <2>3. moves_possible \in Nat
    BY Numbers DEF moves_possible
  <2> QED
    BY <1>5, <2>2, <2>3 DEF MovesCounted
<1>7. TypeOK'
  BY <1>1, <1>6, Numbers DEF IInv, TypeOK, IdleIsClean
<1>8. IdleIsClean' /\ PathIsCalls' /\ Marked' /\ StartsFailed'
  BY DEF IInv, IdleIsClean, PathIsCalls, Marked, StartsFailed
<1>9. WonByChain'
  <2> SUFFICES ASSUME winner # "kFree"
               PROVE  Chain(winner_path, winner)' /\ AtFarEdge(Last(winner_path), winner)'
    BY DEF WonByChain
  <2>1. Owned(winner) \subseteq Owned(winner)'
    BY <1>2, <1>3
  <2> QED
    BY <2>1 DEF IInv, WonByChain, Chain
<1>10. OthersAreApart'
  <2> SUFFICES ASSUME winner = "kFree", NEW other \in Players, other # player
               PROVE  ~Connected(other)'
    BY DEF OthersAreApart
  <2>1. Owned(other)' = Owned(other) /\ other # "kFree"
    BY <1>3 DEF Players
  <2>2. ~Connected(other)
    BY <2>1 DEF IInv, OthersAreApart
  <2> QED
    BY <2>1, <2>2 DEF Connected, Closed
<1> QED
  BY <1>5, <1>7, <1>8, <1>9, <1>10 DEF IInv

\* A start of the player is marked and begins the path; another, not being the
\* player's, has nothing to fail at.
LEMMA NextStartKeeps ==
  ASSUME IInv, ~aborted, NextStart
  PROVE  IInv'
<1> DEFINE start == StartOf(searching, c)
<1>1. UNCHANGED game /\ UNCHANGED <<winner, searching>>
  BY DEF NextStart
<1>2. /\ searching \in Players /\ c \in 0..nrows - 1 /\ calls = <<>>
      /\ winner = "kFree" /\ winner_path = <<>>
  BY Numbers DEF NextStart, IInv, TypeOK, PathIsCalls
<1>3. start \in Hexes /\ start \in NearEdge(searching) /\ ~AtFarEdge(start, searching)
  BY <1>2, StartFacts
<1>4. MovesCounted' /\ WonByChain' /\ OthersAreApart'
  BY <1>1, <1>2, SameGame DEF IInv, WonByChain, OthersAreApart
<1>5. IdleIsClean'
  BY <1>1, <1>2 DEF IdleIsClean, Players
<1>6. ~aborted' /\ aborted' = FALSE
  BY <1>2 DEF NextStart
<1>7. CASE board[start] = searching
  <2>1. winner_path' = <<start>> /\ evaluated' = {start} /\ calls' = <<start>> /\ c' = c
    BY <1>2, <1>7 DEF NextStart
  <2>2. start \in Owned(searching)
    BY <1>3, <1>7 DEF Owned
  <2>3. Chain(calls, searching)' /\ ToSet(calls)' = {start} /\ calls' \in Seq(Hexes)
    BY <1>1, <1>3, <2>1, <2>2, ChainBegins, SameGame
  <2>4. TypeOK'
    BY <1>1, <1>3, <1>6, <2>1, <2>3 DEF IInv, TypeOK, game
  <2>5. PathIsCalls'
    BY <1>1, <1>2, <2>1 DEF PathIsCalls
  <2>6. StartsFailed'
    BY <1>1, <2>1, SameGame DEF IInv, StartsFailed, game
  <2>7. Marked'
    <3>1. searching' # "kFree" /\ (c < nrows)' /\ (calls[1] = StartOf(searching, c))'
      BY <1>1, <1>2, <2>1, Numbers DEF Players, StartOf
    <3>2. (ToSet(calls) \subseteq evaluated)' /\ (evaluated \subseteq Owned(searching))'
      BY <1>1, <2>1, <2>2, <2>3, SameGame
    <3>3. \A g \in evaluated' : ~AtFarEdge(g, searching)'
      BY <1>1, <1>3, <2>1 DEF AtFarEdge
    <3>4. evaluated' \ ToSet(calls)' = {}
      BY <2>1, <2>3
    <3> QED
      BY <2>3, <3>1, <3>2, <3>3, <3>4 DEF Marked
  <2> QED
    BY <1>4, <1>5, <2>4, <2>5, <2>6, <2>7 DEF IInv
<1>8. CASE board[start] # searching
  <2>1. evaluated' = {} /\ c' = c + 1 /\ UNCHANGED <<winner_path, calls>>
    BY <1>8 DEF NextStart
  <2>2. TypeOK'
    BY <1>1, <1>2, <1>6, <2>1, Numbers DEF IInv, TypeOK, game
  <2>3. PathIsCalls' /\ Marked'
    BY <1>1, <1>2, <2>1 DEF PathIsCalls, Marked
  <2>4. StartsFailed'
    <3> SUFFICES ASSUME NEW i \in 0..c' - 1, board[StartOf(searching, i)] = searching
                 PROVE  Hopeless(searching, StartOf(searching, i))
      BY <1>1, SameGame DEF StartsFailed, game, StartOf
    <3>1. i # c
      BY <1>8
    <3>2. i \in 0..c - 1
      BY <1>2, <2>1, <3>1, Numbers
    <3> QED
      BY <1>2, <3>2 DEF IInv, StartsFailed, Players
  <2> QED
    BY <1>4, <1>5, <2>2, <2>3, <2>4 DEF IInv
<1> QED
  BY <1>7, <1>8

\* A hex that is not marked goes into the path; at the far edge it completes
\* a chain.
LEMMA EnterKeeps ==
  ASSUME IInv, ~aborted, Enter
  PROVE  IInv'
<1> DEFINE from == Last(calls)
<1>1. PICK i \in DOMAIN kDirections :
        /\ Open(Neighbor(from, kDirections[i]))
        /\ winner_path' = Append(winner_path, Neighbor(from, kDirections[i]))
        /\ IF AtFarEdge(Neighbor(from, kDirections[i]), searching)
           THEN /\ winner' = searching /\ evaluated' = {}
                /\ searching' = "kFree" /\ c' = 0 /\ calls' = <<>>
           ELSE /\ calls' = Append(calls, Neighbor(from, kDirections[i]))
                /\ evaluated' = evaluated \cup {Neighbor(from, kDirections[i])}
                /\ UNCHANGED <<winner, searching, c>>
  BY DEF Enter
<1>2. PICK h : h = Neighbor(from, kDirections[i])
  OBVIOUS
<1>3. /\ h \in Hexes /\ h \notin evaluated /\ h \in Owned(searching)
      /\ winner_path' = Append(winner_path, h)
  BY <1>1, <1>2 DEF Open, Owned
<1>4. /\ calls \in Seq(Hexes) /\ calls # <<>> /\ searching \in Players
      /\ Chain(calls, searching) /\ ToSet(calls) \subseteq evaluated
      /\ winner = "kFree" /\ winner_path = calls /\ c \in 0..nrows /\ c < nrows
      /\ calls[1] = StartOf(searching, c)
      /\ UNCHANGED game /\ aborted' = FALSE
  BY DEF Enter, IInv, TypeOK, Marked, PathIsCalls
<1>5. Touch(from, h)
  <2>1. from \in Hexes
    BY <1>4 DEF Last
  <2> QED
    BY <1>2, <1>3, <2>1, NeighborsTouch
<1>6. /\ Chain(winner_path', searching) /\ winner_path' \in Seq(Hexes)
      /\ winner_path'[1] = calls[1] /\ ToSet(winner_path') = ToSet(calls) \cup {h}
      /\ Last(winner_path') = h
  BY <1>3, <1>4, <1>5, ChainExtends
<1>7. MovesCounted'
  BY <1>4, SameGame DEF IInv
<1>8. CASE AtFarEdge(h, searching)
  <2>1. /\ winner' = searching /\ evaluated' = {}
        /\ searching' = "kFree" /\ c' = 0 /\ calls' = <<>>
    BY <1>1, <1>2, <1>8
  <2>2. TypeOK'
    BY <1>4, <1>6, <2>1, Numbers DEF IInv, TypeOK, game
  <2>3. IdleIsClean' /\ PathIsCalls' /\ StartsFailed' /\ Marked' /\ OthersAreApart'
    BY <1>4, <2>1 DEF IdleIsClean, PathIsCalls, StartsFailed, Marked, OthersAreApart, Players
  <2>4. WonByChain'
    <3>2. Chain(winner_path, winner)'
      BY <1>4, <1>6, <2>1, SameGame
    <3>3. AtFarEdge(Last(winner_path), winner)'
      BY <1>6, <1>8, <2>1 DEF AtFarEdge
    <3> QED
      BY <3>2, <3>3 DEF WonByChain
  <2> QED
    BY <1>7, <2>2, <2>3, <2>4 DEF IInv
<1>9. CASE ~AtFarEdge(h, searching)
  <2>1. /\ calls' = Append(calls, h) /\ evaluated' = evaluated \cup {h}
        /\ UNCHANGED <<winner, searching, c>> /\ winner_path' = calls'
    BY <1>1, <1>2, <1>3, <1>4, <1>9
  <2>2. TypeOK'
    BY <1>3, <1>4, <1>6, <2>1 DEF IInv, TypeOK, game
  <2>3. IdleIsClean' /\ PathIsCalls'
    BY <1>4, <2>1 DEF IdleIsClean, PathIsCalls, Players
  <2>4. StartsFailed' /\ WonByChain' /\ OthersAreApart'
    BY <1>4, <2>1, SameGame DEF IInv, StartsFailed, WonByChain, OthersAreApart, game
  <2>5. Marked'
    <3>1. /\ searching' # "kFree" /\ (c < nrows)' /\ Chain(calls, searching)'
          /\ (calls[1] = StartOf(searching, c))'
      BY <1>4, <1>6, <2>1, SameGame DEF Players, StartOf
    <3>2. (ToSet(calls) \subseteq evaluated)' /\ (evaluated \subseteq Owned(searching))'
      BY <1>3, <1>4, <1>6, <2>1, SameGame DEF IInv, Marked
    <3>3. \A g \in evaluated' : ~AtFarEdge(g, searching)'
      BY <1>4, <1>9, <2>1 DEF AtFarEdge, IInv, Marked
    <3>4. ASSUME NEW g \in evaluated' \ ToSet(calls)', NEW f \in Owned(searching)', Touch(g, f)
          PROVE  f \in evaluated'
      <4>1. g \in evaluated \ ToSet(calls) /\ f \in Owned(searching)
        BY <1>4, <1>6, <2>1, <3>4, SameGame
      <4> QED
        BY <1>4, <2>1, <3>4, <4>1 DEF IInv, Marked
    <3> QED
      BY <3>1, <3>2, <3>3, <3>4 DEF Marked
  <2> QED
    BY <1>7, <2>2, <2>3, <2>4, <2>5 DEF IInv
<1> QED
  BY <1>8, <1>9

\* A hex that has no way on leaves the path, and what it touches is marked.
\* When it is the start, all that is marked is closed: this start has failed.
LEMMA ReturnKeeps ==
  ASSUME IInv, ~aborted, Return
  PROVE  IInv'
<1> DEFINE from == Last(calls)
<1>1. /\ calls \in Seq(Hexes) /\ calls # <<>> /\ searching \in Players
      /\ Chain(calls, searching) /\ ToSet(calls) \subseteq evaluated
      /\ winner = "kFree" /\ winner_path = calls /\ c \in 0..nrows /\ c < nrows
      /\ calls[1] = StartOf(searching, c) /\ c + 1 \in 0..nrows
      /\ UNCHANGED <<game, winner, evaluated, searching>> /\ calls' = Front(calls)
  BY Numbers DEF Return, IInv, TypeOK, Marked, PathIsCalls
<1>2. Len(calls) \in Nat /\ Len(calls) >= 1 /\ from \in ToSet(calls) /\ from \in Hexes
  BY <1>1 DEF Last, ToSet
<1>3. ASSUME NEW h \in Owned(searching), Touch(from, h)
      PROVE  h \in evaluated
  <2>1. h \in Hexes /\ board[h] = searching
    BY DEF Owned
  <2>2. PICK i \in DOMAIN kDirections : h = Neighbor(from, kDirections[i])
    BY <1>2, <1>3, <2>1, NeighborsTouch
  <2> QED
    BY <2>1, <2>2 DEF Return, Open
<1>4. MovesCounted' /\ WonByChain' /\ OthersAreApart' /\ IdleIsClean'
  BY <1>1, SameGame DEF IInv, WonByChain, OthersAreApart, IdleIsClean, Players
<1>5. CASE Len(calls) = 1
  <2>1. /\ aborted' = FALSE /\ winner_path' = Front(calls) /\ c' = c + 1
    BY <1>1, <1>5 DEF Return
  <2>2. calls' = <<>> /\ winner_path' = <<>>
    BY <1>1, <1>5, <2>1 DEF Front
  <2>3. TypeOK'
    BY <1>1, <2>1, <2>2 DEF IInv, TypeOK, game
  <2>4. PathIsCalls' /\ Marked'
    BY <1>1, <2>2 DEF PathIsCalls, Marked
  <2>5. ToSet(calls) = {from} /\ from = StartOf(searching, c)
    BY <1>1, <1>5 DEF ToSet, Last
  <2>6. Hopeless(searching, from)
    <3>1. evaluated \subseteq Owned(searching) /\ \A g \in evaluated : ~AtFarEdge(g, searching)
      BY <1>1 DEF IInv, Marked
    <3>2. Closed(searching, evaluated)
      <4> SUFFICES ASSUME NEW g \in evaluated, NEW h \in Owned(searching), Touch(g, h)
                   PROVE  h \in evaluated
        BY <3>1 DEF Closed
      <4>1. CASE g = from
        BY <1>3, <4>1
      <4>2. CASE g # from
        BY <1>1, <2>5, <4>2 DEF IInv, Marked
      <4> QED
        BY <4>1, <4>2
    <3> QED
      BY <1>1, <1>2, <3>1, <3>2 DEF Hopeless
  <2>7. StartsFailed'
    <3> SUFFICES ASSUME NEW i \in 0..c, board[StartOf(searching, i)] = searching
                 PROVE  Hopeless(searching, StartOf(searching, i))
      BY <1>1, <2>1, SameGame DEF StartsFailed, game, StartOf
    <3>1. CASE i = c
      BY <2>5, <2>6, <3>1
    <3>2. CASE i # c
      <4>1. i \in 0..c - 1
        BY <1>1, <3>2, Numbers
      <4> QED
        BY <1>1, <4>1 DEF IInv, StartsFailed, Players
    <3> QED
      BY <3>1, <3>2
  <2> QED
    BY <1>4, <2>3, <2>4, <2>7 DEF IInv
<1>6. CASE Len(calls) # 1
  <2>1. winner_path' = Front(calls) /\ UNCHANGED <<c, aborted>>
    BY <1>1, <1>6 DEF Return, Backtrack
  <2>2. /\ Chain(calls', searching) /\ calls' \in Seq(Hexes)
        /\ calls'[1] = calls[1] /\ ToSet(calls') = ToSet(calls) \ {from}
    BY <1>1, <1>6, ChainShortens
  <2>3. TypeOK'
    BY <1>1, <2>1, <2>2 DEF IInv, TypeOK, game
  <2>4. PathIsCalls' /\ StartsFailed'
    BY <1>1, <2>1, SameGame DEF IInv, PathIsCalls, StartsFailed, game
  <2>5. Marked'
    <3>1. /\ searching' # "kFree" /\ (c < nrows)' /\ Chain(calls, searching)'
          /\ (calls[1] = StartOf(searching, c))'
      BY <1>1, <2>1, <2>2, SameGame DEF Players, StartOf
    <3>2. /\ (ToSet(calls) \subseteq evaluated)' /\ (evaluated \subseteq Owned(searching))'
          /\ \A g \in evaluated' : ~AtFarEdge(g, searching)'
      BY <1>1, <2>2, SameGame DEF IInv, Marked, AtFarEdge
    <3>3. ASSUME NEW g \in evaluated' \ ToSet(calls)', NEW h \in Owned(searching)', Touch(g, h)
          PROVE  h \in evaluated'
      <4>1. /\ g \in evaluated /\ (g = from \/ g \notin ToSet(calls))
            /\ h \in Owned(searching)
        BY <1>1, <2>2, SameGame
      <4>2. h \in evaluated
        BY <1>1, <1>3, <3>3, <4>1 DEF IInv, Marked
      <4> QED
        BY <1>1, <4>2
    <3> QED
      BY <3>1, <3>2, <3>3 DEF Marked
  <2> QED
    BY <1>4, <2>3, <2>4, <2>5 DEF IInv
<1> QED
  BY <1>5, <1>6

\* When all starts have failed, the player has no chain.
LEMMA NoWinnerKeeps ==
  ASSUME IInv, ~aborted, NoWinner
  PROVE  IInv'
<1>1. /\ searching \in Players /\ calls = <<>> /\ c = nrows
      /\ winner = "kFree" /\ winner_path = <<>>
      /\ UNCHANGED <<game, winner, winner_path, calls>>
      /\ evaluated' = {} /\ searching' = "kFree" /\ c' = 0 /\ aborted' = FALSE
  BY DEF NoWinner, IInv, TypeOK, PathIsCalls
<1>2. ~Connected(searching)
  BY <1>1, AllStartsFailed DEF IInv, StartsFailed, Players
<1>3. OthersAreApart'
  BY <1>1, <1>2, SameGame DEF IInv, OthersAreApart
<1>4. TypeOK'
  BY <1>1, Numbers DEF IInv, TypeOK, game
<1>5. /\ IdleIsClean' /\ PathIsCalls' /\ StartsFailed' /\ Marked' /\ WonByChain'
      /\ MovesCounted'
  BY <1>1, SameGame
  DEF IInv, IdleIsClean, PathIsCalls, StartsFailed, Marked, WonByChain
<1> QED
  BY <1>3, <1>4, <1>5 DEF IInv

LEMMA StepsKeep == IInv /\ [Next]_vars => IInv'
<1> SUFFICES ASSUME IInv, [Next]_vars PROVE IInv'
  OBVIOUS
<1>1. CASE UNCHANGED vars
  <2>1. UNCHANGED game
    BY <1>1 DEF vars
  <2> QED
    BY <1>1, <2>1, SameGame
    DEF vars, game, IInv, TypeOK, IdleIsClean, PathIsCalls, StartsFailed, Marked,
        WonByChain, OthersAreApart
<1>2. CASE Next
  BY <1>2, AskKeeps, PlayedKeeps, NextStartKeeps, EnterKeeps, ReturnKeeps, NoWinnerKeeps DEF Next
<1> QED
  BY <1>1, <1>2

LEMMA IInvHolds == Spec => []IInv
<1> QED
  BY InitIsClean, StepsKeep, PTL DEF Spec
-----------------------------------------------------------------------------
(* What IsGameOver promises *)

\* On boards of every size and after every order of moves: between calls there
\* is a winner when a player's hexes join its edges, and only then; the path
\* that is left is a chain of the winner's hexes from edge to edge, no hex
\* twice; and no assert of IsGameOver and IsPlayerWinner fails.
THEOREM WinnerHasChain == Spec => []WinnerPathIsChain
<1>1. IInv => WinnerPathIsChain
  <2> SUFFICES ASSUME IInv PROVE WinnerPathIsChain
    OBVIOUS
  <2>1. ASSUME winner # "kFree"
        PROVE  /\ Chain(winner_path, winner) /\ AtFarEdge(Last(winner_path), winner)
               /\ Connected(winner)
    <3>1. winner \in Players /\ winner_path \in Seq(Hexes)
      BY <2>1 DEF IInv, TypeOK
    <3>2. Chain(winner_path, winner) /\ AtFarEdge(Last(winner_path), winner)
      BY <2>1 DEF IInv, WonByChain
    <3> QED
      BY <3>1, <3>2, ChainConnects
  <2>2. ASSUME searching = "kFree", winner = "kFree"
        PROVE  winner_path = <<>> /\ \A player \in Players : ~Connected(player)
    BY <2>2 DEF IInv, IdleIsClean, OthersAreApart, Players
  <2> QED
    BY <2>1, <2>2 DEF IInv, WinnerPathIsChain
<1> QED
  BY <1>1, IInvHolds, PTL
=============================================================================
