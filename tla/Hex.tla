--------------------------------- MODULE Hex ---------------------------------
(***************************************************************************)
(* The board of src/Hex/src/Hex.cpp: class HexBoard, its moves, and the    *)
(* search for a winner that follows every move.                            *)
(*                                                                         *)
(* A hex is <<q, r>>, its column and its row.  Player 1 joins row 0 to the *)
(* last row, player 2 column 0 to the last column.  The board is used by   *)
(* any caller: the players need not alternate (the tests play one player   *)
(* alone), and moves after the end are not refused.                        *)
(***************************************************************************)
EXTENDS Integers, SequencesExt

CONSTANT nrows      \* the board has nrows x nrows hexes

ASSUME HexAssumption == nrows \in 2..255

VARIABLES
  board,          \* board_: the player of each hex
  moves_played,   \* moves_played_
  winner,         \* winner_
  winner_path,    \* winner_path_
  evaluated,      \* evaluated_
  searching,      \* the player IsGameOver searches for, "kFree" between calls
  c,              \* its loop's counter: how many starts have been searched
  calls,          \* the hexes of the calls of IsPlayerWinner, innermost last
  aborted         \* an assert failed: the process is gone

game == <<board, moves_played>>
vars == <<game, winner, winner_path, evaluated, searching, c, calls, aborted>>

Players == {"kPlayer1", "kPlayer2"}
Hexes == (0..nrows - 1) \X (0..nrows - 1)

\* uint16_t; the product is in range for the boards of HexAssumption.
moves_possible == nrows * nrows

Init ==
  /\ board = [h \in Hexes |-> "kFree"]
  /\ moves_played = 0 /\ winner = "kFree" /\ winner_path = <<>> /\ evaluated = {}
  /\ searching = "kFree" /\ c = 0 /\ calls = <<>> /\ aborted = FALSE
-----------------------------------------------------------------------------
\* Variant of kDirections: one diagonal is missing.
kFiveDirections == <<<<1, 0>>, <<1, -1>>, <<0, -1>>, <<-1, 0>>, <<0, 1>>>>

kDirections == <<<<1, 0>>, <<1, -1>>, <<0, -1>>, <<-1, 0>>, <<-1, 1>>, <<0, 1>>>>

Neighbor(h, d) == <<h[1] + d[1], h[2] + d[2]>>

\* Player 1 has arrived in the last row, player 2 in the last column.
AtFarEdge(h, player) ==
  IF player = "kPlayer1" THEN h[2] >= nrows - 1 ELSE h[1] >= nrows - 1

\* The hex a search begins at: row 0 from the left, column 0 from the top.
StartOf(player, i) == IF player = "kPlayer1" THEN <<i, 0>> ELSE <<0, i>>

\* IsGameOver(player): looks for a winner when there is none yet.
IsGameOver(player) ==
  /\ searching' = IF winner = "kFree" THEN player ELSE "kFree"
  /\ aborted' = (winner = "kFree" /\ winner_path # <<>>)
  /\ c' = 0
  /\ UNCHANGED <<winner, winner_path, evaluated, calls>>

\* A move on a hex that is not free or not on the board returns false.
PlayerPlayed(h, player) ==
  /\ searching = "kFree" /\ board[h] = "kFree"
  /\ board' = [board EXCEPT ![h] = player]
  /\ moves_played' = moves_played + 1
  /\ IsGameOver(player)

\* The game asks before each move, for the player whose turn it is.
AskIsGameOver(player) ==
  /\ searching = "kFree"
  /\ IsGameOver(player)
  /\ UNCHANGED game

\* One pass of the loop in IsGameOver: the search from a hex of the player
\* begins; another hex is passed over.
NextStart ==
  /\ searching # "kFree" /\ calls = <<>> /\ c < nrows
  /\ aborted' = (winner_path # <<>>)
  /\ LET start == StartOf(searching, c) IN
     IF board[start] = searching
     THEN /\ winner_path' = Append(winner_path, start) /\ evaluated' = {start}
          /\ calls' = <<start>> /\ c' = c
     ELSE evaluated' = {} /\ c' = c + 1 /\ UNCHANGED <<winner_path, calls>>
  /\ UNCHANGED <<game, winner, searching>>

\* What the lambda of IsPlayerWinner does not skip.  A neighbor skipped once
\* is skipped for good: the loop of a call is always at the first one left.
Open(h) == h \in Hexes /\ h \notin evaluated /\ board[h] = searching

\* IsPlayerWinner(Last(calls)) goes on to the first neighbor it does not skip.
\* At the far edge there is a winner, and every call returns without a change.
Enter ==
  /\ calls # <<>>
  /\ \E i \in DOMAIN kDirections :
       LET from == Last(calls)
           h == Neighbor(from, kDirections[i])
       IN /\ Open(h)
          /\ \A j \in 1..i - 1 : ~Open(Neighbor(from, kDirections[j]))
          /\ winner_path' = Append(winner_path, h)
          /\ IF AtFarEdge(h, searching)
             THEN /\ winner' = searching /\ evaluated' = {}
                  /\ searching' = "kFree" /\ c' = 0 /\ calls' = <<>>
             ELSE /\ calls' = Append(calls, h) /\ evaluated' = evaluated \cup {h}
                  /\ UNCHANGED <<winner, searching, c>>
  /\ UNCHANGED <<game, aborted>>

\* Variant of Backtrack: a dead end stays in the path.
KeepDeadEnd(path) == path

\* winner_path_.pop_back(), after a hex from which there is no way.
Backtrack(path) == Front(path)

\* IsPlayerWinner(Last(calls)) returns without a winner: to the call before
\* it, or to IsGameOver, which asserts that only the start is left.
Return ==
  /\ calls # <<>>
  /\ \A i \in DOMAIN kDirections : ~Open(Neighbor(Last(calls), kDirections[i]))
  /\ calls' = Front(calls)
  /\ IF Len(calls) = 1
     THEN /\ aborted' = (Len(winner_path) # 1)
          /\ winner_path' = Front(winner_path) /\ c' = c + 1
     ELSE winner_path' = Backtrack(winner_path) /\ UNCHANGED <<c, aborted>>
  /\ UNCHANGED <<game, winner, evaluated, searching>>

\* IsGameOver returns without a winner.
NoWinner ==
  /\ searching # "kFree" /\ calls = <<>> /\ c = nrows
  /\ evaluated' = {} /\ searching' = "kFree" /\ c' = 0
  /\ aborted' = (winner_path # <<>>)
  /\ UNCHANGED <<game, winner, winner_path, calls>>

Next ==
  /\ ~aborted
  /\ \/ \E player \in Players :
          AskIsGameOver(player) \/ \E h \in Hexes : PlayerPlayed(h, player)
     \/ NextStart \/ Enter \/ Return \/ NoWinner

Spec == Init /\ [][Next]_vars
-----------------------------------------------------------------------------
(* Properties *)

Owned(player) == {h \in Hexes : board[h] = player}

\* Two hexes share a side: read off the coordinates, not off kDirections.
Touch(g, h) ==
  h[1] - g[1] \in -1..1 /\ h[2] - g[2] \in -1..1 /\ h[1] - g[1] # h[2] - g[2]

\* A set of the player's hexes that no further hex of the player touches.
Closed(player, S) ==
  S \subseteq Owned(player) /\ \A g \in S, h \in Owned(player) : Touch(g, h) => h \in S

NearEdge(player) == {StartOf(player, i) : i \in 0..nrows - 1}

\* The player's hexes join its two edges.  No search: nothing that holds the
\* player's hexes at the near edge can be closed without one at the far edge.
Connected(player) ==
  \A S \in SUBSET Owned(player) :
    Owned(player) \cap NearEdge(player) \subseteq S /\ Closed(player, S)
      => \E h \in S : AtFarEdge(h, player)

Chain(p, player) ==
  /\ p # <<>> /\ ToSet(p) \subseteq Owned(player) /\ IsInjective(p)
  /\ \A i \in 1..Len(p) - 1 : Touch(p[i], p[i + 1])
  /\ p[1] \in NearEdge(player)

TypeOK ==
  /\ board \in [Hexes -> Players \cup {"kFree"}]
  /\ moves_played \in 0..moves_possible
  /\ winner \in Players \cup {"kFree"} /\ searching \in Players \cup {"kFree"}
  /\ winner_path \in Seq(Hexes) /\ evaluated \subseteq Hexes
  /\ c \in 0..nrows /\ calls \in Seq(Hexes)
  /\ aborted = FALSE

\* Between calls the winner is the player whose hexes join its two edges: no
\* later move gives the other player a chain too, and a full board has a
\* winner, as the test of random games asserts (GameTest.cpp:45).
WinnerIsConnected ==
  searching = "kFree" =>
    /\ \A player \in Players : winner = player <=> Connected(player)
    /\ moves_played = moves_possible => winner # "kFree"

\* The search is right, whatever dead ends and loops it meets.  It misses no
\* chain; the path it leaves is a chain of the winner's hexes from edge to edge
\* that visits no hex twice ("make sure each hex contributes to path only
\* once", GameTest.cpp:51); and its asserts hold: the path is empty before
\* each search, and holds the start alone after one that failed.
WinnerPathIsChain ==
  /\ TypeOK
  /\ winner # "kFree" =>
       /\ Chain(winner_path, winner) /\ AtFarEdge(Last(winner_path), winner)
       /\ Connected(winner)
  /\ searching = "kFree" /\ winner = "kFree" =>
       winner_path = <<>> /\ \A player \in Players : ~Connected(player)
=============================================================================
