---------------------------- MODULE CircularList ----------------------------
(***************************************************************************)
(* BasicDS/List/check_circle.cpp: main fills a list, checks that it is not *)
(* circular, links its last node to some node, checks that it is circular, *)
(* cuts it open again and checks that it is not.  A step is an iteration   *)
(* of one of its loops.                                                    *)
(*                                                                         *)
(* A node is its number.  Dereferencing a null pointer has no value here:  *)
(* TLC would stop at it.                                                   *)
(***************************************************************************)
EXTENDS Integers

CONSTANTS
  MaxElements,    \* bound on the list
  Null

ASSUME MaxAssumption == MaxElements \in Nat \ {0} /\ Null \notin Int

VARIABLES
  nelements,
  size,           \* nodes pushed so far
  nextp,          \* node -> the next one
  pc,             \* where main is
  sit, fit,       \* the iterators of MeetingPoint
  met,            \* MeetingPoint has returned fit
  it, meeting_it, prev_node,    \* of FixList
  aborted         \* an assert failed

list == <<nelements, size, nextp>>
walk == <<sit, fit, met>>
fix == <<it, meeting_it, prev_node>>
listVars == <<list, pc, walk, fix, aborted>>

begin == IF size = 0 THEN Null ELSE 0
tailp == size - 1

\* What atoi makes of the argument; with 0 main returns at once.
InitList ==
  /\ nelements \in (-1)..MaxElements \ {0}
  /\ size = 0 /\ nextp = <<>> /\ pc = "PushBack"
  /\ sit = Null /\ fit = Null /\ met = FALSE
  /\ it = Null /\ meeting_it = Null /\ prev_node = Null
  /\ aborted = FALSE

\* The next thing main does is place, and it begins with MeetingPoint.
MeetFor(place) == pc' = place /\ sit' = begin /\ fit' = begin /\ met' = FALSE

\* Main's loop of PushBack, and its end.
PushBack ==
  /\ pc = "PushBack"
  /\ IF size < nelements
     THEN /\ size' = size + 1
          /\ nextp' = [n \in 0..size |-> IF n = size THEN Null
                                         ELSE IF n = tailp THEN size ELSE nextp[n]]
          /\ UNCHANGED <<pc, walk>>
     ELSE MeetFor("assertNotCircular") /\ UNCHANGED <<size, nextp>>
  /\ UNCHANGED <<nelements, fix, aborted>>

\* The places where main runs MeetingPoint before it goes on.
Meeting == {"assertNotCircular", "assertCircular", "FixList", "assertFixed"}

\* fit takes two steps, unless the list ends.
Further == IF nextp[fit] = Null THEN Null ELSE nextp[nextp[fit]]

\* Variant of MeetingPoint: the slow iterator stands still.
MeetingPointStands ==
  /\ pc \in Meeting /\ ~met
  /\ IF fit = Null
     THEN met' = TRUE /\ UNCHANGED <<sit, fit>>
     ELSE fit' = Further /\ sit' = sit /\ met' = (fit' = Null \/ sit' = fit')
  /\ UNCHANGED <<list, pc, fix, aborted>>

\* One iteration of the loop of MeetingPoint, with what ends the loop.
MeetingPoint ==
  /\ pc \in Meeting /\ ~met
  /\ IF fit = Null
     THEN met' = TRUE /\ UNCHANGED <<sit, fit>>
     ELSE /\ fit' = Further
          /\ sit' = IF fit' = Null THEN sit ELSE nextp[sit]
          /\ met' = (fit' = Null \/ sit' = fit')
  /\ UNCHANGED <<list, pc, fix, aborted>>

IsCircular == fit # Null

\* The time modulo nelements is the node that the last one is linked to.
\* With a negative count no node has that number.
MakeListCircular ==
  /\ pc = "assertNotCircular" /\ met
  /\ aborted' = IsCircular
  /\ IF size = 0 THEN UNCHANGED nextp
     ELSE \E link_to \in 0..size - 1 : nextp' = [nextp EXCEPT ![tailp] = link_to]
  /\ MeetFor("assertCircular")
  /\ UNCHANGED <<nelements, size, fix>>

AssertCircular ==
  /\ pc = "assertCircular" /\ met
  /\ aborted' = ~IsCircular
  /\ MeetFor("FixList")
  /\ UNCHANGED <<list, fix>>

\* FixList up to its loop.  A list that is not circular is left as it is.
FixList ==
  /\ pc = "FixList" /\ met
  /\ IF fit \in {Null, begin}
     THEN /\ nextp' = IF fit = Null THEN nextp ELSE [nextp EXCEPT ![tailp] = Null]
          /\ MeetFor("assertFixed")
          /\ UNCHANGED fix
     ELSE /\ pc' = "cut"
          /\ it' = begin /\ meeting_it' = fit /\ prev_node' = Null
          /\ UNCHANGED <<nextp, walk>>
  /\ UNCHANGED <<nelements, size, aborted>>

\* Variant of Cut: the node before it, not before meeting_it, is kept.
CutBeforeIt ==
  /\ pc = "cut"
  /\ IF it # meeting_it
     THEN /\ prev_node' = it
          /\ meeting_it' = nextp[meeting_it] /\ it' = nextp[it]
          /\ UNCHANGED <<nextp, pc, walk>>
     ELSE /\ nextp' = [nextp EXCEPT ![prev_node] = Null]
          /\ MeetFor("assertFixed")
          /\ UNCHANGED fix
  /\ UNCHANGED <<nelements, size, aborted>>

\* One iteration of the loop of FixList, and what follows it.
Cut ==
  /\ pc = "cut"
  /\ IF it # meeting_it
     THEN /\ prev_node' = meeting_it
          /\ meeting_it' = nextp[meeting_it] /\ it' = nextp[it]
          /\ UNCHANGED <<nextp, pc, walk>>
     ELSE /\ nextp' = [nextp EXCEPT ![prev_node] = Null]
          /\ MeetFor("assertFixed")
          /\ UNCHANGED fix
  /\ UNCHANGED <<nelements, size, aborted>>

\* The last assert, the walk that prints the list, and its destructor: both
\* come to an end since the list is open.
AssertFixed ==
  /\ pc = "assertFixed" /\ met
  /\ aborted' = IsCircular
  /\ pc' = "done"
  /\ UNCHANGED <<list, walk, fix>>

NextList ==
  /\ ~aborted
  /\ \/ PushBack \/ MeetingPoint \/ MakeListCircular
     \/ AssertCircular \/ FixList \/ Cut \/ AssertFixed

FairList == WF_listVars(NextList)
-----------------------------------------------------------------------------
(* Properties *)

\* Main's three asserts fail for no list that has a node: two iterators meet
\* on a list that is closed at any node and on no other.  And once main has
\* passed FixList the list is the one it built: the link that closed it is gone,
\* no other is, and no node has been lost.
ListRestored ==
  /\ aborted => nelements < 0
  /\ pc \in {"assertFixed", "done"} =>
       \A n \in 0..size - 1 : nextp[n] = IF n = tailp THEN Null ELSE n + 1

\* The walks on the closed list end, and with them main.
MainEnds == (size > 0) ~> (aborted \/ pc = "done")
=============================================================================
