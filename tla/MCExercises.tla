----------------------------- MODULE MCExercises -----------------------------
(* The instance of the city database that Exercises is checked with. *)
EXTENDS Exercises

Ranges_ == {<<l, h>> \in (0..3) \X (0..3) : l <= h}

\* Ranges that overlap, and one that is empty.
Climates_ == {<<<<0, 2>>, <<1, 1>>>>, <<<<1, 3>>, <<0, 2>>>>}

Comparison(keyword, type, value) == <<Keyword(keyword), Op(type), Id(value)>>

Singles == {Comparison("T", type, n) : type \in Comparisons, n \in {1, 2}}
             \cup {Comparison("H", type, 1) : type \in {"EQ", "LT", "GE"}}

\* Three comparisons, joined in either order.
Joined(parts) ==
  {parts[1] \o <<Op(j)>> \o parts[2] : j \in {"AND", "OR"}}
    \cup {parts[1] \o <<Op(j)>> \o parts[2] \o <<Op(k)>> \o parts[3] :
            j \in {"AND", "OR"}, k \in {"AND", "OR"}}

Parts == <<Comparison("T", "LT", 1), Comparison("H", "GE", 0), Comparison("T", "EQ", 2)>>

\* An operand too many, a minus apart from its number, a join of one side.
Malformed == {<<Id(2)>> \o Comparison("T", "LT", 1),
              <<Keyword("T"), Op("LT"), Op("UNARY"), Id(1)>>,
              Comparison("T", "LT", 1) \o <<Op("AND")>>}

Queries_ == Singles \cup Joined(Parts) \cup Joined(Reverse(Parts)) \cup Malformed
=============================================================================
