------------------------------- MODULE CityDB --------------------------------
(***************************************************************************)
(* The database of cities of src/interval-tree/city: class CityDB with its *)
(* two indexes, its queries (parser.cpp, Token.cpp) and its file.          *)
(*                                                                         *)
(* A city has a range of temperatures and one of humidities.  An index is  *)
(* an interval map from numbers to the keys of the cities whose range,     *)
(* open on the right, holds the number; here, from each number.  A query   *)
(* is a sequence of tokens; its characters are left out.                   *)
(***************************************************************************)
EXTENDS Integers, Sequences, FiniteSets, SequencesExt, FiniteSetsExt

CONSTANTS
  Names,      \* names of cities, numbers in the order of the names
  Ranges,     \* the ranges a city can have: <<low, high>> with low <= high
  Climates,   \* bound: the <<temperature, humidity>> ranges that are used
  Queries,    \* bound: the queries, well-formed ones and others
  Largest,    \* numeric_limits<int64_t>::max()
  NoFile, NoAnswer

Keyword(k) == [type |-> "KEYWORD", value |-> k]
Id(n) == [type |-> "ID", value |-> n]
Op(type) == [type |-> type, value |-> 0]

Comparisons == {"EQ", "NEQ", "LT", "LE", "GT", "GE"}

Tokens == [type : {"KEYWORD"}, value : {"T", "H"}] \cup [type : {"ID"}, value : Int]
            \cup [type : Comparisons \cup {"AND", "OR", "UNARY"}, value : {0}]

ASSUME CityAssumption ==
  /\ Names \subseteq Nat /\ IsFiniteSet(Names) /\ Largest \in Nat
  /\ \A r \in Ranges : r[1] \in Int /\ r[2] \in Int /\ r[1] <= r[2]
                         /\ -Largest < r[1] /\ r[2] < Largest
  /\ Climates \subseteq Ranges \X Ranges
  /\ Queries \subseteq Seq(Tokens)

VARIABLES
  cityObjectDB_,              \* name -> climate
  cityDB_,                    \* key -> name
  key_,
  tempIndex_, humIndex_,      \* number -> set of keys
  temp_, hum_,                \* lowestTemp_ and highestTemp_, lowestHum_ and highestHum_
  tokenStack_, resultStack_,
  file,                       \* what save has written
  answer,                     \* the query that has just returned or failed, with its names
  cityAborted                 \* an assert failed: the process is gone

database == <<cityObjectDB_, cityDB_, key_, tempIndex_, humIndex_, temp_, hum_>>
stacks == <<tokenStack_, resultStack_>>
cityVars == <<database, stacks, file, answer, cityAborted>>

Numbers == UNION {r[1]..r[2] : r \in Ranges}
NoBounds == <<Largest, -Largest>>
EmptyIndex == [n \in Numbers |-> {}]
NoIndexes == [tempIndex |-> EmptyIndex, humIndex |-> EmptyIndex, temp |-> NoBounds, hum |-> NoBounds]

InitCity ==
  /\ cityObjectDB_ = <<>> /\ cityDB_ = <<>> /\ key_ = 0
  /\ tempIndex_ = EmptyIndex /\ humIndex_ = EmptyIndex
  /\ temp_ = NoBounds /\ hum_ = NoBounds
  /\ tokenStack_ = <<>> /\ resultStack_ = <<>>
  /\ file = NoFile /\ answer = NoAnswer /\ cityAborted = FALSE
-----------------------------------------------------------------------------
(* Cities and the indexes *)

\* Variant of InRightOpen: the range is closed.
InClosed(n, range) == range[1] <= n /\ n <= range[2]

\* interval::right_open
InRightOpen(n, range) == range[1] <= n /\ n < range[2]

\* Index::addCity
AddTo(idx, key, range) ==
  [n \in Numbers |-> IF InRightOpen(n, range) THEN idx[n] \cup {key} ELSE idx[n]]

Widened(bounds, range) == <<Min({bounds[1], range[1]}), Max({bounds[2], range[2]})>>

\* What the indexes are with one more city.
indexCreate(x, city) ==
  [tempIndex |-> AddTo(x.tempIndex, city.key, city.climate[1]),
   humIndex  |-> AddTo(x.humIndex, city.key, city.climate[2]),
   temp      |-> Widened(x.temp, city.climate[1]),
   hum       |-> Widened(x.hum, city.climate[2])]

Indexes == [tempIndex |-> tempIndex_, humIndex |-> humIndex_, temp |-> temp_, hum |-> hum_]

IndexesBecome(x) ==
  tempIndex_' = x.tempIndex /\ humIndex_' = x.humIndex /\ temp_' = x.temp /\ hum_' = x.hum

\* A name that is there already is refused.  After a new one the function ends
\* without the return its type asks for, which is undefined: the program goes on
\* or not, as the compiler likes.
addCity(name, climate) ==
  /\ name \notin DOMAIN cityObjectDB_
  /\ key_' = key_ + 1
  /\ cityObjectDB_' = [n \in DOMAIN cityObjectDB_ \cup {name} |->
                         IF n = name THEN climate ELSE cityObjectDB_[n]]
  /\ cityDB_' = Append(cityDB_, name)
  /\ IndexesBecome(indexCreate(Indexes, [key |-> key_ + 1, climate |-> climate]))
  /\ answer' = NoAnswer
  /\ cityAborted' \in BOOLEAN
  /\ UNCHANGED <<stacks, file>>

save ==
  /\ file' = cityObjectDB_
  /\ answer' = NoAnswer
  /\ UNCHANGED <<database, stacks, cityAborted>>

\* The assert of deserialize: the database has not given out a key.  Keys are
\* given out anew, in the order of the names.
load ==
  /\ file # NoFile
  /\ \E names \in [1..Cardinality(DOMAIN file) -> DOMAIN file] :
       /\ \A i, j \in DOMAIN names : i < j => names[i] < names[j]
       /\ cityDB_' = names
       /\ key_' = Len(names)
       /\ IndexesBecome(FoldLeft(indexCreate, NoIndexes,
                        [k \in DOMAIN names |-> [key |-> k, climate |-> file[names[k]]]]))
  /\ cityAborted' = (key_ # 0)
  /\ cityObjectDB_' = file
  /\ answer' = NoAnswer
  /\ UNCHANGED <<stacks, file>>

\* A new CityDB; the file stays.
construct ==
  /\ cityObjectDB_' = <<>> /\ cityDB_' = <<>> /\ key_' = 0
  /\ IndexesBecome(NoIndexes)
  /\ tokenStack_' = <<>> /\ resultStack_' = <<>>
  /\ answer' = NoAnswer
  /\ UNCHANGED <<file, cityAborted>>
-----------------------------------------------------------------------------
(* Tokens and the translation to postfix *)

isOperand(token) == token.type \in {"ID", "KEYWORD"}

\* Variant of precedence: && and || bind alike.
flatPrecedence(token) ==
  CASE token.type \in {"OR", "AND"} -> 1 [] token.type = "UNARY" -> 5 [] OTHER -> 4

\* The table of Token.cpp.
precedence(token) ==
  CASE token.type = "OR"           -> 1
    [] token.type = "AND"          -> 2
    [] token.type \in {"EQ", "NEQ"} -> 3
    [] token.type \in Comparisons \ {"EQ", "NEQ"} -> 4
    [] token.type = "UNARY"        -> 5

\* One round of the loop of recursive_decent.  An operator first moves to the
\* output every operator on top of the stack that binds no less, or, if it
\* is the unary minus, more.
Shunt(s, token) ==
  LET lower == {i \in DOMAIN s.stack :
                  \/ precedence(s.stack[i]) < precedence(token)
                  \/ token.type = "UNARY" /\ precedence(s.stack[i]) = precedence(token)}
      kept == Max(lower \cup {0})
  IN IF isOperand(token) THEN [s EXCEPT !.out = Append(@, token)]
     ELSE [out |-> s.out \o Reverse(SubSeq(s.stack, kept + 1, Len(s.stack))),
           stack |-> Append(SubSeq(s.stack, 1, kept), token)]

recursive_decent(tokens) ==
  LET s == FoldLeft(Shunt, [out |-> <<>>, stack |-> <<>>], tokens)
  IN s.out \o Reverse(s.stack)
-----------------------------------------------------------------------------
(* Queries *)

\* The bounds of the query of an index: greater-or-equal leaves out the value
\* itself and greater takes it in.
Window(type, value, bounds) ==
  CASE type = "EQ" -> <<value, value + 1>>
    [] type = "LT" -> <<bounds[1], value>>
    [] type = "LE" -> <<bounds[1], value + 1>>
    [] type = "GT" -> <<value, bounds[2]>>
    [] type = "GE" -> <<value + 1, bounds[2]>>

\* The query of one comparison: the keys of the index within the window.
Compared(keyword, type, value) ==
  LET idx == IF keyword = "T" THEN tempIndex_ ELSE humIndex_
      window == Window(type, value, IF keyword = "T" THEN temp_ ELSE hum_)
  IN UNION {idx[n] : n \in {m \in Numbers : InRightOpen(m, window)}}

Failed(s) == [s EXCEPT !.ok = FALSE]

\* queryOperator: asserts that a keyword and an operand are on the stack, on
\* either side; NEQ is not implemented.
queryOperator(s, token) ==
  IF Len(s.tokens) < 2 \/ token.type = "NEQ" THEN Failed(s)
  ELSE LET l == s.tokens[Len(s.tokens)]
           r == s.tokens[Len(s.tokens) - 1]
           k == IF l.type = "KEYWORD" THEN l ELSE r
           v == IF l.type = "KEYWORD" THEN r ELSE l
       IN IF {k.type, v.type} # {"KEYWORD", "ID"} THEN Failed(s)
          ELSE [s EXCEPT !.tokens = SubSeq(@, 1, Len(@) - 2),
                         !.results = Append(@, Compared(k.value, token.type, v.value))]

\* resultJoin: asserts that two results are on the stack.
resultJoin(s, token) ==
  IF Len(s.results) < 2 THEN Failed(s)
  ELSE LET r == s.results[Len(s.results)]
           l == s.results[Len(s.results) - 1]
       IN [s EXCEPT !.results = Append(SubSeq(@, 1, Len(@) - 2),
                                       IF token.type = "AND" THEN l \cap r ELSE l \cup r)]

\* One round of the loop of CityDB::query.
Evaluate(s, token) ==
  CASE ~s.ok                        -> s
    [] s.ok /\ isOperand(token)      -> [s EXCEPT !.tokens = Append(@, token)]
    [] s.ok /\ token.type \in {"AND", "OR"} -> resultJoin(s, token)
    [] s.ok /\ token.type \in Comparisons   -> queryOperator(s, token)
    [] s.ok /\ token.type = "UNARY" -> Failed(s)

\* Variant of Answered: the result is looked at and left on the stack.
AnsweredKept(results) == results

\* resultStack_.pop()
Answered(results) == Front(results)

\* The stacks are members: what a query leaves there is there for the next.
query(tokens) ==
  LET s == FoldLeft(Evaluate, [tokens |-> tokenStack_, results |-> resultStack_, ok |-> TRUE],
                    recursive_decent(tokens))
  IN /\ tokenStack_' = s.tokens
     /\ IF s.ok /\ Len(s.results) = 1
        THEN /\ answer' = [query |-> tokens, names |-> {cityDB_[k] : k \in Last(s.results)}]
             /\ resultStack_' = Answered(s.results)
             /\ cityAborted' = (resultStack_' # <<>>)
        ELSE /\ answer' = [query |-> tokens, names |-> {}]
             /\ resultStack_' = s.results
             /\ cityAborted' = TRUE
     /\ UNCHANGED <<database, file>>
-----------------------------------------------------------------------------
\* Bound: at most two stray tokens are left behind.
NextCity ==
  /\ ~cityAborted
  /\ \/ \E name \in Names, climate \in Climates : addCity(name, climate)
     \/ \E tokens \in Queries : Len(tokenStack_) < 2 /\ query(tokens)
     \/ save \/ load \/ construct

SpecCity == InitCity /\ [][NextCity]_cityVars
-----------------------------------------------------------------------------
(* Properties *)

Cities == DOMAIN cityObjectDB_

TypeOK ==
  /\ Cities \subseteq Names /\ \A n \in Cities : cityObjectDB_[n] \in Climates
  /\ key_ \in 0..Cardinality(Names) /\ cityDB_ \in Seq(Names)
  /\ tempIndex_ \in [Numbers -> SUBSET (1..key_)]
  /\ humIndex_ \in [Numbers -> SUBSET (1..key_)]
  /\ temp_ \in Int \X Int /\ hum_ \in Int \X Int
  /\ \A i \in DOMAIN tokenStack_ : isOperand(tokenStack_[i])
  /\ resultStack_ \in Seq(SUBSET (1..key_))
  /\ cityAborted \in BOOLEAN

\* Keys and names are in step, each key in an index leads to a city, each
\* index holds the ranges of exactly the cities there are, and the bounds
\* that open comparisons rely on are those of all cities; after loading a
\* file as well as after adding one by one.
IndexExact ==
  /\ TypeOK
  /\ Len(cityDB_) = key_ /\ ToSet(cityDB_) = Cities /\ Cardinality(Cities) = key_
  /\ \A n \in Numbers :
       LET Keys(which) == {k \in 1..key_ : LET r == cityObjectDB_[cityDB_[k]][which]
                                            IN n \in r[1]..r[2] - 1}
       IN tempIndex_[n] = Keys(1) /\ humIndex_[n] = Keys(2)
  /\ Cities # {} =>
       /\ temp_[1] = Min({cityObjectDB_[n][1][1] : n \in Cities})
       /\ temp_[2] = Max({cityObjectDB_[n][1][2] : n \in Cities})
       /\ hum_[1] = Min({cityObjectDB_[n][2][1] : n \in Cities})
       /\ hum_[2] = Max({cityObjectDB_[n][2][2] : n \in Cities})

\* What a comparison asks of a city: that some number of its range, which is
\* open on the right, compares so.  > and >= are as the code has them.
Holds(city, keyword, type, value) ==
  LET range == cityObjectDB_[city][IF keyword = "T" THEN 1 ELSE 2]
  IN \E n \in range[1]..range[2] - 1 :
       CASE type = "EQ" -> n = value
         [] type = "LT" -> n < value
         [] type = "LE" -> n <= value
         [] type = "GT" -> n >= value
         [] type = "GE" -> n > value

\* Comparisons (keyword, operator, number, in this order) with && and ||
\* between them.
WellFormed(tokens) ==
  /\ Len(tokens) % 4 = 3
  /\ \A i \in DOMAIN tokens :
       CASE i % 4 = 1 -> tokens[i].type = "KEYWORD"
         [] i % 4 = 2 -> tokens[i].type \in Comparisons \ {"NEQ"}
         [] i % 4 = 3 -> tokens[i].type = "ID"
         [] i % 4 = 0 -> tokens[i].type \in {"AND", "OR"}

\* The meaning of a query, read off its tokens: an alternative between two ||
\* has to hold in all of its comparisons.
Means(tokens, city) ==
  LET n == (Len(tokens) + 1) \div 4
      Starts == {c \in 1..n : c = 1 \/ tokens[4 * (c - 1)].type = "OR"}
      EndOf(c) == Min({e \in c..n : e = n \/ tokens[4 * e].type = "OR"})
  IN \E c \in Starts : \A d \in c..EndOf(c) :
       Holds(city, tokens[4 * d - 3].value, tokens[4 * d - 2].type, tokens[4 * d - 1].value)

\* A well-formed query returns, and with the cities it means: && binds before
\* ||, whatever order the cities came in, whether from a file or one by one, and
\* whatever an earlier query has left on the stacks.
AnswersAreMeant ==
  answer # NoAnswer /\ WellFormed(answer.query) =>
    /\ ~cityAborted
    /\ answer.names = {c \in Cities : Means(answer.query, c)}

\* What a query has pushed it takes away again: no result stays for the next
\* query to join, and operands stay only of queries that are not well-formed.
\* (query asserts the first when it returns.)
QueriesLeaveNothing ==
  [][answer' # answer /\ answer' # NoAnswer /\ WellFormed(answer'.query) =>
       resultStack_' = resultStack_ /\ tokenStack_' = tokenStack_]_cityVars
=============================================================================
