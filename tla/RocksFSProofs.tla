---------------------------- MODULE RocksFSProofs ----------------------------
(***************************************************************************)
(* Theorems about RocksFS, for every set of names and of keys, depth of    *)
(* paths and number of descriptors; and, on top of those, about            *)
(* RocksFSData, for every block size, number of blocks and data.           *)
(*                                                                         *)
(* A record is found by a walk from the root, so that one changed record   *)
(* may change what every path leads to.  The argument is about a database  *)
(* as a value: Walk(d) is namei in the database d, Good(d) says that the   *)
(* records of d form a tree, and two lemmas say what adding a record to a  *)
(* good database and erasing one from it does to the walks: the one path   *)
(* that is given gains or loses its record, and no other.                  *)
(*                                                                         *)
(* About the data, the argument is that the blocks under a key are known   *)
(* from what was written to its file (BlocksHoldWritten).  The lemmas      *)
(* before it say what the loops of write and read do with a request: whole *)
(* blocks, of which none is left out, met twice or numbered otherwise than *)
(* its place.                                                              *)
(***************************************************************************)
EXTENDS RocksFSData, SequenceTheorems, FiniteSetTheorems, WellFoundedInduction, TLAPS

Records == [type : {"none", "dir", "file"},
            key : AllKeys \cup {NoKey}, parent : AllKeys \cup {NoKey},
            del : {0, 1}, entries : Entries]
Databases == [AllKeys -> Records]

\* dir_lookup in the database d.
Look(d, key, name) ==
  LET entry == d[key].entries[name] IN
  IF d[key].del # 0 \/ entry = NoEntry THEN Error("ENOENT")
                                        ELSE Found(entry.key, entry.type)

\* The result of a step of namei from the result of the one before.
Step(d, before, name) ==
  CASE before.rc # "ok"                          -> before
    [] before.rc = "ok" /\ before.type = "file"  -> Error("ENOTDIR")
    [] OTHER                                      -> Look(d, before.key, name)

\* namei in the database d.
Walk(d) ==
  LET w[p \in Paths] == IF p = <<>> THEN Found(RootKey, "dir") ELSE Step(d, w[Front(p)], Last(p))
  IN w

Ok(d, p) == Walk(d)[p].rc = "ok"

\* The keys that an entry of a directory leads to.
Target(d, k, n) == d[k].entries[n].key

\* The records are what the program writes: only a directory has entries,
\* only a file is deleted and kept, and the root is a directory.
Shaped(d) ==
  /\ d \in Databases
  /\ d[RootKey].type = "dir"
  /\ \A k \in AllKeys : /\ d[k].type = "none" => d[k] = NoRecord
                        /\ d[k].type # "dir" => d[k].entries = NoEntries
                        /\ d[k].del = 1 => d[k].type = "file"

\* EntriesResolve, of d; and no entry leads to the root.
Resolving(d) ==
  \A k \in AllKeys, n \in Names :
    LET entry == d[k].entries[n] IN
    entry # NoEntry => /\ entry.key \in Keys /\ d[entry.key].type = entry.type
                       /\ d[entry.key].del = 0

\* No record is shared.
Unshared(d) ==
  \A j, k \in AllKeys : \A m, n \in Names :
    d[j].entries[m] # NoEntry /\ Target(d, j, m) = Target(d, k, n) => j = k /\ m = n

\* No record is lost.
Reached(d) ==
  \A k \in Keys : d[k] # NoRecord /\ d[k].del = 0 =>
    \E p \in Paths : Walk(d)[p] = Found(k, d[k].type)

\* A directory knows itself and its parent.
ParentsKnown(d) ==
  \A k \in Keys : d[k].type = "dir" =>
    d[k].key = k /\ d[k].parent \in AllKeys /\ \E n \in Names : Target(d, d[k].parent, n) = k

Good(d) == Shaped(d) /\ Resolving(d) /\ Unshared(d) /\ Reached(d) /\ ParentsKnown(d)
-----------------------------------------------------------------------------
(* Numbers and paths *)

\* A set of natural numbers has a least element.
LEMMA LeastElement ==
  ASSUME NEW S \in SUBSET Nat, S # {}
  PROVE  \E m \in S : \A n \in S : m <= n
<1>1. \E m \in S : \A n \in S : <<n, m>> \notin OpToRel(<, Nat)
  BY NatLessThanWellFounded, WFMin
<1>2. \A m, n \in Nat : <<n, m>> \notin OpToRel(<, Nat) => m <= n
  BY DEF OpToRel
<1> QED
  BY <1>1, <1>2

LEMMA PathTypes ==
  /\ <<>> \in Paths /\ Len(<<>>) = 0
  /\ \A p \in Paths : p \in Seq(Names) /\ Len(p) \in 0..MaxDepth
  /\ \A p \in Seq(Names) : Len(p) <= MaxDepth => p \in Paths
<1>1. Paths = UNION {[1..m -> Names] : m \in 0..MaxDepth}
  BY DEF Paths, BoundedSeq, SeqOf
<1>2. MaxDepth \in Nat
  BY RocksFSAssumption
<1>3. ASSUME NEW p \in Paths PROVE p \in Seq(Names) /\ Len(p) \in 0..MaxDepth
  <2>1. PICK m \in 0..MaxDepth : p \in [1..m -> Names]
    BY <1>1
  <2>2. m \in Nat /\ p \in Seq(Names)
    BY <1>2, <2>1, SeqDef
  <2>3. Len(p) = m
    BY <2>1, <2>2, LenProperties
  <2> QED
    BY <2>1, <2>2, <2>3
<1>4. ASSUME NEW p \in Seq(Names), Len(p) <= MaxDepth PROVE p \in Paths
  <2>1. p \in [1..Len(p) -> Names] /\ Len(p) \in Nat
    BY LenProperties
  <2>2. Len(p) \in 0..MaxDepth
    BY <1>2, <1>4, <2>1
  <2> QED
    BY <1>1, <2>1, <2>2
<1>5. <<>> \in Seq(Names) /\ Len(<<>>) = 0
  BY EmptySeq
<1>6. <<>> \in Paths
  <2>1. 0 <= MaxDepth
    BY <1>2
  <2>2. Len(<<>>) <= MaxDepth
    BY <1>5, <2>1
  <2> QED
    BY <1>4, <1>5, <2>2
<1> QED
  BY <1>3, <1>4, <1>5, <1>6

\* The way to a path: the path without its last name, and that name.
LEMMA PathParts ==
  ASSUME NEW p \in Paths, p # <<>>
  PROVE  /\ Front(p) \in Paths /\ Last(p) \in Names /\ Len(p) \in Nat \ {0}
         /\ Len(Front(p)) = Len(p) - 1 /\ Front(p) # p
         /\ p = Append(Front(p), Last(p))
<1>1. p \in Seq(Names) /\ Len(p) \in 0..MaxDepth /\ MaxDepth \in Nat
  BY PathTypes, RocksFSAssumption
<1>2. Len(p) \in Nat \ {0} /\ \A n \in 1..Len(p) : p[n] \in Names
  BY <1>1, EmptySeq, ElementOfSeq
<1>3. Len(p) - 1 \in Nat /\ 1 \in Int /\ Len(p) - 1 \in Int /\ Len(p) \in 1..Len(p)
      /\ \A n \in 1..(Len(p) - 1) : n \in 1..Len(p)
  BY <1>2
<1>4. /\ Front(p) \in Seq(Names)
      /\ Len(Front(p)) = IF 1 <= Len(p) - 1 THEN Len(p) - 1 - 1 + 1 ELSE 0
      /\ \A n \in 1..(Len(p) - 1 - 1 + 1) : Front(p)[n] = p[1 + n - 1]
  BY <1>2, <1>3, SubSeqProperties DEF Front
<1>5. Len(Front(p)) = Len(p) - 1 /\ \A n \in 1..(Len(p) - 1) : Front(p)[n] = p[n]
  <2>1. Len(p) - 1 - 1 + 1 = Len(p) - 1 /\ (1 <= Len(p) - 1 \/ Len(p) - 1 = 0)
    BY <1>2
  <2>2. Len(Front(p)) = Len(p) - 1
    BY <1>4, <2>1
  <2>3. ASSUME NEW n \in 1..(Len(p) - 1) PROVE Front(p)[n] = p[n]
    <3>1. 1 + n - 1 = n
      BY <1>2
    <3> QED
      BY <1>4, <2>1, <3>1
  <2> QED
    BY <2>2, <2>3
<1>6. Last(p) \in Names /\ Last(p) = p[Len(p)]
  BY <1>2, <1>3 DEF Last
<1>7. /\ Append(Front(p), Last(p)) \in Seq(Names)
      /\ Len(Append(Front(p), Last(p))) = Len(p)
      /\ \A n \in 1..(Len(p) - 1) : Append(Front(p), Last(p))[n] = p[n]
      /\ Append(Front(p), Last(p))[Len(p)] = p[Len(p)]
  <2>1. Len(p) - 1 + 1 = Len(p)
    BY <1>2
  <2> QED
    BY <1>4, <1>5, <1>6, <2>1, AppendProperties
<1>8. ASSUME NEW n \in 1..Len(p) PROVE Append(Front(p), Last(p))[n] = p[n]
  <2>1. n \in 1..(Len(p) - 1) \/ n = Len(p)
    BY <1>2
  <2> QED
    BY <1>7, <2>1
<1>9. p = Append(Front(p), Last(p))
  BY <1>1, <1>7, <1>8, SeqEqual
<1>10. Front(p) \in Paths
  <2>1. Len(Front(p)) <= MaxDepth
    BY <1>1, <1>2, <1>5
  <2> QED
    BY <1>4, <2>1, PathTypes
<1>11. Front(p) # p
  BY <1>2, <1>5
<1> QED
  BY <1>2, <1>5, <1>6, <1>9, <1>10, <1>11

LEMMA PathAppend ==
  ASSUME NEW p \in Paths, NEW n \in Names, Len(p) < MaxDepth
  PROVE  /\ Append(p, n) \in Paths /\ Append(p, n) # <<>>
         /\ Front(Append(p, n)) = p /\ Last(Append(p, n)) = n
<1> DEFINE q == Append(p, n)
<1>1. p \in Seq(Names) /\ Len(p) \in Nat /\ MaxDepth \in Nat
  BY PathTypes, RocksFSAssumption
<1>2. /\ q \in Seq(Names) /\ q # <<>> /\ Len(q) = Len(p) + 1
      /\ q[Len(p) + 1] = n
  BY <1>1, AppendProperties
<1>3. q \in Paths
  <2>1. Len(q) <= MaxDepth
    BY <1>1, <1>2
  <2> HIDE DEF q
  <2> QED
    BY <1>2, <2>1, PathTypes
<1> HIDE DEF q
<1>4. Front(q) \in Seq(Names) /\ Last(q) \in Names /\ q = Append(Front(q), Last(q))
  BY <1>2, <1>3, PathParts, PathTypes
<1>5. Append(p, n) = Append(Front(q), Last(q))
  BY <1>4 DEF q
<1>6. p = Front(q) /\ n = Last(q)
  BY <1>1, <1>4, <1>5, AppendInjective
<1> QED
  BY <1>2, <1>3, <1>6 DEF q

\* A set of paths that holds the root, and each path whose front it holds,
\* holds every path.
LEMMA PathInduction ==
  ASSUME NEW S, <<>> \in S, \A p \in Paths : p # <<>> /\ Front(p) \in S => p \in S
  PROVE  Paths \subseteq S
<1> SUFFICES ASSUME NEW q \in Paths, q \notin S PROVE FALSE
  OBVIOUS
<1> DEFINE Lengths == {Len(p) : p \in Paths \ S}
<1>1. Lengths \in SUBSET Nat /\ Lengths # {}
  BY PathTypes
<1>2. PICK m \in Lengths : \A n \in Lengths : m <= n
  <2> HIDE DEF Lengths
  <2> QED
    BY <1>1, LeastElement
<1>3. PICK p \in Paths \ S : Len(p) = m
  BY <1>2
<1>4. Front(p) \in Paths /\ Len(Front(p)) = Len(p) - 1 /\ Len(p) \in Nat
  BY <1>3, PathParts
<1>5. Front(p) \notin S
  BY <1>3
<1>6. Len(Front(p)) \in Lengths
  BY <1>4, <1>5
<1> HIDE DEF Lengths
<1> QED
  BY <1>2, <1>3, <1>4, <1>6
-----------------------------------------------------------------------------
(* Walks *)

LEMMA SetInduction ==
  ASSUME NEW S, 0 \in S, \A n \in Nat : n \in S => n + 1 \in S
  PROVE  Nat \subseteq S
<1> SUFFICES ASSUME Nat \ S # {} PROVE FALSE
  OBVIOUS
<1>1. PICK m \in Nat \ S : \A n \in Nat \ S : m <= n
  BY LeastElement
<1>2. m - 1 \in Nat /\ m - 1 \in S
  BY <1>1
<1> QED
  BY <1>1, <1>2

\* The recursive definition of namei has a solution, so that namei is one.
LEMMA WalkExists ==
  ASSUME NEW d
  PROVE  Walk(d) = [p \in Paths |-> IF p = <<>> THEN Found(RootKey, "dir")
                                    ELSE Step(d, Walk(d)[Front(p)], Last(p))]
<1> DEFINE UpTo(m) == {p \in Paths : Len(p) <= m}
           Solves(w, m) == w = [p \in UpTo(m) |-> IF p = <<>> THEN Found(RootKey, "dir")
                                                  ELSE Step(d, w[Front(p)], Last(p))]
           Solved == {m \in Nat : \E w : Solves(w, m)}
<1>1. 0 \in Solved
  <2>1. ASSUME NEW p \in UpTo(0) PROVE p = <<>>
    BY PathParts
  <2>2. Solves([p \in UpTo(0) |-> Found(RootKey, "dir")], 0)
    BY <2>1
  <2> QED
    BY <2>2
<1>2. ASSUME NEW m \in Nat, m \in Solved
      PROVE  m + 1 \in Solved
  <2>1. PICK w : Solves(w, m)
    BY <1>2
  <2> DEFINE v == [p \in UpTo(m + 1) |-> IF p \in UpTo(m) THEN w[p]
                                         ELSE Step(d, w[Front(p)], Last(p))]
  <2>2. ASSUME NEW p \in UpTo(m + 1), p # <<>>
        PROVE  Front(p) \in UpTo(m) /\ Front(p) \in UpTo(m + 1)
    BY <2>2, PathParts
  <2>3. <<>> \in UpTo(m)
    BY PathTypes
  <2>4. ASSUME NEW p \in UpTo(m + 1)
        PROVE  v[p] = IF p = <<>> THEN Found(RootKey, "dir") ELSE Step(d, w[Front(p)], Last(p))
    BY <2>1, <2>3
  <2>5. \A p \in UpTo(m + 1) : p # <<>> => v[Front(p)] = w[Front(p)]
    BY <2>2
  <2>6. v = [p \in UpTo(m + 1) |-> v[p]]
    OBVIOUS
  <2> HIDE DEF v
  <2>7. Solves(v, m + 1)
    BY <2>4, <2>5, <2>6
  <2>8. m + 1 \in Nat
    OBVIOUS
  <2> HIDE DEF Solves
  <2> QED
    BY <2>7, <2>8
<1>3. \E w : Solves(w, MaxDepth)
  <2> HIDE DEF Solved
  <2>1. MaxDepth \in Solved
    BY <1>1, <1>2, SetInduction, RocksFSAssumption
  <2> QED
    BY <2>1 DEF Solved
<1>4. UpTo(MaxDepth) = Paths
  BY PathTypes
<1> QED
  BY <1>3, <1>4 DEF Walk

\* namei is the walk in the database, before a step and after it.
LEMMA NameiWalks == namei = Walk(db)
  BY DEF namei, Walk, Step, Look, dir_lookup

LEMMA NameiWalksNext == namei' = Walk(db')
  BY DEF namei, Walk, Step, Look, dir_lookup

LEMMA WalkRoot ==
  ASSUME NEW d
  PROVE  Walk(d)[<<>>] = Found(RootKey, "dir")
  BY WalkExists, PathTypes

LEMMA WalkStep ==
  ASSUME NEW d, NEW p \in Paths, p # <<>>
  PROVE  Walk(d)[p] = Step(d, Walk(d)[Front(p)], Last(p))
  BY WalkExists
-----------------------------------------------------------------------------
(* Good databases *)

LEMMA Keys1 ==
  /\ RootKey \in AllKeys /\ Keys \subseteq AllKeys /\ RootKey \notin Keys
  /\ NoKey \notin AllKeys /\ AllKeys = Keys \cup {RootKey}
  BY RocksFSAssumption DEF AllKeys, RootKey

\* What an entry of a good database holds.
LEMMA EntryTypes ==
  ASSUME NEW d, d \in Databases, NEW k \in AllKeys, NEW n \in Names
  PROVE  /\ d[k] \in Records
         /\ d[k].entries[n] = NoEntry \/ d[k].entries[n] \in [key : AllKeys, type : {"dir", "file"}]
         /\ Target(d, k, n) \in AllKeys <=> d[k].entries[n] # NoEntry
<1>1. d[k] \in Records /\ d[k].entries \in Entries
  BY DEF Databases, Records
<1>2. d[k].entries[n] = NoEntry \/ d[k].entries[n] \in [key : AllKeys, type : {"dir", "file"}]
  BY <1>1 DEF Entries
<1>3. NoEntry.key = NoKey
  BY DEF NoEntry
<1> QED
  BY <1>1, <1>2, <1>3, Keys1 DEF Target

\* What namei finds is in the database, of the type that it says.
LEMMA WalkFinds ==
  ASSUME NEW d, Shaped(d), Resolving(d), NEW p \in Paths, Ok(d, p)
  PROVE  \E k \in AllKeys :
           /\ Walk(d)[p] = Found(k, d[k].type) /\ d[k].type \in {"dir", "file"} /\ d[k].del = 0
           /\ p # <<>> => k \in Keys
<1> DEFINE Finds(q) == \E k \in AllKeys :
             /\ Walk(d)[q] = Found(k, d[k].type) /\ d[k].type \in {"dir", "file"} /\ d[k].del = 0
             /\ q # <<>> => k \in Keys
           S == {q \in Paths : Ok(d, q) => Finds(q)}
<1>1. <<>> \in S
  <2>1. d[RootKey].type = "dir" /\ d[RootKey].del = 0
    <3>1. d[RootKey] \in Records /\ d[RootKey].type = "dir" /\ d[RootKey].del # 1
      BY Keys1 DEF Shaped, Databases
    <3> QED
      BY <3>1 DEF Records
  <2>2. Finds(<<>>)
    BY <2>1, WalkRoot, Keys1
  <2> QED
    BY <2>2, PathTypes
<1>2. ASSUME NEW q \in Paths, q # <<>>, Front(q) \in S, Ok(d, q)
      PROVE  Finds(q)
  <2>1. Walk(d)[q] = Step(d, Walk(d)[Front(q)], Last(q)) /\ Last(q) \in Names
    BY <1>2, WalkStep, PathParts
  <2>2. /\ Ok(d, Front(q)) /\ Walk(d)[Front(q)].type # "file"
        /\ Walk(d)[q] = Look(d, Walk(d)[Front(q)].key, Last(q))
    BY <1>2, <2>1 DEF Step, Ok, Error
  <2>3. PICK j \in AllKeys : Walk(d)[Front(q)] = Found(j, d[j].type)
    BY <1>2, <2>2
  <2>4. Walk(d)[q] = Look(d, j, Last(q))
    BY <2>2, <2>3 DEF Found
  <2> DEFINE entry == d[j].entries[Last(q)]
  <2>5. entry # NoEntry /\ Walk(d)[q] = Found(entry.key, entry.type)
    BY <1>2, <2>4 DEF Look, Ok, Error
  <2>6. entry \in [key : AllKeys, type : {"dir", "file"}]
    BY <2>1, <2>5, EntryTypes DEF Shaped
  <2>7. entry.key \in Keys /\ d[entry.key].type = entry.type /\ d[entry.key].del = 0
    BY <2>1, <2>5 DEF Resolving
  <2> QED
    BY <2>5, <2>6, <2>7, Keys1
<1> HIDE DEF Finds
<1>3. \A q \in Paths : q # <<>> /\ Front(q) \in S => q \in S
  BY <1>2
<1> HIDE DEF S
<1>4. p \in S
  BY <1>1, <1>3, PathInduction
<1> QED
  BY <1>4 DEF S, Finds

\* The last step of a walk: a path is found where its front is a directory
\* with an entry for its last name.
LEMMA LastStep ==
  ASSUME NEW d, Shaped(d), Resolving(d), NEW p \in Paths, p # <<>>
  PROVE  Ok(d, p) <=>
           \E k \in AllKeys :
             /\ Walk(d)[Front(p)] = Found(k, "dir")
             /\ d[k].entries[Last(p)] # NoEntry
             /\ Walk(d)[p] = Found(Target(d, k, Last(p)), d[k].entries[Last(p)].type)
<1>1. /\ Walk(d)[p] = Step(d, Walk(d)[Front(p)], Last(p))
      /\ Last(p) \in Names /\ Front(p) \in Paths
  BY WalkStep, PathParts
<1>2. ASSUME Ok(d, p)
      PROVE  \E k \in AllKeys :
               /\ Walk(d)[Front(p)] = Found(k, "dir")
               /\ d[k].entries[Last(p)] # NoEntry
               /\ Walk(d)[p] = Found(Target(d, k, Last(p)), d[k].entries[Last(p)].type)
  <2>1. /\ Ok(d, Front(p)) /\ Walk(d)[Front(p)].type # "file"
        /\ Walk(d)[p] = Look(d, Walk(d)[Front(p)].key, Last(p))
    BY <1>1, <1>2 DEF Step, Ok, Error
  <2>2. PICK k \in AllKeys : /\ Walk(d)[Front(p)] = Found(k, d[k].type)
                             /\ d[k].type \in {"dir", "file"}
    BY <1>1, <2>1, WalkFinds
  <2>3. Walk(d)[Front(p)] = Found(k, "dir") /\ Walk(d)[p] = Look(d, k, Last(p))
    BY <2>1, <2>2 DEF Found
  <2> QED
    BY <1>2, <2>3 DEF Look, Ok, Error, Target
<1>3. ASSUME NEW k \in AllKeys, Walk(d)[p] = Found(Target(d, k, Last(p)), d[k].entries[Last(p)].type)
      PROVE  Ok(d, p)
  BY <1>3 DEF Ok, Found
<1> QED
  BY <1>2, <1>3

\* Different paths lead to different records.
LEMMA WalksApart ==
  ASSUME NEW d, Shaped(d), Resolving(d), Unshared(d),
         NEW p \in Paths, NEW q \in Paths, Ok(d, p), Ok(d, q), Walk(d)[p].key = Walk(d)[q].key
  PROVE  p = q
<1> DEFINE S == {a \in Paths : \A b \in Paths :
                   Ok(d, a) /\ Ok(d, b) /\ Walk(d)[a].key = Walk(d)[b].key => a = b}
<1>1. ASSUME NEW a \in Paths, a # <<>>, Ok(d, a) PROVE Walk(d)[a].key \in Keys
  <2>1. PICK k \in AllKeys : Walk(d)[a] = Found(k, d[k].type) /\ (a # <<>> => k \in Keys)
    BY <1>1, WalkFinds
  <2> QED
    BY <1>1, <2>1 DEF Found
<1>2. Walk(d)[<<>>].key = RootKey /\ RootKey \notin Keys
  BY WalkRoot, Keys1 DEF Found
<1>3. <<>> \in S
  BY <1>1, <1>2, PathTypes
<1>4. ASSUME NEW a \in Paths, a # <<>>, Front(a) \in S,
             NEW b \in Paths, Ok(d, a), Ok(d, b), Walk(d)[a].key = Walk(d)[b].key
      PROVE  a = b
  <2>1. b # <<>>
    BY <1>1, <1>2, <1>4
  <2>2. PICK j \in AllKeys : /\ Walk(d)[Front(a)] = Found(j, "dir")
                             /\ d[j].entries[Last(a)] # NoEntry
                             /\ Walk(d)[a] = Found(Target(d, j, Last(a)), d[j].entries[Last(a)].type)
    BY <1>4, LastStep
  <2>3. PICK k \in AllKeys : /\ Walk(d)[Front(b)] = Found(k, "dir")
                             /\ d[k].entries[Last(b)] # NoEntry
                             /\ Walk(d)[b] = Found(Target(d, k, Last(b)), d[k].entries[Last(b)].type)
    BY <1>4, <2>1, LastStep
  <2>4. Target(d, j, Last(a)) = Target(d, k, Last(b))
    BY <1>4, <2>2, <2>3 DEF Found
  <2>5. j = k /\ Last(a) = Last(b)
    BY <1>4, <2>1, <2>2, <2>4, PathParts DEF Unshared
  <2>6. Ok(d, Front(a)) /\ Ok(d, Front(b)) /\ Front(b) \in Paths
    BY <1>4, <2>1, <2>2, <2>3, PathParts DEF Ok, Found
  <2>7. Front(a) = Front(b)
    BY <1>4, <2>2, <2>3, <2>5, <2>6
  <2> QED
    BY <1>4, <2>1, <2>5, <2>7, PathParts
<1>5. \A a \in Paths : a # <<>> /\ Front(a) \in S => a \in S
  BY <1>4
<1> HIDE DEF S
<1>6. p \in S
  BY <1>3, <1>5, PathInduction
<1> QED
  BY <1>6 DEF S

\* Two databases in which a path leads to the same, or to nothing.
Agree(d, e, p) == Ok(d, p) \/ Ok(e, p) => Walk(e)[p] = Walk(d)[p]

\* A step along an entry that two databases share leads to the same in both.
LEMMA AgreeingStep ==
  ASSUME NEW d, NEW e, NEW p \in Paths, p # <<>>, Agree(d, e, Front(p)),
         Ok(d, Front(p)) /\ Walk(d)[Front(p)].type # "file" =>
           LET k == Walk(d)[Front(p)].key
           IN e[k].del = d[k].del /\ e[k].entries[Last(p)] = d[k].entries[Last(p)]
  PROVE  Agree(d, e, p)
<1> DEFINE f == Front(p)
<1>1. /\ Walk(d)[p] = Step(d, Walk(d)[f], Last(p))
      /\ Walk(e)[p] = Step(e, Walk(e)[f], Last(p))
  BY WalkStep
<1>2. CASE ~Ok(d, f)
  <2>1. ~Ok(e, f)
    BY <1>2 DEF Agree, Ok
  <2> QED
    BY <1>1, <1>2, <2>1 DEF Agree, Ok, Step
<1>3. CASE Ok(d, f)
  <2>1. Walk(e)[f] = Walk(d)[f]
    BY <1>3 DEF Agree
  <2>2. CASE Walk(d)[f].type = "file"
    BY <1>1, <1>3, <2>1, <2>2 DEF Agree, Ok, Step
  <2>3. CASE Walk(d)[f].type # "file"
    BY <1>1, <1>3, <2>1, <2>3 DEF Agree, Ok, Step, Look
  <2> QED
    BY <2>2, <2>3
<1> QED
  BY <1>2, <1>3

\* From a record without entries no walk goes on.
LEMMA NothingBelow ==
  ASSUME NEW d, NEW p \in Paths, p # <<>>, NEW k, NEW type,
         ~Ok(d, Front(p)) \/ /\ Walk(d)[Front(p)] = Found(k, type)
                             /\ d[k].entries = NoEntries
  PROVE  ~Ok(d, p)
<1>1. Walk(d)[p] = Step(d, Walk(d)[Front(p)], Last(p)) /\ Last(p) \in Names
  BY WalkStep, PathParts
<1>2. CASE ~Ok(d, Front(p))
  BY <1>1, <1>2 DEF Ok, Step
<1>3. CASE Walk(d)[Front(p)] = Found(k, type) /\ d[k].entries = NoEntries
  <2>1. d[k].entries[Last(p)] = NoEntry
    BY <1>1, <1>3 DEF NoEntries
  <2>2. Walk(d)[Front(p)].key = k /\ Walk(d)[Front(p)].rc = "ok"
    BY <1>3 DEF Found
  <2>3. Look(d, k, Last(p)).rc = "ENOENT"
    BY <2>1 DEF Look, Error
  <2> QED
    BY <1>1, <2>2, <2>3 DEF Ok, Step, Error
<1> QED
  BY <1>2, <1>3
-----------------------------------------------------------------------------
(* A record is added *)

\* The database d with a new record under key, entered under p in the
\* directory with the key parent.
Added(d, p, parent, type, key, record) ==
  [d EXCEPT ![parent].entries[Last(p)] = [key |-> key, type |-> type], ![key] = record]

\* The new record, and where it may be added.
Addable(d, p, parent, type, key, record) ==
  /\ Good(d) /\ p \in Paths /\ p # <<>> /\ ~Ok(d, p)
  /\ parent \in AllKeys /\ Walk(d)[Front(p)] = Found(parent, "dir")
  /\ key \in Keys /\ d[key] = NoRecord
  /\ type \in {"dir", "file"} /\ record \in Records
  /\ record.type = type /\ record.del = 0 /\ record.entries = NoEntries
  /\ type = "dir" => record.key = key /\ record.parent = parent

\* Member by member, the database e is d with one entry and one record set.
Changed(d, e, p, parent, entry, key, record) ==
  /\ e \in Databases /\ parent # key /\ d[parent].type = "dir"
  /\ e[key] = record
  /\ \A k \in AllKeys \ {parent, key} : e[k] = d[k]
  /\ e[parent].type = "dir" /\ e[parent].del = d[parent].del
  /\ e[parent].key = d[parent].key /\ e[parent].parent = d[parent].parent
  /\ e[parent].entries[Last(p)] = entry
  /\ \A n \in Names \ {Last(p)} : e[parent].entries[n] = d[parent].entries[n]

LEMMA ChangedRecords ==
  ASSUME NEW d, d \in Databases, NEW p \in Paths, p # <<>>, NEW parent \in AllKeys,
         d[parent].type = "dir", NEW key \in AllKeys, parent # key, NEW record \in Records,
         NEW entry, entry \in {NoEntry} \cup [key : AllKeys, type : {"dir", "file"}]
  PROVE  Changed(d, [d EXCEPT ![parent].entries[Last(p)] = entry, ![key] = record],
                 p, parent, entry, key, record)
<1> DEFINE e == [d EXCEPT ![parent].entries[Last(p)] = entry, ![key] = record]
<1>1. Last(p) \in Names
  BY PathParts
<1>2. d[parent] \in Records /\ d[parent].entries \in Entries
  BY DEF Databases, Records
<1>3. /\ e[parent] = [d[parent] EXCEPT !.entries = [d[parent].entries EXCEPT ![Last(p)] = entry]]
      /\ e[key] = record
      /\ \A k \in AllKeys \ {parent, key} : e[k] = d[k]
  BY DEF Databases
<1>4. [d[parent].entries EXCEPT ![Last(p)] = entry] \in Entries
  BY <1>1, <1>2 DEF Entries
<1>5. e[parent] \in Records
  BY <1>2, <1>3, <1>4 DEF Records
<1>6. e \in Databases
  <2>1. \A k \in AllKeys : e[k] \in Records
    BY <1>3, <1>5 DEF Databases
  <2>2. e = [k \in AllKeys |-> e[k]]
    BY DEF Databases
  <2> QED
    BY <2>1, <2>2 DEF Databases
<1>7. /\ e[parent].type = "dir" /\ e[parent].del = d[parent].del
      /\ e[parent].key = d[parent].key /\ e[parent].parent = d[parent].parent
      /\ e[parent].entries = [d[parent].entries EXCEPT ![Last(p)] = entry]
  BY <1>2, <1>3 DEF Records
<1>8. /\ e[parent].entries[Last(p)] = entry
      /\ \A n \in Names \ {Last(p)} : e[parent].entries[n] = d[parent].entries[n]
  BY <1>1, <1>2, <1>7 DEF Entries
<1> HIDE DEF e
<1>9. Changed(d, e, p, parent, entry, key, record)
  BY <1>3, <1>6, <1>7, <1>8 DEF Changed
<1> QED
  BY <1>9 DEF e

LEMMA AddedRecords ==
  ASSUME NEW d, NEW p, NEW parent, NEW type, NEW key, NEW record,
         Addable(d, p, parent, type, key, record)
  PROVE  /\ Changed(d, Added(d, p, parent, type, key, record), p, parent,
                    [key |-> key, type |-> type], key, record)
         /\ d[parent].entries[Last(p)] = NoEntry
<1> USE DEF Addable
<1>1. d \in Databases /\ Last(p) \in Names /\ Front(p) \in Paths /\ key \in AllKeys
  BY PathParts, Keys1 DEF Good, Shaped
<1>2. d[parent].type = "dir" /\ d[parent].del = 0
  <2>1. Ok(d, Front(p))
    BY DEF Ok, Found
  <2>2. PICK k \in AllKeys : /\ Walk(d)[Front(p)] = Found(k, d[k].type)
                             /\ d[k].del = 0
    BY <1>1, <2>1, WalkFinds DEF Good
  <2> QED
    BY <2>2 DEF Found
<1>3. parent # key
  BY <1>2 DEF NoRecord, Record
<1>4. d[parent].entries[Last(p)] = NoEntry
  <2>1. Walk(d)[p] = Look(d, parent, Last(p))
    BY WalkStep DEF Step, Found
  <2> QED
    BY <1>2, <2>1 DEF Look, Ok, Found
<1>5. [key |-> key, type |-> type] \in [key : AllKeys, type : {"dir", "file"}]
  BY <1>1
<1> QED
  BY <1>1, <1>2, <1>3, <1>4, <1>5, ChangedRecords DEF Added

\* The path that is given gains its record, and no other path anything.
LEMMA AddedWalks ==
  ASSUME NEW d, NEW p, NEW parent, NEW type, NEW key, NEW record,
         Addable(d, p, parent, type, key, record)
  PROVE  LET e == Added(d, p, parent, type, key, record)
         IN  Walk(e)[p] = Found(key, type) /\ \A q \in Paths \ {p} : Agree(d, e, q)
<1> DEFINE e == Added(d, p, parent, type, key, record)
           S == {q \in Paths : IF q = p THEN Walk(e)[q] = Found(key, type) ELSE Agree(d, e, q)}
<1>1. /\ parent # key /\ e[key] = record
      /\ \A k \in AllKeys \ {parent, key} : e[k] = d[k]
      /\ e[parent].del = d[parent].del
      /\ e[parent].entries[Last(p)] = [key |-> key, type |-> type]
      /\ \A n \in Names \ {Last(p)} : e[parent].entries[n] = d[parent].entries[n]
  <2>1. Changed(d, e, p, parent, [key |-> key, type |-> type], key, record)
    BY AddedRecords
  <2> HIDE DEF e
  <2> QED
    BY <2>1 DEF Changed
<1>2. /\ Good(d) /\ Shaped(d) /\ Resolving(d) /\ Unshared(d)
      /\ p \in Paths /\ p # <<>> /\ ~Ok(d, p) /\ parent \in AllKeys
      /\ Walk(d)[Front(p)] = Found(parent, "dir")
      /\ key \in Keys /\ d[key] = NoRecord /\ record.entries = NoEntries
  BY DEF Addable, Good
<1>3. Front(p) \in Paths /\ Front(p) # p /\ Ok(d, Front(p)) /\ Walk(d)[Front(p)].key = parent
  BY <1>2, PathParts DEF Ok, Found
<1>4. d[parent].del = 0
  <2>1. PICK k \in AllKeys : Walk(d)[Front(p)] = Found(k, d[k].type) /\ d[k].del = 0
    BY <1>2, <1>3, WalkFinds
  <2> QED
    BY <1>2, <2>1 DEF Found
<1> HIDE DEF e
<1>5. <<>> \in S
  BY <1>2, WalkRoot, PathTypes DEF Agree
<1>6. ASSUME NEW q \in Paths, q # <<>>, Front(q) \in S
      PROVE  q \in S
  <2>1. Front(q) \in Paths /\ Front(q) # q /\ Last(q) \in Names
    BY <1>6, PathParts
  <2>2. CASE Front(q) = p
    <3>1. ~Ok(d, q)
      BY <1>2, <1>6, <2>2, NothingBelow
    <3>2. Walk(e)[Front(q)] = Found(key, type) /\ e[key].entries = NoEntries
      BY <1>1, <1>2, <1>6, <2>2
    <3>3. ~Ok(e, q)
      BY <1>6, <3>2, NothingBelow
    <3> QED
      BY <2>1, <2>2, <3>1, <3>3 DEF Agree
  <2>3. CASE Front(q) # p /\ q = p
    <3>1. Walk(e)[Front(p)] = Found(parent, "dir")
      BY <1>2, <1>3, <1>6, <2>3 DEF Agree
    <3>2. Walk(e)[p] = Look(e, parent, Last(p))
      BY <1>2, <3>1, WalkStep DEF Step, Found
    <3>3. e[parent].entries[Last(p)] # NoEntry
      BY <1>1, <1>2, Keys1 DEF NoEntry
    <3>4. Walk(e)[p] = Found(key, type)
      BY <1>1, <1>4, <3>2, <3>3 DEF Look
    <3> QED
      BY <1>2, <2>3, <3>4
  <2>4. CASE Front(q) # p /\ q # p
    <3> DEFINE k == Walk(d)[Front(q)].key
    <3>1. ASSUME Ok(d, Front(q)), Walk(d)[Front(q)].type # "file"
          PROVE  e[k].del = d[k].del /\ e[k].entries[Last(q)] = d[k].entries[Last(q)]
      <4>1. k \in AllKeys /\ d[k].type = "dir"
        <5>1. PICK j \in AllKeys : /\ Walk(d)[Front(q)] = Found(j, d[j].type)
                                   /\ d[j].type \in {"dir", "file"}
          BY <1>2, <2>1, <3>1, WalkFinds
        <5> QED
          BY <3>1, <5>1 DEF Found
      <4>2. k # key
        BY <1>2, <4>1 DEF NoRecord, Record
      <4>3. CASE k = parent
        <5>1. Front(q) = Front(p)
          BY <1>2, <1>3, <2>1, <3>1, <4>3, WalksApart
        <5>2. Last(q) # Last(p)
          BY <1>2, <1>6, <2>4, <5>1, PathParts
        <5> QED
          BY <1>1, <2>1, <4>3, <5>2
      <4>4. CASE k # parent
        <5> HIDE DEF k
        <5> QED
          BY <1>1, <4>1, <4>2, <4>4
      <4> QED
        BY <4>3, <4>4
    <3>2. Agree(d, e, Front(q))
      BY <1>6, <2>4
    <3>3. Agree(d, e, q)
      BY <1>6, <3>1, <3>2, AgreeingStep
    <3> QED
      BY <2>4, <3>3
  <2> QED
    BY <2>2, <2>3, <2>4
<1> HIDE DEF S
<1>7. Paths \subseteq S
  BY <1>5, <1>6, PathInduction
<1> QED
  BY <1>2, <1>7 DEF S, e

\* The database stays good.
LEMMA AddedGood ==
  ASSUME NEW d, NEW p, NEW parent, NEW type, NEW key, NEW record,
         Addable(d, p, parent, type, key, record)
  PROVE  Good(Added(d, p, parent, type, key, record))
<1> DEFINE e == Added(d, p, parent, type, key, record)
           l == Last(p)
<1>1. /\ e \in Databases /\ parent # key /\ d[parent].type = "dir"
      /\ d[parent].entries[l] = NoEntry
      /\ e[key] = record
      /\ \A k \in AllKeys \ {parent, key} : e[k] = d[k]
      /\ e[parent].type = "dir" /\ e[parent].del = d[parent].del
      /\ e[parent].key = d[parent].key /\ e[parent].parent = d[parent].parent
      /\ e[parent].entries[l] = [key |-> key, type |-> type]
      /\ \A n \in Names \ {l} : e[parent].entries[n] = d[parent].entries[n]
  <2>1. /\ Changed(d, e, p, parent, [key |-> key, type |-> type], key, record)
        /\ d[parent].entries[l] = NoEntry
    BY AddedRecords
  <2> HIDE DEF e
  <2> QED
    BY <2>1 DEF Changed
<1>2. /\ Shaped(d) /\ Resolving(d) /\ Unshared(d) /\ Reached(d) /\ ParentsKnown(d)
      /\ p \in Paths /\ p # <<>> /\ ~Ok(d, p) /\ parent \in AllKeys
      /\ key \in Keys /\ d[key] = NoRecord /\ type \in {"dir", "file"}
      /\ record.type = type /\ record.del = 0 /\ record.entries = NoEntries
      /\ type = "dir" => record.key = key /\ record.parent = parent
  BY DEF Addable, Good
<1>3. Walk(e)[p] = Found(key, type) /\ \A q \in Paths \ {p} : Agree(d, e, q)
  BY AddedWalks
<1>4. l \in Names
  BY <1>2, PathParts
<1> HIDE DEF e, l
<1>5. d[key].entries = NoEntries /\ d[key].type = "none" /\ d[key].del = 0
  BY <1>2 DEF NoRecord, Record
<1>6. \A k \in AllKeys : k # key => /\ e[k].type = d[k].type /\ e[k].del = d[k].del
                                    /\ e[k].key = d[k].key /\ e[k].parent = d[k].parent
  BY <1>1
<1>7. \A k \in AllKeys, n \in Names :
        e[k].entries[n] = IF k = parent /\ n = l THEN [key |-> key, type |-> type]
                                                 ELSE d[k].entries[n]
  BY <1>1, <1>2, <1>5
<1>8. d \in Databases /\ e \in Databases
  BY <1>1, <1>2 DEF Shaped
<1>9. Shaped(e)
  <2>1. ASSUME NEW k \in AllKeys
        PROVE  /\ e[k].type = "none" => e[k] = NoRecord
               /\ e[k].type # "dir" => e[k].entries = NoEntries
               /\ e[k].del = 1 => e[k].type = "file"
    <3>1. CASE k = key
      BY <1>1, <1>2, <3>1
    <3>2. CASE k = parent
      <4>1. e[k].del # 1
        BY <1>1, <1>2, <3>2 DEF Shaped
      <4> QED
        BY <1>1, <3>2, <4>1
    <3>3. CASE k # key /\ k # parent
      BY <1>1, <1>2, <3>3 DEF Shaped
    <3> QED
      BY <3>1, <3>2, <3>3
  <2>2. e[RootKey].type = "dir"
    BY <1>2, <1>6, Keys1 DEF Shaped
  <2> QED
    BY <1>8, <2>1, <2>2 DEF Shaped
<1>10. Resolving(e)
  <2>1. ASSUME NEW k \in AllKeys, NEW n \in Names, e[k].entries[n] # NoEntry
        PROVE  /\ e[k].entries[n].key \in Keys
               /\ e[e[k].entries[n].key].type = e[k].entries[n].type
               /\ e[e[k].entries[n].key].del = 0
    <3>1. CASE k = parent /\ n = l
      BY <1>1, <1>2, <1>7, <3>1
    <3>2. CASE ~(k = parent /\ n = l)
      <4> DEFINE entry == d[k].entries[n]
      <4>1. entry # NoEntry /\ e[k].entries[n] = entry
        BY <1>7, <2>1, <3>2
      <4>2. entry.key \in Keys /\ d[entry.key].type = entry.type /\ d[entry.key].del = 0
        BY <1>2, <4>1 DEF Resolving
      <4>3. entry.type \in {"dir", "file"}
        BY <1>8, <4>1, EntryTypes
      <4>4. entry.key # key
        BY <1>5, <4>2, <4>3
      <4> HIDE DEF entry
      <4> QED
        BY <1>6, <4>1, <4>2, <4>4, Keys1
    <3> QED
      BY <3>1, <3>2
  <2> QED
    BY <2>1 DEF Resolving
<1>11. \A k \in AllKeys, n \in Names :
         /\ Target(e, k, n) = IF k = parent /\ n = l THEN key ELSE Target(d, k, n)
         /\ Target(d, k, n) # key
  <2>1. ASSUME NEW k \in AllKeys, NEW n \in Names PROVE Target(d, k, n) # key
    <3>1. CASE d[k].entries[n] = NoEntry
      BY <1>2, <3>1, Keys1 DEF Target, NoEntry
    <3>2. CASE d[k].entries[n] # NoEntry
      <4>1. d[k].entries[n].type \in {"dir", "file"}
        BY <1>8, <3>2, EntryTypes
      <4> QED
        BY <1>2, <1>5, <3>2, <4>1 DEF Resolving, Target
    <3> QED
      BY <3>1, <3>2
  <2> QED
    BY <1>7, <2>1 DEF Target
<1>12. Unshared(e)
  <2>1. ASSUME NEW j \in AllKeys, NEW k \in AllKeys, NEW m \in Names, NEW n \in Names,
               e[j].entries[m] # NoEntry, Target(e, j, m) = Target(e, k, n)
        PROVE  j = k /\ m = n
    <3>1. CASE j = parent /\ m = l
      BY <1>11, <2>1, <3>1
    <3>2. CASE ~(j = parent /\ m = l)
      <4>1. d[j].entries[m] # NoEntry /\ Target(d, j, m) = Target(d, k, n)
        BY <1>7, <1>11, <2>1, <3>2
      <4> QED
        BY <1>2, <4>1 DEF Unshared
    <3> QED
      BY <3>1, <3>2
  <2> QED
    BY <2>1 DEF Unshared
<1>13. Reached(e)
  <2>1. ASSUME NEW k \in Keys, e[k] # NoRecord, e[k].del = 0
        PROVE  \E q \in Paths : Walk(e)[q] = Found(k, e[k].type)
    <3>1. CASE k = key
      BY <1>1, <1>2, <1>3, <3>1
    <3>2. CASE k # key
      <4>1. d[k] # NoRecord /\ d[k].del = 0 /\ d[k].type = e[k].type
        <5>1. CASE k = parent
          BY <1>1, <2>1, <5>1 DEF NoRecord, Record
        <5>2. CASE k # parent
          BY <1>1, <2>1, <3>2, <5>2, Keys1
        <5> QED
          BY <5>1, <5>2
      <4>2. PICK q \in Paths : Walk(d)[q] = Found(k, d[k].type)
        BY <1>2, <4>1 DEF Reached
      <4>3. Ok(d, q)
        BY <4>2 DEF Ok, Found
      <4> QED
        BY <1>2, <1>3, <4>1, <4>2, <4>3 DEF Agree
    <3> QED
      BY <3>1, <3>2
  <2> QED
    BY <2>1 DEF Reached
<1>14. ParentsKnown(e)
  <2>1. ASSUME NEW k \in Keys, e[k].type = "dir"
        PROVE  /\ e[k].key = k /\ e[k].parent \in AllKeys
               /\ \E n \in Names : Target(e, e[k].parent, n) = k
    <3>1. CASE k = key
      <4>1. Target(e, parent, l) = key
        BY <1>2, <1>4, <1>11
      <4> QED
        BY <1>1, <1>2, <1>4, <2>1, <3>1, <4>1
    <3>2. CASE k # key
      <4>1. d[k].type = "dir" /\ e[k].key = d[k].key /\ e[k].parent = d[k].parent
        BY <1>6, <2>1, <3>2, Keys1
      <4>2. d[k].key = k /\ d[k].parent \in AllKeys
        BY <1>2, <4>1 DEF ParentsKnown
      <4>3. PICK n \in Names : Target(d, d[k].parent, n) = k
        BY <1>2, <4>1 DEF ParentsKnown
      <4>4. ~(d[k].parent = parent /\ n = l)
        BY <1>1, <4>3, Keys1 DEF Target, NoEntry
      <4>5. Target(e, d[k].parent, n) = k
        BY <1>11, <4>2, <4>3, <4>4
      <4> QED
        BY <4>1, <4>2, <4>5
    <3> QED
      BY <3>1, <3>2
  <2> QED
    BY <2>1 DEF ParentsKnown
<1> QED
  BY <1>9, <1>10, <1>12, <1>13, <1>14 DEF Good, e
-----------------------------------------------------------------------------
(* A record is erased *)

\* The database d without the entry of p, and with a record under its key.
Erased(d, p, parent, key, record) ==
  [d EXCEPT ![parent].entries[Last(p)] = NoEntry, ![key] = record]

\* What may be erased, and what is left of it: an empty directory and a file
\* go, and a file may stay behind as a deleted one.
Erasable(d, p, parent, key, record) ==
  /\ Good(d) /\ p \in Paths /\ p # <<>> /\ Ok(d, p) /\ Walk(d)[p].key = key
  /\ parent = Walk(d)[Front(p)].key
  /\ d[key].entries = NoEntries
  /\ \/ record = NoRecord
     \/ d[key].type = "file" /\ record = [d[key] EXCEPT !.del = 1]

LEMMA ErasedRecords ==
  ASSUME NEW d, NEW p, NEW parent, NEW key, NEW record, Erasable(d, p, parent, key, record)
  PROVE  /\ Changed(d, Erased(d, p, parent, key, record), p, parent, NoEntry, key, record)
         /\ Walk(d)[p] = Found(key, d[key].type) /\ Walk(d)[Front(p)] = Found(parent, "dir")
         /\ key \in Keys /\ parent \in AllKeys /\ Target(d, parent, Last(p)) = key
         /\ record \in Records /\ record.entries = NoEntries /\ record # d[key]
         /\ record.type # "dir"
<1> USE DEF Erasable
<1>1. /\ Shaped(d) /\ Resolving(d) /\ Unshared(d) /\ d \in Databases
      /\ Front(p) \in Paths /\ Front(p) # p
  BY PathParts DEF Good, Shaped
<1>2. /\ key \in Keys /\ Walk(d)[p] = Found(key, d[key].type)
      /\ d[key].type \in {"dir", "file"} /\ d[key].del = 0
  <2>1. PICK k \in AllKeys : /\ Walk(d)[p] = Found(k, d[k].type)
                             /\ d[k].type \in {"dir", "file"} /\ d[k].del = 0
                             /\ p # <<>> => k \in Keys
    BY <1>1, WalkFinds
  <2> QED
    BY <2>1 DEF Found
<1>3. PICK k \in AllKeys : /\ Walk(d)[Front(p)] = Found(k, "dir")
                           /\ d[k].entries[Last(p)] # NoEntry
                           /\ Walk(d)[p] = Found(Target(d, k, Last(p)), d[k].entries[Last(p)].type)
  BY <1>1, LastStep
<1>4. parent = k /\ Target(d, k, Last(p)) = key
  BY <1>3 DEF Found
<1>5. Ok(d, Front(p))
  BY <1>3 DEF Ok, Found
<1>6. d[parent].type = "dir"
  <2>1. PICK j \in AllKeys : Walk(d)[Front(p)] = Found(j, d[j].type)
    BY <1>1, <1>5, WalkFinds
  <2> QED
    BY <1>3, <1>4, <2>1 DEF Found
<1>7. parent # key
  BY <1>1, <1>5, WalksApart
<1>8. record \in Records /\ record.entries = NoEntries /\ record # d[key] /\ record.type # "dir"
  <2>1. NoRecord \in Records /\ NoRecord.entries = NoEntries /\ NoRecord.type = "none"
    BY DEF NoRecord, Record, Records, NoEntries, Entries
  <2>2. CASE record = NoRecord
    BY <1>2, <2>1, <2>2
  <2>3. CASE d[key].type = "file" /\ record = [d[key] EXCEPT !.del = 1]
    <3>1. d[key] \in Records
      BY <1>1, <1>2, Keys1 DEF Databases
    <3>2. /\ record \in Records /\ record.entries = d[key].entries /\ record.type = d[key].type
          /\ record.del = 1
      BY <2>3, <3>1 DEF Records
    <3>3. record # d[key] /\ record.entries = NoEntries
      <4> HIDE DEF Erasable
      <4>1. d[key].entries = NoEntries
        BY DEF Erasable
      <4> QED
        BY <1>2, <3>2, <4>1
    <3> QED
      BY <2>3, <3>2, <3>3
  <2> QED
    BY <2>2, <2>3
<1>9. Changed(d, Erased(d, p, parent, key, record), p, parent, NoEntry, key, record)
  BY <1>1, <1>2, <1>3, <1>4, <1>6, <1>7, <1>8, Keys1, ChangedRecords DEF Erased
<1> QED
  BY <1>2, <1>3, <1>4, <1>8, <1>9

\* The path that is given is gone, and no other path.
LEMMA ErasedWalks ==
  ASSUME NEW d, NEW p, NEW parent, NEW key, NEW record, Erasable(d, p, parent, key, record)
  PROVE  LET e == Erased(d, p, parent, key, record)
         IN  ~Ok(e, p) /\ \A q \in Paths \ {p} : Agree(d, e, q)
<1> DEFINE e == Erased(d, p, parent, key, record)
           S == {q \in Paths : IF q = p THEN ~Ok(e, q) ELSE Agree(d, e, q)}
<1>1. /\ Walk(d)[p] = Found(key, d[key].type) /\ Walk(d)[Front(p)] = Found(parent, "dir")
      /\ key \in Keys /\ parent \in AllKeys
      /\ parent # key /\ e[key] = record
      /\ \A k \in AllKeys \ {parent, key} : e[k] = d[k]
      /\ e[parent].del = d[parent].del
      /\ e[parent].entries[Last(p)] = NoEntry
      /\ \A n \in Names \ {Last(p)} : e[parent].entries[n] = d[parent].entries[n]
  <2>1. /\ Changed(d, e, p, parent, NoEntry, key, record)
        /\ Walk(d)[p] = Found(key, d[key].type) /\ Walk(d)[Front(p)] = Found(parent, "dir")
        /\ key \in Keys /\ parent \in AllKeys
    BY ErasedRecords
  <2> HIDE DEF e
  <2> QED
    BY <2>1 DEF Changed
<1>2. /\ Shaped(d) /\ Resolving(d) /\ Unshared(d)
      /\ p \in Paths /\ p # <<>> /\ Ok(d, p) /\ Walk(d)[p].key = key
      /\ d[key].entries = NoEntries
  BY DEF Erasable, Good
<1>3. Front(p) \in Paths /\ Front(p) # p /\ Ok(d, Front(p)) /\ Walk(d)[Front(p)].key = parent
  BY <1>1, <1>2, PathParts DEF Ok, Found
<1> HIDE DEF e
<1>4. <<>> \in S
  BY <1>2, WalkRoot, PathTypes DEF Agree
<1>5. ASSUME NEW q \in Paths, q # <<>>, Front(q) \in S
      PROVE  q \in S
  <2>1. Front(q) \in Paths /\ Front(q) # q /\ Last(q) \in Names
    BY <1>5, PathParts
  <2>2. CASE Front(q) = p
    <3>1. ~Ok(d, q)
      BY <1>1, <1>2, <1>5, <2>2, NothingBelow
    <3>2. ~Ok(e, Front(q))
      BY <1>5, <2>2
    <3>3. ~Ok(e, q)
      BY <1>5, <3>2, NothingBelow
    <3> QED
      BY <2>1, <2>2, <3>1, <3>3 DEF Agree
  <2>3. CASE Front(q) # p /\ q = p
    <3>1. Walk(e)[Front(p)] = Found(parent, "dir")
      BY <1>1, <1>3, <1>5, <2>3 DEF Agree
    <3>2. Walk(e)[p] = Look(e, parent, Last(p))
      BY <1>2, <3>1, WalkStep DEF Step, Found
    <3>3. ~Ok(e, p)
      BY <1>1, <3>2 DEF Look, Ok, Error
    <3> QED
      BY <1>2, <2>3, <3>3
  <2>4. CASE Front(q) # p /\ q # p
    <3> DEFINE k == Walk(d)[Front(q)].key
    <3>1. ASSUME Ok(d, Front(q)), Walk(d)[Front(q)].type # "file"
          PROVE  e[k].del = d[k].del /\ e[k].entries[Last(q)] = d[k].entries[Last(q)]
      <4>1. k \in AllKeys
        <5>1. PICK j \in AllKeys : Walk(d)[Front(q)] = Found(j, d[j].type)
          BY <1>2, <2>1, <3>1, WalkFinds
        <5> QED
          BY <5>1 DEF Found
      <4>2. k # key
        BY <1>2, <2>1, <2>4, <3>1, WalksApart
      <4>3. CASE k = parent
        <5>1. Front(q) = Front(p)
          BY <1>2, <1>3, <2>1, <3>1, <4>3, WalksApart
        <5>2. Last(q) # Last(p)
          BY <1>2, <1>5, <2>4, <5>1, PathParts
        <5> QED
          BY <1>1, <2>1, <4>3, <5>2
      <4>4. CASE k # parent
        <5> HIDE DEF k
        <5> QED
          BY <1>1, <4>1, <4>2, <4>4
      <4> QED
        BY <4>3, <4>4
    <3>2. Agree(d, e, Front(q))
      BY <1>5, <2>4
    <3>3. Agree(d, e, q)
      BY <1>5, <3>1, <3>2, AgreeingStep
    <3> QED
      BY <2>4, <3>3
  <2> QED
    BY <2>2, <2>3, <2>4
<1> HIDE DEF S
<1>6. Paths \subseteq S
  BY <1>4, <1>5, PathInduction
<1> QED
  BY <1>2, <1>6 DEF S, e

\* The database stays good.
LEMMA ErasedGood ==
  ASSUME NEW d, NEW p, NEW parent, NEW key, NEW record, Erasable(d, p, parent, key, record)
  PROVE  Good(Erased(d, p, parent, key, record))
<1> DEFINE e == Erased(d, p, parent, key, record)
           l == Last(p)
<1>1. /\ Walk(d)[p] = Found(key, d[key].type)
      /\ key \in Keys /\ parent \in AllKeys /\ Target(d, parent, l) = key
      /\ record \in Records /\ record.entries = NoEntries /\ record.type # "dir"
      /\ e \in Databases /\ parent # key /\ d[parent].type = "dir" /\ e[key] = record
      /\ \A k \in AllKeys \ {parent, key} : e[k] = d[k]
      /\ e[parent].type = "dir" /\ e[parent].del = d[parent].del
      /\ e[parent].key = d[parent].key /\ e[parent].parent = d[parent].parent
      /\ e[parent].entries[l] = NoEntry
      /\ \A n \in Names \ {l} : e[parent].entries[n] = d[parent].entries[n]
  <2>1. /\ Changed(d, e, p, parent, NoEntry, key, record)
        /\ Walk(d)[p] = Found(key, d[key].type)
        /\ key \in Keys /\ parent \in AllKeys /\ Target(d, parent, l) = key
        /\ record \in Records /\ record.entries = NoEntries /\ record.type # "dir"
    BY ErasedRecords
  <2> HIDE DEF e
  <2> QED
    BY <2>1 DEF Changed
<1>2. /\ Shaped(d) /\ Resolving(d) /\ Unshared(d) /\ Reached(d) /\ ParentsKnown(d)
      /\ p \in Paths /\ p # <<>> /\ Ok(d, p) /\ Walk(d)[p].key = key
      /\ d[key].entries = NoEntries
      /\ \/ record = NoRecord
         \/ d[key].type = "file" /\ record = [d[key] EXCEPT !.del = 1]
  BY DEF Erasable, Good
<1>3. \A q \in Paths \ {p} : Agree(d, e, q)
  BY ErasedWalks
<1>4. l \in Names
  BY <1>2, PathParts
<1> HIDE DEF e, l
<1>5. \A k \in AllKeys : k # key => /\ e[k].type = d[k].type /\ e[k].del = d[k].del
                                    /\ e[k].key = d[k].key /\ e[k].parent = d[k].parent
  BY <1>1
<1>6. \A k \in AllKeys, n \in Names :
        e[k].entries[n] = IF k = parent /\ n = l THEN NoEntry ELSE d[k].entries[n]
  BY <1>1, <1>2
<1>7. d \in Databases /\ e \in Databases
  BY <1>1, <1>2 DEF Shaped
\* Nothing else leads to what was erased.
<1>8. \A k \in AllKeys, n \in Names : Target(e, k, n) # key /\ (Target(e, k, n) \in Keys =>
                                        Target(e, k, n) = Target(d, k, n))
  <2>1. ASSUME NEW k \in AllKeys, NEW n \in Names, ~(k = parent /\ n = l), Target(d, k, n) = key
        PROVE  FALSE
    <3>1. Target(d, k, n) = Target(d, parent, l) /\ d[k].entries[n] # NoEntry
      BY <1>1, <2>1, Keys1 DEF Target, NoEntry
    <3> QED
      BY <1>1, <1>2, <1>4, <2>1, <3>1 DEF Unshared
  <2>2. NoEntry.key = NoKey /\ NoKey \notin Keys
    BY Keys1 DEF NoEntry
  <2> QED
    BY <1>1, <1>6, <2>1, <2>2 DEF Target
<1>9. Shaped(e)
  <2>1. ASSUME NEW k \in AllKeys
        PROVE  /\ e[k].type = "none" => e[k] = NoRecord
               /\ e[k].type # "dir" => e[k].entries = NoEntries
               /\ e[k].del = 1 => e[k].type = "file"
    <3>1. CASE k = key /\ record = NoRecord
      BY <1>1, <3>1 DEF NoRecord, Record
    <3>2. CASE k = key /\ d[key].type = "file" /\ record = [d[key] EXCEPT !.del = 1]
      <4>1. record.type = "file"
        BY <1>1, <1>7, <3>2, Keys1 DEF Databases, Records
      <4> QED
        BY <1>1, <3>2, <4>1
    <3>3. CASE k = parent
      <4>1. e[k].del # 1
        BY <1>1, <1>2, <3>3 DEF Shaped
      <4> QED
        BY <1>1, <3>3, <4>1
    <3>4. CASE k # key /\ k # parent
      BY <1>1, <1>2, <3>4 DEF Shaped
    <3> QED
      BY <1>2, <3>1, <3>2, <3>3, <3>4
  <2>2. e[RootKey].type = "dir"
    BY <1>1, <1>2, <1>5, Keys1 DEF Shaped
  <2> QED
    BY <1>7, <2>1, <2>2 DEF Shaped
<1>10. Resolving(e)
  <2>1. ASSUME NEW k \in AllKeys, NEW n \in Names, e[k].entries[n] # NoEntry
        PROVE  /\ e[k].entries[n].key \in Keys
               /\ e[e[k].entries[n].key].type = e[k].entries[n].type
               /\ e[e[k].entries[n].key].del = 0
    <3>1. e[k].entries[n] = d[k].entries[n]
      BY <1>6, <2>1
    <3>2. e[k].entries[n].key # key
      BY <1>8 DEF Target
    <3> QED
      BY <1>2, <1>5, <2>1, <3>1, <3>2, Keys1 DEF Resolving
  <2> QED
    BY <2>1 DEF Resolving
<1>11. Unshared(e)
  <2>1. ASSUME NEW j \in AllKeys, NEW k \in AllKeys, NEW m \in Names, NEW n \in Names,
               e[j].entries[m] # NoEntry, Target(e, j, m) = Target(e, k, n)
        PROVE  j = k /\ m = n
    <3>1. Target(e, j, m) \in Keys
      BY <1>10, <2>1 DEF Resolving, Target
    <3>2. d[j].entries[m] # NoEntry /\ Target(d, j, m) = Target(d, k, n)
      BY <1>6, <1>8, <2>1, <3>1
    <3> QED
      BY <1>2, <3>2 DEF Unshared
  <2> QED
    BY <2>1 DEF Unshared
<1>12. Reached(e)
  <2>1. ASSUME NEW k \in Keys, e[k] # NoRecord, e[k].del = 0
        PROVE  \E q \in Paths : Walk(e)[q] = Found(k, e[k].type)
    <3>1. k # key
      <4>1. [d[key] EXCEPT !.del = 1].del = 1
        BY <1>1, <1>7, Keys1 DEF Databases, Records
      <4>2. record = NoRecord \/ record.del = 1
        BY <1>2, <4>1
      <4>3. e[key] = NoRecord \/ e[key].del # 0
        BY <1>1, <4>2
      <4> QED
        BY <2>1, <4>3
    <3>2. d[k] # NoRecord /\ d[k].del = 0 /\ d[k].type = e[k].type
      <4>1. CASE k = parent
        BY <1>1, <2>1, <4>1 DEF NoRecord, Record
      <4>2. CASE k # parent
        BY <1>1, <2>1, <3>1, <4>2, Keys1
      <4> QED
        BY <4>1, <4>2
    <3>3. PICK q \in Paths : Walk(d)[q] = Found(k, d[k].type)
      BY <1>2, <3>2 DEF Reached
    <3>4. Ok(d, q) /\ q # p
      BY <1>2, <3>1, <3>3 DEF Ok, Found
    <3> QED
      BY <1>3, <3>2, <3>3, <3>4 DEF Agree
  <2> QED
    BY <2>1 DEF Reached
<1>13. ParentsKnown(e)
  <2>1. ASSUME NEW k \in Keys, e[k].type = "dir"
        PROVE  /\ e[k].key = k /\ e[k].parent \in AllKeys
               /\ \E n \in Names : Target(e, e[k].parent, n) = k
    <3>1. k # key
      BY <1>1, <2>1
    <3>2. d[k].type = "dir" /\ e[k].key = d[k].key /\ e[k].parent = d[k].parent
      BY <1>5, <2>1, <3>1, Keys1
    <3>3. d[k].key = k /\ d[k].parent \in AllKeys
      BY <1>2, <3>2 DEF ParentsKnown
    <3>4. PICK n \in Names : Target(d, d[k].parent, n) = k
      BY <1>2, <3>2 DEF ParentsKnown
    <3>5. ~(d[k].parent = parent /\ n = l)
      BY <1>1, <3>1, <3>4
    <3>6. Target(e, d[k].parent, n) = k
      BY <1>6, <3>3, <3>4, <3>5 DEF Target
    <3> QED
      BY <3>2, <3>3, <3>6
  <2> QED
    BY <2>1 DEF ParentsKnown
<1> QED
  BY <1>9, <1>10, <1>11, <1>12, <1>13 DEF Good, e
-----------------------------------------------------------------------------
(* A deleted record is dropped *)

\* No path leads to a deleted record, so that dropping it changes no walk and
\* leaves the database good.
LEMMA Dropped ==
  ASSUME NEW d, Good(d), NEW key \in Keys, d[key].del = 1
  PROVE  LET e == [d EXCEPT ![key] = NoRecord]
         IN  Good(e) /\ \A q \in Paths : Agree(d, e, q)
<1> DEFINE e == [d EXCEPT ![key] = NoRecord]
<1>1. /\ Shaped(d) /\ Resolving(d) /\ Unshared(d) /\ Reached(d) /\ ParentsKnown(d)
      /\ d \in Databases /\ key \in AllKeys
  BY Keys1 DEF Good, Shaped
<1>2. NoRecord \in Records /\ NoRecord.entries = NoEntries /\ NoRecord.type = "none" /\ NoRecord.del = 0
  BY DEF NoRecord, Record, Records, NoEntries, Entries
<1>3. /\ e \in Databases /\ e[key] = NoRecord /\ \A k \in AllKeys \ {key} : e[k] = d[k]
  BY <1>1, <1>2 DEF Databases
<1> HIDE DEF e
<1>4. d[key].type = "file" /\ d[key].entries = NoEntries
  BY <1>1 DEF Shaped
<1>5. \A k \in AllKeys : e[k].entries = d[k].entries
  BY <1>2, <1>3, <1>4
<1>6. \A k \in AllKeys, n \in Names : d[k].entries[n] # NoEntry => d[k].entries[n].key # key
  <2>1. ASSUME NEW k \in AllKeys, NEW n \in Names, d[k].entries[n] # NoEntry
        PROVE  d[k].entries[n].key # key
    <3>1. d[d[k].entries[n].key].del = 0
      BY <1>1, <2>1 DEF Resolving
    <3> QED
      BY <3>1
  <2> QED
    BY <2>1
<1>7. Shaped(e)
  <2>1. e[RootKey].type = "dir"
    BY <1>1, <1>3, Keys1 DEF Shaped
  <2>2. ASSUME NEW k \in AllKeys
        PROVE  /\ e[k].type = "none" => e[k] = NoRecord
               /\ e[k].type # "dir" => e[k].entries = NoEntries
               /\ e[k].del = 1 => e[k].type = "file"
    <3>1. CASE k = key
      BY <1>2, <1>3, <3>1
    <3>2. CASE k # key
      BY <1>1, <1>3, <3>2 DEF Shaped
    <3> QED
      BY <3>1, <3>2
  <2> QED
    BY <1>3, <2>1, <2>2 DEF Shaped
<1>8. Resolving(e)
  <2>1. ASSUME NEW k \in AllKeys, NEW n \in Names, e[k].entries[n] # NoEntry
        PROVE  /\ e[k].entries[n].key \in Keys
               /\ e[e[k].entries[n].key].type = e[k].entries[n].type
               /\ e[e[k].entries[n].key].del = 0
    <3>1. e[k].entries[n] = d[k].entries[n] /\ d[k].entries[n].key # key
      BY <1>5, <1>6, <2>1
    <3>2. /\ d[k].entries[n].key \in Keys
          /\ d[d[k].entries[n].key].type = d[k].entries[n].type
          /\ d[d[k].entries[n].key].del = 0
      BY <1>1, <2>1, <3>1 DEF Resolving
    <3> QED
      BY <1>3, <3>1, <3>2, Keys1
  <2> QED
    BY <2>1 DEF Resolving
<1>9. Unshared(e)
  BY <1>1, <1>5 DEF Unshared, Target
<1>10. ASSUME NEW q \in Paths PROVE Agree(d, e, q)
  <2> DEFINE S == {a \in Paths : Agree(d, e, a)}
  <2>1. <<>> \in S
    BY WalkRoot, PathTypes DEF Agree
  <2>2. ASSUME NEW a \in Paths, a # <<>>, Front(a) \in S PROVE a \in S
    <3> DEFINE k == Walk(d)[Front(a)].key
    <3>1. ASSUME Ok(d, Front(a))
          PROVE  e[k].del = d[k].del /\ e[k].entries[Last(a)] = d[k].entries[Last(a)]
      <4>1. PICK j \in AllKeys : Walk(d)[Front(a)] = Found(j, d[j].type) /\ d[j].del = 0
        BY <1>1, <2>2, <3>1, WalkFinds, PathParts
      <4>2. k = j /\ j # key
        BY <4>1 DEF Found
      <4> QED
        BY <1>3, <4>1, <4>2
    <3> QED
      BY <2>2, <3>1, AgreeingStep
  <2> HIDE DEF S
  <2>3. q \in S
    BY <2>1, <2>2, PathInduction
  <2> QED
    BY <2>3 DEF S
<1>11. Reached(e)
  <2>1. ASSUME NEW k \in Keys, e[k] # NoRecord, e[k].del = 0
        PROVE  \E q \in Paths : Walk(e)[q] = Found(k, e[k].type)
    <3>1. k # key /\ e[k] = d[k]
      BY <1>3, <2>1, Keys1
    <3>2. PICK q \in Paths : Walk(d)[q] = Found(k, d[k].type)
      BY <1>1, <2>1, <3>1 DEF Reached
    <3>3. Ok(d, q)
      BY <3>2 DEF Ok, Found
    <3> QED
      BY <1>10, <3>1, <3>2, <3>3 DEF Agree
  <2> QED
    BY <2>1 DEF Reached
<1>12. ParentsKnown(e)
  <2>1. ASSUME NEW k \in Keys, e[k].type = "dir"
        PROVE  /\ e[k].key = k /\ e[k].parent \in AllKeys
               /\ \E n \in Names : Target(e, e[k].parent, n) = k
    <3>1. k # key /\ e[k] = d[k]
      BY <1>2, <1>3, <2>1, Keys1
    <3>2. /\ d[k].key = k /\ d[k].parent \in AllKeys
          /\ \E n \in Names : Target(d, d[k].parent, n) = k
      BY <1>1, <2>1, <3>1 DEF ParentsKnown
    <3> QED
      BY <1>5, <3>1, <3>2 DEF Target
  <2> QED
    BY <2>1 DEF ParentsKnown
<1> QED
  BY <1>7, <1>8, <1>9, <1>10, <1>11, <1>12 DEF Good, e
-----------------------------------------------------------------------------
(* The invariant *)

\* What open_file_table and fd_table say of each other and of the records: an
\* open file has its record, and knows when that record is marked.
OpenFilesKnown ==
  \A k \in AllKeys :
    /\ open_file_table[k].refcnt = Cardinality(OpenFds(k))
    /\ open_file_table[k].refcnt = 0 => open_file_table[k] = NotOpen
    /\ OpenFds(k) # {} => db[k].type = "file" /\ k \in Keys
    /\ OpenFds(k) # {} /\ db[k].del = 1 => open_file_table[k].deleted

IInv == TablesTyped /\ Good(db) /\ OpenFilesKnown

\* The set of the descriptors of a file is finite.
LEMMA OpenFdsFinite ==
  ASSUME NEW k
  PROVE  /\ OpenFds(k) \subseteq Fds /\ IsFiniteSet(OpenFds(k)) /\ Cardinality(OpenFds(k)) \in Nat
         /\ Cardinality(OpenFds(k)) = 0 <=> OpenFds(k) = {}
<1>1. IsFiniteSet(Fds)
  BY FS_Interval, RocksFSAssumption DEF Fds
<1>2. OpenFds(k) \subseteq Fds
  BY DEF OpenFds
<1>3. IsFiniteSet(OpenFds(k))
  BY <1>1, <1>2, FS_Subset
<1> QED
  BY <1>2, <1>3, FS_CardinalityType, FS_EmptySet

\* is_file_open says whether a descriptor is open on the file.
LEMMA OpenMeansDescriptors ==
  ASSUME OpenFilesKnown, NEW k \in AllKeys
  PROVE  is_file_open(k) <=> OpenFds(k) # {}
<1>1. Cardinality(OpenFds(k)) = 0 <=> OpenFds(k) = {}
  BY OpenFdsFinite
<1>2. NotOpen.refcnt = 0
  BY DEF NotOpen
<1> QED
  BY <1>1, <1>2 DEF OpenFilesKnown, is_file_open

\* fd_allocate finds the lowest free descriptor.
LEMMA FdAllocated ==
  ASSUME \E fd \in Fds : fd_table[fd] = NoKey
  PROVE  /\ fd_allocate \in Fds /\ fd_table[fd_allocate] = NoKey
         /\ \A lower \in 0..(fd_allocate - 1) : fd_table[lower] # NoKey
<1> DEFINE Free == {fd \in Fds : fd_table[fd] = NoKey}
<1>1. Free \in SUBSET Nat /\ Free # {}
  BY RocksFSAssumption DEF Fds
<1>2. PICK fd \in Free : \A other \in Free : fd <= other
  <2> HIDE DEF Free
  <2> QED
    BY <1>1, LeastElement
<1>3. \A lower \in 0..(fd - 1) : lower \in Fds /\ ~(fd <= lower)
  BY <1>2, RocksFSAssumption DEF Fds
<1>4. \A lower \in 0..(fd - 1) : fd_table[lower] # NoKey
  BY <1>2, <1>3
<1> QED
  BY <1>2, <1>4 DEF fd_allocate
-----------------------------------------------------------------------------
(* The calls *)

\* What mkdir and create do: one addition.
LEMMA MkdirAdds ==
  ASSUME IInv, NEW p \in Paths, mkdir(p)
  PROVE  \E key \in NewKeys, record \in Records :
           /\ Addable(db, p, ParentKey(p), "dir", key, record)
           /\ db' = Added(db, p, ParentKey(p), "dir", key, record)
<1>1. namei = Walk(db)
  BY NameiWalks
<1>2. PICK key \in NewKeys :
        db' = Add(p, "dir", key, dir_json_init(key, ParentKey(p)))
  BY DEF mkdir, Written
<1> DEFINE record == dir_json_init(key, ParentKey(p))
<1>3. Good(db) /\ Shaped(db) /\ Resolving(db)
  BY DEF IInv, Good
<1>4. p # <<>> /\ ~Ok(db, p) /\ Ok(db, Front(p)) /\ Walk(db)[Front(p)].type = "dir" /\ Front(p) \in Paths
  BY <1>1, PathParts DEF mkdir, HasParent, Exists, Ok
<1>5. PICK k \in AllKeys : Walk(db)[Front(p)] = Found(k, db[k].type)
  BY <1>3, <1>4, WalkFinds
<1>6. ParentKey(p) \in AllKeys /\ Walk(db)[Front(p)] = Found(ParentKey(p), "dir")
  BY <1>1, <1>4, <1>5 DEF ParentKey, Found
<1>7. key \in Keys /\ key \in AllKeys /\ db[key] = NoRecord
  BY Keys1 DEF NewKeys
<1>8. /\ record \in Records /\ record.type = "dir" /\ record.del = 0 /\ record.entries = NoEntries
      /\ record.key = key /\ record.parent = ParentKey(p)
  BY <1>6, <1>7 DEF dir_json_init, Record, Records, NoEntries, Entries
<1>9. db' = Added(db, p, ParentKey(p), "dir", key, record)
  BY <1>2 DEF Add, Added
<1> HIDE DEF record
<1>10. Addable(db, p, ParentKey(p), "dir", key, record)
  BY <1>3, <1>4, <1>6, <1>7, <1>8 DEF Addable
<1> QED
  BY <1>8, <1>9, <1>10

LEMMA CreateAdds ==
  ASSUME IInv, NEW p \in Paths, create(p)
  PROVE  \E key \in NewKeys, record \in Records :
           /\ Addable(db, p, ParentKey(p), "file", key, record)
           /\ db' = Added(db, p, ParentKey(p), "file", key, record)
<1>1. namei = Walk(db)
  BY NameiWalks
<1>2. PICK key \in NewKeys :
        db' = Add(p, "file", key, file_json_init(ParentKey(p), key))
  BY DEF create, Written
<1> DEFINE record == file_json_init(ParentKey(p), key)
<1>3. Good(db) /\ Shaped(db) /\ Resolving(db)
  BY DEF IInv, Good
<1>4. p # <<>> /\ ~Ok(db, p) /\ Ok(db, Front(p)) /\ Walk(db)[Front(p)].type = "dir" /\ Front(p) \in Paths
  BY <1>1, PathParts DEF create, HasParent, Exists, Ok
<1>5. PICK k \in AllKeys : Walk(db)[Front(p)] = Found(k, db[k].type)
  BY <1>3, <1>4, WalkFinds
<1>6. ParentKey(p) \in AllKeys /\ Walk(db)[Front(p)] = Found(ParentKey(p), "dir")
  BY <1>1, <1>4, <1>5 DEF ParentKey, Found
<1>7. key \in Keys /\ key \in AllKeys /\ db[key] = NoRecord
  BY Keys1 DEF NewKeys
<1>8. record \in Records /\ record.type = "file" /\ record.del = 0 /\ record.entries = NoEntries
  BY <1>6, <1>7 DEF file_json_init, Record, Records, NoEntries, Entries
<1>9. db' = Added(db, p, ParentKey(p), "file", key, record)
  BY <1>2 DEF Add, Added
<1> HIDE DEF record
<1>10. Addable(db, p, ParentKey(p), "file", key, record)
  BY <1>3, <1>4, <1>6, <1>7, <1>8 DEF Addable
<1> QED
  BY <1>8, <1>9, <1>10

\* What rmdir and unlink erase: one path, and its record unless it is a file
\* that is open.
LEMMA RmdirErases ==
  ASSUME IInv, NEW p \in Paths, rmdir(p)
  PROVE  /\ Erasable(db, p, ParentKey(p), Walk(db)[p].key, NoRecord)
         /\ db' = Erased(db, p, ParentKey(p), Walk(db)[p].key, NoRecord)
         /\ Walk(db)[p].type = "dir"
<1>1. namei = Walk(db)
  BY NameiWalks
<1>2. /\ p # <<>> /\ Ok(db, p) /\ Walk(db)[p].type = "dir"
      /\ db[Walk(db)[p].key].entries = NoEntries
  BY <1>1 DEF rmdir, Exists, is_dir_empty, Ok
<1>3. db' = Erased(db, p, ParentKey(p), Walk(db)[p].key, NoRecord)
  BY <1>1 DEF rmdir, Written, Erase, Erased
<1>4. Good(db) /\ ParentKey(p) = Walk(db)[Front(p)].key
  BY <1>1 DEF IInv, ParentKey
<1> QED
  BY <1>2, <1>3, <1>4 DEF Erasable

LEMMA UnlinkErases ==
  ASSUME IInv, NEW p \in Paths, unlink(p)
  PROVE  LET key == Walk(db)[p].key
             record == IF is_file_open(key) THEN [db[key] EXCEPT !.del = 1] ELSE NoRecord
         IN  /\ Erasable(db, p, ParentKey(p), key, record)
             /\ db' = Erased(db, p, ParentKey(p), key, record) \/ db' = db
             /\ open_file_table' = IF is_file_open(key) THEN mark_file_deleted(key)
                                   ELSE open_file_table
             /\ Ok(db, p) /\ db[key].type = "file" /\ Walk(db)[p].type = "file"
<1> DEFINE key == Walk(db)[p].key
           record == IF is_file_open(key) THEN [db[key] EXCEPT !.del = 1] ELSE NoRecord
<1>1. namei = Walk(db)
  BY NameiWalks
<1>2. Ok(db, p) /\ Walk(db)[p].type = "file"
  BY <1>1 DEF unlink, Exists, Ok
<1>3. /\ db' = Erased(db, p, ParentKey(p), key, record) \/ db' = db
      /\ open_file_table' = IF is_file_open(key) THEN mark_file_deleted(key) ELSE open_file_table
  BY <1>1 DEF unlink, Written, WriteFails, Erase, Erased
<1>4. p # <<>>
  BY <1>2, WalkRoot DEF Found
<1>5. Good(db) /\ Shaped(db) /\ Resolving(db)
  BY DEF IInv, Good
<1>6. key \in AllKeys /\ db[key].type = "file"
  <2>1. PICK k \in AllKeys : Walk(db)[p] = Found(k, db[k].type)
    BY <1>2, <1>5, WalkFinds
  <2> QED
    BY <1>2, <2>1 DEF Found
<1>7. db[key].entries = NoEntries
  BY <1>5, <1>6 DEF Shaped
<1>8. ParentKey(p) = Walk(db)[Front(p)].key
  BY <1>1 DEF ParentKey
<1>9. Erasable(db, p, ParentKey(p), key, record)
  <2>1. record = NoRecord \/ (db[key].type = "file" /\ record = [db[key] EXCEPT !.del = 1])
    BY <1>6
  <2> HIDE DEF record, key
  <2>2. Walk(db)[p].key = key
    BY DEF key
  <2> QED
    BY <1>2, <1>4, <1>5, <1>7, <1>8, <2>1, <2>2 DEF Erasable
<1> QED
  BY <1>2, <1>3, <1>6, <1>9

\* What close does to the database: nothing, or it drops a deleted record.
LEMMA CloseDrops ==
  ASSUME NEW fd \in Fds, close(fd)
  PROVE  LET key == fd_table[fd]
         IN  db' = db \/ (db[key].del = 1 /\ db' = [db EXCEPT ![key] = NoRecord])
  BY DEF close, Written, WriteFails

\* The file that a path leads to.
LEMMA OpenFinds ==
  ASSUME IInv, NEW p \in Paths, open(p)
  PROVE  namei[p].key \in Keys /\ db[namei[p].key].type = "file" /\ db[namei[p].key].del = 0
<1>1. Shaped(db) /\ Resolving(db) /\ Ok(db, p) /\ Walk(db)[p].type = "file" /\ namei = Walk(db)
  BY NameiWalks DEF IInv, Good, open, Exists, Ok
<1>2. p # <<>>
  BY <1>1, WalkRoot DEF Found
<1>3. PICK k \in AllKeys : /\ Walk(db)[p] = Found(k, db[k].type) /\ db[k].del = 0
                           /\ p # <<>> => k \in Keys
  BY <1>1, WalkFinds
<1> QED
  BY <1>1, <1>2, <1>3 DEF Found

\* Opening adds a descriptor to one file, and closing takes one from it.
LEMMA OpenAddsFd ==
  ASSUME TablesTyped, NEW p \in Paths, open(p)
  PROVE  \A k \in AllKeys : OpenFds(k)' = IF k = namei[p].key THEN OpenFds(k) \cup {fd_allocate}
                                          ELSE OpenFds(k)
<1>1. /\ fd_allocate \in Fds /\ fd_table[fd_allocate] = NoKey
      /\ fd_table' = [fd_table EXCEPT ![fd_allocate] = namei[p].key]
      /\ fd_table \in [Fds -> Keys \cup {NoKey}]
  BY FdAllocated DEF open, fd_set, TablesTyped
<1>2. \A k \in AllKeys : k # NoKey
  BY Keys1
<1> QED
  BY <1>1, <1>2 DEF OpenFds

LEMMA CloseTakesFd ==
  ASSUME TablesTyped, NEW fd \in Fds, close(fd)
  PROVE  /\ \A k \in AllKeys : OpenFds(k)' = IF k = fd_table[fd] THEN OpenFds(k) \ {fd} ELSE OpenFds(k)
         /\ fd_table[fd] \in Keys /\ fd \in OpenFds(fd_table[fd])
<1>1. /\ fd_table' = [fd_table EXCEPT ![fd] = NoKey] /\ fd_table[fd] # NoKey
      /\ fd_table \in [Fds -> Keys \cup {NoKey}]
  BY DEF close, fd_deallocate, TablesTyped
<1>2. \A k \in AllKeys : k # NoKey
  BY Keys1
<1> QED
  BY <1>1, <1>2 DEF OpenFds
-----------------------------------------------------------------------------
(* The invariant is inductive *)

LEMMA Initially == Init => IInv
<1> SUFFICES ASSUME Init PROVE IInv
  OBVIOUS
<1> USE DEF Init
<1>1. /\ Record("none", NoKey, NoKey) \in Records /\ Record("dir", RootKey, RootKey) \in Records
      /\ db = [k \in AllKeys |-> IF k = RootKey THEN Record("dir", RootKey, RootKey) ELSE NoRecord]
  BY Keys1 DEF Record, Records, NoEntries, Entries, dir_json_init
<1>2. db \in Databases /\ \A k \in AllKeys : db[k].entries = NoEntries /\ db[k].del = 0
  BY <1>1 DEF Databases, NoRecord, Record
<1>3. /\ db[RootKey].type = "dir"
      /\ \A k \in Keys : db[k] = NoRecord /\ db[k].type = "none"
  BY <1>1, Keys1 DEF NoRecord, Record
<1>4. \A k \in AllKeys, n \in Names : db[k].entries[n] = NoEntry
  BY <1>2 DEF NoEntries
<1>5. Good(db)
  <2>1. Shaped(db)
    BY <1>2, <1>3, Keys1 DEF Shaped
  <2>2. Resolving(db) /\ Unshared(db)
    BY <1>4 DEF Resolving, Unshared
  <2>3. Reached(db) /\ ParentsKnown(db)
    BY <1>3 DEF Reached, ParentsKnown
  <2> QED
    BY <2>1, <2>2, <2>3 DEF Good
<1>6. TablesTyped
  <2>1. open_file_table \in [AllKeys -> [refcnt : Nat, deleted : BOOLEAN]]
    BY DEF NotOpen
  <2>2. fd_table \in [Fds -> Keys \cup {NoKey}]
    OBVIOUS
  <2> QED
    BY <1>2, <2>1, <2>2 DEF TablesTyped, Databases, Records
<1>7. OpenFilesKnown
  <2>1. \A k \in AllKeys : OpenFds(k) = {}
    BY Keys1 DEF OpenFds
  <2>2. \A k \in AllKeys : Cardinality(OpenFds(k)) = 0
    BY <2>1, FS_EmptySet
  <2>3. \A k \in AllKeys : open_file_table[k] = NotOpen /\ NotOpen.refcnt = 0
    BY DEF NotOpen
  <2> QED
    BY <2>1, <2>2, <2>3 DEF OpenFilesKnown
<1> QED
  BY <1>5, <1>6, <1>7 DEF IInv

\* OpenFilesKnown when only the records changed, and no record of an open file.
LEMMA RecordsOnly ==
  ASSUME IInv, UNCHANGED <<open_file_table, fd_table>>,
         \A k \in AllKeys : OpenFds(k) # {} =>
            db'[k].type = db[k].type /\ (db'[k].del = 1 => open_file_table[k].deleted)
  PROVE  OpenFilesKnown'
<1>1. \A k \in AllKeys : OpenFds(k)' = OpenFds(k)
  BY DEF OpenFds
<1> QED
  BY <1>1 DEF OpenFilesKnown, IInv

\* The types of a step that leaves a database good.
LEMMA TypesNext ==
  ASSUME Good(db'), (open_file_table \in [AllKeys -> [refcnt : Nat, deleted : BOOLEAN]])',
         (fd_table \in [Fds -> Keys \cup {NoKey}])'
  PROVE  TablesTyped'
<1>1. db' \in Databases
  BY DEF Good, Shaped
<1> QED
  BY <1>1 DEF TablesTyped, Databases, Records

\* An addition, of a record that no descriptor knows.
LEMMA AddingKeepsInv ==
  ASSUME IInv, NEW p, NEW type, NEW key \in NewKeys, NEW record,
         Addable(db, p, ParentKey(p), type, key, record),
         db' = Added(db, p, ParentKey(p), type, key, record),
         UNCHANGED <<memory, failed>>
  PROVE  IInv'
<1>1. Good(db')
  BY AddedGood
<1>2. TablesTyped'
  BY <1>1, TypesNext DEF memory, IInv, TablesTyped
<1>3. \A k \in AllKeys : OpenFds(k) # {} => db'[k].type = db[k].type /\ db'[k].del = db[k].del
  <2> SUFFICES ASSUME NEW k \in AllKeys, OpenFds(k) # {}
               PROVE  db'[k].type = db[k].type /\ db'[k].del = db[k].del
    OBVIOUS
  <2>1. key \in AllKeys /\ OpenFds(key) = {}
    BY OpenMeansDescriptors, Keys1 DEF NewKeys, IInv
  <2>2. Changed(db, db', p, ParentKey(p), [key |-> key, type |-> type], key, record)
    BY AddedRecords
  <2> QED
    BY <2>1, <2>2 DEF Changed
<1>4. OpenFilesKnown'
  BY <1>3, RecordsOnly DEF memory, IInv, OpenFilesKnown
<1> QED
  BY <1>1, <1>2, <1>4 DEF IInv

LEMMA RmdirKeepsInv ==
  ASSUME IInv, NEW p \in Paths, rmdir(p)
  PROVE  IInv'
<1> DEFINE key == Walk(db)[p].key
<1>1. /\ Erasable(db, p, ParentKey(p), key, NoRecord)
      /\ db' = Erased(db, p, ParentKey(p), key, NoRecord)
      /\ Walk(db)[p].type = "dir"
  BY RmdirErases
<1>2. Good(db')
  BY <1>1, ErasedGood
<1>3. TablesTyped'
  BY <1>2, TypesNext DEF memory, IInv, TablesTyped, rmdir
<1>4. \A k \in AllKeys : OpenFds(k) # {} => db'[k].type = db[k].type /\ db'[k].del = db[k].del
  <2> SUFFICES ASSUME NEW k \in AllKeys, OpenFds(k) # {}
               PROVE  db'[k].type = db[k].type /\ db'[k].del = db[k].del
    OBVIOUS
  <2>1. /\ Changed(db, db', p, ParentKey(p), NoEntry, key, NoRecord)
        /\ Walk(db)[p] = Found(key, db[key].type)
    BY <1>1, ErasedRecords
  <2>2. db[key].type = "dir"
    BY <1>1, <2>1 DEF Found
  <2>3. k # key
    BY <2>2 DEF IInv, OpenFilesKnown
  <2> HIDE DEF key
  <2> QED
    BY <2>1, <2>3 DEF Changed
<1>5. OpenFilesKnown'
  BY <1>4, RecordsOnly DEF memory, rmdir, IInv, OpenFilesKnown
<1> QED
  BY <1>2, <1>3, <1>5 DEF IInv

LEMMA UnlinkKeepsInv ==
  ASSUME IInv, NEW p \in Paths, unlink(p)
  PROVE  IInv'
<1> DEFINE key == Walk(db)[p].key
           record == IF is_file_open(key) THEN [db[key] EXCEPT !.del = 1] ELSE NoRecord
<1>1. /\ Erasable(db, p, ParentKey(p), key, record)
      /\ db' = Erased(db, p, ParentKey(p), key, record) \/ db' = db
      /\ open_file_table' = IF is_file_open(key) THEN mark_file_deleted(key) ELSE open_file_table
      /\ db[key].type = "file"
  BY UnlinkErases
<1>2. Good(db')
  BY <1>1, ErasedGood DEF IInv
<1>3. /\ Changed(db, Erased(db, p, ParentKey(p), key, record), p, ParentKey(p), NoEntry, key, record)
      /\ key \in Keys
  BY <1>1, ErasedRecords
<1>4. is_file_open(key) <=> OpenFds(key) # {}
  BY <1>3, OpenMeansDescriptors, Keys1 DEF IInv
<1>5. is_file_open(key) => record.type = "file"
  <2>1. db[key] \in Records
    BY <1>3, Keys1 DEF IInv, Good, Shaped, Databases
  <2>2. [db[key] EXCEPT !.del = 1].type = db[key].type
    BY <2>1 DEF Records
  <2> QED
    BY <1>1, <2>2
<1> HIDE DEF key, record
<1>6. /\ \A k \in AllKeys : open_file_table'[k].refcnt = open_file_table[k].refcnt
      /\ \A k \in AllKeys : k # key => open_file_table'[k] = open_file_table[k]
      /\ OpenFds(key) # {} => open_file_table'[key].deleted
      /\ OpenFds(key) = {} => open_file_table'[key] = open_file_table[key]
      /\ open_file_table' \in [AllKeys -> [refcnt : Nat, deleted : BOOLEAN]]
  <2>1. open_file_table \in [AllKeys -> [refcnt : Nat, deleted : BOOLEAN]] /\ key \in AllKeys
    BY <1>3, Keys1 DEF IInv, TablesTyped
  <2>2. CASE ~is_file_open(key)
    BY <1>1, <1>4, <2>1, <2>2
  <2>3. CASE is_file_open(key)
    <3>1. open_file_table' = [open_file_table EXCEPT ![key].deleted = TRUE]
      BY <1>1, <2>3 DEF mark_file_deleted
    <3>2. open_file_table'[key] = [open_file_table[key] EXCEPT !.deleted = TRUE]
      BY <2>1, <3>1
    <3>3. /\ open_file_table'[key].refcnt = open_file_table[key].refcnt
          /\ open_file_table'[key].deleted = TRUE
          /\ open_file_table'[key] \in [refcnt : Nat, deleted : BOOLEAN]
      BY <2>1, <3>2
    <3>4. \A k \in AllKeys : k # key => open_file_table'[k] = open_file_table[k]
      BY <2>1, <3>1
    <3>5. open_file_table' \in [AllKeys -> [refcnt : Nat, deleted : BOOLEAN]]
      BY <2>1, <3>1, <3>3, <3>4
    <3> QED
      BY <1>4, <2>3, <3>3, <3>4, <3>5
  <2> QED
    BY <2>2, <2>3
<1>7. TablesTyped'
  BY <1>2, <1>6, TypesNext DEF IInv, TablesTyped, unlink
<1>8. \A k \in AllKeys : OpenFds(k) # {} =>
        db'[k].type = "file" /\ (k # key => db'[k].del = db[k].del)
  <2> SUFFICES ASSUME NEW k \in AllKeys, OpenFds(k) # {}
               PROVE  db'[k].type = "file" /\ (k # key => db'[k].del = db[k].del)
    OBVIOUS
  <2>1. db[k].type = "file"
    BY DEF IInv, OpenFilesKnown
  <2> QED
    BY <1>1, <1>3, <1>4, <1>5, <2>1 DEF Changed
<1>9. \A k \in AllKeys : OpenFds(k)' = OpenFds(k)
  BY DEF OpenFds, unlink
<1>10. OpenFilesKnown'
  <2> SUFFICES ASSUME NEW k \in AllKeys
               PROVE /\ open_file_table'[k].refcnt = Cardinality(OpenFds(k))
                     /\ open_file_table'[k].refcnt = 0 => open_file_table'[k] = NotOpen
                     /\ OpenFds(k) # {} => db'[k].type = "file" /\ k \in Keys
                     /\ OpenFds(k) # {} /\ db'[k].del = 1 => open_file_table'[k].deleted
    BY <1>9 DEF OpenFilesKnown
  <2>1. /\ open_file_table[k].refcnt = Cardinality(OpenFds(k))
        /\ open_file_table[k].refcnt = 0 => open_file_table[k] = NotOpen
        /\ OpenFds(k) # {} => k \in Keys
        /\ OpenFds(k) # {} /\ db[k].del = 1 => open_file_table[k].deleted
    BY DEF IInv, OpenFilesKnown
  <2>2. Cardinality(OpenFds(k)) = 0 <=> OpenFds(k) = {}
    BY OpenFdsFinite
  <2>3. open_file_table'[k].refcnt = 0 => open_file_table'[k] = NotOpen
    BY <1>6, <2>1, <2>2
  <2>4. OpenFds(k) # {} /\ db'[k].del = 1 => open_file_table'[k].deleted
    BY <1>6, <1>8, <2>1
  <2> QED
    BY <1>6, <1>8, <2>1, <2>3, <2>4
<1> QED
  BY <1>2, <1>7, <1>10 DEF IInv

LEMMA OpenKeepsInv ==
  ASSUME IInv, NEW p \in Paths, open(p)
  PROVE  IInv'
<1> DEFINE key == namei[p].key
           fd == fd_allocate
<1>1. key \in Keys /\ key \in AllKeys /\ db[key].type = "file" /\ db[key].del = 0
  BY OpenFinds, Keys1
<1>2. /\ open_file_table \in [AllKeys -> [refcnt : Nat, deleted : BOOLEAN]]
      /\ fd_table \in [Fds -> Keys \cup {NoKey}]
  BY DEF IInv, TablesTyped
<1>3. /\ fd \in Fds /\ fd_table[fd] = NoKey
      /\ fd_table' = [fd_table EXCEPT ![fd] = key]
      /\ open_file_table' = [open_file_table EXCEPT ![key].refcnt = @ + 1]
      /\ UNCHANGED <<db, failed>>
  BY FdAllocated DEF open, fd_set, mark_file_open
<1>4. \A k \in AllKeys : OpenFds(k)' = IF k = key THEN OpenFds(k) \cup {fd} ELSE OpenFds(k)
  BY OpenAddsFd DEF IInv
<1> HIDE DEF key, fd
<1>5. /\ open_file_table'[key] = [open_file_table[key] EXCEPT !.refcnt = @ + 1]
      /\ \A k \in AllKeys : k # key => open_file_table'[k] = open_file_table[k]
  BY <1>1, <1>2, <1>3
<1>6. /\ open_file_table'[key].refcnt = open_file_table[key].refcnt + 1
      /\ open_file_table'[key] \in [refcnt : Nat, deleted : BOOLEAN]
  BY <1>1, <1>2, <1>5
<1>7. TablesTyped'
  <2>1. open_file_table' \in [AllKeys -> [refcnt : Nat, deleted : BOOLEAN]]
    BY <1>1, <1>2, <1>3, <1>5, <1>6
  <2>2. fd_table' \in [Fds -> Keys \cup {NoKey}]
    BY <1>1, <1>2, <1>3
  <2> QED
    BY <1>3, <2>1, <2>2 DEF IInv, TablesTyped
<1>8. ASSUME NEW k \in AllKeys
      PROVE  /\ open_file_table'[k].refcnt = Cardinality(OpenFds(k)')
             /\ open_file_table'[k].refcnt = 0 => open_file_table'[k] = NotOpen
             /\ OpenFds(k)' # {} => db[k].type = "file" /\ k \in Keys
             /\ OpenFds(k)' # {} /\ db[k].del = 1 => open_file_table'[k].deleted
  <2>1. /\ open_file_table[k].refcnt = Cardinality(OpenFds(k))
        /\ open_file_table[k].refcnt = 0 => open_file_table[k] = NotOpen
        /\ OpenFds(k) # {} => db[k].type = "file" /\ k \in Keys
        /\ OpenFds(k) # {} /\ db[k].del = 1 => open_file_table[k].deleted
    BY DEF IInv, OpenFilesKnown
  <2>2. CASE k # key
    BY <1>4, <1>5, <2>1, <2>2
  <2>3. CASE k = key
    <3>1. fd \notin OpenFds(k) /\ IsFiniteSet(OpenFds(k)) /\ Cardinality(OpenFds(k)) \in Nat
      BY <1>1, <1>3, OpenFdsFinite, Keys1 DEF OpenFds
    <3>2. OpenFds(k)' = OpenFds(k) \cup {fd}
      BY <1>4, <2>3
    <3> DEFINE S == OpenFds(k)
    <3>3. S \cup {fd} = OpenFds(k)' /\ fd \notin S /\ IsFiniteSet(S) /\ Cardinality(S) \in Nat
      BY <3>1, <3>2
    <3> HIDE DEF S
    <3>4. Cardinality(S \cup {fd}) = Cardinality(S) + 1
      BY <3>3, FS_AddElement
    <3>5. Cardinality(OpenFds(k)') = Cardinality(OpenFds(k)) + 1
      BY <3>3, <3>4 DEF S
    <3>6. open_file_table'[k].refcnt = Cardinality(OpenFds(k)')
      BY <1>6, <2>1, <2>3, <3>5
    <3>7. open_file_table'[k].refcnt # 0
      BY <3>1, <3>5, <3>6
    <3> QED
      BY <1>1, <2>3, <3>6, <3>7
  <2> QED
    BY <2>2, <2>3
<1>9. OpenFilesKnown'
  BY <1>3, <1>8 DEF OpenFilesKnown
<1> QED
  BY <1>3, <1>7, <1>9 DEF IInv

LEMMA CloseKeepsInv ==
  ASSUME IInv, NEW fd \in Fds, close(fd)
  PROVE  IInv'
<1> DEFINE key == fd_table[fd]
           fi == open_file_table[key]
<1>1. /\ \A k \in AllKeys : OpenFds(k)' = IF k = key THEN OpenFds(k) \ {fd} ELSE OpenFds(k)
      /\ key \in Keys /\ key \in AllKeys /\ fd \in OpenFds(key)
  BY CloseTakesFd, Keys1 DEF IInv
<1>2. /\ open_file_table \in [AllKeys -> [refcnt : Nat, deleted : BOOLEAN]]
      /\ fd_table \in [Fds -> Keys \cup {NoKey}]
      /\ fi \in [refcnt : Nat, deleted : BOOLEAN]
  BY <1>1 DEF IInv, TablesTyped
<1>3. /\ fd_table' = [fd_table EXCEPT ![fd] = NoKey]
      /\ db' = db \/ (db[key].del = 1 /\ db' = [db EXCEPT ![key] = NoRecord])
      /\ \/ fi.refcnt > 1 /\ open_file_table' = [open_file_table EXCEPT ![key].refcnt = @ - 1] /\ db' = db
         \/ fi.refcnt = 1 /\ open_file_table' = [open_file_table EXCEPT ![key] = NotOpen]
  BY CloseDrops DEF close, fd_deallocate, mark_file_closed
<1> HIDE DEF key
<1>4. Good(db')
  BY <1>1, <1>3, Dropped DEF IInv
<1>5. /\ \A k \in AllKeys : k # key => open_file_table'[k] = open_file_table[k] /\ db'[k] = db[k]
      /\ \/ /\ fi.refcnt > 1 /\ db' = db
            /\ open_file_table'[key] = [fi EXCEPT !.refcnt = @ - 1]
         \/ fi.refcnt = 1 /\ open_file_table'[key] = NotOpen
      /\ open_file_table' \in [AllKeys -> [refcnt : Nat, deleted : BOOLEAN]]
  <2>1. \A k \in AllKeys : k # key => db'[k] = db[k]
    <3>1. db \in Databases
      BY DEF IInv, Good, Shaped
    <3> QED
      BY <1>3, <3>1 DEF Databases
  <2>2. CASE fi.refcnt > 1 /\ open_file_table' = [open_file_table EXCEPT ![key].refcnt = @ - 1] /\ db' = db
    <3>1. /\ open_file_table'[key] = [fi EXCEPT !.refcnt = @ - 1]
          /\ \A k \in AllKeys : k # key => open_file_table'[k] = open_file_table[k]
      BY <1>1, <1>2, <2>2
    <3>2. fi.refcnt - 1 \in Nat
      BY <1>2, <2>2
    <3>3. [fi EXCEPT !.refcnt = @ - 1] \in [refcnt : Nat, deleted : BOOLEAN]
      BY <1>2, <3>2
    <3> QED
      BY <1>1, <1>2, <2>1, <2>2, <3>1, <3>3
  <2>3. CASE fi.refcnt = 1 /\ open_file_table' = [open_file_table EXCEPT ![key] = NotOpen]
    <3>1. NotOpen \in [refcnt : Nat, deleted : BOOLEAN]
      BY DEF NotOpen
    <3> QED
      BY <1>1, <1>2, <2>1, <2>3, <3>1
  <2> QED
    BY <1>3, <2>2, <2>3
<1>6. TablesTyped'
  <2>1. fd_table' \in [Fds -> Keys \cup {NoKey}]
    BY <1>2, <1>3
  <2> QED
    BY <1>4, <1>5, <2>1, TypesNext
<1>7. ASSUME NEW k \in AllKeys
      PROVE  /\ open_file_table'[k].refcnt = Cardinality(OpenFds(k)')
             /\ open_file_table'[k].refcnt = 0 => open_file_table'[k] = NotOpen
             /\ OpenFds(k)' # {} => db'[k].type = "file" /\ k \in Keys
             /\ OpenFds(k)' # {} /\ db'[k].del = 1 => open_file_table'[k].deleted
  <2>1. /\ open_file_table[k].refcnt = Cardinality(OpenFds(k))
        /\ open_file_table[k].refcnt = 0 => open_file_table[k] = NotOpen
        /\ OpenFds(k) # {} => db[k].type = "file" /\ k \in Keys
        /\ OpenFds(k) # {} /\ db[k].del = 1 => open_file_table[k].deleted
    BY DEF IInv, OpenFilesKnown
  <2>2. CASE k # key
    BY <1>1, <1>5, <2>1, <2>2
  <2>3. CASE k = key
    <3> DEFINE S == OpenFds(k)
               T == S \ {fd}
    <3>1. fd \in S /\ IsFiniteSet(S) /\ Cardinality(S) \in Nat /\ OpenFds(k)' = T
      BY <1>1, <2>3, OpenFdsFinite
    <3> HIDE DEF S
    <3>2. IsFiniteSet(T) /\ Cardinality(T) = Cardinality(S) - 1
      BY <3>1, FS_RemoveElement
    <3>3. Cardinality(T) = 0 <=> T = {}
      BY <3>2, FS_EmptySet
    <3> HIDE DEF T
    <3>4. fi.refcnt = Cardinality(S)
      BY <2>1, <2>3 DEF S
    <3>5. CASE fi.refcnt > 1 /\ db' = db /\ open_file_table'[key] = [fi EXCEPT !.refcnt = @ - 1]
      <4>1. /\ open_file_table'[key].refcnt = fi.refcnt - 1
            /\ open_file_table'[key].deleted = fi.deleted
        BY <1>2, <3>5
      <4>2. open_file_table'[key].refcnt = Cardinality(T) /\ open_file_table'[key].refcnt # 0
        BY <1>2, <3>2, <3>4, <3>5, <4>1
      <4>3. OpenFds(k) # {}
        BY <3>1 DEF S
      <4> QED
        BY <2>1, <2>3, <3>1, <3>5, <4>1, <4>2, <4>3
    <3>6. CASE fi.refcnt = 1 /\ open_file_table'[key] = NotOpen
      <4>1. Cardinality(T) = 0 /\ NotOpen.refcnt = 0
        BY <3>2, <3>4, <3>6 DEF NotOpen
      <4>2. T = {}
        BY <3>3, <4>1
      <4> QED
        BY <2>3, <3>1, <3>6, <4>1, <4>2
    <3> QED
      BY <1>5, <3>5, <3>6
  <2> QED
    BY <2>2, <2>3
<1>8. OpenFilesKnown'
  BY <1>7 DEF OpenFilesKnown
<1> QED
  BY <1>4, <1>6, <1>8 DEF IInv

\* A new process has nothing open.
LEMMA RestartKeepsInv ==
  ASSUME IInv, Restart
  PROVE  IInv'
<1>1. /\ open_file_table' = [k \in AllKeys |-> NotOpen]
      /\ fd_table' = [fd \in Fds |-> NoKey] /\ failed' = "none" /\ db' = db
  BY DEF Restart
<1>2. NotOpen \in [refcnt : Nat, deleted : BOOLEAN] /\ NotOpen.refcnt = 0
  BY DEF NotOpen
<1>3. TablesTyped'
  BY <1>1, <1>2 DEF IInv, TablesTyped
<1>4. \A k \in AllKeys : OpenFds(k)' = {}
  BY <1>1, Keys1 DEF OpenFds
<1>5. Cardinality({}) = 0
  BY FS_EmptySet
<1>6. OpenFilesKnown'
  BY <1>1, <1>2, <1>4, <1>5 DEF OpenFilesKnown
<1> QED
  BY <1>1, <1>3, <1>6 DEF IInv

LEMMA Inductive == IInv /\ [Next]_vars => IInv'
<1> SUFFICES ASSUME IInv, [Next]_vars PROVE IInv'
  OBVIOUS
<1>1. ASSUME NEW p \in Paths, mkdir(p) PROVE IInv'
  BY <1>1, MkdirAdds, AddingKeepsInv DEF mkdir
<1>2. ASSUME NEW p \in Paths, create(p) PROVE IInv'
  BY <1>2, CreateAdds, AddingKeepsInv DEF create
<1>3. CASE rmdir_root
  <2>1. TablesTyped'
    BY <1>3 DEF IInv, TablesTyped, rmdir_root, memory
  <2>2. OpenFilesKnown'
    BY <1>3, RecordsOnly DEF IInv, OpenFilesKnown, rmdir_root, memory
  <2> QED
    BY <1>3, <2>1, <2>2 DEF IInv, rmdir_root
<1>4. CASE UNCHANGED vars
  <2>1. TablesTyped'
    BY <1>4 DEF IInv, TablesTyped, vars
  <2>2. OpenFilesKnown'
    BY <1>4, RecordsOnly DEF IInv, OpenFilesKnown, vars
  <2> QED
    BY <1>4, <2>1, <2>2 DEF IInv, vars
<1> QED
  BY <1>1, <1>2, <1>3, <1>4, RmdirKeepsInv, UnlinkKeepsInv, OpenKeepsInv, CloseKeepsInv,
     RestartKeepsInv DEF Next, Call

LEMMA Always == Spec => []IInv
<1> QED
  BY Initially, Inductive, PTL DEF Spec
-----------------------------------------------------------------------------
(* Entries and links *)

\* EntriesResolve, for every instance: at each read for which the code asserts
\* it, what an entry leads to is there, of its type and not deleted.
THEOREM NoEntryDangles == Spec => []EntriesResolve
<1>1. ASSUME IInv PROVE EntriesResolve
  BY <1>1 DEF IInv, Good, Resolving, EntriesResolve
<1> QED
  BY <1>1, Always, PTL

\* A record that is not deleted has one link, and a deleted one none.
LEMMA LinksCounted ==
  ASSUME Good(db), NEW k \in Keys, db[k] # NoRecord
  PROVE  Cardinality(Links(k)) = 1 - db[k].del
<1>1. /\ Shaped(db) /\ Resolving(db) /\ Unshared(db) /\ Reached(db) /\ db \in Databases
      /\ k \in AllKeys
  BY Keys1 DEF Good, Shaped
<1>2. ASSUME NEW link \in Links(k)
      PROVE  /\ link[1] \in AllKeys /\ link[2] \in Names /\ link = <<link[1], link[2]>>
             /\ Target(db, link[1], link[2]) = k /\ db[link[1]].entries[link[2]] # NoEntry
  BY Keys1 DEF Links, Target, NoEntry
<1>3. CASE db[k].del = 1
  <2>1. Links(k) = {}
    BY <1>1, <1>2, <1>3 DEF Resolving, Target
  <2> QED
    BY <1>3, <2>1, FS_EmptySet
<1>4. CASE db[k].del = 0
  <2>1. PICK p \in Paths : Walk(db)[p] = Found(k, db[k].type)
    BY <1>1, <1>4 DEF Reached
  <2>2. Ok(db, p) /\ p # <<>>
    BY <2>1, WalkRoot, Keys1 DEF Ok, Found
  <2>3. PICK j \in AllKeys :
          /\ db[j].entries[Last(p)] # NoEntry
          /\ Walk(db)[p] = Found(Target(db, j, Last(p)), db[j].entries[Last(p)].type)
    BY <1>1, <2>2, LastStep
  <2>4. Target(db, j, Last(p)) = k /\ Last(p) \in Names
    BY <2>1, <2>2, <2>3, PathParts DEF Found
  <2>5. <<j, Last(p)>> \in Links(k)
    BY <2>4 DEF Links, Target
  <2>6. ASSUME NEW link \in Links(k) PROVE link = <<j, Last(p)>>
    BY <1>1, <1>2, <2>4 DEF Unshared
  <2>7. Links(k) = {<<j, Last(p)>>}
    BY <2>5, <2>6
  <2>8. Cardinality(Links(k)) = 1
    BY <2>7, FS_Singleton
  <2> QED
    BY <1>4, <2>8
<1>5. db[k].del \in {0, 1}
  BY <1>1 DEF Databases, Records
<1> QED
  BY <1>3, <1>4, <1>5

\* The names that list_dir prints are those that namei finds.
LEMMA ListsWhatIsFound ==
  ASSUME Good(db), NEW p \in Paths, Len(p) < MaxDepth
  PROVE  list_dir(p) = {n \in Names : namei[Append(p, n)].rc = "ok"}
<1>1. namei = Walk(db) /\ Shaped(db) /\ Resolving(db)
  BY NameiWalks DEF Good
<1>2. ASSUME NEW n \in Names
      PROVE  n \in list_dir(p) <=> Ok(db, Append(p, n))
  <2> DEFINE q == Append(p, n)
  <2>1. q \in Paths /\ q # <<>> /\ Front(q) = p /\ Last(q) = n
    BY PathAppend
  <2> HIDE DEF q
  <2>2. CASE ~Ok(db, p)
    <3>1. ~Ok(db, q)
      BY <2>1, <2>2, NothingBelow
    <3> QED
      BY <1>1, <2>2, <3>1 DEF list_dir, Ok, q
  <2>3. CASE Ok(db, p)
    <3>1. PICK k \in AllKeys : /\ Walk(db)[p] = Found(k, db[k].type)
                               /\ db[k].type \in {"dir", "file"} /\ db[k].del = 0
      BY <1>1, <2>3, WalkFinds
    <3>2. n \in list_dir(p) <=> db[k].entries[n] # NoEntry
      BY <1>1, <3>1 DEF list_dir, Found
    <3>3. CASE db[k].type = "file"
      <4>1. db[k].entries = NoEntries
        BY <1>1, <3>3 DEF Shaped
      <4>2. ~Ok(db, q)
        BY <2>1, <3>1, <4>1, NothingBelow
      <4>3. db[k].entries[n] = NoEntry
        BY <4>1 DEF NoEntries
      <4> QED
        BY <3>2, <4>2, <4>3 DEF q
    <3>4. CASE db[k].type = "dir"
      <4>1. Walk(db)[q] = Look(db, k, n)
        BY <2>1, <3>1, <3>4, WalkStep DEF Step, Found
      <4>2. Ok(db, q) <=> db[k].entries[n] # NoEntry
        BY <3>1, <4>1 DEF Look, Ok, Found, Error
      <4> QED
        BY <3>2, <4>2 DEF q
    <3> QED
      BY <3>1, <3>3, <3>4
  <2> QED
    BY <2>2, <2>3
<1>3. list_dir(p) \subseteq Names
  BY DEF list_dir
<1> QED
  BY <1>1, <1>2, <1>3 DEF Ok

\* OneLinkEach, for every instance: no sequence of calls and restarts loses a
\* record or makes two entries lead to one, a directory knows its parent, and
\* listing a directory prints what can be found in it.
THEOREM EachRecordOnce == Spec => []OneLinkEach
<1>1. ASSUME IInv PROVE OneLinkEach
  <2>1. Good(db) /\ Reached(db) /\ ParentsKnown(db) /\ namei = Walk(db)
    BY <1>1, NameiWalks DEF IInv, Good
  <2>2. ASSUME NEW k \in Keys, db[k].type = "dir"
        PROVE  db[k].key = k /\ \E n \in Names : <<db[k].parent, n>> \in Links(k)
    BY <2>1, <2>2 DEF ParentsKnown, Links, Target
  <2> QED
    BY <2>1, <2>2, LinksCounted, ListsWhatIsFound DEF OneLinkEach, Reached
<1> QED
  BY <1>1, Always, PTL
-----------------------------------------------------------------------------
(* Open files *)

\* OpenFilesCounted, for every instance: what the reference count of a file
\* says is the number of its descriptors, and its record is there.
THEOREM DescriptorsCounted == Spec => []OpenFilesCounted
<1> DEFINE Ends == failed \in {"none", "rmdir_root", "lazy_unlink_del", "lazy_unlink_write"}
<1>1. Init => Ends
  BY DEF Init
<1>2. Ends /\ [Next]_vars => Ends'
  BY DEF Next, Call, mkdir, create, rmdir, rmdir_root, unlink, open, close, Restart, vars
<1>3. Spec => []Ends
  BY <1>1, <1>2, PTL DEF Spec
<1>4. IInv /\ Ends => OpenFilesCounted
  BY DEF IInv, OpenFilesKnown, OpenFilesCounted, TypeOK
<1> QED
  BY <1>3, <1>4, Always, PTL

\* The step that leaves a deleted record without a descriptor.
LEMMA LastCloseDrops ==
  ASSUME IInv, Next, NEW k \in Keys,
         db[k].del = 1 => OpenFds(k) # {}, db'[k].del = 1, OpenFds(k)' = {}
  PROVE  failed' = "lazy_unlink_write" \/ Restart
<1>1. k \in AllKeys /\ db \in Databases
  BY Keys1 DEF IInv, Good, Shaped
<1>2. NoRecord.del = 0
  BY DEF NoRecord, Record
\* A step that neither closes a descriptor nor marks the record.
<1>3. ASSUME OpenFds(k)' = OpenFds(k) \/ OpenFds(k)' # {}, db'[k].del = 1 => db[k].del = 1 PROVE FALSE
  BY <1>3
<1>4. ASSUME NEW p \in Paths, mkdir(p) \/ create(p) PROVE FALSE
  <2>1. OpenFds(k)' = OpenFds(k)
    BY <1>4 DEF mkdir, create, memory, OpenFds
  <2>2. PICK key \in NewKeys, record \in Records, type \in {"dir", "file"} :
           /\ Addable(db, p, ParentKey(p), type, key, record)
           /\ db' = Added(db, p, ParentKey(p), type, key, record)
    BY <1>4, MkdirAdds, CreateAdds
  <2>3. Changed(db, db', p, ParentKey(p), [key |-> key, type |-> type], key, record) /\ record.del = 0
    BY <2>2, AddedRecords DEF Addable
  <2>4. db'[k].del = 1 => db[k].del = 1
    BY <1>1, <2>3 DEF Changed
  <2> QED
    BY <1>3, <2>1, <2>4
<1>5. ASSUME NEW p \in Paths, rmdir(p) PROVE FALSE
  <2>1. OpenFds(k)' = OpenFds(k)
    BY <1>5 DEF rmdir, memory, OpenFds
  <2>2. Changed(db, db', p, ParentKey(p), NoEntry, Walk(db)[p].key, NoRecord)
    BY <1>5, RmdirErases, ErasedRecords
  <2>3. db'[k].del = 1 => db[k].del = 1
    BY <1>1, <1>2, <2>2 DEF Changed
  <2> QED
    BY <1>3, <2>1, <2>3
<1>6. ASSUME NEW p \in Paths, unlink(p) PROVE FALSE
  <2> DEFINE key == Walk(db)[p].key
             record == IF is_file_open(key) THEN [db[key] EXCEPT !.del = 1] ELSE NoRecord
  <2>1. OpenFds(k)' = OpenFds(k)
    BY <1>6 DEF unlink, OpenFds
  <2>2. /\ Erasable(db, p, ParentKey(p), key, record)
        /\ db' = Erased(db, p, ParentKey(p), key, record) \/ db' = db
    BY <1>6, UnlinkErases
  <2>3. Changed(db, Erased(db, p, ParentKey(p), key, record), p, ParentKey(p), NoEntry, key, record)
    BY <2>2, ErasedRecords
  <2>4. CASE k = key /\ is_file_open(key)
    BY <1>1, <2>1, <2>4, OpenMeansDescriptors DEF IInv
  <2>5. CASE ~(k = key /\ is_file_open(key))
    <3>1. db'[k].del = 1 => db[k].del = 1
      BY <1>1, <1>2, <2>2, <2>3, <2>5 DEF Changed
    <3> QED
      BY <1>3, <2>1, <3>1
  <2> QED
    BY <2>4, <2>5
<1>7. ASSUME NEW p \in Paths, open(p) PROVE FALSE
  <2>1. OpenFds(k) \subseteq OpenFds(k)'
    BY <1>1, <1>7, OpenAddsFd DEF IInv
  <2>2. db' = db
    BY <1>7 DEF open
  <2> QED
    BY <1>3, <2>1, <2>2
<1>8. ASSUME NEW fd \in Fds, close(fd) PROVE failed' = "lazy_unlink_write"
  <2> DEFINE key == fd_table[fd]
  <2>1. /\ OpenFds(k)' = IF k = key THEN OpenFds(k) \ {fd} ELSE OpenFds(k)
        /\ key \in Keys /\ fd \in OpenFds(key)
        /\ db' = db \/ (db[key].del = 1 /\ db' = [db EXCEPT ![key] = NoRecord])
    BY <1>1, <1>8, CloseTakesFd, CloseDrops DEF IInv
  <2>2. CASE k # key
    <3>1. db'[k] = db[k]
      BY <1>1, <2>1, <2>2 DEF Databases
    <3> QED
      BY <1>3, <2>1, <2>2, <3>1
  <2>3. CASE k = key
    <3>1. db' = db /\ db[k].del = 1
      BY <1>1, <1>2, <2>1, <2>3 DEF Databases
    <3>2. open_file_table[k].deleted /\ open_file_table[k].refcnt = Cardinality(OpenFds(k))
      BY <1>1, <2>1, <2>3, <3>1 DEF IInv, OpenFilesKnown
    <3>3. OpenFds(k) = {fd}
      BY <2>1, <2>3
    <3>4. open_file_table[k].refcnt = 1
      BY <3>2, <3>3, FS_Singleton
    <3>5. db' # [db EXCEPT ![key] = NoRecord]
      BY <1>1, <1>2, <2>3, <3>1 DEF Databases
    <3> QED
      BY <1>8, <2>3, <3>1, <3>2, <3>4, <3>5 DEF close, Written
  <2> QED
    BY <2>2, <2>3
<1>9. ASSUME rmdir_root PROVE FALSE
  BY <1>3, <1>9 DEF rmdir_root, memory, OpenFds
<1> QED
  BY <1>4, <1>5, <1>6, <1>7, <1>8, <1>9 DEF Next, Call

\* DeletedRecordsGoWithLastClose, for every instance: the record of an unlinked
\* file leaves the database with the last descriptor, unless the process ends
\* there.
THEOREM LastCloseErases == Spec => DeletedRecordsGoWithLastClose
<1>1. IInv /\ [Next]_vars =>
        [\A k \in Keys :
           (db[k].del = 1 => OpenFds(k) # {}) /\ db'[k].del = 1 /\ OpenFds(k)' = {} =>
             failed' = "lazy_unlink_write" \/ Restart]_vars
  BY LastCloseDrops
<1> QED
  BY <1>1, Always, PTL DEF Spec, DeletedRecordsGoWithLastClose
-----------------------------------------------------------------------------
(* The file tree *)

\* The paths of the directories and of the files in the database d.
DirsOf(d) == {p \in Paths : Ok(d, p) /\ Walk(d)[p].type = "dir"}
FilesOf(d) == [p \in {q \in Paths : Ok(d, q) /\ Walk(d)[q].type = "file"} |-> Walk(d)[p].key]

LEMMA TreeShown == Directories = DirsOf(db) /\ Files = FilesOf(db)
  BY NameiWalks DEF Directories, Files, DirsOf, FilesOf, Exists, Ok

LEMMA TreeShownNext == Directories' = DirsOf(db') /\ Files' = FilesOf(db')
  BY NameiWalksNext DEF Directories, Files, DirsOf, FilesOf, Exists, Ok

\* Two databases with the same walks show the same tree.
LEMMA SameTree ==
  ASSUME NEW d, NEW e, \A q \in Paths : Agree(d, e, q)
  PROVE  DirsOf(e) = DirsOf(d) /\ FilesOf(e) = FilesOf(d)
<1>1. /\ \A q \in Paths : Ok(d, q) <=> Ok(e, q)
      /\ \A q \in Paths : Ok(d, q) => Walk(e)[q] = Walk(d)[q]
  BY DEF Agree, Ok
<1>2. DirsOf(e) = DirsOf(d)
  BY <1>1 DEF DirsOf
<1>3. {q \in Paths : Ok(e, q) /\ Walk(e)[q].type = "file"} =
      {q \in Paths : Ok(d, q) /\ Walk(d)[q].type = "file"}
  BY <1>1
<1> QED
  BY <1>1, <1>2, <1>3 DEF FilesOf

\* The tree of e is that of d and the directory or file p, or that without p.
TreeAdds(d, e, p, type, key) ==
  /\ DirsOf(e) = IF type = "dir" THEN DirsOf(d) \cup {p} ELSE DirsOf(d)
  /\ FilesOf(e) = IF type = "dir" THEN FilesOf(d)
                  ELSE [q \in DOMAIN FilesOf(d) \cup {p} |-> IF q = p THEN key ELSE FilesOf(d)[q]]

TreeErases(d, e, p) ==
  /\ DirsOf(e) = DirsOf(d) \ {p}
  /\ FilesOf(e) = [q \in DOMAIN FilesOf(d) \ {p} |-> FilesOf(d)[q]]

LEMMA AddedTree ==
  ASSUME NEW d, NEW p, NEW parent, NEW type, NEW key, NEW record,
         Addable(d, p, parent, type, key, record)
  PROVE  TreeAdds(d, Added(d, p, parent, type, key, record), p, type, key)
<1> DEFINE e == Added(d, p, parent, type, key, record)
<1>1. /\ Walk(e)[p] = Found(key, type) /\ \A q \in Paths \ {p} : Agree(d, e, q)
      /\ p \in Paths /\ ~Ok(d, p) /\ type \in {"dir", "file"}
  BY AddedWalks DEF Addable
<1> HIDE DEF e
<1>2. /\ \A q \in Paths \ {p} : Ok(d, q) <=> Ok(e, q)
      /\ \A q \in Paths \ {p} : Ok(d, q) => Walk(e)[q] = Walk(d)[q]
      /\ Ok(e, p) /\ Walk(e)[p].type = type /\ Walk(e)[p].key = key
  BY <1>1 DEF Agree, Ok, Found
<1> DEFINE Fd == {q \in Paths : Ok(d, q) /\ Walk(d)[q].type = "file"}
           Fe == {q \in Paths : Ok(e, q) /\ Walk(e)[q].type = "file"}
<1>3. DirsOf(e) = IF type = "dir" THEN DirsOf(d) \cup {p} ELSE DirsOf(d)
  BY <1>1, <1>2 DEF DirsOf
<1>4. Fe = IF type = "dir" THEN Fd ELSE Fd \cup {p}
  BY <1>1, <1>2
<1>5. /\ FilesOf(e) = [q \in Fe |-> Walk(e)[q].key] /\ FilesOf(d) = [q \in Fd |-> Walk(d)[q].key]
      /\ \A q \in Fd : q # p /\ Walk(e)[q] = Walk(d)[q]
  BY <1>1, <1>2 DEF FilesOf
<1> HIDE DEF Fd, Fe
<1>6. CASE type = "dir"
  <2>1. FilesOf(e) = FilesOf(d)
    BY <1>4, <1>5, <1>6
  <2> QED
    BY <1>3, <1>6, <2>1 DEF e, TreeAdds
<1>7. CASE type # "dir"
  <2>1. DOMAIN FilesOf(d) = Fd /\ Fe = Fd \cup {p}
    BY <1>4, <1>5, <1>7
  <2>2. \A q \in Fe : Walk(e)[q].key = IF q = p THEN key ELSE FilesOf(d)[q]
    BY <1>2, <1>5, <2>1
  <2>3. FilesOf(e) = [q \in Fd \cup {p} |-> IF q = p THEN key ELSE FilesOf(d)[q]]
    BY <1>5, <2>1, <2>2
  <2> QED
    BY <1>3, <1>7, <2>1, <2>3 DEF e, TreeAdds
<1> QED
  BY <1>6, <1>7

LEMMA ErasedTree ==
  ASSUME NEW d, NEW p, NEW parent, NEW key, NEW record, Erasable(d, p, parent, key, record)
  PROVE  TreeErases(d, Erased(d, p, parent, key, record), p)
<1> DEFINE e == Erased(d, p, parent, key, record)
<1>1. ~Ok(e, p) /\ \A q \in Paths \ {p} : Agree(d, e, q)
  BY ErasedWalks
<1> HIDE DEF e
<1>2. /\ \A q \in Paths \ {p} : Ok(d, q) <=> Ok(e, q)
      /\ \A q \in Paths \ {p} : Ok(d, q) => Walk(e)[q] = Walk(d)[q]
  BY <1>1 DEF Agree, Ok
<1> DEFINE Fd == {q \in Paths : Ok(d, q) /\ Walk(d)[q].type = "file"}
           Fe == {q \in Paths : Ok(e, q) /\ Walk(e)[q].type = "file"}
<1>3. DirsOf(e) = DirsOf(d) \ {p}
  BY <1>1, <1>2 DEF DirsOf
<1>4. Fe = Fd \ {p}
  BY <1>1, <1>2
<1>5. /\ FilesOf(e) = [q \in Fe |-> Walk(e)[q].key] /\ FilesOf(d) = [q \in Fd |-> Walk(d)[q].key]
      /\ \A q \in Fd \ {p} : Walk(e)[q] = Walk(d)[q]
  BY <1>1, <1>2 DEF FilesOf
<1> HIDE DEF Fd, Fe
<1>6. FilesOf(e) = [q \in DOMAIN FilesOf(d) \ {p} |-> FilesOf(d)[q]]
  BY <1>4, <1>5
<1> QED
  BY <1>3, <1>6 DEF e, TreeErases

\* A path that is neither a directory nor a file leads to nothing.
LEMMA TreeCovers ==
  ASSUME Good(db), NEW p \in Paths
  PROVE  /\ Ok(db, p) <=> p \in DirsOf(db) \cup DOMAIN FilesOf(db)
         /\ ~(p \in DirsOf(db) /\ p \in DOMAIN FilesOf(db))
<1>1. Ok(db, p) => Walk(db)[p].type \in {"dir", "file"}
  <2> SUFFICES ASSUME Ok(db, p) PROVE Walk(db)[p].type \in {"dir", "file"}
    OBVIOUS
  <2>1. PICK k \in AllKeys : /\ Walk(db)[p] = Found(k, db[k].type) /\ db[k].type \in {"dir", "file"}
    BY WalkFinds DEF Good
  <2> QED
    BY <2>1 DEF Found
<1> QED
  BY <1>1 DEF DirsOf, FilesOf

\* Where something is added, the tree has room for it.
LEMMA TreeHasRoom ==
  ASSUME Good(db), NEW p, NEW parent, NEW type, NEW key, NEW record,
         Addable(db, p, parent, type, key, record)
  PROVE  Tree!CanAdd(p) /\ p \in Tree!Addable
<1>1. /\ p \in Paths /\ p # <<>> /\ ~Ok(db, p) /\ Walk(db)[Front(p)] = Found(parent, "dir")
      /\ Front(p) \in Paths /\ Last(p) \in Names /\ p = Append(Front(p), Last(p))
  BY PathParts DEF Addable
<1>2. Front(p) \in Directories
  BY <1>1, TreeShown DEF DirsOf, Ok, Found
<1>3. p \notin Directories \cup DOMAIN Files
  BY <1>1, TreeShown, TreeCovers
<1>4. Tree!Front(p) = Front(p)
  BY DEF Tree!Front, Front
<1> HIDE DEF Directories, Files
<1>5. p \in Tree!Addable
  BY <1>1, <1>2 DEF Tree!Addable
<1> QED
  BY <1>1, <1>2, <1>3, <1>4, <1>5 DEF Tree!CanAdd, Tree!InUse

\* What the mapping is of, before a step and after it.
LEMMA TreeNow ==
  ASSUME IInv
  PROVE  /\ Directories = DirsOf(db) /\ Directories' = DirsOf(db')
         /\ Files = FilesOf(db) /\ Files' = FilesOf(db')
         /\ Good(db) /\ Shaped(db) /\ Resolving(db) /\ namei = Walk(db) /\ 0..MaxFd = Fds
BY TreeShown, TreeShownNext, NameiWalks DEF IInv, Good, Fds

\* Each call is a step of the file tree, or changes nothing in it.
LEMMA MkdirInTree ==
  ASSUME IInv, NEW p \in Paths, mkdir(p)
  PROVE  p \in Tree!Addable /\ Tree!Mkdir(p)
<1>1. PICK key \in NewKeys, record \in Records :
         /\ Addable(db, p, ParentKey(p), "dir", key, record)
         /\ db' = Added(db, p, ParentKey(p), "dir", key, record)
  BY MkdirAdds
<1>2. Directories' = Directories \cup {p} /\ Files' = Files
  <2>1. TreeAdds(db, db', p, "dir", key)
    BY <1>1, AddedTree
  <2> QED
    BY TreeNow, <2>1 DEF TreeAdds
<1>3. fd_table' = fd_table
  BY DEF mkdir, memory
<1>4. Tree!CanAdd(p) /\ p \in Tree!Addable
  BY TreeNow, <1>1, TreeHasRoom
<1> QED
  BY <1>2, <1>3, <1>4 DEF Tree!Mkdir

LEMMA CreateInTree ==
  ASSUME IInv, NEW p \in Paths, create(p)
  PROVE  /\ p \in Tree!Addable /\ Tree!Create(p)
         /\ Files'[p] \in Keys /\ db[Files'[p]] = NoRecord /\ db'[Files'[p]] # NoRecord
<1>1. PICK key \in NewKeys, record \in Records :
         /\ Addable(db, p, ParentKey(p), "file", key, record)
         /\ db' = Added(db, p, ParentKey(p), "file", key, record)
  BY CreateAdds
<1>2. /\ Directories' = Directories
      /\ Files' = [q \in DOMAIN Files \cup {p} |-> IF q = p THEN key ELSE Files[q]]
  <2>1. TreeAdds(db, db', p, "file", key)
    BY <1>1, AddedTree
  <2> QED
    BY TreeNow, <2>1 DEF TreeAdds
<1>3. fd_table' = fd_table
  BY DEF create, memory
<1>4. Tree!CanAdd(p) /\ p \in Tree!Addable
  BY TreeNow, <1>1, TreeHasRoom
<1>5. key \in Keys \ (Tree!Range(Files) \cup Tree!Range(fd_table))
  <2>1. key \in Keys /\ key \in AllKeys /\ db[key] = NoRecord /\ OpenFds(key) = {}
    BY OpenMeansDescriptors, Keys1 DEF NewKeys, IInv
  <2>2. key \notin Tree!Range(fd_table)
    BY <2>1 DEF Tree!Range, OpenFds, IInv, TablesTyped
  <2>3. ASSUME NEW q \in DOMAIN Files PROVE Files[q] # key
    <3>1. q \in Paths /\ Ok(db, q) /\ Files[q] = Walk(db)[q].key
      BY TreeNow DEF FilesOf
    <3>2. PICK k \in AllKeys : Walk(db)[q] = Found(k, db[k].type) /\ db[k].type \in {"dir", "file"}
      BY TreeNow, <3>1, WalkFinds
    <3>3. NoRecord.type = "none"
      BY DEF NoRecord, Record
    <3> QED
      BY <2>1, <3>1, <3>2, <3>3 DEF Found
  <2> QED
    BY <2>1, <2>2, <2>3 DEF Tree!Range
<1>6. Tree!Create(p)
  BY <1>2, <1>3, <1>4, <1>5 DEF Tree!Create
<1>7. Files'[p] = key /\ db'[key] # NoRecord
  <2>1. p \in DOMAIN Files \cup {p}
    OBVIOUS
  <2>2. Changed(db, db', p, ParentKey(p), [key |-> key, type |-> "file"], key, record)
        /\ record.type = "file"
    BY <1>1, AddedRecords DEF Addable
  <2> QED
    BY <1>2, <2>1, <2>2 DEF Changed, NoRecord, Record
<1> QED
  BY <1>4, <1>6, <1>7 DEF NewKeys

LEMMA RmdirInTree ==
  ASSUME IInv, NEW p \in Paths, rmdir(p)
  PROVE  p \in Directories /\ Tree!Rmdir(p)
<1> DEFINE key == Walk(db)[p].key
<1>1. /\ Erasable(db, p, ParentKey(p), key, NoRecord)
      /\ db' = Erased(db, p, ParentKey(p), key, NoRecord)
      /\ Walk(db)[p].type = "dir"
  BY RmdirErases
<1>2. p # <<>> /\ Ok(db, p) /\ db[key].entries = NoEntries
  BY <1>1 DEF Erasable
<1>3. p \in Directories /\ p \notin DOMAIN Files
  BY TreeNow, <1>1, <1>2, TreeCovers DEF DirsOf
<1>4. Directories' = Directories \ {p} /\ Files' = Files
  <2>1. TreeErases(db, db', p)
    BY <1>1, ErasedTree
  <2>2. /\ Directories' = Directories \ {p}
        /\ Files' = [q \in DOMAIN Files \ {p} |-> Files[q]]
    BY TreeNow, <2>1 DEF TreeErases
  <2>3. DOMAIN Files \ {p} = DOMAIN Files /\ Files = [q \in DOMAIN Files |-> Files[q]]
    BY TreeNow, <1>3 DEF FilesOf
  <2> QED
    BY <2>2, <2>3
<1>5. ASSUME NEW q \in (Directories \cup DOMAIN Files) \ {<<>>} PROVE Tree!Front(q) # p
  <2>1. q \in Paths /\ Ok(db, q)
    BY TreeNow, TreeCovers DEF DirsOf, FilesOf
  <2>2. Walk(db)[p] = Found(key, "dir")
    <3>1. Walk(db)[p] = Found(key, db[key].type)
      BY <1>1, ErasedRecords
    <3> HIDE DEF key
    <3> QED
      BY <1>1, <3>1 DEF Found
  <2>3. Tree!Front(q) = Front(q)
    BY DEF Tree!Front, Front
  <2> QED
    BY <1>2, <2>1, <2>2, <2>3, NothingBelow
<1>6. fd_table' = fd_table
  BY DEF rmdir, memory
<1> QED
  BY <1>2, <1>3, <1>4, <1>5, <1>6 DEF Tree!Rmdir, Tree!InUse

LEMMA UnlinkInTree ==
  ASSUME IInv, NEW p \in Paths, unlink(p)
  PROVE  \/ p \in DOMAIN Files /\ Tree!Unlink(p)
         \/ UNCHANGED <<Directories, Files, fd_table>>
<1> DEFINE key == Walk(db)[p].key
           record == IF is_file_open(key) THEN [db[key] EXCEPT !.del = 1] ELSE NoRecord
<1>1. /\ Erasable(db, p, ParentKey(p), key, record)
      /\ db' = Erased(db, p, ParentKey(p), key, record) \/ db' = db
      /\ Ok(db, p) /\ Walk(db)[p].type = "file"
  BY UnlinkErases
<1>2. fd_table' = fd_table
  BY DEF unlink
<1>3. CASE db' = db
  BY TreeNow, <1>2, <1>3
<1>4. CASE db' = Erased(db, p, ParentKey(p), key, record)
  <2>1. TreeErases(db, db', p)
    BY <1>1, <1>4, ErasedTree
  <2>2. p \in DOMAIN Files /\ p \notin Directories
    BY TreeNow, <1>1 DEF DirsOf, FilesOf
  <2>3. Directories' = Directories /\ Files' = [q \in DOMAIN Files \ {p} |-> Files[q]]
    BY TreeNow, <2>1, <2>2 DEF TreeErases
  <2> QED
    BY <1>2, <2>2, <2>3 DEF Tree!Unlink
<1> QED
  BY <1>1, <1>3, <1>4

LEMMA OpenInTree ==
  ASSUME IInv, NEW p \in Paths, open(p)
  PROVE  p \in DOMAIN Files /\ Tree!Open(p)
<1>1. /\ fd_allocate \in Fds /\ fd_table[fd_allocate] = NoKey
      /\ \A lower \in 0..(fd_allocate - 1) : fd_table[lower] # NoKey
      /\ fd_table' = [fd_table EXCEPT ![fd_allocate] = namei[p].key]
  BY FdAllocated DEF open, fd_set
<1>2. p \in DOMAIN Files /\ Files[p] = namei[p].key
  BY TreeNow DEF open, Exists, FilesOf, Ok
<1>3. Directories' = Directories /\ Files' = Files
  BY TreeNow DEF open
<1> QED
  BY TreeNow, <1>1, <1>2, <1>3 DEF Tree!Open

LEMMA CloseInTree ==
  ASSUME IInv, NEW fd \in Fds, close(fd)
  PROVE  Tree!Close(fd)
<1>1. fd_table[fd] # NoKey /\ fd_table' = [fd_table EXCEPT ![fd] = NoKey]
  BY DEF close, fd_deallocate
<1>2. Directories' = Directories /\ Files' = Files
  <2>1. db' = db \/ (db[fd_table[fd]].del = 1 /\ db' = [db EXCEPT ![fd_table[fd]] = NoRecord])
    BY CloseDrops
  <2>2. fd_table[fd] \in Keys
    BY CloseTakesFd DEF IInv
  <2> QED
    BY TreeNow, <2>1, <2>2, Dropped, SameTree
<1> QED
  BY TreeNow, <1>1, <1>2 DEF Tree!Close

LEMMA RestartInTree ==
  ASSUME IInv, Restart
  PROVE  Tree!Restart
  BY TreeNow DEF Restart, Tree!Restart

LEMMA RootStaysInTree ==
  ASSUME IInv, rmdir_root \/ UNCHANGED vars
  PROVE  UNCHANGED <<Directories, Files, fd_table>>
  BY TreeNow DEF rmdir_root, memory, vars

LEMMA CallsAreTreeSteps ==
  ASSUME IInv, [Next]_vars
  PROVE  [Tree!Next]_<<Directories, Files, fd_table>>
<1>1. 0..MaxFd = Fds
  BY DEF Fds
<1> QED
  BY <1>1, MkdirInTree, CreateInTree, RmdirInTree, UnlinkInTree, OpenInTree, CloseInTree,
     RestartInTree, RootStaysInTree DEF Next, Call, Tree!Next

\* At first there is the root and nothing else.
LEMMA TreeInitially == Init => Tree!Init
<1> SUFFICES ASSUME Init PROVE Tree!Init
  OBVIOUS
<1>1. Directories = DirsOf(db) /\ Files = FilesOf(db) /\ IInv
  BY TreeShown, Initially
<1>2. ASSUME NEW p \in Paths, p # <<>> PROVE ~Ok(db, p)
  <2>1. Shaped(db) /\ Resolving(db)
    BY <1>1 DEF IInv, Good
  <2>2. ASSUME NEW k \in AllKeys, NEW n \in Names PROVE db[k].entries[n] = NoEntry
    BY DEF Init, dir_json_init, NoRecord, Record, NoEntries
  <2> QED
    BY <1>2, <2>1, <2>2, LastStep, PathParts
<1>3. Ok(db, <<>>) /\ Walk(db)[<<>>].type = "dir" /\ <<>> \in Paths
  BY WalkRoot, PathTypes DEF Ok, Found
<1>4. Directories = {<<>>}
  BY <1>1, <1>2, <1>3 DEF DirsOf
<1>5. Files = <<>>
  <2>1. {q \in Paths : Ok(db, q) /\ Walk(db)[q].type = "file"} = {}
    BY <1>2, <1>3
  <2> QED
    BY <1>1, <2>1 DEF FilesOf
<1>6. fd_table = [fd \in 0..MaxFd |-> NoKey]
  BY DEF Init, Fds
<1> QED
  BY <1>4, <1>5, <1>6 DEF Tree!Init

\* ImplementsFileTree, for every instance: through its calls the database is a
\* tree of directories and files, and a descriptor keeps its file.
THEOREM Refinement == Spec => ImplementsFileTree
  BY TreeInitially, CallsAreTreeSteps, Always, PTL DEF Spec, ImplementsFileTree, Tree!Spec
-----------------------------------------------------------------------------
(* The data of files *)

\* The blocks that hold the data w, each in its place.
BlocksOf(w) ==
  [k \in Keys |-> [n \in BlockNumbers |->
     IF n \in 0..LastBlock /\ w[k][n] # Hole THEN [offset |-> n * BS, data |-> w[k][n]] ELSE Hole]]

\* The blocks in the database are those that were written, also under keys
\* that no file has any more.
BlocksHoldWritten == blocks = BlocksOf(written)

Writables == [Keys -> [0..LastBlock -> {Hole} \cup Data]]
WrittenTyped == written \in Writables

FailureKnown ==
  failed \in {"none", "rmdir_root", "lazy_unlink_del", "lazy_unlink_write", "write", "read"}

IInvData == IInv /\ WrittenTyped /\ BlocksHoldWritten /\ FailureKnown
-----------------------------------------------------------------------------
(* Numbers *)

LEMMA LeastIs ==
  ASSUME NEW S \in SUBSET Nat, NEW m \in S, \A n \in S : m <= n
  PROVE  Min(S) = m
<1>1. Min(S) \in S /\ \A n \in S : Min(S) <= n
  BY DEF Min
<1>2. Min(S) \in Nat /\ m \in Nat /\ Min(S) <= m /\ m <= Min(S)
  BY <1>1
<1> QED
  BY <1>2

LEMMA MinOfSet ==
  ASSUME NEW S \in SUBSET Nat, S # {}
  PROVE  Min(S) \in S /\ \A n \in S : Min(S) <= n
<1>1. PICK m \in S : \A n \in S : m <= n
  BY LeastElement
<1>2. Min(S) = m
  BY <1>1, LeastIs
<1> QED
  BY <1>1, <1>2

\* Division by the block size.
LEMMA Quotient ==
  ASSUME NEW a \in Nat
  PROVE  /\ a \div BS \in Nat /\ a % BS \in 0..(BS - 1)
         /\ a = (a \div BS) * BS + (a % BS)
<1>1. BS \in Nat \ {0}
  BY RocksFileAssumption
<1> QED
  BY <1>1

\* Multiples of the block size are in order.
LEMMA Multiples ==
  ASSUME NEW f \in Nat, NEW g \in Nat
  PROVE  /\ f * BS \in Nat
         /\ f * BS + g * BS = (f + g) * BS
         /\ f <= g => f * BS <= g * BS
         /\ f < g => f * BS + BS <= g * BS
         /\ f <= g => (g - f) * BS = g * BS - f * BS
<1>1. BS \in Nat \ {0}
  BY RocksFileAssumption
<1>2. f * BS \in Nat
  BY <1>1
<1>3. f * BS + g * BS = (f + g) * BS
  BY <1>1
<1>4. f <= g => (g - f) * BS = g * BS - f * BS
  BY <1>1
<1>5. f <= g => (g - f) * BS >= 0
  BY <1>1
<1>6. f < g => (g - f) * BS >= BS
  <2> SUFFICES ASSUME f < g PROVE (g - f) * BS >= BS
    OBVIOUS
  <2>1. (g - f) * BS = (g - f - 1) * BS + BS /\ g - f - 1 \in Nat
    BY <1>1
  <2>2. (g - f - 1) * BS \in Nat
    BY <1>1, <2>1
  <2> QED
    BY <1>1, <2>1, <2>2
<1>7. g * BS \in Nat
  BY <1>1
<1> QED
  BY <1>1, <1>2, <1>3, <1>4, <1>5, <1>6, <1>7

\* Comparing places with places compares their numbers.
LEMMA QuotientIs ==
  ASSUME NEW f \in Nat, NEW r \in 0..(BS - 1)
  PROVE  (f * BS + r) \div BS = f /\ (f * BS + r) % BS = r
<1>1. BS \in Nat \ {0}
  BY RocksFileAssumption
<1> DEFINE a == f * BS + r
           q == a \div BS
<1>2. a \in Nat /\ f * BS \in Nat /\ r \in Nat
  BY <1>1, Multiples
<1>3. q \in Nat /\ a % BS \in 0..(BS - 1) /\ a = q * BS + (a % BS)
  BY <1>2, Quotient
<1>4. a = f * BS + r
  OBVIOUS
<1> HIDE DEF a, q
<1>5. ~(q < f) /\ ~(f < q)
  <2>1. q < f => q * BS + BS <= f * BS
    BY <1>3, Multiples
  <2>2. f < q => f * BS + BS <= q * BS
    BY <1>3, Multiples
  <2> QED
    BY <1>1, <1>2, <1>3, <1>4, <2>1, <2>2, Multiples
<1>6. q = f
  BY <1>3, <1>5
<1> QED
  BY <1>2, <1>3, <1>4, <1>6 DEF a, q
-----------------------------------------------------------------------------
(* The loops of write and read *)

LEMMA Widths ==
  /\ BS \in Nat \ {0} /\ LastBlock \in Nat /\ 2^BlockBits \in Nat /\ 2^OffsetBits \in Nat
  /\ LastBlock + 1 < 2^BlockBits /\ (LastBlock + 1) * BS < 2^OffsetBits
  /\ BS * (LastBlock + 1) = (LastBlock + 1) * BS
<1>1. BS \in Nat \ {0} /\ LastBlock \in Nat
  BY RocksFileAssumption
<1>2. BS * (LastBlock + 1) = (LastBlock + 1) * BS
  BY <1>1
<1> QED
  BY <1>1, <1>2, RocksFileAssumption

\* Below its width a number is not cut.
LEMMA Uncut ==
  ASSUME NEW n \in Nat, NEW w \in Nat, n < w
  PROVE  n % w = n
  OBVIOUS

LEMMA RoundIs ==
  ASSUME NEW f \in Nat, NEW r \in 0..(BS - 1), NEW k \in Nat, f + k <= LastBlock + 1
  PROVE  Round(f * BS + r, k) = f + k
<1>1. f < 2^BlockBits /\ f + k < 2^BlockBits /\ f + k \in Nat
  BY Widths
<1>2. First(f * BS + r) = f
  BY <1>1, Widths, QuotientIs, Uncut DEF First, BlockOf
<1> QED
  BY <1>1, <1>2, Widths, Uncut DEF Round

LEMMA EndIs ==
  ASSUME NEW offset \in Nat, NEW count \in Nat, NEW g \in Nat, NEW r \in 0..(BS - 1),
         offset + count - 1 = g * BS + r, g <= LastBlock
  PROVE  End(offset, count) = g
<1>1. g * BS + r \in Nat /\ g * BS + r < (LastBlock + 1) * BS
  <2>1. g * BS \in Nat /\ g * BS + BS <= (LastBlock + 1) * BS /\ BS \in Nat /\ r \in Nat /\ r < BS
    BY Widths, Multiples
  <2>2. (LastBlock + 1) * BS \in Nat
    BY Widths, Multiples
  <2> QED
    BY <2>1, <2>2
<1>2. (offset + count - 1) % 2^OffsetBits = g * BS + r
  <2>1. g * BS + r < 2^OffsetBits
    BY <1>1, Widths
  <2> QED
    BY <1>1, <2>1, Widths, Uncut
<1>3. g % 2^BlockBits = g
  BY Widths, Uncut
<1> QED
  BY <1>2, <1>3, QuotientIs DEF End, BlockOf

\* The records of a write of m blocks from block f on.
Batch(f, m) == [i \in 1..m |-> [block |-> f + i - 1, offset |-> (f + i - 1) * BS]]

\* A request for whole blocks is done in as many rounds as it has blocks.
LEMMA WholeRounds ==
  ASSUME NEW f \in Nat, NEW m \in Nat \ {0}, f + m <= LastBlock + 1, NEW k \in 0..m
  PROVE  /\ Round(f * BS, k) = f + k
         /\ Past(f * BS, m * BS, k) <=> k = m
         /\ HasWholeBlock(f * BS, m * BS, k) <=> k < m
         /\ f * BS + k * BS = (f + k) * BS
         /\ (m * BS) \div BS = m
<1>1. BS \in Nat \ {0} /\ 0 \in 0..(BS - 1) /\ BS - 1 \in 0..(BS - 1)
  BY Widths
<1>2. f * BS \in Nat /\ m * BS \in Nat /\ k * BS \in Nat /\ k \in Nat
  <2>1. m \in Nat /\ k \in Nat
    OBVIOUS
  <2> QED
    BY <2>1, Multiples
<1>3. Round(f * BS, k) = f + k
  <2>1. f * BS + 0 = f * BS /\ f + k <= LastBlock + 1
    BY <1>2, Widths
  <2> QED
    BY <1>1, <1>2, <2>1, RoundIs
<1>4. End(f * BS, m * BS) = f + m - 1
  <2>1. f * BS + m * BS - 1 = (f + m - 1) * BS + (BS - 1)
    <3>1. (f + m - 1) * BS + 1 * BS = (f + m) * BS /\ 1 * BS = BS
      BY <1>1, Multiples
    <3>2. f * BS + m * BS = (f + m) * BS
      BY Multiples
    <3>3. (f + m - 1) * BS \in Nat
      BY Multiples
    <3> QED
      BY <1>1, <3>1, <3>2, <3>3
  <2>2. f + m - 1 \in Nat /\ f + m - 1 <= LastBlock
    BY Widths
  <2> QED
    BY <1>1, <1>2, <2>1, <2>2, EndIs
<1>5. f * BS + k * BS = (f + k) * BS
  BY <1>2, Multiples
<1>6. is_block_aligned(f * BS + k * BS)
  <2>1. (f + k) * BS + 0 = (f + k) * BS /\ f + k \in Nat
    BY <1>2, <1>5, Multiples
  <2> QED
    BY <1>1, <1>5, <2>1, QuotientIs DEF is_block_aligned
<1>7. m * BS - k * BS >= BS <=> k < m
  BY <1>1, <1>2, Multiples
<1>8. (m * BS) \div BS = m
  <2>1. m * BS + 0 = m * BS
    BY <1>2
  <2> QED
    BY <1>1, <2>1, QuotientIs
<1> QED
  BY <1>2, <1>3, <1>4, <1>5, <1>6, <1>7, <1>8 DEF Past, HasWholeBlock

LEMMA WholeWrite ==
  ASSUME NEW f \in Nat, NEW m \in Nat \ {0}, f + m <= LastBlock + 1
  PROVE  write(f * BS, m * BS) = [ok |-> TRUE, batch |-> Batch(f, m)]
<1> DEFINE offset == f * BS
           count == m * BS
           stops == {k \in 0..(count \div BS) :
                       Past(offset, count, k) \/ ~HasWholeBlock(offset, count, k)}
<1>1. /\ count \div BS = m
      /\ \A k \in 0..m : Round(offset, k) = f + k /\ offset + k * BS = (f + k) * BS
      /\ \A k \in 0..m : Past(offset, count, k) <=> k = m
      /\ \A k \in 0..m : HasWholeBlock(offset, count, k) <=> k < m
  <2>1. m \in 0..m
    OBVIOUS
  <2> QED
    BY <2>1, WholeRounds
<1> HIDE DEF offset, count
<1>2. stops = {m}
  BY <1>1
<1>3. Min(stops) = m
  <2> HIDE DEF stops
  <2> QED
    BY <1>2, LeastIs
<1>4. write(offset, count) =
        [ok    |-> Past(offset, count, m),
         batch |-> [i \in 1..m |-> [block |-> Round(offset, i - 1), offset |-> offset + (i - 1) * BS]]]
  BY <1>3 DEF write
<1>5. ASSUME NEW i \in 1..m
      PROVE  Round(offset, i - 1) = f + i - 1 /\ offset + (i - 1) * BS = (f + i - 1) * BS
  <2>1. i - 1 \in 0..m /\ f + (i - 1) = f + i - 1
    OBVIOUS
  <2> QED
    BY <1>1, <2>1
<1>6. m \in 0..m
  OBVIOUS
<1> QED
  BY <1>1, <1>4, <1>5, <1>6 DEF Batch, offset, count

\* A write that passes its last block is one of whole blocks, and leaves none
\* of them out; an empty one stores nothing.
LEMMA WriteOfBlocks ==
  ASSUME NEW r \in Requests, write(r[1], r[2]).ok
  PROVE  \E f, m \in Nat : /\ r[1] = f * BS /\ r[2] = m * BS /\ f + m <= LastBlock + 1
                           /\ write(r[1], r[2]).batch = Batch(f, m)
<1> DEFINE offset == r[1]
           count == r[2]
           f == offset \div BS
           stops == {k \in 0..(count \div BS) :
                       Past(offset, count, k) \/ ~HasWholeBlock(offset, count, k)}
           m == Min(stops)
<1>1. /\ offset \in Nat /\ count \in Nat /\ offset + count <= (LastBlock + 1) * BS
      /\ BS \in Nat \ {0} /\ LastBlock \in Nat
  <2>1. BS * (LastBlock + 1) \in Nat
    BY Widths
  <2> QED
    BY <2>1, Widths DEF Requests
<1>2. /\ f \in Nat /\ offset % BS \in 0..(BS - 1) /\ offset = f * BS + (offset % BS) /\ f * BS \in Nat
      /\ count \div BS \in Nat /\ (count \div BS) * BS <= count
  <2> HIDE DEF offset, count
  <2>1. f \in Nat /\ offset % BS \in 0..(BS - 1) /\ offset = f * BS + (offset % BS)
    BY <1>1, Quotient
  <2>2. /\ count \div BS \in Nat /\ count % BS \in 0..(BS - 1)
        /\ count = (count \div BS) * BS + (count % BS)
    BY <1>1, Quotient
  <2>3. (count \div BS) * BS \in Nat /\ f * BS \in Nat
    BY <2>1, <2>2, Multiples
  <2> QED
    BY <1>1, <2>1, <2>2, <2>3
<1>3. Past(offset, count, m)
  BY DEF write
<1>4. write(offset, count).batch =
        [i \in 1..m |-> [block |-> Round(offset, i - 1), offset |-> offset + (i - 1) * BS]]
  BY DEF write
<1> HIDE DEF offset, count, f
<1>5. m \in 0..(count \div BS) /\ \A k \in 0..(count \div BS) : k < m => HasWholeBlock(offset, count, k)
  <2>1. stops \in SUBSET Nat
    BY <1>2
  <2>2. count \div BS \in stops
    <3>1. count - (count \div BS) * BS < BS
      <4>1. count % BS \in 0..(BS - 1) /\ count = (count \div BS) * BS + (count % BS)
        BY <1>1, Quotient
      <4>2. (count \div BS) * BS \in Nat
        BY <1>2, Multiples
      <4> QED
        BY <1>1, <4>1, <4>2
    <3>2. ~(count - (count \div BS) * BS >= BS)
      <4>1. (count \div BS) * BS \in Nat
        BY <1>2, Multiples
      <4> QED
        BY <1>1, <3>1, <4>1
    <3>3. count \div BS \in 0..(count \div BS)
      BY <1>2
    <3> QED
      BY <3>2, <3>3 DEF HasWholeBlock
  <2>3. m \in stops /\ \A k \in stops : m <= k
    <3> HIDE DEF stops
    <3> QED
      BY <2>1, <2>2, MinOfSet
  <2>4. ASSUME NEW k \in 0..(count \div BS), k < m PROVE k \notin stops
    <3>1. m \in Nat /\ k \in Nat
      BY <1>2, <2>3
    <3> HIDE DEF m, stops
    <3> QED
      BY <2>3, <2>4, <3>1
  <2> QED
    BY <2>3, <2>4
<1> HIDE DEF m
<1>6. m \in Nat
  BY <1>2, <1>5
<1>7. CASE m = 0
  <2>1. f <= LastBlock + 1
    <3>1. LastBlock + 1 < f => (LastBlock + 1) * BS + BS <= f * BS
      BY <1>1, <1>2, Multiples
    <3>2. (LastBlock + 1) * BS \in Nat
      BY <1>1, Multiples
    <3> QED
      BY <1>1, <1>2, <3>1, <3>2
  <2>2. Round(offset, 0) = f
    <3>1. f + 0 <= LastBlock + 1 /\ f + 0 = f
      BY <1>1, <1>2, <2>1
    <3> QED
      BY <1>2, <3>1, RoundIs
  <2>3. ASSUME count # 0 PROVE FALSE
    <3> DEFINE last == offset + count - 1
               g == last \div BS
    <3>1. last \in Nat
      BY <1>1, <2>3
    <3>2. g \in Nat /\ last % BS \in 0..(BS - 1) /\ last = g * BS + (last % BS) /\ g * BS \in Nat
      <4> HIDE DEF last
      <4>1. g \in Nat /\ last % BS \in 0..(BS - 1) /\ last = g * BS + (last % BS)
        BY <3>1, Quotient
      <4> QED
        BY <4>1, Multiples
    <3>3. last >= offset /\ last < (LastBlock + 1) * BS /\ last = offset + count - 1
      BY <1>1, <2>3, Multiples
    <3> HIDE DEF last, g
    <3>4. g <= LastBlock
      <4>1. LastBlock + 1 <= g => (LastBlock + 1) * BS <= g * BS
        BY <1>1, <3>2, Multiples
      <4>2. (LastBlock + 1) * BS \in Nat
        BY <1>1, Multiples
      <4> QED
        BY <1>1, <3>2, <3>3, <4>1, <4>2
    <3>5. End(offset, count) = g
      <4>1. offset + count - 1 = g * BS + (last % BS)
        BY <3>2, <3>3
      <4> QED
        BY <1>1, <3>2, <3>4, <4>1, EndIs
    <3>6. f > g
      BY <1>3, <1>7, <2>2, <3>5 DEF Past
    <3>7. g * BS + BS <= f * BS
      BY <1>2, <3>2, <3>6, Multiples
    <3> QED
      BY <1>1, <1>2, <3>1, <3>2, <3>3, <3>7
  <2>4. offset % BS = 0
    <3> SUFFICES ASSUME offset % BS # 0 PROVE FALSE
      OBVIOUS
    <3>1. offset + count - 1 = f * BS + ((offset % BS) - 1) /\ (offset % BS) - 1 \in 0..(BS - 1)
      BY <1>1, <1>2, <2>3
    <3>2. f <= LastBlock
      <4>1. LastBlock + 1 <= f => (LastBlock + 1) * BS <= f * BS
        BY <1>1, <1>2, Multiples
      <4>2. (LastBlock + 1) * BS \in Nat
        BY <1>1, Multiples
      <4> QED
        BY <1>1, <1>2, <2>3, <4>1, <4>2
    <3>3. End(offset, count) = f
      BY <1>1, <1>2, <3>1, <3>2, EndIs
    <3> QED
      BY <1>2, <1>3, <1>7, <2>2, <3>3 DEF Past
  <2>5. offset = f * BS /\ count = 0 * BS /\ f + 0 <= LastBlock + 1
    BY <1>1, <1>2, <2>1, <2>3, <2>4
  <2>6. write(offset, count).batch = Batch(f, 0)
    BY <1>4, <1>7 DEF Batch
  <2> QED
    BY <1>2, <2>5, <2>6 DEF offset, count
<1>8. CASE m # 0
  <2>1. HasWholeBlock(offset, count, 0)
    BY <1>2, <1>5, <1>6, <1>8
  <2>2. offset = f * BS
    <3>1. offset + 0 * BS = offset
      BY <1>1
    <3>2. offset % BS = 0
      BY <2>1, <3>1 DEF HasWholeBlock, is_block_aligned
    <3> QED
      BY <1>2, <3>2
  <2>3. m * BS <= count /\ m * BS \in Nat
    <3>1. m <= count \div BS => m * BS <= (count \div BS) * BS
      BY <1>2, <1>6, Multiples
    <3>2. m * BS \in Nat /\ (count \div BS) * BS \in Nat
      BY <1>2, <1>6, Multiples
    <3>3. m <= count \div BS
      BY <1>2, <1>5
    <3> QED
      BY <1>1, <1>2, <3>1, <3>2, <3>3
  <2>4. f + m <= LastBlock + 1
    <3>1. f * BS + m * BS = (f + m) * BS /\ (f + m) * BS \in Nat
      <4>1. f + m \in Nat
        BY <1>2, <1>6
      <4> QED
        BY <1>2, <1>6, <4>1, Multiples
    <3>2. LastBlock + 1 < f + m => (LastBlock + 1) * BS + BS <= (f + m) * BS
      BY <1>1, <1>2, <1>6, Multiples
    <3>3. (LastBlock + 1) * BS \in Nat
      BY <1>1, Multiples
    <3> QED
      BY <1>1, <1>2, <1>6, <2>2, <2>3, <3>1, <3>2, <3>3
  <2>5. Round(offset, m) = f + m
    <3>1. f * BS + 0 = offset /\ 0 \in 0..(BS - 1)
      BY <1>1, <1>2, <2>2
    <3> QED
      BY <1>2, <1>6, <2>4, <3>1, RoundIs
  <2>6. count = m * BS
    <3> DEFINE last == offset + count - 1
               g == last \div BS
    <3>1. count > 0
      <4>1. m >= 1 => 1 * BS <= m * BS
        BY <1>6, Multiples
      <4>2. 1 * BS = BS
        BY <1>1
      <4> QED
        BY <1>1, <1>6, <1>8, <2>3, <4>1, <4>2
    <3>2. last \in Nat /\ last < (LastBlock + 1) * BS
      BY <1>1, <3>1, Multiples
    <3>3. g \in Nat /\ last % BS \in 0..(BS - 1) /\ last = g * BS + (last % BS) /\ g * BS \in Nat
      <4> HIDE DEF last
      <4>1. g \in Nat /\ last % BS \in 0..(BS - 1) /\ last = g * BS + (last % BS)
        BY <3>2, Quotient
      <4> QED
        BY <4>1, Multiples
    <3>4. last = offset + count - 1
      OBVIOUS
    <3> HIDE DEF last, g
    <3>5. g <= LastBlock
      <4>1. LastBlock + 1 <= g => (LastBlock + 1) * BS <= g * BS
        BY <1>1, <3>3, Multiples
      <4>2. (LastBlock + 1) * BS \in Nat
        BY <1>1, Multiples
      <4> QED
        BY <1>1, <3>2, <3>3, <4>1, <4>2
    <3>6. End(offset, count) = g
      <4>1. offset + count - 1 = g * BS + (last % BS)
        BY <3>3, <3>4
      <4> QED
        BY <1>1, <3>3, <3>5, <4>1, EndIs
    <3>7. f + m > g
      BY <1>3, <2>5, <3>6 DEF Past
    <3>8. g * BS + BS <= (f + m) * BS /\ f * BS + m * BS = (f + m) * BS
      <4>1. f + m \in Nat /\ g < f + m
        BY <1>2, <1>6, <3>3, <3>7
      <4> QED
        BY <1>2, <1>6, <3>3, <4>1, Multiples
    <3> QED
      BY <1>1, <1>2, <2>2, <2>3, <3>2, <3>3, <3>4, <3>8
  <2>7. write(offset, count).batch = Batch(f, m)
    <3>1. m \in Nat \ {0}
      BY <1>6, <1>8
    <3>2. write(f * BS, m * BS) = [ok |-> TRUE, batch |-> Batch(f, m)]
      BY <1>2, <2>4, <3>1, WholeWrite
    <3> QED
      BY <2>2, <2>6, <3>2
  <2> QED
    BY <1>2, <1>6, <2>2, <2>4, <2>6, <2>7 DEF offset, count
<1> QED
  BY <1>7, <1>8

\* What a batch of whole blocks makes of the blocks under a key.
LEMMA StoredBlocks ==
  ASSUME NEW f \in Nat, NEW m \in Nat, NEW old, NEW value
  PROVE  Stored(old, Batch(f, m), value) =
           [n \in BlockNumbers |-> IF n \in f..(f + m - 1) THEN [offset |-> n * BS, data |-> value]
                                   ELSE old[n]]
<1> DEFINE batch == Batch(f, m)
           puts(n) == {i \in DOMAIN batch : batch[i].block = n}
<1>1. DOMAIN batch = 1..m /\ \A i \in 1..m : batch[i] = [block |-> f + i - 1, offset |-> (f + i - 1) * BS]
  BY DEF Batch
<1>2. Stored(old, batch, value) =
        [n \in BlockNumbers |->
           IF puts(n) = {} THEN old[n] ELSE [offset |-> batch[Max(puts(n))].offset, data |-> value]]
  BY DEF Stored
<1> HIDE DEF batch
<1>3. ASSUME NEW n \in BlockNumbers
      PROVE  (IF puts(n) = {} THEN old[n] ELSE [offset |-> batch[Max(puts(n))].offset, data |-> value]) =
             IF n \in f..(f + m - 1) THEN [offset |-> n * BS, data |-> value] ELSE old[n]
  <2>1. n \in Nat
    BY Widths DEF BlockNumbers
  <2>2. CASE n \in f..(f + m - 1)
    <3> DEFINE i == n - f + 1
    <3>1. i \in 1..m /\ f + i - 1 = n /\ \A j \in 1..m : f + j - 1 = n => j = i
      BY <2>1, <2>2
    <3> HIDE DEF i
    <3>2. puts(n) = {i}
      BY <1>1, <3>1
    <3>3. Max(puts(n)) = i
      <4>1. Max({i}) = i
        BY <3>1 DEF Max
      <4> QED
        BY <3>2, <4>1
    <3>4. batch[i].offset = n * BS
      BY <1>1, <3>1
    <3> QED
      BY <2>2, <3>2, <3>3, <3>4
  <2>3. CASE n \notin f..(f + m - 1)
    <3>1. ASSUME NEW j \in 1..m PROVE batch[j].block # n
      <4>1. f + j - 1 # n
        BY <2>1, <2>3
      <4> QED
        BY <1>1, <4>1
    <3>2. puts(n) = {}
      BY <1>1, <3>1
    <3> QED
      BY <2>3, <3>2
  <2> QED
    BY <2>2, <2>3
<1> QED
  BY <1>2, <1>3 DEF batch

\* A read of m blocks from f on returns the first `stop' of them.
ReadsUpTo(old, f, m, stop) ==
  /\ read(old, f * BS, m * BS).ok
  /\ read(old, f * BS, m * BS).data = [i \in 1..stop |-> old[f + i - 1].data]

\* A read of whole blocks ends at the first that is not stored, when each
\* stored block is in its place.
LEMMA WholeRead ==
  ASSUME NEW f \in Nat, NEW m \in Nat \ {0}, f + m <= LastBlock + 1, NEW old,
         \A n \in f..(f + m - 1) : old[n] # Hole => old[n].offset = n * BS,
         NEW stop \in 0..m, stop < m => old[f + stop] = Hole,
         \A k \in 0..(stop - 1) : old[f + k] # Hole
  PROVE  ReadsUpTo(old, f, m, stop)
<1> DEFINE offset == f * BS
           count == m * BS
           Block(k) == old[Round(offset, k)]
           Ends(k) == Past(offset, count, k) \/ Block(k) = Hole
           Fails(k) == ~HasWholeBlock(offset, count, k) \/ Block(k).offset # offset + k * BS
           stops == {k \in 0..(count \div BS) : Ends(k) \/ Fails(k)}
<1>1. /\ count \div BS = m
      /\ \A k \in 0..m : Round(offset, k) = f + k /\ offset + k * BS = (f + k) * BS
      /\ \A k \in 0..m : Past(offset, count, k) <=> k = m
      /\ \A k \in 0..m : HasWholeBlock(offset, count, k) <=> k < m
  <2>1. m \in 0..m
    OBVIOUS
  <2> QED
    BY <2>1, WholeRounds
<1>2. read(old, offset, count) =
        [ok |-> Ends(Min(stops)), data |-> [i \in 1..Min(stops) |-> Block(i - 1).data]]
  BY DEF read
<1> HIDE DEF offset, count
<1>3. Ends(stop)
  <2>1. stop = m \/ stop < m
    OBVIOUS
  <2> QED
    BY <1>1, <2>1
<1>4. ASSUME NEW k \in 0..m, k < stop PROVE ~Ends(k) /\ ~Fails(k)
  <2>1. k # m /\ k < m /\ k \in 0..(stop - 1) /\ f + k \in f..(f + m - 1)
    BY <1>4
  <2> QED
    BY <1>1, <2>1
<1>5. stop \in stops /\ \A k \in stops : stop <= k
  <2>1. stop \in stops
    BY <1>1, <1>3
  <2>2. ASSUME NEW k \in stops PROVE ~(k < stop)
    BY <1>1, <1>4
  <2>3. \A k \in stops : k \in Nat
    BY <1>1
  <2> HIDE DEF stops
  <2> QED
    BY <2>1, <2>2, <2>3
<1>6. Min(stops) = stop
  <2>1. stops \in SUBSET Nat
    BY <1>1
  <2> HIDE DEF stops
  <2> QED
    BY <1>5, <2>1, LeastIs
<1>7. ASSUME NEW i \in 1..stop PROVE Block(i - 1).data = old[f + i - 1].data
  <2>1. i - 1 \in 0..m /\ f + (i - 1) = f + i - 1
    OBVIOUS
  <2>2. Round(offset, i - 1) = f + (i - 1)
    BY <1>1, <2>1
  <2> QED
    BY <2>1, <2>2
<1>8. [i \in 1..stop |-> Block(i - 1).data] = [i \in 1..stop |-> old[f + i - 1].data]
  BY <1>7
<1> HIDE DEF Block, Ends, stops
<1>9. read(old, offset, count) = [ok |-> Ends(stop), data |-> [i \in 1..stop |-> Block(i - 1).data]]
  BY <1>2, <1>6
<1>10. read(old, offset, count).ok /\ read(old, offset, count).data = [i \in 1..stop |-> Block(i - 1).data]
  BY <1>3, <1>9
<1> QED
  BY <1>8, <1>10 DEF offset, count, ReadsUpTo
-----------------------------------------------------------------------------
(* The data of files *)

\* The blocks tell what was written.
LEMMA BlocksTell ==
  ASSUME NEW w \in Writables
  PROVE  /\ \A k \in Keys : \A n \in 0..LastBlock :
              /\ n \in BlockNumbers /\ n \in Nat
              /\ BlocksOf(w)[k][n] = Hole <=> w[k][n] = Hole
              /\ w[k][n] # Hole => BlocksOf(w)[k][n] = [offset |-> n * BS, data |-> w[k][n]]
         /\ [k \in Keys |-> [n \in 0..LastBlock |->
               IF BlocksOf(w)[k][n] = Hole THEN Hole ELSE BlocksOf(w)[k][n].data]] = w
<1>1. ASSUME NEW k \in Keys, NEW n \in 0..LastBlock
      PROVE  /\ n \in BlockNumbers /\ n \in Nat
             /\ BlocksOf(w)[k][n] = Hole <=> w[k][n] = Hole
             /\ w[k][n] # Hole => BlocksOf(w)[k][n] = [offset |-> n * BS, data |-> w[k][n]]
  <2>1. n \in BlockNumbers /\ n \in Nat
    BY Widths DEF BlockNumbers
  <2>2. w[k][n] \in {Hole} \cup Data
    BY DEF Writables
  <2>3. BlocksOf(w)[k][n] =
          IF w[k][n] # Hole THEN [offset |-> n * BS, data |-> w[k][n]] ELSE Hole
    BY <2>1 DEF BlocksOf
  <2>4. w[k][n] # Hole => [offset |-> n * BS, data |-> w[k][n]] # Hole
    <3>1. n * BS \in Nat /\ Hole \notin [offset : Nat, data : Data]
      BY <2>1, Multiples, RocksFileAssumption
    <3>2. w[k][n] # Hole => [offset |-> n * BS, data |-> w[k][n]] \in [offset : Nat, data : Data]
      BY <2>2, <3>1
    <3> QED
      BY <3>1, <3>2
  <2> QED
    BY <2>1, <2>3, <2>4
<1> DEFINE Tells(k, n) == IF BlocksOf(w)[k][n] = Hole THEN Hole ELSE BlocksOf(w)[k][n].data
<1>2. ASSUME NEW k \in Keys, NEW n \in 0..LastBlock PROVE Tells(k, n) = w[k][n]
  <2>1. CASE w[k][n] = Hole
    BY <1>1, <2>1
  <2>2. CASE w[k][n] # Hole
    <3>1. BlocksOf(w)[k][n] = [offset |-> n * BS, data |-> w[k][n]] /\ BlocksOf(w)[k][n] # Hole
      BY <1>1, <2>2
    <3> QED
      BY <3>1
  <2> QED
    BY <2>1, <2>2
<1> HIDE DEF Tells
<1>3. ASSUME NEW k \in Keys PROVE [n \in 0..LastBlock |-> Tells(k, n)] = w[k]
  BY <1>2 DEF Writables
<1>4. [k \in Keys |-> [n \in 0..LastBlock |-> Tells(k, n)]] = w
  BY <1>3 DEF Writables
<1> QED
  BY <1>1, <1>4 DEF Tells

\* A new file gets a key under which nothing was written.
LEMMA NameSpaceKeepsData ==
  ASSUME WrittenTyped, BlocksHoldWritten, NameSpaceCall
  PROVE  written' = written /\ blocks' = blocks
<1>1. ASSUME NEW k \in Created PROVE written[k] = Empty
  <2>1. k \in Keys /\ blocks[k] = NoBlocks
    BY DEF Created, NameSpaceCall, calc_key
  <2>2. ASSUME NEW n \in 0..LastBlock PROVE written[k][n] = Hole
    <3>1. n \in BlockNumbers /\ (BlocksOf(written)[k][n] = Hole <=> written[k][n] = Hole)
      BY <2>1, BlocksTell DEF WrittenTyped
    <3> QED
      BY <2>1, <3>1 DEF NoBlocks, BlocksHoldWritten
  <2>3. written[k] \in [0..LastBlock -> {Hole} \cup Data]
    BY <2>1 DEF WrittenTyped, Writables
  <2> QED
    BY <2>2, <2>3 DEF Empty
<1>2. written' = [k \in Keys |-> IF k \in Created THEN Empty ELSE written[k]] /\ blocks' = blocks
  BY DEF NameSpaceCall
<1>3. written' = [k \in Keys |-> written[k]]
  BY <1>1, <1>2
<1> QED
  BY <1>2, <1>3 DEF WrittenTyped, Writables

\* What a write through a descriptor does: m blocks of its file from f on.
LEMMA PwriteWrites ==
  ASSUME IInv, WrittenTyped, BlocksHoldWritten, NEW fd \in Fds, NEW r \in Requests, NEW value \in Data,
         pwrite(fd, r[1], r[2], value)
  PROVE  /\ fd_table[fd] \in Keys
         /\ \E f, m \in Nat :
              /\ f + m <= LastBlock + 1
              /\ written' = [written EXCEPT ![fd_table[fd]] =
                               [n \in 0..LastBlock |-> IF n \in f..(f + m - 1) THEN value ELSE @[n]]]
         /\ written' \in Writables /\ blocks' = BlocksOf(written')
<1> DEFINE key == fd_table[fd]
<1>1. key \in Keys
  BY DEF IInv, TablesTyped, pwrite, IsOpen
<1>2. PICK f, m \in Nat : /\ r[1] = f * BS /\ r[2] = m * BS /\ f + m <= LastBlock + 1
                          /\ write(r[1], r[2]).batch = Batch(f, m)
  BY WriteOfBlocks DEF pwrite
<1> DEFINE new == [n \in 0..LastBlock |-> IF n \in f..(f + m - 1) THEN value ELSE written[key][n]]
<1>3. ASSUME NEW n \in 0..LastBlock
      PROVE  r[1] <= n * BS /\ (n + 1) * BS <= r[1] + r[2] <=> n \in f..(f + m - 1)
  <2>1. n \in Nat /\ n + 1 \in Nat /\ f + m \in Nat /\ BS \in Nat \ {0}
    BY Widths
  <2>2. /\ f * BS \in Nat /\ n * BS \in Nat /\ (n + 1) * BS \in Nat /\ (f + m) * BS \in Nat
        /\ f <= n => f * BS <= n * BS
        /\ n < f => n * BS + BS <= f * BS
    BY <2>1, Multiples
  <2>3. /\ n + 1 <= f + m => (n + 1) * BS <= (f + m) * BS
        /\ f + m < n + 1 => (f + m) * BS + BS <= (n + 1) * BS
        /\ f * BS + m * BS = (f + m) * BS
    BY <2>1, Multiples
  <2>4. n \in f..(f + m - 1) <=> f <= n /\ n + 1 <= f + m
    BY <2>1
  <2> QED
    BY <1>2, <2>1, <2>2, <2>3, <2>4
<1>4. written' = [written EXCEPT ![key] = new]
  <2>1. written' = [written EXCEPT ![key] = [n \in 0..LastBlock |->
                      IF r[1] <= n * BS /\ (n + 1) * BS <= r[1] + r[2] THEN value ELSE written[key][n]]]
    BY <1>1 DEF pwrite, WrittenTyped, Writables
  <2>2. [n \in 0..LastBlock |->
           IF r[1] <= n * BS /\ (n + 1) * BS <= r[1] + r[2] THEN value ELSE written[key][n]] = new
    BY <1>3
  <2> QED
    BY <2>1, <2>2
<1>5. new \in [0..LastBlock -> {Hole} \cup Data]
  BY <1>1 DEF WrittenTyped, Writables
<1>6. written' \in Writables
  <2> HIDE DEF new, key
  <2> QED
    BY <1>1, <1>4, <1>5 DEF WrittenTyped, Writables
<1>7. blocks' = [blocks EXCEPT ![key] =
                   [n \in BlockNumbers |-> IF n \in f..(f + m - 1) THEN [offset |-> n * BS, data |-> value]
                                           ELSE blocks[key][n]]]
  <2>1. blocks' = [blocks EXCEPT ![key] = Stored(blocks[key], Batch(f, m), value)]
    BY <1>1, <1>2 DEF pwrite, BlocksHoldWritten, BlocksOf
  <2>2. Stored(blocks[key], Batch(f, m), value) =
          [n \in BlockNumbers |-> IF n \in f..(f + m - 1) THEN [offset |-> n * BS, data |-> value]
                                  ELSE blocks[key][n]]
    BY StoredBlocks
  <2> QED
    BY <2>1, <2>2
<1>8. blocks' = BlocksOf(written')
  <2> HIDE DEF key
  <2>1. ASSUME NEW k \in Keys, NEW n \in BlockNumbers
        PROVE  blocks'[k][n] = BlocksOf(written')[k][n]
    <3>1. n \in Nat
      BY Widths DEF BlockNumbers
    <3>2. blocks[k][n] = IF n \in 0..LastBlock /\ written[k][n] # Hole
                         THEN [offset |-> n * BS, data |-> written[k][n]] ELSE Hole
      BY DEF BlocksHoldWritten, BlocksOf
    <3>3. BlocksOf(written')[k][n] = IF n \in 0..LastBlock /\ written'[k][n] # Hole
                                     THEN [offset |-> n * BS, data |-> written'[k][n]] ELSE Hole
      BY DEF BlocksOf
    <3>4. CASE k # key
      <4>1. blocks'[k] = blocks[k] /\ written'[k] = written[k]
        <5> HIDE DEF new
        <5> QED
          BY <1>1, <1>4, <1>7, <3>4 DEF BlocksHoldWritten, BlocksOf, WrittenTyped, Writables
      <4> QED
        BY <3>2, <3>3, <4>1
    <3>5. CASE k = key
      <4>1. written'[k] = new
        <5> HIDE DEF new
        <5> QED
          BY <1>1, <1>4, <3>5 DEF WrittenTyped, Writables
      <4>2. blocks'[k][n] = IF n \in f..(f + m - 1) THEN [offset |-> n * BS, data |-> value]
                            ELSE blocks[k][n]
        BY <1>1, <1>7, <3>5 DEF BlocksHoldWritten, BlocksOf
      <4>3. CASE n \in f..(f + m - 1)
        <5>1. n \in 0..LastBlock
          BY <1>2, <3>1, <4>3, Widths
        <5>2. written'[k][n] = value /\ value # Hole
          BY <4>1, <4>3, <5>1, RocksFileAssumption
        <5> QED
          BY <3>3, <4>2, <4>3, <5>1, <5>2
      <4>4. CASE n \notin f..(f + m - 1)
        <5>1. n \in 0..LastBlock => written'[k][n] = written[k][n]
          BY <3>5, <4>1, <4>4
        <5> QED
          BY <3>2, <3>3, <4>2, <4>4, <5>1
      <4> QED
        BY <4>3, <4>4
    <3> QED
      BY <3>4, <3>5
  <2>2. ASSUME NEW k \in Keys PROVE blocks'[k] = [n \in BlockNumbers |-> blocks'[k][n]]
    BY <1>7, <2>2 DEF BlocksHoldWritten, BlocksOf
  <2>3. blocks' = [k \in Keys |-> blocks'[k]]
    BY <1>7 DEF BlocksHoldWritten, BlocksOf
  <2>4. ASSUME NEW k \in Keys PROVE blocks'[k] = BlocksOf(written')[k]
    <3>1. BlocksOf(written')[k] = [n \in BlockNumbers |-> BlocksOf(written')[k][n]]
      BY DEF BlocksOf
    <3> QED
      BY <2>1, <2>2, <3>1
  <2>5. BlocksOf(written') = [k \in Keys |-> BlocksOf(written')[k]]
    BY DEF BlocksOf
  <2> QED
    BY <2>3, <2>4, <2>5
<1> QED
  BY <1>1, <1>2, <1>4, <1>6, <1>8

LEMMA InitiallyData == InitData => IInvData
<1> SUFFICES ASSUME InitData PROVE IInvData
  OBVIOUS
<1>1. IInv /\ FailureKnown
  BY Initially DEF InitData, Init, FailureKnown
<1>2. written = [k \in Keys |-> [n \in 0..LastBlock |-> Hole]]
      /\ blocks = [k \in Keys |-> [n \in BlockNumbers |-> Hole]]
  BY DEF InitData, Empty, NoBlocks
<1>3. WrittenTyped /\ BlocksHoldWritten
  BY <1>2 DEF WrittenTyped, Writables, BlocksHoldWritten, BlocksOf
<1> QED
  BY <1>1, <1>3 DEF IInvData

\* A step that leaves the records and the tables alone.
LEMMA NameSpaceStays ==
  ASSUME IInv, UNCHANGED <<db, memory>>
  PROVE  IInv'
<1>1. db' = db /\ open_file_table' = open_file_table /\ fd_table' = fd_table
  BY DEF memory
<1>2. TablesTyped'
  BY <1>1 DEF IInv, TablesTyped
<1>3. Good(db')
  BY <1>1 DEF IInv
<1>4. OpenFilesKnown'
  BY <1>1 DEF IInv, OpenFilesKnown, OpenFds
<1> QED
  BY <1>2, <1>3, <1>4 DEF IInv

LEMMA InductiveData == IInvData /\ [NextData]_<<vars, dataVars>> => IInvData'
<1> SUFFICES ASSUME IInvData, [NextData]_<<vars, dataVars>> PROVE IInvData'
  OBVIOUS
<1>1. IInv /\ WrittenTyped /\ BlocksHoldWritten /\ FailureKnown
  BY DEF IInvData
<1>2. ASSUME written' = written, blocks' = blocks
      PROVE  WrittenTyped' /\ BlocksHoldWritten'
  BY <1>1, <1>2 DEF WrittenTyped, BlocksHoldWritten
<1>3. CASE failed = "none" /\ NameSpaceCall
  <2>1. WrittenTyped' /\ BlocksHoldWritten'
    BY <1>1, <1>2, <1>3, NameSpaceKeepsData
  <2>2. IInv'
    BY <1>1, <1>3, Inductive DEF NameSpaceCall, Next
  <2>3. FailureKnown'
    BY <1>1, <1>3 DEF FailureKnown, NameSpaceCall, Call, mkdir, create, rmdir, rmdir_root, unlink,
       open, close
  <2> QED
    BY <2>1, <2>2, <2>3 DEF IInvData
<1>4. ASSUME NEW fd \in Fds, NEW r \in Requests, NEW value \in Data,
             pwrite(fd, r[1], r[2], value)
      PROVE  IInvData'
  <2>1. WrittenTyped' /\ BlocksHoldWritten'
    BY <1>1, <1>4, PwriteWrites DEF WrittenTyped, BlocksHoldWritten
  <2>2. IInv' /\ failed' = failed
    BY <1>1, <1>4, NameSpaceStays DEF pwrite
  <2> QED
    BY <1>1, <2>1, <2>2 DEF IInvData, FailureKnown
<1>5. ASSUME NEW fd \in Fds, NEW r \in Requests,
             pwrite_asserts(fd, r[1], r[2]) \/ pread_asserts(fd, r[1], r[2])
      PROVE  IInvData'
  <2>1. /\ UNCHANGED <<db, memory>> /\ written' = written /\ blocks' = blocks
        /\ failed' \in {"write", "read"}
    BY <1>5 DEF pwrite_asserts, pread_asserts, dataVars
  <2>2. IInv' /\ WrittenTyped' /\ BlocksHoldWritten'
    BY <1>1, <1>2, <2>1, NameSpaceStays
  <2> QED
    BY <2>1, <2>2 DEF IInvData, FailureKnown
<1>6. CASE Restart /\ UNCHANGED dataVars
  <2>1. IInv'
    BY <1>1, <1>6, Inductive DEF Next
  <2>2. WrittenTyped' /\ BlocksHoldWritten'
    BY <1>2, <1>6 DEF dataVars
  <2> QED
    BY <1>6, <2>1, <2>2 DEF IInvData, FailureKnown, Restart
<1>7. CASE UNCHANGED <<vars, dataVars>>
  <2>1. IInv'
    BY <1>1, <1>7, Inductive
  <2>2. WrittenTyped' /\ BlocksHoldWritten'
    BY <1>2, <1>7 DEF dataVars
  <2> QED
    BY <1>1, <1>7, <2>1, <2>2 DEF IInvData, FailureKnown, vars
<1> QED
  BY <1>3, <1>4, <1>5, <1>6, <1>7 DEF NextData, DataCall

LEMMA AlwaysData == SpecData => []IInvData
  BY InitiallyData, InductiveData, PTL DEF SpecData
-----------------------------------------------------------------------------
(* Reads *)

\* The request for m blocks from block f on.
LEMMA WholeBlocksAre ==
  ASSUME NEW r \in WholeBlocks
  PROVE  \E f \in Nat, m \in Nat \ {0} :
           /\ r[1] = f * BS /\ r[2] = m * BS /\ f + m <= LastBlock + 1
           /\ r[1] \div BS = f /\ (r[1] + r[2] - 1) \div BS = f + m - 1
<1> DEFINE f == r[1] \div BS
           m == r[2] \div BS
<1>1. /\ r[1] \in Nat /\ r[2] \in Nat /\ r[1] + r[2] <= (LastBlock + 1) * BS
      /\ r[2] > 0 /\ r[1] % BS = 0 /\ r[2] % BS = 0
  <2>1. BS * (LastBlock + 1) \in Nat /\ BS * (LastBlock + 1) = (LastBlock + 1) * BS
    BY Widths
  <2> QED
    BY <2>1 DEF WholeBlocks, Requests, is_block_aligned
<1>2. BS \in Nat \ {0} /\ LastBlock \in Nat
  BY Widths
<1>3. f \in Nat /\ r[1] = f * BS
  <2>1. f \in Nat /\ r[1] = f * BS + (r[1] % BS) /\ f * BS \in Nat
    BY <1>1, Quotient, Multiples
  <2> QED
    BY <1>1, <2>1
<1>4. m \in Nat /\ r[2] = m * BS
  <2>1. m \in Nat /\ r[2] = m * BS + (r[2] % BS) /\ m * BS \in Nat
    BY <1>1, Quotient, Multiples
  <2> QED
    BY <1>1, <2>1
<1> HIDE DEF f, m
<1>5. m # 0
  BY <1>1, <1>2, <1>4
<1>6. f + m \in Nat /\ r[1] + r[2] = (f + m) * BS
  BY <1>3, <1>4, Multiples
<1>7. f + m <= LastBlock + 1
  <2>1. LastBlock + 1 < f + m => (LastBlock + 1) * BS + BS <= (f + m) * BS
    BY <1>2, <1>6, Multiples
  <2>2. (LastBlock + 1) * BS \in Nat /\ (f + m) * BS \in Nat
    BY <1>2, <1>6, Multiples
  <2> QED
    BY <1>1, <1>2, <1>6, <2>1, <2>2
<1>8. (r[1] + r[2] - 1) \div BS = f + m - 1
  <2>1. f + m - 1 \in Nat /\ BS - 1 \in 0..(BS - 1)
    BY <1>2, <1>3, <1>4, <1>5
  <2>2. (f + m - 1) * BS + 1 * BS = (f + m) * BS /\ 1 * BS = BS
    <3>1. f + m - 1 + 1 = f + m
      BY <1>3, <1>4
    <3> QED
      BY <1>2, <2>1, <3>1, Multiples
  <2>3. r[1] + r[2] - 1 = (f + m - 1) * BS + (BS - 1)
    <3>1. (f + m - 1) * BS \in Nat
      BY <2>1, Multiples
    <3> QED
      BY <1>2, <1>3, <1>4, <1>6, <2>2, <3>1
  <2> QED
    BY <2>1, <2>3, QuotientIs
<1> QED
  BY <1>3, <1>4, <1>5, <1>7, <1>8 DEF f

\* A read of m blocks from f on: what was written to them, up to the first
\* that never was.
LEMMA ReadOfBlocks ==
  ASSUME IInvData, NEW k \in Keys, NEW f \in Nat, NEW m \in Nat \ {0}, f + m <= LastBlock + 1
  PROVE  /\ read(blocks[k], f * BS, m * BS).ok
         /\ read(blocks[k], f * BS, m * BS).data = Expected(k, f, f + m - 1)
<1> DEFINE unwritten == {n \in f..(f + m - 1) : written[k][n] = Hole}
           stops == {f + m} \cup unwritten
           least == Min(stops)
           stop == least - f
<1>1. \A n \in f..(f + m - 1) :
        /\ n \in 0..LastBlock /\ (blocks[k][n] = Hole <=> written[k][n] = Hole)
        /\ written[k][n] # Hole => blocks[k][n] = [offset |-> n * BS, data |-> written[k][n]]
  <2>1. \A n \in f..(f + m - 1) : n \in 0..LastBlock
    BY Widths
  <2> QED
    BY <2>1, BlocksTell DEF IInvData, WrittenTyped, BlocksHoldWritten
<1>2. least \in stops /\ \A n \in stops : least <= n
  <2>1. stops \in SUBSET Nat /\ stops # {}
    OBVIOUS
  <2> HIDE DEF stops
  <2> QED
    BY <2>1, MinOfSet
<1>3. Expected(k, f, f + m - 1) = [i \in 1..stop |-> written[k][f + i - 1]]
  <2>1. f + m - 1 + 1 = f + m
    OBVIOUS
  <2> QED
    BY <2>1 DEF Expected
<1> HIDE DEF least
<1>4. stop \in 0..m /\ f + stop = least
  BY <1>2
<1>5. ASSUME NEW j \in 0..(stop - 1)
      PROVE  f + j \in f..(f + m - 1) /\ written[k][f + j] # Hole
  <2>1. f + j \in f..(f + m - 1) /\ ~(least <= f + j)
    BY <1>4
  <2>2. f + j \notin stops
    <3> HIDE DEF stops
    <3> QED
      BY <1>2, <2>1
  <2> QED
    BY <2>1, <2>2
<1>6. stop < m => f + stop \in f..(f + m - 1) /\ written[k][f + stop] = Hole
  BY <1>2, <1>4
<1> HIDE DEF stop, stops
<1> DEFINE old == blocks[k]
<1>7. ASSUME NEW n \in f..(f + m - 1), written[k][n] # Hole
      PROVE  old[n].offset = n * BS /\ old[n].data = written[k][n]
  <2>1. old[n] = [offset |-> n * BS, data |-> written[k][n]]
    BY <1>1, <1>7
  <2> HIDE DEF old
  <2> QED
    BY <2>1
<1>8. ReadsUpTo(old, f, m, stop)
  <2>1. \A n \in f..(f + m - 1) : old[n] # Hole => old[n].offset = n * BS
    BY <1>1, <1>7
  <2>2. stop < m => old[f + stop] = Hole
    BY <1>1, <1>6
  <2>3. \A j \in 0..(stop - 1) : old[f + j] # Hole
    BY <1>1, <1>5
  <2> HIDE DEF old
  <2> QED
    BY <1>4, <2>1, <2>2, <2>3, WholeRead
<1>9. ASSUME NEW i \in 1..stop PROVE old[f + i - 1].data = written[k][f + i - 1]
  <2>1. i - 1 \in 0..(stop - 1) /\ f + (i - 1) = f + i - 1
    BY <1>4
  <2>2. f + (i - 1) \in f..(f + m - 1) /\ written[k][f + (i - 1)] # Hole
    BY <1>5, <2>1
  <2>3. old[f + (i - 1)].data = written[k][f + (i - 1)]
    BY <1>7, <2>2
  <2> QED
    BY <2>1, <2>3
<1> QED
  BY <1>3, <1>8, <1>9 DEF ReadsUpTo

LEMMA DataTyped == IInvData => TypeOKData
<1> SUFFICES ASSUME IInvData PROVE TypeOKData
  OBVIOUS
<1>1. ASSUME NEW k \in Keys, NEW n \in BlockNumbers
      PROVE  BlocksOf(written)[k][n] \in {Hole} \cup [offset : 0..BS * LastBlock, data : Data]
  <2>1. BlocksOf(written)[k][n] = IF n \in 0..LastBlock /\ written[k][n] # Hole
                                  THEN [offset |-> n * BS, data |-> written[k][n]] ELSE Hole
    BY DEF BlocksOf
  <2>2. ASSUME n \in 0..LastBlock PROVE n * BS \in 0..BS * LastBlock
    <3>1. n \in Nat /\ n <= LastBlock /\ LastBlock \in Nat /\ BS \in Nat
      BY <2>2, Widths
    <3>2. n * BS \in Nat /\ LastBlock * BS \in Nat /\ n * BS <= LastBlock * BS
      BY <3>1, Multiples
    <3>3. BS * LastBlock = LastBlock * BS
      BY <3>1
    <3> QED
      BY <3>2, <3>3
  <2>3. n \in 0..LastBlock /\ written[k][n] # Hole => written[k][n] \in Data
    BY DEF IInvData, WrittenTyped, Writables
  <2> QED
    BY <2>1, <2>2, <2>3
<1>2. blocks \in [Keys -> [BlockNumbers -> {Hole} \cup [offset : 0..BS * LastBlock, data : Data]]]
  <2>1. BlocksOf(written) = [k \in Keys |-> BlocksOf(written)[k]]
        /\ \A k \in Keys : BlocksOf(written)[k] = [n \in BlockNumbers |-> BlocksOf(written)[k][n]]
    BY DEF BlocksOf
  <2> QED
    BY <1>1, <2>1 DEF IInvData, BlocksHoldWritten
<1> QED
  BY <1>2 DEF IInvData, IInv, WrittenTyped, Writables, FailureKnown, TypeOKData

\* ReadsReturnWritten, for every instance: requests for whole blocks pass the
\* asserts of encode and decode, and return what was written last.
THEOREM ReadsAreRight == SpecData => []ReadsReturnWritten
<1>1. IInvData => ReadsReturnWritten
  <2> SUFFICES ASSUME IInvData PROVE ReadsReturnWritten
    OBVIOUS
  <2>1. ASSUME NEW r \in WholeBlocks
        PROVE  /\ write(r[1], r[2]).ok /\ BS * Len(write(r[1], r[2]).batch) = r[2]
               /\ \A k \in Keys :
                    /\ read(blocks[k], r[1], r[2]).ok
                    /\ read(blocks[k], r[1], r[2]).data =
                         Expected(k, r[1] \div BS, (r[1] + r[2] - 1) \div BS)
    <3>1. PICK f \in Nat, m \in Nat \ {0} :
            /\ r[1] = f * BS /\ r[2] = m * BS /\ f + m <= LastBlock + 1
            /\ r[1] \div BS = f /\ (r[1] + r[2] - 1) \div BS = f + m - 1
      BY WholeBlocksAre
    <3>2. write(r[1], r[2]) = [ok |-> TRUE, batch |-> Batch(f, m)]
      BY <3>1, WholeWrite
    <3>3. BS * Len(Batch(f, m)) = m * BS
      <4>1. m \in Nat /\ BS \in Nat
        BY Widths
      <4>2. Len(Batch(f, m)) = m
        BY <4>1 DEF Batch
      <4> QED
        BY <4>1, <4>2
    <3>4. write(r[1], r[2]).ok /\ BS * Len(write(r[1], r[2]).batch) = r[2]
      BY <3>1, <3>2, <3>3
    <3>5. ASSUME NEW k \in Keys
          PROVE  /\ read(blocks[k], r[1], r[2]).ok
                 /\ read(blocks[k], r[1], r[2]).data =
                      Expected(k, r[1] \div BS, (r[1] + r[2] - 1) \div BS)
      BY <3>1, ReadOfBlocks
    <3> QED
      BY <3>4, <3>5
  <2> QED
    BY <2>1, DataTyped DEF ReadsReturnWritten
<1> QED
  BY <1>1, AlwaysData, PTL
-----------------------------------------------------------------------------
(* The file store *)

contents == [k \in Keys |-> Held(k)]

\* What files hold is what was written to them.
LEMMA HeldIsWritten ==
  IInvData => contents = written
<1> SUFFICES ASSUME IInvData PROVE contents = written
  OBVIOUS
<1>1. blocks = BlocksOf(written) /\ written \in Writables
  BY DEF IInvData, BlocksHoldWritten, WrittenTyped
<1> QED
  BY <1>1, BlocksTell DEF contents, Held

LEMMA HeldIsWrittenNext ==
  IInvData' => contents' = written'
<1> SUFFICES ASSUME IInvData' PROVE contents' = written'
  OBVIOUS
<1>1. blocks' = BlocksOf(written') /\ written' \in Writables
  BY DEF IInvData, BlocksHoldWritten, WrittenTyped
<1> QED
  BY <1>1, BlocksTell DEF contents, Held

\* The steps of the tree are those of the store: both name the same mapping.
LEMMA TreeInStore ==
  /\ Tree!Addable = Store!Addable
  /\ \A p : Tree!Mkdir(p) => Store!Mkdir(p)
  /\ \A p : Tree!Create(p) => Store!Create(p)
  /\ \A p : Tree!Rmdir(p) => Store!Rmdir(p)
  /\ \A p : Tree!Unlink(p) => Store!Unlink(p)
  /\ \A p : Tree!Open(p) => Store!Open(p)
  /\ \A fd : Tree!Close(fd) => Store!Close(fd)
  /\ Tree!Restart => Store!Restart
<1>1. Tree!Addable = Store!Addable
  BY DEF Tree!Addable, Store!Addable
<1>2. ASSUME NEW p PROVE Tree!CanAdd(p) => Store!CanAdd(p)
  BY DEF Tree!CanAdd, Store!CanAdd, Tree!InUse, Store!InUse, Tree!Front, Store!Front
<1>3. ASSUME NEW p PROVE Tree!Mkdir(p) => Store!Mkdir(p)
  BY <1>2 DEF Tree!Mkdir, Store!Mkdir
<1>4. ASSUME NEW p PROVE Tree!Create(p) => Store!Create(p)
  BY <1>2 DEF Tree!Create, Store!Create, Tree!Range, Store!Range
<1>5. ASSUME NEW p PROVE Tree!Rmdir(p) => Store!Rmdir(p)
  BY DEF Tree!Rmdir, Store!Rmdir, Tree!InUse, Store!InUse, Tree!Front, Store!Front
<1>6. ASSUME NEW p PROVE Tree!Unlink(p) => Store!Unlink(p)
  BY DEF Tree!Unlink, Store!Unlink
<1>7. ASSUME NEW p PROVE Tree!Open(p) => Store!Open(p)
  BY DEF Tree!Open, Store!Open
<1>8. ASSUME NEW fd PROVE Tree!Close(fd) => Store!Close(fd)
  BY DEF Tree!Close, Store!Close
<1>9. Tree!Restart => Store!Restart
  BY DEF Tree!Restart, Store!Restart
<1> QED
  BY <1>1, <1>3, <1>4, <1>5, <1>6, <1>7, <1>8, <1>9

\* A call on names and descriptors is one of the store's, with the contents
\* of all files as they were.
LEMMA NameSpaceInStore ==
  ASSUME IInvData, IInvData', NameSpaceCall
  PROVE  Store!NextStore \/ UNCHANGED <<Directories, Files, fd_table, contents>>
<1>1. IInv /\ WrittenTyped /\ BlocksHoldWritten
  BY DEF IInvData
<1>2. written' = written /\ contents' = contents /\ contents = written
  BY <1>1, NameSpaceKeepsData, HeldIsWritten, HeldIsWrittenNext
<1>3. 0..MaxFd = Fds
  BY DEF Fds
<1>4. ASSUME NEW p \in Paths, create(p)
      PROVE  p \in Store!Addable /\ Store!CreateEmpty(p)
  <2>1. /\ p \in Store!Addable /\ Store!Create(p)
        /\ Files'[p] \in Keys /\ db[Files'[p]] = NoRecord /\ db'[Files'[p]] # NoRecord
    BY <1>1, <1>4, CreateInTree, TreeInStore
  <2>2. Files'[p] \in Created
    BY <2>1 DEF Created
  <2>3. written'[Files'[p]] = Empty
    BY <2>1, <2>2 DEF NameSpaceCall
  <2>4. contents' = [contents EXCEPT ![Files'[p]] = [n \in 0..LastBlock |-> Hole]]
    BY <1>1, <1>2, <2>1, <2>3 DEF Empty, WrittenTyped, Writables
  <2> QED
    BY <2>1, <2>4 DEF Store!CreateEmpty, contents
<1>5. Call
  BY DEF NameSpaceCall
<1> USE <1>1, <1>2, <1>3 DEF Store!NextStore, contents
<1>6. ASSUME NEW p \in Paths, mkdir(p) PROVE Store!NextStore
  BY <1>6, MkdirInTree, TreeInStore
<1>7. ASSUME NEW p \in Paths, create(p) PROVE Store!NextStore
  BY <1>4, <1>7
<1>8. ASSUME NEW p \in Paths, rmdir(p) PROVE Store!NextStore
  BY <1>8, RmdirInTree, TreeInStore
<1>9. ASSUME NEW p \in Paths, unlink(p)
      PROVE  Store!NextStore \/ UNCHANGED <<Directories, Files, fd_table, contents>>
  BY <1>9, UnlinkInTree, TreeInStore
<1>10. ASSUME NEW p \in Paths, open(p) PROVE Store!NextStore
  BY <1>10, OpenInTree, TreeInStore
<1>11. ASSUME NEW fd \in Fds, close(fd) PROVE Store!NextStore
  BY <1>11, CloseInTree, TreeInStore
<1>12. ASSUME rmdir_root PROVE UNCHANGED <<Directories, Files, fd_table, contents>>
  BY <1>12, RootStaysInTree
<1> QED
  BY <1>5, <1>6, <1>7, <1>8, <1>9, <1>10, <1>11, <1>12 DEF Call

\* A write is one of the store's, to the file of the descriptor alone, or of
\* no block.
LEMMA WriteInStore ==
  ASSUME IInvData, IInvData', NEW fd \in Fds, NEW r \in Requests, NEW value \in Data,
         pwrite(fd, r[1], r[2], value)
  PROVE  Store!NextStore \/ UNCHANGED <<Directories, Files, fd_table, contents>>
<1>1. /\ IInv /\ WrittenTyped /\ BlocksHoldWritten
      /\ contents = written /\ contents' = written'
  BY HeldIsWritten, HeldIsWrittenNext DEF IInvData
<1>2. Directories' = Directories /\ Files' = Files /\ fd_table' = fd_table
  BY <1>1, TreeNow DEF pwrite, memory
<1> DEFINE key == fd_table[fd]
           new(f, m) == [n \in 0..LastBlock |-> IF n \in f..(f + m - 1) THEN value ELSE written[key][n]]
<1>3. key \in Keys
  BY <1>1, PwriteWrites
<1>4. PICK f, m \in Nat : f + m <= LastBlock + 1 /\ written' = [written EXCEPT ![key] = new(f, m)]
  BY <1>1, PwriteWrites
<1>5. CASE m = 0
  <2>1. new(f, m) = written[key]
    <3>1. \A n \in 0..LastBlock : n \notin f..(f + m - 1)
      BY <1>5
    <3>2. written[key] = [n \in 0..LastBlock |-> written[key][n]]
      BY <1>1, <1>3 DEF WrittenTyped, Writables
    <3> QED
      BY <3>1, <3>2
  <2>2. written' = written
    <3> HIDE DEF new, key
    <3> QED
      BY <1>1, <1>3, <1>4, <2>1 DEF WrittenTyped, Writables
  <2> QED
    BY <1>1, <1>2, <2>2
<1>6. CASE m # 0
  <2>1. f \in 0..LastBlock /\ f + m - 1 \in 0..LastBlock /\ f <= f + m - 1
    BY <1>4, <1>6, Widths
  <2>2. key # NoKey
    BY DEF pwrite, IsOpen
  <2>3. Store!WriteBlocks(fd, f, f + m - 1, value)
    BY <1>1, <1>2, <1>4, <2>2 DEF Store!WriteBlocks, contents
  <2>4. fd \in 0..MaxFd
    BY DEF Fds
  <2> QED
    BY <2>1, <2>3, <2>4 DEF Store!NextStore
<1> QED
  BY <1>5, <1>6

\* ImplementsFileStore, for every instance: each file has its own contents,
\* which begin empty and change by writes through its descriptors alone.
THEOREM StoreRefinement == SpecData => ImplementsFileStore
<1>1. InitData => Store!InitStore
  <2> SUFFICES ASSUME InitData PROVE Store!InitStore
    OBVIOUS
  <2>1. Tree!Init
    BY TreeInitially DEF InitData
  <2>2. contents = [k \in Keys |-> [n \in 0..LastBlock |-> Hole]]
    BY InitiallyData, HeldIsWritten DEF InitData, Empty
  <2> QED
    BY <2>1, <2>2 DEF Store!InitStore, Store!Init, Tree!Init, contents
<1>2. IInvData /\ IInvData' /\ [NextData]_<<vars, dataVars>> =>
        [Store!NextStore]_<<Directories, Files, fd_table, contents>>
  <2> SUFFICES ASSUME IInvData, IInvData', [NextData]_<<vars, dataVars>>
               PROVE  Store!NextStore \/ UNCHANGED <<Directories, Files, fd_table, contents>>
    OBVIOUS
  <2>1. /\ IInv /\ WrittenTyped /\ BlocksHoldWritten
        /\ contents = written /\ contents' = written'
    BY HeldIsWritten, HeldIsWrittenNext DEF IInvData
  <2>2. CASE failed = "none" /\ NameSpaceCall
    BY <2>2, NameSpaceInStore
  <2>3. ASSUME NEW fd \in Fds, NEW r \in Requests, NEW value \in Data,
               pwrite(fd, r[1], r[2], value)
        PROVE  Store!NextStore \/ UNCHANGED <<Directories, Files, fd_table, contents>>
    BY <2>3, WriteInStore
  <2>4. ASSUME db' = db, fd_table' = fd_table, written' = written
        PROVE  UNCHANGED <<Directories, Files, fd_table, contents>>
    BY <2>1, <2>4, TreeNow
  <2>5. ASSUME NEW fd \in Fds, NEW r \in Requests,
               pwrite_asserts(fd, r[1], r[2]) \/ pread_asserts(fd, r[1], r[2])
        PROVE  UNCHANGED <<Directories, Files, fd_table, contents>>
    BY <2>4, <2>5 DEF pwrite_asserts, pread_asserts, memory, dataVars
  <2>6. CASE Restart /\ UNCHANGED dataVars
    <3>1. Store!Restart
      BY <2>1, <2>6, RestartInTree, TreeInStore
    <3>2. contents' = contents
      BY <2>1, <2>6 DEF dataVars
    <3> QED
      BY <3>1, <3>2 DEF Store!NextStore, contents
  <2>7. CASE UNCHANGED <<vars, dataVars>>
    BY <2>4, <2>7 DEF vars, dataVars
  <2> QED
    BY <2>2, <2>3, <2>5, <2>6, <2>7 DEF NextData, DataCall
<1> QED
  BY <1>1, <1>2, AlwaysData, PTL DEF SpecData, ImplementsFileStore, Store!SpecStore, contents
=============================================================================
