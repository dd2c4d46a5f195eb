------------------------------- MODULE Batches -------------------------------
(* MetaBatchesMapInputIterator: one iterator over the vectors of a map.  The *)
(* map is the sequence of its vectors; an iterator is the number of a vector *)
(* and an index in it, End, or Lost.                                         *)
EXTENDS Integers, Sequences

End == <<0, 0>>
Lost == <<0, 1>>     \* the behaviour is undefined

Begin(metaMap) == IF metaMap = <<>> THEN End ELSE <<1, 1>>

\* operator++, of which every call that moves the iterator ends without the
\* return that its type asks for: the program goes on with what was done, or
\* does whatever the compiler has made of it.  An empty vector is not passed
\* over: its first element, which is its end, is the next.
Increment(metaMap, i) ==
  {IF i[2] # Len(metaMap[i[1]]) THEN <<i[1], i[2] + 1>>
   ELSE IF i[1] < Len(metaMap) THEN <<i[1] + 1, 1>>
   ELSE End, Lost}

\* The walks there may be from an iterator to end(): what each has met and how
\* it ends, "outside" if it reads behind a vector.
RECURSIVE Walks(_, _)
Walks(metaMap, i) ==
  CASE i = End  -> {[met |-> <<>>, ends |-> "end"]}
    [] i = Lost -> {[met |-> <<>>, ends |-> "lost"]}
    [] OTHER    ->
         IF i[2] > Len(metaMap[i[1]]) THEN {[met |-> <<>>, ends |-> "outside"]}
         ELSE {[w EXCEPT !.met = <<metaMap[i[1]][i[2]]>> \o @] :
                 w \in UNION {Walks(metaMap, j) : j \in Increment(metaMap, i)}}
=============================================================================
