------------------------------ MODULE Iterators -------------------------------
(* Iterator: the numbers of a range (num_range/NumRange.cpp) and the elements *)
(* of a linked list (linklist/linklist.h), which an iterator walks until it   *)
(* is equal to the end.                                                       *)
EXTENDS Integers, Sequences, SequencesExt

\* The numbers a walk from a number to another meets, in integers of the given
\* width: the comparison is for equality, so that a range whose end is before
\* its beginning is walked by way of the greatest number and the least one.
RECURSIVE NumRange(_, _, _)
NumRange(from, to, width) ==
  IF from = to THEN <<>> ELSE <<from>> \o NumRange((from + 1) % 2 ^ width, to, width)

(* A list is [data, nextp, head]: the nodes are numbered as they are made, and *)
(* 0 is nullptr.                                                               *)

NewList == [data |-> <<>>, nextp |-> <<>>, head |-> 0]

\* add: in front.
Add(list, value) ==
  [data |-> Append(list.data, value), nextp |-> Append(list.nextp, list.head),
   head |-> Len(list.data) + 1]

\* The walk from a node to cend().
RECURSIVE WalkFrom(_, _)
WalkFrom(list, curp) ==
  IF curp = 0 THEN <<>> ELSE <<list.data[curp]>> \o WalkFrom(list, list.nextp[curp])

\* From cbegin().
Listed(list) == WalkFrom(list, list.head)
=============================================================================
