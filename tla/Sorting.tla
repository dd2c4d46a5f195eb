------------------------------ MODULE Sorting -------------------------------
(***************************************************************************)
(* BasicDS: quicksort and quickselect (divide-conqure), the priority queue *)
(* (Tree/PriorityQueue.cpp), the bounded stack and what is made of it      *)
(* (Stack).  Vectors are sequences; their indices start at 1.              *)
(***************************************************************************)
EXTENDS Integers, Sequences, SequencesExt

Swap(vec, i, j) == [vec EXCEPT ![i] = vec[j], ![j] = vec[i]]

\* Variant of Partition: the pivot stays at the end.
PartitionLoose(vec, start, end) ==
  FoldLeft(LAMBDA s, i : IF s.vec[i] > s.vec[end] THEN s
                         ELSE [vec |-> Swap(s.vec, i, s.first_high), first_high |-> s.first_high + 1],
           [vec |-> vec, first_high |-> start], [i \in 1..(end - start) |-> start + i - 1])

\* Partition: the vector with what is not above the last element in front, that
\* element next, and where it is.
Partition(vec, start, end) ==
  LET s == FoldLeft(LAMBDA r, i : IF r.vec[i] > r.vec[end] THEN r
                                  ELSE [vec |-> Swap(r.vec, i, r.first_high),
                                        first_high |-> r.first_high + 1],
                    [vec |-> vec, first_high |-> start],
                    [i \in 1..(end - start) |-> start + i - 1])
  IN [s EXCEPT !.vec = Swap(s.vec, s.first_high, end)]

RECURSIVE QuickSort(_, _, _)
QuickSort(vec, start, end) ==
  IF start >= end THEN vec
  ELSE LET p == Partition(vec, start, end)
       IN QuickSort(QuickSort(p.vec, start, p.first_high - 1), p.first_high + 1, end)

RECURSIVE QuickSelect(_, _, _, _)
QuickSelect(vec, start, end, index) ==
  IF start > end THEN vec
  ELSE LET p == Partition(vec, start, end)
       IN IF p.first_high = index THEN p.vec
          ELSE IF p.first_high > index THEN QuickSelect(p.vec, start, p.first_high - 1, index)
          ELSE QuickSelect(p.vec, p.first_high + 1, end, index)
-----------------------------------------------------------------------------
(* PriorityQueue; Comp is greater_equal for "max", less_equal for "min" *)

func(heap, a, b) == IF heap = "max" THEN a >= b ELSE a <= b

\* The loop of ShiftDown: the element sinks to below its larger children.
RECURSIVE Sink(_, _, _, _)
Sink(heap, queue, index, element) ==
  LET left == 2 * index
      child == IF left < Len(queue) /\ func(heap, queue[left + 1], queue[left]) THEN left + 1 ELSE left
  IN IF left > Len(queue) \/ ~func(heap, queue[child], element)
     THEN [queue EXCEPT ![index] = element]
     ELSE Sink(heap, [queue EXCEPT ![index] = queue[child]], child, element)

ShiftDown(heap, queue, index) == Sink(heap, queue, index, queue[index])

\* The loop of ShiftUp.
RECURSIVE Rise(_, _, _, _)
Rise(heap, queue, index, element) ==
  IF index > 1 /\ ~func(heap, queue[index \div 2], element)
  THEN Rise(heap, [queue EXCEPT ![index] = queue[index \div 2]], index \div 2, element)
  ELSE [queue EXCEPT ![index] = element]

Push(heap, queue, element) == Rise(heap, Append(queue, element), Len(queue) + 1, element)

\* Of a queue of one, Pop then reads and writes the place of the element it has
\* removed, past the end of the vector but within its memory.
Pop(heap, queue) ==
  IF Len(queue) = 1 THEN <<>>
  ELSE ShiftDown(heap, Front([queue EXCEPT ![1] = Last(queue)]), 1)

\* The constructor of a range.
Heapify(heap, elements) ==
  LET mid == Len(elements) \div 2
  IN FoldLeft(LAMBDA queue, i : ShiftDown(heap, queue, mid + 1 - i), elements, [i \in 1..mid |-> i])

Pushed(heap, elements) == FoldLeft(LAMBDA queue, e : Push(heap, queue, e), <<>>, elements)

\* Main's loop of Top and Pop, while the queue is not empty.
RECURSIVE Drained(_, _)
Drained(heap, queue) ==
  IF queue = <<>> THEN <<>> ELSE <<queue[1]>> \o Drained(heap, Pop(heap, queue))
-----------------------------------------------------------------------------
(* Stack, whose top is the last element *)

\* A full stack refuses; its callers do not look.
PushBounded(stack, size, element) == IF Len(stack) = size THEN stack ELSE Append(stack, element)

\* The inner loop of SortStack: what is above n goes back to s1.
RECURSIVE MovedBack(_, _, _, _)
MovedBack(s1, sorted, size, n) ==
  IF sorted = <<>> \/ Last(sorted) <= n THEN <<s1, sorted>>
  ELSE MovedBack(PushBounded(s1, size, Last(sorted)), Front(sorted), size, n)

\* The loop of main.
RECURSIVE SortStack(_, _, _)
SortStack(s1, sorted, size) ==
  IF s1 = <<>> THEN sorted
  ELSE LET n == Last(s1)
           moved == MovedBack(Front(s1), sorted, size, n)
       IN SortStack(moved[1], PushBounded(moved[2], size, n), size)

\* MoveDisk: PushDisk throws unless the disk on top is larger.
MoveDisk(towers, src, dst, size) ==
  LET disk == Last(towers[src])
  IN IF towers[dst] # <<>> /\ Last(towers[dst]) <= disk THEN [towers EXCEPT !.threw = TRUE]
     ELSE [towers EXCEPT ![dst] = PushBounded(@, size, disk), ![src] = Front(@)]

RECURSIVE TowerOfHannoi(_, _, _, _, _, _)
TowerOfHannoi(moves, towers, t1, t2, t3, size) ==
  IF moves < 1 \/ towers.threw THEN towers
  ELSE LET above == TowerOfHannoi(moves - 1, towers, t1, t3, t2, size)
           moved == IF above.threw THEN above ELSE MoveDisk(above, t1, t2, size)
       IN TowerOfHannoi(moves - 1, moved, t3, t2, t1, size)
=============================================================================
