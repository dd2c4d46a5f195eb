---------------------------- MODULE AsyncIOProofs ----------------------------
(***************************************************************************)
(* Theorems about AsyncIO, for every finite set of addresses and every     *)
(* capacity of the aio context.  What is open, inflight_, and what has     *)
(* still to be delivered, the rest of the batch and the ring, have to      *)
(* agree all the time for the asserts of iosCompleted to hold: IInv says   *)
(* how.  And a theorem about AsyncIOMain, which rests on IInv: the third   *)
(* and the fourth write of main are never at work at a time.               *)
(***************************************************************************)
EXTENDS AsyncIOMain, SequenceTheorems, FunctionTheorems, FiniteSetTheorems, TLAPS

\* inflight_ lists the pending IOs, each once.
InflightIsPending ==
  /\ IsInjective(inflight)
  /\ ToSet(inflight) = Pending

\* What is to be delivered are events of pending IOs, one of each, on which
\* the kernel is through.
UndeliveredIsPending ==
  /\ IsInjective(Undelivered)
  /\ ToSet(Undelivered) \cup running \subseteq Pending
  /\ ToSet(Undelivered) \cap running = {}

\* Where the loop thread is and what it has at hand.
BatchAtHand ==
  /\ pc \in {"callback", "then"} => events # <<>>
  /\ pc \in {"loop", "read", "take"} => events = <<>>

\* A promise is fulfilled just while the callback of its IO runs.
FulfilledInCallback ==
  \A io \in IOs : promise[io] = "fulfilled" <=> pc = "callback" /\ io = Head(events)

IInv ==
  /\ TypeOK /\ ~aborted
  /\ InflightIsPending
  /\ UndeliveredIsPending
  /\ BatchAtHand
  /\ FulfilledInCallback
  /\ EventsCounted
-----------------------------------------------------------------------------
(* Sequences without repetition *)

\* The elements of a sequence are those at 1, 2, ..., its length.
LEMMA Elements ==
  ASSUME NEW S, NEW s \in Seq(S)
  PROVE  /\ DOMAIN s = 1..Len(s) /\ Len(s) \in Nat
         /\ ToSet(s) = {s[n] : n \in 1..Len(s)}
         /\ ToSet(s) \subseteq S
         /\ s = <<>> <=> ToSet(s) = {}
BY LenProperties, EmptySeq DEF ToSet

\* A sequence without repetition is as long as its elements are many.
LEMMA InjectiveCardinality ==
  ASSUME NEW S, NEW s \in Seq(S), IsInjective(s)
  PROVE  Cardinality(ToSet(s)) = Len(s)
<1>1. s \in Bijection(1..Len(s), ToSet(s))
  BY Elements, LenProperties DEF Bijection, Injection, Surjection, IsInjective
<1>2. IsFiniteSet(1..Len(s)) /\ Cardinality(1..Len(s)) = Len(s)
  BY Elements, FS_Interval
<1> QED
  BY <1>1, <1>2, FS_Bijection DEF ExistsBijection

\* A new element at the end.
LEMMA AppendKeepsInjective ==
  ASSUME NEW S, NEW s \in Seq(S), NEW e \in S
  PROVE  /\ Append(s, e) \in Seq(S)
         /\ ToSet(Append(s, e)) = ToSet(s) \cup {e}
         /\ IsInjective(s) /\ e \notin ToSet(s) => IsInjective(Append(s, e))
<1> DEFINE r == Append(s, e)
<1>1. r \in Seq(S) /\ Len(r) = Len(s) + 1 /\ \A n \in 1..Len(s) : r[n] = s[n]
  BY AppendProperties
<1>2. r[Len(s) + 1] = e
  BY AppendProperties
<1>3. Len(s) \in Nat /\ DOMAIN r = 1..(Len(s) + 1) /\ DOMAIN s = 1..Len(s)
  BY <1>1, Elements
<1>4. ToSet(r) = ToSet(s) \cup {e}
  BY <1>1, <1>2, <1>3 DEF ToSet
<1>5. IsInjective(s) /\ e \notin ToSet(s) => IsInjective(r)
  BY <1>1, <1>2, <1>3 DEF ToSet, IsInjective
<1> QED
  BY <1>1, <1>4, <1>5

\* Without its first element.
LEMMA TailKeepsInjective ==
  ASSUME NEW S, NEW s \in Seq(S), s # <<>>
  PROVE  /\ Tail(s) \in Seq(S) /\ Head(s) \in ToSet(s)
         /\ IsInjective(s) => IsInjective(Tail(s)) /\ ToSet(Tail(s)) = ToSet(s) \ {Head(s)}
<1>1. /\ Tail(s) \in Seq(S) /\ Len(Tail(s)) = Len(s) - 1
      /\ \A n \in 1..(Len(s) - 1) : Tail(s)[n] = s[n + 1]
  BY HeadTailProperties
<1>2. Len(s) \in Nat \ {0} /\ DOMAIN s = 1..Len(s) /\ DOMAIN Tail(s) = 1..(Len(s) - 1)
  BY <1>1, Elements, EmptySeq
<1>3. Head(s) = s[1]
  BY <1>2
<1>4. Head(s) \in ToSet(s)
  BY <1>2, <1>3 DEF ToSet
<1>5. ASSUME IsInjective(s) PROVE IsInjective(Tail(s))
  BY <1>1, <1>2, <1>5 DEF IsInjective
<1>6. ASSUME IsInjective(s) PROVE ToSet(Tail(s)) = ToSet(s) \ {Head(s)}
  <2>1. ASSUME NEW n \in 1..(Len(s) - 1) PROVE Tail(s)[n] \in ToSet(s) \ {Head(s)}
    BY <1>1, <1>2, <1>3, <1>6 DEF IsInjective, ToSet
  <2>2. ASSUME NEW n \in 1..Len(s), s[n] # Head(s)
        PROVE  n - 1 \in 1..(Len(s) - 1) /\ s[n] = Tail(s)[n - 1]
    BY <1>1, <1>2, <1>3, <2>2
  <2> QED
    BY <1>2, <2>1, <2>2 DEF ToSet
<1> QED
  BY <1>1, <1>4, <1>5, <1>6

\* Head and Tail of a concatenation, and an element put at its end.
LEMMA ConcatHeadTail ==
  ASSUME NEW S, NEW s \in Seq(S), NEW t \in Seq(S), s # <<>>
  PROVE  Head(s \o t) = Head(s) /\ Tail(s \o t) = Tail(s) \o t /\ s \o t # <<>>
<1>1. Len(s) \in Nat \ {0} /\ Len(t) \in Nat
  BY Elements, EmptySeq
<1>2. /\ s \o t \in Seq(S) /\ Len(s \o t) = Len(s) + Len(t)
      /\ \A n \in 1..(Len(s) + Len(t)) :
           (s \o t)[n] = IF n <= Len(s) THEN s[n] ELSE t[n - Len(s)]
  BY ConcatProperties
<1>3. s \o t # <<>>
  BY <1>1, <1>2, EmptySeq
<1>4. /\ Tail(s) \in Seq(S) /\ Len(Tail(s)) = Len(s) - 1
      /\ \A n \in 1..(Len(s) - 1) : Tail(s)[n] = s[n + 1]
  BY HeadTailProperties
<1>5. /\ Tail(s \o t) \in Seq(S) /\ Len(Tail(s \o t)) = Len(s) + Len(t) - 1
      /\ \A n \in 1..(Len(s) + Len(t) - 1) : Tail(s \o t)[n] = (s \o t)[n + 1]
  BY <1>2, <1>3, HeadTailProperties
<1>6. /\ Tail(s) \o t \in Seq(S) /\ Len(Tail(s) \o t) = Len(s) - 1 + Len(t)
      /\ \A n \in 1..(Len(s) - 1 + Len(t)) :
           (Tail(s) \o t)[n] = IF n <= Len(s) - 1 THEN Tail(s)[n] ELSE t[n - (Len(s) - 1)]
  BY <1>4, ConcatProperties
<1>7. ASSUME NEW n \in 1..(Len(s) + Len(t) - 1)
      PROVE  Tail(s \o t)[n] = (Tail(s) \o t)[n]
  BY <1>1, <1>2, <1>4, <1>5, <1>6
<1>8. Tail(s \o t) = Tail(s) \o t
  BY <1>1, <1>5, <1>6, <1>7, SeqEqual
<1> QED
  BY <1>1, <1>2, <1>3, <1>8

LEMMA ConcatAppend ==
  ASSUME NEW S, NEW s \in Seq(S), NEW t \in Seq(S), NEW e \in S
  PROVE  s \o Append(t, e) = Append(s \o t, e)
<1>1. <<e>> \in Seq(S) /\ s \o t \in Seq(S)
  BY ConcatProperties
<1>2. Append(t, e) = t \o <<e>> /\ Append(s \o t, e) = (s \o t) \o <<e>>
  BY <1>1, AppendIsConcat
<1> QED
  BY <1>1, <1>2, ConcatAssociative

\* Putting the last element in the place of the one removed loses no other.
LEMMA RemovedKeepsInjective ==
  ASSUME NEW S, inflight \in Seq(S), IsInjective(inflight), NEW n \in 1..Len(inflight)
  PROVE  /\ Removed(n) \in Seq(S) /\ IsInjective(Removed(n))
         /\ ToSet(Removed(n)) = ToSet(inflight) \ {inflight[n]}
<1> DEFINE last == Len(inflight)
           s == [inflight EXCEPT ![n] = Last(inflight)]
           r == Removed(n)
<1>1. last \in Nat \ {0} /\ DOMAIN inflight = 1..last /\ inflight \in [1..last -> S]
  BY LenProperties
<1>2. s \in Seq(S) /\ Len(s) = last
      /\ \A m \in 1..last : s[m] = IF m = n THEN inflight[last] ELSE inflight[m]
  BY <1>1, ExceptSeq DEF Last
<1>3. /\ r \in Seq(S) /\ Len(r) = last - 1
      /\ \A m \in 1..(last - 1) : r[m] = IF m = n THEN inflight[last] ELSE inflight[m]
  <2>1. r = SubSeq(s, 1, last - 1)
    BY <1>2 DEF Removed, Front
  <2>2. \A m \in 1..(last - 1) : s[m] \in S
    BY <1>1, <1>2
  <2> HIDE DEF s, r
  <2> QED
    BY <1>1, <1>2, <2>1, <2>2, SubSeqProperties
<1>4. DOMAIN r = 1..(last - 1)
  BY <1>3, Elements
<1> HIDE DEF r
<1>5. IsInjective(r)
  BY <1>1, <1>3, <1>4 DEF IsInjective
<1>6. ASSUME NEW m \in 1..(last - 1) PROVE r[m] \in ToSet(inflight) \ {inflight[n]}
  BY <1>1, <1>3 DEF IsInjective, ToSet
<1>7. ASSUME NEW m \in 1..last, inflight[m] # inflight[n]
      PROVE  \E k \in 1..(last - 1) : r[k] = inflight[m]
  <2>1. CASE m = last
    BY <1>1, <1>3, <1>7, <2>1
  <2>2. CASE m # last
    <3>1. m # n
      BY <1>7
    <3>2. m \in 1..(last - 1)
      <4>1. m \in 1..last /\ m # last /\ last \in Nat
        BY <1>1, <2>2
      <4> HIDE DEF last
      <4> QED
        BY <4>1
    <3>3. r[m] = inflight[m]
      BY <1>3, <3>1, <3>2
    <3> QED
      BY <3>2, <3>3
  <2> QED
    BY <2>1, <2>2
<1>8. ToSet(r) = ToSet(inflight) \ {inflight[n]}
  BY <1>1, <1>4, <1>6, <1>7 DEF ToSet
<1> QED
  BY <1>3, <1>5, <1>8 DEF r
-----------------------------------------------------------------------------
(* The inductive invariant *)

\* The kernel finishes a request: its IO joins the end of what is undelivered.
LEMMA KernelDoneInv ==
  ASSUME IInv, NEW io \in IOs, KernelDone(io)
  PROVE  IInv' /\ Undelivered' = Append(Undelivered, io)
<1> USE DEF IInv, TypeOK
<1> DEFINE batch == IF pc \in {"callback", "then"} THEN Tail(events) ELSE events
<1>1. batch \in Seq(IOs) /\ batch' = batch
  BY TailKeepsInjective DEF KernelDone, BatchAtHand
<1>2. Undelivered = batch \o ring /\ Undelivered' = batch' \o Append(ring, io)
  BY DEF Undelivered, KernelDone
<1> HIDE DEF batch
<1>3. Undelivered' = Append(Undelivered, io) /\ Undelivered \in Seq(IOs)
  BY <1>1, <1>2, ConcatAppend, ConcatProperties
<1>4. /\ ToSet(Undelivered') = ToSet(Undelivered) \cup {io}
      /\ io \notin ToSet(Undelivered) => IsInjective(Undelivered')
  BY <1>3, AppendKeepsInjective DEF UndeliveredIsPending
<1>5. UndeliveredIsPending'
  BY <1>4 DEF UndeliveredIsPending, Pending, KernelDone
<1>6. Len(ring') = Len(ring) + 1 /\ ring' \in Seq(IOs) /\ Len(ring) \in Nat
  BY AppendProperties, LenProperties DEF KernelDone
<1>7. TypeOK' /\ ~aborted' /\ EventsCounted'
  BY <1>6 DEF KernelDone, EventsCounted
<1>8. InflightIsPending' /\ BatchAtHand' /\ FulfilledInCallback'
  BY DEF InflightIsPending, BatchAtHand, FulfilledInCallback, KernelDone, Pending
<1> QED
  BY <1>3, <1>5, <1>7, <1>8

LEMMA KernelSignalInv ==
  ASSUME IInv, KernelSignal
  PROVE  IInv' /\ Undelivered' = Undelivered
<1> USE DEF IInv, TypeOK, KernelSignal
<1>1. Undelivered' = Undelivered /\ Pending' = Pending
  BY DEF Undelivered, Pending
<1>2. UndeliveredIsPending' /\ InflightIsPending'
  BY <1>1 DEF UndeliveredIsPending, InflightIsPending
<1>3. TypeOK' /\ ~aborted' /\ EventsCounted'
  BY LenProperties DEF EventsCounted
<1> QED
  BY <1>1, <1>2, <1>3 DEF BatchAtHand, FulfilledInCallback

\* A submission, possibly from a callback and at the address of the IO whose
\* completion is being handled.
LEMMA ioSubmitInv ==
  ASSUME IInv, NEW io \in IOs, ioSubmit(io)
  PROVE  IInv' /\ Undelivered' = Undelivered
<1> USE DEF IInv, TypeOK, ioSubmit
<1>1. Undelivered' = Undelivered
  BY DEF Undelivered
<1>2. Pending' = Pending \cup {io} /\ io \notin Pending
  BY DEF Pending
<1>3. UndeliveredIsPending'
  BY <1>1, <1>2 DEF UndeliveredIsPending
<1>4. InflightIsPending' /\ inflight' \in Seq(IOs)
  BY <1>2, AppendKeepsInjective DEF InflightIsPending
<1>5. TypeOK' /\ ~aborted' /\ EventsCounted'
  BY <1>4 DEF EventsCounted
<1>6. FulfilledInCallback' /\ BatchAtHand'
  BY DEF FulfilledInCallback, BatchAtHand
<1> QED
  BY <1>1, <1>3, <1>4, <1>5, <1>6

\* The steps of the loop between two events.
LEMMA LoopMovesInv ==
  ASSUME IInv, handlerReady \/ ReadCount \/ BatchDone
  PROVE  IInv' /\ Undelivered' = Undelivered
<1> USE DEF IInv, TypeOK, handlerReady, ReadCount, BatchDone, kernelVars
<1>1. Undelivered' = Undelivered /\ Pending' = Pending
  BY DEF Undelivered, Pending
<1>2. UndeliveredIsPending' /\ InflightIsPending'
  BY <1>1 DEF UndeliveredIsPending, InflightIsPending
<1>3. TypeOK' /\ ~aborted' /\ EventsCounted'
  BY LenProperties DEF EventsCounted
<1> QED
  BY <1>1, <1>2, <1>3 DEF BatchAtHand, FulfilledInCallback

\* The events taken and those left in the ring are what the ring held.
LEMMA TakeEventsInv ==
  ASSUME IInv, TakeEvents
  PROVE  IInv' /\ Undelivered' = Undelivered
<1> USE DEF IInv, TypeOK
<1>1. nevents \in 0..Len(ring) /\ Len(ring) \in Nat
  BY LenProperties DEF TakeEvents
<1>2. events' \o ring' = SubSeq(ring, 1, Len(ring))
  <2>1. /\ 1 \in 1..(Len(ring) + 1) /\ nevents \in (1 - 1)..Len(ring)
        /\ Len(ring) \in nevents..Len(ring)
    BY <1>1
  <2>2. SubSeq(ring, 1, nevents) \o SubSeq(ring, nevents + 1, Len(ring)) = SubSeq(ring, 1, Len(ring))
    BY <2>1, ConcatAdjacentSubSeq
  <2> QED
    BY <2>2 DEF TakeEvents
<1>3. Undelivered' = Undelivered
  BY <1>2, SubSeqFull, ConcatEmptySeq DEF Undelivered, TakeEvents, BatchAtHand
<1>4. \A n \in 1..Len(ring) : ring[n] \in IOs
  BY ElementOfSeq
<1>5. /\ events' \in Seq(IOs) /\ ring' \in Seq(IOs)
      /\ Len(ring') = Len(ring) - nevents
  BY <1>1, <1>4, SubSeqProperties DEF TakeEvents
<1>6. Pending' = Pending
  BY DEF Pending, TakeEvents
<1>7. UndeliveredIsPending' /\ InflightIsPending'
  BY <1>3, <1>6 DEF UndeliveredIsPending, InflightIsPending, TakeEvents
<1>8. TypeOK' /\ ~aborted' /\ EventsCounted'
  BY <1>1, <1>5 DEF EventsCounted, TakeEvents
<1> QED
  BY <1>3, <1>7, <1>8 DEF BatchAtHand, FulfilledInCallback, TakeEvents

\* The IO of the event is found in inflight_, with its promise open; the
\* callback that starts is that of the first undelivered event.
LEMMA HandleEventInv ==
  ASSUME IInv, HandleEvent
  PROVE  /\ IInv'
         /\ Undelivered # <<>> /\ Undelivered' = Tail(Undelivered)
         /\ Head(Undelivered) = Head(events)
<1> USE DEF IInv, TypeOK
<1> DEFINE io == Head(events)
           at == {n \in DOMAIN inflight : inflight[n] = io}
<1>1. Undelivered = events \o ring /\ Undelivered' = Tail(events) \o ring
  BY DEF Undelivered, HandleEvent, kernelVars
<1>2. /\ Undelivered # <<>> /\ Undelivered' = Tail(Undelivered)
      /\ Head(Undelivered) = io /\ Undelivered \in Seq(IOs)
  BY <1>1, ConcatHeadTail, ConcatProperties DEF HandleEvent
<1>3. io \in ToSet(Undelivered) /\ io \in Pending
  BY <1>2, TailKeepsInjective DEF UndeliveredIsPending
<1>4. \E n \in 1..Len(inflight) : at = {n} /\ inflight[n] = io
  BY <1>3, Elements DEF InflightIsPending, ToSet, IsInjective
<1>5. PICK n \in 1..Len(inflight) : at = {n} /\ inflight[n] = io
  BY <1>4
<1>6. Min(at) = n /\ at # {}
  BY <1>5, LenProperties DEF Min
<1>7. aborted' = FALSE /\ inflight' = Removed(n)
  BY <1>3, <1>6 DEF HandleEvent, Pending
<1>8. Pending' = Pending \ {io} /\ io \in IOs
  BY <1>3 DEF HandleEvent, Pending
<1>9. InflightIsPending' /\ inflight' \in Seq(IOs)
  BY <1>5, <1>7, <1>8, RemovedKeepsInjective DEF InflightIsPending
<1>10. UndeliveredIsPending'
  BY <1>2, <1>3, <1>8, TailKeepsInjective DEF UndeliveredIsPending, HandleEvent, kernelVars
<1>11. TypeOK' /\ ~aborted' /\ EventsCounted'
  BY <1>7, <1>8, <1>9 DEF EventsCounted, HandleEvent, kernelVars
<1>12. BatchAtHand' /\ FulfilledInCallback'
  BY <1>8 DEF BatchAtHand, FulfilledInCallback, HandleEvent
<1> QED
  BY <1>2, <1>9, <1>10, <1>11, <1>12

\* The IO of the callback is destroyed; it is the one whose promise was
\* fulfilled, and nothing that is open changes.
LEMMA CallbackReturnsInv ==
  ASSUME IInv, CallbackReturns
  PROVE  IInv' /\ Undelivered' = Undelivered
<1> USE DEF IInv, TypeOK, CallbackReturns, kernelVars
<1>1. Undelivered' = Undelivered
  BY DEF Undelivered
<1>2. Head(events) \in IOs /\ promise[Head(events)] = "fulfilled"
  BY HeadTailProperties DEF BatchAtHand, FulfilledInCallback
<1>3. Pending' = Pending
  BY <1>2 DEF Pending
<1>4. UndeliveredIsPending' /\ InflightIsPending'
  BY <1>1, <1>3 DEF UndeliveredIsPending, InflightIsPending
<1>5. TypeOK' /\ ~aborted' /\ EventsCounted'
  BY DEF EventsCounted
<1>6. BatchAtHand' /\ FulfilledInCallback'
  BY <1>2 DEF BatchAtHand, FulfilledInCallback
<1> QED
  BY <1>1, <1>4, <1>5, <1>6

LEMMA ThenReturnsInv ==
  ASSUME IInv, ThenReturns
  PROVE  IInv' /\ Undelivered' = Undelivered
<1> USE DEF IInv, TypeOK, ThenReturns, kernelVars
<1>1. Undelivered' = Undelivered /\ Pending' = Pending
  BY DEF Undelivered, Pending
<1>2. UndeliveredIsPending' /\ InflightIsPending'
  BY <1>1 DEF UndeliveredIsPending, InflightIsPending
<1>3. Tail(events) \in Seq(IOs)
  BY HeadTailProperties DEF BatchAtHand
<1>4. TypeOK' /\ ~aborted' /\ EventsCounted'
  BY <1>3 DEF EventsCounted
<1> QED
  BY <1>1, <1>2, <1>4 DEF BatchAtHand, FulfilledInCallback

LEMMA InitInv == Init => IInv
<1> SUFFICES ASSUME Init PROVE IInv
  OBVIOUS
<1> USE DEF Init
<1>1. Undelivered = <<>> /\ <<>> \in Seq(IOs) /\ Len(<<>>) = 0
  BY ConcatEmptySeq, EmptySeq DEF Undelivered
<1>2. ASSUME NEW s \in Seq(IOs), s = <<>> PROVE ToSet(s) = {} /\ IsInjective(s)
  <2>1. ToSet(s) = {} /\ DOMAIN s = 1..0
    BY <1>1, <1>2, Elements
  <2> QED
    BY <2>1 DEF IsInjective
<1>3. Pending = {}
  BY DEF Pending
<1>4. InflightIsPending /\ UndeliveredIsPending
  BY <1>1, <1>2, <1>3 DEF InflightIsPending, UndeliveredIsPending
<1>5. promise \in [IOs -> {"none", "pending", "fulfilled"}]
  OBVIOUS
<1>6. TypeOK
  BY <1>1, <1>5 DEF TypeOK
<1>7. EventsCounted
  BY <1>1 DEF EventsCounted
<1> QED
  BY <1>4, <1>6, <1>7 DEF IInv, BatchAtHand, FulfilledInCallback

LEMMA StutterInv == IInv /\ UNCHANGED vars => IInv' /\ Undelivered' = Undelivered
BY DEF IInv, vars, kernelVars, TypeOK, InflightIsPending, UndeliveredIsPending, Undelivered,
       Pending, BatchAtHand, FulfilledInCallback, EventsCounted

LEMMA NextInv == IInv /\ [Next]_vars => IInv'
BY KernelDoneInv, KernelSignalInv, ioSubmitInv, LoopMovesInv, TakeEventsInv, HandleEventInv,
   CallbackReturnsInv, ThenReturnsInv, StutterInv DEF Next, Kernel, Loop

LEMMA Invariance == Spec => []IInv
BY InitInv, NextInv, PTL DEF Spec

\* inflight_ holds just the IOs with an open promise, once each, whatever is
\* submitted from callbacks and however addresses are used again; so the
\* asserts of iosCompleted and of the promises hold.
THEOREM InflightIsExact == Spec => []InflightExact
<1>1. IInv => InflightExact
  BY InjectiveCardinality DEF IInv, TypeOK, InflightIsPending, InflightExact, Pending
<1> QED
  BY <1>1, Invariance, PTL

\* The counter of the eventfd never runs ahead of the ring: io_getevents is
\* asked for events that are there.
THEOREM EventsAreCounted == Spec => []EventsCounted
<1>1. IInv => EventsCounted
  BY DEF IInv
<1> QED
  BY <1>1, Invariance, PTL
-----------------------------------------------------------------------------
(* The refinement *)


LEMMA UndeliveredType == IInv => Undelivered \in Seq(IOs)
<1> SUFFICES ASSUME IInv PROVE Undelivered \in Seq(IOs)
  OBVIOUS
<1>1. pc \in {"callback", "then"} => Tail(events) \in Seq(IOs)
  BY HeadTailProperties DEF IInv, TypeOK, BatchAtHand
<1> QED
  BY <1>1, ConcatProperties DEF IInv, TypeOK, Undelivered

\* Every step of engine and kernel is one of the promised futures, or none.
LEMMA StepSimulation ==
  IInv /\ [Next]_vars => [Promised!Next]_<<running, Undelivered, Called, Unserved>>
<1> SUFFICES ASSUME IInv, [Next]_vars
             PROVE  Promised!Next \/ UNCHANGED <<running, Undelivered, Called, Unserved>>
  OBVIOUS
<1> USE DEF Called
<1>1. UNCHANGED vars => UNCHANGED <<running, Undelivered, Called, Unserved>>
  BY StutterInv DEF vars, kernelVars, Pending, Unserved
<1>2. ASSUME NEW io \in IOs, KernelDone(io) PROVE Promised!Work(io)
  <2>1. Undelivered' = Append(Undelivered, io) /\ Undelivered \in Seq(IOs)
    BY <1>2, KernelDoneInv, UndeliveredType
  <2>2. ToSet(Undelivered') = ToSet(Undelivered) \cup {io}
    BY <2>1, AppendKeepsInjective
  <2> QED
    BY <1>2, <2>1, <2>2 DEF Promised!Work, KernelDone, Pending, Unserved
<1>3. ASSUME NEW io \in IOs, ioSubmit(io) PROVE Promised!Submit(io)
  <2>1. Undelivered' = Undelivered /\ Called' = Called
    BY <1>3, ioSubmitInv DEF ioSubmit, IInv, TypeOK
  <2>2. Pending' = Pending \cup {io} /\ io \notin Pending \cup Called
    BY <1>3 DEF ioSubmit, Pending, IInv, TypeOK
  <2>3. io \notin Promised!Held
    BY <2>2 DEF Promised!Held, IInv, UndeliveredIsPending, ToSet, Unserved
  <2>4. CASE Admitted < Capacity
    BY <1>3, <2>1, <2>2, <2>3, <2>4 
       DEF ioSubmit, Promised!Submit, IInv, UndeliveredIsPending, Unserved
  <2>5. CASE ~(Admitted < Capacity)
    <3>1. Len(ring) <= Len(Undelivered) /\ Len(ring) \in Nat /\ Len(Undelivered) \in Nat
      <4>1. (pc \in {"callback", "then"} => Tail(events) \in Seq(IOs))
        BY HeadTailProperties DEF IInv, TypeOK, BatchAtHand
      <4> QED
        BY <4>1, LenProperties, ConcatProperties DEF IInv, TypeOK, Undelivered
    <3>2. Cardinality(running) \in Nat
      BY FS_Subset, FS_CardinalityType, AsyncIOAssumption DEF IInv, TypeOK
    <3>3. Cardinality(running) + Len(Undelivered) >= Capacity
      BY <2>5, <3>1, <3>2, AsyncIOAssumption DEF Admitted
    <3>4. Unserved' = Unserved \cup {io} /\ running' = running
      BY <1>3, <2>1, <2>2, <2>5 DEF ioSubmit, IInv, UndeliveredIsPending, Unserved
    <3>5. Promised!Cardinality(running) = Cardinality(running)
      BY DEF Promised!Cardinality, Cardinality
    <3> QED
      BY <2>1, <2>3, <3>3, <3>4, <3>5 DEF Promised!Submit
  <2> QED
    BY <2>4, <2>5
<1>4. ASSUME HandleEvent PROVE Promised!Deliver
  <2>1. /\ Undelivered # <<>> /\ Undelivered' = Tail(Undelivered)
        /\ Head(Undelivered) = Head(events) /\ IInv'
    BY <1>4, HandleEventInv
  <2>2. /\ Head(events) \in ToSet(Undelivered)
        /\ ToSet(Undelivered') = ToSet(Undelivered) \ {Head(events)}
    BY <2>1, TailKeepsInjective, UndeliveredType DEF IInv, UndeliveredIsPending
  <2>3. Called = {} /\ Called' = {Head(events)}
    BY <1>4, <2>1, <2>2
       DEF IInv, FulfilledInCallback, HandleEvent, UndeliveredIsPending, Pending
  <2>4. running' = running /\ Pending' = Pending \ {Head(events)}
    BY <1>4, <2>2 DEF HandleEvent, kernelVars, Pending, IInv, TypeOK
  <2>5. Unserved' = Unserved
    BY <2>2, <2>4 DEF Unserved
  <2> QED
    BY <2>1, <2>3, <2>4, <2>5 DEF Promised!Deliver
<1>5. ASSUME CallbackReturns PROVE Promised!Return
  <2>1. Undelivered' = Undelivered /\ IInv' /\ running' = running
    BY <1>5, CallbackReturnsInv DEF CallbackReturns, kernelVars
  <2>2. Head(events) \in IOs /\ promise[Head(events)] = "fulfilled"
    BY <1>5, HeadTailProperties
       DEF IInv, TypeOK, BatchAtHand, FulfilledInCallback, CallbackReturns
  <2>3. Called # {} /\ Called' = {}
    BY <1>5, <2>1, <2>2 DEF IInv, FulfilledInCallback, CallbackReturns
  <2>4. Pending' = Pending
    BY <1>5, <2>2 DEF Pending, CallbackReturns, IInv, TypeOK
  <2> QED
    BY <2>1, <2>3, <2>4 DEF Promised!Return, Unserved
<1>6. ASSUME \/ KernelSignal \/ handlerReady \/ ReadCount \/ TakeEvents \/ ThenReturns \/ BatchDone
      PROVE  UNCHANGED <<running, Undelivered, Called, Unserved>>
  <2>1. Undelivered' = Undelivered
    BY <1>6, KernelSignalInv, LoopMovesInv, TakeEventsInv, ThenReturnsInv
  <2>2. running' = running /\ promise' = promise
    BY <1>6 DEF KernelSignal, handlerReady, ReadCount, TakeEvents, ThenReturns, BatchDone, kernelVars
  <2> QED
    BY <2>1, <2>2 DEF Pending, Unserved
<1> QED
  BY <1>1, <1>2, <1>3, <1>4, <1>5, <1>6 DEF Next, Kernel, Loop, Promised!Next

\* The engine and the kernel deliver what the futures promise: each completion
\* once, in order, to the IO it is of, one callback at a time.
THEOREM Refinement == Spec => ImplementsFutures
<1>1. Init => Promised!Init
  <2> SUFFICES ASSUME Init PROVE Promised!Init
    OBVIOUS
  <2>1. Undelivered = <<>>
    BY ConcatEmptySeq, EmptySeq DEF Init, Undelivered
  <2> QED
    BY <2>1, InitInv DEF Init, Promised!Init, Called, Unserved, Pending
<1> QED
  BY <1>1, StepSimulation, Invariance, PTL
     DEF Spec, ImplementsFutures, Promised!Spec, Promised!vars
-----------------------------------------------------------------------------
(* The program *)

\* At most one address is that of the third IO, and none before it is
\* submitted, which main does before it runs the loop.
ThirdIsUnique ==
  /\ \A a, b \in IOs : role[a] = "io3" /\ role[b] = "io3" => a = b
  /\ submitted < 3 => pc = "loop" /\ \A a \in IOs : role[a] # "io3"

\* When what is chained after its callback runs, the third IO is no more.
ThirdIsOver ==
  submitted = 3 /\ pc = "then" /\ role[Head(events)] = "io3"
    => promise[Head(events)] = "none"

MainIInv ==
  /\ IInv
  /\ role \in [IOs -> {"none", "io1", "io2", "io3", "io4"}] /\ submitted \in 0..4
  /\ ThirdIsUnique
  /\ ThirdIsOver
  /\ OverlappingWritesOrdered

\* What AsyncIOMain needs to know of the engine, after a step and before it.
LEMMA RunningIsPending ==
  ASSUME IInv'
  PROVE  \A a \in running' : promise'[a] = "pending"
BY DEF IInv, UndeliveredIsPending, Pending

LEMMA EngineState ==
  ASSUME IInv
  PROVE  /\ promise \in [IOs -> {"none", "pending", "fulfilled"}]
         /\ pc \in {"callback", "then"} => Head(events) \in IOs
BY HeadTailProperties
   DEF IInv, TypeOK, BatchAtHand

\* Every step keeps the engine's own invariant.
LEMMA EngineInv ==
  ASSUME IInv, [MainNext]_mainVars
  PROVE  IInv'
<1>1. [Next]_vars
  BY DEF MainNext, Program, SubmitFirst, SubmitFourth, SubmitNext, MainKernel, MainLoop,
         MainCallbackReturns, MainThenReturns, Exit, mainVars, Next, Loop
<1> QED
  BY <1>1, NextInv

\* A submission names the IO at its address; the fourth is made when the third
\* IO is over, maybe at its very address.
LEMMA SubmitInv ==
  ASSUME MainIInv, NEW a \in IOs, SubmitFirst(a) \/ SubmitFourth(a), IInv'
  PROVE  MainIInv'
<1> USE DEF MainIInv
<1>1. /\ SubmitNext(a) /\ pc' = pc /\ events' = events
      /\ promise[a] = "none" /\ promise' = [promise EXCEPT ![a] = "pending"]
      /\ submitted' = submitted + 1 /\ role' = [role EXCEPT ![a] = Roles[submitted + 1]]
  BY DEF SubmitFirst, SubmitFourth, SubmitNext, ioSubmit
<1>2. \/ submitted \in 0..1 /\ Roles[submitted + 1] \in {"io1", "io2"}
      \/ submitted = 2 /\ Roles[submitted + 1] = "io3"
      \/ /\ submitted = 3 /\ Roles[submitted + 1] = "io4"
         /\ pc = "then" /\ role[Head(events)] = "io3"
  BY DEF SubmitFirst, SubmitFourth, Roles
<1>3. submitted' \in 0..4 /\ role' \in [IOs -> {"none", "io1", "io2", "io3", "io4"}]
  BY <1>1, <1>2
<1>4. ThirdIsUnique' /\ ThirdIsOver'
  BY <1>1, <1>2 DEF ThirdIsUnique, ThirdIsOver
<1>5. OverlappingWritesOrdered'
  <2> SUFFICES ASSUME submitted' = 4, NEW b \in IOs, role'[b] = "io3"
               PROVE  promise'[b] # "pending" /\ b \notin running'
    BY DEF OverlappingWritesOrdered, AddressOf
  <2>1. submitted = 3 /\ b # a /\ role[b] = "io3"
    BY <1>1, <1>2
  <2>2. b = Head(events) /\ promise[b] = "none"
    BY <1>2, <2>1, EngineState DEF ThirdIsUnique, ThirdIsOver
  <2> QED
    BY <1>1, <2>1, <2>2, EngineState, RunningIsPending
<1> QED
  BY <1>3, <1>4, <1>5

\* A step that submits nothing makes no promise pending and names no IO.
LEMMA OtherStepsInv ==
  ASSUME MainIInv, IInv',
         \/ MainKernel \/ MainCallbackReturns \/ MainThenReturns \/ MainLoop \/ Exit
         \/ UNCHANGED mainVars
  PROVE  MainIInv'
<1> USE DEF MainIInv
<1>1. role' = role /\ submitted' = submitted
  BY DEF MainKernel, MainCallbackReturns, MainThenReturns, MainLoop, Exit, mainVars, programVars
<1>2. \A a \in IOs : promise'[a] = "pending" => promise[a] = "pending"
  BY EngineState
     DEF MainKernel, MainCallbackReturns, MainThenReturns, MainLoop, Exit, mainVars, vars,
         programVars, Kernel, KernelSignal, KernelDone, handlerReady, ReadCount,
         TakeEvents, HandleEvent, BatchDone, CallbackReturns, ThenReturns
<1>3. OverlappingWritesOrdered'
  BY <1>1, <1>2, RunningIsPending DEF OverlappingWritesOrdered, AddressOf
<1>4. ThirdIsUnique'
  BY <1>1
     DEF ThirdIsUnique, MainKernel, MainCallbackReturns, MainThenReturns, MainLoop, Exit,
         mainVars, vars, programVars, Kernel, KernelSignal, KernelDone, CallbackReturns, ThenReturns
<1>5. ThirdIsOver'
  BY <1>1, EngineState
     DEF ThirdIsOver, MainKernel, MainCallbackReturns, MainThenReturns, MainLoop, Exit,
         mainVars, vars, programVars, Kernel, KernelSignal, KernelDone, handlerReady, ReadCount,
         TakeEvents, HandleEvent, BatchDone, CallbackReturns, ThenReturns
<1> QED
  BY <1>1, <1>3, <1>4, <1>5

\* The write that is chained after the third one never meets it at work, in
\* whatever order completions come and addresses are used again.
THEOREM WritesAreOrdered == MainSpec => []OverlappingWritesOrdered
<1>1. MainInit => MainIInv
  <2> SUFFICES ASSUME MainInit PROVE MainIInv
    OBVIOUS
  <2>1. IInv
    BY InitInv DEF MainInit
  <2> QED
    BY <2>1 DEF MainInit, Init, MainIInv, ThirdIsUnique, ThirdIsOver, OverlappingWritesOrdered
<1>2. MainIInv /\ [MainNext]_mainVars => MainIInv'
  <2> SUFFICES ASSUME MainIInv, [MainNext]_mainVars PROVE MainIInv'
    OBVIOUS
  <2>1. IInv'
    BY EngineInv DEF MainIInv
  <2> QED
    BY <2>1, SubmitInv, OtherStepsInv DEF MainNext, Program
<1>3. MainIInv => OverlappingWritesOrdered
  BY DEF MainIInv
<1> QED
  BY <1>1, <1>2, <1>3, PTL DEF MainSpec
=============================================================================
