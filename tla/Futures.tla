------------------------------- MODULE Futures -------------------------------
(***************************************************************************)
(* What AsyncIO promises to who submits an IO: the future it is given is   *)
(* fulfilled once, after the request is done, in the order in which the    *)
(* requests got done, one callback at a time.  A request that found the    *)
(* context full is lost: its future is never fulfilled and nobody is told. *)
(***************************************************************************)
EXTENDS Integers, FiniteSets, Sequences

CONSTANTS IOs, Capacity

VARIABLES
  atwork,    \* requests the device works on
  done,      \* requests that are done and whose callback has not started
  called,    \* the IO whose callback runs, if one does
  lost       \* IOs whose future nothing will fulfil

vars == <<atwork, done, called, lost>>

Init == atwork = {} /\ done = <<>> /\ called = {} /\ lost = {}

Held == atwork \cup {done[i] : i \in DOMAIN done} \cup called \cup lost

Submit(io) ==
  /\ io \in IOs \ Held
  /\ \/ atwork' = atwork \cup {io} /\ UNCHANGED lost
     \/ /\ Cardinality(atwork) + Len(done) >= Capacity
        /\ lost' = lost \cup {io} /\ UNCHANGED atwork
  /\ UNCHANGED <<done, called>>

Work(io) ==
  /\ io \in atwork
  /\ atwork' = atwork \ {io} /\ done' = Append(done, io)
  /\ UNCHANGED <<called, lost>>

Deliver ==
  /\ done # <<>> /\ called = {}
  /\ called' = {Head(done)} /\ done' = Tail(done)
  /\ UNCHANGED <<atwork, lost>>

Return ==
  /\ called # {} /\ called' = {}
  /\ UNCHANGED <<atwork, done, lost>>

Next == Deliver \/ Return \/ \E io \in IOs : Submit(io) \/ Work(io)

Spec == Init /\ [][Next]_vars
=============================================================================
