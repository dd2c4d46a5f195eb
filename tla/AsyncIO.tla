------------------------------ MODULE AsyncIO -------------------------------
(***************************************************************************)
(* The asynchronous I/O engine of src/AsyncIO: class AsyncIO, its IO       *)
(* objects and its EventFDHandler, on one event loop thread, against the   *)
(* kernel's aio context and eventfd.                                       *)
(*                                                                         *)
(* ioSubmit keeps the IO in inflight_ and gives it to the kernel.  The     *)
(* kernel, at any time, puts the completion event of an IO in the ring of  *)
(* the context and then adds one to the eventfd.  The loop sees the        *)
(* eventfd readable and runs iosCompleted, which reads (and zeroes) the    *)
(* counter, takes that many events, and completes the promise of each IO:  *)
(* the callback runs inside, and may submit more.                          *)
(*                                                                         *)
(* An IO is identified by its address; once its callback is over it is     *)
(* destroyed and the address may be that of a new IO.                      *)
(***************************************************************************)
EXTENDS Integers, FiniteSets, SequencesExt

CONSTANTS
  IOs,        \* the addresses of IO objects
  Capacity    \* how many requests the aio context admits

ASSUME AsyncIOAssumption == IsFiniteSet(IOs) /\ Capacity \in Nat \ {0}

VARIABLES
  inflight,      \* AsyncIO::inflight_, in its order
  promise,       \* of each IO's p_; "none": there is no such IO now
  running,       \* external: requests the kernel works on
  ring,          \* external: completion events not yet taken
  unsignalled,   \* external: eventfd increments the kernel has yet to make
  eventfd,       \* external: the counter of eventfd_
  pc,            \* where the loop thread is
  nevents,       \* local of iosCompleted: the counter's value it has read
  events,        \* local of iosCompleted: events taken and not yet handled
  aborted        \* an assert failed: the process is gone

kernelVars == <<running, ring, unsignalled>>
vars == <<inflight, promise, kernelVars, eventfd, pc, nevents, events, aborted>>

Init ==
  /\ inflight = <<>> /\ promise = [io \in IOs |-> "none"]
  /\ running = {} /\ ring = <<>> /\ unsignalled = 0 /\ eventfd = 0
  /\ pc = "loop" /\ nevents = 0 /\ events = <<>> /\ aborted = FALSE
-----------------------------------------------------------------------------
(* The kernel *)

\* Requests that take up room in the context: until their event is taken.
Admitted == Cardinality(running) + Len(ring)

KernelDone(io) ==
  /\ io \in running
  /\ running' = running \ {io}
  /\ ring' = Append(ring, io)
  /\ unsignalled' = unsignalled + 1
  /\ UNCHANGED <<inflight, promise, eventfd, pc, nevents, events, aborted>>

KernelSignal ==
  /\ unsignalled > 0
  /\ unsignalled' = unsignalled - 1
  /\ eventfd' = eventfd + 1
  /\ UNCHANGED <<inflight, promise, running, ring, pc, nevents, events, aborted>>
-----------------------------------------------------------------------------
(* The loop thread *)

\* ioSubmit, from the loop or from a callback or its continuation.  A request that the kernel
\* refuses stays in inflight_: the result of io_submit is not looked at.
ioSubmit(io) ==
  /\ pc \in {"loop", "callback", "then"}
  /\ promise[io] = "none"
  /\ inflight' = Append(inflight, io)
  /\ promise' = [promise EXCEPT ![io] = "pending"]
  /\ running' = IF Admitted < Capacity THEN running \cup {io} ELSE running
  /\ UNCHANGED <<ring, unsignalled, eventfd, pc, nevents, events, aborted>>

\* The registration is persistent and level-triggered.
handlerReady ==
  /\ pc = "loop" /\ eventfd > 0
  /\ pc' = "read"
  /\ UNCHANGED <<inflight, promise, kernelVars, eventfd, nevents, events, aborted>>

\* Variant of ReadCount: one event per read, although the count is zeroed.
ReadCountOne ==
  /\ pc = "read"
  /\ IF eventfd > 0 THEN pc' = "take" /\ nevents' = 1
                    ELSE pc' = "loop" /\ UNCHANGED nevents
  /\ eventfd' = 0
  /\ UNCHANGED <<inflight, promise, kernelVars, events, aborted>>

\* eventfd_read: takes the count and zeroes it, or EAGAIN ends the loop.
ReadCount ==
  /\ pc = "read"
  /\ IF eventfd > 0 THEN pc' = "take" /\ nevents' = eventfd
                    ELSE pc' = "loop" /\ UNCHANGED nevents
  /\ eventfd' = 0
  /\ UNCHANGED <<inflight, promise, kernelVars, events, aborted>>

\* Variant of TakeEvents: as many as there are, and at least the count.
TakeAllEvents ==
  /\ pc = "take" /\ Len(ring) >= nevents
  /\ events' = ring
  /\ ring' = <<>>
  /\ pc' = "event"
  /\ UNCHANGED <<inflight, promise, running, unsignalled, eventfd, nevents, aborted>>

\* io_getevents with min_nr = nr = nevents: it waits for that many.
TakeEvents ==
  /\ pc = "take" /\ Len(ring) >= nevents
  /\ events' = SubSeq(ring, 1, nevents)
  /\ ring' = SubSeq(ring, nevents + 1, Len(ring))
  /\ pc' = "event"
  /\ UNCHANGED <<inflight, promise, running, unsignalled, eventfd, nevents, aborted>>

\* Variant of Removed: the last element is popped without the swap.
RemovedLast(i) == Front(inflight)

\* inflight_ without the element at i, whose place the last one takes.
Removed(i) == Front([inflight EXCEPT ![i] = Last(inflight)])

\* Variant of HandleEvent: the promise fulfilled is that of the last IO of
\* inflight_, whatever IO the event is about.
HandleEventOfLast ==
  /\ pc = "event" /\ events # <<>>
  /\ inflight # <<>> /\ inflight' = Front(inflight)
  /\ aborted' = (promise[Last(inflight)] # "pending")
  /\ promise' = [promise EXCEPT ![Last(inflight)] = "fulfilled"]
  /\ pc' = "callback"
  /\ UNCHANGED <<kernelVars, eventfd, nevents, events>>

\* One round of the for loop: finds the IO of the event, takes it out of
\* inflight_, and fulfils its promise, which starts its callback.  The asserts
\* are that the IO was found and that its promise is not fulfilled yet.
HandleEvent ==
  /\ pc = "event" /\ events # <<>>
  /\ LET io == Head(events)
         at == {i \in DOMAIN inflight : inflight[i] = io}
     IN /\ aborted' = ~(at # {} /\ promise[io] = "pending")
        /\ inflight' = IF at = {} THEN inflight ELSE Removed(Min(at))
        /\ promise' = [promise EXCEPT ![io] = "fulfilled"]
  /\ pc' = "callback"
  /\ UNCHANGED <<kernelVars, eventfd, nevents, events>>

\* The callback returns and its argument, the IO, is destroyed; what was
\* chained after it with then() runs next.
CallbackReturns ==
  /\ pc = "callback"
  /\ promise' = [promise EXCEPT ![Head(events)] = "none"]
  /\ pc' = "then"
  /\ UNCHANGED <<inflight, kernelVars, eventfd, nevents, events, aborted>>

ThenReturns ==
  /\ pc = "then"
  /\ events' = Tail(events)
  /\ pc' = "event"
  /\ UNCHANGED <<inflight, promise, kernelVars, eventfd, nevents, aborted>>

\* The batch is done: back to eventfd_read.
BatchDone ==
  /\ pc = "event" /\ events = <<>>
  /\ pc' = "read" /\ nevents' = 0
  /\ UNCHANGED <<inflight, promise, kernelVars, eventfd, events, aborted>>
-----------------------------------------------------------------------------
Kernel == KernelSignal \/ \E io \in IOs : KernelDone(io)

Loop == handlerReady \/ ReadCount \/ TakeEvents \/ HandleEvent
          \/ CallbackReturns \/ ThenReturns \/ BatchDone

Next == ~aborted /\ (Kernel \/ Loop \/ \E io \in IOs : ioSubmit(io))

\* The kernel finishes and signals every request it has admitted, and the loop
\* thread goes on when it can.  Nobody has to submit anything.
Fairness ==
  /\ \A io \in IOs : WF_vars(~aborted /\ KernelDone(io))
  /\ WF_vars(~aborted /\ KernelSignal)
  /\ WF_vars(~aborted /\ Loop)

Spec == Init /\ [][Next]_vars /\ Fairness
-----------------------------------------------------------------------------
(* Properties *)

TypeOK ==
  /\ inflight \in Seq(IOs) /\ ring \in Seq(IOs) /\ events \in Seq(IOs)
  /\ promise \in [IOs -> {"none", "pending", "fulfilled"}]
  /\ running \subseteq IOs /\ unsignalled \in Nat
  /\ eventfd \in Nat /\ nevents \in Nat
  /\ pc \in {"loop", "read", "take", "event", "callback", "then"}
  /\ aborted \in BOOLEAN

Pending == {io \in IOs : promise[io] = "pending"}

\* inflight_ holds every IO whose promise is open, once, and no other: neither
\* the swap with the last element nor a submission from inside a callback
\* loses or doubles one.  So the asserts of iosCompleted, setResult and
\* completePromise hold: an event finds its IO, with its promise still open.
InflightExact ==
  /\ TypeOK /\ ~aborted
  /\ Cardinality(ToSet(inflight)) = Len(inflight)
  /\ ToSet(inflight) = Pending

\* The eventfd never promises more events than the ring holds, so that
\* io_getevents, which the loop thread calls without a timeout, does not block
\* the loop, and takes exactly the events it was told of.
EventsCounted ==
  Len(ring) = eventfd + unsignalled + (IF pc = "take" THEN nevents ELSE 0)

\* An IO that the kernel admitted gets its callback.
AdmittedIOsComplete ==
  \A io \in IOs : io \in running ~> promise[io] = "fulfilled"

\* The events not yet delivered: the rest of the batch, then the ring.
Undelivered == (IF pc \in {"callback", "then"} THEN Tail(events) ELSE events) \o ring

\* The IOs whose callback runs, and those that nothing will complete.
Called == {io \in IOs : promise[io] = "fulfilled"}
Unserved == Pending \ (running \cup ToSet(Undelivered))

Promised == INSTANCE Futures WITH
  atwork <- running,
  done   <- Undelivered,
  called <- Called,
  lost   <- Unserved

\* Counter, batches, swaps and reused addresses put together deliver each
\* completion once, in order, to the IO it is of; and the only futures that
\* nothing will fulfil are those of submissions that found the context full,
\* whose refusal ioSubmit does not look at.
ImplementsFutures == Promised!Spec
=============================================================================
