----------------------------- MODULE AsyncIOMain -----------------------------
(***************************************************************************)
(* The program of src/AsyncIO/main.cpp on the engine of AsyncIO: main      *)
(* submits three writes and runs the loop; what is chained after the third *)
(* submits a fourth, whose callback ends the loop.                         *)
(*                                                                         *)
(* The third and the fourth write overlap in the file, so the order in     *)
(* which they run decides what the file holds.  Every write succeeds: the  *)
(* callbacks assert it.                                                    *)
(***************************************************************************)
EXTENDS AsyncIO

VARIABLES
  role,        \* role[a]: which of io1, ..., io4 was last at address a
  submitted,   \* how many of the four main has submitted
  stopping,    \* terminateLoopSoon was called
  exited       \* the loop has ended and main returns

programVars == <<role, submitted, stopping, exited>>
mainVars == <<vars, programVars>>

Roles == <<"io1", "io2", "io3", "io4">>

MainInit ==
  /\ Init
  /\ role = [a \in IOs |-> "none"]
  /\ submitted = 0 /\ stopping = FALSE /\ exited = FALSE
-----------------------------------------------------------------------------
SubmitNext(a) ==
  /\ ioSubmit(a)
  /\ submitted' = submitted + 1
  /\ role' = [role EXCEPT ![a] = Roles[submitted + 1]]
  /\ UNCHANGED <<stopping, exited>>

\* main, before it runs the loop.
SubmitFirst(a) == submitted < 3 /\ SubmitNext(a)

\* Variant of SubmitFourth: chained after the first write.
SubmitFourthEarly(a) ==
  /\ pc = "then" /\ role[Head(events)] = "io1" /\ submitted = 3
  /\ SubmitNext(a)

\* What is chained after the callback of the third write.
SubmitFourth(a) ==
  /\ pc = "then" /\ role[Head(events)] = "io3" /\ submitted = 3
  /\ SubmitNext(a)

\* The callbacks of the first three assert the result and are done.
MainCallbackReturns ==
  /\ CallbackReturns
  /\ stopping' = (stopping \/ role[Head(events)] = "io4")
  /\ UNCHANGED <<role, submitted, exited>>

MainThenReturns ==
  /\ ThenReturns
  /\ role[Head(events)] = "io3" => submitted = 4
  /\ UNCHANGED programVars

\* The loop, once main runs it.
MainLoop ==
  /\ submitted >= 3
  /\ \/ ~stopping /\ handlerReady
     \/ ReadCount \/ TakeEvents \/ HandleEvent \/ BatchDone
  /\ UNCHANGED programVars

\* loopForever returns after the pass in which terminateLoopSoon was called.
\* The destructors of main's locals drop the IOs that are still in flight.
Exit ==
  /\ stopping /\ pc = "loop" /\ ~exited
  /\ exited' = TRUE
  /\ UNCHANGED <<vars, role, submitted, stopping>>

MainKernel == Kernel /\ UNCHANGED programVars

Program ==
  \/ \E a \in IOs : SubmitFirst(a) \/ SubmitFourth(a)
  \/ MainCallbackReturns \/ MainThenReturns \/ MainLoop \/ Exit

MainNext == ~aborted /\ ~exited /\ (MainKernel \/ Program)

\* The thread of main runs, and the kernel completes what it admitted.
MainFairness ==
  /\ WF_mainVars(~aborted /\ ~exited /\ Program)
  /\ \A a \in IOs :
       WF_mainVars(~aborted /\ ~exited /\ KernelDone(a) /\ UNCHANGED programVars)
  /\ WF_mainVars(~aborted /\ ~exited /\ KernelSignal /\ UNCHANGED programVars)

MainSpec == MainInit /\ [][MainNext]_mainVars /\ MainFairness
-----------------------------------------------------------------------------
(* Properties *)

AddressOf(name) == {a \in IOs : role[a] = name}

\* The overlapping third and fourth writes are never at work at a time: once
\* the fourth is submitted the third is over, or destroyed, when the fourth has
\* been built at its address.
OverlappingWritesOrdered ==
  submitted = 4 => \A a \in AddressOf("io3") : promise[a] # "pending" /\ a \notin running

\* The chain of callbacks reaches terminateLoopSoon, and main returns.
Termination == <>exited
=============================================================================
