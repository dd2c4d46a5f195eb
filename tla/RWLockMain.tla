----------------------------- MODULE RWLockMain -----------------------------
(***************************************************************************)
(* The program of src/Threads/RWLock.cpp around its lock: main starts the  *)
(* reader and the writer threads, each takes and releases ds.lock          *)
(* `iterations' times, a writer increments ds.i inside; main joins them    *)
(* all and asserts the value of ds.i.                                      *)
(*                                                                         *)
(* ++ds.i is a read and a write (lines 149-153): nothing but the lock      *)
(* makes the two atomic.                                                   *)
(***************************************************************************)
EXTENDS Integers, FiniteSets

CONSTANTS
  Readers,      \* the threads that run ReaderFunc
  Writers,      \* the threads that run WriteFunc
  Iterations    \* argv[3]

ASSUME MainAssumption ==
  /\ IsFiniteSet(Readers) /\ IsFiniteSet(Writers)
  /\ Readers \cap Writers = {} /\ Readers \cup Writers # {}
  /\ Iterations \in Nat

VARIABLES
  lock_state, reader_pending, reader_acquired,
  writer_pending, writer_acquired, pc, aborted,   \* of ds.lock
  ds_i,     \* ds.i
  inc,      \* inc[w]: how far writer w's ++ds.i is
  copy,     \* copy[w]: the value of ds.i that ++ds.i of writer w has read
  left,     \* left[t]: the iterations thread t has still to begin
  joined    \* main has joined every thread and evaluated its assert

Threads == Readers \cup Writers

DsLock == INSTANCE RWLock

dataVars == <<ds_i, inc, copy>>

lockVars == <<lock_state, reader_pending, reader_acquired,
              writer_pending, writer_acquired, pc, aborted>>
vars == <<lockVars, dataVars, left, joined>>

Init ==
  /\ DsLock!Init
  /\ ds_i = 0
  /\ inc = [w \in Writers |-> "todo"]
  /\ copy = [w \in Writers |-> 0]
  /\ left = [t \in Threads |-> Iterations]
  /\ joined = FALSE
-----------------------------------------------------------------------------
\* The thread's next iteration: its call of ReadLock or WriteLock.
Begin(t) ==
  /\ left[t] > 0
  /\ \/ t \in Readers /\ DsLock!ReadLock(t, TRUE)
     \/ t \in Writers /\ DsLock!WriteLock(t, TRUE)
  /\ left' = [left EXCEPT ![t] = @ - 1]
  /\ UNCHANGED <<dataVars, joined>>

\* A sleeping call of ReadLock or WriteLock goes on once it is woken.
Resume(t) ==
  /\ DsLock!ResumeRead(t) \/ DsLock!ResumeWrite(t)
  /\ UNCHANGED <<dataVars, left, joined>>

\* Variant of ReadData: the value is read before the lock is taken.
ReadDataOutside(t) ==
  /\ t \in Writers /\ pc[t] = "out" /\ left[t] > 0 /\ inc[t] = "todo"
  /\ copy' = [copy EXCEPT ![t] = ds_i]
  /\ inc' = [inc EXCEPT ![t] = "read"]
  /\ UNCHANGED <<lockVars, ds_i, left, joined>>

\* ++ds.i, its read and its write.
ReadData(t) ==
  /\ t \in Writers /\ pc[t] = "writing" /\ inc[t] = "todo"
  /\ copy' = [copy EXCEPT ![t] = ds_i]
  /\ inc' = [inc EXCEPT ![t] = "read"]
  /\ UNCHANGED <<lockVars, ds_i, left, joined>>

WriteData(t) ==
  /\ t \in Writers /\ pc[t] = "writing" /\ inc[t] = "read"
  /\ ds_i' = copy[t] + 1
  /\ inc' = [inc EXCEPT ![t] = "done"]
  /\ UNCHANGED <<lockVars, copy, left, joined>>

\* ds.lock.Unlock(), after the yield of a reader or the ++ds.i of a writer.
End(t) ==
  /\ DsLock!Unlock(t)
  /\ \/ t \in Readers /\ UNCHANGED inc
     \/ /\ t \in Writers /\ inc[t] = "done"
        /\ inc' = [inc EXCEPT ![t] = "todo"]
  /\ UNCHANGED <<ds_i, copy, left, joined>>

SpuriousWakeup(t) ==
  /\ DsLock!SpuriousWakeup(t)
  /\ UNCHANGED <<dataVars, left, joined>>

Finished(t) == left[t] = 0 /\ pc[t] = "out"

\* main: join returns for a thread that has finished; the assert comes after
\* the last one.
Join ==
  /\ ~joined /\ \A t \in Threads : Finished(t)
  /\ joined' = TRUE
  /\ aborted' = ~(ds_i = Iterations * Cardinality(Writers))
  /\ UNCHANGED <<lock_state, reader_pending, reader_acquired, writer_pending,
                 writer_acquired, pc, dataVars, left>>

\* What thread t's own code does next: its call is not asleep in a wait.
Run(t) == Begin(t) \/ Resume(t) \/ ReadData(t) \/ WriteData(t) \/ End(t)

Next ==
  /\ ~aborted
  /\ Join \/ \E t \in Threads : Run(t) \/ SpuriousWakeup(t)

\* The scheduler runs every thread that can run, and main; nothing is assumed
\* of spurious wakeups, nor of the order in which woken threads get mutex_.
Fairness ==
  /\ WF_vars(~aborted /\ Join)
  /\ \A t \in Threads : WF_vars(~aborted /\ Run(t))

Spec == Init /\ [][Next]_vars /\ Fairness
-----------------------------------------------------------------------------
(* Properties *)

\* Types of the program's variables; those of the lock are in RWLock.
TypeOK ==
  /\ DsLock!TypeOK
  /\ ds_i \in Nat
  /\ inc \in [Writers -> {"todo", "read", "done"}]
  /\ copy \in [Writers -> Nat]
  /\ left \in [Threads -> 0..Iterations]
  /\ joined \in BOOLEAN

\* ds.i is never behind or ahead of the increments that were completed: what
\* a writer copied is still current when it writes (line 151), and the
\* asserts, that of main included (line 184), hold.
NoUpdateLost ==
  /\ TypeOK
  /\ \A w \in Writers : inc[w] = "read" => copy[w] = ds_i
  /\ ~aborted

\* The program ends: every thread gets the lock as often as it asks, no
\* sleeper is forgotten, and main passes its joins.
Termination == <>joined
=============================================================================
