--------------------------- MODULE RWLockMainProofs ---------------------------
(***************************************************************************)
(* A theorem about RWLockMain, for every number of readers, of writers and *)
(* of iterations: no increment of ds.i is lost, and main's assert holds.   *)
(* What the lock keeps invariant is taken from RWLockProofs.               *)
(***************************************************************************)
EXTENDS RWLockMain, FiniteSetTheorems, TLAPS

LockProofs == INSTANCE RWLockProofs

\* A thread is only where the calls of its own function take it.
OwnCalls ==
  /\ \A r \in Readers : pc[r] \in {"out", "asleepRead", "wokenRead", "reading"}
  /\ \A w \in Writers : pc[w] \in {"out", "asleepWrite", "wokenWrite", "writing"}

\* Thread t has begun an iteration, and a writer has not yet written ds.i in it.
Busy(t) == pc[t] # "out"
Unwritten(w) == Busy(w) /\ inc[w] # "done"

\* ++ds.i is only under way in the critical section, and on the current value.
IncrementsInside ==
  \A w \in Writers : /\ inc[w] # "todo" => pc[w] = "writing"
                     /\ inc[w] = "read" => copy[w] = ds_i

IterationsCounted == \A t \in Threads : Busy(t) => left[t] < Iterations

\* The increments that writer w has still to complete.
Ahead(w) == left[w] + (IF Unwritten(w) THEN 1 ELSE 0)

\* Those that were completed, each as a writer and how many it had ahead.
Completed == {c \in Writers \X (1..Iterations) : c[2] > Ahead(c[1])}

IInv ==
  /\ LockProofs!IInv
  /\ TypeOK
  /\ OwnCalls /\ IncrementsInside /\ IterationsCounted
  /\ ds_i = Cardinality(Completed)
-----------------------------------------------------------------------------
(* The lock's operators are those of its proofs. *)

LEMMA LockAssumption == LockProofs!IsFiniteSet(Threads) /\ Threads # {}
<1>1. IsFiniteSet(Threads)
  BY MainAssumption, FS_Union DEF Threads
<1> QED
  BY <1>1, MainAssumption DEF LockProofs!IsFiniteSet, IsFiniteSet, Threads

LEMMA SameInit == DsLock!Init <=> LockProofs!Init
BY DEF DsLock!Init, LockProofs!Init

LEMMA SameTakes ==
  ASSUME NEW t \in Threads
  PROVE  /\ DsLock!ReadLock(t, TRUE) => LockProofs!ReadLock(t, TRUE)
         /\ DsLock!WriteLock(t, TRUE) => LockProofs!WriteLock(t, TRUE)
         /\ DsLock!ResumeRead(t) => LockProofs!ResumeRead(t)
         /\ DsLock!ResumeWrite(t) => LockProofs!ResumeWrite(t)
BY DEF DsLock!ReadLock, LockProofs!ReadLock, DsLock!WriteLock, LockProofs!WriteLock,
       DsLock!ResumeRead, LockProofs!ResumeRead, DsLock!ResumeWrite, LockProofs!ResumeWrite,
       DsLock!TakeRead, LockProofs!TakeRead, DsLock!TakeWrite, LockProofs!TakeWrite,
       DsLock!Goto, LockProofs!Goto, DsLock!Asserted, LockProofs!Asserted, DsLock!vars, LockProofs!vars,
       DsLock!ReaderMustWait, LockProofs!ReaderMustWait, DsLock!WriterMustWait, LockProofs!WriterMustWait

LEMMA SameReleases ==
  ASSUME NEW t \in Threads
  PROVE  /\ DsLock!Unlock(t) => LockProofs!Unlock(t)
         /\ DsLock!SpuriousWakeup(t) => LockProofs!SpuriousWakeup(t)
<1>1. \A S : DsLock!At(S) = LockProofs!At(S)
  BY DEF DsLock!At, LockProofs!At
<1>2. DsLock!Notify(t) => LockProofs!Notify(t)
  BY <1>1 DEF DsLock!Notify, LockProofs!Notify, DsLock!Goto, LockProofs!Goto
<1> QED
  BY <1>2 DEF DsLock!Unlock, LockProofs!Unlock, DsLock!UnlockAsserts, LockProofs!UnlockAsserts,
              DsLock!LastReader, LockProofs!LastReader, DsLock!Goto, LockProofs!Goto,
              DsLock!Asserted, LockProofs!Asserted,
              DsLock!SpuriousWakeup, LockProofs!SpuriousWakeup

\* A step of the lock keeps what RWLockProofs proves of it.
LEMMA LockInv ==
  ASSUME LockProofs!IInv, ~aborted, NEW t \in Threads,
         \/ DsLock!ReadLock(t, TRUE) \/ DsLock!WriteLock(t, TRUE)
         \/ DsLock!ResumeRead(t) \/ DsLock!ResumeWrite(t)
         \/ DsLock!Unlock(t) \/ DsLock!SpuriousWakeup(t)
  PROVE  LockProofs!IInv'
<1>1. LockProofs!Step(t)
  BY SameTakes, SameReleases DEF LockProofs!Step
<1>2. LockProofs!Next
  BY <1>1 DEF LockProofs!Next
<1> QED
  BY <1>2, LockProofs!NextInv, LockAssumption

LEMMA LockUnchanged ==
  ASSUME LockProofs!IInv, UNCHANGED lockVars
  PROVE  LockProofs!IInv'
BY LockProofs!NextInv, LockAssumption DEF lockVars, LockProofs!vars

\* What is used of it here: types, exclusion and the asserts.
LEMMA LockState ==
  ASSUME LockProofs!IInv
  PROVE  /\ DsLock!TypeOK /\ ~aborted
         /\ \A t, u \in Threads : pc[t] = "writing" /\ t # u => pc[u] # "writing"
BY DEF LockProofs!IInv, LockProofs!TypeOK, DsLock!TypeOK, LockProofs!NoAssertFails,
       LockProofs!Exclusion, LockProofs!LockType, DsLock!LockType, LockProofs!Where, DsLock!Where

LEMMA LockTypedAfter ==
  ASSUME LockProofs!IInv'
  PROVE  DsLock!TypeOK' /\ ~aborted'
BY DEF LockProofs!IInv, LockProofs!TypeOK, DsLock!TypeOK, LockProofs!NoAssertFails,
       LockProofs!LockType, DsLock!LockType, LockProofs!Where, DsLock!Where
-----------------------------------------------------------------------------
(* Where a step of the lock takes the threads *)

LEMMA TakesMove ==
  ASSUME DsLock!TypeOK, NEW t \in Threads
  PROVE  /\ DsLock!ReadLock(t, TRUE) =>
              pc[t] = "out" /\ \E s \in {"reading", "asleepRead"} : pc' = [pc EXCEPT ![t] = s]
         /\ DsLock!WriteLock(t, TRUE) =>
              pc[t] = "out" /\ \E s \in {"writing", "asleepWrite"} : pc' = [pc EXCEPT ![t] = s]
         /\ DsLock!ResumeRead(t) =>
              pc[t] = "wokenRead" /\ \E s \in {"reading", "asleepRead"} : pc' = [pc EXCEPT ![t] = s]
         /\ DsLock!ResumeWrite(t) =>
              pc[t] = "wokenWrite" /\ \E s \in {"writing", "asleepWrite"} : pc' = [pc EXCEPT ![t] = s]
BY DEF DsLock!ReadLock, DsLock!WriteLock, DsLock!ResumeRead, DsLock!ResumeWrite,
       DsLock!TakeRead, DsLock!TakeWrite, DsLock!Goto

LEMMA WakeupMoves ==
  ASSUME DsLock!TypeOK, NEW t \in Threads, DsLock!SpuriousWakeup(t)
  PROVE  \/ pc[t] = "asleepRead" /\ pc' = [pc EXCEPT ![t] = "wokenRead"]
         \/ pc[t] = "asleepWrite" /\ pc' = [pc EXCEPT ![t] = "wokenWrite"]
BY DEF DsLock!SpuriousWakeup, DsLock!Goto

\* Unlock wakes sleepers, and moves nobody else.
LEMMA UnlockMoves ==
  ASSUME DsLock!TypeOK, NEW t \in Threads, DsLock!Unlock(t)
  PROVE  /\ pc[t] \in {"reading", "writing"} /\ pc'[t] = "out"
         /\ \A u \in Threads \ {t} :
              \/ pc'[u] = pc[u]
              \/ pc[u] = "asleepRead" /\ pc'[u] = "wokenRead"
              \/ pc[u] = "asleepWrite" /\ pc'[u] = "wokenWrite"
<1>1. pc \in [Threads -> DsLock!Where]
  BY DEF DsLock!TypeOK
<1>2. CASE DsLock!Goto(t, "out")
  BY <1>1, <1>2 DEF DsLock!Unlock, DsLock!Goto
<1>3. CASE DsLock!Notify(t)
  BY <1>1, <1>3 DEF DsLock!Unlock, DsLock!Notify, DsLock!Goto, DsLock!At
<1> QED
  BY <1>2, <1>3 DEF DsLock!Unlock
-----------------------------------------------------------------------------
(* The steps *)

\* A step at which no writer completes an increment leaves ds.i alone.
LEMMA NothingCompleted ==
  ASSUME LockProofs!IInv', IInv, TypeOK', OwnCalls', IncrementsInside', IterationsCounted',
         ds_i' = ds_i, \A w \in Writers : Ahead(w)' = Ahead(w)
  PROVE  IInv'
<1>1. Completed' = Completed
  BY DEF Completed
<1> QED
  BY <1>1 DEF IInv

LEMMA BeginInv ==
  ASSUME IInv, NEW t \in Threads, Begin(t), LockProofs!IInv'
  PROVE  IInv'
<1> USE DEF IInv, TypeOK
<1>1. /\ left[t] > 0 /\ left' = [left EXCEPT ![t] = left[t] - 1]
      /\ ds_i' = ds_i /\ inc' = inc /\ copy' = copy /\ joined' = joined
  BY DEF Begin, dataVars
<1>2. /\ pc[t] = "out" /\ pc \in [Threads -> DsLock!Where]
      /\ \/ t \in Readers /\ \E s \in {"reading", "asleepRead"} : pc' = [pc EXCEPT ![t] = s]
         \/ t \in Writers /\ \E s \in {"writing", "asleepWrite"} : pc' = [pc EXCEPT ![t] = s]
  BY TakesMove DEF Begin, DsLock!TypeOK
<1>3. left[t] \in 0..Iterations /\ Iterations \in Nat
  BY MainAssumption
<1>4. TypeOK'
  BY <1>1, <1>3, LockTypedAfter
<1>5. Readers \subseteq Threads /\ Writers \subseteq Threads /\ Readers \cap Writers = {}
  BY MainAssumption DEF Threads
<1>6. OwnCalls'
  BY <1>2, <1>5 DEF OwnCalls
<1>7. IncrementsInside'
  BY <1>1, <1>2, <1>5 DEF IncrementsInside
<1>8. IterationsCounted'
  <2> SUFFICES ASSUME NEW u \in Threads, Busy(u)' PROVE left'[u] < Iterations
    BY DEF IterationsCounted
  <2>1. CASE u = t
    BY <1>1, <1>3, <2>1
  <2>2. CASE u # t
    <3>1. Busy(u) /\ left'[u] = left[u]
      BY <1>1, <1>2, <2>2 DEF Busy
    <3> QED
      BY <3>1 DEF IterationsCounted
  <2> QED
    BY <2>1, <2>2
<1>9. ASSUME NEW w \in Writers PROVE Ahead(w)' = Ahead(w)
  <2>1. CASE w = t
    <3>1. inc[w] = "todo"
      BY <1>2, <2>1 DEF IncrementsInside
    <3>2. ~Busy(w) /\ Busy(w)'
      BY <1>2, <2>1 DEF Busy
    <3>3. left'[w] = left[w] - 1
      BY <1>1, <2>1
    <3> QED
      BY <1>1, <1>3, <2>1, <3>1, <3>2, <3>3 DEF Ahead, Unwritten
  <2>2. CASE w # t
    BY <1>1, <1>2, <1>5, <2>2 DEF Ahead, Unwritten, Busy
  <2> QED
    BY <2>1, <2>2
<1> QED
  BY <1>1, <1>4, <1>6, <1>7, <1>8, <1>9, NothingCompleted

\* Steps of a sleeping call.
LEMMA SleeperInv ==
  ASSUME IInv, NEW t \in Threads, Resume(t) \/ SpuriousWakeup(t), LockProofs!IInv'
  PROVE  IInv'
<1> USE DEF IInv, TypeOK
<1>1. UNCHANGED <<ds_i, inc, copy, left, joined>>
  BY DEF Resume, SpuriousWakeup, dataVars
<1>2. /\ pc \in [Threads -> DsLock!Where]
      /\ \/ /\ pc[t] \in {"asleepRead", "wokenRead"}
            /\ \E s \in {"reading", "asleepRead", "wokenRead"} : pc' = [pc EXCEPT ![t] = s]
         \/ /\ pc[t] \in {"asleepWrite", "wokenWrite"}
            /\ \E s \in {"writing", "asleepWrite", "wokenWrite"} : pc' = [pc EXCEPT ![t] = s]
  BY TakesMove, WakeupMoves DEF Resume, SpuriousWakeup, DsLock!TypeOK
<1>3. TypeOK'
  BY <1>1, LockTypedAfter
<1>4. Readers \subseteq Threads /\ Writers \subseteq Threads
  BY DEF Threads
<1>5. OwnCalls'
  BY <1>2, <1>4 DEF OwnCalls
<1>6. IncrementsInside'
  BY <1>1, <1>2, <1>4 DEF IncrementsInside
<1>7. IterationsCounted'
  BY <1>1, <1>2 DEF IterationsCounted, Busy
<1>8. \A w \in Writers : Ahead(w)' = Ahead(w)
  BY <1>1, <1>2, <1>4 DEF Ahead, Unwritten, Busy
<1> QED
  BY <1>1, <1>3, <1>5, <1>6, <1>7, <1>8, NothingCompleted

LEMMA ReadDataInv ==
  ASSUME IInv, NEW t \in Threads, ReadData(t), LockProofs!IInv'
  PROVE  IInv'
<1> USE DEF IInv, TypeOK
<1>1. /\ t \in Writers /\ pc[t] = "writing" /\ inc[t] = "todo"
      /\ copy' = [copy EXCEPT ![t] = ds_i] /\ inc' = [inc EXCEPT ![t] = "read"]
      /\ UNCHANGED <<pc, ds_i, left, joined>>
  BY DEF ReadData, lockVars
<1>2. TypeOK'
  BY <1>1, LockTypedAfter
<1>3. OwnCalls' /\ IterationsCounted' /\ IncrementsInside'
  BY <1>1 DEF OwnCalls, IterationsCounted, IncrementsInside, Busy
<1>4. \A w \in Writers : Ahead(w)' = Ahead(w)
  BY <1>1 DEF Ahead, Unwritten, Busy
<1> QED
  BY <1>1, <1>2, <1>3, <1>4, NothingCompleted

\* The writer in the critical section is alone in having read ds.i, so what it
\* writes is one more, and what it completes was not completed before.
LEMMA WriteDataInv ==
  ASSUME IInv, NEW t \in Threads, WriteData(t), LockProofs!IInv'
  PROVE  IInv'
<1> USE DEF IInv, TypeOK
<1>1. /\ t \in Writers /\ pc[t] = "writing" /\ inc[t] = "read"
      /\ ds_i' = copy[t] + 1 /\ inc' = [inc EXCEPT ![t] = "done"]
      /\ UNCHANGED <<pc, copy, left, joined>>
  BY DEF WriteData, lockVars
<1>2. ds_i' = ds_i + 1
  BY <1>1 DEF IncrementsInside
<1>3. TypeOK'
  BY <1>1, <1>2, LockTypedAfter
<1>4. OwnCalls' /\ IterationsCounted'
  BY <1>1 DEF OwnCalls, IterationsCounted, Busy
<1>5. \A w \in Writers : w # t => inc[w] = "todo"
  BY <1>1, LockState DEF IncrementsInside, Threads
<1>6. IncrementsInside'
  BY <1>1, <1>5 DEF IncrementsInside
<1>7. left[t] \in 0..(Iterations - 1) /\ Iterations \in Nat
  BY <1>1, MainAssumption DEF IterationsCounted, Busy
<1>8. Ahead(t) = left[t] + 1 /\ Ahead(t)' = left[t]
  BY <1>1, <1>7 DEF Ahead, Unwritten, Busy
<1>9. \A w \in Writers : w # t => Ahead(w)' = Ahead(w)
  BY <1>1 DEF Ahead, Unwritten, Busy
<1>10. Completed' = Completed \cup {<<t, left[t] + 1>>} /\ <<t, left[t] + 1>> \notin Completed
  BY <1>1, <1>7, <1>8, <1>9 DEF Completed
<1>11. IsFiniteSet(Completed)
  <2>1. IsFiniteSet(1..Iterations) /\ IsFiniteSet(Writers)
    BY <1>7, FS_Interval, MainAssumption
  <2>2. IsFiniteSet(Writers \X (1..Iterations))
    BY <2>1, FS_Product
  <2> QED
    BY <2>2, FS_Subset DEF Completed
<1>12. ds_i' = Cardinality(Completed')
  BY <1>2, <1>10, <1>11, FS_AddElement
<1> QED
  BY <1>3, <1>4, <1>6, <1>12

LEMMA EndInv ==
  ASSUME IInv, NEW t \in Threads, End(t), LockProofs!IInv'
  PROVE  IInv'
<1> USE DEF IInv, TypeOK
<1>1. /\ pc[t] \in {"reading", "writing"} /\ pc'[t] = "out" /\ t \in Threads
      /\ \A u \in Threads \ {t} :
           \/ pc'[u] = pc[u]
           \/ pc[u] = "asleepRead" /\ pc'[u] = "wokenRead"
           \/ pc[u] = "asleepWrite" /\ pc'[u] = "wokenWrite"
  BY UnlockMoves DEF End
<1>2. /\ UNCHANGED <<ds_i, copy, left, joined>>
      /\ \/ t \in Readers /\ inc' = inc
         \/ t \in Writers /\ inc[t] = "done" /\ inc' = [inc EXCEPT ![t] = "todo"]
  BY DEF End
<1>3. Readers \subseteq Threads /\ Writers \subseteq Threads /\ Readers \cap Writers = {}
  BY MainAssumption DEF Threads
<1>4. TypeOK'
  BY <1>2, LockTypedAfter
<1>5. OwnCalls'
  BY <1>1, <1>3 DEF OwnCalls
<1>6. IncrementsInside'
  BY <1>1, <1>2, <1>3 DEF IncrementsInside
<1>7. IterationsCounted'
  BY <1>1, <1>2 DEF IterationsCounted, Busy
<1>8. \A w \in Writers : Ahead(w)' = Ahead(w)
  BY <1>1, <1>2, <1>3 DEF Ahead, Unwritten, Busy
<1> QED
  BY <1>2, <1>4, <1>5, <1>6, <1>7, <1>8, NothingCompleted

\* When all threads are through, every writer has completed all its
\* iterations: the assert of main holds.
LEMMA JoinAssert ==
  ASSUME IInv, \A t \in Threads : Finished(t)
  PROVE  ds_i = Iterations * Cardinality(Writers)
<1>1. \A w \in Writers : Ahead(w) = 0
  BY DEF Ahead, Unwritten, Busy, Finished, Threads
<1>2. Completed = Writers \X (1..Iterations)
  BY <1>1 DEF Completed
<1>3. Iterations \in Nat /\ IsFiniteSet(Writers) /\ Cardinality(Writers) \in Nat
  BY MainAssumption, FS_CardinalityType
<1>4. IsFiniteSet(1..Iterations) /\ Cardinality(1..Iterations) = Iterations
  BY <1>3, FS_Interval
<1>5. Cardinality(Completed) = Cardinality(Writers) * Iterations
  BY <1>2, <1>3, <1>4, FS_Product
<1>6. Cardinality(Writers) * Iterations = Iterations * Cardinality(Writers)
  BY <1>3
<1> QED
  BY <1>5, <1>6 DEF IInv

LEMMA StutterInv ==
  ASSUME IInv, UNCHANGED vars
  PROVE  IInv'
<1>1. LockProofs!IInv'
  BY LockUnchanged DEF vars, IInv
<1>2. UNCHANGED <<pc, ds_i, inc, copy, left, joined>>
  BY DEF vars, lockVars, dataVars
<1>3. TypeOK' /\ OwnCalls' /\ IncrementsInside' /\ IterationsCounted'
  BY <1>1, <1>2, LockTypedAfter
     DEF IInv, TypeOK, OwnCalls, IncrementsInside, IterationsCounted, Busy
<1>4. \A w \in Writers : Ahead(w)' = Ahead(w)
  BY <1>2 DEF Ahead, Unwritten, Busy
<1> QED
  BY <1>1, <1>2, <1>3, <1>4, NothingCompleted

LEMMA NextInv == IInv /\ [Next]_vars => IInv'
<1> SUFFICES ASSUME IInv, [Next]_vars PROVE IInv'
  OBVIOUS
<1>1. CASE UNCHANGED vars
  BY <1>1, StutterInv
<1>2. CASE Join
  <2>1. UNCHANGED <<lock_state, reader_pending, reader_acquired, writer_pending, writer_acquired,
                    pc, ds_i, inc, copy, left>> /\ joined' = TRUE
    BY <1>2 DEF Join, dataVars
  <2>2. aborted' = FALSE /\ aborted = FALSE
    BY <1>2, JoinAssert, LockState, LockTypedAfter DEF Join, IInv, DsLock!TypeOK
  <2>3. LockProofs!IInv'
    BY <2>1, <2>2, LockUnchanged DEF lockVars, IInv
  <2>4. TypeOK' /\ OwnCalls' /\ IncrementsInside' /\ IterationsCounted'
    BY <2>1, <2>3, LockTypedAfter
       DEF IInv, TypeOK, OwnCalls, IncrementsInside, IterationsCounted, Busy
  <2>5. \A w \in Writers : Ahead(w)' = Ahead(w)
    BY <2>1 DEF Ahead, Unwritten, Busy
  <2> QED
    BY <2>1, <2>3, <2>4, <2>5, NothingCompleted
<1>3. ASSUME NEW t \in Threads, ~aborted, Begin(t) PROVE IInv'
  <2>1. LockProofs!IInv'
    BY <1>3, LockInv DEF Begin, IInv
  <2> QED
    BY <1>3, <2>1, BeginInv
<1>4. ASSUME NEW t \in Threads, ~aborted, Resume(t) \/ SpuriousWakeup(t) PROVE IInv'
  <2>1. LockProofs!IInv'
    BY <1>4, LockInv DEF Resume, SpuriousWakeup, IInv
  <2> QED
    BY <1>4, <2>1, SleeperInv
<1>5. ASSUME NEW t \in Threads, ReadData(t) \/ WriteData(t) PROVE IInv'
  <2>1. LockProofs!IInv'
    BY <1>5, LockUnchanged DEF ReadData, WriteData, IInv
  <2> QED
    BY <1>5, <2>1, ReadDataInv, WriteDataInv
<1>6. ASSUME NEW t \in Threads, ~aborted, End(t) PROVE IInv'
  <2>1. LockProofs!IInv'
    BY <1>6, LockInv DEF End, IInv
  <2> QED
    BY <1>6, <2>1, EndInv
<1> QED
  BY <1>1, <1>2, <1>3, <1>4, <1>5, <1>6 DEF Next, Run

LEMMA InitInv == Init => IInv
<1> SUFFICES ASSUME Init PROVE IInv
  OBVIOUS
<1>1. LockProofs!IInv
  BY SameInit, LockProofs!InitInv, LockAssumption DEF Init
<1>2. TypeOK
  <2>1. Iterations \in 0..Iterations /\ 0 \in Nat
    BY MainAssumption
  <2>2. /\ inc \in [Writers -> {"todo", "read", "done"}] /\ copy \in [Writers -> Nat]
        /\ left \in [Threads -> 0..Iterations]
    BY <2>1 DEF Init
  <2> QED
    BY <1>1, <2>1, <2>2, LockState DEF Init, TypeOK
<1>3. \A t \in Threads : pc[t] = "out" /\ ~Busy(t) /\ left[t] = Iterations
  BY DEF Init, DsLock!Init, Busy
<1>4. OwnCalls /\ IncrementsInside /\ IterationsCounted
  BY <1>3 DEF Init, OwnCalls, IncrementsInside, IterationsCounted, Threads
<1>5. Completed = {}
  BY <1>3, MainAssumption DEF Completed, Ahead, Unwritten, Threads
<1> QED
  BY <1>1, <1>2, <1>4, <1>5, FS_EmptySet DEF Init, IInv

\* No increment is lost, however many threads there are and however they are
\* scheduled: what a writer has read is current when it writes, and no assert
\* fails, main's assert on the final value included.
THEOREM UpdatesAreNotLost == Spec => []NoUpdateLost
<1>1. IInv => NoUpdateLost
  BY LockState DEF IInv, NoUpdateLost, IncrementsInside
<1> QED
  BY <1>1, InitInv, NextInv, PTL DEF Spec
=============================================================================
