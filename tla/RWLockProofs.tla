---------------------------- MODULE RWLockProofs ----------------------------
(***************************************************************************)
(* Theorems about RWLock, for every finite set of threads.  The inductive  *)
(* invariant IInv is the conjunction of the invariants TLC checks: the     *)
(* counters have to be exact for the guards, which read them, to decide    *)
(* rightly, and no wakeup may be lost.                                     *)
(***************************************************************************)
EXTENDS RWLock, TLAPS, FiniteSetTheorems

IInv ==
  /\ TypeOK
  /\ CountersExact
  /\ Exclusion
  /\ StateMatchesHolders
  /\ NoLostWakeup
  /\ NoAssertFails
-----------------------------------------------------------------------------
\* Sets of threads are finite, so their cardinality is a natural number, and
\* zero just for the empty set.
LEMMA AtFinite ==
  ASSUME NEW S
  PROVE  /\ IsFiniteSet(At(S))
         /\ Cardinality(At(S)) \in Nat
         /\ Cardinality(At(S)) = 0 <=> At(S) = {}
<1>1. At(S) \subseteq Threads
  BY DEF At
<1>2. IsFiniteSet(At(S))
  BY <1>1, FS_Subset, ThreadsAssumption
<1> QED
  BY <1>2, FS_CardinalityType, FS_EmptySet

\* A step that only moves thread t to s moves t between the sets At(S).
LEMMA GotoAt ==
  ASSUME TypeOK, NEW t \in Threads, NEW s \in Where, Goto(t, s), NEW S
  PROVE  /\ s \in S /\ pc[t] \in S       => At(S)' = At(S)
         /\ s \in S /\ pc[t] \notin S    => At(S)' = At(S) \cup {t} /\ t \notin At(S)
         /\ s \notin S /\ pc[t] \in S    => At(S)' = At(S) \ {t} /\ t \in At(S)
         /\ s \notin S /\ pc[t] \notin S => At(S)' = At(S)
BY DEF TypeOK, Goto, At

\* ... and so changes their sizes by at most one.
LEMMA GotoCount ==
  ASSUME TypeOK, NEW t \in Threads, NEW s \in Where, Goto(t, s), NEW S
  PROVE  /\ s \in S /\ pc[t] \in S       => Cardinality(At(S)') = Cardinality(At(S))
         /\ s \in S /\ pc[t] \notin S    => Cardinality(At(S)') = Cardinality(At(S)) + 1
         /\ s \notin S /\ pc[t] \in S    => Cardinality(At(S)') = Cardinality(At(S)) - 1
         /\ s \notin S /\ pc[t] \notin S => Cardinality(At(S)') = Cardinality(At(S))
<1>1. CASE s \in S /\ pc[t] \notin S
  BY <1>1, GotoAt, AtFinite, FS_AddElement
<1>2. CASE s \notin S /\ pc[t] \in S
  BY <1>2, GotoAt, AtFinite, FS_RemoveElement
<1>3. CASE s \in S <=> pc[t] \in S
  <2>1. At(S)' = At(S)
    BY <1>3, GotoAt
  <2> QED
    BY <1>3, <2>1
<1> QED
  BY <1>1, <1>2, <1>3

-----------------------------------------------------------------------------
\* Taking the lock for reading, from a fresh call or from a resumed one.
LEMMA TakeReadInv ==
  ASSUME IInv, NEW t \in Threads, TakeRead(t), UNCHANGED writer_pending,
         lock_state = "kUnlocked" \/ ~ReaderMustWait,
         \/ pc[t] = "out" /\ reader_pending' = reader_pending
         \/ pc[t] = "wokenRead" /\ reader_pending' = reader_pending - 1
  PROVE  IInv'
<1> USE DEF IInv, TypeOK, LockType, Where
<1>1. lock_state \in {"kUnlocked", "kRead"} /\ ~writer_acquired
  BY DEF ReaderMustWait, CountersExact, StateMatchesHolders
<1>2. Goto(t, "reading") /\ lock_state' = "kRead" /\ ~aborted'
      /\ reader_acquired' = reader_acquired + 1 /\ ~writer_acquired'
  BY <1>1 DEF TakeRead, Asserted
<1>3. CountersExact'
  <2>1. reader_acquired' = Cardinality(At({"reading"})')
    BY <1>2, GotoCount DEF CountersExact
  <2>2. reader_pending' = Cardinality(At({"asleepRead", "wokenRead"})')
    BY <1>2, GotoCount DEF CountersExact
  <2>3. writer_pending' = Cardinality(At({"asleepWrite", "wokenWrite"})')
    BY <1>2, GotoCount DEF CountersExact
  <2>4. At({"writing"})' = {}
    BY <1>1, <1>2, GotoAt DEF CountersExact
  <2> QED
    BY <1>2, <2>1, <2>2, <2>3, <2>4 DEF CountersExact
<1>4. TypeOK'
  <2>1. pc[t] = "wokenRead" => At({"asleepRead", "wokenRead"}) # {}
    BY DEF At
  <2>2. reader_pending' \in Nat
    BY <2>1, AtFinite DEF CountersExact
  <2>3. pc' \in [Threads -> Where]
    BY <1>2 DEF Goto
  <2>4. aborted' \in BOOLEAN /\ writer_acquired' \in BOOLEAN
    BY DEF TakeRead, Asserted
  <2> QED
    BY <1>2, <2>2, <2>3, <2>4
<1>5. Exclusion'
  BY <1>1, <1>2 DEF Exclusion, Goto, CountersExact, At
<1>6. StateMatchesHolders'
  <2>1. At({"reading"})' # {} /\ At({"writing"})' = {}
    BY <1>1, <1>2, GotoAt DEF CountersExact
  <2> QED
    BY <1>2, <2>1 DEF StateMatchesHolders
<1>7. NoLostWakeup'
  <2>1. At({"asleepRead"})' = At({"asleepRead"})
    BY <1>2, GotoAt
  <2> QED
    BY <1>2, <2>1 DEF NoLostWakeup, ReaderMustWait
<1> QED
  BY <1>2, <1>3, <1>4, <1>5, <1>6, <1>7 DEF NoAssertFails

\* Taking the lock for writing, from a fresh call or from a resumed one.
LEMMA TakeWriteInv ==
  ASSUME IInv, NEW t \in Threads, TakeWrite(t), UNCHANGED reader_pending,
         lock_state = "kUnlocked",
         \/ pc[t] = "out" /\ writer_pending' = writer_pending
         \/ pc[t] = "wokenWrite" /\ writer_pending' = writer_pending - 1
  PROVE  IInv'
<1> USE DEF IInv, TypeOK, LockType, Where
<1>1. ~writer_acquired /\ At({"reading"}) = {} /\ At({"writing"}) = {}
  BY DEF CountersExact, StateMatchesHolders
<1>2. Goto(t, "writing") /\ lock_state' = "kWrite" /\ ~aborted'
      /\ reader_acquired' = reader_acquired /\ writer_acquired'
  BY <1>1 DEF TakeWrite, Asserted
<1>3. At({"reading"})' = {} /\ At({"writing"})' = {t}
  BY <1>1, <1>2, GotoAt
<1>4. CountersExact'
  <2>1. reader_acquired' = Cardinality(At({"reading"})')
    BY <1>2, GotoCount DEF CountersExact
  <2>2. reader_pending' = Cardinality(At({"asleepRead", "wokenRead"})')
    BY <1>2, GotoCount DEF CountersExact
  <2>3. writer_pending' = Cardinality(At({"asleepWrite", "wokenWrite"})')
    BY <1>2, GotoCount DEF CountersExact
  <2> QED
    BY <1>2, <1>3, <2>1, <2>2, <2>3 DEF CountersExact
<1>5. TypeOK'
  <2>1. pc[t] = "wokenWrite" => At({"asleepWrite", "wokenWrite"}) # {}
    BY DEF At
  <2>2. writer_pending' \in Nat
    BY <2>1, AtFinite DEF CountersExact
  <2>3. pc' \in [Threads -> Where]
    BY <1>2 DEF Goto
  <2>4. aborted' \in BOOLEAN /\ writer_acquired' \in BOOLEAN
    BY DEF TakeWrite, Asserted
  <2> QED
    BY <1>2, <2>2, <2>3, <2>4
<1>6. Exclusion'
  BY <1>3 DEF Exclusion, At
<1>7. StateMatchesHolders'
  BY <1>2, <1>3 DEF StateMatchesHolders
<1>8. NoLostWakeup'
  BY <1>2 DEF NoLostWakeup, ReaderMustWait
<1> QED
  BY <1>2, <1>4, <1>5, <1>6, <1>7, <1>8 DEF NoAssertFails

\* A thread falls asleep, for the first time or again, or wakes up.
LEMMA WaitInv ==
  ASSUME IInv, NEW t \in Threads, NEW s \in Where, Goto(t, s),
         <<pc[t], s>> \in {<<"out", "asleepRead">>, <<"wokenRead", "asleepRead">>,
                           <<"out", "asleepWrite">>, <<"wokenWrite", "asleepWrite">>,
                           <<"asleepRead", "wokenRead">>, <<"asleepWrite", "wokenWrite">>},
         reader_pending' = reader_pending + (IF pc[t] = "out" /\ s = "asleepRead" THEN 1 ELSE 0),
         writer_pending' = writer_pending + (IF pc[t] = "out" /\ s = "asleepWrite" THEN 1 ELSE 0),
         s = "asleepRead" => ReaderMustWait,
         s = "asleepWrite" => lock_state # "kUnlocked",
         UNCHANGED <<lock_state, reader_acquired, writer_acquired, aborted>>
  PROVE  IInv'
<1> USE DEF IInv, TypeOK, LockType, Where
<1>1. At({"reading"})' = At({"reading"}) /\ At({"writing"})' = At({"writing"})
  BY GotoAt
<1>2. CountersExact'
  <2>1. reader_pending' = Cardinality(At({"asleepRead", "wokenRead"})')
    BY GotoCount DEF CountersExact
  <2>2. writer_pending' = Cardinality(At({"asleepWrite", "wokenWrite"})')
    BY GotoCount DEF CountersExact
  <2> QED
    BY <1>1, <2>1, <2>2 DEF CountersExact
<1>3. TypeOK'
  BY DEF Goto
<1>4. Exclusion'
  BY DEF Exclusion, Goto
<1>5. StateMatchesHolders'
  BY <1>1 DEF StateMatchesHolders
<1>6. NoLostWakeup'
  <2>1. At({"asleepRead"})' # {} => ReaderMustWait
    BY GotoAt DEF NoLostWakeup
  <2>2. lock_state = "kUnlocked" /\ writer_pending > 0 => At({"wokenWrite"})' # {}
    BY GotoAt DEF NoLostWakeup
  <2>3. lock_state = "kUnlocked" /\ writer_pending' > 0 => writer_pending > 0
    BY DEF NoLostWakeup
  <2> QED
    BY <2>1, <2>2, <2>3 DEF NoLostWakeup, ReaderMustWait
<1> QED
  BY <1>2, <1>3, <1>4, <1>5, <1>6 DEF NoAssertFails

\* A release that frees the lock: the only holder t leaves and notifies.
LEMMA FreeInv ==
  ASSUME IInv, NEW t \in Threads, At({"reading", "writing"}) = {t}, Notify(t),
         lock_state' = "kUnlocked", reader_acquired' = 0, writer_acquired' = FALSE,
         aborted' = FALSE, UNCHANGED <<reader_pending, writer_pending>>
  PROVE  IInv'
<1> USE DEF IInv, TypeOK, LockType, Where
<1>1. pc' \in [Threads -> Where] /\ pc'[t] = "out"
  BY DEF Notify, Goto, At
<1>2. At({"reading"})' = {} /\ At({"writing"})' = {}
  BY DEF Notify, Goto, At
<1>3. /\ At({"asleepRead", "wokenRead"})' = At({"asleepRead", "wokenRead"})
      /\ At({"asleepWrite", "wokenWrite"})' = At({"asleepWrite", "wokenWrite"})
  BY DEF Notify, Goto, At
<1>4. CountersExact'
  BY <1>2, <1>3, FS_EmptySet DEF CountersExact
<1>5. Exclusion' /\ StateMatchesHolders'
  BY <1>2 DEF Exclusion, StateMatchesHolders, At
<1>6. At({"asleepRead"})' # {} => writer_pending > 0
  <2>1. CASE writer_pending = 0 /\ reader_pending > 0
    BY <2>1 DEF Notify, At
  <2>2. CASE writer_pending = 0 /\ reader_pending = 0
    <3>1. At({"asleepRead", "wokenRead"})' = {}
      BY <1>3, <2>2, AtFinite DEF CountersExact
    <3> QED
      BY <3>1 DEF At
  <2> QED
    BY <2>1, <2>2
<1>7. writer_pending > 0 => At({"wokenWrite"})' # {}
  <2>1. CASE writer_pending > 0 /\ At({"asleepWrite"}) # {}
    BY <2>1 DEF Notify, Goto, At
  <2>2. CASE writer_pending > 0 /\ At({"asleepWrite"}) = {}
    <3>1. At({"asleepWrite", "wokenWrite"}) # {}
      BY <2>2, AtFinite, FS_EmptySet DEF CountersExact
    <3> QED
      BY <3>1, <2>2 DEF Notify, Goto, At
  <2> QED
    BY <2>1, <2>2
<1> QED
  BY <1>1, <1>4, <1>5, <1>6, <1>7 DEF NoAssertFails, NoLostWakeup, ReaderMustWait

\* A holder's Unlock: one reader of several, the last reader, or the writer.
LEMMA UnlockInv ==
  ASSUME IInv, NEW t \in Threads, Unlock(t)
  PROVE  IInv'
<1> USE DEF IInv, TypeOK, LockType, Where
<1>1. /\ pc[t] = "reading" => lock_state = "kRead" /\ reader_acquired > 0
      /\ pc[t] = "writing" => /\ lock_state = "kWrite" /\ writer_acquired
                              /\ reader_acquired = 0
  <2>1. pc[t] = "reading" => At({"reading"}) # {}
    BY DEF At
  <2>2. pc[t] = "writing" => At({"writing"}) # {}
    BY DEF At
  <2> QED
    BY <2>1, <2>2, AtFinite DEF StateMatchesHolders, CountersExact
<1>2. pc[t] \in {"reading", "writing"} /\ UnlockAsserts /\ aborted' = FALSE
  BY <1>1 DEF Unlock, Asserted, UnlockAsserts
<1>3. CASE lock_state = "kRead" /\ reader_acquired # 1
  <2>1. /\ pc[t] = "reading" /\ Goto(t, "out")
        /\ reader_acquired' = reader_acquired - 1
        /\ UNCHANGED <<lock_state, reader_pending, writer_pending, writer_acquired>>
    BY <1>1, <1>2, <1>3 DEF Unlock, LastReader
  <2>2. At({"writing"})' = At({"writing"})
    BY <2>1, GotoAt
  <2>3. CountersExact'
    <3>1. reader_acquired' = Cardinality(At({"reading"})')
      BY <2>1, GotoCount DEF CountersExact
    <3>2. reader_pending' = Cardinality(At({"asleepRead", "wokenRead"})')
      BY <2>1, GotoCount DEF CountersExact
    <3>3. writer_pending' = Cardinality(At({"asleepWrite", "wokenWrite"})')
      BY <2>1, GotoCount DEF CountersExact
    <3> QED
      BY <2>1, <2>2, <3>1, <3>2, <3>3 DEF CountersExact
  <2>4. TypeOK'
    <3>1. reader_acquired' \in Nat
      BY <1>1, <1>3, <2>1
    <3>2. pc' \in [Threads -> Where]
      BY <2>1 DEF Goto
    <3> QED
      BY <1>2, <2>1, <3>1, <3>2
  <2>5. Exclusion'
    BY <2>1 DEF Exclusion, Goto
  <2>6. StateMatchesHolders'
    <3>1. At({"reading"})' # {}
      <4>1. reader_acquired' # 0
        BY <1>1, <1>2, <1>3, <2>1
      <4>2. reader_acquired' = Cardinality(At({"reading"})')
        BY <2>3 DEF CountersExact
      <4> QED
        BY <4>1, <4>2, FS_EmptySet
    <3> QED
      BY <1>3, <2>1, <2>2, <3>1 DEF StateMatchesHolders
  <2>7. NoLostWakeup'
    BY <1>3, <2>1, GotoAt DEF NoLostWakeup, ReaderMustWait
  <2> QED
    BY <1>2, <2>3, <2>4, <2>5, <2>6, <2>7 DEF NoAssertFails
<1>4. CASE lock_state = "kRead" /\ reader_acquired = 1
  <2>1. PICK u : At({"reading"}) = {u}
    BY <1>4, AtFinite, FS_Singleton DEF CountersExact
  <2>2. At({"writing"}) = {}
    BY <1>4 DEF StateMatchesHolders
  <2>3. At({"reading", "writing"}) = {t}
    BY <1>2, <2>1, <2>2 DEF At
  <2>4. writer_acquired = FALSE
    BY <2>2, Zenon DEF CountersExact
  <2>5. /\ Notify(t) /\ lock_state' = "kUnlocked" /\ reader_acquired' = 0
        /\ writer_acquired' = FALSE /\ UNCHANGED <<reader_pending, writer_pending>>
    BY <1>4, <2>4 DEF Unlock, LastReader
  <2> QED
    BY <1>2, <2>3, <2>5, FreeInv
<1>5. CASE lock_state # "kRead"
  <2>1. pc[t] = "writing" /\ reader_acquired = 0
    BY <1>1, <1>2, <1>5
  <2>2. At({"reading", "writing"}) = {t}
    BY <2>1 DEF Exclusion, At
  <2> QED
    BY <1>2, <1>5, <2>1, <2>2, FreeInv DEF Unlock, LastReader
<1> QED
  BY <1>3, <1>4, <1>5
-----------------------------------------------------------------------------
\* The initial state satisfies the invariant.
LEMMA InitInv == Init => IInv
<1> SUFFICES ASSUME Init PROVE IInv
  OBVIOUS
<1>1. \A S : "out" \notin S => At(S) = {}
  BY DEF Init, At
<1>2. CountersExact
  BY <1>1, FS_EmptySet DEF Init, CountersExact
<1>3. TypeOK
  BY DEF Init, TypeOK, LockType, Where
<1>4. Exclusion /\ StateMatchesHolders /\ NoLostWakeup
  BY <1>1 DEF Init, Exclusion, StateMatchesHolders, NoLostWakeup
<1> QED
  BY <1>2, <1>3, <1>4 DEF Init, IInv, NoAssertFails

\* Every step preserves it: one case per action.
LEMMA NextInv == IInv /\ [Next]_vars => IInv'
<1> SUFFICES ASSUME IInv, [Next]_vars PROVE IInv'
  OBVIOUS
<1>1. CASE UNCHANGED vars
  BY <1>1 DEF vars, IInv, TypeOK, CountersExact, Exclusion, StateMatchesHolders,
              NoLostWakeup, NoAssertFails, ReaderMustWait, At
<1>2. ASSUME NEW t \in Threads, NEW block \in BOOLEAN, ReadLock(t, block)
      PROVE  IInv'
  <2>1. CASE lock_state = "kUnlocked" \/ ~ReaderMustWait
    BY <1>2, <2>1, TakeReadInv DEF ReadLock
  <2>2. CASE lock_state # "kUnlocked" /\ ReaderMustWait /\ block
    BY <1>2, <2>2, WaitInv DEF ReadLock, Where, IInv, TypeOK
  <2>3. CASE lock_state # "kUnlocked" /\ ReaderMustWait /\ ~block
    BY <1>1, <1>2, <2>3 DEF ReadLock
  <2> QED
    BY <1>2, <2>1, <2>2, <2>3 DEF ReadLock
<1>3. ASSUME NEW t \in Threads, NEW block \in BOOLEAN, WriteLock(t, block)
      PROVE  IInv'
  <2>1. CASE lock_state = "kUnlocked"
    BY <1>3, <2>1, TakeWriteInv DEF WriteLock, WriterMustWait
  <2>2. CASE lock_state # "kUnlocked" /\ block
    BY <1>3, <2>2, WaitInv DEF WriteLock, WriterMustWait, Where, IInv, TypeOK
  <2> QED
    BY <1>1, <1>3, <2>1, <2>2 DEF WriteLock, WriterMustWait
<1>4. ASSUME NEW t \in Threads, ResumeRead(t)
      PROVE  IInv'
  <2>1. CASE ~ReaderMustWait
    BY <1>4, <2>1, TakeReadInv DEF ResumeRead
  <2>2. CASE ReaderMustWait
    BY <1>4, <2>2, WaitInv DEF ResumeRead, Where, IInv, TypeOK
  <2> QED
    BY <2>1, <2>2
<1>5. ASSUME NEW t \in Threads, ResumeWrite(t)
      PROVE  IInv'
  <2>1. CASE lock_state = "kUnlocked"
    BY <1>5, <2>1, TakeWriteInv DEF ResumeWrite, WriterMustWait
  <2>2. CASE lock_state # "kUnlocked"
    BY <1>5, <2>2, WaitInv DEF ResumeWrite, WriterMustWait, Where, IInv, TypeOK
  <2> QED
    BY <2>1, <2>2
<1>6. ASSUME NEW t \in Threads, SpuriousWakeup(t)
      PROVE  IInv'
  BY <1>6, WaitInv DEF SpuriousWakeup, Where, IInv, TypeOK
<1> QED
  BY <1>1, <1>2, <1>3, <1>4, <1>5, <1>6, UnlockInv DEF Next, Step

\* IInv holds in every reachable state.
THEOREM Invariance == Spec => []IInv
BY InitInv, NextInv, PTL DEF Spec

\* The counters the guards read count exactly the threads they stand for,
\* lock_state_ says who is inside, no counter goes below zero, and no assert of
\* the class can fail.
THEOREM StateIsExact == Spec => []StateExact
BY Invariance, PTL DEF IInv, StateExact

\* A writer is alone in its critical section, however many threads use the
\* lock and whatever wakeups are spurious.
THEOREM MutualExclusion == Spec => []Exclusion
BY Invariance, PTL DEF IInv

\* No reader or writer sleeps on a free lock with nobody awake to take it.
THEOREM WakeupsAreNotLost == Spec => []NoLostWakeup
BY Invariance, PTL DEF IInv

-----------------------------------------------------------------------------
\* While readers are inside and a writer is pending, no reader comes in.
THEOREM WritersAreNotOvertaken == Spec => WriterNotOvertaken
<1>1. ASSUME IInv, Next, lock_state = "kRead", writer_pending > 0
      PROVE  reader_acquired' <= reader_acquired
  <2> USE DEF IInv, TypeOK
  <2>1. ReaderMustWait
    BY <1>1 DEF ReaderMustWait
  <2>2. ASSUME NEW t \in Threads, Step(t)
        PROVE  UNCHANGED reader_acquired \/ reader_acquired' = reader_acquired - 1
                 \/ reader_acquired' = 0
    BY <1>1, <2>1, <2>2 DEF Step, ReadLock, WriteLock, ResumeRead, ResumeWrite, Unlock,
                            SpuriousWakeup, TakeWrite, vars
  <2> QED
    BY <1>1, <2>2 DEF Next
<1>2. IInv /\ [Next]_vars
        => [lock_state = "kRead" /\ writer_pending > 0 => reader_acquired' <= reader_acquired]_vars
  BY <1>1
<1> QED
  BY <1>2, Invariance, PTL DEF Spec, WriterNotOvertaken
-----------------------------------------------------------------------------
\* A step that only moves thread t moves it in the abstract lock.
LEMMA HeldAs ==
  ASSUME TypeOK, NEW t \in Threads, NEW s \in Where, Goto(t, s)
  PROVE  heldAs' = [heldAs EXCEPT ![t] = CASE s = "reading" -> "shared"
                                           [] s = "writing" -> "exclusive"
                                           [] OTHER         -> "none"]
BY DEF heldAs, TypeOK, Goto

\* Notify only lets t out: the threads it wakes held nothing and hold nothing.
LEMMA NotifyReleases ==
  ASSUME TypeOK, NEW t \in Threads, Notify(t)
  PROVE  heldAs' = [heldAs EXCEPT ![t] = "none"]
BY DEF heldAs, TypeOK, Notify, Goto, At

\* A step that takes no lock and releases none is a stutter.
LEMMA HoldsNothing ==
  ASSUME TypeOK, NEW t \in Threads, NEW s \in Where \ {"reading", "writing"},
         pc[t] \notin {"reading", "writing"}, Goto(t, s)
  PROVE  heldAs' = heldAs
BY DEF heldAs, TypeOK, Goto

\* Every step of the class is a step of the shared/exclusive lock, or none.
LEMMA StepSimulation == IInv /\ [Next]_vars => [Abstract!Next]_heldAs
<1> SUFFICES ASSUME IInv, [Next]_vars PROVE Abstract!Next \/ heldAs' = heldAs
  OBVIOUS
<1> USE DEF IInv
<1>1. UNCHANGED vars => heldAs' = heldAs
  BY DEF vars, heldAs
<1>2. ASSUME NEW t \in Threads, TakeRead(t), pc[t] \notin {"reading", "writing"},
             lock_state # "kWrite"
      PROVE  Abstract!AcquireShared(t)
  <2>1. heldAs' = [heldAs EXCEPT ![t] = "shared"]
    BY <1>2, HeldAs DEF TakeRead, Where
  <2>2. At({"writing"}) = {}
    BY <1>2 DEF StateMatchesHolders
  <2> QED
    BY <1>2, <2>1, <2>2 DEF Abstract!AcquireShared, Abstract!Holders, heldAs, At
<1>3. ASSUME NEW t \in Threads, TakeWrite(t), lock_state = "kUnlocked"
      PROVE  Abstract!AcquireExclusive(t)
  <2>1. heldAs' = [heldAs EXCEPT ![t] = "exclusive"]
    BY <1>3, HeldAs DEF TakeWrite, Where
  <2>2. At({"writing"}) = {} /\ At({"reading"}) = {}
    BY <1>3 DEF StateMatchesHolders
  <2> QED
    BY <2>1, <2>2 DEF Abstract!AcquireExclusive, heldAs, At
<1>4. ASSUME NEW t \in Threads, Unlock(t)
      PROVE  Abstract!Release(t)
  <2>1. heldAs' = [heldAs EXCEPT ![t] = "none"]
    BY <1>4, HeldAs, NotifyReleases DEF Unlock, Where
  <2> QED
    BY <1>4, <2>1 DEF Unlock, Abstract!Release, heldAs
<1>5. ASSUME NEW t \in Threads, NEW block \in BOOLEAN, ReadLock(t, block)
      PROVE  Abstract!AcquireShared(t) \/ heldAs' = heldAs
  BY <1>1, <1>2, <1>5, HoldsNothing DEF ReadLock, ReaderMustWait, Where
<1>6. ASSUME NEW t \in Threads, NEW block \in BOOLEAN, WriteLock(t, block)
      PROVE  Abstract!AcquireExclusive(t) \/ heldAs' = heldAs
  BY <1>1, <1>3, <1>6, HoldsNothing DEF WriteLock, WriterMustWait, Where
<1>7. ASSUME NEW t \in Threads, ResumeRead(t) \/ ResumeWrite(t) \/ SpuriousWakeup(t)
      PROVE  Abstract!AcquireShared(t) \/ Abstract!AcquireExclusive(t) \/ heldAs' = heldAs
  BY <1>2, <1>3, <1>7, HoldsNothing
     DEF ResumeRead, ResumeWrite, SpuriousWakeup, ReaderMustWait,
         WriterMustWait, Where
<1> QED
  BY <1>1, <1>4, <1>5, <1>6, <1>7 DEF Next, Step, Abstract!Next

\* The class implements the shared/exclusive lock.
THEOREM Refinement == Spec => ImplementsSharedExclusive
<1>1. Init => Abstract!Init
  BY DEF Init, Abstract!Init, heldAs
<1> QED
  BY <1>1, StepSimulation, Invariance, PTL DEF Spec, ImplementsSharedExclusive, Abstract!Spec
=============================================================================
