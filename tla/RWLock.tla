------------------------------- MODULE RWLock -------------------------------
(***************************************************************************)
(* The reader-writer lock of src/Threads/RWLock.cpp, class RWLock.         *)
(*                                                                         *)
(* Every member function runs with mutex_ held from its first line to its  *)
(* return, except inside condition_variable::wait, which releases it.  So  *)
(* a call is one atomic step, or two when it sleeps: the part up to wait   *)
(* and the part from the re-acquisition of mutex_ on.  pc[t] says where    *)
(* thread t stands; "asleep" threads are in the wait set of a condition    *)
(* variable, "woken" ones have left it and compete for mutex_.             *)
(*                                                                         *)
(* The users are the most general ones that follow the protocol: a thread  *)
(* asks for the lock only when it does not hold it and unlocks only what   *)
(* it holds (the code does not check either).                              *)
(***************************************************************************)
EXTENDS Integers, FiniteSets

CONSTANT Threads

ASSUME ThreadsAssumption == IsFiniteSet(Threads) /\ Threads # {}

VARIABLES
  lock_state,         \* lock_state_
  reader_pending,     \* reader_.pending_
  reader_acquired,    \* reader_.acquired_
  writer_pending,     \* writer_.pending_
  writer_acquired,    \* writer_.acquired_
  pc,                 \* where each thread stands with respect to the lock
  aborted             \* an assert failed: the process is gone

vars == <<lock_state, reader_pending, reader_acquired,
          writer_pending, writer_acquired, pc, aborted>>
-----------------------------------------------------------------------------
LockType == {"kUnlocked", "kRead", "kWrite"}

Where == {"out", "asleepRead", "wokenRead", "reading",
                 "asleepWrite", "wokenWrite", "writing"}

At(s) == {t \in Threads : pc[t] \in s}

Goto(t, s) == pc' = [pc EXCEPT ![t] = s]

Init ==
  /\ lock_state = "kUnlocked"
  /\ reader_pending = 0 /\ reader_acquired = 0
  /\ writer_pending = 0 /\ writer_acquired = FALSE
  /\ pc = [t \in Threads |-> "out"]
  /\ aborted = FALSE

\* assert(cond): a failed assert ends the process, so what the rest of the
\* step does to the other variables no longer matters.
Asserted(cond) == aborted' = ~cond
-----------------------------------------------------------------------------
\* Variants of ReaderMustWait: a reader looks at one of the two only.
ReaderIgnoresPending == lock_state = "kWrite"
ReaderIgnoresHolder == writer_pending > 0

\* The condition of the loop in ReadLock: a reader waits for a writer that
\* holds the lock and for one that is waiting.
ReaderMustWait == writer_pending > 0 \/ lock_state = "kWrite"

\* The tail of ReadLock: its two asserts, then the lock is taken.
TakeRead(t) ==
  /\ Asserted(lock_state \in {"kUnlocked", "kRead"} /\ ~writer_acquired)
  /\ lock_state' = "kRead"
  /\ reader_acquired' = reader_acquired + 1
  /\ Goto(t, "reading")
  /\ UNCHANGED writer_acquired

\* An unlocked lock is taken at once, also past writers that are waiting for
\* it.  TryReadLock (block = FALSE) returns false where ReadLock would sleep.
ReadLock(t, block) ==
  /\ pc[t] = "out"
  /\ \/ /\ lock_state = "kUnlocked" \/ ~ReaderMustWait
        /\ TakeRead(t)
        /\ UNCHANGED <<reader_pending, writer_pending>>
     \/ /\ lock_state # "kUnlocked" /\ ReaderMustWait /\ block
        /\ reader_pending' = reader_pending + 1
        /\ Goto(t, "asleepRead")
        /\ UNCHANGED <<lock_state, reader_acquired, writer_pending,
                       writer_acquired, aborted>>
     \/ /\ lock_state # "kUnlocked" /\ ReaderMustWait /\ ~block
        /\ UNCHANGED vars

\* Variant of ResumeRead: ++pending_ stands before the loop, --pending_ in it.
ResumeReadMiscounted(t) ==
  /\ pc[t] = "wokenRead"
  /\ UNCHANGED writer_pending
  /\ reader_pending' = reader_pending - 1
  /\ \/ ~ReaderMustWait /\ TakeRead(t)
     \/ /\ ReaderMustWait
        /\ Goto(t, "asleepRead")
        /\ UNCHANGED <<lock_state, reader_acquired, writer_acquired, aborted>>

\* A woken reader evaluates the loop condition again: it takes the lock, or
\* counts itself pending again and sleeps.
ResumeRead(t) ==
  /\ pc[t] = "wokenRead"
  /\ UNCHANGED writer_pending
  /\ \/ /\ ~ReaderMustWait
        /\ reader_pending' = reader_pending - 1
        /\ TakeRead(t)
     \/ /\ ReaderMustWait
        /\ Goto(t, "asleepRead")
        /\ UNCHANGED <<lock_state, reader_pending, reader_acquired,
                       writer_acquired, aborted>>
-----------------------------------------------------------------------------
\* The condition of the loop in WriteLock.
WriterMustWait == lock_state # "kUnlocked"

\* The tail of WriteLock: its assert, then the lock is taken.
TakeWrite(t) ==
  /\ Asserted(~writer_acquired /\ lock_state = "kUnlocked")
  /\ lock_state' = "kWrite"
  /\ writer_acquired' = TRUE
  /\ Goto(t, "writing")
  /\ UNCHANGED reader_acquired

WriteLock(t, block) ==
  /\ pc[t] = "out"
  /\ \/ /\ ~WriterMustWait
        /\ TakeWrite(t)
        /\ UNCHANGED <<reader_pending, writer_pending>>
     \/ /\ WriterMustWait /\ block
        /\ writer_pending' = writer_pending + 1
        /\ Goto(t, "asleepWrite")
        /\ UNCHANGED <<lock_state, reader_pending, reader_acquired,
                       writer_acquired, aborted>>
     \/ /\ WriterMustWait /\ ~block
        /\ UNCHANGED vars

\* A woken writer stays counted in writer_pending until it has the lock.
ResumeWrite(t) ==
  /\ pc[t] = "wokenWrite"
  /\ UNCHANGED reader_pending
  /\ \/ /\ ~WriterMustWait
        /\ writer_pending' = writer_pending - 1
        /\ TakeWrite(t)
     \/ /\ WriterMustWait
        /\ Goto(t, "asleepWrite")
        /\ UNCHANGED <<lock_state, reader_acquired, writer_pending,
                       writer_acquired, aborted>>
-----------------------------------------------------------------------------
\* Variant of Notify: a sleeping reader is woken with notify_one.
NotifyOneReader(t) ==
  LET s == IF writer_pending > 0 THEN "asleepWrite" ELSE "asleepRead" IN
  \/ /\ At({s}) = {}
     /\ Goto(t, "out")
  \/ \E u \in At({s}) :
       pc' = [pc EXCEPT ![t] = "out",
                        ![u] = IF s = "asleepWrite" THEN "wokenWrite" ELSE "wokenRead"]

\* Variant of Notify: the readers are forgotten.
NotifyWritersOnly(t) ==
  \/ /\ At({"asleepWrite"}) = {}
     /\ Goto(t, "out")
  \/ \E u \in At({"asleepWrite"}) : pc' = [pc EXCEPT ![t] = "out", ![u] = "wokenWrite"]

\* Who leaves a wait set when thread t has released the lock: one sleeping
\* writer when some writer is pending, every sleeping reader otherwise.  The
\* pending writers may all be awake already: then notify_one wakes nobody.
Notify(t) ==
  \/ /\ writer_pending > 0 /\ At({"asleepWrite"}) # {}
     /\ \E w \in At({"asleepWrite"}) :
          pc' = [pc EXCEPT ![t] = "out", ![w] = "wokenWrite"]
  \/ /\ writer_pending > 0 /\ At({"asleepWrite"}) = {}
     /\ Goto(t, "out")
  \/ /\ writer_pending = 0 /\ reader_pending > 0
     /\ pc' = [u \in Threads |-> CASE u = t                -> "out"
                                   [] pc[u] = "asleepRead" -> "wokenRead"
                                   [] OTHER                -> pc[u]]
  \/ /\ writer_pending = 0 /\ reader_pending = 0
     /\ Goto(t, "out")

\* The asserts of the three cases of the switch in Unlock.
UnlockAsserts ==
  \/ lock_state = "kRead" /\ reader_acquired > 0
  \/ lock_state = "kWrite" /\ writer_acquired /\ reader_acquired = 0

\* Variant of LastReader: any reader that leaves frees the lock.
AnyReader == reader_acquired > 0

LastReader == reader_acquired = 1

\* A reader that is not the last one leaves the lock held and returns; any
\* other release frees the lock and notifies.
Unlock(t) ==
  /\ pc[t] \in {"reading", "writing"}
  /\ Asserted(UnlockAsserts)
  /\ UNCHANGED <<reader_pending, writer_pending>>
  /\ \/ /\ lock_state = "kRead" /\ ~LastReader
        /\ reader_acquired' = reader_acquired - 1
        /\ Goto(t, "out")
        /\ UNCHANGED <<lock_state, writer_acquired>>
     \/ /\ lock_state = "kRead" /\ LastReader
        /\ reader_acquired' = reader_acquired - 1
        /\ lock_state' = "kUnlocked"
        /\ Notify(t)
        /\ UNCHANGED writer_acquired
     \/ /\ lock_state # "kRead"
        /\ writer_acquired' = FALSE
        /\ lock_state' = "kUnlocked"
        /\ Notify(t)
        /\ UNCHANGED reader_acquired

\* std::condition_variable::wait may return without a notification.
SpuriousWakeup(t) ==
  /\ \/ pc[t] = "asleepRead"  /\ Goto(t, "wokenRead")
     \/ pc[t] = "asleepWrite" /\ Goto(t, "wokenWrite")
  /\ UNCHANGED <<lock_state, reader_pending, reader_acquired,
                 writer_pending, writer_acquired, aborted>>
-----------------------------------------------------------------------------
Step(t) ==
  \/ \E block \in BOOLEAN : ReadLock(t, block) \/ WriteLock(t, block)
  \/ ResumeRead(t) \/ ResumeWrite(t) \/ Unlock(t) \/ SpuriousWakeup(t)

Next == ~aborted /\ \E t \in Threads : Step(t)

Spec == Init /\ [][Next]_vars
-----------------------------------------------------------------------------
(* Properties *)

\* Every variable has the type of its C++ member.
TypeOK ==
  /\ lock_state \in LockType
  /\ reader_pending \in Nat /\ reader_acquired \in Nat
  /\ writer_pending \in Nat /\ writer_acquired \in BOOLEAN
  /\ pc \in [Threads -> Where]
  /\ aborted \in BOOLEAN

\* The counters the decisions are taken on are exact at every release of
\* mutex_: a counter that drifts loses a wakeup or lets a writer in early.
CountersExact ==
  /\ reader_acquired = Cardinality(At({"reading"}))
  /\ reader_pending = Cardinality(At({"asleepRead", "wokenRead"}))
  /\ writer_pending = Cardinality(At({"asleepWrite", "wokenWrite"}))
  /\ writer_acquired <=> At({"writing"}) # {}

\* A thread in a writer's critical section is alone; readers share.
Exclusion ==
  \A t, u \in Threads : pc[t] = "writing" /\ t # u => pc[u] \notin {"reading", "writing"}

\* lock_state_ agrees with who is inside.
StateMatchesHolders ==
  /\ lock_state = "kRead"  <=> At({"reading"}) # {}
  /\ lock_state = "kWrite" <=> At({"writing"}) # {}

\* No wakeup is lost.  A reader sleeps only while a writer holds the lock or
\* is still to get it (and will wake the readers when it is through); and
\* when the lock is free and a writer is pending, some writer is awake.
\* Unlock wakes one writer and no reader (lines 56-60), so this rests on
\* what the woken writer, and anyone who barges in before it, does next.
NoLostWakeup ==
  /\ At({"asleepRead"}) # {} => ReaderMustWait
  /\ lock_state = "kUnlocked" /\ writer_pending > 0 => At({"wokenWrite"}) # {}

\* No assert of the class fails, in any interleaving (lines 36-46, 81-82, 105).
NoAssertFails == ~aborted

\* The object and the threads agree at every release of mutex_: the counters
\* count, lock_state_ says who is inside, and so every assert holds.
StateExact == TypeOK /\ CountersExact /\ StateMatchesHolders /\ NoAssertFails

\* A reader that joins others inside never overtakes a waiting writer: only
\* the step that takes a free lock may let a reader in past pending writers.
WriterNotOvertaken ==
  [][lock_state = "kRead" /\ writer_pending > 0 => reader_acquired' <= reader_acquired]_vars

\* How each thread holds the lock, for a user who sees no counter.
heldAs == [t \in Threads |-> CASE pc[t] = "reading" -> "shared"
                               [] pc[t] = "writing" -> "exclusive"
                               [] OTHER             -> "none"]

Abstract == INSTANCE SharedExclusiveLock WITH holds <- heldAs

\* Every behaviour of the class is one of the abstract lock: what the
\* counters and condition variables decide never breaks the promise.
ImplementsSharedExclusive == Abstract!Spec
=============================================================================
