------------------------- MODULE SharedExclusiveLock -------------------------
(***************************************************************************)
(* What the lock of src/Threads/RWLock.cpp promises its users, with no     *)
(* mutex, condition variable or counter: any number of threads may hold    *)
(* the lock shared, or one thread may hold it exclusively.  A thread that  *)
(* asks may be kept waiting; the promise says nothing about who is next.   *)
(***************************************************************************)
CONSTANT Threads

VARIABLE holds      \* holds[t]: how thread t holds the lock

Mode == {"none", "shared", "exclusive"}

Holders(m) == {t \in Threads : holds[t] = m}

Init == holds = [t \in Threads |-> "none"]

AcquireShared(t) ==
  /\ holds[t] = "none"
  /\ Holders("exclusive") = {}
  /\ holds' = [holds EXCEPT ![t] = "shared"]

AcquireExclusive(t) ==
  /\ \A u \in Threads : holds[u] = "none"
  /\ holds' = [holds EXCEPT ![t] = "exclusive"]

Release(t) ==
  /\ holds[t] # "none"
  /\ holds' = [holds EXCEPT ![t] = "none"]

Next == \E t \in Threads : AcquireShared(t) \/ AcquireExclusive(t) \/ Release(t)

Spec == Init /\ [][Next]_holds
=============================================================================
