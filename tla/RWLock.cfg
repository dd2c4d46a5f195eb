SPECIFICATION Spec
CONSTANT Threads = {t1, t2, t3, t4, t5}
INVARIANTS StateExact Exclusion NoLostWakeup
PROPERTIES WriterNotOvertaken ImplementsSharedExclusive
