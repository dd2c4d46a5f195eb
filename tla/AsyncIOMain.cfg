SPECIFICATION MainSpec
CONSTANTS
  IOs = {a, b, c, d}
  Capacity = 32
INVARIANT OverlappingWritesOrdered
PROPERTY Termination
\* main returns.
CHECK_DEADLOCK FALSE
