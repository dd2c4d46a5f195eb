SPECIFICATION Spec
CONSTANTS
  Readers = {r1, r2}
  Writers = {w1, w2}
  Iterations = 2
INVARIANT NoUpdateLost
PROPERTY Termination
\* The program ends when main returns.
CHECK_DEADLOCK FALSE
