SPECIFICATION Spec
CONSTANTS
  IOs = {a, b, c, d}
  Capacity = 3
INVARIANTS InflightExact EventsCounted
PROPERTIES AdmittedIOsComplete ImplementsFutures
\* Nothing more may be submitted, or every address may be held by an IO that
\* the kernel refused.
CHECK_DEADLOCK FALSE
