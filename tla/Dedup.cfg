SPECIFICATION Spec
CONSTANTS
  min_ = 2
  max_ = 3
  backup_divisor_ = 2
  HashBits = 3
  kThreads = 2
  kReadSize = 4
  DiskSizes = {4, 10, 12, 16}
  Align = 2
  Bytes = {0, 1, 3}
  Period = 5
  StatsEvery = 2
  LastRange = 5
  NoOne = NoOne
INVARIANTS TableExact ChunksBounded OnlyForcedCutsAreSkipped RegionsMeet FinalNumbersExact
PROPERTY Termination
\* The program ends.
CHECK_DEADLOCK FALSE
