SPECIFICATION Spec
CONSTANTS
  Names = {a, b}
  MaxDepth = 2
  Keys = {k1, k2}
  MaxFd = 1
  NoKey = NoKey
  WritesMayFail = TRUE
  Restarts = TRUE
INVARIANT LazyUnlinkFindsMark
