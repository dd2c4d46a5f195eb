SPECIFICATION Spec
CONSTANTS
  Names = {a, b}
  MaxDepth = 2
  Keys = {k1, k2, k3}
  MaxFd = 1
  NoKey = NoKey
  WritesMayFail = TRUE
  Restarts = TRUE
INVARIANTS EntriesResolve OneLinkEach OpenFilesCounted
PROPERTIES DeletedRecordsGoWithLastClose ImplementsFileTree
