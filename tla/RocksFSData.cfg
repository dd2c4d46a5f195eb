SPECIFICATION SpecData
CONSTANTS
  Names = {a, b}
  MaxDepth = 1
  Keys = {k1, k2}
  MaxFd = 1
  NoKey = NoKey
  WritesMayFail = FALSE
  Restarts = TRUE
  BS = 2
  BlockBits = 3
  OffsetBits = 6
  LastBlock = 1
  Data = {x, y}
  Hole = Hole
INVARIANT ReadsReturnWritten
PROPERTY ImplementsFileStore
