SPECIFICATION PoolsSpec
CONSTANTS
  PtrSize = 4
  MaxPool = 1
  SizeMod = 256
  BlockCntMod = 256
  Request <- LargeRequests
  EventSize = {1}
  NoBlock = NoBlock
  Data = Data
INVARIANTS InitEnds
