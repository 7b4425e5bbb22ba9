SPECIFICATION AllSpec
CONSTANTS
  Event = {e1, e2}
  NULL = NULL
  QLen = 3
  CntMod = 5
  Byte = {x, y}
  Sizes = {1, 2, 3}
  IndexMod = 6
  Unwritten = Unwritten
  Content = {x, y}
  Garbage = Garbage
  SlotCounts = {1, 2, 3}
  SlotSize = 2
  TxByte = {x, y}
  TxCapacity = 3
  Unsent = Unsent
  MaxWrite = 3
  MaxReceived = 3
  PtrSize = 2
  MaxPool = 2
  SizeMod = 256
  BlockCntMod = 256
  Request <- SmallRequests
  EventSize = {1, 3, 6}
  NoBlock = NoBlock
  Data = Data
  SubPrio = {1, 8}
  UserSignal = 4
  MaxSignal = 5
  SubsLen = 1
INVARIANTS RingConsistent FreeListSound EventFits SubscribersExact
PROPERTIES ImplementsStore ImplementsDeque ImplementsByteFifo ImplementsArrayFifo ImplementsStdout StdoutSent
