SPECIFICATION AllSpec
CONSTANTS
  Prio <- SameByte
  MaskLen = 1
  Capacity = 2
  MaxSegment = 2
  AO = {a1, a2, a3}
  MainThread = MainThread
  NoOne = NoOne
INVARIANTS ReadyIsPending HandlersAfterStartup
PROPERTIES HighestFirst HighestServed StopReturns StopReturnsThreadsEnter
