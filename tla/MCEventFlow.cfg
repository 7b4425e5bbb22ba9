SPECIFICATION Spec
CONSTANTS
  AO = {1, 2}
  Producer = {p}
  Mutable = {m1, m2}
  Static = {}
  NULL = NULL
  QueueCap = 2
  DeferCap = 2
  MaxAO = 2
  AOCalls = {"new", "post", "publish", "defer", "recall", "flush", "subscribe"}
  ProducerCalls = {"new", "post", "publish"}
  Budget = 1
SYMMETRY Symmetry
INVARIANTS RefCountExact NoUseAfterFree ReleaseIsLast NoLostWakeup NoInternalFailure
