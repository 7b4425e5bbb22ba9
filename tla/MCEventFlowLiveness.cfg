SPECIFICATION FairSpec
CONSTANTS
  AO = {1, 2}
  Producer = {p}
  Mutable = {m1, m2}
  Static = {s}
  NULL = NULL
  QueueCap = 2
  DeferCap = 1
  MaxAO = 2
  AOCalls = {"defer", "flush"}
  ProducerCalls = {"new", "post", "publish"}
  Budget = 2
PROPERTIES QueuedIsDispatched EventuallyRecycled
