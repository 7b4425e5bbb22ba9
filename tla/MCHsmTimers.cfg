SPECIFICATION AllSpec
CONSTANTS
  State = {s1, s2, s3, s4}
  Top = Top
  NULL = NULL
  MaxDepth = 4
  TE = {t1, t2}
  NoTimer = NoTimer
  Root = Root
  MaxTick = 2
  Period = {0, 1}
  CallsPerTick = 2
  TickNs = 2
  Times = {1, 3}
  Periods = {0, 2}
INVARIANTS HandlersInOrder PathAlwaysFound LateCallbacksOfOneWalk
PROPERTIES RunsToCompletion DeinitEndsTicker ArmedFires
