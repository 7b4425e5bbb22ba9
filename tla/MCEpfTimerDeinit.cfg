SPECIFICATION EpfSpec
CONSTANTS
  TE = {t1, t2}
  NoTimer = NoTimer
  Root = Root
  MaxTick = 2
  Period = {0, 1}
  CallsPerTick = 2
  TickNs = 2
  Times = {1, 3}
  Periods = {0, 2}
INVARIANTS DeinitWaits
