SPECIFICATION Spec
CONSTANTS
  TE = {t1, t2}
  NULL = NULL
  Root = Root
  MaxTick = 2
  Period = {0, 2}
  CallsPerTick = 2
PROPERTIES ExpiresInLaterTick
