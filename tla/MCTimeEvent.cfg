SPECIFICATION Spec
CONSTANTS
  TE = {t1, t2, t3}
  NULL = NULL
  Root = Root
  MaxTick = 2
  Period = {0, 2}
  CallsPerTick = 1
SYMMETRY Symmetry
INVARIANTS ListsSound TickExact OneLatePost
PROPERTIES TickAdvances
