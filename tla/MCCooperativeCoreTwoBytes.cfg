SPECIFICATION FairSpec
CONSTANTS
  Prio <- TwoBytes
  MaskLen = 2
  Capacity = 1
  MaxSegment = 1
PROPERTIES HighestFirst
