SPECIFICATION Spec
CONSTANTS
  State = {s1, s2, s3, s4}
  Top = Top
  NULL = NULL
  MaxDepth = 4
INVARIANTS KeepsCommonAncestors
