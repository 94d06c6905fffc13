SPECIFICATION Spec
CONSTANTS
  NumDocs = 5
  SegmentEnd = 3
  BlockSize = 2
  SkipInterval = 2
  Query <- MCQuery
  Modes = {"ram", "disk", "fused", "fused_disk", "matches"}
CHECK_DEADLOCK FALSE
INVARIANTS ConjunctionExact CorruptionContained
