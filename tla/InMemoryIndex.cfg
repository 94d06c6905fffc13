SPECIFICATION IxSpec
CONSTANTS
  Uid = {u1, u2, u3}
  Source = {s1, s2}
  None = None
  MaxDocs = 3
  DensifyBudget = 2
  NoLimit = NoLimit
  BlankSources = {}
  FlushBudgets = {1, NoLimit}
  MergeFanin = 2
  MergeMaxDocs = 2
  SizeRatio = 2
INVARIANTS SegmentsSound PostingsExact SearchesComplete
PROPERTIES MergesSound LockReleased
