SPECIFICATION Spec
CONSTANTS
  MergeThreshold = 2
  KeepRecent = 1
  NoFile = NoFile
  MaxWrites = 4
  MaxSegments = 7
  MaxFailures = 0
  MaxCrashes = 2
PROPERTIES PendingReplayed
