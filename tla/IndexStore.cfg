SPECIFICATION Spec
CONSTANTS
  MergeThreshold = 2
  KeepRecent = 1
  NoFile = NoFile
  MaxWrites = 5
  MaxSegments = 12
  MaxFailures = 2
  MaxCrashes = 3
INVARIANTS FlushedExactlyOnce DiskSound
PROPERTIES SegmentsManaged
