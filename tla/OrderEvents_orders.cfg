SPECIFICATION FairSpec
CONSTANTS
  Jobs = {j1}
  Workers = {w1, w2}
  Sync = sync
  NoJob = NoJob
  MaxAttempts = 2
  MaxStops = 1
CHECK_DEADLOCK FALSE

  
PROPERTIES
  
  SnapshotConverges
