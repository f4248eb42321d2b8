SPECIFICATION FairSpec
CONSTANTS
  Documents = {d}
  Cancellations = {c}
  NoDocument = NoDocument
  Workers = {w1, w2}
  NoWorker = NoWorker
  MaxAttempts = 2
  MaxRetries = 1
CHECK_DEADLOCK FALSE
INVARIANTS
  ProfileFollowsJob
  IncompleteProfileHasJob
PROPERTIES
  RepairIsFinal
  LiveClaimIsKept
  EveryRepairEnds
