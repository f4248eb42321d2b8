SPECIFICATION FairLedgerSpec
CONSTANTS
  Orders = {o1, o2}
  NoOrder = NoOrder
  Workers = {w1, w2}
  NoWorker = NoWorker
  MaxAttempts = 2
  MaxRevision = 1
INVARIANTS
  IncorporatedIsCounted
  AwaitingDemandHasOpenJob
PROPERTIES
  AwaitingDemandIsSettled
  DemandRunsItsCourse
CHECK_DEADLOCK FALSE
