SPECIFICATION FairSpec
CONSTANTS
  AutoRow = auto
  ManualRows = {m1}
  NoRow = NoRow
  Worker = worker
  Calls = {c1, c2}
  MaxAttempts = 2
  MaxRecalcs = 1
  MaxStops = 1
CHECK_DEADLOCK FALSE
INVARIANTS
  RequestIsStored
  SuccessIsInSML
  OneActorPerAttempt
PROPERTIES
  AutoCancellationSettles
  SuccessIsRecalculated
