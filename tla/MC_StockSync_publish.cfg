SPECIFICATION Spec
CONSTANTS
  Orders = {o1}
  NoOrder = NoOrder
  Workers = {w1}
  NoWorker = NoWorker
  MaxAttempts = 2
  MaxRevision = 2
  Runs = {r1, r2}
  NoRun = NoRun
  MaxWrites = 2
SYMMETRY Symmetry
INVARIANTS
  OneWriterPerShop
PROPERTIES
  WritesLeaveOutKnownDemand
  
CHECK_DEADLOCK FALSE
