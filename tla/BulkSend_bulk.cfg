SPECIFICATION FairSpec
CONSTANTS
  Jobs = {j1, j2}
  Bills = {b1, b2}
  NoBill = NoBill
  MaxIncidents = 1
CHECK_DEADLOCK FALSE
INVARIANTS
  OneJobPerBill
  ReportIsTrue
PROPERTY
  BulkJobsEnd
