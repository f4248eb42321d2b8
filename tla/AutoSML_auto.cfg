SPECIFICATION FairSpec
CONSTANTS
  Orders = {o1, o2}
  MaxAttempts = 2
  MaxFailures = 2
  MaxRoutes = 1
  MaxIncidents = 1
CHECK_DEADLOCK FALSE
INVARIANTS
  ClosingStopsAllButOneSend
PROPERTIES
  EndedIsFinal
  JobsEnd
