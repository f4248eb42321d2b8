SPECIFICATION FairSpec
CONSTANTS
  Events = {e1}
  Workers = {w1, w2, w3}
  NoEvent = NoEvent
  MaxJobs = 2
CHECK_DEADLOCK FALSE
INVARIANT
  DeliveredIsStored
PROPERTY
  OneJobPerEvent
