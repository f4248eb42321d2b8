SPECIFICATION Spec
CONSTANTS
  Bills = {b1, b2}
  NoBill = NoBill
  Calls = {c1, c2}
  NoCall = NoCall
  MaxRev = 1
  NoDoc = NoDoc
  ForeignDoc = ForeignDoc
  ShopeeRealtime = TRUE
  NameMapped = FALSE
  StalledSends = FALSE
SYMMETRY Symmetry
CHECK_DEADLOCK FALSE
INVARIANTS
  SentIsStored
  AwaitingDemandHasJob
  DoneMeansSent
PROPERTY
  DemandRunsItsCourse
