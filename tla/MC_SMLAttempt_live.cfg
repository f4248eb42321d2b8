SPECIFICATION FairSpec
CONSTANTS
  Bills = {b1}
  NoBill = NoBill
  Calls = {c1, c2}
  NoCall = NoCall
  MaxRev = 2
  NoDoc = NoDoc
  ForeignDoc = ForeignDoc
  ShopeeRealtime = TRUE
  NameMapped = TRUE
  StalledSends = FALSE
CHECK_DEADLOCK FALSE
INVARIANTS
  OneImmutablePayload
PROPERTIES
  NoAttemptStaysBusy
  EveryCallReturns
