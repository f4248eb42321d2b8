SPECIFICATION Spec
CONSTANTS
  Bills = {b1}
  NoBill = NoBill
  Calls = {c1, c2, c3}
  NoCall = NoCall
  MaxRev = 2
  NoDoc = NoDoc
  ForeignDoc = ForeignDoc
  ShopeeRealtime = FALSE
  NameMapped = FALSE
  StalledSends = TRUE
SYMMETRY Symmetry
CHECK_DEADLOCK FALSE
INVARIANTS
  
  OneCallRecordsTheSend
  SentReservationAwaitsRecalc
PROPERTIES
  SendsOnce
  SentIsFinal
