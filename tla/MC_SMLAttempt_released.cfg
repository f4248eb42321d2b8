SPECIFICATION Spec
CONSTANTS
  Bills = {b1}
  NoBill = NoBill
  Calls = {c1, c2}
  NoCall = NoCall
  MaxRev = 1
  NoDoc = NoDoc
  ForeignDoc = ForeignDoc
  ShopeeRealtime = FALSE
  NameMapped = FALSE
  StalledSends = FALSE
SYMMETRY Symmetry
CHECK_DEADLOCK FALSE
PROPERTIES
  ReleasedDemandNeverReachedSML
