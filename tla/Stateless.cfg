SPECIFICATION MCSpec
CONSTANTS
  IntBits = 10
  SizeBits = 3
  Int64 <- MCInt64
  Requests <- MCRequests
  Versions = {2, 3}
  Makers <- MCMakers
  Codes = {0, 32, 118}
  Texts = {"", "text"}
  ControlLists <- Lists
  Attributes <- MCAttributes
  MaxAttributes = 3
  Authorities = {0, 1, 5, 255, 256, 4660, 65535}
  Subs = {0, 21, 256, 66051, 16909060}
  MaxOptions = 3
INVARIANTS
  RequestArrives
  ResponseArrives
  PanicsKnown
  SIDInverse
  DescribedDecodes
  LastOptionWins
  GroupNamesUsers
  ConnFits
