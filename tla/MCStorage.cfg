SPECIFICATION FairSpec
CONSTANTS
  NLISTS = 3
  Top = 7
  Size = {0, 2, 5, 8, 20}
  MaxSize = 16
  MaxCard = 63
  USED = 50
  MAGICC = 20
  Datum <- MCRoundAbout
INVARIANTS StaleAreaKnown BlocksTileHeap DataKeptByCalls AvailableHolds
PROPERTY ReOrganizeEnds
CHECK_DEADLOCK FALSE
