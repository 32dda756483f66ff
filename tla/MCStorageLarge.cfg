SPECIFICATION Spec
CONSTANTS
  NLISTS = 1
  Top = 8
  Size = {2, 4, 7}
  MaxSize = 16
  MaxCard = 63
  USED = 50
  MAGICC = 20
  Datum <- MCCleared
INVARIANT BlocksTileHeap
CHECK_DEADLOCK FALSE
