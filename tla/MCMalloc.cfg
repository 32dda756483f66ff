\* 5-bit size_t: 26 bytes are more than sbrk accepts, 30 overflow BLOCKCOUNT.
SPECIFICATION FairSpec
CONSTANTS
  Top = 7
  UnitSize = 2
  BRKSIZE = 3
  SIZE_MAX = 31
  INTPTR_MAX = 15
  Size = {0, 1, 2, 3, 26, 30}
INVARIANTS RingInOrder BlocksTileHeap RefusesOnlyInNeed
PROPERTY SearchEnds
CHECK_DEADLOCK FALSE
