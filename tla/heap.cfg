SPECIFICATION Spec
CONSTANTS
  HeaderSize = 3
  ALIGN = 2
  HeapSize = 46
  Lengths = {1, 5, 9}
INVARIANTS
  TypeOK
  FreeListAscending
  UsedCoversLive
PROPERTY
  ServesRegions
