SPECIFICATION FairSpec
CONSTANTS
  HEAP_SIZE = 12
  HDR = 2
  SLACK = 1
  WORD = 32
  Requests <- MCRequests
INVARIANTS
  IInv
PROPERTIES
  Placement
  AllocatorSpec
  WalkEnds
CHECK_DEADLOCK FALSE
