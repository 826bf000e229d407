SPECIFICATION DemoSpec
CONSTANTS
  HEAP_SIZE = 1024
  HDR = 24
  SLACK = 16
  WORD <- MCWord
  Requests <- MCRequests
  Inputs <- MCInputs
INVARIANTS
  EndsAsRecorded
PROPERTIES
  DemoEnds
CHECK_DEADLOCK FALSE
