SPECIFICATION FairSpec
CONSTANTS
  N = 2
  UINT_MAX = 3
  UserSignals <- CtrlC
  ForkMayFail = FALSE
  SigchldIgnored = FALSE
PROPERTIES
  StopEnds
CHECK_DEADLOCK FALSE
