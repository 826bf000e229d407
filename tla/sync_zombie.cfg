SPECIFICATION FairSpec
CONSTANTS
  N = 2
  UINT_MAX = 3
  UserSignals <- KillReader
  ForkMayFail = FALSE
  SigchldIgnored = FALSE
PROPERTIES
  WriterFollows
CHECK_DEADLOCK FALSE
