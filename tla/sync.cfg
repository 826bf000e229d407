SPECIFICATION FairSpec
CONSTANTS
  N = 3
  UINT_MAX = 3
  UserSignals <- StopOrKill
  ForkMayFail = TRUE
  SigchldIgnored = TRUE
INVARIANTS
  Exclusion
  NoLostWakeup
  SignalsReach
PROPERTIES
  MismatchOnlyAtWrap
  HandoffSpec
  PingPong
  WriterStops
CHECK_DEADLOCK FALSE
