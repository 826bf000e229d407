SPECIFICATION FairSpec
CONSTANTS
  c1 = c1
  c2 = c2
  c3 = c3
  Clients = {c1, c2, c3}
  Interactive = {c1, c2}
  REQUESTS = 2
  BACKLOG = 0
  MAXPROC = 2
  MayQuit = TRUE
INVARIANTS
  Accounted
  ShownTruly
  AnnouncedTruly
PROPERTIES
  HandlerEnds
  AllServed
CHECK_DEADLOCK FALSE
