SPECIFICATION FairSpec
CONSTANTS
  Killable = {"first", "second", "third"}
INVARIANTS
  EndsToldTruly
  Printed
PROPERTIES
  ZombieStays
  NobodyLeft
CHECK_DEADLOCK FALSE
