SPECIFICATION FairSpec
CONSTANTS
  Frames = {1, 2, 3, 4}
  Killable = {"parent", "child"}
  Signals = {9}
  Garbage = {7, 1280}
INVARIANTS
  ReportsTrue
  Printed
  CodeIsTheChilds
PROPERTIES
  PrivateMemorySpec
  AllEnd
CHECK_DEADLOCK FALSE
