SPECIFICATION NSpec
CONSTANTS
  Numbers <- FourNumbers
  COUNT = 4
  UINT_MAX = 2
  CAPACITY = 2
  OpenSets <- AnySet
  Killable = {"parent", "child"}
INVARIANTS
  Plumbing
  NumbersArrive
PROPERTIES
  StreamSpec
  BothEnd
CHECK_DEADLOCK FALSE
