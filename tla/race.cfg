SPECIFICATION Spec
CONSTANTS
  N = 3
  UINT_MAX = 5
  MAXWRITES = 9
  Killable = {"writer", "reader"}
INVARIANTS
  Silence
PROPERTIES
  EqualMeansOvertaken
  ComplainsForEver
CHECK_DEADLOCK FALSE
