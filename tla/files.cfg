SPECIFICATION MCSpec
CONSTANTS
  Dirs <- AllDirs
  Cwd = "."
  Names = {"xy", "yx", "zz"}
  Inodes = {1, 2, 3, 4, 5, 6}
  RevDir <- RevDirs
  RevName <- RevNames
  MAXRUNS = 2
  Args <- SomeArgs
  Texts <- SomeTexts
  Modes <- SomeModes
  MAXCMDS = 1
INVARIANTS
  CopiesWell
  PalindromeLoses
  CatlinkIsCat
PROPERTIES
  RunEnds
CHECK_DEADLOCK FALSE
