SPECIFICATION SortSpec
CONSTANTS
  Values = {0, 1, 2}
  MAXN = 4
INVARIANTS
  SortedPermutation
  EndsAgree
CHECK_DEADLOCK FALSE
