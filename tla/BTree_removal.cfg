CONSTANTS
  NULL = NULL
  Keys = {1, 2, 3, 4, 5, 6}
  MaxKey = 10
  Cleared = TRUE
  RemoveBound = 4
SPECIFICATION Spec
INVARIANTS
  InOrder
