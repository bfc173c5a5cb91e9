CONSTANTS
  NULL = NULL
  Keys = {1, 2, 3, 4, 5, 6, 7, 8, 9}
  MaxKey = 10
  Cleared = TRUE
  RemoveBound = 3
SPECIFICATION Spec
INVARIANTS
  Linked
  InOrder
  Balanced
PROPERTIES
  IsDictionary
