\* Fanout 2 with two inner layers (k^L - 1 = 3 < size_ from four tuples on).
CONSTANTS
  K = 2
  L = 2
  NumKeys = 3
  MaxInserts = 5
  Uninit = Uninit
  Undefined = Undefined
SPECIFICATION Spec
INVARIANTS FindInsertionOrder
CHECK_DEADLOCK FALSE
