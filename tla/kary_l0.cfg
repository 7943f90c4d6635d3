\* No inner layers: find_inner_layers returns (0, size_), one past the end,
\* and find is a binary search over the whole snapshot.  reorganize fails its
\* ASSERT (k^L - 1 = 0 < size_) only on the empty store; four inserts of
\* three keys give duplicates and absent keys at both ends of the range.
CONSTANTS
  K = 2
  L = 0
  NumKeys = 3
  MaxInserts = 4
  Uninit = Uninit
  Undefined = Undefined
SPECIFICATION Spec
INVARIANTS FindComplete FindInBounds
CHECK_DEADLOCK FALSE
