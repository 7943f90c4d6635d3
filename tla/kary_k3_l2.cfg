\* Fanout 3 with two inner layers: the smallest instance whose construction
\* recurses and whose nodes have a middle child.  k^L - 1 = 8 < size_ needs
\* nine tuples; three keys give duplicates, absent keys and pivot hits.
CONSTANTS
  K = 3
  L = 2
  NumKeys = 3
  MaxInserts = 9
  Uninit = Uninit
  Undefined = Undefined
SPECIFICATION Spec
INVARIANTS TypeOK FindComplete FindInBounds FindReadsWrittenSlots KeyRangeCoversSnapshot
\* A failed ASSERT ends the program and the destructor ends the object.
CHECK_DEADLOCK FALSE
