\* Option values may be -1: -s 2 -r -1 gives thread_count_ = 1 with two
\* inserter threads started.
CONSTANTS
  ArgVals <- MCNegativeArgVals
  MaxArgs = 2
  MaxSpawn = 4
SPECIFICATION Spec
INVARIANTS CountsIndexInBounds
CHECK_DEADLOCK FALSE
