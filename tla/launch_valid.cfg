\* Up to two options with values -1..2: no thread, one or several of each
\* kind, the default reader, -m below the default -n (the assert), and a
\* negative count of either kind or of -t, -m, -n.  Four spawn iterations
\* cover every thread count the non-negative values give.
CONSTANTS
  ArgVals <- MCAllArgVals
  MaxArgs = 2
  MaxSpawn = 4
SPECIFICATION Spec
INVARIANTS CountsSafeUnlessNegative
\* Every run of the program ends, or stops at the MaxSpawn bound.
CHECK_DEADLOCK FALSE
