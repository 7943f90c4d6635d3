\* Sequential keys (max_key_count = 0): one inserter, one reader, batches
\* of 2 so that a thread uses up a batch and reserves another.
\* The program ends after the joins, hence no deadlock check.
CONSTANTS
  Inserters <- MCInserters
  Readers <- MCReaders
  Main = Main
  Garbage = Garbage
  InitKeys = 3
  MaxKey = 0
  Batch = 2
  Rounds = 1
  MaxOps = 3
SPECIFICATION Spec
INVARIANTS TypeOK InsertKeysUnique RandomKeyDefined
PROPERTIES WorkloadTerminates ImplementsBenchmarkDriver
CHECK_DEADLOCK FALSE
