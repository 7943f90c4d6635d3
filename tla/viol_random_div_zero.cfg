\* Sequential keys with init_key_count = 0 (-n 0, accepted by parse_args):
\* a reader may run before any inserter reserves a batch.
CONSTANTS
  Inserters <- MCInserters
  Readers <- MCReaders
  Main = Main
  Garbage = Garbage
  InitKeys = 0
  MaxKey = 0
  Batch = 2
  Rounds = 1
  MaxOps = 2
SPECIFICATION Spec
INVARIANTS RandomKeyDefined
CHECK_DEADLOCK FALSE
