\* Default shape of a run: init keys loaded, one inserter and one reader;
\* the first profile round may come before a worker has started.
CONSTANTS
  Inserters <- MCInserters
  Readers <- MCReaders
  Main = Main
  Garbage = Garbage
  InitKeys = 1
  MaxKey = 0
  Batch = 2
  Rounds = 1
  MaxOps = 2
SPECIFICATION Spec
INVARIANTS ProfileReadsInitialisedCounts
CHECK_DEADLOCK FALSE
