CONSTANTS
  MAX_JOBQUEUE = 4
  w1 = w1
  w2 = w2
  main = main
  Workers <- MCTwoWorkers
  Main <- main
  NumFiles = 2
  MaxBlocks = 4
  CheckResults <- MCChecksFailing
  ReorderStores = FALSE
  Lists <- MCFiles
  InBuf = 3
  OutBuf = 2
  CloseFails = FALSE
SPECIFICATION MainSpec
INVARIANTS
  JobsOwnedOnce
  SuccessIsComplete
  SuccessIsWhole
PROPERTIES
  BusyInputKept
  FilesWrittenInOrder
  PoolEnds
  FilesEnd
