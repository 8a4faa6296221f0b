CONSTANTS
  Lists <- MCLists
  InBuf = 3
  OutBuf = 2
  CloseFails = TRUE
SPECIFICATION FilesSpec
INVARIANT
  RemovedAfterOutput
CHECK_DEADLOCK FALSE
