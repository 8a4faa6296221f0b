CONSTANTS
  Levels = {0,1,3}
  HistSize = 3
  LookAhead = 1
  MaxStored = 5
  MapSize = 4
  MaxIn = 10
  Chunks = {0,1,3,9}
  Rooms = {0,1}
  Flushes <- MCFlushes
  DictSizes = {1,3}
  DictAfterFlush = FALSE
  FeedMidFlush = FALSE
  AllowReset = TRUE
SPECIFICATION Spec
INVARIANTS
  TypeOK
  MatchesInWindow
  InputInOrder
  WholeBlocks
  CallIsWhole
CHECK_DEADLOCK FALSE
