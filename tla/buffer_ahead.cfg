CONSTANTS
  Levels = {3}
  HistSize = 3
  LookAhead = 1
  MaxStored = 5
  MapSize = 4
  MaxIn = 10
  Chunks = {0,1,3,9}
  Rooms = {1,5}
  Flushes <- MCFlushes
  DictSizes = {}
  DictAfterFlush = FALSE
  FeedMidFlush = FALSE
  AllowReset = FALSE
SPECIFICATION Spec
INVARIANT
  LookAheadThere
CHECK_DEADLOCK FALSE
