SPECIFICATION Spec
CONSTANTS
  Byte = 2
  Word = 4
  HistSize = 3
  LookAhead = 10
  MaxHdr = 5
  LenBytes = 2
  StoreSize = 4
  MaxCodeLen = 2
  MaxItems = 4
  Chunks = {1, 6}
  Rooms = {2, 4}
  Users = {"stream", "stateless"}
  MovesBuffer = FALSE
  TrailerLen <- MCTrailerLen
  DictSizes <- MCDictSizes
  Groups <- MCGroups
  Headers <- MCHeaders
  Matches <- MCMatches
INVARIANTS
  DecodesStream
  InputAccounted
  BuffersHold
PROPERTIES
  ReturnsForAReason
  StreamEnds
CHECK_DEADLOCK FALSE
