SPECIFICATION Spec
CONSTANTS
  Byte = 2
  Word = 4
  HistSize = 3
  LookAhead = 10
  MaxHdr = 5
  LenBytes = 2
  StoreSize = 4
  MaxCodeLen = 2
  MaxItems = 4
  Chunks = {1, 6}
  Rooms = {1, 4}
  Users = {"stream"}
  MovesBuffer = TRUE
  TrailerLen <- MCRaw
  DictSizes <- MCDictSizes
  Groups <- MCGroups
  Headers <- MCFewHeaders
  Matches <- MCMatches
INVARIANTS
  InputInBuffer
CHECK_DEADLOCK FALSE
