CONSTANTS
  Headers <- MCHeaders
  HdrBase = 3
  MaxExtra = 2
  Rooms = {0, 8, 20}
  Chunks = {0, 1, 2, 5}
  BufLens <- MCBufLens
  DataLen = 2
  FreshHdr = TRUE
SPECIFICATION Spec
INVARIANT
  HeaderTakenWhole
