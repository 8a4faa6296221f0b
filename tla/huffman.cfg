CONSTANTS
  LITERALS = 2
  LenExtra <- MCLenExtra
  DIST_LEN = 4
  MAX_HUFF_TREE_DEPTH = 5
  LONG_BITS = 4
  SHORT_BITS = 2
  MaxDists = {2,4}
  MAX_HISTHEAP_SIZE = 6
  Freqs = {0,1,2,5}
  HistSizes = {2,4,6}
  Limits = {3,5}
  TheirLens = {0,1,2}
  ExtraBits <- MCExtraBits
SPECIFICATION Spec
INVARIANTS
  CodeIsRight
  CodeIsShort
  HeaderIsRight
  TablesAreRight
  RoundTrip
CHECK_DEADLOCK FALSE
