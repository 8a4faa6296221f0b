CONSTANTS
  GzipFlags <- MCFormats
  HuffTables <- MCAllTables
  LitBits = {9}
  MatchBits = {46}
  MatchLen = 2
  LookAhead = 2
  OutSizes = {3,8,20}
  Flushes <- MCFlushes
  MaxIn = 4
  FeedMidFlush = FALSE
  AllowReset = TRUE
SPECIFICATION FairSpec
INVARIANTS
  NoOverrun
  OutputInOrder
  FlushGuarantee
PROPERTIES
  RightFormat
  FullFlushIndependent
  StreamEnds
