CONSTANTS
  WORD_BYTES = 2
  Jobs <- MCManySources
  Payload <- MCPayload
  MIN_LEN = 2
  VSX_CHUNK = 2
  VSX_MUL_CHUNK = 4
  VSX_MADS = 3
  StripeWords = {0, 32769, 65408}
  MaxVects = 6
  Errors = {1, 128, 255}
  Seeds = {0, 18, 255}
  CrcBytes = {0, 170, 255}
  AdlerBytes = {0, 7, 255}
  MaxText = 5
  Pieces = {0, 1, 2, 3, 5}
  ADLER_MOD = 263
  MAX_ADLER_BUF = 2
  MaxLength = 20
  FirstCalls <- MCFirst
  LaterCalls <- MCLater
  MaxBlocks = 2
  MaxCalls = 3
SPECIFICATION Spec
INVARIANT
  EncodedAsBase
CHECK_DEADLOCK FALSE
