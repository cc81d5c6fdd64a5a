SPECIFICATION Spec
CONSTANTS
  Base = 4
  DefaultSize = 8
  HeapMax = 64
  Payload <- MCPayload
  MaxMsgs = 2
  SockBuf = 7
  ShortHeaderReads = TRUE
CHECK_DEADLOCK FALSE
INVARIANT
  FourLengthBytes
