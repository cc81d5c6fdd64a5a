SPECIFICATION FairSpec
CONSTANTS
  Base = 4
  DefaultSize = 8
  HeapMax = 64
  Payload <- MCPayload
  MaxMsgs = 2
  SockBuf = 7
  ShortHeaderReads = FALSE
INVARIANTS
  CursorsInBuffer
PROPERTIES
  ChannelSpec
  EventuallyLoaded
CHECK_DEADLOCK FALSE
