SPECIFICATION FairSpec
CONSTANTS
  Units = 2
  Ports <- MCPorts
  Timeout = 3
  Dts <- MCDts
  OutCap = 3
  MaxSend = 2
  MaxIn = 3
  MaxLost = 2
INVARIANTS
  ListShape
  StreamsAligned
  FdsAccounted
  NullOnlyAfterSelectError
  NoEarlyTimeout
PROPERTIES
  SessionSpec
  ConnectingEnds
  DeadPeerNoticed
  QueueDrains
CHECK_DEADLOCK FALSE
