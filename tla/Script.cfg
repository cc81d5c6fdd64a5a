SPECIFICATION SuiteSpec
CONSTANTS
  Addr <- MCAddr
  Names <- MCNames
  Default = "defaultSocket"
  Handles <- MCHandles
  MaxMsgs = 3
INVARIANTS
  OneOwner
  PoliteIsSafe
  NothingLost
  UserdataOwnObjects
PROPERTIES
  LoadsWholeMessages
  DroppedIsDeleted
CHECK_DEADLOCK FALSE
