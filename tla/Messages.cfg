SPECIFICATION SuiteSpec
CONSTANTS
  Base = 4
  DefaultSize = 8
  HeapMax = 64
  PoolSizes <- MCPoolSizes
INVARIANTS
  BufferSafe
  HangsOnlyOnHugeLength
  FieldsSurvive
  PoolIsSound
PROPERTIES
  BestFit
CHECK_DEADLOCK FALSE
