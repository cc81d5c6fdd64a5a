SPECIFICATION SuiteSpec
CONSTANTS
  Protos <- MCFunctions
  checkcode <- MCcheckcode
  Damage <- MCDamage
  LUAI_MAXCCALLS = 3
  Blocks <- MCBlocks
  Parsed <- MCParsed
INVARIANTS
  FilesAreSafe
  ChunksSurvive
  ReadsAreExact
  CollectionIsSafe
  BlackNeverToWhite
PROPERTY
  CachesForgetFinalized
CHECK_DEADLOCK FALSE
