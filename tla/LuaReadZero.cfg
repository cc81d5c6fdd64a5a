SPECIFICATION SuiteSpec
CONSTANTS
  Protos <- MCFunctions
  checkcode <- MCcheckcode
  Damage <- MCDamage
  LUAI_MAXCCALLS = 3
  Blocks <- MCBlocks
  Parsed <- MCParsed
INVARIANT
  LinesAreWhole
CHECK_DEADLOCK FALSE
