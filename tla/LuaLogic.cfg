SPECIFICATION Spec
CONSTANTS
  MAXSTACK = 30
  MAXINDEXRK = 255
  MAXARG_C = 2
  MAXARG_sBx = 1000
  LFIELDS_PER_FLUSH = 2
  LUAI_MAXVARS = 20
  LUAI_MAXUPVALUES = 5
  LUAI_MAXCCALLS = 12
  MAXTAGLOOP = 3
  Alphabet <- MCAlphabet
  Sources <- LogicSources
  Compile <- MCCompile
  Means <- MCMeans
INVARIANTS
  ResultAgrees
CHECK_DEADLOCK FALSE
