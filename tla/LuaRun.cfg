SPECIFICATION Spec
CONSTANTS
  MAXSTACK = 13
  MAXINDEXRK = 1
  MAXARG_C = 2
  MAXARG_sBx = 18
  LFIELDS_PER_FLUSH = 2
  LUAI_MAXVARS = 8
  LUAI_MAXUPVALUES = 3
  LUAI_MAXCCALLS = 8
  MAXTAGLOOP = 3
  Alphabet <- MCAlphabet
  Sources <- RunSources
  Compile <- MCCompile
  Means <- MCMeans
INVARIANTS
  CodeIsSound
  StackIsSound
  ResultAgrees
  ErrorAgrees
CHECK_DEADLOCK FALSE
