SPECIFICATION MCSpec
CONSTANTS
  Coroutines = {c1, c2}
  Main = main
  LUAI_MAXCALLS = 4
  LUAI_MAXCCALLS = 4
  BASIC_CI_SIZE = 1
  MaxFrames = 8
INVARIANTS
  StacksBounded
  CoroutinesSound
SYMMETRY CoroutineSymmetry
CHECK_DEADLOCK FALSE
