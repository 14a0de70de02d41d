SPECIFICATION Spec
CONSTANTS
  MAX_THREAD_COUNT = 3
  Killable = {1, 2, 3}
  EarlyFork = TRUE
  IdleTick = FALSE
INVARIANTS
  NoThreadLost
