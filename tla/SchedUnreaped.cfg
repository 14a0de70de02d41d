SPECIFICATION FairSpec
CONSTANTS
  MAX_THREAD_COUNT = 3
  Killable = {}
  EarlyFork = FALSE
  IdleTick = FALSE
PROPERTIES
  DeadThreadsReaped
