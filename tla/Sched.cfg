SPECIFICATION FairSpec
CONSTANTS
  MAX_THREAD_COUNT = 3
  Killable = {0, 1, 2, 3, 4}
  EarlyFork = FALSE
  IdleTick = TRUE
INVARIANTS
  QueueWellFormed
  NoThreadLost
  SomeoneToRun
PROPERTIES
  ImplementsReadyQueue
  EveryThreadRuns
  QueuedZombiesReaped
