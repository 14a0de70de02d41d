SPECIFICATION FairSpec
CONSTANTS
  MAX_THREAD_COUNT = 3
  Killable = {1, 2, 3}
  EarlyFork = FALSE
  IdleTick = TRUE
PROPERTIES
  ScheduleReturns
