SPECIFICATION FairSpec
CONSTANTS
  Threads = {t1, t2}
  DieInTask = FALSE
  MAX_DEPTH = 2
  MAX_TASKS = 1
INVARIANTS
  OneTaskPerPriority
  PriorityOfRunning
  NoInterruptLost
PROPERTIES
  UrgentFirst
  TasksRun
