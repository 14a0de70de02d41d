SPECIFICATION Spec
CONSTANTS
  MAX_THREAD_COUNT = 2
  SIGNAL_MAX = 2
  Signals = {0, 1}
  Registered = {0}
  MaxCalls = 4
  InterruptReturn = TRUE
  InterruptKill = FALSE
  ForkInHandler = FALSE
  ExecInHandler = FALSE
INVARIANT
  ResumesInterruptedCode
CHECK_DEADLOCK FALSE
