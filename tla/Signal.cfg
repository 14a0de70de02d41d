SPECIFICATION FairSpec
CONSTANTS
  MAX_THREAD_COUNT = 2
  SIGNAL_MAX = 2
  Signals = {0, 1}
  Registered = {0}
  MaxCalls = 4
  InterruptReturn = FALSE
  InterruptKill = FALSE
  ForkInHandler = FALSE
  ExecInHandler = FALSE
INVARIANTS
  SignalsConserved
  OneHandlerAtATime
  ResumesInterruptedCode
PROPERTIES
  SignalsTaken
CHECK_DEADLOCK FALSE
