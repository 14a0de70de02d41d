SPECIFICATION VmSpec
CONSTANTS
  LEVELS = 3
  FAN = 3
  NBLOCKS = 28
  MAX_THREAD_COUNT = 2
  USER_KERNEL_BASE = 0
  USER_STACK_BASE = 8
  USTACK_SIZE = 1
  PERIPHERAL_START = 4
  PERIPHERAL_END = 5
  USER_SIGNAL_WRAPPER_VA = 6
  WRAPPER_SIZE = 1
  USER_SIGNAL_STKSTART_VA = 5
  DATASIZE = 2
  NPAGES = 10
  MaxSize = 2
  Requests <- const_Requests
  Touched <- const_Touched
  MaxCalls = 4
  MaxAreas = 6
  EndTouch = FALSE
  KillInKernel = FALSE
INVARIANTS
  EveryBlockOwnedOnce
  TranslationExact
  MmapFirstFit
PROPERTY
  ImplementsAddressSpace
CHECK_DEADLOCK FALSE
