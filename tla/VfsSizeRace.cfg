SPECIFICATION Spec
CONSTANTS
  Threads = {1, 2}
  MAX_FD = 1
  MAX_DIR_ENTRY = 3
  Paths <- MCPaths
  DirPaths <- MCDirPaths
  Archive <- MCArchive
  Preempt = TRUE
  KillIn = {}
  StaleSlots = FALSE
  MAX_NODES = 8
  MAX_SIZE = 2
CHECK_DEADLOCK FALSE
INVARIANTS
  ReadStaysInside
