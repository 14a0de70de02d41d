SPECIFICATION Spec
CONSTANTS
  Threads = {1, 2}
  MAX_FD = 1
  MAX_DIR_ENTRY = 3
  Paths <- MCPaths
  DirPaths <- MCDirPaths
  Archive <- MCArchive
  Preempt = FALSE
  KillIn = {}
  StaleSlots = FALSE
  MAX_NODES = 10
  MAX_SIZE = 1
CHECK_DEADLOCK FALSE
INVARIANTS
  DirectoriesExact
  ReadStaysInside
  OneOwner
PROPERTIES
  ImplementsPathTree
