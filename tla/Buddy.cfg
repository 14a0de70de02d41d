SPECIFICATION Spec
CONSTANTS
  TOTAL_FRAME = 9
  MAX_ORDER = 2
  FRAME_SIZE = 2
  BlockSize <- MCBlockSize
  Reservations <- MCReservations
INVARIANTS
  FramesConserved
  NoCorruptedList
  FreeListsExact
  FailsOnlyWhenFull
PROPERTIES
  ImplementsPageAllocator
