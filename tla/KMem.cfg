SPECIFICATION Spec
CONSTANTS
  TOTAL_FRAME = 4
  MAX_ORDER = 1
  FRAME_SIZE = 4
  ReservedFrame = {0}
  SLAB_TYPE = 3
  UINT_RANGE = 16
  Sizes = {0, 2, 5, 14}
  BlockSize <- MCBlockSize
  slab_sizes <- MCSlabSizes
INVARIANTS
  LiveDisjoint
  NoUseAfterFree
  NoPageLeaked
  SlabListsExact
