--------------------------- MODULE PageAllocator ---------------------------
(***************************************************************************)
(* What the page-frame allocator of kernel/src/memory.c promises its       *)
(* callers (malloc_b, free_b, slab_allocate, slab_free): it hands out      *)
(* blocks of 2^order frames that lie in the managed range, start at a      *)
(* multiple of their size, and overlap neither each other nor a frame that *)
(* was reserved at boot; a block stays its caller's until it is freed.     *)
(* How free frames are kept is not visible here; module Buddy implements   *)
(* this specification.                                                     *)
(***************************************************************************)
EXTENDS Integers

CONSTANTS
  TOTAL_FRAME,  \* number of page frames
  MAX_ORDER,    \* largest block order
  BlockSize,    \* BlockSize[k] is 1 << k
  ReservedFrame \* the frames that memory_reserve took

VARIABLE held   \* the blocks <<first frame, order>> handed out

FramesOf(b) == b[1] .. (b[1] + BlockSize[b[2]] - 1)

Blocks ==
  {b \in (0 .. TOTAL_FRAME - 1) \X (0 .. MAX_ORDER) :
     /\ b[1] % BlockSize[b[2]] = 0
     /\ b[1] + BlockSize[b[2]] <= TOTAL_FRAME}

Init == held = {}

Allocate(b) ==
  /\ FramesOf(b) \cap ReservedFrame = {}
  /\ \A h \in held : FramesOf(b) \cap FramesOf(h) = {}
  /\ held' = held \cup {b}

Free(b) ==
  /\ b \in held
  /\ held' = held \ {b}

Next == \E b \in Blocks : Allocate(b) \/ Free(b)

Spec == Init /\ [][Next]_held
=============================================================================
