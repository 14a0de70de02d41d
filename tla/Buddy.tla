------------------------------- MODULE Buddy -------------------------------
(***************************************************************************)
(* The buddy allocator of kernel/src/memory.c: memory_reserve, buddy_init, *)
(* buddy_allocate and buddy_free, with the frame descriptors               *)
(* (buddy_frame_array: status, next, prev, allocated_order) and the heads  *)
(* of the doubly linked free lists (free_frame_lists).  A descriptor       *)
(* pointer is modelled by the frame's index and BUDDY_NULL by -1.          *)
(*                                                                         *)
(* A call is one step per loop iteration: pc, block_index, order and       *)
(* request are the locals of the call in progress.  Every caller           *)
(* (kmalloc, kfree) masks interrupts around the call, so no other call     *)
(* starts before it returns.                                               *)
(***************************************************************************)
EXTENDS Integers

CONSTANTS
  TOTAL_FRAME,  \* frames of the managed range (0x3C000 in the code)
  MAX_ORDER,    \* largest block order (20 in the code)
  BlockSize,    \* BlockSize[k] = 1 << k
  FRAME_SIZE,   \* bytes per frame (4096 in the code)
  Reservations  \* the byte ranges <<begin, end>> given to memory_reserve

ASSUME SizeAssumption ==
  /\ TOTAL_FRAME \in Nat \ {0}
  /\ MAX_ORDER \in Nat
  /\ FRAME_SIZE \in Nat \ {0}

ASSUME BlockSizeAssumption ==
  /\ BlockSize \in [0 .. MAX_ORDER -> Nat \ {0}]
  /\ BlockSize[0] = 1
  /\ \A k \in 0 .. MAX_ORDER - 1 : BlockSize[k + 1] = 2 * BlockSize[k]

ASSUME ReservationsAssumption == Reservations \subseteq Nat \X Nat

BELONGED_FRAME  == -1   \* inside a block, not its first frame
ALLOCATED_FRAME == -2   \* first frame of an allocated block
RESERVED_FRAME  == -3   \* taken by memory_reserve
UNINIT_FRAME    == -4   \* not yet given to a block by buddy_init
BUDDY_NULL      == -1

Frames == 0 .. TOTAL_FRAME - 1
Orders == 0 .. MAX_ORDER

VARIABLES
  status, next, prev, allocated_order,  \* buddy_frame_array[i].*
  free_frame_lists,                     \* first free block of each order
  pc,           \* "init", "ready", "split" or "merge"
  block_index,  \* the block the call in progress works on
  order,        \* its current order (curr_order, current_order, order)
  request       \* the order buddy_allocate was asked for

desc  == <<status, next, prev, allocated_order>>
local == <<block_index, order, request>>
vars  == <<desc, free_frame_lists, pc, local>>

(* block_index ^ (1 << k): flips bit k of the frame index. *)
BuddyOf(b, k) ==
  IF (b \div BlockSize[k]) % 2 = 0 THEN b + BlockSize[k] ELSE b - BlockSize[k]

(* Mutant of ReservedBy: the first address is rounded up. *)
ReservedByRoundUp(r) ==
  {i \in Frames : /\ (r[1] + FRAME_SIZE - 1) \div FRAME_SIZE <= i
                  /\ i < (r[2] + FRAME_SIZE - 1) \div FRAME_SIZE}

(* The frames memory_reserve marks for the bytes begin .. end - 1, clamped *)
(* to the managed range.                                                   *)
ReservedBy(r) ==
  {i \in Frames : /\ r[1] \div FRAME_SIZE <= i
                  /\ i < (r[2] + FRAME_SIZE - 1) \div FRAME_SIZE}

ReservedFrame == UNION {ReservedBy(r) : r \in Reservations}

-----------------------------------------------------------------------------
(* Mutant of LinkFront: the old first block keeps its prev pointer. *)
LinkFrontOneWay(k, f) ==
  /\ next' = [next EXCEPT ![f] = free_frame_lists[k]]
  /\ prev' = [prev EXCEPT ![f] = BUDDY_NULL]
  /\ free_frame_lists' = [free_frame_lists EXCEPT ![k] = f]

(* Inserting block f at the front of the free list of order k.             *)

LinkFront(k, f) ==
  /\ next' = [next EXCEPT ![f] = free_frame_lists[k]]
  /\ prev' = [i \in Frames |-> IF i = free_frame_lists[k] THEN f
                               ELSE IF i = f THEN BUDDY_NULL ELSE prev[i]]
  /\ free_frame_lists' = [free_frame_lists EXCEPT ![k] = f]

(* init_allocator has marked the reserved frames and buddy_init has reset  *)
(* every descriptor and list head; its block-building loop comes next.     *)
Init ==
  /\ status = [i \in Frames |-> IF i \in ReservedFrame THEN RESERVED_FRAME
                                                        ELSE UNINIT_FRAME]
  /\ next = [i \in Frames |-> BUDDY_NULL]
  /\ prev = [i \in Frames |-> BUDDY_NULL]
  /\ allocated_order = [i \in Frames |-> -1]
  /\ free_frame_lists = [k \in Orders |-> BUDDY_NULL]
  /\ pc = "init"
  /\ block_index = 0
  /\ order = MAX_ORDER
  /\ request = 0

(* Mutant of AllFree: tests only the first frame of the candidate. *)
FirstFree(i, k) ==
  i + BlockSize[k] <= TOTAL_FRAME /\ status[i] = UNINIT_FRAME

(* The interior test of buddy_init: the aligned candidate block lies in    *)
(* the managed range and no frame of it is reserved or already in a block. *)
AllFree(i, k) ==
  /\ i + BlockSize[k] <= TOTAL_FRAME
  /\ \A j \in i .. (i + BlockSize[k] - 1) : status[j] = UNINIT_FRAME

(* One iteration of the nested loops of buddy_init. *)
InitBlock ==
  /\ pc = "init"
  /\ IF AllFree(block_index, order)
     THEN /\ status' = [i \in Frames |->
                 IF i = block_index THEN order
                 ELSE IF i \in block_index + 1 .. block_index + BlockSize[order] - 1
                      THEN BELONGED_FRAME ELSE status[i]]
          /\ LinkFront(order, block_index)
     ELSE UNCHANGED <<status, next, prev, free_frame_lists>>
  /\ IF block_index + BlockSize[order] < TOTAL_FRAME
     THEN block_index' = block_index + BlockSize[order] /\ UNCHANGED <<order, pc>>
     ELSE /\ block_index' = 0
          /\ order' = IF order = 0 THEN 0 ELSE order - 1
          /\ pc' = IF order = 0 THEN "ready" ELSE "init"
  /\ UNCHANGED <<allocated_order, request>>

-----------------------------------------------------------------------------
(* buddy_allocate(k): take the first block of the smallest order that has  *)
(* one, halve it until it has order k, return it.  When no list has a      *)
(* block, or k exceeds MAX_ORDER, the call returns -1 and changes nothing. *)

BuddyAllocate(k) ==
  /\ pc = "ready"
  /\ \E i \in k .. MAX_ORDER :
       /\ free_frame_lists[i] # BUDDY_NULL
       /\ \A j \in k .. i - 1 : free_frame_lists[j] = BUDDY_NULL
       /\ LET block == free_frame_lists[i] IN
            /\ free_frame_lists' = [free_frame_lists EXCEPT ![i] = next[block]]
            /\ prev' = [f \in Frames |->
                          IF f = next[block] THEN BUDDY_NULL ELSE prev[f]]
            /\ block_index' = block
       /\ order' = i
  /\ request' = k
  /\ pc' = "split"
  /\ UNCHANGED <<status, next, allocated_order>>

(* The call ends and its locals with it. *)
Return ==
  /\ pc' = "ready"
  /\ block_index' = 0
  /\ order' = 0
  /\ request' = 0

SplitBlock ==
  /\ pc = "split"
  /\ order > request
  /\ LET buddy_index == BuddyOf(block_index, order - 1) IN
       /\ status' = [status EXCEPT ![buddy_index] = order - 1]
       /\ LinkFront(order - 1, buddy_index)
  /\ order' = order - 1
  /\ UNCHANGED <<allocated_order, pc, block_index, request>>

AllocateReturn ==
  /\ pc = "split"
  /\ order = request
  /\ status' = [status EXCEPT ![block_index] = ALLOCATED_FRAME]
  /\ next' = [next EXCEPT ![block_index] = BUDDY_NULL]
  /\ prev' = [prev EXCEPT ![block_index] = BUDDY_NULL]
  /\ allocated_order' = [allocated_order EXCEPT ![block_index] = request]
  /\ Return
  /\ UNCHANGED free_frame_lists

-----------------------------------------------------------------------------
(* buddy_free(b): refused (no change) unless b is the first frame of an    *)
(* allocated block; else merge with the buddy while that is a free block   *)
(* of the same order, then put the result on its free list.                *)

BuddyFree(b) ==
  /\ pc = "ready"
  /\ status[b] = ALLOCATED_FRAME
  /\ block_index' = b
  /\ order' = allocated_order[b]
  /\ status' = [status EXCEPT ![b] = allocated_order[b]]
  /\ pc' = "merge"
  /\ UNCHANGED <<next, prev, allocated_order, free_frame_lists, request>>

(* Mutant of CanMerge: the bound on the order is one too small. *)
CanMergeBelow ==
  /\ order < MAX_ORDER - 1
  /\ LET buddy_index == BuddyOf(block_index, order) IN
       buddy_index < TOTAL_FRAME /\ status[buddy_index] = order

(* The loop condition of buddy_free. *)
CanMerge ==
  /\ order < MAX_ORDER
  /\ LET buddy_index == BuddyOf(block_index, order) IN
       /\ buddy_index < TOTAL_FRAME
       /\ status[buddy_index] = order

(* Taking free block g off the list of order k: as head of the list, or    *)
(* between its neighbours; a block that is neither the head nor has a      *)
(* predecessor is left linked ("Corrupted list structure").                *)
IsHead(k, g) == free_frame_lists[k] = g

(* Mutant: the predecessor is not relinked. *)
KeptNext(k, g) == next

UnlinkedHeads(k, g) ==
  IF IsHead(k, g) THEN [free_frame_lists EXCEPT ![k] = next[g]] ELSE free_frame_lists

UnlinkedNext(k, g) ==
  IF ~IsHead(k, g) /\ prev[g] # BUDDY_NULL
  THEN [next EXCEPT ![prev[g]] = next[g]] ELSE next

UnlinkedPrev(k, g) ==
  [f \in Frames |->
     IF f # next[g] THEN prev[f]
     ELSE IF IsHead(k, g) THEN BUDDY_NULL
     ELSE IF prev[g] # BUDDY_NULL THEN prev[g] ELSE prev[f]]

MergeBuddy ==
  /\ pc = "merge"
  /\ CanMerge
  /\ LET buddy_index == BuddyOf(block_index, order)
         upper == IF buddy_index < block_index THEN block_index ELSE buddy_index
         lower == IF buddy_index < block_index THEN buddy_index ELSE block_index
     IN  /\ free_frame_lists' = UnlinkedHeads(order, buddy_index)
         /\ next' = [UnlinkedNext(order, buddy_index) EXCEPT ![upper] = BUDDY_NULL]
         /\ prev' = [UnlinkedPrev(order, buddy_index) EXCEPT ![upper] = BUDDY_NULL]
         /\ status' = [status EXCEPT ![upper] = BELONGED_FRAME]
         /\ allocated_order' = [allocated_order EXCEPT ![upper] = -1]
         /\ block_index' = lower
  /\ order' = order + 1
  /\ UNCHANGED <<pc, request>>

FreeReturn ==
  /\ pc = "merge"
  /\ ~CanMerge
  /\ status' = [status EXCEPT ![block_index] = order]
  /\ LinkFront(order, block_index)
  /\ Return
  /\ UNCHANGED allocated_order

-----------------------------------------------------------------------------
Step == InitBlock \/ SplitBlock \/ AllocateReturn \/ MergeBuddy \/ FreeReturn

Next ==
  \/ Step
  \/ \E k \in Orders : BuddyAllocate(k)
  \/ \E b \in Frames : BuddyFree(b)

Spec == Init /\ [][Next]_vars

-----------------------------------------------------------------------------
(* Properties.  A block is floating while the call in progress holds it:   *)
(* it is on no list, and its order is the local variable of the call.      *)

Floating(h) == pc \in {"split", "merge"} /\ h = block_index

FreeBlocks == {h \in Frames : status[h] \in Orders /\ ~Floating(h)}

Heads == {h \in Frames : status[h] \in Orders \cup {ALLOCATED_FRAME}}

OrderOf(h) ==
  IF Floating(h) THEN order
  ELSE IF status[h] = ALLOCATED_FRAME THEN allocated_order[h] ELSE status[h]

FramesOf(h) == h .. (h + BlockSize[OrderOf(h)] - 1)

(* Every descriptor field holds a value of its C type that the code gives  *)
(* it: statuses are an order or one of the four marks, pointers are a      *)
(* descriptor or BUDDY_NULL.                                               *)
TypeOK ==
  /\ status \in [Frames -> -4 .. MAX_ORDER]
  /\ next \in [Frames -> Frames \cup {BUDDY_NULL}]
  /\ prev \in [Frames -> Frames \cup {BUDDY_NULL}]
  /\ allocated_order \in [Frames -> Orders \cup {-1}]
  /\ free_frame_lists \in [Orders -> Frames \cup {BUDDY_NULL}]
  /\ pc \in {"init", "ready", "split", "merge"}
  /\ block_index \in Frames
  /\ order \in Orders
  /\ request \in Orders

(* The frames that hold a byte of a reserved range. *)
TouchedFrames ==
  {f \in Frames : \E r \in Reservations : \E a \in r[1] .. r[2] - 1 : a \div FRAME_SIZE = f}

(* No frame is lost and none is in two blocks, also in the middle of a     *)
(* call: a frame is reserved, not yet initialised (only in buddy_init), or *)
(* in exactly one block; every block lies inside the managed range and no  *)
(* block holds a byte that memory_reserve was asked to keep.               *)
FramesConserved ==
  /\ \A h \in Heads : FramesOf(h) \subseteq Frames
  /\ \A f \in Frames :
       /\ f \in TouchedFrames => status[f] = RESERVED_FRAME
       /\ status[f] = UNINIT_FRAME => pc = "init"
       /\ status[f] \in {RESERVED_FRAME, UNINIT_FRAME}
            => \A h \in Heads : f \notin FramesOf(h)
       /\ status[f] \notin {RESERVED_FRAME, UNINIT_FRAME}
            => \E h \in Heads : /\ f \in FramesOf(h)
                                /\ \A g \in Heads \ {h} : f \notin FramesOf(g)

(* The two "[!] Corrupted list structure" messages are never printed: the  *)
(* upper half that buddy_allocate splits off lies above the block, and a   *)
(* buddy that buddy_free merges is the head of its list or has a           *)
(* predecessor there, so it really is unlinked.                            *)
NoCorruptedList ==
  /\ pc = "split" /\ order > request
       => BuddyOf(block_index, order - 1) >= block_index
  /\ pc = "merge" /\ CanMerge
       => LET g == BuddyOf(block_index, order)
          IN  IsHead(order, g) \/ prev[g] # BUDDY_NULL

(* The blocks a walk from the list head meets. *)
OnList(k) ==
  LET reached[n \in 0 .. TOTAL_FRAME] ==
        IF n = 0 THEN {free_frame_lists[k]} \ {BUDDY_NULL}
        ELSE reached[n - 1] \cup ({next[f] : f \in reached[n - 1]} \ {BUDDY_NULL})
  IN  reached[TOTAL_FRAME]

(* The free list of each order holds exactly the free blocks of that       *)
(* order: none is lost (its frames could never be allocated again) and     *)
(* none is listed that is allocated, merged away or of another order.      *)
FreeListsExact ==
  \A k \in Orders : OnList(k) = {h \in FreeBlocks : status[h] = k}

(* buddy_allocate fails only when it must: while some aligned run of       *)
(* BlockSize[k] frames is free, some list of order k or more is not empty. *)
FailsOnlyWhenFull ==
  pc = "ready" =>
    \A k \in Orders :
       (\A i \in k .. MAX_ORDER : free_frame_lists[i] = BUDDY_NULL)
         => \A h \in Frames :
              /\ h % BlockSize[k] = 0
              /\ h + BlockSize[k] <= TOTAL_FRAME
              => \E f \in h .. (h + BlockSize[k] - 1) :
                   \A b \in FreeBlocks : f \notin FramesOf(b)

(* What the callers see: buddy_allocate and buddy_free implement the       *)
(* abstract page allocator.  A block is handed out when buddy_allocate     *)
(* returns it and is given back when buddy_free accepts it.                *)
Abstract == INSTANCE PageAllocator WITH
  ReservedFrame <- TouchedFrames,
  held <- {<<h, allocated_order[h]>> : h \in {f \in Frames : status[f] = ALLOCATED_FRAME}}

ImplementsPageAllocator == Abstract!Spec
=============================================================================
