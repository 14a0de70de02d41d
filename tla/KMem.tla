-------------------------------- MODULE KMem --------------------------------
(***************************************************************************)
(* The kernel heap of kernel/src/memory.c: the slab allocator              *)
(* (slab_allocate, slab_free) and kmalloc, malloc_s, malloc_b, kfree on    *)
(* top of the page allocator, which is used through its abstract           *)
(* specification PageAllocator (module Buddy implements it).               *)
(*                                                                         *)
(* kmalloc and kfree mask interrupts for the whole call, so a call is one  *)
(* step.  The slab descriptor of a frame is slab_frame_array[index]; its   *)
(* fields available, slab_size, total_slabs and start_address are set and  *)
(* reset together with slab_type and follow from it.  The ghost variable   *)
(* live is what the callers hold: the addresses handed out and not yet     *)
(* freed, with the size asked for.                                         *)
(***************************************************************************)
EXTENDS Integers, FiniteSets

CONSTANTS
  TOTAL_FRAME, MAX_ORDER, BlockSize, FRAME_SIZE,
  ReservedFrame, \* frames the page allocator never hands out
  SLAB_TYPE,     \* number of slab classes
  slab_sizes,    \* bytes of each class, 0 .. SLAB_TYPE - 1
  UINT_RANGE,    \* 2^32: the arithmetic on sizes wraps at this value
  Sizes          \* the request sizes that callers use

(* A block of order 0 is one frame.  A slab class fits into a frame; the   *)
(* first has a size, the last, which has no initialiser, has size 0.       *)
ASSUME KMemAssumption ==
  /\ TOTAL_FRAME \in Nat \ {0} /\ MAX_ORDER \in Nat
  /\ FRAME_SIZE \in Nat \ {0} /\ SLAB_TYPE \in Nat \ {0}
  /\ BlockSize \in [0 .. MAX_ORDER -> Nat \ {0}] /\ BlockSize[0] = 1
  /\ slab_sizes \in [0 .. SLAB_TYPE - 1 -> 0 .. FRAME_SIZE] /\ slab_sizes[0] > 0
  /\ UINT_RANGE \in Nat /\ UINT_RANGE > FRAME_SIZE
  /\ Sizes \subseteq 0 .. UINT_RANGE - 1
  /\ ReservedFrame \subseteq 0 .. TOTAL_FRAME - 1

SLAB_NULL == -1
Frames == 0 .. TOTAL_FRAME - 1
Types  == 0 .. SLAB_TYPE - 1

VARIABLES
  held,            \* the blocks taken from the page allocator
  is_slab_page,    \* buddy_frame_array[i].is_slab_page (and slab_ptr)
  slab_type,       \* slab_frame_array[i].slab_type, -1 when available
  free_slabs,      \* .free_slabs, -1 when available
  bitmap,          \* .bitmap, as the set of used slots
  slab_next, slab_prev, slab_start_list,
  live             \* ghost: <<address, size>> of the allocations in use

slabs == <<is_slab_page, slab_type, free_slabs, bitmap,
           slab_next, slab_prev, slab_start_list>>
vars  == <<held, slabs, live>>

P == INSTANCE PageAllocator

index2address(f) == f * FRAME_SIZE
address2index(a) == a \div FRAME_SIZE

(* Mutant of size2order: rounds the number of frames down. *)
size2orderDown(size) ==
  LET fits == {k \in 0 .. MAX_ORDER : BlockSize[k] >= size \div FRAME_SIZE}
  IN  IF fits = {} THEN MAX_ORDER + 1
      ELSE CHOOSE k \in fits : \A j \in fits : k <= j

(* The smallest order whose block holds the request; the sum is that of a  *)
(* 32-bit unsigned int.                                                    *)
size2order(size) ==
  LET frames == ((size + FRAME_SIZE - 1) % UINT_RANGE) \div FRAME_SIZE
      fits   == {k \in 0 .. MAX_ORDER : BlockSize[k] >= frames}
  IN  IF fits = {} THEN MAX_ORDER + 1
      ELSE CHOOSE k \in fits : \A j \in fits : k <= j

(* The first class large enough, -1 when there is none. *)
SlabTypeOf(size) ==
  LET fits == {t \in Types : slab_sizes[t] >= size}
  IN  IF fits = {} THEN -1 ELSE CHOOSE t \in fits : \A u \in fits : t <= u

TotalSlabs(t) == FRAME_SIZE \div slab_sizes[t]

Init ==
  /\ held = {}
  /\ is_slab_page = [f \in Frames |-> FALSE]
  /\ slab_type = [f \in Frames |-> -1]
  /\ free_slabs = [f \in Frames |-> -1]
  /\ bitmap = [f \in Frames |-> {}]
  /\ slab_next = [f \in Frames |-> SLAB_NULL]
  /\ slab_prev = [f \in Frames |-> SLAB_NULL]
  /\ slab_start_list = [t \in Types |-> SLAB_NULL]
  /\ live = {}

-----------------------------------------------------------------------------
(* slab_allocate. *)

HasRoom(f) ==
  free_slabs[f] > 0 /\ \E i \in 0 .. TotalSlabs(slab_type[f]) - 1 : i \notin bitmap[f]

(* The first page on the list of class t with an unused slot. *)
PageWithRoom(t) ==
  LET walk[n \in 0 .. TOTAL_FRAME] ==
        IF n = 0 THEN slab_start_list[t]
        ELSE LET f == walk[n - 1]
             IN  IF f = SLAB_NULL \/ HasRoom(f) THEN f ELSE slab_next[f]
  IN  walk[TOTAL_FRAME]

TakeSlot(f, t, size) ==
  LET i == CHOOSE j \in 0 .. TotalSlabs(t) - 1 :
             j \notin bitmap[f] /\ \A m \in 0 .. j - 1 : m \in bitmap[f]
  IN  /\ bitmap' = [bitmap EXCEPT ![f] = @ \cup {i}]
      /\ free_slabs' = [free_slabs EXCEPT ![f] = @ - 1]
      /\ live' = live \cup {<<index2address(f) + i * slab_sizes[t], size>>}
      /\ UNCHANGED <<held, is_slab_page, slab_type, slab_next, slab_prev, slab_start_list>>

(* A fresh page from buddy_allocate(0), its first slot in use. *)
NewSlabPage(f, t, size) ==
  /\ P!Allocate(<<f, 0>>)
  /\ is_slab_page' = [is_slab_page EXCEPT ![f] = TRUE]
  /\ slab_type' = [slab_type EXCEPT ![f] = t]
  /\ bitmap' = [bitmap EXCEPT ![f] = {0}]
  /\ free_slabs' = [free_slabs EXCEPT ![f] = TotalSlabs(t) - 1]
  /\ slab_next' = [slab_next EXCEPT ![f] = slab_start_list[t]]
  /\ slab_prev' = [i \in Frames |-> IF i = f THEN SLAB_NULL
                                    ELSE IF i = slab_start_list[t] THEN f ELSE slab_prev[i]]
  /\ slab_start_list' = [slab_start_list EXCEPT ![t] = f]
  /\ live' = live \cup {<<index2address(f), size>>}

(* malloc_s; it fails, changing nothing, when no class is large enough or  *)
(* no page is left.                                                        *)
MallocS(size) ==
  LET t == SlabTypeOf(size) IN
  /\ t # -1
  /\ LET f == PageWithRoom(t) IN
     \/ f # SLAB_NULL /\ TakeSlot(f, t, size)
     \/ f = SLAB_NULL /\ \E n \in Frames : NewSlabPage(n, t, size)

(* malloc_b; it fails when buddy_allocate does. *)
MallocB(size) ==
  /\ \E b \in P!Blocks :
       /\ b[2] = size2order(size)
       /\ P!Allocate(b)
       /\ live' = live \cup {<<index2address(b[1]), size>>}
  /\ UNCHANGED slabs

Kmalloc(size) ==
  IF size <= slab_sizes[SLAB_TYPE - 1] THEN MallocS(size) ELSE MallocB(size)

-----------------------------------------------------------------------------
(* slab_free. *)

SlotOf(a) == (a % FRAME_SIZE) \div slab_sizes[slab_type[address2index(a)]]

(* Mutant of SlabFreeAccepts: without the test of the offset. *)
AcceptsUnaligned(a) ==
  SlotOf(a) < TotalSlabs(slab_type[address2index(a)]) /\ SlotOf(a) \in bitmap[address2index(a)]

(* The address is the start of a slot in use. *)
SlabFreeAccepts(a) ==
  LET f == address2index(a)
      t == slab_type[f]
  IN  /\ (a % FRAME_SIZE) % slab_sizes[t] = 0
      /\ SlotOf(a) < TotalSlabs(t)
      /\ SlotOf(a) \in bitmap[f]

(* Mutant of Unlink: the successor keeps its back pointer. *)
UnlinkOneWay(f, t) ==
  /\ slab_start_list' = IF slab_start_list[t] = f
                        THEN [slab_start_list EXCEPT ![t] = slab_next[f]] ELSE slab_start_list
  /\ slab_next' = [i \in Frames |-> IF i = f THEN SLAB_NULL
                     ELSE IF slab_start_list[t] # f /\ i = slab_prev[f] THEN slab_next[f]
                     ELSE slab_next[i]]
  /\ slab_prev' = [slab_prev EXCEPT ![f] = SLAB_NULL]

(* Taking page f off the list of its class, then clearing its links. *)
Unlink(f, t) ==
  /\ slab_start_list' = IF slab_start_list[t] = f
                        THEN [slab_start_list EXCEPT ![t] = slab_next[f]] ELSE slab_start_list
  /\ slab_next' = [i \in Frames |-> IF i = f THEN SLAB_NULL
                     ELSE IF slab_start_list[t] # f /\ i = slab_prev[f] THEN slab_next[f]
                     ELSE slab_next[i]]
  /\ slab_prev' = [i \in Frames |-> IF i = f THEN SLAB_NULL
                     ELSE IF i # slab_next[f] THEN slab_prev[i]
                     ELSE IF slab_start_list[t] = f THEN SLAB_NULL ELSE slab_prev[f]]

FreeSlot(f, i) ==
  /\ bitmap' = [bitmap EXCEPT ![f] = @ \ {i}]
  /\ free_slabs' = [free_slabs EXCEPT ![f] = @ + 1]
  /\ UNCHANGED <<held, is_slab_page, slab_type, slab_next, slab_prev, slab_start_list>>

(* The page has become empty: it goes back to the page allocator and its   *)
(* descriptor is reset, unless it is not where its links say               *)
(* ("Corrupted list structure"): then it stays as it is.                   *)
FreePage(f, i) ==
  LET t == slab_type[f] IN
  /\ P!Free(<<f, 0>>)
  /\ is_slab_page' = [is_slab_page EXCEPT ![f] = FALSE]
  /\ IF slab_start_list[t] = f \/ slab_prev[f] # SLAB_NULL
     THEN /\ Unlink(f, t)
          /\ slab_type' = [slab_type EXCEPT ![f] = -1]
          /\ free_slabs' = [free_slabs EXCEPT ![f] = -1]
          /\ bitmap' = [bitmap EXCEPT ![f] = {}]
     ELSE /\ bitmap' = [bitmap EXCEPT ![f] = @ \ {i}]
          /\ free_slabs' = [free_slabs EXCEPT ![f] = @ + 1]
          /\ UNCHANGED <<slab_type, slab_next, slab_prev, slab_start_list>>

(* Mutant of SlabFree: an empty page is kept. *)
SlabFreeKeep(a) ==
  /\ SlabFreeAccepts(a)
  /\ FreeSlot(address2index(a), SlotOf(a))
  /\ live' = {l \in live : l[1] # a}

SlabFree(a) ==
  LET f == address2index(a) IN
  /\ SlabFreeAccepts(a)
  /\ IF free_slabs[f] + 1 = TotalSlabs(slab_type[f])
     THEN FreePage(f, SlotOf(a))
     ELSE FreeSlot(f, SlotOf(a))
  /\ live' = {l \in live : l[1] # a}

(* free_b: the block that starts in the frame of the address, wherever in  *)
(* that frame the address is; any other address is refused.                *)
FreeB(a) ==
  LET f == address2index(a) IN
  /\ \E b \in held : b[1] = f /\ P!Free(b)
  /\ live' = {l \in live : l[1] # index2address(f)}
  /\ UNCHANGED slabs

Kfree(a) == IF is_slab_page[address2index(a)] THEN SlabFree(a) ELSE FreeB(a)

-----------------------------------------------------------------------------
Addresses == 0 .. TOTAL_FRAME * FRAME_SIZE - 1

Next ==
  \/ \E size \in Sizes : MallocS(size) \/ Kmalloc(size)
  \/ \E a \in Addresses : Kfree(a)

Spec == Init /\ [][Next]_vars

-----------------------------------------------------------------------------
(* Properties. *)

Bytes(l) == l[1] .. (l[1] + l[2] - 1)

(* Requests so large that rounding them up to whole frames wraps around;   *)
(* size2order then asks for one frame only.                                *)
Wraps(size) == size + FRAME_SIZE - 1 >= UINT_RANGE

(* No two callers share a byte or an address, whichever of the two         *)
(* allocators served them.                                                 *)
LiveDisjoint ==
  \A l, m \in live :
    l # m => /\ l[1] # m[1]
             /\ ~Wraps(l[2]) /\ ~Wraps(m[2]) => Bytes(l) \cap Bytes(m) = {}

(* Nobody uses memory the page allocator may hand out again: an allocation *)
(* lies inside one held block.                                             *)
NoUseAfterFree ==
  \A l \in live : ~Wraps(l[2]) =>
    \E b \in held :
      /\ address2index(l[1]) \in P!FramesOf(b)
      /\ \A a \in Bytes(l) : address2index(a) \in P!FramesOf(b)

(* No page leaks: a block is held only while an allocation in it is in     *)
(* use, so that when everything is freed all memory is back.               *)
NoPageLeaked ==
  \A b \in held : \E l \in live : address2index(l[1]) \in P!FramesOf(b)

(* The pages a walk along the list of class t meets. *)
PagesOf(t) ==
  LET reached[n \in 0 .. TOTAL_FRAME] ==
        IF n = 0 THEN {slab_start_list[t]} \ {SLAB_NULL}
        ELSE reached[n - 1] \cup ({slab_next[f] : f \in reached[n - 1]} \ {SLAB_NULL})
  IN  reached[TOTAL_FRAME]

(* A class's list holds exactly its pages, linked both ways, with the      *)
(* number of free slots its bitmap shows and at least one in use; every    *)
(* other descriptor is reset, so slab_allocate and slab_free never report  *)
(* a corrupted list.                                                       *)
SlabListsExact ==
  /\ \A t \in Types : PagesOf(t) = {f \in Frames : is_slab_page[f] /\ slab_type[f] = t}
  /\ \A f \in Frames :
       IF is_slab_page[f]
       THEN /\ <<f, 0>> \in held
            /\ slab_type[f] # -1
            /\ bitmap[f] # {}
            /\ free_slabs[f] = TotalSlabs(slab_type[f]) - Cardinality(bitmap[f])
            /\ slab_next[f] # SLAB_NULL => slab_prev[slab_next[f]] = f
            /\ slab_prev[f] = SLAB_NULL <=> slab_start_list[slab_type[f]] = f
       ELSE slab_type[f] = -1 /\ bitmap[f] = {} /\ free_slabs[f] = -1
=============================================================================
