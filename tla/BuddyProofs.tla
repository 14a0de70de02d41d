---------------------------- MODULE BuddyProofs ----------------------------
(***************************************************************************)
(* Proofs about module Buddy, for every number of frames, every MAX_ORDER  *)
(* and every set of reservations.                                          *)
(*                                                                         *)
(* The inductive invariant describes a state by what can be read around    *)
(* one descriptor: the frames behind a block's first frame are marked      *)
(* BELONGED_FRAME, a block starts at a multiple of its size, and the       *)
(* neighbours on a free list point at each other.  What is true of whole   *)
(* lists and of pairs of blocks is proved on top of it: Pushed, Taken and  *)
(* Kept are the three things a step can do to the free blocks.             *)
(***************************************************************************)
EXTENDS Buddy, ListLemmas

(* What the links of a free list satisfy, when S is the set of free        *)
(* blocks, st their orders, nx and pv the pointers and ls the heads.       *)
ListInv(S, st, nx, pv, ls) ==
  /\ \A k \in Orders :
       ls[k] # BUDDY_NULL => ls[k] \in S /\ st[ls[k]] = k /\ pv[ls[k]] = BUDDY_NULL
  /\ \A f \in S :
       /\ nx[f] # BUDDY_NULL
            => nx[f] \in S /\ st[nx[f]] = st[f] /\ pv[nx[f]] = f
       /\ pv[f] # BUDDY_NULL
            => pv[f] \in S /\ st[pv[f]] = st[f] /\ nx[pv[f]] = f
       /\ pv[f] = BUDDY_NULL => ls[st[f]] = f

Aligned(b, k) == b % BlockSize[k] = 0

(* Every block lies in the managed range, starts at a multiple of its      *)
(* size, and the frames behind its first one are marked as its own.        *)
BlockShape ==
  \A h \in Heads :
    /\ OrderOf(h) \in Orders
    /\ h + BlockSize[OrderOf(h)] <= TOTAL_FRAME
    /\ Aligned(h, OrderOf(h))
    /\ \A f \in Frames :
         h < f /\ f < h + BlockSize[OrderOf(h)] => status[f] = BELONGED_FRAME

(* A frame marked as behind a first frame really is. *)
Covered ==
  \A f \in Frames :
    status[f] = BELONGED_FRAME
      => \E h \in Heads : h < f /\ f < h + BlockSize[OrderOf(h)]

(* Reserved frames stay reserved; buddy_init leaves no frame over. *)
Marks ==
  \A f \in Frames :
    /\ status[f] = RESERVED_FRAME <=> f \in ReservedFrame
    /\ status[f] = UNINIT_FRAME => pc = "init"

FreeLists == ListInv(FreeBlocks, status, next, prev, free_frame_lists)

(* The locals of the call in progress. *)
InProgress ==
  /\ pc = "init" => Aligned(block_index, order)
  /\ pc \in {"split", "merge"} => status[block_index] \in Orders
  /\ pc = "split" => request <= order

(* Frames that buddy_init has passed at the last order are in a block. *)
InitDone ==
  pc = "init" /\ order = 0 =>
    \A f \in Frames : f < block_index => status[f] # UNINIT_FRAME

(* How a step changes the set of free blocks: it puts one in front of a    *)
(* list, takes one off its list, or leaves them alone.                     *)
Pushed(f, k) ==
  /\ f \in Frames \ FreeBlocks /\ FreeBlocks' = FreeBlocks \cup {f}
  /\ status'[f] = k /\ LinkFront(k, f)
  /\ \A x \in FreeBlocks : status'[x] = status[x]

Taken(g) ==
  /\ g \in FreeBlocks /\ FreeBlocks' = FreeBlocks \ {g}
  /\ \A x \in FreeBlocks \ {g} : /\ status'[x] = status[x]
                                 /\ next'[x] = IF x = prev[g] THEN next[g] ELSE next[x]

Kept ==
  FreeBlocks' = FreeBlocks /\ \A x \in FreeBlocks : status'[x] = status[x] /\ next'[x] = next[x]

IndInv ==
  TypeOK /\ BlockShape /\ Covered /\ Marks /\ FreeLists /\ InProgress /\ InitDone

-----------------------------------------------------------------------------
(* Arithmetic. *)

(* A product divided by one of its factors is the other one. *)
LEMMA DivCancel ==
  ASSUME NEW q \in Nat, NEW p \in Nat \ {0}
  PROVE  (q * p) \div p = q /\ (q * p) % p = 0
<1> DEFINE d == (q * p) \div p
           r == (q * p) % p
<1>1. q * p \in Nat
  OBVIOUS
<1>2. d \in Int /\ r \in 0 .. p - 1 /\ q * p = p * d + r
  BY <1>1
<1>3. (q - d) * p = r
  BY <1>2
<1>4. q - d < 1
  <2> SUFFICES ASSUME q - d >= 1 PROVE FALSE
    BY <1>2
  <2>1. (q - d) * p >= p
    BY <1>2
  <2> QED BY <2>1, <1>2, <1>3
<1>5. q - d > -1
  <2> SUFFICES ASSUME q - d <= -1 PROVE FALSE
    BY <1>2
  <2>1. (q - d) * p <= -p
    BY <1>2
  <2> QED BY <2>1, <1>2, <1>3
<1>6. q = d
  BY <1>2, <1>4, <1>5
<1>7. r = 0
  BY <1>2, <1>6
<1> QED BY <1>6, <1>7

(* Two blocks of one order make a block of the next. *)
LEMMA BlockSizeStep ==
  ASSUME NEW k \in Orders
  PROVE  /\ BlockSize[k] \in Nat \ {0}
         /\ k < MAX_ORDER => BlockSize[k + 1] = 2 * BlockSize[k]
         /\ k > 0 => BlockSize[k] = 2 * BlockSize[k - 1]
<1>1. k > 0 => k - 1 \in 0 .. MAX_ORDER - 1 /\ (k - 1) + 1 = k
  BY SizeAssumption DEF Orders
<1>2. k < MAX_ORDER => k \in 0 .. MAX_ORDER - 1
  BY SizeAssumption DEF Orders
<1> QED BY <1>1, <1>2, SizeAssumption, BlockSizeAssumption DEF Orders

(* The multiples of a block size. *)
LEMMA AlignedMultiple ==
  ASSUME NEW k \in Orders, NEW b \in Nat
  PROVE  Aligned(b, k) <=> \E q \in Nat : b = q * BlockSize[k]
<1> DEFINE p == BlockSize[k]
<1>1. p \in Nat \ {0}
  BY BlockSizeStep
<1>2. ASSUME Aligned(b, k) PROVE \E q \in Nat : b = q * p
  <2>1. b % p = 0 /\ b \div p \in Int /\ b = p * (b \div p) + (b % p)
    BY <1>1, <1>2 DEF Aligned
  <2>2. b \div p \in Nat
    BY <1>1
  <2>3. b = (b \div p) * p
    BY <2>1, <1>1
  <2> QED BY <2>2, <2>3
<1>3. ASSUME NEW q \in Nat, b = q * p PROVE Aligned(b, k)
  BY <1>1, <1>3, DivCancel DEF Aligned
<1> QED BY <1>2, <1>3

(* The exclusive or with 1 << k of a block's first frame is the frame      *)
(* behind the block, when the block is a lower half, or else the first     *)
(* frame of the lower half.                                                *)
LEMMA BuddyOfAligned ==
  ASSUME NEW k \in Orders, NEW b \in Nat, Aligned(b, k)
  PROVE  \/ /\ BuddyOf(b, k) = b + BlockSize[k]
            /\ k < MAX_ORDER => Aligned(b, k + 1)
         \/ /\ BuddyOf(b, k) = b - BlockSize[k]
            /\ BuddyOf(b, k) \in Nat
            /\ k < MAX_ORDER => Aligned(b - BlockSize[k], k + 1)
<1> DEFINE p == BlockSize[k]
<1>1. PICK q \in Nat : b = q * p
  BY AlignedMultiple
<1>2. p \in Nat \ {0} /\ (k < MAX_ORDER => BlockSize[k + 1] = 2 * p)
  BY BlockSizeStep
<1>3. b \div p = q
  BY <1>1, <1>2, DivCancel
<1>4. CASE q % 2 = 0
  <2>1. PICK m \in Nat : q = 2 * m
    BY <1>4
  <2>2. b = m * (2 * p)
    BY <1>1, <1>2, <2>1
  <2>3. k < MAX_ORDER => Aligned(b, k + 1)
    <3> HAVE k < MAX_ORDER
    <3>1. k + 1 \in Orders
      BY SizeAssumption DEF Orders
    <3> QED BY <3>1, <1>2, <2>2, AlignedMultiple
  <2> QED BY <1>2, <1>3, <1>4, <2>3 DEF BuddyOf
<1>5. CASE q % 2 # 0
  <2>1. PICK m \in Nat : q = 2 * m + 1
    <3>1. q % 2 = 1
      BY <1>5
    <3> QED BY <3>1
  <2>2. b - p = m * (2 * p)
    BY <1>1, <1>2, <2>1
  <2>3. m * (2 * p) \in Nat
    BY <1>2
  <2>4. k < MAX_ORDER => Aligned(b - p, k + 1)
    <3> HAVE k < MAX_ORDER
    <3>1. k + 1 \in Orders
      BY SizeAssumption DEF Orders
    <3> QED BY <3>1, <1>2, <2>2, <2>3, AlignedMultiple
  <2> QED BY <1>2, <1>3, <1>5, <2>2, <2>3, <2>4 DEF BuddyOf
<1> QED BY <1>4, <1>5

(* The halves of a block of order k are blocks of order k - 1, and the     *)
(* upper one is the buddy of the lower one.                                *)
LEMMA SplitAligned ==
  ASSUME NEW k \in Orders, k > 0, NEW b \in Nat, Aligned(b, k)
  PROVE  /\ BuddyOf(b, k - 1) = b + BlockSize[k - 1]
         /\ Aligned(b, k - 1)
         /\ Aligned(b + BlockSize[k - 1], k - 1)
<1> DEFINE p == BlockSize[k - 1]
<1>1. PICK q \in Nat : b = q * BlockSize[k]
  BY AlignedMultiple
<1>2. k - 1 \in Orders
  BY SizeAssumption DEF Orders
<1>3. p \in Nat \ {0} /\ BlockSize[k] = 2 * p
  BY <1>2, BlockSizeStep
<1>4. b = (2 * q) * p /\ 2 * q \in Nat
  BY <1>1, <1>3
<1>5. b + p = (2 * q + 1) * p /\ 2 * q + 1 \in Nat
  BY <1>4, <1>3
<1>6. b \div p = 2 * q
  BY <1>3, <1>4, DivCancel
<1>7. (2 * q) % 2 = 0
  OBVIOUS
<1>8. BuddyOf(b, k - 1) = b + p
  BY <1>6, <1>7 DEF BuddyOf
<1>9. b + p \in Nat
  BY <1>3
<1> QED BY <1>2, <1>4, <1>5, <1>8, <1>9, AlignedMultiple

-----------------------------------------------------------------------------
(* Lists. *)

(* Putting a block in front of a list keeps the links consistent. *)
LEMMA LinkFrontKeepsLists ==
  ASSUME TypeOK,
         NEW S \in SUBSET Frames, NEW f \in Frames \ S, NEW k \in Orders,
         \A x \in S : status[x] \in Orders /\ status'[x] = status[x],
         status'[f] = k,
         LinkFront(k, f),
         ListInv(S, status, next, prev, free_frame_lists)
  PROVE  ListInv(S \cup {f}, status', next', prev', free_frame_lists')
<1> USE DEF LinkFront, TypeOK
<1>1. BUDDY_NULL \notin Frames
  BY SizeAssumption DEF BUDDY_NULL, Frames
<1>2. free_frame_lists[k] # f
  BY <1>1 DEF ListInv
<1>3. ASSUME NEW j \in Orders, free_frame_lists'[j] # BUDDY_NULL
      PROVE  /\ free_frame_lists'[j] \in S \cup {f}
             /\ status'[free_frame_lists'[j]] = j
             /\ prev'[free_frame_lists'[j]] = BUDDY_NULL
  <2>1. CASE j = k
    BY <2>1, <1>2
  <2>2. CASE j # k
    <3>1. /\ free_frame_lists'[j] = free_frame_lists[j]
          /\ free_frame_lists[j] \in S
          /\ status[free_frame_lists[j]] = j
          /\ prev[free_frame_lists[j]] = BUDDY_NULL
      BY <2>2, <1>3 DEF ListInv
    <3>2. free_frame_lists[j] # free_frame_lists[k]
      BY <3>1, <2>2, <1>1 DEF ListInv
    <3> QED BY <3>1, <3>2
  <2> QED BY <2>1, <2>2
<1>4. ASSUME NEW g \in S \cup {f}
      PROVE  /\ next'[g] # BUDDY_NULL
                  => next'[g] \in S \cup {f} /\ status'[next'[g]] = status'[g] /\ prev'[next'[g]] = g
             /\ prev'[g] # BUDDY_NULL
                  => prev'[g] \in S \cup {f} /\ status'[prev'[g]] = status'[g] /\ next'[prev'[g]] = g
             /\ prev'[g] = BUDDY_NULL => free_frame_lists'[status'[g]] = g
  <2>1. CASE g = f
    <3>1. next'[f] = free_frame_lists[k] /\ prev'[f] = BUDDY_NULL /\ free_frame_lists'[k] = f
      BY <1>2
    <3>2. free_frame_lists[k] # BUDDY_NULL
            => /\ free_frame_lists[k] \in S
               /\ status[free_frame_lists[k]] = k
               /\ prev'[free_frame_lists[k]] = f
      BY <1>1 DEF ListInv
    <3> QED BY <2>1, <3>1, <3>2
  <2>2. CASE g # f
    <3>1. g \in S /\ next'[g] = next[g] /\ status'[g] = status[g]
      BY <2>2
    <3>2. next[g] # BUDDY_NULL
            => next[g] \in S /\ status[next[g]] = status[g] /\ prev[next[g]] = g
      BY <3>1 DEF ListInv
    <3>3. next[g] # BUDDY_NULL => next[g] # free_frame_lists[k]
      BY <3>1, <3>2, <1>1 DEF ListInv
    <3>4. next[g] # BUDDY_NULL => prev'[next[g]] = g
      BY <3>2, <3>3
    <3>5. CASE g = free_frame_lists[k]
      <4>1. prev'[g] = f /\ status[g] = k /\ next'[f] = g
        BY <3>1, <3>5, <1>1 DEF ListInv
      <4> QED BY <4>1, <3>1, <3>2, <3>4, <1>1
    <3>6. CASE g # free_frame_lists[k]
      <4>1. prev'[g] = prev[g]
        BY <3>1, <3>6, <2>2
      <4>2. prev[g] # BUDDY_NULL => prev[g] \in S /\ status[prev[g]] = status[g] /\ next[prev[g]] = g
        BY <3>1 DEF ListInv
      <4>3. prev[g] # BUDDY_NULL => next'[prev[g]] = g
        BY <4>2
      <4>4. prev[g] = BUDDY_NULL => free_frame_lists[status[g]] = g /\ status[g] # k
        BY <3>1, <3>6 DEF ListInv
      <4>5. prev[g] = BUDDY_NULL => free_frame_lists'[status[g]] = g
        BY <4>4
      <4> QED BY <4>1, <4>2, <4>3, <4>5, <3>1, <3>2, <3>4
    <3> QED BY <3>5, <3>6
  <2> QED BY <2>1, <2>2
<1> QED BY <1>3, <1>4 DEF ListInv

(* Taking a block off its list keeps the links of the others consistent:   *)
(* its predecessor, or the list head, skips it, and so does its successor. *)
LEMMA UnlinkKeepsLists ==
  ASSUME TypeOK,
         NEW S \in SUBSET Frames, NEW g \in S, NEW k \in Orders, status[g] = k,
         \A x \in S : status[x] \in Orders,
         \A x \in S \ {g} :
           /\ status'[x] = status[x]
           /\ next'[x] = IF x = prev[g] THEN next[g] ELSE next[x]
           /\ prev'[x] = IF x = next[g] THEN prev[g] ELSE prev[x],
         free_frame_lists' = IF free_frame_lists[k] = g
                             THEN [free_frame_lists EXCEPT ![k] = next[g]]
                             ELSE free_frame_lists,
         ListInv(S, status, next, prev, free_frame_lists)
  PROVE  ListInv(S \ {g}, status', next', prev', free_frame_lists')
<1> USE DEF TypeOK
<1>1. BUDDY_NULL \notin Frames
  BY SizeAssumption DEF BUDDY_NULL, Frames
<1>2. free_frame_lists[status[g]] = g <=> prev[g] = BUDDY_NULL
  BY <1>1 DEF ListInv
<1>3. ASSUME NEW j \in Orders, free_frame_lists'[j] # BUDDY_NULL
      PROVE  /\ free_frame_lists'[j] \in S \ {g}
             /\ status'[free_frame_lists'[j]] = j
             /\ prev'[free_frame_lists'[j]] = BUDDY_NULL
  <2>1. CASE j = status[g] /\ free_frame_lists[status[g]] = g
    <3>1. free_frame_lists'[j] = next[g]
      BY <2>1
    <3>2. next[g] \in S /\ status[next[g]] = j /\ prev[next[g]] = g
      BY <3>1, <1>3, <2>1 DEF ListInv
    <3>3. next[g] # g
      BY <3>2, <2>1, <1>1, <1>2
    <3> QED BY <3>1, <3>2, <3>3, <2>1, <1>2
  <2>2. CASE ~(j = status[g] /\ free_frame_lists[status[g]] = g)
    <3>1. free_frame_lists'[j] = free_frame_lists[j]
      BY <2>2
    <3>2. /\ free_frame_lists[j] \in S
          /\ status[free_frame_lists[j]] = j
          /\ prev[free_frame_lists[j]] = BUDDY_NULL
          /\ free_frame_lists[j] # g
      BY <3>1, <1>3, <2>2 DEF ListInv
    <3>3. free_frame_lists[j] # next[g]
      BY <3>2, <1>1 DEF ListInv
    <3> QED BY <3>1, <3>2, <3>3
  <2> QED BY <2>1, <2>2
<1>4. ASSUME NEW f \in S \ {g}
      PROVE  /\ next'[f] # BUDDY_NULL
                  => next'[f] \in S \ {g} /\ status'[next'[f]] = status'[f] /\ prev'[next'[f]] = f
             /\ prev'[f] # BUDDY_NULL
                  => prev'[f] \in S \ {g} /\ status'[prev'[f]] = status'[f] /\ next'[prev'[f]] = f
             /\ prev'[f] = BUDDY_NULL => free_frame_lists'[status'[f]] = f
  <2>1. next'[f] # BUDDY_NULL
          => next'[f] \in S \ {g} /\ status'[next'[f]] = status'[f] /\ prev'[next'[f]] = f
    BY <1>1 DEF ListInv
  <2>2. prev'[f] # BUDDY_NULL
          => prev'[f] \in S \ {g} /\ status'[prev'[f]] = status'[f] /\ next'[prev'[f]] = f
    BY <1>1 DEF ListInv
  <2>3. prev'[f] = BUDDY_NULL => free_frame_lists'[status'[f]] = f
    BY <1>1, <1>2 DEF ListInv
  <2> QED BY <2>1, <2>2, <2>3
<1> QED BY <1>3, <1>4 DEF ListInv

(* The links of a list do not depend on descriptors off the lists. *)
LEMMA ListsOnlyOfMembers ==
  ASSUME NEW S \in SUBSET Frames,
         \A x \in S : status'[x] = status[x] /\ next'[x] = next[x] /\ prev'[x] = prev[x],
         free_frame_lists' = free_frame_lists,
         ListInv(S, status, next, prev, free_frame_lists)
  PROVE  ListInv(S, status', next', prev', free_frame_lists')
BY DEF ListInv

-----------------------------------------------------------------------------
(* The inductive invariant. *)

(* No status mark is an order. *)
LEMMA MarksAreNotOrders ==
  /\ BELONGED_FRAME \notin Orders /\ ALLOCATED_FRAME \notin Orders
  /\ RESERVED_FRAME \notin Orders /\ UNINIT_FRAME \notin Orders
  /\ BELONGED_FRAME # ALLOCATED_FRAME /\ BELONGED_FRAME # RESERVED_FRAME
  /\ BELONGED_FRAME # UNINIT_FRAME /\ ALLOCATED_FRAME # RESERVED_FRAME
  /\ ALLOCATED_FRAME # UNINIT_FRAME /\ RESERVED_FRAME # UNINIT_FRAME
BY DEF Orders, BELONGED_FRAME, ALLOCATED_FRAME, RESERVED_FRAME, UNINIT_FRAME

(* The invariant holds when buddy_init starts to build blocks. *)
LEMMA InitIndInv == Init => IndInv
<1> SUFFICES ASSUME Init PROVE IndInv
  OBVIOUS
<1> USE DEF Init
<1>1. TypeOK
  BY SizeAssumption DEF TypeOK, Frames, Orders, RESERVED_FRAME, UNINIT_FRAME
<1>2. Heads = {} /\ FreeBlocks = {}
  BY MarksAreNotOrders DEF Heads, FreeBlocks
<1>3. BlockShape /\ FreeLists
  BY <1>2 DEF BlockShape, FreeLists, ListInv
<1>4. Covered /\ Marks
  BY MarksAreNotOrders DEF Covered, Marks
<1>5. InProgress
  <2>1. MAX_ORDER \in Orders /\ 0 = 0 * BlockSize[MAX_ORDER]
    BY SizeAssumption, BlockSizeAssumption DEF Orders
  <2>2. Aligned(0, MAX_ORDER)
    BY <2>1, AlignedMultiple
  <2> QED BY <2>2 DEF InProgress
<1>6. InitDone
  BY DEF InitDone, Frames
<1> QED BY <1>1, <1>3, <1>4, <1>5, <1>6 DEF IndInv

(* One iteration of buddy_init keeps it. *)
LEMMA InitBlockIndInv ==
  IndInv /\ InitBlock => IndInv' /\ (IF AllFree(block_index, order) THEN Pushed(block_index, order)
                                                                    ELSE Kept)
<1> SUFFICES ASSUME IndInv, InitBlock,
                    NEW CONSTANT b, NEW CONSTANT k, b = block_index, k = order
             PROVE  IndInv' /\ IF AllFree(b, k) THEN Pushed(b, k) ELSE Kept
  OBVIOUS
<1> DEFINE p == BlockSize[k]
<1> USE DEF InitBlock
<1>1. /\ TypeOK /\ BlockShape /\ Covered /\ Marks /\ FreeLists /\ InProgress /\ InitDone
      /\ b \in Frames /\ b \in Nat /\ k \in Orders /\ p \in Nat \ {0}
  BY BlockSizeStep DEF IndInv, TypeOK, Frames
<1>2. /\ order' \in Orders /\ block_index' \in Frames /\ pc' \in {"init", "ready"}
      /\ request' = request /\ allocated_order' = allocated_order
  BY <1>1, SizeAssumption DEF Orders, Frames
<1>3. pc' = "init" => Aligned(block_index', order')
  <2>1. CASE b + p < TOTAL_FRAME
    <3>1. PICK q \in Nat : b = q * p
      BY <1>1, AlignedMultiple DEF InProgress
    <3>2. b + p = (q + 1) * p /\ q + 1 \in Nat /\ b + p \in Nat
      BY <3>1, <1>1
    <3> QED BY <3>2, <2>1, <1>1, AlignedMultiple
  <2>2. CASE ~(b + p < TOTAL_FRAME)
    <3>1. block_index' = 0 /\ 0 = 0 * BlockSize[order']
      BY <2>2, <1>2, BlockSizeStep
    <3> QED BY <3>1, <1>2, AlignedMultiple
  <2> QED BY <2>1, <2>2
<1>4. \A h : ~Floating(h) /\ ~Floating(h)'
  BY <1>2 DEF Floating
<1>5. InProgress'
  BY <1>2, <1>3 DEF InProgress
<1>6. p = 1 \/ order # 0
  BY BlockSizeAssumption
<1>7. CASE ~AllFree(b, k)
  <2>1. UNCHANGED <<status, next, prev, free_frame_lists>>
    BY <1>7
  <2>2. TypeOK'
    BY <2>1, <1>1, <1>2 DEF TypeOK
  <2>3. Heads' = Heads /\ FreeBlocks' = FreeBlocks /\ \A h : OrderOf(h)' = OrderOf(h)
    BY <2>1, <1>2, <1>4 DEF Heads, FreeBlocks, OrderOf
  <2>4. BlockShape' /\ Covered' /\ FreeLists'
    BY <2>1, <2>3, <1>1 DEF BlockShape, Covered, FreeLists, Aligned
  <2>5. order = 0 => status[b] # UNINIT_FRAME
    <3> SUFFICES ASSUME order = 0, status[b] = UNINIT_FRAME PROVE AllFree(b, k)
      BY <1>7
    <3>1. p = 1 /\ b + 1 <= TOTAL_FRAME
      BY <1>6, <1>1, SizeAssumption DEF Frames
    <3>2. \A j \in b .. b + p - 1 : j = b
      BY <3>1, <1>1
    <3> QED BY <3>1, <3>2 DEF AllFree
  <2>6. Marks' /\ InitDone'
    BY <2>1, <2>5, <1>1, <1>2, <1>6, SizeAssumption DEF Marks, InitDone, Frames, Orders
  <2>7. Kept
    BY <2>1, <2>3 DEF Kept
  <2> QED BY <2>2, <2>4, <2>6, <2>7, <1>5, <1>7 DEF IndInv
<1>8. CASE AllFree(b, k)
  <2>1. /\ b + p <= TOTAL_FRAME
        /\ \A j \in Frames : b <= j /\ j < b + p => status[j] = UNINIT_FRAME
    BY <1>8, <1>1, SizeAssumption DEF AllFree, Frames
  <2>2. /\ status' = [i \in Frames |->
               IF i = b THEN k ELSE IF i \in b + 1 .. b + p - 1
                                    THEN BELONGED_FRAME ELSE status[i]]
        /\ LinkFront(k, b)
    BY <1>8
  <2>3. /\ status'[b] = k
        /\ \A f \in Frames : b < f /\ f < b + p => status'[f] = BELONGED_FRAME
        /\ \A f \in Frames : status[f] # UNINIT_FRAME => status'[f] = status[f]
        /\ \A f \in Frames : f < b \/ f >= b + p => status'[f] = status[f]
    BY <2>1, <2>2, <1>1, SizeAssumption DEF Frames
  <2>4. Heads' = Heads \cup {b} /\ FreeBlocks' = FreeBlocks \cup {b} /\ b \notin Heads
    <3>1. status[b] = UNINIT_FRAME
      BY <2>1, <1>1
    <3>2. \A f \in Frames : status[f] = UNINIT_FRAME /\ f # b
             => status'[f] \in {UNINIT_FRAME, BELONGED_FRAME}
      BY <2>2
    <3> QED BY <3>1, <3>2, <2>3, <1>1, <1>4, MarksAreNotOrders DEF Heads, FreeBlocks
  <2>5. OrderOf(b)' = k /\ \A h \in Heads : OrderOf(h)' = OrderOf(h)
    <3>1. \A h \in Heads : h \in Frames /\ status'[h] = status[h]
      BY <2>3, MarksAreNotOrders DEF Heads
    <3> QED BY <3>1, <2>3, <1>1, <1>2, <1>4, MarksAreNotOrders DEF OrderOf
  <2>6. TypeOK'
    <3>1. status' \in [Frames -> -4 .. MAX_ORDER]
      BY <2>2, <1>1, SizeAssumption DEF TypeOK, Orders, BELONGED_FRAME
    <3>2. /\ next' \in [Frames -> Frames \cup {BUDDY_NULL}]
          /\ prev' \in [Frames -> Frames \cup {BUDDY_NULL}]
          /\ free_frame_lists' \in [Orders -> Frames \cup {BUDDY_NULL}]
      BY <2>2, <1>1 DEF TypeOK, LinkFront
    <3> QED BY <3>1, <3>2, <1>1, <1>2 DEF TypeOK
  <2>7. BlockShape'
    <3> SUFFICES ASSUME NEW h \in Heads'
                 PROVE  /\ OrderOf(h)' \in Orders
                        /\ h + BlockSize[OrderOf(h)'] <= TOTAL_FRAME
                        /\ Aligned(h, OrderOf(h)')
                        /\ \A f \in Frames : h < f /\ f < h + BlockSize[OrderOf(h)']
                                               => status'[f] = BELONGED_FRAME
      BY DEF BlockShape, Aligned
    <3>1. CASE h = b
      BY <3>1, <2>1, <2>3, <2>5, <1>1 DEF InProgress
    <3>2. CASE h # b
      BY <3>2, <2>3, <2>4, <2>5, <1>1, MarksAreNotOrders DEF BlockShape
    <3> QED BY <3>1, <3>2
  <2>8. Covered'
    <3> SUFFICES ASSUME NEW f \in Frames, status'[f] = BELONGED_FRAME
                 PROVE  \E h \in Heads' : h < f /\ f < h + BlockSize[OrderOf(h)']
      BY DEF Covered
    <3>1. CASE status[f] = BELONGED_FRAME
      BY <3>1, <2>4, <2>5, <1>1 DEF Covered
    <3>2. CASE status[f] # BELONGED_FRAME
      <4>1. b < f /\ f < b + p
        BY <3>2, <2>3, <1>1, MarksAreNotOrders, SizeAssumption DEF Frames
      <4> QED BY <4>1, <2>4, <2>5
    <3> QED BY <3>1, <3>2
  <2>9. Marks' /\ InitDone'
    <3>1. \A f \in Frames : status'[f] = RESERVED_FRAME <=> status[f] = RESERVED_FRAME
      BY <2>2, <2>3, <1>1, MarksAreNotOrders
    <3>2. \A f \in Frames : status'[f] = UNINIT_FRAME => status[f] = UNINIT_FRAME /\ f # b
      BY <2>2, <1>1, MarksAreNotOrders
    <3> QED BY <3>1, <3>2, <1>1, <1>2, <1>6, SizeAssumption
            DEF Marks, InitDone, Frames, Orders
  <2>10. FreeLists'
    <3>1. FreeBlocks \in SUBSET Frames /\ b \notin FreeBlocks
      BY <2>4 DEF FreeBlocks, Heads
    <3>2. \A x \in FreeBlocks : status[x] \in Orders /\ status'[x] = status[x]
      BY <2>3, MarksAreNotOrders DEF FreeBlocks
    <3>3. ListInv(FreeBlocks \cup {b}, status', next', prev', free_frame_lists')
      BY <3>1, <3>2, <2>2, <2>3, <1>1, LinkFrontKeepsLists DEF FreeLists
    <3> QED BY <3>3, <2>4 DEF FreeLists
  <2>11. Pushed(b, k)
    <3>1. b \in Frames \ FreeBlocks /\ \A x \in FreeBlocks : status'[x] = status[x]
      BY <2>3, <2>4, <1>1, MarksAreNotOrders DEF FreeBlocks, Heads
    <3> QED BY <3>1, <2>2, <2>3, <2>4 DEF Pushed
  <2> QED BY <2>6, <2>7, <2>8, <2>9, <2>10, <2>11, <1>5, <1>8 DEF IndInv
<1> QED BY <1>7, <1>8

(* Two blocks have no frame in common: the later one's first frame would   *)
(* be marked as behind the first frame of the earlier one.                 *)
LEMMA BlocksDisjoint ==
  ASSUME IndInv, NEW g \in Heads, NEW h \in Heads, g # h, NEW f \in Frames
  PROVE  ~( /\ g <= f /\ f < g + BlockSize[OrderOf(g)]
            /\ h <= f /\ f < h + BlockSize[OrderOf(h)] )
<1> SUFFICES ASSUME g <= f, f < g + BlockSize[OrderOf(g)],
                    h <= f, f < h + BlockSize[OrderOf(h)]
             PROVE  FALSE
  OBVIOUS
<1>1. BlockShape /\ g \in Frames /\ h \in Frames
  BY DEF IndInv, Heads
<1>2. /\ BlockSize[OrderOf(g)] \in Nat
      /\ BlockSize[OrderOf(h)] \in Nat
  BY <1>1, BlockSizeStep DEF BlockShape
<1>3. status[g] # BELONGED_FRAME /\ status[h] # BELONGED_FRAME
  BY MarksAreNotOrders DEF Heads
<1>4. CASE g < h
  BY <1>1, <1>2, <1>3, <1>4 DEF BlockShape, Frames
<1>5. CASE h < g
  BY <1>1, <1>2, <1>3, <1>5 DEF BlockShape, Frames
<1> QED BY <1>1, <1>4, <1>5 DEF Frames

(* The parts of the invariant that only look at blocks survive a step that *)
(* keeps the blocks, their orders and the marks of all other frames.       *)
LEMMA BlocksKept ==
  ASSUME IndInv, TypeOK', pc # "init", pc' # "init",
         Heads' = Heads,
         \A h \in Heads : OrderOf(h)' = OrderOf(h),
         \A f \in Frames \ Heads : status'[f] = status[f]
  PROVE  BlockShape' /\ Covered' /\ Marks' /\ InitDone'
<1>1. BlockShape /\ Covered /\ Marks
  BY DEF IndInv
<1>2. \A f \in Frames :
        /\ status'[f] = BELONGED_FRAME <=> status[f] = BELONGED_FRAME
        /\ status'[f] = RESERVED_FRAME <=> status[f] = RESERVED_FRAME
        /\ status'[f] = UNINIT_FRAME <=> status[f] = UNINIT_FRAME
  <2> TAKE f \in Frames
  <2>1. CASE f \in Heads
    <3>1. f \in Heads'
      BY <2>1
    <3>2. status[f] \in Orders \cup {ALLOCATED_FRAME} /\ status'[f] \in Orders \cup {ALLOCATED_FRAME}
      BY <2>1, <3>1 DEF Heads
    <3> QED BY <3>2, MarksAreNotOrders
  <2>2. CASE f \notin Heads
    BY <2>2
  <2> QED BY <2>1, <2>2
<1>3. BlockShape'
  BY <1>1, <1>2 DEF BlockShape, Aligned
<1>4. Covered'
  BY <1>1, <1>2 DEF Covered
<1>5. Marks' /\ InitDone'
  BY <1>1, <1>2 DEF Marks, InitDone
<1> QED BY <1>3, <1>4, <1>5

(* Taking the first block of a list keeps the invariant. *)
LEMMA BuddyAllocateIndInv ==
  ASSUME IndInv, NEW r \in Orders, BuddyAllocate(r)
  PROVE  IndInv' /\ \E g : Taken(g)
<1>1. PICK i \in r .. MAX_ORDER :
        /\ free_frame_lists[i] # BUDDY_NULL
        /\ free_frame_lists' = [free_frame_lists EXCEPT ![i] = next[free_frame_lists[i]]]
        /\ prev' = [f \in Frames |->
                      IF f = next[free_frame_lists[i]] THEN BUDDY_NULL ELSE prev[f]]
        /\ block_index' = free_frame_lists[i]
        /\ order' = i
  BY DEF BuddyAllocate
<1> SUFFICES ASSUME NEW CONSTANT c, c = free_frame_lists[i] PROVE IndInv' /\ Taken(c)
  OBVIOUS
<1>2. /\ pc = "ready" /\ pc' = "split" /\ request' = r
      /\ UNCHANGED <<status, next, allocated_order>>
  BY DEF BuddyAllocate
<1>3. TypeOK /\ BlockShape /\ FreeLists
  BY DEF IndInv
<1>4. i \in Orders /\ r <= i
  BY SizeAssumption DEF Orders
<1>5. c \in FreeBlocks /\ c \in Frames /\ status[c] = i /\ prev[c] = BUDDY_NULL
  BY <1>1, <1>3, <1>4 DEF FreeLists, ListInv, FreeBlocks
<1>6. TypeOK'
  BY <1>1, <1>2, <1>3, <1>4, <1>5 DEF TypeOK
<1>7. \A h : ~Floating(h) /\ (Floating(h)' <=> h = c)
  BY <1>1, <1>2 DEF Floating
<1>8. Heads' = Heads /\ FreeBlocks' = FreeBlocks \ {c}
  BY <1>2, <1>7 DEF Heads, FreeBlocks
<1>9. \A h \in Heads : OrderOf(h)' = OrderOf(h)
  BY <1>1, <1>2, <1>4, <1>5, <1>7, MarksAreNotOrders DEF OrderOf
<1>10. BlockShape' /\ Covered' /\ Marks' /\ InitDone'
  BY <1>2, <1>6, <1>8, <1>9, BlocksKept
<1>11. FreeLists'
  <2>1. FreeBlocks \in SUBSET Frames /\ \A x \in FreeBlocks : status[x] \in Orders
    BY DEF FreeBlocks
  <2>2. \A x \in FreeBlocks \ {c} :
           /\ status'[x] = status[x]
           /\ next'[x] = IF x = prev[c] THEN next[c] ELSE next[x]
           /\ prev'[x] = IF x = next[c] THEN prev[c] ELSE prev[x]
    <3>1. BUDDY_NULL \notin Frames
      BY SizeAssumption DEF Frames, BUDDY_NULL
    <3> QED BY <3>1, <2>1, <1>1, <1>2, <1>5
  <2>3. free_frame_lists' = IF free_frame_lists[i] = c
                            THEN [free_frame_lists EXCEPT ![i] = next[c]]
                            ELSE free_frame_lists
    BY <1>1
  <2>4. ListInv(FreeBlocks \ {c}, status', next', prev', free_frame_lists')
    BY <2>1, <2>2, <2>3, <1>3, <1>4, <1>5, UnlinkKeepsLists DEF FreeLists
  <2> QED BY <2>4, <1>8 DEF FreeLists
<1>12. InProgress'
  BY <1>1, <1>2, <1>4, <1>5 DEF InProgress
<1>13. Taken(c)
  <2>1. \A x \in FreeBlocks : x # prev[c]
    BY <1>5, SizeAssumption DEF FreeBlocks, Frames, BUDDY_NULL
  <2> QED BY <2>1, <1>2, <1>5, <1>8 DEF Taken
<1> QED BY <1>6, <1>10, <1>11, <1>12, <1>13 DEF IndInv

(* Handing the block out keeps the invariant. *)
LEMMA AllocateReturnIndInv == IndInv /\ AllocateReturn => IndInv' /\ Kept
<1> SUFFICES ASSUME IndInv, AllocateReturn, NEW CONSTANT b, b = block_index PROVE IndInv' /\ Kept
  OBVIOUS
<1>1. /\ pc = "split" /\ pc' = "ready" /\ order = request
      /\ status' = [status EXCEPT ![b] = ALLOCATED_FRAME]
      /\ next' = [next EXCEPT ![b] = BUDDY_NULL]
      /\ prev' = [prev EXCEPT ![b] = BUDDY_NULL]
      /\ allocated_order' = [allocated_order EXCEPT ![b] = request]
      /\ free_frame_lists' = free_frame_lists
      /\ block_index' = 0 /\ order' = 0 /\ request' = 0
  BY DEF AllocateReturn, Return
<1>2. TypeOK /\ FreeLists /\ InProgress /\ b \in Frames /\ order \in Orders
  BY DEF IndInv, TypeOK
<1>3. TypeOK'
  BY <1>1, <1>2, SizeAssumption DEF TypeOK, Orders, Frames, ALLOCATED_FRAME
<1>4. \A h : (Floating(h) <=> h = b) /\ ~Floating(h)'
  BY <1>1 DEF Floating
<1>5. status[b] \in Orders
  BY <1>1, <1>2 DEF InProgress
<1>6. \A f \in Frames : f # b => status'[f] = status[f] /\ allocated_order'[f] = allocated_order[f]
  BY <1>1, <1>2 DEF TypeOK
<1>7. status'[b] = ALLOCATED_FRAME /\ allocated_order'[b] = order
  BY <1>1, <1>2 DEF TypeOK
<1>8. Heads' = Heads /\ FreeBlocks' = FreeBlocks
  BY <1>2, <1>4, <1>5, <1>6, <1>7, MarksAreNotOrders DEF Heads, FreeBlocks
<1>9. \A h \in Heads : OrderOf(h)' = OrderOf(h)
  BY <1>4, <1>6, <1>7 DEF OrderOf, Heads
<1>10. BlockShape' /\ Covered' /\ Marks' /\ InitDone'
  <2>1. b \in Heads
    BY <1>2, <1>5 DEF Heads
  <2> QED BY <2>1, <1>1, <1>3, <1>6, <1>8, <1>9, BlocksKept
<1>11. FreeLists'
  <2>1. FreeBlocks \in SUBSET Frames /\ b \notin FreeBlocks
    BY <1>4 DEF FreeBlocks
  <2>2. \A x \in FreeBlocks : status'[x] = status[x] /\ next'[x] = next[x] /\ prev'[x] = prev[x]
    BY <2>1, <1>1, <1>2, <1>6 DEF TypeOK
  <2>3. ListInv(FreeBlocks, status', next', prev', free_frame_lists')
    BY <2>1, <2>2, <1>1, <1>2, ListsOnlyOfMembers DEF FreeLists
  <2> QED BY <2>3, <1>8 DEF FreeLists
<1>12. InProgress'
  BY <1>1 DEF InProgress
<1>13. Kept
  <2>1. FreeBlocks \subseteq Frames /\ b \notin FreeBlocks
    BY <1>4 DEF FreeBlocks
  <2> QED BY <2>1, <1>1, <1>2, <1>6, <1>8 DEF Kept, TypeOK
<1> QED BY <1>3, <1>10, <1>11, <1>12, <1>13 DEF IndInv

(* Taking a block back from its caller keeps the invariant. *)
LEMMA BuddyFreeIndInv ==
  ASSUME IndInv, NEW c \in Frames, BuddyFree(c)
  PROVE  IndInv' /\ Kept
<1>1. /\ pc = "ready" /\ pc' = "merge" /\ status[c] = ALLOCATED_FRAME
      /\ block_index' = c /\ order' = allocated_order[c]
      /\ status' = [status EXCEPT ![c] = allocated_order[c]]
      /\ UNCHANGED <<next, prev, allocated_order, free_frame_lists, request>>
  BY DEF BuddyFree
<1>2. TypeOK /\ BlockShape /\ FreeLists
  BY DEF IndInv
<1>3. c \in Heads /\ \A h : ~Floating(h) /\ (Floating(h)' <=> h = c)
  BY <1>1 DEF Heads, Floating
<1>4. OrderOf(c) = allocated_order[c] /\ allocated_order[c] \in Orders
  BY <1>1, <1>2, <1>3 DEF OrderOf, BlockShape
<1>5. /\ status'[c] = allocated_order[c]
      /\ \A f \in Frames : f # c => status'[f] = status[f]
  BY <1>1, <1>2 DEF TypeOK
<1>6. TypeOK'
  BY <1>1, <1>2, <1>4, SizeAssumption DEF TypeOK, Orders
<1>7. Heads' = Heads /\ FreeBlocks' = FreeBlocks
  BY <1>1, <1>3, <1>4, <1>5, MarksAreNotOrders DEF Heads, FreeBlocks
<1>8. \A h \in Heads : OrderOf(h)' = OrderOf(h)
  BY <1>1, <1>3, <1>4, <1>5 DEF OrderOf, Heads
<1>9. BlockShape' /\ Covered' /\ Marks' /\ InitDone'
  BY <1>1, <1>3, <1>5, <1>6, <1>7, <1>8, BlocksKept
<1>10. FreeLists'
  <2>1. FreeBlocks \in SUBSET Frames /\ c \notin FreeBlocks
    BY <1>1, MarksAreNotOrders DEF FreeBlocks
  <2>2. \A x \in FreeBlocks : status'[x] = status[x] /\ next'[x] = next[x] /\ prev'[x] = prev[x]
    BY <2>1, <1>1, <1>5
  <2>3. ListInv(FreeBlocks, status', next', prev', free_frame_lists')
    BY <2>1, <2>2, <1>1, <1>2, ListsOnlyOfMembers DEF FreeLists
  <2> QED BY <2>3, <1>7 DEF FreeLists
<1>11. InProgress'
  BY <1>1, <1>4, <1>5 DEF InProgress
<1>12. Kept
  <2>1. FreeBlocks \subseteq Frames /\ c \notin FreeBlocks
    BY <1>1, MarksAreNotOrders DEF FreeBlocks
  <2> QED BY <2>1, <1>1, <1>5, <1>7 DEF Kept
<1> QED BY <1>6, <1>9, <1>10, <1>11, <1>12 DEF IndInv

(* Putting the merged block on its list keeps the invariant. *)
LEMMA FreeReturnIndInv == IndInv /\ FreeReturn => IndInv' /\ Pushed(block_index, order)
<1> SUFFICES ASSUME IndInv, FreeReturn,
                    NEW CONSTANT b, NEW CONSTANT k, b = block_index, k = order
             PROVE  IndInv' /\ Pushed(b, k)
  OBVIOUS
<1>1. /\ pc = "merge" /\ pc' = "ready"
      /\ status' = [status EXCEPT ![b] = k]
      /\ LinkFront(k, b)
      /\ allocated_order' = allocated_order
      /\ block_index' = 0 /\ order' = 0 /\ request' = 0
  BY DEF FreeReturn, Return
<1>2. TypeOK /\ FreeLists /\ InProgress /\ b \in Frames /\ k \in Orders
  BY DEF IndInv, TypeOK
<1>3. TypeOK'
  BY <1>1, <1>2, SizeAssumption DEF TypeOK, Orders, Frames, LinkFront
<1>4. \A h : (Floating(h) <=> h = b) /\ ~Floating(h)'
  BY <1>1 DEF Floating
<1>5. status[b] \in Orders /\ status'[b] = k /\ \A f \in Frames : f # b => status'[f] = status[f]
  BY <1>1, <1>2 DEF InProgress, TypeOK
<1>6. Heads' = Heads /\ FreeBlocks' = FreeBlocks \cup {b} /\ b \in Heads /\ b \notin FreeBlocks
  BY <1>2, <1>4, <1>5 DEF Heads, FreeBlocks
<1>7. \A h \in Heads : OrderOf(h)' = OrderOf(h)
  BY <1>1, <1>2, <1>4, <1>5, MarksAreNotOrders DEF OrderOf, Heads
<1>8. BlockShape' /\ Covered' /\ Marks' /\ InitDone'
  BY <1>1, <1>3, <1>5, <1>6, <1>7, BlocksKept
<1>9. FreeLists'
  <2>1. FreeBlocks \in SUBSET Frames /\ b \in Frames \ FreeBlocks
    BY <1>2, <1>6 DEF FreeBlocks
  <2>2. \A x \in FreeBlocks : status[x] \in Orders /\ status'[x] = status[x]
    BY <1>5, <1>6 DEF FreeBlocks
  <2>3. ListInv(FreeBlocks \cup {b}, status', next', prev', free_frame_lists')
    BY <2>1, <2>2, <1>1, <1>2, <1>5, LinkFrontKeepsLists DEF FreeLists
  <2> QED BY <2>3, <1>6 DEF FreeLists
<1>10. InProgress'
  BY <1>1 DEF InProgress
<1>11. Pushed(b, k)
  <2>1. FreeBlocks \subseteq Frames
    BY DEF FreeBlocks
  <2> QED BY <2>1, <1>1, <1>2, <1>5, <1>6 DEF Pushed
<1> QED BY <1>3, <1>8, <1>9, <1>10, <1>11 DEF IndInv

(* Splitting off the upper half keeps the invariant: the half was inside   *)
(* the block, so no other block has a claim on it.                         *)
LEMMA SplitBlockIndInv ==
  IndInv /\ SplitBlock => IndInv' /\ Pushed(block_index + BlockSize[order - 1], order - 1)
<1> SUFFICES ASSUME IndInv, SplitBlock,
                    NEW CONSTANT b, NEW CONSTANT k, NEW CONSTANT p, NEW CONSTANT u,
                    b = block_index, k = order - 1, p = BlockSize[k], u = b + p
             PROVE  IndInv' /\ Pushed(u, k)
  OBVIOUS
<1>1. /\ TypeOK /\ BlockShape /\ Covered /\ Marks /\ FreeLists /\ InProgress
      /\ b \in Frames /\ b \in Nat /\ order \in Orders /\ request \in Orders
  BY DEF IndInv, TypeOK, Frames
<1>2. pc = "split" /\ order > request /\ order' = k /\ UNCHANGED <<allocated_order, pc, block_index, request>>
  BY DEF SplitBlock
<1>3. k \in Orders /\ order > 0 /\ request <= k /\ order = k + 1 /\ k < MAX_ORDER
  BY <1>1, <1>2, SizeAssumption DEF Orders
<1>4. p \in Nat \ {0} /\ BlockSize[order] = 2 * p
  BY <1>3, BlockSizeStep
<1>5. \A h : (Floating(h) <=> h = b) /\ (Floating(h)' <=> h = b)
  BY <1>2 DEF Floating
<1>6. status[b] \in Orders /\ b \in Heads /\ OrderOf(b) = order
  BY <1>1, <1>2, <1>5 DEF InProgress, Heads, OrderOf
<1>7. /\ b + 2 * p <= TOTAL_FRAME /\ Aligned(b, order)
      /\ \A f \in Frames : b < f /\ f < b + 2 * p => status[f] = BELONGED_FRAME
  BY <1>1, <1>4, <1>6 DEF BlockShape
<1>8. BuddyOf(b, k) = u /\ Aligned(b, k) /\ Aligned(u, k)
  BY <1>1, <1>3, <1>7, SplitAligned
<1>9. status' = [status EXCEPT ![u] = k] /\ LinkFront(k, u)
  BY <1>8 DEF SplitBlock
<1>10. u \in Frames /\ status[u] = BELONGED_FRAME /\ u # b /\ u \notin Heads
  <2>1. u \in Frames /\ b < u /\ u < b + 2 * p
    BY <1>1, <1>4, <1>7, SizeAssumption DEF Frames
  <2>2. u # b
    BY <1>1, <1>4
  <2> QED BY <2>1, <2>2, <1>7, MarksAreNotOrders DEF Heads
<1>11. status'[u] = k /\ \A f \in Frames : f # u => status'[f] = status[f]
  BY <1>1, <1>9, <1>10 DEF TypeOK
<1>12. TypeOK'
  <2>1. status' \in [Frames -> -4 .. MAX_ORDER]
    BY <1>1, <1>3, <1>9, <1>10, SizeAssumption DEF TypeOK, Orders
  <2>2. /\ next' \in [Frames -> Frames \cup {BUDDY_NULL}]
        /\ prev' \in [Frames -> Frames \cup {BUDDY_NULL}]
        /\ free_frame_lists' \in [Orders -> Frames \cup {BUDDY_NULL}]
    BY <1>1, <1>3, <1>9, <1>10 DEF TypeOK, LinkFront
  <2> QED BY <2>1, <2>2, <1>1, <1>2, <1>3 DEF TypeOK
<1>13. Heads' = Heads \cup {u} /\ FreeBlocks' = FreeBlocks \cup {u} /\ u \notin FreeBlocks
  BY <1>3, <1>5, <1>10, <1>11, MarksAreNotOrders DEF Heads, FreeBlocks
<1>14. /\ OrderOf(b)' = k /\ OrderOf(u)' = k
       /\ \A h \in Heads : h # b => OrderOf(h)' = OrderOf(h)
  <2>1. OrderOf(b)' = k
    BY <1>2, <1>5 DEF OrderOf
  <2>2. ASSUME NEW h \in Heads, h # b PROVE OrderOf(h)' = OrderOf(h)
    BY <2>2, <1>2, <1>5, <1>10, <1>11 DEF OrderOf, Heads
  <2>3. ASSUME NEW h, h = u PROVE OrderOf(h)' = k
    BY <2>3, <1>3, <1>5, <1>10, <1>11, MarksAreNotOrders DEF OrderOf
  <2> QED BY <2>1, <2>2, <2>3
<1>15. BlockShape'
  <2> SUFFICES ASSUME NEW h \in Heads'
               PROVE  /\ OrderOf(h)' \in Orders
                      /\ h + BlockSize[OrderOf(h)'] <= TOTAL_FRAME
                      /\ Aligned(h, OrderOf(h)')
                      /\ \A f \in Frames : h < f /\ f < h + BlockSize[OrderOf(h)']
                                             => status'[f] = BELONGED_FRAME
    BY DEF BlockShape, Aligned
  <2>1. CASE h = b
    <3>1. OrderOf(h)' = k /\ b + p <= TOTAL_FRAME
      BY <2>1, <1>1, <1>4, <1>7, <1>14, SizeAssumption
    <3>2. ASSUME NEW f \in Frames, b < f, f < b + p PROVE status'[f] = BELONGED_FRAME
      BY <3>2, <1>1, <1>4, <1>7, <1>11 DEF Frames
    <3> QED BY <3>1, <3>2, <2>1, <1>3, <1>8
  <2>2. CASE h = u
    BY <2>2, <1>1, <1>3, <1>4, <1>7, <1>8, <1>11, <1>14 DEF Frames
  <2>3. CASE h # b /\ h # u
    <3>1. h \in Heads /\ OrderOf(h)' = OrderOf(h)
      BY <2>3, <1>13, <1>14
    <3>2. ~(h <= u /\ u < h + BlockSize[OrderOf(h)])
      <4>1. b <= u /\ u < b + BlockSize[OrderOf(b)]
        BY <1>1, <1>4, <1>6
      <4> QED BY <4>1, <3>1, <2>3, <1>6, <1>10, BlocksDisjoint
    <3>3. h \in Frames
      BY <3>1 DEF Heads
    <3> QED BY <3>1, <3>2, <3>3, <1>1, <1>10, <1>11 DEF BlockShape, Frames
  <2> QED BY <2>1, <2>2, <2>3
<1>16. Covered'
  <2> SUFFICES ASSUME NEW f \in Frames, status'[f] = BELONGED_FRAME
               PROVE  \E h \in Heads' : h < f /\ f < h + BlockSize[OrderOf(h)']
    BY DEF Covered
  <2>1. f # u /\ status[f] = BELONGED_FRAME
    BY <1>3, <1>11, MarksAreNotOrders
  <2>2. PICK h \in Heads : h < f /\ f < h + BlockSize[OrderOf(h)]
    BY <2>1, <1>1 DEF Covered
  <2>3. CASE h # b
    BY <2>2, <2>3, <1>13, <1>14
  <2>4. CASE h = b /\ f < u
    BY <2>2, <2>4, <1>6, <1>13, <1>14
  <2>5. CASE h = b /\ f > u
    <3>1. f < u + p
      BY <2>2, <2>5, <1>1, <1>4, <1>6
    <3> QED BY <3>1, <2>5, <1>13, <1>14
  <2> QED BY <2>1, <2>3, <2>4, <2>5, <1>1, <1>4 DEF Frames
<1>17. Marks' /\ InitDone'
  BY <1>1, <1>2, <1>3, <1>10, <1>11, MarksAreNotOrders DEF Marks, InitDone
<1>18. FreeLists'
  <2>1. FreeBlocks \in SUBSET Frames /\ u \in Frames \ FreeBlocks
    BY <1>10, <1>13 DEF FreeBlocks
  <2>2. \A x \in FreeBlocks : status[x] \in Orders /\ status'[x] = status[x]
    BY <1>11, <1>13 DEF FreeBlocks
  <2>3. ListInv(FreeBlocks \cup {u}, status', next', prev', free_frame_lists')
    BY <2>1, <2>2, <1>1, <1>3, <1>9, <1>11, LinkFrontKeepsLists DEF FreeLists
  <2> QED BY <2>3, <1>13 DEF FreeLists
<1>19. InProgress'
  BY <1>2, <1>3, <1>6, <1>10, <1>11, <1>1 DEF InProgress
<1>20. Pushed(u, k)
  <2>1. \A x \in FreeBlocks : x \in Frames /\ x # u
    BY <1>13 DEF FreeBlocks
  <2> QED BY <2>1, <1>9, <1>10, <1>11, <1>13 DEF Pushed
<1> QED BY <1>12, <1>15, <1>16, <1>17, <1>18, <1>19, <1>20 DEF IndInv

(* Merging keeps the invariant: the two halves are blocks of one order     *)
(* that lie side by side, and the lower one starts at a multiple of the    *)
(* doubled size.                                                           *)
LEMMA MergeBuddyIndInv == IndInv /\ MergeBuddy => IndInv' /\ Taken(BuddyOf(block_index, order))
<1> SUFFICES ASSUME IndInv, MergeBuddy,
                    NEW CONSTANT b, NEW CONSTANT k, NEW CONSTANT g,
                    b = block_index, k = order, g = BuddyOf(block_index, order)
             PROVE  IndInv' /\ Taken(g)
  OBVIOUS
<1> DEFINE p == BlockSize[k]
           lo == IF g < b THEN g ELSE b
           up == IF g < b THEN b ELSE g
<1>1. /\ TypeOK /\ BlockShape /\ Covered /\ Marks /\ FreeLists /\ InProgress
      /\ b \in Frames /\ b \in Nat /\ k \in Orders
  BY DEF IndInv, TypeOK, Frames
<1>2. /\ pc = "merge" /\ pc' = pc /\ request' = request /\ order' = k + 1
      /\ k < MAX_ORDER /\ g < TOTAL_FRAME /\ status[g] = k
      /\ free_frame_lists' = UnlinkedHeads(k, g)
      /\ next' = [UnlinkedNext(k, g) EXCEPT ![up] = BUDDY_NULL]
      /\ prev' = [UnlinkedPrev(k, g) EXCEPT ![up] = BUDDY_NULL]
      /\ status' = [status EXCEPT ![up] = BELONGED_FRAME]
      /\ allocated_order' = [allocated_order EXCEPT ![up] = -1]
      /\ block_index' = lo
  BY DEF MergeBuddy, CanMerge
<1>3. p \in Nat \ {0} /\ BlockSize[k + 1] = 2 * p /\ k + 1 \in Orders
  BY <1>1, <1>2, BlockSizeStep, SizeAssumption DEF Orders
<1>4. \A h : Floating(h) <=> h = b
  BY <1>2 DEF Floating
<1>5. status[b] \in Orders /\ b \in Heads /\ OrderOf(b) = k
  BY <1>1, <1>2, <1>4 DEF InProgress, Heads, OrderOf
<1>6. /\ g \in Frames /\ lo \in Frames /\ up \in Frames
      /\ up = lo + p /\ lo \in Nat /\ lo # up /\ {lo, up} = {b, g}
      /\ Aligned(lo, k + 1)
  <2>1. Aligned(b, k)
    BY <1>1, <1>5 DEF BlockShape
  <2>2. \/ g = b + p /\ Aligned(b, k + 1)
        \/ g = b - p /\ g \in Nat /\ Aligned(b - p, k + 1)
    BY <2>1, <1>1, <1>2, BuddyOfAligned
  <2> QED BY <2>2, <1>1, <1>2, <1>3, SizeAssumption DEF Frames
<1>7. g \in Heads /\ g \in FreeBlocks /\ OrderOf(g) = k /\ g # b
  <2>1. g # b
    BY <1>6
  <2> QED BY <2>1, <1>1, <1>2, <1>4, <1>6, MarksAreNotOrders DEF Heads, FreeBlocks, OrderOf
<1>8. status[lo] \in Orders /\ lo \in Heads /\ up \in Heads /\ OrderOf(lo) = k /\ OrderOf(up) = k
  BY <1>1, <1>2, <1>5, <1>6, <1>7
<1>9. status'[up] = BELONGED_FRAME /\ \A f \in Frames : f # up => status'[f] = status[f]
  BY <1>1, <1>2, <1>6 DEF TypeOK
<1>10. TypeOK'
  <2>1. /\ UnlinkedNext(k, g) \in [Frames -> Frames \cup {BUDDY_NULL}]
        /\ UnlinkedPrev(k, g) \in [Frames -> Frames \cup {BUDDY_NULL}]
        /\ UnlinkedHeads(k, g) \in [Orders -> Frames \cup {BUDDY_NULL}]
    BY <1>1, <1>6 DEF TypeOK, UnlinkedNext, UnlinkedPrev, UnlinkedHeads
  <2>2. /\ next' \in [Frames -> Frames \cup {BUDDY_NULL}]
        /\ prev' \in [Frames -> Frames \cup {BUDDY_NULL}]
        /\ free_frame_lists' \in [Orders -> Frames \cup {BUDDY_NULL}]
    BY <2>1, <1>2, <1>6
  <2>3. /\ status' \in [Frames -> -4 .. MAX_ORDER]
        /\ allocated_order' \in [Frames -> Orders \cup {-1}]
    BY <1>1, <1>2, <1>6, SizeAssumption DEF TypeOK, BELONGED_FRAME
  <2> QED BY <2>2, <2>3, <1>1, <1>2, <1>3, <1>6 DEF TypeOK
<1>11. \A h : Floating(h)' <=> h = lo
  BY <1>2 DEF Floating
<1>12. Heads' = Heads \ {up} /\ FreeBlocks' = FreeBlocks \ {g}
  <2>1. Heads' = Heads \ {up}
    BY <1>6, <1>9, MarksAreNotOrders DEF Heads
  <2>2. FreeBlocks' = FreeBlocks \ {g}
    BY <1>4, <1>6, <1>9, <1>11, MarksAreNotOrders DEF FreeBlocks
  <2> QED BY <2>1, <2>2
<1>13. /\ \A h : h = lo => OrderOf(h)' = k + 1
       /\ \A h \in Heads : h # lo /\ h # up => OrderOf(h)' = OrderOf(h)
  <2>1. \A h : h = lo => OrderOf(h)' = k + 1
    BY <1>2, <1>11 DEF OrderOf
  <2>2. ASSUME NEW h \in Heads, h # lo, h # up PROVE OrderOf(h)' = OrderOf(h)
    <3>1. h \in Frames /\ ~Floating(h) /\ ~Floating(h)'
      BY <2>2, <1>4, <1>6, <1>11 DEF Heads
    <3>2. status'[h] = status[h] /\ allocated_order'[h] = allocated_order[h]
      BY <3>1, <2>2, <1>1, <1>2, <1>9 DEF TypeOK
    <3> QED BY <3>1, <3>2 DEF OrderOf
  <2> QED BY <2>1, <2>2
<1>14. /\ lo + 2 * p <= TOTAL_FRAME
       /\ \A f \in Frames : lo < f /\ f < lo + p => status[f] = BELONGED_FRAME
       /\ \A f \in Frames : up < f /\ f < up + p => status[f] = BELONGED_FRAME
  BY <1>1, <1>3, <1>6, <1>8 DEF BlockShape
<1>15. BlockShape'
  <2> SUFFICES ASSUME NEW h \in Heads'
               PROVE  /\ OrderOf(h)' \in Orders
                      /\ h + BlockSize[OrderOf(h)'] <= TOTAL_FRAME
                      /\ Aligned(h, OrderOf(h)')
                      /\ \A f \in Frames : h < f /\ f < h + BlockSize[OrderOf(h)']
                                             => status'[f] = BELONGED_FRAME
    BY DEF BlockShape, Aligned
  <2>1. CASE h = lo
    <3>1. ASSUME NEW f \in Frames, lo < f, f < lo + 2 * p PROVE status'[f] = BELONGED_FRAME
      BY <3>1, <1>3, <1>6, <1>9, <1>14 DEF Frames
    <3> QED BY <3>1, <2>1, <1>3, <1>6, <1>13, <1>14
  <2>2. CASE h # lo
    <3>1. h \in Heads /\ OrderOf(h)' = OrderOf(h)
      BY <2>2, <1>12, <1>13
    <3> QED BY <3>1, <1>1, <1>9 DEF BlockShape
  <2> QED BY <2>1, <2>2
<1>16. Covered'
  <2> SUFFICES ASSUME NEW f \in Frames, status'[f] = BELONGED_FRAME
               PROVE  \E h \in Heads' : h < f /\ f < h + BlockSize[OrderOf(h)']
    BY DEF Covered
  <2>1. lo \in Heads' /\ \A h : h = lo => BlockSize[OrderOf(h)'] = 2 * p
    BY <1>3, <1>6, <1>8, <1>12, <1>13
  <2>2. CASE lo < f /\ f < lo + 2 * p
    BY <2>1, <2>2
  <2>3. CASE ~(lo < f /\ f < lo + 2 * p)
    <3>1. f # up /\ status[f] = BELONGED_FRAME
      BY <2>3, <1>3, <1>6, <1>9
    <3>2. PICK h \in Heads : h < f /\ f < h + BlockSize[OrderOf(h)]
      BY <3>1, <1>1 DEF Covered
    <3>3. h # lo /\ h # up
      BY <3>2, <2>3, <1>3, <1>6, <1>8 DEF Frames
    <3> QED BY <3>2, <3>3, <1>12, <1>13
  <2> QED BY <2>2, <2>3
<1>17. Marks' /\ InitDone'
  <2>1. status[up] \in Orders
    BY <1>1, <1>2, <1>5, <1>6
  <2> QED BY <2>1, <1>1, <1>2, <1>6, <1>9, MarksAreNotOrders DEF Marks, InitDone
<1>18. \A x \in FreeBlocks \ {g} :
         /\ status'[x] = status[x]
         /\ next'[x] = IF x = prev[g] THEN next[g] ELSE next[x]
         /\ prev'[x] = IF x = next[g] THEN prev[g] ELSE prev[x]
  <2>1. FreeBlocks \in SUBSET Frames /\ \A x \in FreeBlocks : status[x] \in Orders /\ x # b
    BY <1>4 DEF FreeBlocks
  <2>2. BUDDY_NULL \notin Frames
    BY SizeAssumption DEF Frames, BUDDY_NULL
  <2>3. IsHead(k, g) <=> prev[g] = BUDDY_NULL
    BY <2>2, <1>1, <1>2, <1>6, <1>7 DEF IsHead, FreeLists, ListInv
  <2>4. \A x \in FreeBlocks \ {g} : x \in Frames /\ x # up
    BY <2>1, <1>6
  <2> SUFFICES ASSUME NEW x \in FreeBlocks \ {g}
               PROVE  /\ status'[x] = status[x]
                      /\ next'[x] = IF x = prev[g] THEN next[g] ELSE next[x]
                      /\ prev'[x] = IF x = next[g] THEN prev[g] ELSE prev[x]
    OBVIOUS
  <2>5. x \in Frames /\ x # up /\ status'[x] = status[x]
    BY <2>4, <1>9
  <2>6. next'[x] = UnlinkedNext(k, g)[x]
    BY <2>5, <1>1, <1>2 DEF UnlinkedNext, TypeOK
  <2>7. UnlinkedNext(k, g)[x] = IF x = prev[g] THEN next[g] ELSE next[x]
    BY <2>5, <2>2, <2>3, <1>1 DEF UnlinkedNext, TypeOK
  <2>8. prev'[x] = UnlinkedPrev(k, g)[x]
    BY <2>5, <1>2 DEF UnlinkedPrev
  <2>9. UnlinkedPrev(k, g)[x] = IF x = next[g] THEN prev[g] ELSE prev[x]
    BY <2>5, <2>3 DEF UnlinkedPrev
  <2> QED BY <2>5, <2>6, <2>7, <2>8, <2>9
<1>19. FreeLists'
  <2>1. FreeBlocks \in SUBSET Frames /\ \A x \in FreeBlocks : status[x] \in Orders
    BY DEF FreeBlocks
  <2>2. free_frame_lists' = IF free_frame_lists[k] = g
                            THEN [free_frame_lists EXCEPT ![k] = next[g]]
                            ELSE free_frame_lists
    BY <1>2 DEF UnlinkedHeads, IsHead
  <2>3. TypeOK /\ ListInv(FreeBlocks, status, next, prev, free_frame_lists)
    BY <1>1 DEF FreeLists
  <2>4. k \in Orders /\ g \in FreeBlocks /\ status[g] = k
    BY <1>1, <1>2, <1>7
  <2>5. ListInv(FreeBlocks \ {g}, status', next', prev', free_frame_lists')
    BY <2>1, <2>2, <2>3, <2>4, <1>18, UnlinkKeepsLists
  <2> QED BY <2>5, <1>12 DEF FreeLists
<1>20. InProgress'
  BY <1>2, <1>6, <1>8, <1>9 DEF InProgress
<1>21. Taken(g)
  BY <1>7, <1>12, <1>18 DEF Taken
<1> QED BY <1>10, <1>15, <1>16, <1>17, <1>19, <1>20, <1>21 DEF IndInv

-----------------------------------------------------------------------------
(* The invariant holds in every reachable state. *)
THEOREM IndInvariant == Spec => []IndInv
<1>1. ASSUME IndInv, [Next]_vars PROVE IndInv'
  <2>1. CASE InitBlock
    BY <1>1, <2>1, InitBlockIndInv
  <2>2. CASE SplitBlock
    BY <1>1, <2>2, SplitBlockIndInv
  <2>3. CASE AllocateReturn
    BY <1>1, <2>3, AllocateReturnIndInv
  <2>4. CASE MergeBuddy
    BY <1>1, <2>4, MergeBuddyIndInv
  <2>5. CASE FreeReturn
    BY <1>1, <2>5, FreeReturnIndInv
  <2>6. ASSUME NEW k \in Orders, BuddyAllocate(k) PROVE IndInv'
    BY <1>1, <2>6, BuddyAllocateIndInv
  <2>7. ASSUME NEW b \in Frames, BuddyFree(b) PROVE IndInv'
    BY <1>1, <2>7, BuddyFreeIndInv
  <2>8. CASE UNCHANGED vars
    BY <1>1, <2>8 DEF IndInv, TypeOK, BlockShape, Covered, Marks, FreeLists, ListInv,
       InProgress, InitDone, FreeBlocks, Heads, OrderOf, Floating, Aligned,
       vars, desc, local
  <2> QED BY <1>1, <2>1, <2>2, <2>3, <2>4, <2>5, <2>6, <2>7, <2>8 DEF Next, Step
<1> QED BY InitIndInv, <1>1, PTL DEF Spec

(* The descriptors, the list heads and the locals of buddy_init,           *)
(* buddy_allocate and buddy_free hold values of their type: no index       *)
(* leaves buddy_frame_array or free_frame_lists.                           *)
THEOREM TypeCorrect == Spec => []TypeOK
<1>1. IndInv => TypeOK
  BY DEF IndInv
<1> QED BY IndInvariant, <1>1, PTL

(* The quotient is the number of whole multiples of p in x. *)
LEMMA DivBounds ==
  ASSUME NEW x \in Nat, NEW p \in Nat \ {0}
  PROVE  x \div p \in Nat /\ (x \div p) * p <= x /\ x < (x \div p) * p + p
<1> DEFINE d == x \div p
           r == x % p
<1>1. d \in Nat /\ r \in 0 .. p - 1 /\ x = p * d + r
  OBVIOUS
<1>2. p * d = d * p
  BY <1>1
<1> HIDE DEF d, r
<1>3. d \in Nat /\ d * p <= x /\ x < d * p + p
  BY <1>1, <1>2
<1> QED BY <1>3 DEF d

(* A multiple of p below x is at most the quotient. *)
LEMMA DivLowerBound ==
  ASSUME NEW x \in Nat, NEW m \in Nat, NEW p \in Nat \ {0}, m * p <= x
  PROVE  m <= x \div p
<1> DEFINE d == x \div p
<1>1. d \in Nat /\ x < d * p + p
  BY DivBounds
<1> HIDE DEF d
<1>2. m < d + 1
  <2> SUFFICES ASSUME m >= d + 1 PROVE FALSE
    BY <1>1
  <2>1. m * p >= (d + 1) * p
    BY <1>1
  <2> QED BY <2>1, <1>1
<1>3. m <= d
  BY <1>1, <1>2
<1> QED BY <1>3 DEF d

(* memory_reserve marks every frame that holds a byte of its range. *)
LEMMA TouchedAreReserved == TouchedFrames \subseteq ReservedFrame
<1> SUFFICES ASSUME NEW f \in Frames, NEW r \in Reservations,
                    NEW a \in r[1] .. r[2] - 1, a \div FRAME_SIZE = f
             PROVE  f \in ReservedBy(r)
  BY DEF TouchedFrames, ReservedFrame
<1> DEFINE s == r[1] \div FRAME_SIZE
           e == r[2] + FRAME_SIZE - 1
           t == e \div FRAME_SIZE
<1>1. /\ r[1] \in Nat /\ r[2] \in Nat /\ a \in Nat /\ e \in Nat
      /\ FRAME_SIZE \in Nat \ {0} /\ f \in Nat /\ f + 1 \in Nat
      /\ r[1] <= a /\ a < r[2]
  BY ReservationsAssumption, SizeAssumption DEF Frames
<1>2. s \in Nat /\ s * FRAME_SIZE <= r[1] /\ f * FRAME_SIZE <= a
  BY <1>1, DivBounds
<1>3. s <= f
  <2>1. s * FRAME_SIZE <= a
    <3> HIDE DEF s
    <3> QED BY <1>1, <1>2
  <2> QED BY <2>1, <1>1, <1>2, DivLowerBound
<1>4. f + 1 <= t
  <2>1. (f + 1) * FRAME_SIZE <= e
    BY <1>1, <1>2
  <2> HIDE DEF e
  <2> QED BY <2>1, <1>1, DivLowerBound
<1>5. t \in Nat
  <2> HIDE DEF e
  <2> QED BY <1>1, DivBounds
<1>6. f < t
  <2> HIDE DEF t
  <2> QED BY <1>1, <1>4, <1>5
<1> QED BY <1>3, <1>6 DEF ReservedBy

(* No frame is lost and none is in two blocks, at any point of a call, for *)
(* every memory size and every set of reservations.                        *)
THEOREM Conservation == Spec => []FramesConserved
<1>1. ASSUME IndInv PROVE FramesConserved
  <2>1. TypeOK /\ BlockShape /\ Covered /\ Marks
    BY <1>1 DEF IndInv
  <2>2. \A h \in Heads : h \in Nat /\ h \in Frames /\ BlockSize[OrderOf(h)] \in Nat \ {0}
    BY <2>1, BlockSizeStep DEF Heads, BlockShape, Frames
  <2>3. \A h \in Heads : FramesOf(h) \subseteq Frames
    BY <2>1, <2>2, SizeAssumption DEF BlockShape, FramesOf, Frames
  <2>4. \A h \in Heads : \A f \in Frames :
           f \in FramesOf(h) <=> h <= f /\ f < h + BlockSize[OrderOf(h)]
    BY <2>2, SizeAssumption DEF FramesOf, Frames
  <2>5. ASSUME NEW f \in Frames PROVE f \in TouchedFrames => status[f] = RESERVED_FRAME
    BY <2>1, TouchedAreReserved DEF Marks
  <2>6. ASSUME NEW f \in Frames, status[f] \in {RESERVED_FRAME, UNINIT_FRAME}, NEW h \in Heads
        PROVE  f \notin FramesOf(h)
    <3>1. f # h /\ status[f] # BELONGED_FRAME
      BY <2>6, MarksAreNotOrders DEF Heads
    <3> QED BY <3>1, <2>1, <2>2, <2>4 DEF BlockShape, Frames
  <2>7. ASSUME NEW f \in Frames, status[f] \notin {RESERVED_FRAME, UNINIT_FRAME}
        PROVE  \E h \in Heads : f \in FramesOf(h) /\ \A g \in Heads \ {h} : f \notin FramesOf(g)
    <3>1. PICK h \in Heads : f \in FramesOf(h)
      <4>1. CASE f \in Heads
        BY <4>1, <2>2, <2>4
      <4>2. CASE f \notin Heads
        <5>1. status[f] = BELONGED_FRAME
          BY <4>2, <2>7, <2>1 DEF Heads, TypeOK, Orders, BELONGED_FRAME,
             ALLOCATED_FRAME, RESERVED_FRAME, UNINIT_FRAME
        <5>2. PICK h \in Heads : h < f /\ f < h + BlockSize[OrderOf(h)]
          BY <5>1, <2>1 DEF Covered
        <5>3. f \in FramesOf(h)
          BY <5>2, <2>2, <2>4 DEF Frames
        <5> QED BY <5>3
      <4> QED BY <4>1, <4>2
    <3>2. ASSUME NEW g \in Heads \ {h} PROVE f \notin FramesOf(g)
      BY <3>1, <2>4, <1>1, BlocksDisjoint
    <3> QED BY <3>1, <3>2
  <2>8. ASSUME NEW f \in Frames PROVE status[f] = UNINIT_FRAME => pc = "init"
    BY <2>1 DEF Marks
  <2> QED BY <2>3, <2>5, <2>6, <2>7, <2>8 DEF FramesConserved
<1> QED BY IndInvariant, <1>1, PTL

(* The branches of buddy_allocate and buddy_free that report a corrupted   *)
(* list are dead code.                                                     *)
THEOREM ListsNeverCorrupted == Spec => []NoCorruptedList
<1>1. ASSUME IndInv PROVE NoCorruptedList
  <2>1. /\ TypeOK /\ BlockShape /\ FreeLists /\ InProgress
        /\ block_index \in Frames /\ block_index \in Nat /\ order \in Orders /\ request \in Orders
    BY <1>1 DEF IndInv, TypeOK, Frames
  <2>2. pc \in {"split", "merge"} => block_index \in Heads /\ OrderOf(block_index) = order
    BY <2>1 DEF InProgress, Heads, OrderOf, Floating
  <2>3. pc \in {"split", "merge"} => Aligned(block_index, order)
    BY <2>1, <2>2 DEF BlockShape
  <2>4. ASSUME pc = "split", order > request
        PROVE  BuddyOf(block_index, order - 1) >= block_index
    <3>1. order > 0 /\ order - 1 \in Orders
      BY <2>4, <2>1, SizeAssumption DEF Orders
    <3>2. BuddyOf(block_index, order - 1) = block_index + BlockSize[order - 1]
      BY <3>1, <2>1, <2>3, <2>4, SplitAligned
    <3> QED BY <3>1, <3>2, <2>1, BlockSizeStep
  <2>5. ASSUME pc = "merge", CanMerge, NEW g, g = BuddyOf(block_index, order)
        PROVE  IsHead(order, g) \/ prev[g] # BUDDY_NULL
    <3>1. g < TOTAL_FRAME /\ status[g] = order /\ order < MAX_ORDER
      BY <2>5 DEF CanMerge
    <3>2. g \in Frames /\ g # block_index
      <4>1. \/ g = block_index + BlockSize[order]
            \/ g = block_index - BlockSize[order] /\ g \in Nat
        BY <2>1, <2>3, <2>5, BuddyOfAligned
      <4>2. BlockSize[order] \in Nat \ {0}
        BY <2>1, BlockSizeStep
      <4> QED BY <4>1, <4>2, <3>1, <2>1, SizeAssumption DEF Frames
    <3>3. g \in FreeBlocks
      BY <3>1, <3>2, <2>1 DEF FreeBlocks, Floating
    <3> QED BY <3>1, <3>3, <2>1 DEF FreeLists, ListInv, IsHead
  <2> QED BY <2>4, <2>5 DEF NoCorruptedList
<1> QED BY IndInvariant, <1>1, PTL

-----------------------------------------------------------------------------
(* The refinement of the abstract page allocator. *)

AllocatedFrames == {f \in Frames : status[f] = ALLOCATED_FRAME}

Held == {<<h, allocated_order[h]>> : h \in AllocatedFrames}

(* A step that keeps the allocated frames and their orders is a stutter. *)
LEMMA HeldKept ==
  ASSUME AllocatedFrames' = AllocatedFrames,
         \A h \in AllocatedFrames : allocated_order'[h] = allocated_order[h]
  PROVE  Held' = Held
BY DEF Held

(* Every allocated block is one the abstract allocator could hold. *)
LEMMA AllocatedIsBlock ==
  ASSUME IndInv, NEW h \in AllocatedFrames, ~Floating(h)
  PROVE  /\ h \in Heads /\ OrderOf(h) = allocated_order[h]
         /\ <<h, allocated_order[h]>> \in Abstract!Blocks
<1>1. TypeOK /\ BlockShape
  BY DEF IndInv
<1>2. h \in Heads /\ h \in Frames /\ OrderOf(h) = allocated_order[h]
  BY DEF AllocatedFrames, Heads, OrderOf
<1>3. /\ allocated_order[h] \in Orders
      /\ h + BlockSize[allocated_order[h]] <= TOTAL_FRAME
      /\ h % BlockSize[allocated_order[h]] = 0
  BY <1>1, <1>2 DEF BlockShape, Aligned
<1> QED BY <1>2, <1>3 DEF Abstract!Blocks, Frames, Orders

(* The calls that hand a block out or take one back are the steps of the   *)
(* abstract allocator, and all other steps leave what callers hold alone,  *)
(* for every memory size and every set of reservations.                    *)
THEOREM Refinement == Spec => ImplementsPageAllocator
<1>1. Init => Abstract!Init
  BY MarksAreNotOrders DEF Init, Abstract!Init
<1>2. ASSUME IndInv, IndInv', [Next]_vars PROVE Abstract!Next \/ Held' = Held
  <2>1. TypeOK /\ TypeOK' /\ InProgress
    BY <1>2 DEF IndInv
  <2>2. CASE InitBlock
    <3>1. \A f \in Frames : status[f] # UNINIT_FRAME => status'[f] = status[f]
      <4>1. BlockSize[order] \in Nat /\ block_index \in Nat
        BY <2>1, BlockSizeStep DEF TypeOK, Frames
      <4>2. AllFree(block_index, order) =>
              \A f \in Frames : block_index <= f /\ f < block_index + BlockSize[order]
                                => status[f] = UNINIT_FRAME
        BY <4>1, SizeAssumption DEF AllFree, Frames
      <4> QED BY <4>1, <4>2, <2>1, <2>2, BlockSizeStep DEF InitBlock, TypeOK, Frames
    <3>2. \A f \in Frames : status[f] = UNINIT_FRAME => status'[f] # ALLOCATED_FRAME
      BY <2>1, <2>2, MarksAreNotOrders DEF InitBlock, TypeOK
    <3>3. AllocatedFrames' = AllocatedFrames
      BY <3>1, <3>2, MarksAreNotOrders DEF AllocatedFrames
    <3> QED BY <3>3, <2>2, HeldKept DEF InitBlock
  <2>3. ASSUME NEW k \in Orders, BuddyAllocate(k) PROVE Held' = Held
    BY <2>3 DEF BuddyAllocate, Held, AllocatedFrames
  <2>4. CASE SplitBlock
    <3> SUFFICES ASSUME NEW CONSTANT u, u = BuddyOf(block_index, order - 1) PROVE Held' = Held
      OBVIOUS
    <3>1. status' = [status EXCEPT ![u] = order - 1] /\ allocated_order' = allocated_order
      BY <2>4 DEF SplitBlock
    <3>2. order - 1 # ALLOCATED_FRAME
      BY <2>1 DEF TypeOK, Orders, ALLOCATED_FRAME
    <3>3. status[u] # ALLOCATED_FRAME
      <4> SUFFICES ASSUME pc = "split", order > request, order - 1 \in Orders PROVE status[u] # ALLOCATED_FRAME
        BY <2>1, <2>4, SizeAssumption DEF SplitBlock, TypeOK, Orders
      <4>1. block_index \in Heads /\ OrderOf(block_index) = order /\ block_index \in Nat /\ order \in Orders /\ order > 0
        BY <2>1 DEF InProgress, Heads, OrderOf, Floating, TypeOK, Frames, Orders
      <4>2. /\ block_index + BlockSize[order] <= TOTAL_FRAME /\ Aligned(block_index, order)
            /\ \A f \in Frames : block_index < f /\ f < block_index + BlockSize[order]
                                  => status[f] = BELONGED_FRAME
        BY <4>1, <1>2 DEF IndInv, BlockShape
      <4>3. u = block_index + BlockSize[order - 1]
        BY <4>1, <4>2, SplitAligned
      <4>4. BlockSize[order - 1] \in Nat \ {0} /\ BlockSize[order] = 2 * BlockSize[order - 1]
        BY <4>1, BlockSizeStep
      <4>5. u \in Frames /\ block_index < u /\ u < block_index + BlockSize[order]
        BY <4>1, <4>2, <4>3, <4>4, SizeAssumption DEF Frames
      <4> QED BY <4>2, <4>5, MarksAreNotOrders
    <3>4. AllocatedFrames' = AllocatedFrames
      BY <3>1, <3>2, <3>3, <2>1 DEF AllocatedFrames, TypeOK
    <3> QED BY <3>1, <3>4, HeldKept
  <2>5. CASE AllocateReturn
    <3> SUFFICES ASSUME NEW CONSTANT b, b = block_index PROVE Abstract!Next
      OBVIOUS
    <3> DEFINE c == <<b, allocated_order'[b]>>
    <3>1. /\ pc = "split" /\ pc' = "ready" /\ b \in Frames
          /\ status' = [status EXCEPT ![b] = ALLOCATED_FRAME]
          /\ allocated_order' = [allocated_order EXCEPT ![b] = request]
          /\ allocated_order'[b] = order
      BY <2>1, <2>5 DEF AllocateReturn, Return, TypeOK
    <3>2. /\ status'[b] = ALLOCATED_FRAME
          /\ \A f \in Frames : f # b => status'[f] = status[f] /\ allocated_order'[f] = allocated_order[f]
      BY <3>1, <2>1 DEF TypeOK
    <3>3. status[b] \in Orders /\ b \in Heads /\ OrderOf(b) = order /\ order \in Orders
      BY <3>1, <2>1 DEF InProgress, Heads, OrderOf, Floating, TypeOK
    <3>4. AllocatedFrames' = AllocatedFrames \cup {b} /\ b \notin AllocatedFrames
      BY <3>1, <3>2, <3>3, MarksAreNotOrders DEF AllocatedFrames
    <3>5. Held' = Held \cup {c}
      BY <3>2, <3>4 DEF Held, AllocatedFrames
    <3>6. c \in Abstract!Blocks
      <4>1. /\ order \in Orders /\ b + BlockSize[order] <= TOTAL_FRAME
            /\ b % BlockSize[order] = 0
        BY <3>3, <1>2 DEF IndInv, BlockShape, Aligned
      <4> QED BY <4>1, <3>1 DEF Abstract!Blocks, Frames, Orders
    <3>7. \A f \in Abstract!FramesOf(c) : f \in Frames /\ b <= f /\ f < b + BlockSize[OrderOf(b)]
      <4>1. b + BlockSize[order] <= TOTAL_FRAME /\ BlockSize[order] \in Nat /\ b \in Nat
        BY <3>1, <3>3, <1>2, BlockSizeStep DEF IndInv, BlockShape, Frames
      <4> QED BY <4>1, <3>1, <3>3, SizeAssumption DEF Abstract!FramesOf, Frames
    <3>8. Abstract!FramesOf(c) \cap TouchedFrames = {}
      <4> SUFFICES ASSUME NEW f \in Abstract!FramesOf(c) PROVE f \notin TouchedFrames
        OBVIOUS
      <4>1. f = b \/ status[f] = BELONGED_FRAME
        BY <3>3, <3>7, <3>1, <1>2 DEF IndInv, BlockShape, Frames
      <4>2. status[f] # RESERVED_FRAME
        BY <4>1, <3>3, MarksAreNotOrders
      <4> QED BY <4>2, <3>7, <1>2, TouchedAreReserved DEF IndInv, Marks
    <3>9. \A e \in Held : Abstract!FramesOf(c) \cap Abstract!FramesOf(e) = {}
      <4> SUFFICES ASSUME NEW h \in AllocatedFrames, NEW f \in Abstract!FramesOf(c)
                   PROVE  f \notin Abstract!FramesOf(<<h, allocated_order[h]>>)
        BY DEF Held
      <4>1. h # b /\ ~Floating(h)
        BY <3>4 DEF Floating
      <4>2. h \in Heads /\ OrderOf(h) = allocated_order[h]
        BY <4>1, <1>2, AllocatedIsBlock
      <4>3. ~(h <= f /\ f < h + BlockSize[OrderOf(h)])
        BY <4>1, <4>2, <3>3, <3>7, <1>2, BlocksDisjoint
      <4>4. BlockSize[OrderOf(h)] \in Nat /\ h \in Nat /\ f \in Nat
        BY <4>2, <3>7, <1>2, BlockSizeStep DEF IndInv, BlockShape, Heads, Frames
      <4> QED BY <4>2, <4>3, <4>4 DEF Abstract!FramesOf
    <3> HIDE DEF c
    <3> QED BY <3>5, <3>6, <3>8, <3>9
            DEF Abstract!Next, Abstract!Allocate, Held, AllocatedFrames
  <2>6. ASSUME NEW b \in Frames, BuddyFree(b) PROVE Abstract!Next
    <3> DEFINE c == <<b, allocated_order[b]>>
    <3>1. /\ pc = "ready" /\ status[b] = ALLOCATED_FRAME
          /\ status' = [status EXCEPT ![b] = allocated_order[b]]
          /\ allocated_order' = allocated_order
      BY <2>6 DEF BuddyFree
    <3>2. b \in AllocatedFrames /\ ~Floating(b)
      BY <3>1 DEF AllocatedFrames, Floating
    <3>3. b \in Heads /\ OrderOf(b) = allocated_order[b] /\ c \in Abstract!Blocks
      BY <3>2, <1>2, AllocatedIsBlock
    <3>4. allocated_order[b] \in Orders
      BY <3>3, <1>2 DEF IndInv, BlockShape
    <3>5. AllocatedFrames' = AllocatedFrames \ {b}
      BY <3>1, <3>4, <2>1, MarksAreNotOrders DEF AllocatedFrames, TypeOK
    <3>6. Held' = Held \ {c} /\ c \in Held
      BY <3>1, <3>2, <3>5 DEF Held
    <3> HIDE DEF c
    <3> QED BY <3>3, <3>6 DEF Abstract!Next, Abstract!Free, Held, AllocatedFrames
  <2>7. CASE MergeBuddy
    <3> SUFFICES ASSUME NEW CONSTANT u,
                        u = IF BuddyOf(block_index, order) < block_index
                            THEN block_index ELSE BuddyOf(block_index, order)
                 PROVE  Held' = Held
      OBVIOUS
    <3>1. /\ status' = [status EXCEPT ![u] = BELONGED_FRAME]
          /\ allocated_order' = [allocated_order EXCEPT ![u] = -1]
          /\ pc = "merge" /\ status[BuddyOf(block_index, order)] = order
      BY <2>7 DEF MergeBuddy, CanMerge
    <3>2. status[u] # ALLOCATED_FRAME
      BY <3>1, <2>1, MarksAreNotOrders DEF InProgress, TypeOK
    <3>3. AllocatedFrames' = AllocatedFrames
      BY <3>1, <3>2, <2>1, MarksAreNotOrders DEF AllocatedFrames, TypeOK
    <3>4. \A h \in AllocatedFrames : allocated_order'[h] = allocated_order[h]
      BY <3>1, <3>2, <2>1 DEF AllocatedFrames, TypeOK
    <3> QED BY <3>3, <3>4, HeldKept
  <2>8. CASE FreeReturn
    <3>1. /\ status' = [status EXCEPT ![block_index] = order]
          /\ allocated_order' = allocated_order /\ pc = "merge"
      BY <2>8 DEF FreeReturn
    <3>2. status[block_index] # ALLOCATED_FRAME /\ order # ALLOCATED_FRAME
      BY <3>1, <2>1, MarksAreNotOrders DEF InProgress, TypeOK
    <3>3. AllocatedFrames' = AllocatedFrames
      BY <3>1, <3>2, <2>1 DEF AllocatedFrames, TypeOK
    <3> QED BY <3>1, <3>3, HeldKept
  <2>9. CASE UNCHANGED vars
    BY <2>9 DEF vars, desc, Held, AllocatedFrames
  <2> QED BY <1>2, <2>2, <2>3, <2>4, <2>5, <2>6, <2>7, <2>8, <2>9 DEF Next, Step
<1>3. ASSUME IndInv, IndInv', [Next]_vars
      PROVE  [Abstract!Next]_{<<h, allocated_order[h]>> : h \in {f \in Frames : status[f] = ALLOCATED_FRAME}}
  BY <1>2, <1>3 DEF Held, AllocatedFrames
<1> QED BY <1>1, <1>3, IndInvariant, PTL DEF Spec, ImplementsPageAllocator, Abstract!Spec

-----------------------------------------------------------------------------
(* The free lists hold exactly the free blocks.  That the links agree does *)
(* not exclude a ring beside a list; a number that falls along next does.  *)

Falls(r) == \A f \in FreeBlocks : next[f] # BUDDY_NULL => r[next[f]] < r[f]

RankInv == \E r \in [Frames -> Int] : Falls(r)

(* What the links say of one free block. *)
LEMMA LinksOf ==
  ASSUME IndInv, NEW f \in FreeBlocks
  PROVE  /\ f \in Frames /\ status[f] \in Orders
         /\ next[f] # BUDDY_NULL => /\ next[f] \in FreeBlocks /\ prev[next[f]] = f
                                    /\ status[next[f]] = status[f]
         /\ prev[f] # BUDDY_NULL => /\ prev[f] \in FreeBlocks /\ next[prev[f]] = f
                                    /\ status[prev[f]] = status[f]
         /\ prev[f] = BUDDY_NULL => free_frame_lists[status[f]] = f
BY DEF IndInv, FreeLists, ListInv, FreeBlocks

(* A block in front of a list gets a number above that of the old front. *)
LEMMA PushedRank ==
  ASSUME IndInv, RankInv, NEW f, NEW k \in Orders, Pushed(f, k)
  PROVE  RankInv'
<1> SUFFICES ASSUME NEW CONSTANT h, h = free_frame_lists[k]
             PROVE  RankInv'
  OBVIOUS
<1>1. PICK r \in [Frames -> Int] : Falls(r)
  BY DEF RankInv
<1>2. /\ f \in Frames /\ f \notin FreeBlocks /\ FreeBlocks' = FreeBlocks \cup {f}
      /\ next' = [next EXCEPT ![f] = h]
  BY DEF Pushed, LinkFront
<1>3. next \in [Frames -> Frames \cup {BUDDY_NULL}] /\ h \in Frames \cup {BUDDY_NULL}
  BY DEF IndInv, TypeOK
<1>4. h # BUDDY_NULL => h \in FreeBlocks /\ h \in Frames
  BY <1>3 DEF IndInv, FreeLists, ListInv
<1>5. PICK top \in Int : h # BUDDY_NULL => r[h] < top
  <2>1. CASE h = BUDDY_NULL
    BY <2>1
  <2>2. CASE h # BUDDY_NULL
    <3>1. r[h] \in Int /\ r[h] + 1 \in Int /\ r[h] < r[h] + 1
      BY <1>4, <2>2
    <3> QED BY <3>1
  <2> QED BY <2>1, <2>2
<1> DEFINE q == [r EXCEPT ![f] = top]
<1>6. q \in [Frames -> Int] /\ q[f] = top /\ \A g \in Frames : g # f => q[g] = r[g]
  BY <1>2
<1> HIDE DEF q
<1>7. ASSUME NEW g \in FreeBlocks', next'[g] # BUDDY_NULL
      PROVE  q[next'[g]] < q[g]
  <2>1. CASE g = f
    BY <1>2, <1>3, <1>4, <1>5, <1>6, <1>7, <2>1
  <2>2. CASE g # f
    <3>1. g \in FreeBlocks /\ g \in Frames /\ next'[g] = next[g]
      BY <1>2, <1>3, <2>2 DEF FreeBlocks
    <3>2. next[g] \in FreeBlocks /\ next[g] \in Frames /\ next[g] # f
      BY <1>2, <1>7, <3>1, LinksOf
    <3>3. r[next[g]] < r[g]
      BY <1>1, <1>7, <3>1 DEF Falls
    <3> QED BY <1>6, <2>2, <3>1, <3>2, <3>3
  <2> QED BY <2>1, <2>2
<1>8. Falls(q)'
  BY <1>7 DEF Falls
<1> QED BY <1>6, <1>8 DEF RankInv

(* The neighbours of a block that is taken are in order without it. *)
LEMMA TakenRank ==
  ASSUME IndInv, RankInv, NEW g, Taken(g)
  PROVE  RankInv'
<1>1. PICK r \in [Frames -> Int] : Falls(r)
  BY DEF RankInv
<1>2. ASSUME NEW x \in FreeBlocks', next'[x] # BUDDY_NULL
      PROVE  r[next'[x]] < r[x]
  <2>1. x \in FreeBlocks /\ x # g /\ g \in FreeBlocks
    BY DEF Taken
  <2>2. next'[x] = IF x = prev[g] THEN next[g] ELSE next[x]
    BY <2>1 DEF Taken
  <2>3. CASE x = prev[g]
    <3>1. next[x] = g /\ g # BUDDY_NULL /\ x \in Frames /\ g \in Frames
      <4>1. x \in Frames /\ g \in Frames
        BY <2>1, LinksOf
      <4>2. x # BUDDY_NULL /\ g # BUDDY_NULL
        BY <4>1, SizeAssumption DEF Frames, BUDDY_NULL
      <4> QED BY <4>1, <4>2, <2>1, <2>3, LinksOf
    <3>2. next[g] \in Frames
      <4>1. next[g] \in FreeBlocks
        BY <1>2, <2>1, <2>2, <2>3, LinksOf
      <4> QED BY <4>1, LinksOf
    <3>3. r[g] < r[x] /\ r[next[g]] < r[g]
      BY <1>1, <1>2, <2>1, <2>2, <2>3, <3>1 DEF Falls
    <3> QED BY <2>2, <2>3, <3>1, <3>2, <3>3
  <2>4. CASE x # prev[g]
    BY <1>1, <1>2, <2>1, <2>2, <2>4 DEF Falls
  <2> QED BY <2>3, <2>4
<1>3. Falls(r)'
  BY <1>2 DEF Falls
<1> QED BY <1>3 DEF RankInv

(* A step that keeps the free blocks keeps their numbers. *)
LEMMA KeptRank ==
  ASSUME RankInv, Kept
  PROVE  RankInv'
<1>1. PICK r \in [Frames -> Int] : Falls(r)
  BY DEF RankInv
<1>2. Falls(r)'
  BY <1>1 DEF Falls, Kept
<1> QED BY <1>2 DEF RankInv

(* No free list ever has a ring. *)
LEMMA RanksFall == Spec => []RankInv
<1>1. ASSUME Init PROVE RankInv
  <2>1. FreeBlocks = {}
    BY <1>1, MarksAreNotOrders DEF Init, FreeBlocks
  <2> DEFINE r == [f \in Frames |-> 0]
  <2>2. r \in [Frames -> Int] /\ Falls(r)
    BY <2>1 DEF Falls
  <2> HIDE DEF r
  <2> QED BY <2>2 DEF RankInv
<1>2. ASSUME IndInv, RankInv, [Next]_vars PROVE RankInv'
  <2>0. order \in Orders
    BY <1>2 DEF IndInv, TypeOK
  <2>1. CASE InitBlock
    BY <1>2, <2>0, <2>1, InitBlockIndInv, PushedRank, KeptRank
  <2>2. CASE SplitBlock
    <3>1. Pushed(block_index + BlockSize[order - 1], order - 1)
      BY <1>2, <2>2, SplitBlockIndInv
    <3>2. order - 1 \in Orders
      BY <1>2, <2>2, SizeAssumption DEF IndInv, TypeOK, SplitBlock, Orders
    <3> QED BY <1>2, <3>1, <3>2, PushedRank
  <2>3. CASE AllocateReturn
    BY <1>2, <2>3, AllocateReturnIndInv, KeptRank
  <2>4. CASE MergeBuddy
    BY <1>2, <2>4, MergeBuddyIndInv, TakenRank
  <2>5. CASE FreeReturn
    BY <1>2, <2>0, <2>5, FreeReturnIndInv, PushedRank
  <2>6. ASSUME NEW k \in Orders, BuddyAllocate(k) PROVE RankInv'
    BY <1>2, <2>6, BuddyAllocateIndInv, TakenRank
  <2>7. ASSUME NEW b \in Frames, BuddyFree(b) PROVE RankInv'
    BY <1>2, <2>7, BuddyFreeIndInv, KeptRank
  <2>8. CASE UNCHANGED vars
    <3>1. Kept
      BY <2>8 DEF Kept, FreeBlocks, Floating, vars, desc, local
    <3> QED BY <1>2, <3>1, KeptRank
  <2> QED BY <1>2, <2>1, <2>2, <2>3, <2>4, <2>5, <2>6, <2>7, <2>8 DEF Next, Step
<1> QED BY <1>1, <1>2, IndInvariant, PTL DEF Spec

BlocksOfOrder(k) == {h \in FreeBlocks : status[h] = k}

(* The free blocks of an order form a list. *)
LEMMA FreeBlocksList ==
  ASSUME IndInv, NEW r \in [Frames -> Int], Falls(r), NEW k \in Orders
  PROVE  /\ BlocksOfOrder(k) \in SUBSET (0 .. TOTAL_FRAME - 1)
         /\ IsList(BlocksOfOrder(k), free_frame_lists[k], next, prev, r)
<1> DEFINE C == BlocksOfOrder(k)
<1>1. BUDDY_NULL = -1
  BY DEF BUDDY_NULL
<1>2. free_frame_lists[k] # -1 => free_frame_lists[k] \in C
  BY <1>1 DEF IndInv, FreeLists, ListInv, BlocksOfOrder
<1>3. ASSUME NEW g \in C
      PROVE  /\ next[g] # -1 => next[g] \in C /\ r[next[g]] < r[g]
             /\ prev[g] # -1 => prev[g] \in C /\ next[prev[g]] = g
             /\ prev[g] = -1 => free_frame_lists[k] = g
  <2>1. g \in FreeBlocks /\ status[g] = k
    BY DEF BlocksOfOrder
  <2>2. next[g] # -1 => r[next[g]] < r[g]
    BY <1>1, <2>1 DEF Falls
  <2> QED BY <1>1, <2>1, <2>2, LinksOf DEF BlocksOfOrder
<1>4. C \in SUBSET (0 .. TOTAL_FRAME - 1)
  BY DEF BlocksOfOrder, FreeBlocks, Frames
<1> QED BY <1>2, <1>3, <1>4 DEF IsList

(* Every free block can be found from the head of the list of its order,   *)
(* and nothing else is found there, whatever was allocated and freed.      *)
THEOREM ListsExact == Spec => []FreeListsExact
<1>1. ASSUME IndInv, RankInv, NEW k \in Orders
      PROVE  OnList(k) = {h \in FreeBlocks : status[h] = k}
  <2>1. PICK r \in [Frames -> Int] : Falls(r)
    BY <1>1 DEF RankInv
  <2> DEFINE h == free_frame_lists[k]
             C == BlocksOfOrder(k)
  <2>2. C \in SUBSET (0 .. TOTAL_FRAME - 1) /\ IsList(C, h, next, prev, r)
    BY <1>1, <2>1, FreeBlocksList
  <2>3. TOTAL_FRAME \in Nat /\ r \in [0 .. TOTAL_FRAME - 1 -> Int]
    BY SizeAssumption DEF Frames
  <2>4. ReachedFrom(h, next, TOTAL_FRAME) = C
    <3> HIDE DEF h, C
    <3> QED BY <2>2, <2>3, WalkMeetsAll
  <2>5. OnList(k) = ReachedFrom(h, next, TOTAL_FRAME)
    BY DEF OnList, ReachedFrom, BUDDY_NULL
  <2> QED BY <2>4, <2>5 DEF BlocksOfOrder
<1>2. IndInv /\ RankInv => FreeListsExact
  BY <1>1 DEF FreeListsExact
<1> QED BY IndInvariant, RanksFall, <1>2, PTL

-----------------------------------------------------------------------------
(* buddy_allocate fails only when it must.  Free memory is not left in two *)
(* halves that buddy_free, or buddy_init, should have joined.              *)

Within(f, h, k) == h <= f /\ f < h + BlockSize[k]

(* Multiples of a block size are a block apart. *)
LEMMA AlignedApart ==
  ASSUME NEW k \in Orders, NEW a \in Nat, NEW b \in Nat, Aligned(a, k), Aligned(b, k), a < b
  PROVE  a + BlockSize[k] <= b
<1>1. PICK p \in Nat \ {0} : p = BlockSize[k]
  BY BlockSizeStep
<1>2. PICK q \in Nat : a = q * p
  BY <1>1, AlignedMultiple
<1>3. PICK s \in Nat : b = s * p
  BY <1>1, AlignedMultiple
<1>4. q < s
  <2> SUFFICES ASSUME s <= q PROVE FALSE
    OBVIOUS
  <2>1. s * p <= q * p
    OBVIOUS
  <2> QED BY <1>2, <1>3, <2>1
<1>5. (q + 1) * p <= s * p
  BY <1>4
<1>6. (q + 1) * p = q * p + p
  OBVIOUS
<1> QED BY <1>1, <1>2, <1>3, <1>5, <1>6

(* A larger block starts and ends at a multiple of a smaller size. *)
LEMMA AlignedLower ==
  ASSUME NEW j \in Orders, NEW x \in Nat, Aligned(x, j), NEW i \in 0 .. j
  PROVE  Aligned(x, i) /\ Aligned(x + BlockSize[j], i)
<1>1. j \in Nat /\ \A n \in 0 .. j : n \in Orders /\ j - n \in Orders
  BY SizeAssumption DEF Orders
<1>2. ASSUME NEW y \in Nat, Aligned(y, j) PROVE Aligned(y, i)
  <2> DEFINE S == {n \in 0 .. j : Aligned(y, j - n)}
  <2>1. S \in SUBSET Nat /\ 0 \in S
    BY <1>1, <1>2
  <2>2. ASSUME NEW n \in 1 .. j, n - 1 \in S PROVE n \in S
    <3>1. /\ n \in 0 .. j /\ n - 1 \in 0 .. j /\ j - (n - 1) \in Orders /\ j - (n - 1) > 0
          /\ (j - (n - 1)) - 1 = j - n /\ Aligned(y, j - (n - 1))
      BY <1>1, <2>2
    <3>2. Aligned(y, (j - (n - 1)) - 1)
      BY <3>1, SplitAligned
    <3> QED BY <3>1, <3>2
  <2>3. j - i \in 0 .. j /\ j - (j - i) = i
    BY <1>1
  <2>4. j - i \in S
    <3> HIDE DEF S
    <3> QED BY <1>1, <2>1, <2>2, <2>3, HandedOn
  <2> QED BY <2>3, <2>4
<1>3. Aligned(x + BlockSize[j], j) /\ x + BlockSize[j] \in Nat
  <2>1. PICK p \in Nat \ {0} : p = BlockSize[j]
    BY BlockSizeStep
  <2>2. PICK q \in Nat : x = q * p
    BY <2>1, AlignedMultiple
  <2>3. x + p = (q + 1) * p /\ q + 1 \in Nat /\ x + p \in Nat
    BY <2>2
  <2> QED BY <2>1, <2>3, AlignedMultiple
<1> QED BY <1>2, <1>3

(* Of two aligned runs that meet, the larger holds the smaller. *)
LEMMA Nested ==
  ASSUME NEW j \in Orders, NEW i \in 0 .. j, NEW x \in Nat, NEW y \in Nat,
         Aligned(x, i), Aligned(y, j),
         NEW f \in Nat, Within(f, x, i), Within(f, y, j)
  PROVE  y <= x /\ x + BlockSize[i] <= y + BlockSize[j]
<1>1. i \in Orders /\ BlockSize[i] \in Nat \ {0} /\ BlockSize[j] \in Nat \ {0}
  <2>1. i \in Orders
    BY SizeAssumption DEF Orders
  <2> QED BY <2>1, BlockSizeStep
<1>2. Aligned(y, i) /\ Aligned(y + BlockSize[j], i)
  BY AlignedLower
<1>3. y <= x
  <2> SUFFICES ASSUME x < y PROVE FALSE
    OBVIOUS
  <2>1. x + BlockSize[i] <= y
    BY <1>1, <1>2, AlignedApart
  <2> QED BY <1>1, <2>1 DEF Within
<1>4. x < y + BlockSize[j] /\ y + BlockSize[j] \in Nat
  BY <1>1 DEF Within
<1>5. x + BlockSize[i] <= y + BlockSize[j]
  BY <1>1, <1>2, <1>4, AlignedApart
<1> QED BY <1>3, <1>5

(* A block and its buddy are the halves of a block of the next order, and  *)
(* each is the buddy of the other.                                         *)
LEMMA Halves ==
  ASSUME NEW k \in Orders, k < MAX_ORDER, NEW b \in Nat, Aligned(b, k)
  PROVE  \E l \in Nat :
           /\ Aligned(l, k + 1)
           /\ \/ b = l /\ BuddyOf(b, k) = l + BlockSize[k]
              \/ b = l + BlockSize[k] /\ BuddyOf(b, k) = l
           /\ BuddyOf(l, k) = l + BlockSize[k]
           /\ BuddyOf(l + BlockSize[k], k) = l
<1>1. k + 1 \in Orders /\ k + 1 > 0 /\ (k + 1) - 1 = k
  BY SizeAssumption DEF Orders
<1>2. PICK p \in Nat \ {0} : p = BlockSize[k]
  BY BlockSizeStep
<1>3. ASSUME NEW l \in Nat, Aligned(l, k + 1)
      PROVE  BuddyOf(l, k) = l + p /\ BuddyOf(l + p, k) = l
  <2>1. BuddyOf(l, k) = l + p /\ Aligned(l + p, k) /\ Aligned(l, k)
    BY <1>1, <1>2, <1>3, SplitAligned
  <2>2. l + p \in Nat /\ (l + p) - p = l
    OBVIOUS
  <2>3. BuddyOf(l + p, k) # (l + p) + p
    <3> SUFFICES ASSUME BuddyOf(l + p, k) = (l + p) + p PROVE FALSE
      OBVIOUS
    <3>1. Aligned(l + p, k + 1)
      BY <1>2, <2>1, <2>2, BuddyOfAligned
    <3>2. l + BlockSize[k + 1] <= l + p
      BY <1>1, <1>3, <2>2, <3>1, AlignedApart
    <3>3. BlockSize[k + 1] = 2 * p
      BY <1>2, BlockSizeStep
    <3> QED BY <3>2, <3>3
  <2>4. BuddyOf(l + p, k) = (l + p) - p
    BY <1>2, <2>1, <2>2, <2>3, BuddyOfAligned
  <2> QED BY <2>1, <2>2, <2>4
<1>4. CASE BuddyOf(b, k) = b + p /\ Aligned(b, k + 1)
  BY <1>2, <1>3, <1>4
<1>5. CASE BuddyOf(b, k) = b - p /\ b - p \in Nat /\ Aligned(b - p, k + 1)
  <2>1. b = (b - p) + p
    OBVIOUS
  <2> QED BY <1>2, <1>3, <1>5, <2>1
<1> QED BY <1>2, <1>4, <1>5, BuddyOfAligned

(* No two free blocks are the halves of a block. *)
Merged ==
  \A b, c \in FreeBlocks :
    status[b] < MAX_ORDER /\ status[c] = status[b] => c # BuddyOf(b, status[b])

(* Some frame of the run is reserved or in a block that is no smaller. *)
Filled(h, k) ==
  \E f \in Frames :
    /\ Within(f, h, k)
    /\ \/ status[f] = RESERVED_FRAME
       \/ \E g \in Heads : status[g] >= k /\ Within(f, g, status[g])

(* buddy_init goes from the largest order to the smallest: the runs it has *)
(* passed are filled.                                                      *)
Passed(h, k) == k > order \/ (k = order /\ h < block_index)

InitMerged ==
  pc = "init" =>
    /\ \A g \in Heads : status[g] \in Orders /\ status[g] >= order
    /\ \A k \in Orders : \A h \in Frames :
         Aligned(h, k) /\ h + BlockSize[k] <= TOTAL_FRAME /\ Passed(h, k) => Filled(h, k)

(* A free block is where its order says, and the frames behind its first   *)
(* one are its own.                                                        *)
LEMMA FreeBlockShape ==
  ASSUME IndInv, NEW b \in FreeBlocks
  PROVE  /\ b \in Heads /\ b \in Frames /\ b \in Nat /\ status[b] \in Orders
         /\ OrderOf(b) = status[b] /\ Aligned(b, status[b])
         /\ b + BlockSize[status[b]] <= TOTAL_FRAME
         /\ \A f \in Frames : Within(f, b, status[b]) => f = b \/ status[f] = BELONGED_FRAME
<1>1. b \in Heads /\ b \in Frames /\ b \in Nat /\ status[b] \in Orders
  BY DEF FreeBlocks, Heads, Frames
<1>2. OrderOf(b) = status[b]
  BY <1>1, MarksAreNotOrders DEF FreeBlocks, OrderOf
<1>3. /\ Aligned(b, status[b]) /\ b + BlockSize[status[b]] <= TOTAL_FRAME
      /\ \A f \in Frames : b < f /\ f < b + BlockSize[status[b]] => status[f] = BELONGED_FRAME
  BY <1>1, <1>2 DEF IndInv, BlockShape
<1>4. \A f \in Frames : b <= f => b = f \/ b < f
  BY <1>1 DEF Frames
<1> QED BY <1>1, <1>2, <1>3, <1>4 DEF Within

(* A block whose buddy is not free can be put on its list. *)
LEMMA PushedMerged ==
  ASSUME IndInv, Merged, NEW f \in Nat, NEW k \in Orders, Pushed(f, k), Aligned(f, k),
         k < MAX_ORDER => ~(BuddyOf(f, k) \in FreeBlocks /\ status[BuddyOf(f, k)] = k)
  PROVE  Merged'
<1> SUFFICES ASSUME NEW b \in FreeBlocks', NEW c \in FreeBlocks',
                    status'[b] < MAX_ORDER, status'[c] = status'[b], c = BuddyOf(b, status'[b])
             PROVE  FALSE
  BY DEF Merged, BuddyOf
<1>1. /\ f \notin FreeBlocks /\ FreeBlocks' = FreeBlocks \cup {f} /\ status'[f] = k
      /\ \A x \in FreeBlocks : status'[x] = status[x]
  BY DEF Pushed
<1>2. CASE b # f /\ c # f
  BY <1>1, <1>2 DEF Merged
<1>3. CASE b = f
  <2>1. PICK l \in Nat : \/ f = l /\ BuddyOf(f, k) = l + BlockSize[k]
                         \/ f = l + BlockSize[k] /\ BuddyOf(f, k) = l
    BY <1>1, <1>3, Halves
  <2>2. c # f
    BY <1>1, <1>3, <2>1, BlockSizeStep
  <2> QED BY <1>1, <1>3, <2>2
<1>4. CASE b # f /\ c = f
  <2>1. b \in FreeBlocks /\ status[b] = k /\ b \in Nat /\ Aligned(b, k)
    BY <1>1, <1>4, FreeBlockShape
  <2>2. f = BuddyOf(b, k) /\ k < MAX_ORDER
    BY <1>1, <1>4, <2>1
  <2>3. b = BuddyOf(f, k)
    BY <2>1, <2>2, Halves
  <2> QED BY <2>1, <2>2, <2>3
<1> QED BY <1>2, <1>3, <1>4

(* Fewer free blocks have no new pair of halves. *)
LEMMA TakenMerged ==
  ASSUME Merged, NEW g, Taken(g)
  PROVE  Merged'
BY DEF Merged, Taken, BuddyOf

(* The same free blocks have no new pair of halves either. *)
LEMMA KeptMerged ==
  ASSUME Merged, Kept
  PROVE  Merged'
BY DEF Merged, Kept, BuddyOf

(* buddy_init does not make a block whose buddy it has made: it would have *)
(* found the two as one block.                                             *)
LEMMA NewBlockAlone ==
  ASSUME IndInv, InitMerged, pc = "init", AllFree(block_index, order), order < MAX_ORDER
  PROVE  ~( /\ BuddyOf(block_index, order) \in FreeBlocks
            /\ status[BuddyOf(block_index, order)] = order )
<1> SUFFICES ASSUME NEW CONSTANT b, NEW CONSTANT k, NEW CONSTANT c,
                    b = block_index, k = order, c = BuddyOf(b, k),
                    c \in FreeBlocks, status[c] = k
             PROVE  FALSE
  OBVIOUS
<1>1. b \in Frames /\ b \in Nat /\ k \in Orders /\ Aligned(b, k) /\ k < MAX_ORDER
  BY DEF IndInv, TypeOK, InProgress, Frames
<1>2. PICK p \in Nat \ {0} : p = BlockSize[k] /\ BlockSize[k + 1] = 2 * p
  BY <1>1, BlockSizeStep
<1>3. PICK l \in Nat : Aligned(l, k + 1) /\ ((b = l /\ c = l + p) \/ (b = l + p /\ c = l))
  BY <1>1, <1>2, Halves
<1>4. /\ c \in Heads /\ c \in Nat /\ OrderOf(c) = k /\ c + p <= TOTAL_FRAME
      /\ \A f \in Frames : Within(f, c, k) => f = c \/ status[f] = BELONGED_FRAME
  BY <1>2, FreeBlockShape
<1>5. b + p <= TOTAL_FRAME /\ \A f \in Frames : Within(f, b, k) => status[f] = UNINIT_FRAME
  BY <1>1, <1>2 DEF AllFree, Within, Frames
<1>6. k + 1 \in Orders /\ l \in Frames /\ l + BlockSize[k + 1] <= TOTAL_FRAME /\ Passed(l, k + 1)
  BY <1>1, <1>2, <1>3, <1>4, <1>5, SizeAssumption DEF Orders, Frames, Passed
<1>7. Filled(l, k + 1)
  BY <1>3, <1>6 DEF InitMerged
<1>8. PICK f \in Frames :
        /\ Within(f, l, k + 1)
        /\ \/ status[f] = RESERVED_FRAME
           \/ \E g \in Heads : status[g] >= k + 1 /\ Within(f, g, status[g])
  BY <1>7 DEF Filled
<1>9. Within(f, b, k) \/ Within(f, c, k)
  BY <1>2, <1>3, <1>8 DEF Within, Frames
<1>10. status[f] # RESERVED_FRAME
  BY <1>1, <1>4, <1>5, <1>9, MarksAreNotOrders
<1>11. PICK g \in Heads : status[g] >= k + 1 /\ Within(f, g, status[g])
  BY <1>8, <1>10
<1>12. OrderOf(g) = status[g] /\ status[g] \in Orders /\ g # c
  BY <1>1, <1>11, MarksAreNotOrders DEF InitMerged, OrderOf, Floating, Orders
<1>13. f = g \/ status[f] = BELONGED_FRAME
  BY <1>11, <1>12 DEF IndInv, BlockShape, Within, Frames, Heads
<1>14. ~Within(f, b, k)
  BY <1>5, <1>12, <1>13, MarksAreNotOrders
<1>15. ~Within(f, c, k)
  BY <1>4, <1>11, <1>12, BlocksDisjoint DEF Within
<1> QED BY <1>9, <1>14, <1>15

(* One iteration of buddy_init fills the run it looks at. *)
LEMMA InitBlockMerged ==
  ASSUME IndInv, InitMerged, InitBlock
  PROVE  InitMerged'
<1> SUFFICES ASSUME NEW CONSTANT b, NEW CONSTANT k, b = block_index, k = order, pc' = "init"
             PROVE  InitMerged'
  BY DEF InitMerged
<1>1. /\ b \in Frames /\ b \in Nat /\ k \in Orders /\ Aligned(b, k) /\ pc = "init"
      /\ status \in [Frames -> -4 .. MAX_ORDER]
  BY DEF IndInv, TypeOK, InProgress, Frames, InitBlock
<1>2. PICK p \in Nat \ {0} : p = BlockSize[k]
  BY <1>1, BlockSizeStep
<1>3. IndInv'
  BY InitBlockIndInv
<1>4. /\ order' \in Orders /\ order' <= k
      /\ \/ order' = k /\ block_index' = b + p
         \/ order' = k - 1 /\ block_index' = 0 /\ b + p >= TOTAL_FRAME
  <2>1. /\ b + p < TOTAL_FRAME => block_index' = b + p /\ order' = k
        /\ ~(b + p < TOTAL_FRAME) => block_index' = 0 /\ k # 0 /\ order' = k - 1
    BY <1>2 DEF InitBlock
  <2>2. k # 0 => k - 1 \in Orders /\ k - 1 <= k
    BY <1>1, SizeAssumption DEF Orders
  <2>3. k <= k
    BY <1>1 DEF Orders
  <2> QED BY <1>1, <1>2, <2>1, <2>2, <2>3, SizeAssumption
<1>5. \A f \in Frames : status[f] # UNINIT_FRAME => status'[f] = status[f]
  <2>1. CASE ~AllFree(b, k)
    BY <2>1 DEF InitBlock
  <2>2. CASE AllFree(b, k)
    <3>1. \A f \in b .. b + p - 1 : status[f] = UNINIT_FRAME
      BY <1>2, <2>2 DEF AllFree
    <3>2. status' = [i \in Frames |->
               IF i = b THEN k ELSE IF i \in b + 1 .. b + p - 1
                                    THEN BELONGED_FRAME ELSE status[i]]
      BY <1>2, <2>2 DEF InitBlock
    <3>3. b \in b .. b + p - 1 /\ \A f \in b + 1 .. b + p - 1 : f \in b .. b + p - 1
      BY <1>1, <1>2
    <3> QED BY <3>1, <3>2, <3>3
  <2> QED BY <2>1, <2>2
<1>6. \A g \in Heads : status[g] \in Orders /\ status[g] >= k /\ g \in Heads' /\ status'[g] = status[g]
  <2>1. \A g \in Heads : status[g] \in Orders /\ status[g] >= k /\ g \in Frames
    BY <1>1 DEF InitMerged, Heads
  <2>2. \A g \in Heads : status'[g] = status[g]
    BY <1>5, <2>1, MarksAreNotOrders
  <2> QED BY <2>1, <2>2 DEF Heads
<1>7. ASSUME NEW g \in Heads' PROVE status'[g] \in Orders /\ status'[g] >= order'
  <2>1. CASE g \in Heads
    BY <1>1, <1>4, <1>6, <2>1 DEF Orders
  <2>2. CASE g \notin Heads
    <3>1. AllFree(b, k) /\ status'[g] = k
      <4>1. g \in Frames /\ status'[g] \in Orders \cup {ALLOCATED_FRAME} /\ status'[g] # status[g]
        BY <2>2 DEF Heads
      <4>2. AllFree(b, k)
        BY <4>1 DEF InitBlock
      <4>3. status' = [i \in Frames |->
                 IF i = b THEN k ELSE IF i \in b + 1 .. b + p - 1
                                      THEN BELONGED_FRAME ELSE status[i]]
        BY <1>2, <4>2 DEF InitBlock
      <4> QED BY <4>1, <4>2, <4>3, MarksAreNotOrders
    <3> QED BY <1>1, <1>4, <3>1 DEF Orders
  <2> QED BY <2>1, <2>2
<1>8. ASSUME NEW h \in Frames, NEW j \in Orders, Filled(h, j) PROVE Filled(h, j)'
  <2>1. PICK f \in Frames :
          /\ Within(f, h, j)
          /\ \/ status[f] = RESERVED_FRAME
             \/ \E g \in Heads : status[g] >= j /\ Within(f, g, status[g])
    BY <1>8 DEF Filled
  <2>2. CASE status[f] = RESERVED_FRAME
    BY <1>5, <2>1, <2>2, MarksAreNotOrders DEF Filled, Within
  <2>3. CASE \E g \in Heads : status[g] >= j /\ Within(f, g, status[g])
    BY <1>6, <2>1, <2>3 DEF Filled, Within
  <2> QED BY <2>1, <2>2, <2>3
<1>9. ASSUME b + p <= TOTAL_FRAME PROVE Filled(b, k)'
  <2>1. CASE AllFree(b, k)
    <3>1. status'[b] = k /\ b \in Heads'
      BY <1>1, <2>1 DEF InitBlock, Heads
    <3>2. Within(b, b, k) /\ k >= k
      BY <1>1, <1>2 DEF Within, Orders
    <3> QED BY <1>1, <3>1, <3>2 DEF Filled, Within
  <2>2. CASE ~AllFree(b, k)
    <3>1. PICK f \in b .. b + p - 1 : status[f] # UNINIT_FRAME
      BY <1>2, <1>9, <2>2 DEF AllFree
    <3>2. f \in Frames /\ Within(f, b, k)
      <4>1. f \in Nat /\ b <= f /\ f < b + p
        BY <1>1, <1>2
      <4> QED BY <1>1, <1>2, <1>9, <4>1, SizeAssumption DEF Within, Frames
    <3>3. CASE status[f] = RESERVED_FRAME
      BY <1>1, <1>8, <3>2, <3>3 DEF Filled
    <3>4. CASE f \in Heads
      <4>1. status[f] >= k /\ Within(f, f, status[f])
        BY <1>6, <3>2, <3>4, BlockSizeStep DEF Within, Frames
      <4> QED BY <1>1, <1>8, <3>2, <3>4, <4>1 DEF Filled
    <3>5. CASE status[f] = BELONGED_FRAME
      <4>1. PICK g \in Heads : g < f /\ f < g + BlockSize[OrderOf(g)]
        BY <3>2, <3>5 DEF IndInv, Covered
      <4>2. OrderOf(g) = status[g] /\ status[g] >= k
        BY <1>1, <1>6, MarksAreNotOrders DEF OrderOf, Floating
      <4>3. Within(f, g, status[g])
        BY <3>2, <4>1, <4>2 DEF Within, Frames, Heads
      <4> QED BY <1>1, <1>8, <3>2, <4>2, <4>3 DEF Filled
    <3> QED BY <1>1, <3>1, <3>2, <3>3, <3>4, <3>5
            DEF Heads, Orders, BELONGED_FRAME, ALLOCATED_FRAME, RESERVED_FRAME, UNINIT_FRAME
  <2> QED BY <2>1, <2>2
<1>10. ASSUME NEW j \in Orders, NEW h \in Frames,
              Aligned(h, j), h + BlockSize[j] <= TOTAL_FRAME, Passed(h, j)'
       PROVE  Filled(h, j)'
  <2>1. CASE Passed(h, j)
    BY <1>1, <1>8, <1>10, <2>1 DEF InitMerged
  <2>2. CASE ~Passed(h, j)
    <3>1. j = k /\ h >= b /\ h < b + p
      BY <1>1, <1>2, <1>4, <1>10, <2>2, SizeAssumption DEF Passed, Orders, Frames
    <3>2. h = b
      <4> SUFFICES ASSUME b < h PROVE FALSE
        BY <1>1, <3>1 DEF Frames
      <4>1. b + p <= h
        BY <1>1, <1>2, <1>10, <3>1, AlignedApart DEF Frames
      <4> QED BY <1>1, <1>2, <3>1, <4>1 DEF Frames
    <3> QED BY <1>2, <1>9, <1>10, <3>1, <3>2
  <2> QED BY <2>1, <2>2
<1> QED BY <1>7, <1>10 DEF InitMerged, Aligned

(* Free memory is never left in halves that make a block. *)
LEMMA HalvesMerged == Spec => [](Merged /\ InitMerged)
<1>1. ASSUME Init PROVE Merged /\ InitMerged
  <2>1. FreeBlocks = {} /\ Heads = {}
    BY <1>1, MarksAreNotOrders DEF Init, FreeBlocks, Heads
  <2>2. \A k \in Orders : \A h \in Frames : ~Passed(h, k)
    BY <1>1, SizeAssumption DEF Init, Passed, Orders, Frames
  <2> QED BY <2>1, <2>2 DEF Merged, InitMerged
<1>2. ASSUME IndInv, Merged, InitMerged, [Next]_vars PROVE Merged' /\ InitMerged'
  <2>0. order \in Orders /\ block_index \in Frames /\ block_index \in Nat
    BY <1>2 DEF IndInv, TypeOK, Frames
  <2>1. CASE InitBlock
    <3>1. InitMerged' /\ pc = "init" /\ Aligned(block_index, order)
      BY <1>2, <2>1, InitBlockMerged DEF InitBlock, IndInv, InProgress
    <3>2. Merged'
      <4>1. CASE AllFree(block_index, order)
        BY <1>2, <2>0, <2>1, <3>1, <4>1, InitBlockIndInv, NewBlockAlone, PushedMerged
      <4>2. CASE ~AllFree(block_index, order)
        BY <1>2, <2>1, <4>2, InitBlockIndInv, KeptMerged
      <4> QED BY <4>1, <4>2
    <3> QED BY <3>1, <3>2
  <2>2. CASE SplitBlock
    <3> SUFFICES ASSUME NEW CONSTANT b, NEW CONSTANT k, NEW CONSTANT u,
                        b = block_index, k = order - 1, u = b + BlockSize[k]
                 PROVE  Merged' /\ InitMerged'
      OBVIOUS
    <3>1. Pushed(u, k) /\ pc = "split" /\ pc' = "split" /\ order > request
      BY <1>2, <2>2, SplitBlockIndInv DEF SplitBlock
    <3>2. k \in Orders /\ k < MAX_ORDER /\ order > 0 /\ order = k + 1 /\ b \in Nat
      BY <1>2, <2>0, <3>1, SizeAssumption DEF IndInv, TypeOK, Orders
    <3>3. Aligned(b, order)
      <4>1. b \in Heads /\ OrderOf(b) = order
        BY <1>2, <2>0, <3>1 DEF IndInv, InProgress, Heads, OrderOf, Floating
      <4> QED BY <1>2, <4>1 DEF IndInv, BlockShape
    <3>4. Aligned(b, k) /\ Aligned(u, k) /\ BuddyOf(b, k) = u /\ u \in Nat
      BY <2>0, <3>2, <3>3, SplitAligned, BlockSizeStep
    <3>5. BuddyOf(u, k) = b
      BY <3>2, <3>4, Halves
    <3>6. b \notin FreeBlocks
      BY <3>1 DEF FreeBlocks, Floating
    <3> QED BY <1>2, <3>1, <3>2, <3>4, <3>5, <3>6, PushedMerged DEF InitMerged
  <2>3. CASE AllocateReturn
    BY <1>2, <2>3, AllocateReturnIndInv, KeptMerged DEF InitMerged, AllocateReturn, Return
  <2>4. CASE MergeBuddy
    BY <1>2, <2>4, MergeBuddyIndInv, TakenMerged DEF InitMerged, MergeBuddy
  <2>5. CASE FreeReturn
    <3>1. Pushed(block_index, order) /\ pc = "merge" /\ pc' = "ready" /\ ~CanMerge
      BY <1>2, <2>5, FreeReturnIndInv DEF FreeReturn, Return
    <3>2. Aligned(block_index, order)
      <4>1. block_index \in Heads /\ OrderOf(block_index) = order
        BY <1>2, <2>0, <3>1 DEF IndInv, InProgress, Heads, OrderOf, Floating
      <4> QED BY <1>2, <4>1 DEF IndInv, BlockShape
    <3>3. order < MAX_ORDER => ~( /\ BuddyOf(block_index, order) \in FreeBlocks
                                  /\ status[BuddyOf(block_index, order)] = order )
      BY <3>1, SizeAssumption DEF CanMerge, FreeBlocks, Frames
    <3> QED BY <1>2, <2>0, <3>1, <3>2, <3>3, PushedMerged DEF InitMerged
  <2>6. ASSUME NEW k \in Orders, BuddyAllocate(k) PROVE Merged' /\ InitMerged'
    BY <1>2, <2>6, BuddyAllocateIndInv, TakenMerged DEF InitMerged, BuddyAllocate
  <2>7. ASSUME NEW b \in Frames, BuddyFree(b) PROVE Merged' /\ InitMerged'
    BY <1>2, <2>7, BuddyFreeIndInv, KeptMerged DEF InitMerged, BuddyFree
  <2>8. CASE UNCHANGED vars
    <3>1. Kept
      BY <2>8 DEF Kept, FreeBlocks, Floating, vars, desc, local
    <3>2. InitMerged'
      BY <1>2, <2>8 DEF InitMerged, Filled, Passed, Heads, vars, desc, local
    <3> QED BY <1>2, <3>1, <3>2, KeptMerged
  <2> QED BY <1>2, <2>1, <2>2, <2>3, <2>4, <2>5, <2>6, <2>7, <2>8 DEF Next, Step
<1> QED BY <1>1, <1>2, IndInvariant, PTL DEF Spec

(* While a run of BlockSize[k] frames is free, buddy_allocate(k) finds a   *)
(* block, for every memory size, every set of reservations and every       *)
(* history of calls.                                                       *)
THEOREM FailsOnlyWhenItMust == Spec => []FailsOnlyWhenFull
<1>1. ASSUME IndInv, RankInv, Merged, pc = "ready", NEW k \in Orders,
             \A i \in k .. MAX_ORDER : free_frame_lists[i] = BUDDY_NULL,
             NEW h \in Frames, Aligned(h, k), h + BlockSize[k] <= TOTAL_FRAME,
             \A f \in h .. h + BlockSize[k] - 1 : \E b \in FreeBlocks : f \in FramesOf(b)
      PROVE  FALSE
  <2>1. PICK r \in [Frames -> Int] : Falls(r)
    BY <1>1 DEF RankInv
  <2>2. h \in Nat /\ BlockSize[k] \in Nat \ {0} /\ h + BlockSize[k] <= TOTAL_FRAME
    BY <1>1, BlockSizeStep DEF Frames
  <2>3. ASSUME NEW b \in FreeBlocks PROVE status[b] < k
    <3> SUFFICES ASSUME NEW CONSTANT i, i = status[b], i \in k .. MAX_ORDER PROVE FALSE
      BY <1>1, FreeBlockShape DEF Orders
    <3> DEFINE C == BlocksOfOrder(i)
    <3>1. i \in Orders /\ free_frame_lists[i] = -1
      BY <1>1, SizeAssumption DEF Orders, BUDDY_NULL
    <3>2. C \in SUBSET (0 .. TOTAL_FRAME - 1) /\ IsList(C, -1, next, prev, r)
      BY <1>1, <2>1, <3>1, FreeBlocksList
    <3>3. b \in C /\ TOTAL_FRAME \in Nat /\ r \in [0 .. TOTAL_FRAME - 1 -> Int]
      BY SizeAssumption DEF BlocksOfOrder, Frames
    <3> HIDE DEF C
    <3>4. PICK n \in 0 .. TOTAL_FRAME : \E w \in [0 .. n -> C] : LeadsBack(w, n, b, -1, next)
      BY <3>2, <3>3, HeadFound
    <3>5. PICK w \in [0 .. n -> C] : LeadsBack(w, n, b, -1, next)
      BY <3>4
    <3>6. w[n] = -1 /\ w[n] \in C
      BY <3>5 DEF LeadsBack
    <3> QED BY <3>2, <3>6
  <2>4. ASSUME NEW f \in Frames, Within(f, h, k)
        PROVE  \E b \in FreeBlocks : Within(f, b, status[b])
    <3>1. PICK b \in FreeBlocks : f \in FramesOf(b)
      BY <1>1, <2>2, <2>4 DEF Within, Frames
    <3>2. b \in Nat /\ OrderOf(b) = status[b] /\ BlockSize[status[b]] \in Nat \ {0}
      BY <1>1, FreeBlockShape, BlockSizeStep
    <3> QED BY <3>1, <3>2 DEF FramesOf, Within
  <2> DEFINE Sizes == {j \in Nat : \E b \in FreeBlocks : \E f \in Frames :
                         status[b] = j /\ Within(f, h, k) /\ Within(f, b, j)}
  <2>5. Sizes # {}
    <3>1. Within(h, h, k)
      BY <2>2 DEF Within
    <3>2. PICK b \in FreeBlocks : Within(h, b, status[b])
      BY <2>4, <3>1
    <3>3. status[b] \in Nat
      BY <1>1, FreeBlockShape DEF Orders
    <3> QED BY <3>1, <3>2, <3>3
  <2>6. PICK j \in Sizes : \A i \in Sizes : j <= i
    <3>1. Sizes \in SUBSET Nat
      OBVIOUS
    <3> HIDE DEF Sizes
    <3> QED BY <2>5, <3>1, SmallestNumber
  <2>7. PICK b \in FreeBlocks, f \in Frames : status[b] = j /\ Within(f, h, k) /\ Within(f, b, j)
    BY <2>6
  <2>8. /\ b \in Nat /\ j \in Orders /\ Aligned(b, j) /\ j < k /\ f \in Nat
        /\ b \in Heads /\ OrderOf(b) = j /\ b \in Frames
    BY <1>1, <2>3, <2>7, FreeBlockShape DEF Frames
  <2>9. /\ j < MAX_ORDER /\ j \in 0 .. k /\ j + 1 \in 0 .. k /\ j + 1 \in Orders
    BY <2>8, SizeAssumption DEF Orders
  <2>10. PICK p \in Nat \ {0} : p = BlockSize[j] /\ BlockSize[j + 1] = 2 * p
    BY <2>8, <2>9, BlockSizeStep
  <2>11. h <= b /\ b + p <= h + BlockSize[k]
    BY <1>1, <2>2, <2>7, <2>8, <2>9, <2>10, Nested
  <2> DEFINE c == BuddyOf(b, j)
  <2>12. PICK l \in Nat : /\ Aligned(l, j + 1)
                          /\ ((b = l /\ c = l + p) \/ (b = l + p /\ c = l))
    BY <2>8, <2>9, <2>10, Halves
  <2> HIDE DEF c
  <2>13. Within(b, h, k) /\ Within(b, l, j + 1) /\ Within(c, l, j + 1) /\ Within(b, b, j)
    BY <2>2, <2>8, <2>10, <2>11, <2>12 DEF Within
  <2>14. h <= l /\ l + 2 * p <= h + BlockSize[k]
    BY <1>1, <2>2, <2>8, <2>9, <2>10, <2>12, <2>13, Nested
  <2>15. c \in Frames /\ c \in Nat /\ Within(c, h, k) /\ Within(c, c, j)
    <3>1. c \in Nat /\ h <= c /\ c + p <= h + BlockSize[k]
      BY <2>2, <2>12, <2>14
    <3>2. c < h + BlockSize[k] /\ c < TOTAL_FRAME /\ c < c + p
      BY <2>2, <3>1, SizeAssumption
    <3> HIDE DEF Sizes
    <3>3. c \in Frames
      BY <3>1, <3>2, SizeAssumption DEF Frames
    <3> QED BY <2>10, <3>1, <3>2, <3>3 DEF Within
  <2>16. PICK d \in FreeBlocks : Within(c, d, status[d])
    BY <2>4, <2>15
  <2>17. PICK i \in Orders : i = status[d]
    BY <1>1, FreeBlockShape
  <2>18. d \in Nat /\ Aligned(d, i) /\ d \in Heads /\ OrderOf(d) = i /\ i \in Nat
    BY <1>1, <2>17, FreeBlockShape DEF Orders
  <2>19. j <= i
    <3>1. i \in Sizes
      BY <2>15, <2>16, <2>17, <2>18
    <3> QED BY <2>6, <3>1
  <2>20. Aligned(c, j)
    <3>1. Aligned(l, j) /\ Aligned(l + p, j)
      <4>1. j + 1 > 0 /\ (j + 1) - 1 = j
        BY <2>8 DEF Orders
      <4> QED BY <2>9, <2>10, <2>12, <4>1, SplitAligned
    <3> QED BY <2>12, <3>1
  <2>21. CASE i = j
    <3>1. j \in 0 .. j
      BY <2>8 DEF Orders
    <3>2. Within(c, d, j)
      BY <2>16, <2>17, <2>21
    <3>3. d <= c
      BY <2>8, <2>15, <2>18, <2>20, <2>21, <3>1, <3>2, Nested
    <3>4. c <= d
      BY <2>8, <2>15, <2>18, <2>20, <2>21, <3>1, <3>2, Nested
    <3>5. d = c
      BY <2>15, <2>18, <3>3, <3>4
    <3>6. status[d] = status[b] /\ status[b] < MAX_ORDER
      BY <2>7, <2>9, <2>17, <2>21
    <3>7. d = BuddyOf(b, status[b])
      BY <2>7, <3>5 DEF c
    <3> QED BY <1>1, <3>6, <3>7 DEF Merged
  <2>22. CASE i # j
    <3>1. j + 1 \in 0 .. i
      BY <2>8, <2>18, <2>19, <2>22 DEF Orders
    <3>2. d <= l /\ l + 2 * p <= d + BlockSize[i]
      BY <2>9, <2>10, <2>12, <2>13, <2>15, <2>16, <2>17, <2>18, <3>1, Nested
    <3>3. b # d
      BY <2>7, <2>17, <2>22
    <3>4. d <= b /\ b < d + BlockSize[i]
      BY <2>8, <2>10, <2>12, <2>17, <2>18, <3>2, BlockSizeStep
    <3>5. b <= b /\ b < b + BlockSize[j]
      BY <2>8, <2>10
    <3> QED BY <1>1, <2>8, <2>18, <3>3, <3>4, <3>5, BlocksDisjoint
  <2> QED BY <2>21, <2>22
<1>2. IndInv /\ RankInv /\ Merged => FailsOnlyWhenFull
  BY <1>1 DEF FailsOnlyWhenFull, Aligned
<1> QED BY IndInvariant, RanksFall, HalvesMerged, <1>2, PTL
=============================================================================
