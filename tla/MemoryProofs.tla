----------------------------- MODULE MemoryProofs -----------------------------
(***************************************************************************)
(* Proofs about module KMem: callers never share memory or use memory the  *)
(* page allocator may hand out again, no page leaks, and the slab lists    *)
(* are exact; and about module Vm: mmap finds the first gap, every block   *)
(* has one owner, translations are those of the regions, and programs      *)
(* have private memories.                                                  *)
(***************************************************************************)
EXTENDS KMem, VmInvariants, ListLemmas, FiniteSetTheorems

Links == Frames \cup {SLAB_NULL}

TypeOK ==
  /\ held \subseteq P!Blocks
  /\ is_slab_page \in [Frames -> BOOLEAN]
  /\ slab_type \in [Frames -> Types \cup {-1}]
  /\ free_slabs \in [Frames -> Int]
  /\ bitmap \in [Frames -> SUBSET Nat]
  /\ slab_next \in [Frames -> Links] /\ slab_prev \in [Frames -> Links]
  /\ slab_start_list \in [Types -> Links]
  /\ live \subseteq Nat \X Sizes

(* Held blocks do not overlap. *)
HeldInv ==
  \A b, c \in held : b # c => P!FramesOf(b) \cap P!FramesOf(c) = {}

(* What the descriptor of a slab page says of the page. *)
PageInv ==
  \A f \in Frames :
    IF is_slab_page[f]
    THEN /\ <<f, 0>> \in held
         /\ slab_type[f] \in Types /\ slab_sizes[slab_type[f]] > 0
         /\ bitmap[f] # {} /\ bitmap[f] \subseteq 0 .. TotalSlabs(slab_type[f]) - 1
         /\ free_slabs[f] = TotalSlabs(slab_type[f]) - Cardinality(bitmap[f])
    ELSE slab_type[f] = -1 /\ bitmap[f] = {} /\ free_slabs[f] = -1

(* Neighbours on a list point at each other and have one class. *)
LinkInv ==
  /\ \A f \in Frames : is_slab_page[f] =>
       /\ slab_next[f] # SLAB_NULL =>
            /\ is_slab_page[slab_next[f]] /\ slab_type[slab_next[f]] = slab_type[f]
            /\ slab_prev[slab_next[f]] = f
       /\ slab_prev[f] # SLAB_NULL =>
            /\ is_slab_page[slab_prev[f]] /\ slab_type[slab_prev[f]] = slab_type[f]
            /\ slab_next[slab_prev[f]] = f
       /\ slab_prev[f] = SLAB_NULL <=> slab_start_list[slab_type[f]] = f
  /\ \A t \in Types : slab_start_list[t] # SLAB_NULL =>
       is_slab_page[slab_start_list[t]] /\ slab_type[slab_start_list[t]] = t

(* A list has no cycle: a number falls along it. *)
Falls(r) ==
  \A f \in Frames : is_slab_page[f] /\ slab_next[f] # SLAB_NULL => r[slab_next[f]] < r[f]

RankInv == \E r \in [Frames -> Int] : Falls(r)

(* The address of slot i of a page of class t. *)
SlotAddress(f, i, t) == index2address(f) + i * slab_sizes[t]

(* Where an allocation is: in a slot in use that is large enough, or at    *)
(* the start of a block of the order that was asked for.                   *)
InSlot(l, f)  ==
  /\ is_slab_page[f]
  /\ \E i \in bitmap[f] : l[1] = SlotAddress(f, i, slab_type[f])
  /\ l[2] <= slab_sizes[slab_type[f]]

InBlock(l, b) ==
  ~is_slab_page[b[1]] /\ l[1] = index2address(b[1]) /\ b[2] = size2order(l[2])

LiveInv ==
  /\ \A l \in live : (\E f \in Frames : InSlot(l, f)) \/ (\E b \in held : InBlock(l, b))
  /\ \A l, m \in live : l[1] = m[1] => l = m

(* Every slot in use and every block has its allocation. *)
UseInv ==
  /\ \A f \in Frames : \A i \in bitmap[f] :
       \E l \in live : l[1] = SlotAddress(f, i, slab_type[f])
  /\ \A b \in held : ~is_slab_page[b[1]] => \E l \in live : l[1] = index2address(b[1])

MemoryInv == TypeOK /\ HeldInv /\ PageInv /\ LiveInv /\ UseInv
ListInv   == LinkInv /\ RankInv

IndInv == MemoryInv /\ ListInv
-----------------------------------------------------------------------------
(* Numbers. *)

(* Multiples of a size are that size apart. *)
LEMMA Products ==
  ASSUME NEW a \in Nat, NEW b \in Nat, NEW s \in Nat, a < b
  PROVE  a * s + s <= b * s /\ a * s \in Nat
OBVIOUS

(* Division with remainder. *)
LEMMA Divided ==
  ASSUME NEW m \in Nat \ {0}, NEW a \in Nat
  PROVE  a \div m \in Nat /\ a % m \in 0 .. m - 1 /\ a = ((a \div m) * m) + (a % m)
OBVIOUS

(* A multiple and an offset below the divisor are what division finds. *)
LEMMA Quotient ==
  ASSUME NEW m \in Nat \ {0}, NEW q \in Nat, NEW o \in 0 .. m - 1
  PROVE  ((q * m) + o) \div m = q /\ ((q * m) + o) % m = o /\ (q * m) + o \in Nat
<1>. DEFINE x == (q * m) + o
            d == x \div m
            e == x % m
<1>1. x \in Nat
  OBVIOUS
<1>2. d \in Nat /\ e \in 0 .. m - 1 /\ x = (d * m) + e
  BY <1>1, Divided
<1>. HIDE DEF d, e
<1>3. q = d
  <2>1. CASE q < d
    BY <1>2, <2>1, Products
  <2>2. CASE d < q
    BY <1>2, <2>2, Products
  <2>. QED  BY <1>2, <2>1, <2>2
<1>4. d = q /\ e = o
  BY <1>2, <1>3
<1>. QED  BY <1>1, <1>4 DEF d, e

(* A number between two multiples has its quotient between the factors. *)
LEMMA Between ==
  ASSUME NEW m \in Nat \ {0}, NEW a \in Nat, NEW x \in Nat, NEW y \in Nat,
         x * m <= a, a < y * m
  PROVE  a \div m \in x .. y - 1
<1>. DEFINE d == a \div m
            e == a % m
<1>1. d \in Nat /\ e \in 0 .. m - 1 /\ a = (d * m) + e
  BY Divided
<1>. HIDE DEF d, e
<1>2. ~(d < x)
  BY <1>1, Products
<1>3. ~(y <= d)
  <2>. SUFFICES ASSUME y <= d
                PROVE  FALSE
    OBVIOUS
  <2>1. y * m <= d * m
    <3>1. CASE y = d
      BY <3>1
    <3>2. CASE y < d
      BY <1>1, <3>2, Products
    <3>. QED  BY <1>1, <3>1, <3>2
  <2>. QED  BY <1>1, <2>1
<1>. QED  BY <1>1, <1>2, <1>3 DEF d

-----------------------------------------------------------------------------
(* Addresses. *)

(* The constants, one by one. *)
LEMMA Constants ==
  /\ TOTAL_FRAME \in Nat \ {0} /\ FRAME_SIZE \in Nat \ {0} /\ UINT_RANGE \in Nat
  /\ MAX_ORDER \in Nat /\ 0 \in 0 .. MAX_ORDER /\ BlockSize[0] = 1
  /\ \A k \in 0 .. MAX_ORDER : BlockSize[k] \in Nat \ {0}
  /\ 0 \in Types /\ \A t \in Types : slab_sizes[t] \in Nat /\ slab_sizes[t] <= FRAME_SIZE
  /\ slab_sizes[0] > 0
  /\ \A z \in Sizes : z \in Nat
BY KMemAssumption DEF Types

(* A class that is in use, and how many slots its pages have. *)
Class(t) == t \in Types /\ slab_sizes[t] > 0
Slots(t) == 0 .. TotalSlabs(t) - 1

(* A class has a slot, and its slots lie inside the frame. *)
LEMMA SlotCount ==
  ASSUME NEW t, Class(t)
  PROVE  /\ TotalSlabs(t) \in Nat /\ 0 \in Slots(t)
         /\ \A i \in Slots(t) : /\ i * slab_sizes[t] + slab_sizes[t] <= FRAME_SIZE
                                /\ i * slab_sizes[t] \in 0 .. FRAME_SIZE - 1
<1>. DEFINE s == slab_sizes[t]
            n == FRAME_SIZE \div s
            e == FRAME_SIZE % s
<1>1. s \in Nat \ {0} /\ s <= FRAME_SIZE /\ FRAME_SIZE \in Nat \ {0}
  BY Constants DEF Class
<1>. HIDE DEF s
<1>2. n \in Nat /\ e \in 0 .. s - 1 /\ FRAME_SIZE = (n * s) + e
  BY <1>1, Divided
<1>. HIDE DEF n, e
<1>3. n # 0
  BY <1>1, <1>2
<1>4. ASSUME NEW i \in 0 .. n - 1
      PROVE  i * s + s <= FRAME_SIZE /\ i * s \in 0 .. FRAME_SIZE - 1
  <2>1. i * s + s <= n * s /\ i * s \in Nat
    BY <1>1, <1>2, Products
  <2>. QED  BY <1>1, <1>2, <2>1
<1>. QED  BY <1>2, <1>3, <1>4 DEF Slots, TotalSlabs, n, s

(* Slots of a class are numbered and not empty. *)
LEMMA ClassFacts ==
  ASSUME NEW t, Class(t)
  PROVE  slab_sizes[t] \in Nat \ {0} /\ \A i \in Slots(t) : i \in Nat
<1>1. slab_sizes[t] \in Nat \ {0}
  BY Constants DEF Class
<1>2. \A n \in Nat : \A i \in 0 .. n - 1 : i \in Nat
  OBVIOUS
<1>. QED  BY <1>1, <1>2, SlotCount DEF Slots

(* The frame of an address in a slot, and the slot. *)
LEMMA SlotPlace ==
  ASSUME NEW f \in Frames, NEW t, Class(t), NEW i \in Slots(t)
  PROVE  /\ SlotAddress(f, i, t) \in Nat
         /\ address2index(SlotAddress(f, i, t)) = f
         /\ SlotAddress(f, i, t) % FRAME_SIZE = i * slab_sizes[t]
<1>1. i * slab_sizes[t] \in 0 .. FRAME_SIZE - 1 /\ FRAME_SIZE \in Nat \ {0} /\ f \in Nat
  BY SlotCount, Constants DEF Frames
<1>. QED  BY <1>1, Quotient DEF SlotAddress, index2address, address2index

(* address2index undoes index2address. *)
LEMMA FramePlace ==
  ASSUME NEW f \in Frames
  PROVE  index2address(f) \in Nat /\ address2index(index2address(f)) = f
<1>1. FRAME_SIZE \in Nat \ {0} /\ f \in Nat /\ 0 \in 0 .. FRAME_SIZE - 1
  BY Constants DEF Frames
<1>2. ((f * FRAME_SIZE) + 0) \div FRAME_SIZE = f /\ (f * FRAME_SIZE) + 0 \in Nat
  BY <1>1, Quotient
<1>3. (f * FRAME_SIZE) + 0 = f * FRAME_SIZE
  BY <1>1
<1>. QED  BY <1>2, <1>3 DEF index2address, address2index

(* The first slot is where the page starts. *)
LEMMA FirstSlot ==
  ASSUME NEW f \in Frames, NEW t, Class(t)
  PROVE  SlotAddress(f, 0, t) = index2address(f)
<1>. f \in Nat /\ FRAME_SIZE \in Nat /\ slab_sizes[t] \in Nat
  BY Constants DEF Frames, Class
<1>. QED  BY DEF SlotAddress, index2address

(* Two slots of one class have different addresses. *)
LEMMA SameSlot ==
  ASSUME NEW f \in Frames, NEW g \in Frames, NEW t, Class(t), NEW i \in Slots(t), NEW j \in Slots(t),
         SlotAddress(f, i, t) = SlotAddress(g, j, t)
  PROVE  f = g /\ i = j
<1>1. f = g /\ i * slab_sizes[t] = j * slab_sizes[t]
  BY SlotPlace
<1>2. slab_sizes[t] \in Nat /\ slab_sizes[t] > 0 /\ i \in Nat /\ j \in Nat
  BY ClassFacts
<1>3. ~(i < j)
  BY <1>1, <1>2, Products
<1>4. ~(j < i)
  BY <1>1, <1>2, Products
<1>. QED  BY <1>1, <1>2, <1>3, <1>4

(* An address that slab_free accepts is that of its slot. *)
LEMMA AcceptedSlot ==
  ASSUME NEW a \in Addresses, Class(slab_type[address2index(a)]), SlabFreeAccepts(a)
  PROVE  /\ SlotOf(a) \in Slots(slab_type[address2index(a)])
         /\ a = SlotAddress(address2index(a), SlotOf(a), slab_type[address2index(a)])
<1>. DEFINE t == slab_type[address2index(a)]
            s == slab_sizes[t]
            o == a % FRAME_SIZE
            i == o \div s
<1>1. /\ FRAME_SIZE \in Nat \ {0} /\ s \in Nat \ {0} /\ a \in Nat
      /\ TotalSlabs(t) \in Nat
  <2>1. TotalSlabs(t) \in Nat /\ s \in Nat \ {0}
    BY SlotCount, ClassFacts
  <2>. QED  BY <2>1, Constants DEF Addresses
<1>2. o \in Nat /\ a = ((a \div FRAME_SIZE) * FRAME_SIZE) + o
  <2>1. FRAME_SIZE \in Nat \ {0} /\ a \in Nat
    BY <1>1
  <2>. HIDE DEF s, i
  <2>2. /\ a % FRAME_SIZE \in 0 .. FRAME_SIZE - 1
        /\ a = ((a \div FRAME_SIZE) * FRAME_SIZE) + (a % FRAME_SIZE)
    BY <2>1, Divided
  <2>3. a % FRAME_SIZE \in Nat
    BY <2>1, <2>2
  <2>. QED  BY <2>2, <2>3
<1>3. o % s = 0 /\ i < TotalSlabs(t) /\ SlotOf(a) = i
  BY DEF SlabFreeAccepts, SlotOf
<1>. HIDE DEF o, s
<1>4. i \in Nat /\ o = (i * s) + (o % s)
  BY <1>1, <1>2, Divided
<1>5. i \in Slots(t)
  BY <1>1, <1>3, <1>4 DEF Slots
<1>6. (i * s) + (o % s) = i * s
  BY <1>1, <1>3, <1>4
<1>. HIDE DEF i
<1>7. a = ((a \div FRAME_SIZE) * FRAME_SIZE) + (i * s)
  BY <1>2, <1>4, <1>6
<1>. QED  BY <1>3, <1>5, <1>7 DEF SlotAddress, index2address, address2index, s

(* Every address that kfree is given lies in a frame. *)
LEMMA FrameOfAddress ==
  ASSUME NEW a \in Addresses
  PROVE  a \in Nat /\ address2index(a) \in Frames
<1>1. /\ FRAME_SIZE \in Nat \ {0} /\ TOTAL_FRAME \in Nat \ {0} /\ a \in Nat
      /\ 0 * FRAME_SIZE <= a /\ a < TOTAL_FRAME * FRAME_SIZE
  BY Constants DEF Addresses
<1>2. a \div FRAME_SIZE \in 0 .. TOTAL_FRAME - 1
  BY <1>1, Between
<1>. QED  BY <1>1, <1>2 DEF Frames, address2index

-----------------------------------------------------------------------------
(* Sizes. *)

(* The class that slab_allocate chooses is large enough, and never the one *)
(* without an initialiser.                                                 *)
LEMMA ClassChosen ==
  ASSUME NEW z \in Sizes, SlabTypeOf(z) # -1
  PROVE  Class(SlabTypeOf(z)) /\ z <= slab_sizes[SlabTypeOf(z)]
<1>. DEFINE fits == {t \in Types : slab_sizes[t] >= z}
            least(k) == \A u \in fits : k <= u
<1>1. fits # {} /\ SlabTypeOf(z) = CHOOSE k \in fits : \A u \in fits : k <= u
  BY DEF SlabTypeOf
<1>2. fits \in SUBSET Nat /\ z \in Nat
  BY Constants DEF Types
<1>3. \E k \in fits : \A u \in fits : k <= u
  <2>. HIDE DEF fits
  <2>. QED  BY <1>1, <1>2, SmallestNumber
<1>. DEFINE t == SlabTypeOf(z)
<1>4. t \in fits /\ \A u \in fits : t <= u
  BY <1>1, <1>3
<1>. HIDE DEF t
<1>5. t \in Types /\ slab_sizes[t] >= z /\ slab_sizes[t] \in Nat
  BY <1>4, Constants
<1>6. slab_sizes[t] # 0
  <2>. SUFFICES ASSUME slab_sizes[t] = 0
                PROVE  FALSE
    OBVIOUS
  <2>1. z = 0
    BY <1>2, <1>5
  <2>2. 0 \in fits
    BY <2>1, Constants
  <2>3. t <= 0 /\ t \in Nat
    BY <1>4, <1>2, <2>2
  <2>. QED  BY <2>3, Constants
<1>. QED  BY <1>2, <1>5, <1>6 DEF Class, t

(* A block of the order that size2order computes holds the request, unless *)
(* the request is so large that the sum wraps.                             *)
LEMMA OrderLargeEnough ==
  ASSUME NEW z \in Sizes, size2order(z) \in 0 .. MAX_ORDER, ~Wraps(z)
  PROVE  z <= BlockSize[size2order(z)] * FRAME_SIZE
<1>. DEFINE q    == (z + FRAME_SIZE - 1) \div FRAME_SIZE
            e    == (z + FRAME_SIZE - 1) % FRAME_SIZE
            fits == {k \in 0 .. MAX_ORDER : BlockSize[k] >= q}
            k    == size2order(z)
<1>1. /\ z \in Nat /\ FRAME_SIZE \in Nat \ {0} /\ UINT_RANGE \in Nat /\ MAX_ORDER \in Nat
      /\ z + FRAME_SIZE - 1 \in Nat /\ z + FRAME_SIZE - 1 < UINT_RANGE
  BY Constants DEF Wraps
<1>2. (z + FRAME_SIZE - 1) % UINT_RANGE = z + FRAME_SIZE - 1
  <2>. DEFINE x == z + FRAME_SIZE - 1
  <2>1. x \in 0 .. UINT_RANGE - 1 /\ UINT_RANGE \in Nat \ {0}
    BY <1>1
  <2>. HIDE DEF x
  <2>. x % UINT_RANGE = x
    BY <2>1
  <2>. QED  BY DEF x
<1>3. k = IF fits = {} THEN MAX_ORDER + 1 ELSE CHOOSE j \in fits : \A u \in fits : j <= u
  <2>. DEFINE Fits(n)  == {j \in 0 .. MAX_ORDER : BlockSize[j] >= n}
              Order(n) == IF Fits(n) = {} THEN MAX_ORDER + 1
                          ELSE CHOOSE j \in Fits(n) : \A u \in Fits(n) : j <= u
  <2>1. k = Order(((z + FRAME_SIZE - 1) % UINT_RANGE) \div FRAME_SIZE)
    BY DEF size2order
  <2>. HIDE DEF Order
  <2>2. k = Order(q)
    BY <1>2, <2>1
  <2>. QED  BY <2>2 DEF Order
<1>4. fits # {}
  BY <1>1, <1>3
<1>5. fits \in SUBSET Nat
  OBVIOUS
<1>6. \E j \in fits : \A u \in fits : j <= u
  <2>. HIDE DEF fits
  <2>. QED  BY <1>4, <1>5, SmallestNumber
<1>7. k \in fits
  <2>. HIDE DEF fits, k
  <2>. QED  BY <1>3, <1>4, <1>6
<1>. HIDE DEF k
<1>8. k \in 0 .. MAX_ORDER /\ BlockSize[k] >= q /\ BlockSize[k] \in Nat
  BY <1>7, Constants
<1>9. q \in Nat /\ e \in 0 .. FRAME_SIZE - 1 /\ z + FRAME_SIZE - 1 = (q * FRAME_SIZE) + e
  BY <1>1, Divided
<1>. HIDE DEF q, e
<1>10. z <= q * FRAME_SIZE
  BY <1>1, <1>9
<1>11. q * FRAME_SIZE <= BlockSize[k] * FRAME_SIZE
  <2>1. CASE q = BlockSize[k]
    BY <1>1, <1>9, <2>1
  <2>2. CASE q < BlockSize[k]
    BY <1>1, <1>8, <1>9, <2>2, Products
  <2>. QED  BY <1>8, <1>9, <2>1, <2>2
<1>12. z <= BlockSize[k] * FRAME_SIZE
  BY <1>1, <1>8, <1>9, <1>10, <1>11
<1>. QED  BY <1>12 DEF k
-----------------------------------------------------------------------------
(* Pages, blocks and allocations. *)

(* A block starts in a frame of its own; a page is a block of one frame. *)
LEMMA BlockFrames ==
  ASSUME NEW b \in P!Blocks
  PROVE  /\ b[1] \in Frames /\ b[2] \in 0 .. MAX_ORDER /\ b[1] \in P!FramesOf(b)
         /\ b = <<b[1], b[2]>>
<1>1. /\ b \in (0 .. TOTAL_FRAME - 1) \X (0 .. MAX_ORDER)
  BY DEF P!Blocks
<1>2. b[1] \in 0 .. TOTAL_FRAME - 1 /\ b[2] \in 0 .. MAX_ORDER /\ b = <<b[1], b[2]>>
  BY <1>1
<1>3. BlockSize[b[2]] \in Nat \ {0} /\ TOTAL_FRAME \in Nat
  BY <1>2, Constants
<1>. QED  BY <1>2, <1>3 DEF Frames, P!FramesOf

(* A slab page is a block of one frame. *)
LEMMA PageFrames ==
  ASSUME NEW f \in Frames
  PROVE  P!FramesOf(<<f, 0>>) = {f} /\ <<f, 0>> \in P!Blocks
<1>1. f \in 0 .. TOTAL_FRAME - 1 /\ TOTAL_FRAME \in Nat /\ BlockSize[0] = 1 /\ 0 \in 0 .. MAX_ORDER
  BY Constants DEF Frames
<1>2. P!FramesOf(<<f, 0>>) = f .. (f + BlockSize[0] - 1)
  BY DEF P!FramesOf
<1>3. f .. (f + 1 - 1) = {f}
  BY <1>1
<1>4. f % 1 = 0 /\ f + 1 <= TOTAL_FRAME
  BY <1>1
<1>. QED  BY <1>1, <1>2, <1>3, <1>4 DEF P!Blocks

(* Two held blocks that start in one frame are one block. *)
LEMMA OneBlock ==
  ASSUME TypeOK, HeldInv, NEW b \in held, NEW c \in held, b[1] = c[1]
  PROVE  b = c
<1>1. b[1] \in P!FramesOf(b) /\ c[1] \in P!FramesOf(c)
  BY BlockFrames DEF TypeOK
<1>. QED  BY <1>1 DEF HeldInv

(* What PageInv says of a slab page. *)
LEMMA PageFacts ==
  ASSUME MemoryInv, NEW f \in Frames, is_slab_page[f]
  PROVE  /\ Class(slab_type[f]) /\ <<f, 0>> \in held
         /\ bitmap[f] # {} /\ bitmap[f] \subseteq Slots(slab_type[f])
         /\ IsFiniteSet(bitmap[f]) /\ Cardinality(bitmap[f]) \in Nat
         /\ free_slabs[f] = TotalSlabs(slab_type[f]) - Cardinality(bitmap[f])
         /\ TotalSlabs(slab_type[f]) \in Nat
<1>1. /\ Class(slab_type[f]) /\ <<f, 0>> \in held
      /\ bitmap[f] # {} /\ bitmap[f] \subseteq Slots(slab_type[f])
      /\ free_slabs[f] = TotalSlabs(slab_type[f]) - Cardinality(bitmap[f])
  BY DEF MemoryInv, PageInv, Class, Slots
<1>2. TotalSlabs(slab_type[f]) \in Nat
  BY <1>1, SlotCount
<1>3. IsFiniteSet(Slots(slab_type[f]))
  BY <1>2, FS_Interval DEF Slots
<1>4. IsFiniteSet(bitmap[f])
  BY <1>1, <1>3, FS_Subset
<1>5. Cardinality(bitmap[f]) \in Nat
  BY <1>4, FS_CardinalityType
<1>. QED  BY <1>1, <1>2, <1>4, <1>5

(* The frame of an allocation. *)
LEMMA SlotFrame ==
  ASSUME MemoryInv, NEW f \in Frames, NEW l, InSlot(l, f)
  PROVE  address2index(l[1]) = f
<1>1. is_slab_page[f] /\ \E i \in bitmap[f] : l[1] = SlotAddress(f, i, slab_type[f])
  BY DEF InSlot
<1>2. Class(slab_type[f]) /\ bitmap[f] \subseteq Slots(slab_type[f])
  BY <1>1, PageFacts
<1>3. PICK i \in Slots(slab_type[f]) : l[1] = SlotAddress(f, i, slab_type[f])
  BY <1>1, <1>2
<1>. QED  BY <1>2, <1>3, SlotPlace

(* An allocation of a whole block is in the block's first frame. *)
LEMMA BlockFrame ==
  ASSUME MemoryInv, NEW b \in held, NEW l, InBlock(l, b)
  PROVE  address2index(l[1]) = b[1] /\ b[1] \in Frames
<1>1. b[1] \in Frames
  BY BlockFrames DEF MemoryInv, TypeOK
<1>. QED  BY <1>1, FramePlace DEF InBlock

(* Nobody has an allocation at a slot that is not in use, or in a frame    *)
(* that is no slab page and starts no block.                               *)
LEMMA SlotUnused ==
  ASSUME MemoryInv, NEW f \in Frames, is_slab_page[f],
         NEW i \in Slots(slab_type[f]) \ bitmap[f], NEW l \in live
  PROVE  l[1] # SlotAddress(f, i, slab_type[f])
<1>. SUFFICES ASSUME l[1] = SlotAddress(f, i, slab_type[f])
              PROVE  FALSE
  OBVIOUS
<1>1. Class(slab_type[f]) /\ bitmap[f] \subseteq Slots(slab_type[f])
  BY PageFacts
<1>2. address2index(l[1]) = f
  BY <1>1, SlotPlace
<1>3. CASE \E g \in Frames : InSlot(l, g)
  <2>1. InSlot(l, f)
    BY <1>2, <1>3, SlotFrame
  <2>2. PICK j \in bitmap[f] : l[1] = SlotAddress(f, j, slab_type[f])
    BY <2>1 DEF InSlot
  <2>3. j \in Slots(slab_type[f]) /\ i \in Slots(slab_type[f])
    BY <1>1
  <2>4. i = j
    BY <1>1, <2>2, <2>3, SameSlot
  <2>. QED  BY <2>4
<1>4. CASE \E b \in held : InBlock(l, b)
  <2>1. PICK b \in held : InBlock(l, b)
    BY <1>4
  <2>2. b[1] = f
    BY <1>2, <2>1, BlockFrame
  <2>. QED  BY <2>1, <2>2 DEF InBlock
<1>. QED  BY <1>3, <1>4 DEF MemoryInv, LiveInv

(* Nothing is in use at the start of a frame that no block starts in. *)
LEMMA FrameUnused ==
  ASSUME MemoryInv, NEW f \in Frames, ~is_slab_page[f], \A b \in held : b[1] # f, NEW l \in live
  PROVE  l[1] # index2address(f)
<1>. SUFFICES ASSUME l[1] = index2address(f)
              PROVE  FALSE
  OBVIOUS
<1>1. address2index(l[1]) = f
  BY FramePlace
<1>2. CASE \E g \in Frames : InSlot(l, g)
  BY <1>1, <1>2, SlotFrame DEF InSlot
<1>3. CASE \E b \in held : InBlock(l, b)
  BY <1>1, <1>3, BlockFrame
<1>. QED  BY <1>2, <1>3 DEF MemoryInv, LiveInv

(* A block that buddy_allocate hands out starts in a frame that is no slab *)
(* page and that starts no held block.                                     *)
LEMMA FreshBlock ==
  ASSUME MemoryInv, NEW b \in P!Blocks, P!Allocate(b)
  PROVE  /\ b[1] \in Frames /\ ~is_slab_page[b[1]] /\ \A c \in held : c[1] # b[1]
         /\ held' = held \cup {b} /\ HeldInv'
<1>1. /\ \A h \in held : P!FramesOf(b) \cap P!FramesOf(h) = {}
      /\ held' = held \cup {b}
  BY DEF P!Allocate
<1>2. b[1] \in Frames /\ b[1] \in P!FramesOf(b)
  BY BlockFrames
<1>3. \A c \in held : c[1] \in P!FramesOf(c)
  BY BlockFrames DEF MemoryInv, TypeOK
<1>4. \A c \in held : c[1] # b[1]
  BY <1>1, <1>2, <1>3
<1>5. ~is_slab_page[b[1]]
  <2>. SUFFICES ASSUME is_slab_page[b[1]]
                PROVE  FALSE
    OBVIOUS
  <2>. <<b[1], 0>> \in held
    BY <1>2, PageFacts
  <2>. <<b[1], 0>>[1] = b[1]
    OBVIOUS
  <2>. QED  BY <1>4
<1>6. HeldInv'
  <2>1. \A x, y \in held : x # y => P!FramesOf(x) \cap P!FramesOf(y) = {}
    BY DEF MemoryInv, HeldInv
  <2>2. \A x, y \in held \cup {b} : x # y => P!FramesOf(x) \cap P!FramesOf(y) = {}
    BY <1>1, <2>1
  <2>. QED  BY <1>1, <2>2 DEF HeldInv, P!FramesOf
<1>. QED  BY <1>1, <1>2, <1>4, <1>5, <1>6

-----------------------------------------------------------------------------
(* The properties follow from the invariant. *)

(* The bytes of an allocation lie in the frames of its block. *)
LEMMA SlotBytes ==
  ASSUME MemoryInv, NEW l \in live, NEW f \in Frames, InSlot(l, f)
  PROVE  \A a \in Bytes(l) : address2index(a) = f
<1>. DEFINE t == slab_type[f]
<1>1. Class(t) /\ bitmap[f] \subseteq Slots(t) /\ l[2] <= slab_sizes[t]
  BY PageFacts DEF InSlot
<1>2. PICK i \in Slots(t) : l[1] = SlotAddress(f, i, t)
  BY <1>1 DEF InSlot
<1>. SUFFICES ASSUME NEW a \in Bytes(l)
              PROVE  address2index(a) = f
  OBVIOUS
<1>3. /\ f \in Nat /\ FRAME_SIZE \in Nat \ {0} /\ slab_sizes[t] \in Nat /\ l[2] \in Nat
  <2>. l \in Nat \X Sizes
    BY DEF MemoryInv, TypeOK
  <2>. QED  BY <1>1, Constants DEF Frames, Class
<1>4. i * slab_sizes[t] + slab_sizes[t] <= FRAME_SIZE /\ i * slab_sizes[t] \in 0 .. FRAME_SIZE - 1
  BY <1>1, SlotCount
<1>. DEFINE o == i * slab_sizes[t]
            s == slab_sizes[t]
            m == f * FRAME_SIZE
<1>5. m \in Nat
  BY <1>3
<1>6. a \in (m + o) .. (m + o + l[2] - 1)
  BY <1>2 DEF Bytes, SlotAddress, index2address
<1>7. o + s <= FRAME_SIZE /\ o \in Nat /\ s \in Nat /\ l[2] <= s
  BY <1>1, <1>3, <1>4
<1>. HIDE DEF o, s, m
<1>8. a - m \in 0 .. FRAME_SIZE - 1 /\ a = m + (a - m)
  BY <1>3, <1>5, <1>6, <1>7
<1>9. (m + (a - m)) \div FRAME_SIZE = f
  BY <1>3, <1>8, Quotient DEF m
<1>. QED  BY <1>8, <1>9 DEF address2index

(* The bytes of an allocation of a whole block are in the block. *)
LEMMA BlockBytes ==
  ASSUME MemoryInv, NEW l \in live, NEW b \in held, InBlock(l, b), ~Wraps(l[2])
  PROVE  \A a \in Bytes(l) : address2index(a) \in P!FramesOf(b)
<1>. SUFFICES ASSUME NEW a \in Bytes(l)
              PROVE  address2index(a) \in P!FramesOf(b)
  OBVIOUS
<1>. DEFINE n == BlockSize[b[2]]
            m == b[1] * FRAME_SIZE
<1>1. b[1] \in Nat /\ b[2] \in 0 .. MAX_ORDER /\ n \in Nat /\ FRAME_SIZE \in Nat \ {0}
  BY BlockFrames, Constants DEF MemoryInv, TypeOK, Frames
<1>2. l[2] \in Sizes /\ l[2] \in Nat
  <2>. l \in Nat \X Sizes
    BY DEF MemoryInv, TypeOK
  <2>. QED  BY Constants
<1>3. l[1] = m /\ b[2] = size2order(l[2])
  BY DEF InBlock, index2address
<1>4. l[2] <= n * FRAME_SIZE
  BY <1>1, <1>2, <1>3, OrderLargeEnough
<1>5. m \in Nat /\ (b[1] + n) * FRAME_SIZE = m + n * FRAME_SIZE /\ n * FRAME_SIZE \in Nat
  BY <1>1
<1>6. a \in m .. (m + l[2] - 1)
  BY <1>3 DEF Bytes
<1>. HIDE DEF n
<1>7. a \in Nat /\ b[1] * FRAME_SIZE <= a /\ a < (b[1] + n) * FRAME_SIZE
  BY <1>2, <1>4, <1>5, <1>6
<1>8. a \div FRAME_SIZE \in b[1] .. (b[1] + n) - 1
  <2>. DEFINE y == b[1] + n
  <2>1. y \in Nat /\ a < y * FRAME_SIZE
    BY <1>1, <1>7
  <2>. HIDE DEF y
  <2>2. a \div FRAME_SIZE \in b[1] .. y - 1
    BY <1>1, <1>7, <2>1, Between
  <2>. QED  BY <2>2 DEF y
<1>. QED  BY <1>1, <1>8 DEF address2index, P!FramesOf, n

(* Every allocation lies in a held block, alone in it or in a slot. *)
LEMMA InHeld ==
  ASSUME MemoryInv, NEW l \in live, ~Wraps(l[2])
  PROVE  \E b \in held :
           /\ address2index(l[1]) \in P!FramesOf(b)
           /\ \A a \in Bytes(l) : address2index(a) \in P!FramesOf(b)
           /\ InBlock(l, b) \/ (b = <<b[1], 0>> /\ b[1] \in Frames /\ InSlot(l, b[1]))
<1>1. ASSUME NEW f \in Frames, InSlot(l, f)
      PROVE  \E b \in held :
               /\ address2index(l[1]) \in P!FramesOf(b)
               /\ \A a \in Bytes(l) : address2index(a) \in P!FramesOf(b)
               /\ b = <<b[1], 0>> /\ b[1] \in Frames /\ InSlot(l, b[1])
  <2>. DEFINE b == <<f, 0>>
  <2>1. b \in held
    BY <1>1, PageFacts DEF InSlot
  <2>2. P!FramesOf(b) = {f}
    BY PageFrames
  <2>3. address2index(l[1]) = f /\ \A a \in Bytes(l) : address2index(a) = f
    BY <1>1, SlotFrame, SlotBytes
  <2>4. b[1] = f /\ b = <<b[1], 0>> /\ InSlot(l, b[1])
    BY <1>1
  <2>. HIDE DEF b
  <2>. QED  BY <2>1, <2>2, <2>3, <2>4
<1>2. ASSUME NEW b \in held, InBlock(l, b)
      PROVE  /\ address2index(l[1]) \in P!FramesOf(b)
             /\ \A a \in Bytes(l) : address2index(a) \in P!FramesOf(b)
  BY <1>2, BlockFrame, BlockFrames, BlockBytes DEF MemoryInv, TypeOK
<1>. QED  BY <1>1, <1>2 DEF MemoryInv, LiveInv

(* Two slots of a page do not overlap. *)
LEMMA SlotsApart ==
  ASSUME MemoryInv, NEW f \in Frames, NEW l \in live, NEW m \in live, InSlot(l, f), InSlot(m, f),
         l[1] # m[1], NEW a \in Bytes(l), a \in Bytes(m)
  PROVE  FALSE
<1>. DEFINE t == slab_type[f]
            s == slab_sizes[t]
<1>1. Class(t) /\ bitmap[f] \subseteq Slots(t) /\ l[2] <= s /\ m[2] <= s
  BY PageFacts DEF InSlot
<1>2. PICK i \in Slots(t) : l[1] = SlotAddress(f, i, t)
  BY <1>1 DEF InSlot
<1>3. PICK j \in Slots(t) : m[1] = SlotAddress(f, j, t)
  BY <1>1 DEF InSlot
<1>4. /\ f \in Nat /\ FRAME_SIZE \in Nat \ {0} /\ s \in Nat /\ l[2] \in Nat /\ m[2] \in Nat
      /\ i \in Nat /\ j \in Nat
  <2>1. l \in Nat \X Sizes /\ m \in Nat \X Sizes
    BY DEF MemoryInv, TypeOK
  <2>2. l[2] \in Nat /\ m[2] \in Nat
    BY <2>1, Constants
  <2>3. s \in Nat /\ i \in Nat /\ j \in Nat
    BY <1>1, ClassFacts
  <2>. QED  BY <2>2, <2>3, Constants DEF Frames
<1>. DEFINE x == f * FRAME_SIZE
<1>5. x \in Nat /\ l[1] = x + (i * s) /\ m[1] = x + (j * s) /\ i * s \in Nat /\ j * s \in Nat
  BY <1>2, <1>3, <1>4 DEF SlotAddress, index2address
<1>. HIDE DEF x, s
<1>6. a \in (x + (i * s)) .. (x + (i * s) + l[2] - 1) /\ a \in (x + (j * s)) .. (x + (j * s) + m[2] - 1)
  BY <1>5 DEF Bytes
<1>7. CASE i < j
  <2>1. i * s + s <= j * s
    BY <1>4, <1>7, Products
  <2>. QED  BY <1>1, <1>4, <1>5, <1>6, <2>1
<1>8. CASE j < i
  <2>1. j * s + s <= i * s
    BY <1>4, <1>8, Products
  <2>. QED  BY <1>1, <1>4, <1>5, <1>6, <2>1
<1>9. CASE i = j
  BY <1>5, <1>9
<1>. QED  BY <1>4, <1>7, <1>8, <1>9

(* No two allocations share a byte or an address. *)
LEMMA Disjoint == MemoryInv => LiveDisjoint
<1>. SUFFICES ASSUME MemoryInv, NEW l \in live, NEW m \in live, l # m
              PROVE  /\ l[1] # m[1]
                     /\ ~Wraps(l[2]) /\ ~Wraps(m[2]) => Bytes(l) \cap Bytes(m) = {}
  BY DEF LiveDisjoint
<1>1. l[1] # m[1]
  BY DEF MemoryInv, LiveInv
<1>2. ASSUME ~Wraps(l[2]), ~Wraps(m[2]), NEW a \in Bytes(l), a \in Bytes(m)
      PROVE  FALSE
  <2>1. PICK b \in held :
           /\ \A x \in Bytes(l) : address2index(x) \in P!FramesOf(b)
           /\ InBlock(l, b) \/ (b = <<b[1], 0>> /\ b[1] \in Frames /\ InSlot(l, b[1]))
    BY <1>2, InHeld
  <2>2. PICK c \in held :
           /\ \A x \in Bytes(m) : address2index(x) \in P!FramesOf(c)
           /\ InBlock(m, c) \/ (c = <<c[1], 0>> /\ c[1] \in Frames /\ InSlot(m, c[1]))
    BY <1>2, InHeld
  <2>3. b = c
    BY <1>2, <2>1, <2>2 DEF MemoryInv, HeldInv
  <2>4. CASE InBlock(l, b) \/ InBlock(m, b)
    <3>1. InBlock(l, b) /\ InBlock(m, b)
      BY <2>1, <2>2, <2>3, <2>4 DEF InBlock, InSlot
    <3>. QED  BY <1>1, <3>1 DEF InBlock
  <2>5. CASE b[1] \in Frames /\ InSlot(l, b[1]) /\ InSlot(m, b[1])
    BY <1>1, <1>2, <2>5, SlotsApart
  <2>. QED  BY <2>1, <2>2, <2>3, <2>4, <2>5
<1>. QED  BY <1>1, <1>2

(* A held block has an allocation in it. *)
LEMMA Leakless == MemoryInv => NoPageLeaked
<1>. SUFFICES ASSUME MemoryInv, NEW b \in held
              PROVE  \E l \in live : address2index(l[1]) \in P!FramesOf(b)
  BY DEF NoPageLeaked
<1>1. b[1] \in Frames /\ b[1] \in P!FramesOf(b)
  BY BlockFrames DEF MemoryInv, TypeOK
<1>2. CASE ~is_slab_page[b[1]]
  <2>1. PICK l \in live : l[1] = index2address(b[1])
    BY <1>2 DEF MemoryInv, UseInv
  <2>. QED  BY <1>1, <2>1, FramePlace
<1>3. CASE is_slab_page[b[1]]
  <2>1. /\ Class(slab_type[b[1]]) /\ bitmap[b[1]] # {}
        /\ bitmap[b[1]] \subseteq Slots(slab_type[b[1]])
    BY <1>1, <1>3, PageFacts
  <2>2. PICK i \in bitmap[b[1]] : TRUE
    BY <2>1
  <2>3. PICK l \in live : l[1] = SlotAddress(b[1], i, slab_type[b[1]])
    BY <1>1, <2>2 DEF MemoryInv, UseInv
  <2>4. address2index(l[1]) = b[1]
    BY <1>1, <2>1, <2>2, <2>3, SlotPlace
  <2>. QED  BY <1>1, <2>4
<1>. QED  BY <1>2, <1>3
-----------------------------------------------------------------------------
(* The steps, as far as memory is concerned. *)

(* slab_allocate finds a page with room. *)
LEMMA TakeSlotStep ==
  ASSUME MemoryInv, NEW f \in Frames, is_slab_page[f], HasRoom(f), NEW z \in Sizes,
         z <= slab_sizes[slab_type[f]], TakeSlot(f, slab_type[f], z)
  PROVE  MemoryInv'
<1>. DEFINE t == slab_type[f]
            free(j) == j \notin bitmap[f] /\ \A m \in 0 .. j - 1 : m \in bitmap[f]
            i == CHOOSE j \in Slots(t) : free(j)
            a == SlotAddress(f, i, t)
            S == Slots(t) \ bitmap[f]
<1>1. /\ Class(t) /\ bitmap[f] \subseteq Slots(t) /\ bitmap[f] # {}
      /\ IsFiniteSet(bitmap[f]) /\ Cardinality(bitmap[f]) \in Nat
      /\ free_slabs[f] = TotalSlabs(t) - Cardinality(bitmap[f]) /\ TotalSlabs(t) \in Nat
  BY PageFacts
<1>2. S \in SUBSET Nat /\ S # {}
  <2>1. S \in SUBSET Nat
    BY <1>1, ClassFacts
  <2>. QED  BY <2>1 DEF HasRoom, Slots
<1>3. \E j \in Slots(t) : free(j)
  <2>1. PICK m \in S : \A y \in S : m <= y
    BY <1>2, SmallestNumber
  <2>2. \A y \in 0 .. m - 1 : y \in Slots(t) /\ ~(m <= y)
    BY <1>1, <1>2 DEF Slots
  <2>. QED  BY <2>1, <2>2
<1>4. i \in Slots(t) /\ i \notin bitmap[f]
  <2>. HIDE DEF t
  <2>. QED  BY <1>3
<1>5. /\ bitmap' = [bitmap EXCEPT ![f] = @ \cup {i}]
      /\ free_slabs' = [free_slabs EXCEPT ![f] = @ - 1]
      /\ live' = live \cup {<<a, z>>}
      /\ UNCHANGED <<held, is_slab_page, slab_type>>
      /\ UNCHANGED <<slab_next, slab_prev, slab_start_list>>
  BY DEF TakeSlot, Slots, SlotAddress
<1>. HIDE DEF i
<1>6. /\ a \in Nat /\ i \in Nat /\ \A l \in live : l[1] # a
  BY <1>1, <1>4, ClassFacts, SlotPlace, SlotUnused
<1>. HIDE DEF a
<1>7. TypeOK'
  <2>1. TypeOK
    BY DEF MemoryInv
  <2>2. live' \subseteq Nat \X Sizes
    BY <1>5, <1>6, <2>1 DEF TypeOK
  <2>3. bitmap' \in [Frames -> SUBSET Nat] /\ free_slabs' \in [Frames -> Int]
    BY <1>5, <1>6, <2>1 DEF TypeOK
  <2>. QED  BY <1>5, <2>1, <2>2, <2>3 DEF TypeOK
<1>8. HeldInv'
  BY <1>5 DEF MemoryInv, HeldInv, P!FramesOf
<1>9. /\ bitmap'[f] = bitmap[f] \cup {i} /\ free_slabs'[f] = free_slabs[f] - 1
      /\ \A g \in Frames : g # f => bitmap'[g] = bitmap[g] /\ free_slabs'[g] = free_slabs[g]
      /\ \A g \in Frames : bitmap[g] \subseteq bitmap'[g]
  BY <1>5 DEF MemoryInv, TypeOK
<1>10. PageInv'
  <2>1. /\ bitmap'[f] # {} /\ bitmap'[f] \subseteq Slots(t)
        /\ Cardinality(bitmap'[f]) = Cardinality(bitmap[f]) + 1
    BY <1>1, <1>4, <1>9, FS_AddElement
  <2>2. free_slabs'[f] = TotalSlabs(t) - Cardinality(bitmap'[f])
    BY <1>1, <1>9, <2>1
  <2>. QED  BY <1>5, <1>9, <2>1, <2>2 DEF MemoryInv, PageInv, Slots, TotalSlabs
<1>11. LiveInv'
  <2>1. \A l \in live, g \in Frames : InSlot(l, g) => InSlot(l, g)'
    BY <1>5, <1>9 DEF InSlot, SlotAddress, index2address
  <2>2. \A l \in live, b \in held : InBlock(l, b) => InBlock(l, b)'
    BY <1>5 DEF InBlock
  <2>3. PICK l : l = <<a, z>>
    OBVIOUS
  <2>4. InSlot(l, f)'
    <3>1. l[1] = SlotAddress(f, i, slab_type'[f]) /\ i \in bitmap'[f] /\ l[2] = z
      BY <1>5, <1>9, <2>3 DEF a
    <3>2. is_slab_page'[f] /\ z <= slab_sizes[slab_type'[f]]
      BY <1>5
    <3>. QED  BY <3>1, <3>2 DEF InSlot, SlotAddress, index2address
  <2>5. live' = live \cup {l} /\ held' = held /\ \A m \in live : m[1] # l[1]
    BY <1>5, <1>6, <2>3
  <2>6. \A m \in live : (\E g \in Frames : InSlot(m, g)) \/ (\E b \in held : InBlock(m, b))
    BY DEF MemoryInv, LiveInv
  <2>7. \A m \in live' : (\E g \in Frames : InSlot(m, g)') \/ (\E b \in held' : InBlock(m, b)')
    BY <2>1, <2>2, <2>4, <2>5, <2>6
  <2>8. \A m, n \in live' : m[1] = n[1] => m = n
    BY <2>5 DEF MemoryInv, LiveInv
  <2>. QED  BY <2>7, <2>8 DEF LiveInv
<1>12. UseInv'
  <2>1. ASSUME NEW g \in Frames, NEW j \in bitmap'[g]
        PROVE  \E l \in live' : l[1] = SlotAddress(g, j, slab_type'[g])
    <3>1. CASE j \in bitmap[g]
      BY <1>5, <3>1 DEF MemoryInv, UseInv
    <3>2. CASE g = f /\ j = i
      <4>1. <<a, z>> \in live' /\ <<a, z>>[1] = a /\ a = SlotAddress(g, j, slab_type'[g])
        BY <1>5, <3>2 DEF a
      <4>. QED  BY <4>1
    <3>. QED  BY <1>9, <3>1, <3>2
  <2>2. \A b \in held' : ~is_slab_page'[b[1]] => \E l \in live' : l[1] = index2address(b[1])
    BY <1>5 DEF MemoryInv, UseInv
  <2>. QED  BY <2>1, <2>2 DEF UseInv, SlotAddress, index2address
<1>. QED  BY <1>7, <1>8, <1>10, <1>11, <1>12 DEF MemoryInv

(* slab_allocate starts a new page. *)
LEMMA NewPageStep ==
  ASSUME MemoryInv, NEW f \in Frames, NEW t, Class(t), NEW z \in Sizes,
         z <= slab_sizes[t], NewSlabPage(f, t, z)
  PROVE  MemoryInv' /\ ~is_slab_page[f]
<1>. DEFINE b == <<f, 0>>
            a == index2address(f)
<1>1. /\ P!Allocate(b)
      /\ is_slab_page' = [is_slab_page EXCEPT ![f] = TRUE]
      /\ slab_type' = [slab_type EXCEPT ![f] = t]
      /\ bitmap' = [bitmap EXCEPT ![f] = {0}]
      /\ free_slabs' = [free_slabs EXCEPT ![f] = TotalSlabs(t) - 1]
      /\ slab_next' = [slab_next EXCEPT ![f] = slab_start_list[t]]
      /\ slab_prev' = [g \in Frames |-> IF g = f THEN SLAB_NULL
                                        ELSE IF g = slab_start_list[t] THEN f ELSE slab_prev[g]]
      /\ slab_start_list' = [slab_start_list EXCEPT ![t] = f]
      /\ live' = live \cup {<<a, z>>}
  BY DEF NewSlabPage
<1>2. b \in P!Blocks /\ b[1] = f
  BY PageFrames
<1>. HIDE DEF b
<1>3. /\ ~is_slab_page[f] /\ \A c \in held : c[1] # f
      /\ held' = held \cup {b} /\ HeldInv'
  BY <1>1, <1>2, FreshBlock
<1>4. /\ a \in Nat /\ \A l \in live : l[1] # a
  BY <1>3, FramePlace, FrameUnused
<1>5. /\ t \in Types /\ TotalSlabs(t) \in Nat /\ 0 \in Slots(t) /\ a = SlotAddress(f, 0, t)
  BY SlotCount, FirstSlot DEF Class
<1>. HIDE DEF a
<1>6. TypeOK'
  <2>0. TypeOK
    BY DEF MemoryInv
  <2>1. held' \subseteq P!Blocks /\ live' \subseteq Nat \X Sizes
    BY <1>1, <1>2, <1>3, <1>4, <2>0 DEF TypeOK
  <2>2. is_slab_page' \in [Frames -> BOOLEAN] /\ slab_type' \in [Frames -> Types \cup {-1}]
    BY <1>1, <1>5, <2>0 DEF TypeOK
  <2>3. free_slabs' \in [Frames -> Int] /\ bitmap' \in [Frames -> SUBSET Nat]
    BY <1>1, <1>5, <2>0 DEF TypeOK
  <2>4. /\ slab_next' \in [Frames -> Links] /\ slab_prev' \in [Frames -> Links]
        /\ slab_start_list' \in [Types -> Links]
    BY <1>1, <1>5, <2>0 DEF TypeOK, Links
  <2>. QED  BY <2>1, <2>2, <2>3, <2>4 DEF TypeOK, P!Blocks
<1>7. /\ is_slab_page'[f] /\ slab_type'[f] = t /\ bitmap'[f] = {0}
      /\ free_slabs'[f] = TotalSlabs(t) - 1
      /\ \A g \in Frames : g # f =>
           /\ is_slab_page'[g] = is_slab_page[g] /\ slab_type'[g] = slab_type[g]
           /\ bitmap'[g] = bitmap[g] /\ free_slabs'[g] = free_slabs[g]
  BY <1>1 DEF MemoryInv, TypeOK
<1>8. PageInv'
  <2>1. Cardinality({0}) = 1
    BY FS_Singleton
  <2>2. /\ <<f, 0>> \in held' /\ slab_type'[f] \in Types /\ slab_sizes[slab_type'[f]] > 0
        /\ bitmap'[f] # {} /\ bitmap'[f] \subseteq 0 .. TotalSlabs(slab_type'[f]) - 1
        /\ free_slabs'[f] = TotalSlabs(slab_type'[f]) - Cardinality(bitmap'[f])
    BY <1>3, <1>5, <1>7, <2>1 DEF Class, Slots, b
  <2>3. ASSUME NEW g \in Frames, g # f
        PROVE  IF is_slab_page'[g]
               THEN /\ <<g, 0>> \in held'
                    /\ slab_type'[g] \in Types /\ slab_sizes[slab_type'[g]] > 0
                    /\ bitmap'[g] # {} /\ bitmap'[g] \subseteq 0 .. TotalSlabs(slab_type'[g]) - 1
                    /\ free_slabs'[g] = TotalSlabs(slab_type'[g]) - Cardinality(bitmap'[g])
               ELSE slab_type'[g] = -1 /\ bitmap'[g] = {} /\ free_slabs'[g] = -1
    BY <1>3, <1>7, <2>3 DEF MemoryInv, PageInv
  <2>. QED  BY <1>7, <2>2, <2>3 DEF PageInv, TotalSlabs
<1>9. LiveInv'
  <2>1. \A l \in live, g \in Frames : InSlot(l, g) => InSlot(l, g)'
    <3>. SUFFICES ASSUME NEW l \in live, NEW g \in Frames, InSlot(l, g)
                  PROVE  InSlot(l, g)'
      OBVIOUS
    <3>1. g # f
      BY <1>3 DEF InSlot
    <3>. QED  BY <1>7, <3>1 DEF InSlot, SlotAddress, index2address
  <2>2. \A l \in live, c \in held : InBlock(l, c) => c \in held' /\ InBlock(l, c)'
    <3>. SUFFICES ASSUME NEW l \in live, NEW c \in held, InBlock(l, c)
                  PROVE  c \in held' /\ InBlock(l, c)'
      OBVIOUS
    <3>1. c[1] # f /\ c[1] \in Frames
      BY <1>3, BlockFrame
    <3>. QED  BY <1>3, <1>7, <3>1 DEF InBlock
  <2>3. InSlot(<<a, z>>, f)'
    <3>1. 0 \in bitmap'[f] /\ a = SlotAddress(f, 0, slab_type'[f]) /\ z <= slab_sizes[slab_type'[f]]
      BY <1>5, <1>7
    <3>. QED  BY <1>7, <3>1 DEF InSlot, SlotAddress, index2address
  <2>4. \A l \in live : (\E g \in Frames : InSlot(l, g)) \/ (\E c \in held : InBlock(l, c))
    BY DEF MemoryInv, LiveInv
  <2>5. \A l \in live' : (\E g \in Frames : InSlot(l, g)') \/ (\E c \in held' : InBlock(l, c)')
    BY <1>1, <2>1, <2>2, <2>3, <2>4
  <2>6. \A l, m \in live' : l[1] = m[1] => l = m
    BY <1>1, <1>4 DEF MemoryInv, LiveInv
  <2>. QED  BY <2>5, <2>6 DEF LiveInv
<1>10. UseInv'
  <2>1. ASSUME NEW g \in Frames, NEW j \in bitmap'[g]
        PROVE  \E l \in live' : l[1] = SlotAddress(g, j, slab_type'[g])
    <3>1. CASE g = f
      <4>1. <<a, z>> \in live' /\ <<a, z>>[1] = a /\ a = SlotAddress(g, j, slab_type'[g])
        BY <1>1, <1>5, <1>7, <3>1
      <4>. QED  BY <4>1
    <3>2. CASE g # f
      BY <1>1, <1>7, <3>2 DEF MemoryInv, UseInv
    <3>. QED  BY <3>1, <3>2
  <2>2. ASSUME NEW c \in held', ~is_slab_page'[c[1]]
        PROVE  \E l \in live' : l[1] = index2address(c[1])
    <3>1. c[1] # f
      BY <1>7, <2>2
    <3>2. c \in held
      BY <1>2, <1>3, <3>1
    <3>3. c[1] \in Frames
      BY <3>2, BlockFrames DEF MemoryInv, TypeOK
    <3>. QED  BY <1>1, <1>7, <2>2, <3>1, <3>2, <3>3 DEF MemoryInv, UseInv
  <2>. QED  BY <2>1, <2>2 DEF UseInv, SlotAddress, index2address
<1>. QED  BY <1>3, <1>6, <1>8, <1>9, <1>10 DEF MemoryInv

(* malloc_b. *)
LEMMA MallocBStep ==
  ASSUME MemoryInv, NEW z \in Sizes, MallocB(z)
  PROVE  MemoryInv'
<1>1. PICK b \in P!Blocks : /\ b[2] = size2order(z) /\ P!Allocate(b)
                            /\ live' = live \cup {<<index2address(b[1]), z>>}
  BY DEF MallocB
<1>2. /\ is_slab_page' = is_slab_page /\ slab_type' = slab_type /\ bitmap' = bitmap
      /\ free_slabs' = free_slabs /\ slab_next' = slab_next /\ slab_prev' = slab_prev
      /\ slab_start_list' = slab_start_list
  BY DEF MallocB, slabs
<1>. DEFINE f == b[1]
            a == index2address(f)
<1>3. /\ f \in Frames /\ ~is_slab_page[f] /\ \A c \in held : c[1] # f
      /\ held' = held \cup {b} /\ HeldInv'
  BY <1>1, FreshBlock
<1>4. /\ a \in Nat /\ \A l \in live : l[1] # a
  BY <1>3, FramePlace, FrameUnused
<1>5. TypeOK'
  <2>1. held' \subseteq P!Blocks /\ live' \subseteq Nat \X Sizes
    BY <1>1, <1>3, <1>4 DEF MemoryInv, TypeOK
  <2>. QED  BY <1>2, <2>1 DEF MemoryInv, TypeOK, P!Blocks
<1>6. PageInv'
  BY <1>2, <1>3 DEF MemoryInv, PageInv, TotalSlabs
<1>7. LiveInv'
  <2>1. \A l : \A g \in Frames : InSlot(l, g) => InSlot(l, g)'
    BY <1>2 DEF InSlot, SlotAddress, index2address
  <2>2. \A l : \A c \in held : InBlock(l, c) => c \in held' /\ InBlock(l, c)'
    BY <1>2, <1>3 DEF InBlock
  <2>3. b \in held' /\ InBlock(<<a, z>>, b)'
    BY <1>1, <1>2, <1>3 DEF InBlock
  <2>4. \A l \in live : (\E g \in Frames : InSlot(l, g)) \/ (\E c \in held : InBlock(l, c))
    BY DEF MemoryInv, LiveInv
  <2>5. \A l \in live' : (\E g \in Frames : InSlot(l, g)') \/ (\E c \in held' : InBlock(l, c)')
    BY <1>1, <2>1, <2>2, <2>3, <2>4
  <2>6. \A l, m \in live' : l[1] = m[1] => l = m
    BY <1>1, <1>4 DEF MemoryInv, LiveInv
  <2>. QED  BY <2>5, <2>6 DEF LiveInv
<1>8. UseInv'
  <2>1. \A g \in Frames : \A j \in bitmap'[g] :
          \E l \in live' : l[1] = SlotAddress(g, j, slab_type'[g])
    BY <1>1, <1>2 DEF MemoryInv, UseInv
  <2>2. <<a, z>> \in live' /\ <<a, z>>[1] = a
    BY <1>1
  <2>3. ASSUME NEW c \in held', ~is_slab_page'[c[1]]
        PROVE  \E l \in live' : l[1] = index2address(c[1])
    <3>1. CASE c = b
      BY <2>2, <3>1
    <3>2. CASE c \in held
      BY <1>1, <1>2, <2>3, <3>2 DEF MemoryInv, UseInv
    <3>. QED  BY <1>3, <3>1, <3>2
  <2>. QED  BY <2>1, <2>3 DEF UseInv, SlotAddress, index2address
<1>. QED  BY <1>3, <1>5, <1>6, <1>7, <1>8 DEF MemoryInv

(* What a free leaves: the allocations at other addresses. *)
Without(a) == live' = {l \in live : l[1] # a}

(* An accepted address is that of a slot in use. *)
LEMMA SlotFreed ==
  ASSUME MemoryInv, NEW a \in Addresses, is_slab_page[address2index(a)], SlabFreeAccepts(a)
  PROVE  LET f == address2index(a) IN
         /\ f \in Frames /\ SlotOf(a) \in bitmap[f] /\ SlotOf(a) \in Slots(slab_type[f])
         /\ a = SlotAddress(f, SlotOf(a), slab_type[f])
<1>1. address2index(a) \in Frames
  BY FrameOfAddress
<1>2. Class(slab_type[address2index(a)])
  BY <1>1, PageFacts
<1>. QED  BY <1>1, <1>2, AcceptedSlot DEF SlabFreeAccepts

(* slab_free leaves other slots of the page in use. *)
LEMMA FreeSlotStep ==
  ASSUME MemoryInv, NEW f \in Frames, is_slab_page[f], NEW i \in bitmap[f],
         free_slabs[f] + 1 # TotalSlabs(slab_type[f]), FreeSlot(f, i),
         NEW a, a = SlotAddress(f, i, slab_type[f]), Without(a)
  PROVE  MemoryInv'
<1>. DEFINE t == slab_type[f]
<1>1. /\ Class(t) /\ bitmap[f] \subseteq Slots(t)
      /\ IsFiniteSet(bitmap[f]) /\ Cardinality(bitmap[f]) \in Nat
      /\ free_slabs[f] = TotalSlabs(t) - Cardinality(bitmap[f]) /\ TotalSlabs(t) \in Nat
  BY PageFacts
<1>2. /\ bitmap' = [bitmap EXCEPT ![f] = @ \ {i}]
      /\ free_slabs' = [free_slabs EXCEPT ![f] = @ + 1]
      /\ held' = held /\ is_slab_page' = is_slab_page /\ slab_type' = slab_type
      /\ slab_next' = slab_next /\ slab_prev' = slab_prev /\ slab_start_list' = slab_start_list
  BY DEF FreeSlot
<1>3. live' = {l \in live : l[1] # a}
  BY DEF Without
<1>4. TypeOK'
  <2>1. TypeOK
    BY DEF MemoryInv
  <2>2. bitmap' \in [Frames -> SUBSET Nat] /\ free_slabs' \in [Frames -> Int]
    BY <1>2, <2>1 DEF TypeOK
  <2>. QED  BY <1>2, <1>3, <2>1, <2>2 DEF TypeOK
<1>5. HeldInv'
  BY <1>2 DEF MemoryInv, HeldInv, P!FramesOf
<1>6. /\ bitmap'[f] = bitmap[f] \ {i} /\ free_slabs'[f] = free_slabs[f] + 1
      /\ \A g \in Frames : g # f => bitmap'[g] = bitmap[g] /\ free_slabs'[g] = free_slabs[g]
  BY <1>2 DEF MemoryInv, TypeOK
<1>7. PageInv'
  <2>1. /\ Cardinality(bitmap'[f]) = Cardinality(bitmap[f]) - 1 /\ bitmap'[f] \subseteq Slots(t)
    BY <1>1, <1>6, FS_RemoveElement
  <2>2. free_slabs'[f] = TotalSlabs(t) - Cardinality(bitmap'[f])
    BY <1>1, <1>6, <2>1
  <2>3. bitmap'[f] # {}
    <3>1. Cardinality({}) = 0
      BY FS_EmptySet
    <3>. QED  BY <1>1, <2>1, <3>1
  <2>. QED  BY <1>2, <1>6, <2>1, <2>2, <2>3 DEF MemoryInv, PageInv, Slots, TotalSlabs
<1>8. LiveInv'
  <2>1. ASSUME NEW l \in live', NEW g \in Frames, InSlot(l, g)
        PROVE  InSlot(l, g)'
    <3>1. PICK j \in bitmap[g] : l[1] = SlotAddress(g, j, slab_type[g])
      BY <2>1 DEF InSlot
    <3>2. j \in bitmap'[g]
      BY <1>3, <1>6, <3>1
    <3>. QED  BY <1>2, <2>1, <3>1, <3>2 DEF InSlot, SlotAddress, index2address
  <2>2. \A l \in live', b \in held : InBlock(l, b) => InBlock(l, b)'
    BY <1>2 DEF InBlock
  <2>3. \A l \in live' : (\E g \in Frames : InSlot(l, g)) \/ (\E b \in held : InBlock(l, b))
    BY <1>3 DEF MemoryInv, LiveInv
  <2>4. \A l \in live' : (\E g \in Frames : InSlot(l, g)') \/ (\E b \in held' : InBlock(l, b)')
    BY <1>2, <2>1, <2>2, <2>3
  <2>5. \A l, m \in live' : l[1] = m[1] => l = m
    BY <1>3 DEF MemoryInv, LiveInv
  <2>. QED  BY <2>4, <2>5 DEF LiveInv
<1>9. UseInv'
  <2>1. ASSUME NEW g \in Frames, NEW j \in bitmap'[g]
        PROVE  \E l \in live' : l[1] = SlotAddress(g, j, slab_type'[g])
    <3>1. j \in bitmap[g] /\ (g = f => j # i)
      BY <1>6
    <3>2. PICK l \in live : l[1] = SlotAddress(g, j, slab_type[g])
      BY <3>1 DEF MemoryInv, UseInv
    <3>3. is_slab_page[g]
      BY <3>1 DEF MemoryInv, PageInv
    <3>4. Class(slab_type[g]) /\ j \in Slots(slab_type[g])
      BY <3>1, <3>3, PageFacts
    <3>5. SlotAddress(g, j, slab_type[g]) # a
      <4>1. CASE g = f
        BY <1>1, <3>1, <3>4, <4>1, SameSlot
      <4>2. CASE g # f
        BY <1>1, <3>4, <4>2, SlotPlace
      <4>. QED  BY <4>1, <4>2
    <3>. QED  BY <1>2, <1>3, <3>2, <3>5
  <2>2. ASSUME NEW b \in held', ~is_slab_page'[b[1]]
        PROVE  \E l \in live' : l[1] = index2address(b[1])
    <3>1. b[1] \in Frames /\ b[1] # f
      BY <1>2, <2>2, BlockFrames DEF MemoryInv, TypeOK
    <3>2. PICK l \in live : l[1] = index2address(b[1])
      BY <1>2, <2>2 DEF MemoryInv, UseInv
    <3>3. index2address(b[1]) # a
      BY <1>1, <3>1, FramePlace, SlotPlace
    <3>. QED  BY <1>3, <3>2, <3>3
  <2>. QED  BY <2>1, <2>2 DEF UseInv, SlotAddress, index2address
<1>. QED  BY <1>4, <1>5, <1>7, <1>8, <1>9 DEF MemoryInv

(* A free that gives block c back, where nothing is left in use: what is   *)
(* left is as it was.                                                      *)
LEMMA BlockFreed ==
  ASSUME MemoryInv, NEW c \in held, held' = held \ {c}, NEW a, Without(a),
         \A g \in Frames : g # c[1] =>
           /\ is_slab_page'[g] = is_slab_page[g] /\ slab_type'[g] = slab_type[g]
           /\ bitmap'[g] = bitmap[g] /\ free_slabs'[g] = free_slabs[g],
         ~is_slab_page'[c[1]], slab_type'[c[1]] = -1, bitmap'[c[1]] = {}, free_slabs'[c[1]] = -1,
         address2index(a) = c[1],
         \A l \in live : address2index(l[1]) = c[1] => l[1] = a
  PROVE  HeldInv' /\ PageInv' /\ LiveInv' /\ UseInv'
<1>. DEFINE f == c[1]
<1>1. f \in Frames /\ \A b \in held : b[1] \in Frames /\ (b[1] = f => b = c)
  BY BlockFrames, OneBlock DEF MemoryInv, TypeOK
<1>2. live' = {l \in live : l[1] # a}
  BY DEF Without
<1>3. HeldInv'
  BY DEF MemoryInv, HeldInv, P!FramesOf
<1>4. PageInv'
  <2>1. ASSUME NEW g \in Frames, g # f, is_slab_page[g]
        PROVE  <<g, 0>> \in held'
    <3>1. <<g, 0>> \in held /\ <<g, 0>>[1] = g
      BY <2>1, PageFacts
    <3>. QED  BY <2>1, <3>1
  <2>. QED  BY <2>1 DEF MemoryInv, PageInv, TotalSlabs
<1>5. LiveInv'
  <2>1. ASSUME NEW l \in live', NEW g \in Frames, InSlot(l, g)
        PROVE  InSlot(l, g)'
    <3>1. address2index(l[1]) = g
      BY <2>1, SlotFrame
    <3>2. g # f
      BY <1>2, <3>1
    <3>. QED  BY <2>1, <3>2 DEF InSlot, SlotAddress, index2address
  <2>2. ASSUME NEW l \in live', NEW b \in held, InBlock(l, b)
        PROVE  b \in held' /\ InBlock(l, b)'
    <3>1. address2index(l[1]) = b[1]
      BY <2>2, BlockFrame
    <3>2. b[1] # f
      BY <1>2, <3>1
    <3>. QED  BY <1>1, <2>2, <3>2 DEF InBlock
  <2>3. \A l \in live' : (\E g \in Frames : InSlot(l, g)) \/ (\E b \in held : InBlock(l, b))
    BY <1>2 DEF MemoryInv, LiveInv
  <2>4. \A l \in live' : (\E g \in Frames : InSlot(l, g)') \/ (\E b \in held' : InBlock(l, b)')
    BY <2>1, <2>2, <2>3
  <2>5. \A l, m \in live' : l[1] = m[1] => l = m
    BY <1>2 DEF MemoryInv, LiveInv
  <2>. QED  BY <2>4, <2>5 DEF LiveInv
<1>6. UseInv'
  <2>1. ASSUME NEW g \in Frames, NEW j \in bitmap'[g]
        PROVE  \E l \in live' : l[1] = SlotAddress(g, j, slab_type'[g])
    <3>1. g # f /\ j \in bitmap[g] /\ slab_type'[g] = slab_type[g]
      OBVIOUS
    <3>2. PICK l \in live : l[1] = SlotAddress(g, j, slab_type[g])
      BY <3>1 DEF MemoryInv, UseInv
    <3>3. is_slab_page[g]
      BY <3>1 DEF MemoryInv, PageInv
    <3>4. Class(slab_type[g]) /\ j \in Slots(slab_type[g])
      BY <3>1, <3>3, PageFacts
    <3>5. address2index(l[1]) = g
      BY <3>2, <3>4, SlotPlace
    <3>. QED  BY <1>2, <3>1, <3>2, <3>5
  <2>2. ASSUME NEW b \in held', ~is_slab_page'[b[1]]
        PROVE  \E l \in live' : l[1] = index2address(b[1])
    <3>1. b \in held /\ b[1] \in Frames /\ b[1] # f
      BY <1>1
    <3>2. PICK l \in live : l[1] = index2address(b[1])
      BY <2>2, <3>1 DEF MemoryInv, UseInv
    <3>3. address2index(l[1]) = b[1]
      BY <3>1, <3>2, FramePlace
    <3>. QED  BY <1>2, <3>1, <3>2, <3>3
  <2>. QED  BY <2>1, <2>2 DEF UseInv, SlotAddress, index2address
<1>. QED  BY <1>3, <1>4, <1>5, <1>6

(* slab_free gives an empty page back. *)
LEMMA FreePageStep ==
  ASSUME MemoryInv, NEW f \in Frames, is_slab_page[f], NEW i \in bitmap[f],
         free_slabs[f] + 1 = TotalSlabs(slab_type[f]), FreePage(f, i),
         slab_start_list[slab_type[f]] = f \/ slab_prev[f] # SLAB_NULL,
         NEW a, a = SlotAddress(f, i, slab_type[f]), Without(a)
  PROVE  MemoryInv'
<1>. DEFINE t == slab_type[f]
            c == <<f, 0>>
<1>1. /\ Class(t) /\ bitmap[f] \subseteq Slots(t) /\ c \in held /\ c[1] = f
      /\ IsFiniteSet(bitmap[f]) /\ Cardinality(bitmap[f]) \in Nat
      /\ free_slabs[f] = TotalSlabs(t) - Cardinality(bitmap[f]) /\ TotalSlabs(t) \in Nat
  BY PageFacts
<1>2. /\ held' = held \ {c}
      /\ is_slab_page' = [is_slab_page EXCEPT ![f] = FALSE]
      /\ Unlink(f, t)
      /\ slab_type' = [slab_type EXCEPT ![f] = -1]
      /\ free_slabs' = [free_slabs EXCEPT ![f] = -1]
      /\ bitmap' = [bitmap EXCEPT ![f] = {}]
  BY DEF FreePage, P!Free
<1>3. bitmap[f] = {i}
  <2>1. Cardinality(bitmap[f]) = 1
    BY <1>1
  <2>2. \E x : bitmap[f] = {x}
    BY <1>1, <2>1, FS_Singleton
  <2>. QED  BY <2>2
<1>4. address2index(a) = f /\ \A l \in live : address2index(l[1]) = f => l[1] = a
  <2>1. address2index(a) = f
    BY <1>1, SlotPlace
  <2>2. ASSUME NEW l \in live, address2index(l[1]) = f
        PROVE  l[1] = a
    <3>1. CASE \E g \in Frames : InSlot(l, g)
      <4>1. InSlot(l, f)
        BY <2>2, <3>1, SlotFrame
      <4>. QED  BY <1>3, <4>1 DEF InSlot
    <3>2. CASE \E b \in held : InBlock(l, b)
      BY <2>2, <3>2, BlockFrame DEF InBlock
    <3>. QED  BY <3>1, <3>2 DEF MemoryInv, LiveInv
  <2>. QED  BY <2>1, <2>2
<1>5. TypeOK'
  <2>0. TypeOK
    BY DEF MemoryInv
  <2>1. held' \subseteq P!Blocks /\ live' \subseteq Nat \X Sizes
    BY <1>2, <2>0 DEF TypeOK, Without
  <2>2. is_slab_page' \in [Frames -> BOOLEAN] /\ slab_type' \in [Frames -> Types \cup {-1}]
    BY <1>2, <2>0 DEF TypeOK
  <2>3. free_slabs' \in [Frames -> Int] /\ bitmap' \in [Frames -> SUBSET Nat]
    BY <1>2, <2>0 DEF TypeOK
  <2>4. /\ slab_next' \in [Frames -> Links] /\ slab_prev' \in [Frames -> Links]
    BY <1>2, <2>0 DEF TypeOK, Links, Unlink
  <2>5. slab_start_list' \in [Types -> Links]
    BY <1>1, <1>2, <2>0 DEF TypeOK, Links, Unlink, Class
  <2>. QED  BY <2>1, <2>2, <2>3, <2>4, <2>5 DEF TypeOK, P!Blocks
<1>6. /\ ~is_slab_page'[f] /\ slab_type'[f] = -1 /\ bitmap'[f] = {} /\ free_slabs'[f] = -1
      /\ \A g \in Frames : g # f =>
           /\ is_slab_page'[g] = is_slab_page[g] /\ slab_type'[g] = slab_type[g]
           /\ bitmap'[g] = bitmap[g] /\ free_slabs'[g] = free_slabs[g]
  BY <1>2 DEF MemoryInv, TypeOK
<1>. HIDE DEF c
<1>7. HeldInv' /\ PageInv' /\ LiveInv' /\ UseInv'
  <2>0. c[1] = f
    BY <1>1
  <2>1. c \in held /\ held' = held \ {c} /\ Without(a) /\ address2index(a) = c[1]
    BY <1>1, <1>2, <1>4
  <2>2. ~is_slab_page'[c[1]] /\ slab_type'[c[1]] = -1 /\ bitmap'[c[1]] = {} /\ free_slabs'[c[1]] = -1
    BY <1>6, <2>0
  <2>3. \A g \in Frames : g # c[1] =>
           /\ is_slab_page'[g] = is_slab_page[g] /\ slab_type'[g] = slab_type[g]
           /\ bitmap'[g] = bitmap[g] /\ free_slabs'[g] = free_slabs[g]
    BY <1>6, <2>0
  <2>4. \A l \in live : address2index(l[1]) = c[1] => l[1] = a
    BY <1>4, <2>0
  <2>. QED  BY <2>1, <2>2, <2>3, <2>4, BlockFreed
<1>. QED  BY <1>5, <1>7 DEF MemoryInv

(* free_b. *)
LEMMA FreeBStep ==
  ASSUME MemoryInv, NEW x \in Addresses, ~is_slab_page[address2index(x)], FreeB(x)
  PROVE  MemoryInv'
<1>. DEFINE f == address2index(x)
            a == index2address(f)
<1>1. f \in Frames
  BY FrameOfAddress
<1>2. PICK c \in held : c[1] = f /\ held' = held \ {c}
  BY DEF FreeB, P!Free
<1>3. /\ is_slab_page' = is_slab_page /\ slab_type' = slab_type /\ bitmap' = bitmap
      /\ free_slabs' = free_slabs /\ slab_next' = slab_next /\ slab_prev' = slab_prev
      /\ slab_start_list' = slab_start_list /\ Without(a)
  BY DEF FreeB, slabs, Without
<1>. HIDE DEF f
<1>4. address2index(a) = f /\ \A l \in live : address2index(l[1]) = f => l[1] = a
  <2>1. address2index(a) = f
    BY <1>1, FramePlace
  <2>2. ASSUME NEW l \in live, address2index(l[1]) = f
        PROVE  l[1] = a
    <3>1. CASE \E g \in Frames : InSlot(l, g)
      BY <2>2, <3>1, SlotFrame DEF InSlot, f
    <3>2. CASE \E b \in held : InBlock(l, b)
      BY <2>2, <3>2, BlockFrame DEF InBlock
    <3>. QED  BY <3>1, <3>2 DEF MemoryInv, LiveInv
  <2>. QED  BY <2>1, <2>2
<1>5. TypeOK'
  <2>1. held' \subseteq P!Blocks /\ live' \subseteq Nat \X Sizes
    BY <1>2, <1>3 DEF MemoryInv, TypeOK, Without
  <2>. QED  BY <1>3, <2>1 DEF MemoryInv, TypeOK, P!Blocks
<1>6. ~is_slab_page'[f] /\ slab_type'[f] = -1 /\ bitmap'[f] = {} /\ free_slabs'[f] = -1
  BY <1>1, <1>3 DEF MemoryInv, PageInv, f
<1>7. HeldInv' /\ PageInv' /\ LiveInv' /\ UseInv'
  BY <1>2, <1>3, <1>4, <1>6, BlockFreed
<1>. QED  BY <1>5, <1>7 DEF MemoryInv
-----------------------------------------------------------------------------
(* The lists. *)

(* A step that leaves the links and the classes leaves the lists. *)
LEMMA ListsKept ==
  ASSUME ListInv, is_slab_page' = is_slab_page, slab_type' = slab_type,
         slab_next' = slab_next, slab_prev' = slab_prev, slab_start_list' = slab_start_list
  PROVE  ListInv'
<1>1. LinkInv'
  BY DEF ListInv, LinkInv
<1>2. \A r \in [Frames -> Int] : Falls(r) => Falls(r)'
  BY DEF Falls
<1>. QED  BY <1>1, <1>2 DEF ListInv, RankInv

(* A new page becomes the head of its list. *)
LEMMA NewPageLists ==
  ASSUME IndInv, NEW f \in Frames, NEW t \in Types, NEW z, NewSlabPage(f, t, z), ~is_slab_page[f]
  PROVE  ListInv'
<1>. DEFINE h == slab_start_list[t]
<1>1. /\ is_slab_page' = [is_slab_page EXCEPT ![f] = TRUE]
      /\ slab_type' = [slab_type EXCEPT ![f] = t]
      /\ slab_next' = [slab_next EXCEPT ![f] = h]
      /\ slab_prev' = [g \in Frames |-> IF g = f THEN SLAB_NULL
                                        ELSE IF g = h THEN f ELSE slab_prev[g]]
      /\ slab_start_list' = [slab_start_list EXCEPT ![t] = f]
  BY DEF NewSlabPage
<1>2. /\ is_slab_page \in [Frames -> BOOLEAN] /\ slab_type \in [Frames -> Types \cup {-1}]
      /\ slab_next \in [Frames -> Links] /\ slab_prev \in [Frames -> Links]
      /\ slab_start_list \in [Types -> Links] /\ h \in Links /\ SLAB_NULL \notin Frames
  BY DEF IndInv, MemoryInv, TypeOK, SLAB_NULL, Frames, Links
<1>3. h # SLAB_NULL => /\ h \in Frames /\ h # f /\ is_slab_page[h] /\ slab_type[h] = t
                       /\ slab_prev[h] = SLAB_NULL
  BY <1>2 DEF IndInv, ListInv, LinkInv, Links
<1>4. /\ is_slab_page'[f] /\ slab_type'[f] = t /\ slab_next'[f] = h /\ slab_prev'[f] = SLAB_NULL
      /\ slab_start_list'[t] = f
      /\ \A g \in Frames : g # f => /\ is_slab_page'[g] = is_slab_page[g]
                                    /\ slab_type'[g] = slab_type[g]
                                    /\ slab_next'[g] = slab_next[g]
                                    /\ g # h => slab_prev'[g] = slab_prev[g]
      /\ h # SLAB_NULL => slab_prev'[h] = f
      /\ \A u \in Types : u # t => slab_start_list'[u] = slab_start_list[u]
  BY <1>1, <1>2, <1>3
<1>5. ASSUME NEW g \in Frames, is_slab_page'[g]
      PROVE  /\ slab_next'[g] # SLAB_NULL =>
                  /\ is_slab_page'[slab_next'[g]] /\ slab_type'[slab_next'[g]] = slab_type'[g]
                  /\ slab_prev'[slab_next'[g]] = g
             /\ slab_prev'[g] # SLAB_NULL =>
                  /\ is_slab_page'[slab_prev'[g]] /\ slab_type'[slab_prev'[g]] = slab_type'[g]
                  /\ slab_next'[slab_prev'[g]] = g
             /\ slab_prev'[g] = SLAB_NULL <=> slab_start_list'[slab_type'[g]] = g
  <2>1. CASE g = f
    BY <1>2, <1>3, <1>4, <2>1
  <2>2. CASE g # f
    <3>0. is_slab_page[g] /\ slab_type'[g] = slab_type[g] /\ slab_next'[g] = slab_next[g]
      BY <1>4, <1>5, <2>2
    <3>1. /\ slab_next[g] # SLAB_NULL =>
               /\ slab_next[g] \in Frames /\ slab_next[g] # f /\ slab_next[g] # h
               /\ is_slab_page[slab_next[g]] /\ slab_type[slab_next[g]] = slab_type[g]
               /\ slab_prev[slab_next[g]] = g
          /\ slab_prev[g] # SLAB_NULL =>
               /\ slab_prev[g] \in Frames /\ slab_prev[g] # f
               /\ is_slab_page[slab_prev[g]] /\ slab_type[slab_prev[g]] = slab_type[g]
               /\ slab_next[slab_prev[g]] = g
          /\ slab_prev[g] = SLAB_NULL <=> slab_start_list[slab_type[g]] = g
      BY <1>2, <1>3, <3>0 DEF IndInv, ListInv, LinkInv, Links
    <3>2. slab_type[g] \in Types
      BY <3>0 DEF IndInv, MemoryInv, PageInv
    <3>3. /\ slab_next'[g] # SLAB_NULL =>
                  /\ is_slab_page'[slab_next'[g]] /\ slab_type'[slab_next'[g]] = slab_type'[g]
                  /\ slab_prev'[slab_next'[g]] = g
      BY <1>4, <3>0, <3>1
    <3>4. CASE g = h
      <4>1. slab_prev'[g] = f /\ slab_type[g] = t /\ slab_start_list'[slab_type'[g]] = f
        BY <1>2, <1>3, <1>4, <3>0, <3>4
      <4>. QED  BY <1>2, <1>4, <2>2, <3>0, <3>3, <3>4, <4>1
    <3>5. CASE g # h
      <4>1. slab_prev'[g] = slab_prev[g]
        BY <1>4, <2>2, <3>5
      <4>2. slab_start_list'[slab_type'[g]] = g <=> slab_start_list[slab_type[g]] = g
        BY <1>4, <2>2, <3>0, <3>2, <3>5
      <4>. QED  BY <1>4, <3>0, <3>1, <3>3, <4>1, <4>2
    <3>. QED  BY <3>4, <3>5
  <2>. QED  BY <2>1, <2>2
<1>6. ASSUME NEW u \in Types, slab_start_list'[u] # SLAB_NULL
      PROVE  is_slab_page'[slab_start_list'[u]] /\ slab_type'[slab_start_list'[u]] = u
  <2>1. CASE u = t
    BY <1>4, <2>1
  <2>2. CASE u # t
    <3>1. /\ slab_start_list'[u] = slab_start_list[u] /\ slab_start_list[u] \in Frames
          /\ is_slab_page[slab_start_list[u]] /\ slab_type[slab_start_list[u]] = u
      BY <1>2, <1>4, <1>6, <2>2 DEF IndInv, ListInv, LinkInv, Links
    <3>. QED  BY <1>4, <3>1
  <2>. QED  BY <2>1, <2>2
<1>7. LinkInv'
  BY <1>5, <1>6 DEF LinkInv
<1>8. RankInv'
  <2>1. PICK r \in [Frames -> Int] : Falls(r)
    BY DEF IndInv, ListInv, RankInv
  <2>2. PICK top \in Int : h # SLAB_NULL => r[h] < top
    <3>1. CASE h = SLAB_NULL
      BY <3>1
    <3>2. CASE h # SLAB_NULL
      <4>1. r[h] \in Int /\ r[h] + 1 \in Int /\ r[h] < r[h] + 1
        BY <1>3, <3>2
      <4>. QED  BY <4>1
    <3>. QED  BY <3>1, <3>2
  <2>. DEFINE q == [r EXCEPT ![f] = top]
  <2>3. q \in [Frames -> Int] /\ q[f] = top /\ \A g \in Frames : g # f => q[g] = r[g]
    OBVIOUS
  <2>. HIDE DEF q
  <2>4. ASSUME NEW g \in Frames, is_slab_page'[g], slab_next'[g] # SLAB_NULL
        PROVE  q[slab_next'[g]] < q[g]
    <3>1. CASE g = f
      BY <1>3, <1>4, <2>2, <2>3, <2>4, <3>1
    <3>2. CASE g # f
      <4>1. is_slab_page[g] /\ slab_next'[g] = slab_next[g]
        BY <1>4, <2>4, <3>2
      <4>2. slab_next[g] \in Frames /\ is_slab_page[slab_next[g]] /\ slab_next[g] # f
        BY <1>2, <2>4, <4>1 DEF IndInv, ListInv, LinkInv, Links
      <4>3. r[slab_next[g]] < r[g]
        BY <2>1, <2>4, <4>1 DEF Falls
      <4>. QED  BY <2>3, <3>2, <4>1, <4>2, <4>3
    <3>. QED  BY <3>1, <3>2
  <2>5. Falls(q)'
    BY <2>4 DEF Falls
  <2>. QED  BY <2>3, <2>5 DEF RankInv
<1>. QED  BY <1>7, <1>8 DEF ListInv

(* A page that is given back is where its links say. *)
LEMMA PageListed ==
  ASSUME IndInv, NEW f \in Frames, is_slab_page[f]
  PROVE  slab_start_list[slab_type[f]] = f \/ slab_prev[f] # SLAB_NULL
BY DEF IndInv, ListInv, LinkInv

(* Its neighbours become neighbours. *)
LEMMA FreePageLists ==
  ASSUME IndInv, NEW f \in Frames, is_slab_page[f], NEW i, FreePage(f, i)
  PROVE  ListInv'
<1>. DEFINE t == slab_type[f]
            n == slab_next[f]
            p == slab_prev[f]
<1>1. /\ is_slab_page' = [is_slab_page EXCEPT ![f] = FALSE]
      /\ slab_type' = [slab_type EXCEPT ![f] = -1]
      /\ Unlink(f, t)
  BY PageListed DEF FreePage
<1>2. /\ is_slab_page \in [Frames -> BOOLEAN] /\ slab_type \in [Frames -> Types \cup {-1}]
      /\ slab_next \in [Frames -> Links] /\ slab_prev \in [Frames -> Links]
      /\ slab_start_list \in [Types -> Links] /\ n \in Links /\ p \in Links
      /\ SLAB_NULL \notin Frames /\ t \in Types
  <2>1. t \in Types
    BY DEF IndInv, MemoryInv, PageInv
  <2>. QED  BY <2>1 DEF IndInv, MemoryInv, TypeOK, SLAB_NULL, Frames, Links
<1>3. PICK r \in [Frames -> Int] : Falls(r)
  BY DEF IndInv, ListInv, RankInv
<1>4. ASSUME NEW g \in Frames, is_slab_page[g]
      PROVE  /\ slab_type[g] \in Types
             /\ slab_next[g] # SLAB_NULL =>
                  /\ slab_next[g] \in Frames /\ slab_next[g] # g
                  /\ is_slab_page[slab_next[g]] /\ slab_type[slab_next[g]] = slab_type[g]
                  /\ slab_prev[slab_next[g]] = g /\ r[slab_next[g]] < r[g]
             /\ slab_prev[g] # SLAB_NULL =>
                  /\ slab_prev[g] \in Frames /\ slab_prev[g] # g
                  /\ is_slab_page[slab_prev[g]] /\ slab_type[slab_prev[g]] = slab_type[g]
                  /\ slab_next[slab_prev[g]] = g /\ r[g] < r[slab_prev[g]]
             /\ slab_prev[g] = SLAB_NULL <=> slab_start_list[slab_type[g]] = g
  <2>1. /\ slab_type[g] \in Types
        /\ slab_next[g] # SLAB_NULL =>
             /\ slab_next[g] \in Frames
             /\ is_slab_page[slab_next[g]] /\ slab_type[slab_next[g]] = slab_type[g]
             /\ slab_prev[slab_next[g]] = g
        /\ slab_prev[g] # SLAB_NULL =>
             /\ slab_prev[g] \in Frames
             /\ is_slab_page[slab_prev[g]] /\ slab_type[slab_prev[g]] = slab_type[g]
             /\ slab_next[slab_prev[g]] = g
        /\ slab_prev[g] = SLAB_NULL <=> slab_start_list[slab_type[g]] = g
    <3>1. slab_type[g] \in Types
      BY <1>4 DEF IndInv, MemoryInv, PageInv
    <3>2. slab_next[g] \in Links /\ slab_prev[g] \in Links
      BY <1>2
    <3>. QED  BY <1>4, <3>1, <3>2 DEF IndInv, ListInv, LinkInv, Links
  <2>2. slab_next[g] # SLAB_NULL => r[slab_next[g]] < r[g] /\ slab_next[g] # g
    BY <1>3, <1>4, <2>1 DEF Falls
  <2>3. slab_prev[g] # SLAB_NULL => r[g] < r[slab_prev[g]] /\ slab_prev[g] # g
    <3>. SUFFICES ASSUME slab_prev[g] # SLAB_NULL
                  PROVE  r[g] < r[slab_prev[g]] /\ slab_prev[g] # g
      OBVIOUS
    <3>1. slab_prev[g] \in Frames /\ is_slab_page[slab_prev[g]] /\ slab_next[slab_prev[g]] = g
      BY <2>1
    <3>2. slab_next[slab_prev[g]] # SLAB_NULL
      BY <1>2, <3>1
    <3>3. r[g] < r[slab_prev[g]]
      BY <1>3, <3>1, <3>2 DEF Falls
    <3>. QED  BY <3>3
  <2>. QED  BY <2>1, <2>2, <2>3
<1>5. /\ n # SLAB_NULL => /\ n \in Frames /\ n # f /\ is_slab_page[n] /\ slab_type[n] = t
                          /\ slab_prev[n] = f /\ r[n] < r[f]
      /\ p # SLAB_NULL => /\ p \in Frames /\ p # f /\ is_slab_page[p] /\ slab_type[p] = t
                          /\ slab_next[p] = f /\ r[f] < r[p]
      /\ p = SLAB_NULL <=> slab_start_list[t] = f
  BY <1>4
<1>. HIDE DEF n, p
<1>6. /\ ~is_slab_page'[f] 
      /\ \A g \in Frames : g # f => /\ is_slab_page'[g] = is_slab_page[g]
                                    /\ slab_type'[g] = slab_type[g]
                                    /\ slab_next'[g] = IF g = p THEN n ELSE slab_next[g]
                                    /\ slab_prev'[g] = IF g = n THEN p ELSE slab_prev[g]
      /\ slab_start_list'[t] = IF p = SLAB_NULL THEN n ELSE slab_start_list[t]
      /\ \A u \in Types : u # t => slab_start_list'[u] = slab_start_list[u]
  <2>1. ~is_slab_page'[f] /\ \A g \in Frames : g # f => /\ is_slab_page'[g] = is_slab_page[g]
                                                        /\ slab_type'[g] = slab_type[g]
    BY <1>1, <1>2
  <2>2. ASSUME NEW g \in Frames, g # f
        PROVE  slab_next'[g] = IF g = p THEN n ELSE slab_next[g]
    BY <1>1, <1>2, <1>5, <2>2 DEF Unlink, n, p
  <2>3. ASSUME NEW g \in Frames, g # f
        PROVE  slab_prev'[g] = IF g = n THEN p ELSE slab_prev[g]
    BY <1>1, <1>2, <1>5, <2>3 DEF Unlink, n, p
  <2>4. /\ slab_start_list'[t] = IF p = SLAB_NULL THEN n ELSE slab_start_list[t]
        /\ \A u \in Types : u # t => slab_start_list'[u] = slab_start_list[u]
    BY <1>1, <1>2, <1>5 DEF Unlink, n, p
  <2>. QED  BY <2>1, <2>2, <2>3, <2>4
<1>. HIDE DEF t
<1>7. ASSUME NEW g \in Frames, is_slab_page'[g]
      PROVE  /\ slab_next'[g] # SLAB_NULL =>
                  /\ is_slab_page'[slab_next'[g]] /\ slab_type'[slab_next'[g]] = slab_type'[g]
                  /\ slab_prev'[slab_next'[g]] = g
             /\ slab_prev'[g] # SLAB_NULL =>
                  /\ is_slab_page'[slab_prev'[g]] /\ slab_type'[slab_prev'[g]] = slab_type'[g]
                  /\ slab_next'[slab_prev'[g]] = g
             /\ slab_prev'[g] = SLAB_NULL <=> slab_start_list'[slab_type'[g]] = g
             /\ slab_next'[g] # SLAB_NULL => r[slab_next'[g]] < r[g]
  <2>1. g # f /\ is_slab_page[g] /\ slab_type'[g] = slab_type[g]
    BY <1>6, <1>7
  <2>2. slab_next[g] = f => g = p
    BY <1>2, <1>4, <2>1 DEF p
  <2>3. slab_prev[g] = f => g = n
    BY <1>2, <1>4, <2>1 DEF n
  <2>4. slab_next'[g] # SLAB_NULL =>
                  /\ is_slab_page'[slab_next'[g]] /\ slab_type'[slab_next'[g]] = slab_type'[g]
                  /\ slab_prev'[slab_next'[g]] = g /\ r[slab_next'[g]] < r[g]
    <3>1. CASE g = p
      <4>1. slab_next'[g] = n /\ g # SLAB_NULL
        BY <1>2, <1>6, <2>1, <3>1
      <4>2. n # SLAB_NULL => r[n] < r[g] /\ is_slab_page'[n] /\ slab_type'[n] = slab_type'[g] /\ slab_prev'[n] = g
        BY <1>5, <1>6, <2>1, <3>1, <4>1
      <4>. QED  BY <4>1, <4>2
    <3>2. CASE g # p
      <4>1. slab_next'[g] = slab_next[g] /\ slab_next[g] # f
        BY <1>6, <2>1, <2>2, <3>2
      <4>2. slab_next[g] = n => slab_next[g] = SLAB_NULL
        BY <1>4, <1>5, <2>1
      <4>. QED  BY <1>4, <1>6, <2>1, <4>1, <4>2
    <3>. QED  BY <3>1, <3>2
  <2>5. slab_prev'[g] # SLAB_NULL =>
                  /\ is_slab_page'[slab_prev'[g]] /\ slab_type'[slab_prev'[g]] = slab_type'[g]
                  /\ slab_next'[slab_prev'[g]] = g
    <3>1. CASE g = n
      <4>1. slab_prev'[g] = p /\ g # SLAB_NULL
        BY <1>2, <1>6, <2>1, <3>1
      <4>2. p # SLAB_NULL => is_slab_page'[p] /\ slab_type'[p] = slab_type'[g] /\ slab_next'[p] = g
        BY <1>5, <1>6, <2>1, <3>1, <4>1
      <4>. QED  BY <4>1, <4>2
    <3>2. CASE g # n
      <4>1. slab_prev'[g] = slab_prev[g] /\ slab_prev[g] # f
        BY <1>6, <2>1, <2>3, <3>2
      <4>2. slab_prev[g] = p => slab_prev[g] = SLAB_NULL
        BY <1>4, <1>5, <2>1
      <4>. QED  BY <1>4, <1>6, <2>1, <4>1, <4>2
    <3>. QED  BY <3>1, <3>2
  <2>6. slab_prev'[g] = SLAB_NULL <=> slab_start_list'[slab_type'[g]] = g
    <3>1. CASE g = n
      BY <1>2, <1>4, <1>5, <1>6, <2>1, <3>1
    <3>2. CASE g # n
      <4>1. slab_prev'[g] = slab_prev[g]
        BY <1>6, <2>1, <3>2
      <4>2. slab_start_list'[slab_type[g]] = g <=> slab_start_list[slab_type[g]] = g
        BY <1>4, <1>5, <1>6, <2>1, <3>2
      <4>. QED  BY <1>4, <2>1, <4>1, <4>2
    <3>. QED  BY <3>1, <3>2
  <2>. QED  BY <2>4, <2>5, <2>6
<1>8. ASSUME NEW u \in Types, slab_start_list'[u] # SLAB_NULL
      PROVE  is_slab_page'[slab_start_list'[u]] /\ slab_type'[slab_start_list'[u]] = u
  <2>1. slab_start_list[u] # SLAB_NULL => /\ slab_start_list[u] \in Frames
                                          /\ is_slab_page[slab_start_list[u]]
                                          /\ slab_type[slab_start_list[u]] = u
    BY <1>2 DEF IndInv, ListInv, LinkInv, Links
  <2>2. CASE u = t
    <3>1. CASE p = SLAB_NULL
      BY <1>5, <1>6, <1>8, <2>2, <3>1
    <3>2. CASE p # SLAB_NULL
      BY <1>5, <1>6, <1>8, <2>1, <2>2, <3>2
    <3>. QED  BY <3>1, <3>2
  <2>3. CASE u # t
    <3>1. slab_start_list'[u] = slab_start_list[u] /\ slab_start_list[u] # f
      BY <1>6, <1>8, <2>1, <2>3 DEF t
    <3>. QED  BY <1>6, <1>8, <2>1, <3>1
  <2>. QED  BY <2>2, <2>3
<1>9. LinkInv'
  BY <1>7, <1>8 DEF LinkInv
<1>10. Falls(r)'
  BY <1>7 DEF Falls
<1>. QED  BY <1>3, <1>9, <1>10 DEF ListInv, RankInv

(* Every page that slab_allocate meets on the list of a class is of that   *)
(* class, and the walk ends: at the end of the list, or at a page with an  *)
(* unused slot.                                                            *)
LEMMA RoomFound ==
  ASSUME IndInv, NEW t \in Types, PageWithRoom(t) # SLAB_NULL
  PROVE  LET f == PageWithRoom(t) IN
         f \in Frames /\ is_slab_page[f] /\ slab_type[f] = t /\ HasRoom(f)
<1>. DEFINE N == TOTAL_FRAME
            Stops(f) == f = SLAB_NULL \/ HasRoom(f)
            Step == [f \in Links |-> IF f = SLAB_NULL \/ HasRoom(f) THEN f ELSE slab_next[f]]
            walk[n \in 0 .. TOTAL_FRAME] ==
              IF n = 0 THEN slab_start_list[t]
              ELSE LET f == walk[n - 1]
                   IN  IF f = SLAB_NULL \/ HasRoom(f) THEN f ELSE slab_next[f]
            OfClass(f) == f \in Frames /\ is_slab_page[f] /\ slab_type[f] = t
<1>1. /\ slab_start_list[t] \in Links /\ slab_next \in [Frames -> Links]
      /\ SLAB_NULL \in Links /\ SLAB_NULL \notin Frames /\ N \in Nat
      /\ \A f \in Links : f = SLAB_NULL \/ f \in Frames
  BY Constants DEF IndInv, MemoryInv, TypeOK, SLAB_NULL, Frames, Links
<1>2. Step \in [Links -> Links]
  BY <1>1
<1>3. \E g \in [0 .. N -> Links] : Iterates(g, Step, slab_start_list[t], N)
  <2>. HIDE DEF Step
  <2>. QED  BY <1>1, <1>2, Iterated
<1>4. PICK g \in [0 .. N -> Links] :
        g = [n \in 0 .. N |-> IF n = 0 THEN slab_start_list[t] ELSE Step[g[n - 1]]]
  BY <1>3 DEF Iterates
<1>5. g = [n \in 0 .. TOTAL_FRAME |->
             IF n = 0 THEN slab_start_list[t]
             ELSE LET f == g[n - 1]
                  IN  IF f = SLAB_NULL \/ HasRoom(f) THEN f ELSE slab_next[f]]
  <2>1. \A n \in 0 .. N : g[n] = IF n = 0 THEN slab_start_list[t]
             ELSE LET f == g[n - 1]
                  IN  IF f = SLAB_NULL \/ HasRoom(f) THEN f ELSE slab_next[f]
    <3>. SUFFICES ASSUME NEW n \in 0 .. N
                  PROVE  g[n] = IF n = 0 THEN slab_start_list[t]
                           ELSE LET f == g[n - 1]
                                IN  IF f = SLAB_NULL \/ HasRoom(f) THEN f ELSE slab_next[f]
      OBVIOUS
    <3>1. g[n] = IF n = 0 THEN slab_start_list[t] ELSE Step[g[n - 1]]
      BY <1>4, Zenon
    <3>2. n # 0 => n - 1 \in 0 .. N
      BY <1>1
    <3>. QED  BY <3>1, <3>2
  <2>. QED  BY <1>4, <2>1
<1>6. walk = [n \in 0 .. TOTAL_FRAME |->
             IF n = 0 THEN slab_start_list[t]
             ELSE LET f == walk[n - 1]
                  IN  IF f = SLAB_NULL \/ HasRoom(f) THEN f ELSE slab_next[f]]
  BY <1>5, Zenon
<1>7. PageWithRoom(t) = walk[N]
  BY DEF PageWithRoom

<1>. HIDE DEF walk, Step
<1>8. /\ walk[0] = slab_start_list[t]
      /\ \A n \in 1 .. N : walk[n] = IF Stops(walk[n - 1]) THEN walk[n - 1]
                                     ELSE slab_next[walk[n - 1]]
  <2>1. walk[0] = slab_start_list[t]
    BY <1>1, <1>6
  <2>2. ASSUME NEW n \in 1 .. N
        PROVE  walk[n] = IF Stops(walk[n - 1]) THEN walk[n - 1] ELSE slab_next[walk[n - 1]]
    <3>1. n \in 0 .. TOTAL_FRAME /\ n # 0
      OBVIOUS
    <3>. QED  BY <1>6, <3>1
  <2>. QED  BY <2>1, <2>2
<1>. HIDE DEF Stops
<1>9. \A n \in 0 .. N : walk[n] = SLAB_NULL \/ OfClass(walk[n])
  <2>. DEFINE S == {n \in 0 .. N : walk[n] = SLAB_NULL \/ OfClass(walk[n])}
  <2>1. S \in SUBSET Nat
    OBVIOUS
  <2>2. 0 \in S
    BY <1>1, <1>8 DEF IndInv, ListInv, LinkInv
  <2>3. ASSUME NEW n \in 1 .. N, n - 1 \in S
        PROVE  n \in S
    <3>1. CASE Stops(walk[n - 1])
      BY <1>8, <2>3, <3>1
    <3>2. CASE ~Stops(walk[n - 1])
      <4>1. OfClass(walk[n - 1]) /\ walk[n] = slab_next[walk[n - 1]]
        BY <1>8, <2>3, <3>2 DEF Stops
      <4>2. walk[n] = SLAB_NULL \/ OfClass(walk[n])
        BY <1>1, <4>1 DEF IndInv, ListInv, LinkInv
      <4>. QED  BY <4>2
    <3>. QED  BY <3>1, <3>2
  <2>. HIDE DEF S
  <2>4. \A n \in 0 .. N : n \in S
    BY <1>1, <2>1, <2>2, <2>3, HandedOn
  <2>. QED  BY <2>4 DEF S
<1>10. HasRoom(walk[N])
  <2>. SUFFICES ASSUME ~HasRoom(walk[N])
                PROVE  FALSE
    OBVIOUS
  <2>1. ASSUME NEW k \in 0 .. N, Stops(walk[k])
        PROVE  FALSE
    <3>. DEFINE S == {n \in 0 .. N : k <= n => Stops(walk[n])}
    <3>1. S \in SUBSET Nat
      OBVIOUS
    <3>2. 0 \in S
      BY <1>1, <2>1
    <3>3. ASSUME NEW n \in 1 .. N, n - 1 \in S
          PROVE  n \in S
      <4>1. CASE k = n
        BY <2>1, <4>1
      <4>2. CASE k # n
        BY <1>8, <3>3, <4>2
      <4>. QED  BY <4>1, <4>2
    <3>. HIDE DEF S
    <3>4. \A n \in 0 .. N : n \in S
      BY <1>1, <3>1, <3>2, <3>3, HandedOn
    <3>5. N \in S
      BY <1>1, <3>4
    <3>. QED  BY <1>7, <3>5 DEF S, Stops
  <2>2. PICK r \in [Frames -> Int] : Falls(r)
    BY DEF IndInv, ListInv, RankInv
  <2>. DEFINE w == [n \in 0 .. N |-> walk[n]]
  <2>3. ASSUME NEW n \in 0 .. N
        PROVE  OfClass(walk[n])
    BY <1>9, <2>1, <2>3 DEF Stops
  <2>4. w \in [0 .. N -> 0 .. N - 1] /\ r \in [0 .. N - 1 -> Int]
    BY <2>3 DEF Frames
  <2>5. ASSUME NEW n \in 1 .. N
        PROVE  r[w[n]] < r[w[n - 1]]
    <3>1. n \in 0 .. N /\ n - 1 \in 0 .. N
      BY <1>1
    <3>2. walk[n] = slab_next[walk[n - 1]]
      BY <1>8, <2>1, <3>1
    <3>3. OfClass(walk[n]) /\ OfClass(walk[n - 1])
      BY <2>3, <3>1
    <3>4. r[walk[n]] < r[walk[n - 1]]
      BY <1>1, <2>2, <3>2, <3>3 DEF Falls
    <3>. QED  BY <3>1, <3>4
  <2>. HIDE DEF w
  <2>6. Descends([n \in 0 .. N |-> r[w[n]]], N)
    <3>. DEFINE v == [n \in 0 .. N |-> r[w[n]]]
    <3>1. ASSUME NEW n \in 1 .. N
          PROVE  v[n] < v[n - 1]
      BY <1>1, <2>5
    <3>. QED  BY <3>1 DEF Descends
  <2>. QED  BY <1>1, <2>4, <2>6, ChainEnds
<1>11. OfClass(walk[N])
  BY <1>1, <1>7, <1>9
<1>. QED  BY <1>7, <1>10, <1>11
-----------------------------------------------------------------------------
(* The invariant. *)

(* The empty heap is in order. *)
LEMMA Starts == Init => IndInv
<1>. SUFFICES ASSUME Init
              PROVE  IndInv
  OBVIOUS
<1>1. TypeOK
  BY DEF Init, TypeOK, Links
<1>2. HeldInv /\ PageInv /\ LiveInv /\ UseInv
  BY DEF Init, HeldInv, PageInv, LiveInv, UseInv
<1>3. LinkInv
  BY DEF Init, LinkInv
<1>4. RankInv
  <2>. DEFINE r == [f \in Frames |-> 0]
  <2>1. r \in [Frames -> Int] /\ Falls(r)
    BY DEF Init, Falls
  <2>. QED  BY <2>1 DEF RankInv
<1>. QED  BY <1>1, <1>2, <1>3, <1>4 DEF IndInv, MemoryInv, ListInv

(* malloc_s: a slot of the page that the walk found, or a new page. *)
LEMMA MallocSStep ==
  ASSUME IndInv, NEW z \in Sizes, MallocS(z)
  PROVE  IndInv'
<1>. DEFINE t == SlabTypeOf(z)
            f == PageWithRoom(t)
<1>1. /\ t # -1
      /\ \/ f # SLAB_NULL /\ TakeSlot(f, t, z)
         \/ f = SLAB_NULL /\ \E n \in Frames : NewSlabPage(n, t, z)
  BY DEF MallocS
<1>2. Class(t) /\ z <= slab_sizes[t]
  BY <1>1, ClassChosen
<1>3. MemoryInv /\ ListInv /\ t \in Types
  BY <1>2 DEF IndInv, Class
<1>. HIDE DEF t
<1>4. CASE f # SLAB_NULL /\ TakeSlot(f, t, z)
  <2>1. f \in Frames /\ is_slab_page[f] /\ slab_type[f] = t /\ HasRoom(f)
    BY <1>3, <1>4, RoomFound
  <2>. HIDE DEF f
  <2>2. MemoryInv'
    BY <1>2, <1>3, <1>4, <2>1, TakeSlotStep
  <2>3. ListInv'
    BY <1>3, <1>4, ListsKept DEF TakeSlot
  <2>. QED  BY <2>2, <2>3 DEF IndInv
<1>5. ASSUME NEW n \in Frames, NewSlabPage(n, t, z)
      PROVE  IndInv'
  <2>1. MemoryInv' /\ ~is_slab_page[n]
    BY <1>2, <1>3, <1>5, NewPageStep
  <2>2. ListInv'
    BY <1>3, <1>5, <2>1, NewPageLists
  <2>. QED  BY <2>1, <2>2 DEF IndInv
<1>. QED  BY <1>1, <1>4, <1>5

(* kmalloc: malloc_s or malloc_b, by the size. *)
LEMMA KmallocStep ==
  ASSUME IndInv, NEW z \in Sizes, Kmalloc(z)
  PROVE  IndInv'
<1>1. CASE MallocS(z)
  BY <1>1, MallocSStep
<1>2. CASE MallocB(z)
  <2>1. MemoryInv'
    BY <1>2, MallocBStep DEF IndInv
  <2>2. ListInv'
    BY <1>2, ListsKept DEF IndInv, MallocB, slabs
  <2>. QED  BY <2>1, <2>2 DEF IndInv
<1>. QED  BY <1>1, <1>2 DEF Kmalloc

(* kfree: a slot, a page with its last slot, or a block. *)
LEMMA KfreeStep ==
  ASSUME IndInv, NEW a \in Addresses, Kfree(a)
  PROVE  IndInv'
<1>. DEFINE f == address2index(a)
            i == SlotOf(a)
<1>0. MemoryInv /\ ListInv
  BY DEF IndInv
<1>1. CASE is_slab_page[f]
  <2>1. /\ SlabFreeAccepts(a) /\ Without(a)
        /\ IF free_slabs[f] + 1 = TotalSlabs(slab_type[f]) THEN FreePage(f, i) ELSE FreeSlot(f, i)
    BY <1>1 DEF Kfree, SlabFree, Without
  <2>2. f \in Frames /\ i \in bitmap[f] /\ a = SlotAddress(f, i, slab_type[f])
    BY <1>0, <1>1, <2>1, SlotFreed
  <2>. HIDE DEF f, i
  <2>3. CASE free_slabs[f] + 1 = TotalSlabs(slab_type[f])
    <3>1. MemoryInv'
      BY <1>0, <1>1, <2>1, <2>2, <2>3, FreePageStep, PageListed
    <3>2. ListInv'
      BY <1>1, <2>1, <2>2, <2>3, FreePageLists
    <3>. QED  BY <3>1, <3>2 DEF IndInv
  <2>4. CASE free_slabs[f] + 1 # TotalSlabs(slab_type[f])
    <3>1. MemoryInv'
      BY <1>0, <1>1, <2>1, <2>2, <2>4, FreeSlotStep
    <3>2. ListInv'
      BY <1>0, <2>1, <2>4, ListsKept DEF FreeSlot
    <3>. QED  BY <3>1, <3>2 DEF IndInv
  <2>. QED  BY <2>3, <2>4
<1>2. CASE ~is_slab_page[f]
  <2>1. FreeB(a)
    BY <1>2 DEF Kfree
  <2>2. MemoryInv'
    BY <1>0, <1>2, <2>1, FreeBStep
  <2>3. ListInv'
    BY <1>0, <2>1, ListsKept DEF FreeB, slabs
  <2>. QED  BY <2>2, <2>3 DEF IndInv
<1>. QED  BY <1>1, <1>2

(* A step that changes nothing. *)
LEMMA Stutters == ASSUME IndInv, UNCHANGED vars PROVE IndInv'
<1>1. /\ held' = held /\ live' = live /\ bitmap' = bitmap /\ free_slabs' = free_slabs
      /\ is_slab_page' = is_slab_page /\ slab_type' = slab_type
      /\ slab_next' = slab_next /\ slab_prev' = slab_prev /\ slab_start_list' = slab_start_list
  BY DEF vars, slabs
<1>2. TypeOK' /\ HeldInv' /\ PageInv'
  BY <1>1 DEF IndInv, MemoryInv, TypeOK, HeldInv, PageInv, TotalSlabs, P!Blocks, P!FramesOf
<1>3. LiveInv' /\ UseInv'
  <2>1. \A l : \A f \in Frames : InSlot(l, f) => InSlot(l, f)'
    BY <1>1 DEF InSlot, SlotAddress, index2address
  <2>2. \A l : \A b \in held : InBlock(l, b) => InBlock(l, b)'
    BY <1>1 DEF InBlock
  <2>3. LiveInv'
    BY <1>1, <2>1, <2>2 DEF IndInv, MemoryInv, LiveInv
  <2>4. UseInv'
    BY <1>1 DEF IndInv, MemoryInv, UseInv, SlotAddress, index2address
  <2>. QED  BY <2>3, <2>4
<1>4. ListInv'
  BY <1>1, ListsKept DEF IndInv
<1>. QED  BY <1>2, <1>3, <1>4 DEF IndInv, MemoryInv

(* Every allocation and every free, of a slot or of a block, keeps the     *)
(* heap in order.                                                          *)
THEOREM HeapInOrder == Spec => []IndInv
<1>1. ASSUME IndInv, [Next]_vars
      PROVE  IndInv'
  <2>1. CASE UNCHANGED vars
    BY <1>1, <2>1, Stutters
  <2>2. ASSUME NEW z \in Sizes, MallocS(z) \/ Kmalloc(z)
        PROVE  IndInv'
    BY <1>1, <2>2, MallocSStep, KmallocStep
  <2>3. ASSUME NEW a \in Addresses, Kfree(a)
        PROVE  IndInv'
    BY <1>1, <2>3, KfreeStep
  <2>. QED  BY <1>1, <2>1, <2>2, <2>3 DEF Next
<1>. QED  BY <1>1, Starts, PTL DEF Spec

(* No two callers of kmalloc share a byte or an address, whichever of the  *)
(* two allocators served them, as long as no request wraps around.         *)
THEOREM CallersApart == Spec => []LiveDisjoint
<1>1. IndInv => LiveDisjoint
  BY Disjoint DEF IndInv
<1>. QED  BY <1>1, HeapInOrder, PTL

(* What a caller uses lies in one block that is held: kfree gives a page   *)
(* or a block back only when nothing in it is in use.                      *)
THEOREM MemoryHeld == Spec => []NoUseAfterFree
<1>1. IndInv => NoUseAfterFree
  BY InHeld DEF IndInv, NoUseAfterFree
<1>. QED  BY <1>1, HeapInOrder, PTL

(* A block is held only while an allocation in it is in use: a slab page   *)
(* goes back with its last slot.                                           *)
THEOREM NothingLeaked == Spec => []NoPageLeaked
<1>1. IndInv => NoPageLeaked
  BY Leakless DEF IndInv
<1>. QED  BY <1>1, HeapInOrder, PTL

(* A walk along the list of a class meets exactly the pages of the class. *)
LEMMA PagesExact ==
  ASSUME IndInv, NEW t \in Types
  PROVE  PagesOf(t) = {f \in Frames : is_slab_page[f] /\ slab_type[f] = t}
<1>. DEFINE C == {f \in Frames : is_slab_page[f] /\ slab_type[f] = t}
            h == slab_start_list[t]
<1>0. /\ TOTAL_FRAME \in Nat /\ SLAB_NULL = -1 /\ -1 \notin Frames
      /\ h \in Links /\ slab_next \in [Frames -> Links] /\ slab_prev \in [Frames -> Links]
  BY Constants DEF IndInv, MemoryInv, TypeOK, SLAB_NULL, Frames
<1>1. PICK r \in [Frames -> Int] : Falls(r)
  BY DEF IndInv, ListInv, RankInv
<1>2. IsList(C, h, slab_next, slab_prev, r)
  <2>1. h # -1 => h \in C
    BY <1>0 DEF IndInv, ListInv, LinkInv, Links
  <2>2. ASSUME NEW g \in C
        PROVE  /\ slab_next[g] # -1 => slab_next[g] \in C /\ r[slab_next[g]] < r[g]
               /\ slab_prev[g] # -1 => slab_prev[g] \in C /\ slab_next[slab_prev[g]] = g
               /\ slab_prev[g] = -1 => h = g
    <3>1. slab_next[g] # -1 => slab_next[g] \in C
      BY <1>0 DEF IndInv, ListInv, LinkInv, Links
    <3>2. slab_prev[g] # -1 => slab_prev[g] \in C /\ slab_next[slab_prev[g]] = g
      BY <1>0 DEF IndInv, ListInv, LinkInv, Links
    <3>3. slab_prev[g] = -1 => h = g
      BY <1>0 DEF IndInv, ListInv, LinkInv
    <3>4. slab_next[g] # -1 => r[slab_next[g]] < r[g]
      BY <1>0, <1>1 DEF Falls
    <3>. QED  BY <3>1, <3>2, <3>3, <3>4
  <2>. QED  BY <2>1, <2>2 DEF IsList
<1>3. ReachedFrom(h, slab_next, TOTAL_FRAME) = C
  <2>1. C \in SUBSET (0 .. TOTAL_FRAME - 1) /\ r \in [0 .. TOTAL_FRAME - 1 -> Int]
    BY DEF Frames
  <2>. HIDE DEF C, h
  <2>. QED  BY <1>0, <1>2, <2>1, WalkMeetsAll
<1>4. PagesOf(t) = ReachedFrom(h, slab_next, TOTAL_FRAME)
  BY DEF PagesOf, ReachedFrom, SLAB_NULL
<1>. QED  BY <1>3, <1>4

(* The list of every class holds exactly its pages, whatever was allocated *)
(* and freed, and in whichever order.                                      *)
THEOREM ListsExact == Spec => []SlabListsExact
<1>1. ASSUME IndInv
      PROVE  SlabListsExact
  <2>1. \A t \in Types : PagesOf(t) = {f \in Frames : is_slab_page[f] /\ slab_type[f] = t}
    BY <1>1, PagesExact
  <2>2. ASSUME NEW f \in Frames, is_slab_page[f]
        PROVE  /\ <<f, 0>> \in held
               /\ slab_type[f] # -1
               /\ bitmap[f] # {}
               /\ free_slabs[f] = TotalSlabs(slab_type[f]) - Cardinality(bitmap[f])
               /\ slab_next[f] # SLAB_NULL => slab_prev[slab_next[f]] = f
               /\ slab_prev[f] = SLAB_NULL <=> slab_start_list[slab_type[f]] = f
    <3>1. /\ <<f, 0>> \in held /\ slab_type[f] \in Types /\ bitmap[f] # {}
          /\ free_slabs[f] = TotalSlabs(slab_type[f]) - Cardinality(bitmap[f])
      BY <1>1, <2>2 DEF IndInv, MemoryInv, PageInv
    <3>2. /\ slab_next[f] # SLAB_NULL => slab_prev[slab_next[f]] = f
          /\ slab_prev[f] = SLAB_NULL <=> slab_start_list[slab_type[f]] = f
      BY <1>1, <2>2 DEF IndInv, ListInv, LinkInv
    <3>3. slab_type[f] # -1
      BY <3>1 DEF Types
    <3>. QED  BY <3>1, <3>2, <3>3
  <2>3. ASSUME NEW f \in Frames, ~is_slab_page[f]
        PROVE  slab_type[f] = -1 /\ bitmap[f] = {} /\ free_slabs[f] = -1
    BY <1>1, <2>3 DEF IndInv, MemoryInv, PageInv
  <2>. QED  BY <2>1, <2>2, <2>3 DEF SlabListsExact
<1>. QED  BY <1>1, HeapInOrder, PTL


-----------------------------------------------------------------------------
(* Virtual memory.  Regions. *)

(* The layout of a program, with the types of its constants.               *)
LEMMA Layout ==
  /\ USER_KERNEL_BASE \in Nat /\ PERIPHERAL_START \in Nat /\ PERIPHERAL_END \in Nat
  /\ USER_SIGNAL_STKSTART_VA \in Nat /\ USER_SIGNAL_WRAPPER_VA \in Nat /\ USER_STACK_BASE \in Nat
  /\ DATASIZE \in Nat \ {0} /\ WRAPPER_SIZE \in Nat \ {0} /\ USTACK_SIZE \in Nat \ {0}
  /\ USER_KERNEL_BASE + DATASIZE <= PERIPHERAL_START /\ PERIPHERAL_START < PERIPHERAL_END
  /\ PERIPHERAL_END <= USER_SIGNAL_STKSTART_VA
  /\ USER_SIGNAL_STKSTART_VA + 1 = USER_SIGNAL_WRAPPER_VA
  /\ USER_SIGNAL_WRAPPER_VA + WRAPPER_SIZE <= USER_STACK_BASE - USTACK_SIZE
  /\ NBLOCKS \in Nat
BY LayoutAssumption, PageTableAssumption

(* The numbers up to n are n.                                              *)
LEMMA UpTo ==
  ASSUME NEW n \in Nat
  PROVE  IsFiniteSet(1 .. n) /\ Cardinality(1 .. n) = n
<1>1. IsFiniteSet(1 .. n) /\ Cardinality(1 .. n) = IF 1 > n THEN 0 ELSE n - 1 + 1
  BY FS_Interval
<1>. QED  BY <1>1

(* What a list of regions is made of.                                      *)
LEMMA RegionIs ==
  ASSUME NEW list \in Seq(Regions)
  PROVE  /\ Len(list) \in Nat /\ DOMAIN list = 1 .. Len(list)
         /\ \A i \in DOMAIN list : /\ list[i] \in Regions
                                  /\ list[i].va \in Nat /\ list[i].size \in Nat \ {0}
<1>1. /\ Len(list) \in Nat /\ DOMAIN list = 1 .. Len(list)
      /\ \A i \in 1 .. Len(list) : list[i] \in Regions
  BY LenProperties, ElementOfSeq
<1>2. \A a \in Regions : a.va \in Nat /\ a.size \in Nat \ {0}
  BY DEF Regions
<1>. QED  BY <1>1, <1>2

(* A function on the numbers up to n is a sequence of length n.            *)
LEMMA FunctionIsSeq ==
  ASSUME NEW S, NEW n \in Nat, NEW f \in [1 .. n -> S]
  PROVE  f \in Seq(S) /\ Len(f) = n
OBVIOUS

(* The regions that thread_exec and exec make, one by one. *)
AreasFrom(list, data, user_sp, signal_sp) ==
  /\ list \in Seq(Regions) /\ Len(list) = 5 /\ DOMAIN list = 1 .. 5
  /\ LiesAt(list[1], USER_KERNEL_BASE, DATASIZE)
  /\ LiesAt(list[2], USER_STACK_BASE - USTACK_SIZE, USTACK_SIZE)
  /\ LiesAt(list[3], PERIPHERAL_START, PERIPHERAL_END - PERIPHERAL_START)
  /\ LiesAt(list[4], USER_SIGNAL_WRAPPER_VA, WRAPPER_SIZE)
  /\ LiesAt(list[5], USER_SIGNAL_STKSTART_VA, 1)
  /\ list[1].pa = data /\ list[2].pa = user_sp /\ list[5].pa = signal_sp
  /\ list[1].is_alloced /\ list[2].is_alloced /\ list[5].is_alloced
  /\ ~list[3].is_alloced /\ ~list[4].is_alloced
  /\ list[3].pa = DEVICE /\ list[4].pa = WRAPPER

(* The regions a program starts with, one by one.                          *)
LEMMA AreasAre ==
  ASSUME NEW data \in 0 .. NBLOCKS, NEW user_sp \in 0 .. NBLOCKS, NEW signal_sp \in 0 .. NBLOCKS
  PROVE  AreasFrom(Areas(data, user_sp, signal_sp), data, user_sp, signal_sp)
<1>. DEFINE a1 == Area(USER_KERNEL_BASE, DATASIZE, data, RWX, TRUE)
            a2 == Area(USER_STACK_BASE - USTACK_SIZE, USTACK_SIZE, user_sp, RWX, TRUE)
            a3 == Area(PERIPHERAL_START, PERIPHERAL_END - PERIPHERAL_START, DEVICE, {"r", "w"}, FALSE)
            a4 == Area(USER_SIGNAL_WRAPPER_VA, WRAPPER_SIZE, WRAPPER, {"r", "x"}, FALSE)
            a5 == Area(USER_SIGNAL_STKSTART_VA, 1, signal_sp, RWX, TRUE)
<1>1. a1 \in Regions /\ a2 \in Regions /\ a5 \in Regions
  BY Layout DEF Area, Regions, RWX
<1>2. a3 \in Regions /\ a4 \in Regions
  BY Layout DEF Area, Regions, RWX, DEVICE, WRAPPER
<1>3. Areas(data, user_sp, signal_sp) = <<a1, a2, a3, a4, a5>>
  BY DEF Areas
<1>4. /\ LiesAt(a1, USER_KERNEL_BASE, DATASIZE)
      /\ LiesAt(a2, USER_STACK_BASE - USTACK_SIZE, USTACK_SIZE)
      /\ LiesAt(a3, PERIPHERAL_START, PERIPHERAL_END - PERIPHERAL_START)
      /\ LiesAt(a4, USER_SIGNAL_WRAPPER_VA, WRAPPER_SIZE)
      /\ LiesAt(a5, USER_SIGNAL_STKSTART_VA, 1)
      /\ a1.pa = data /\ a2.pa = user_sp /\ a5.pa = signal_sp
      /\ a1.is_alloced /\ a2.is_alloced /\ a5.is_alloced
      /\ ~a3.is_alloced /\ ~a4.is_alloced /\ a3.pa = DEVICE /\ a4.pa = WRAPPER
  BY DEF Area, LiesAt
<1>. HIDE DEF a1, a2, a3, a4, a5
<1>. QED  BY <1>1, <1>2, <1>3, <1>4 DEF AreasFrom

(* They lie apart, and as the image, the stacks and the wrapper should.    *)
LEMMA AreasLaid ==
  ASSUME NEW data \in 0 .. NBLOCKS, NEW user_sp \in 0 .. NBLOCKS, NEW signal_sp \in 0 .. NBLOCKS
  PROVE  /\ Laid(Areas(data, user_sp, signal_sp)) /\ Apart(Areas(data, user_sp, signal_sp))
<1>. DEFINE list == Areas(data, user_sp, signal_sp)
<1>1. /\ DOMAIN list = 1 .. 5
      /\ LiesAt(list[1], USER_KERNEL_BASE, DATASIZE)
      /\ LiesAt(list[2], USER_STACK_BASE - USTACK_SIZE, USTACK_SIZE)
      /\ LiesAt(list[3], PERIPHERAL_START, PERIPHERAL_END - PERIPHERAL_START)
      /\ LiesAt(list[4], USER_SIGNAL_WRAPPER_VA, WRAPPER_SIZE)
      /\ LiesAt(list[5], USER_SIGNAL_STKSTART_VA, 1)
  BY AreasAre DEF AreasFrom
<1>. HIDE DEF list
<1>2. Laid(list)
  BY <1>1 DEF Laid
<1>3. Apart(list)
  BY <1>1, Layout DEF Apart, Clear, LiesAt
<1>. QED  BY <1>2, <1>3 DEF list

-----------------------------------------------------------------------------
(* The search of mmap. *)

(* The regions that an address is behind. *)
Behind(list, x) == {i \in DOMAIN list : list[i].va + list[i].size <= x}

Hits(list, x, len) == {i \in DOMAIN list : Overlap(list[i], x, len)}

NextAddr(list, x, len) ==
  LET i == CHOOSE j \in Hits(list, x, len) : \A k \in Hits(list, x, len) : j <= k
  IN  IF Hits(list, x, len) = {} THEN x ELSE list[i].va + list[i].size

(* One step gets behind another region, and skips no gap. *)
LEMMA NextGoesOn ==
  ASSUME NEW list \in Seq(Regions), NEW x \in Nat, NEW len \in Nat \ {0}
  PROVE  /\ NextAddr(list, x, len) \in Nat /\ x <= NextAddr(list, x, len)
         /\ \A y \in x .. NextAddr(list, x, len) - 1 : \E i \in DOMAIN list : Overlap(list[i], y, len)
         /\ Hits(list, x, len) # {} =>
              Cardinality(Behind(list, NextAddr(list, x, len))) >= Cardinality(Behind(list, x)) + 1
<1>1. /\ Len(list) \in Nat /\ DOMAIN list = 1 .. Len(list)
      /\ \A i \in DOMAIN list : list[i].va \in Nat /\ list[i].size \in Nat \ {0}
  BY RegionIs
<1>2. CASE Hits(list, x, len) = {}
  BY <1>2 DEF NextAddr
<1>3. CASE Hits(list, x, len) # {}
  <2>1. PICK m \in Hits(list, x, len) : \A k \in Hits(list, x, len) : m <= k
    <3>. Hits(list, x, len) \in SUBSET Nat
      BY <1>1 DEF Hits
    <3>. QED  BY <1>3, SmallestNumber
  <2>2. PICK i \in Hits(list, x, len) : NextAddr(list, x, len) = list[i].va + list[i].size
    BY <1>3, <2>1 DEF NextAddr
  <2>3. i \in DOMAIN list /\ list[i].va < x + len /\ x < list[i].va + list[i].size
    BY <1>1, <2>2 DEF Hits, Overlap
  <2>4. \A y \in x .. NextAddr(list, x, len) - 1 : Overlap(list[i], y, len)
    BY <1>1, <2>2, <2>3 DEF Overlap
  <2>5. Cardinality(Behind(list, NextAddr(list, x, len))) >= Cardinality(Behind(list, x)) + 1
    <3>. DEFINE B == Behind(list, x)
                C == Behind(list, NextAddr(list, x, len))
    <3>1. i \notin B /\ B \cup {i} \subseteq C /\ C \subseteq 1 .. Len(list)
      BY <1>1, <2>2, <2>3 DEF Behind
    <3>2. IsFiniteSet(1 .. Len(list))
      BY <1>1, UpTo
    <3>. HIDE DEF B, C
    <3>3. IsFiniteSet(C)
      BY <3>1, <3>2, FS_Subset
    <3>4. IsFiniteSet(B) /\ B \cup {i} \in SUBSET C
      BY <3>1, <3>3, FS_Subset
    <3>5. Cardinality(B \cup {i}) = Cardinality(B) + 1
      BY <3>1, <3>4, FS_AddElement
    <3>6. Cardinality(B \cup {i}) <= Cardinality(C)
      BY <3>3, <3>4, FS_Subset
    <3>7. Cardinality(B) \in Nat /\ Cardinality(C) \in Nat
      BY <3>3, <3>4, FS_CardinalityType
    <3>8. Cardinality(C) >= Cardinality(B) + 1
      BY <3>5, <3>6, <3>7
    <3>. QED  BY <3>8 DEF B, C
  <2>. QED  BY <1>1, <1>3, <2>2, <2>3, <2>4, <2>5
<1>. QED  BY <1>2, <1>3

(* The recursion of mmap finds the first gap. *)
LEMMA MmapFindsGap ==
  ASSUME NEW list \in Seq(Regions), NEW addr \in Nat, NEW len \in Nat \ {0}
  PROVE  FirstGap(list, addr, len, MmapAddr(list, addr, len))
<1>. DEFINE N == Len(list)
            F == [n \in 1 .. N |-> [x \in Nat |-> NextAddr(list, x, len)]]
            at[n \in 0 .. N] == IF n = 0 THEN addr ELSE NextAddr(list, at[n - 1], len)
<1>1. /\ N \in Nat /\ DOMAIN list = 1 .. N
      /\ \A i \in DOMAIN list : list[i].va \in Nat /\ list[i].size \in Nat \ {0}
  BY RegionIs
<1>2. F \in [1 .. N -> [Nat -> Nat]]
  BY NextGoesOn
<1>3. \E g \in [0 .. N -> Nat] : Walks(g, F, addr, N)
  <2>. HIDE DEF N, F
  <2>. QED  BY <1>1, <1>2, Walked
<1>4. PICK g \in [0 .. N -> Nat] : g = [n \in 0 .. N |-> IF n = 0 THEN addr ELSE F[n][g[n - 1]]]
  BY <1>3 DEF Walks
<1>5. g = [n \in 0 .. N |-> IF n = 0 THEN addr ELSE NextAddr(list, g[n - 1], len)]
  <2>1. \A n \in 0 .. N : g[n] = IF n = 0 THEN addr ELSE NextAddr(list, g[n - 1], len)
    <3>. SUFFICES ASSUME NEW n \in 0 .. N
                  PROVE  g[n] = IF n = 0 THEN addr ELSE NextAddr(list, g[n - 1], len)
      OBVIOUS
    <3>1. g[n] = IF n = 0 THEN addr ELSE F[n][g[n - 1]]
      BY <1>4
    <3>2. n # 0 => n \in 1 .. N /\ g[n - 1] \in Nat
      BY <1>1
    <3>. QED  BY <3>1, <3>2
  <2>. QED  BY <1>4, <2>1
<1>6. at = [n \in 0 .. N |-> IF n = 0 THEN addr ELSE NextAddr(list, at[n - 1], len)]
  BY <1>5
<1>7. MmapAddr(list, addr, len) = at[N]
  BY DEF MmapAddr, NextAddr, Hits
<1>. HIDE DEF at
<1>8. at[0] = addr /\ \A n \in 1 .. N : at[n] = NextAddr(list, at[n - 1], len)
  <2>. HIDE DEF N
  <2>. QED  BY <1>1, <1>6
<1>. DEFINE Sound(n) == /\ at[n] \in Nat /\ addr <= at[n]
                        /\ \A x \in addr .. at[n] - 1 : \E i \in DOMAIN list : Overlap(list[i], x, len)
                        /\ Hits(list, at[n], len) = {} \/ Cardinality(Behind(list, at[n])) >= n
            In == {n \in Nat : n <= N => Sound(n)}
<1>9. Sound(0)
  <2>1. IsFiniteSet(Behind(list, addr))
    <3>1. Behind(list, addr) \in SUBSET (1 .. N) /\ IsFiniteSet(1 .. N)
      BY <1>1, UpTo DEF Behind
    <3>. QED  BY <3>1, FS_Subset
  <2>2. Cardinality(Behind(list, addr)) >= 0
    BY <2>1, FS_CardinalityType
  <2>. QED  BY <1>8, <2>2
<1>10. ASSUME NEW n \in 1 .. N, Sound(n - 1)
       PROVE  Sound(n)
  <2>. DEFINE x == at[n - 1]
  <2>1. x \in Nat /\ addr <= x /\ at[n] = NextAddr(list, x, len)
    BY <1>8, <1>10
  <2>2. /\ \A y \in addr .. x - 1 : \E i \in DOMAIN list : Overlap(list[i], y, len)
        /\ Hits(list, x, len) = {} \/ Cardinality(Behind(list, x)) >= n - 1
    BY <1>10
  <2>. HIDE DEF x
  <2>3. /\ at[n] \in Nat /\ x <= at[n]
        /\ \A y \in x .. at[n] - 1 : \E i \in DOMAIN list : Overlap(list[i], y, len)
        /\ Hits(list, x, len) # {} =>
             Cardinality(Behind(list, at[n])) >= Cardinality(Behind(list, x)) + 1
    BY <2>1, NextGoesOn
  <2>4. \A y \in addr .. at[n] - 1 : \E i \in DOMAIN list : Overlap(list[i], y, len)
    <3>. SUFFICES ASSUME NEW y \in addr .. at[n] - 1
                  PROVE  \E i \in DOMAIN list : Overlap(list[i], y, len)
      OBVIOUS
    <3>1. y \in addr .. x - 1 \/ y \in x .. at[n] - 1
      BY <2>1, <2>3
    <3>. QED  BY <2>2, <2>3, <3>1
  <2>5. Hits(list, at[n], len) = {} \/ Cardinality(Behind(list, at[n])) >= n
    <3>1. CASE Hits(list, x, len) = {}
      BY <2>1, <3>1 DEF NextAddr
    <3>2. CASE Hits(list, x, len) # {}
      <4>1. \A y \in Nat : Cardinality(Behind(list, y)) \in Nat
        <5>. SUFFICES ASSUME NEW y \in Nat
                      PROVE  Cardinality(Behind(list, y)) \in Nat
          OBVIOUS
        <5>1. Behind(list, y) \in SUBSET (1 .. N) /\ IsFiniteSet(1 .. N)
          BY <1>1, UpTo DEF Behind
        <5>2. IsFiniteSet(Behind(list, y))
          BY <5>1, FS_Subset
        <5>. QED  BY <5>2, FS_CardinalityType
      <4>2. Cardinality(Behind(list, at[n])) \in Nat /\ Cardinality(Behind(list, x)) \in Nat
        BY <2>1, <2>3, <4>1
      <4>. QED  BY <1>1, <2>2, <2>3, <3>2, <4>2
    <3>. QED  BY <3>1, <3>2
  <2>. QED  BY <2>1, <2>3, <2>4, <2>5
<1>11. Sound(N)
  <2>1. 0 \in In /\ In \in SUBSET Nat
    BY <1>9
  <2>2. ASSUME NEW n \in 1 .. N, n - 1 \in In
        PROVE  n \in In
    <3>. HIDE DEF Sound
    <3>1. n - 1 \in Nat /\ n - 1 <= N /\ n \in Nat
      BY <1>1
    <3>. QED  BY <1>10, <2>2, <3>1
  <2>3. N \in In
    <3>. HIDE DEF In, N
    <3>1. N \in 0 .. N
      BY <1>1
    <3>. QED  BY <1>1, <2>1, <2>2, <3>1, HandedOn
  <2>. HIDE DEF Sound
  <2>. QED  BY <1>1, <2>3
<1>12. Hits(list, at[N], len) = {}
  <2>. SUFFICES ASSUME Cardinality(Behind(list, at[N])) >= N
                PROVE  Hits(list, at[N], len) = {}
    BY <1>11
  <2>1. Behind(list, at[N]) \in SUBSET (1 .. N) /\ IsFiniteSet(1 .. N) /\ Cardinality(1 .. N) = N
    BY <1>1, UpTo DEF Behind
  <2>2. Cardinality(Behind(list, at[N])) <= N /\ Cardinality(Behind(list, at[N])) \in Nat
    BY <2>1, FS_Subset, FS_CardinalityType
  <2>3. Behind(list, at[N]) = 1 .. N
    <3>1. Cardinality(Behind(list, at[N])) = Cardinality(1 .. N)
      BY <1>1, <2>1, <2>2
    <3>. QED  BY <2>1, <3>1, FS_Subset
  <2>. QED  BY <1>1, <1>11, <2>3 DEF Behind, Hits, Overlap
<1>. QED  BY <1>7, <1>11, <1>12 DEF FirstGap, Hits
-----------------------------------------------------------------------------
(* Blocks. *)

Below(S, b) == {c \in S : c < b}

(* The blocks that kmalloc returns are free and differ. *)
LEMMA FreshIs ==
  ASSUME NEW S \in SUBSET Nat, IsFiniteSet(S), NEW i \in 1 .. Cardinality(S)
  PROVE  Fresh(S, i) \in S /\ Cardinality(Below(S, Fresh(S, i))) = i - 1
<1>. DEFINE N == Cardinality(S) - 1
            Ranks == {k \in Nat : \E b \in S : Cardinality(Below(S, b)) = k}
<1>0. Cardinality(S) \in Nat /\ N \in Nat
  BY FS_CardinalityType
<1>a. \A c \in S : c \in Int
  OBVIOUS
<1>1. \A T \in SUBSET S : T # {} => \E m \in T : \A y \in T : m <= y
  BY SmallestNumber
<1>2. 0 \in Ranks
  <2>1. S # {}
    BY <1>0, FS_EmptySet
  <2>2. PICK m \in S : \A y \in S : m <= y
    BY <1>1, <2>1
  <2>3. \A c \in S : ~(c < m)
    BY <1>a, <2>2
  <2>4. Below(S, m) = {}
    BY <2>3 DEF Below
  <2>. QED  BY <2>2, <2>4, FS_EmptySet
<1>3. ASSUME NEW n \in 1 .. N, n - 1 \in Ranks
      PROVE  n \in Ranks
  <2>1. PICK b \in S : Cardinality(Below(S, b)) = n - 1
    BY <1>3
  <2>. DEFINE low == Below(S, b)
              T == {c \in S : c > b}
  <2>2. low \in SUBSET S /\ b \notin low
    BY DEF Below
  <2>3. IsFiniteSet(low)
    BY <2>2, FS_Subset
  <2>4. Cardinality(low \cup {b}) = n
    <3>. HIDE DEF low
    <3>1. Cardinality(low \cup {b}) = Cardinality(low) + 1
      BY <2>2, <2>3, FS_AddElement
    <3>2. Cardinality(low) = n - 1
      BY <2>1 DEF low
    <3>. QED  BY <3>1, <3>2
  <2>5. T # {}
    <3>1. CASE T = {}
      <4>0. \A c \in S : c < b \/ c = b
        BY <1>a, <3>1
      <4>1. S = low \cup {b}
        BY <4>0 DEF Below
      <4>. HIDE DEF low
      <4>. QED  BY <1>0, <2>4, <4>1
    <3>. QED  BY <3>1
  <2>6. PICK m \in T : \A y \in T : m <= y
    BY <1>1, <2>5
  <2>7. Below(S, m) = low \cup {b}
    <3>1. m \in S /\ b < m /\ \A c \in S : b < c => m <= c
      BY <2>6
    <3>2. \A c \in S : c < m <=> c < b \/ c = b
      BY <1>a, <3>1
    <3>. QED  BY <3>2 DEF Below
  <2>. QED  BY <2>4, <2>6, <2>7
<1>4. \A n \in 0 .. N : n \in Ranks
  <2>. Ranks \in SUBSET Nat
    OBVIOUS
  <2>. HIDE DEF Ranks, N
  <2>. QED  BY <1>0, <1>2, <1>3, HandedOn
<1>5. i - 1 \in Ranks
  BY <1>0, <1>4
<1>. QED  BY <1>5 DEF Fresh, Below

(* The i-th members of a set are different members of it.                  *)
LEMMA FreshDiffer ==
  ASSUME NEW S \in SUBSET Nat, IsFiniteSet(S)
  PROVE  /\ \A i \in 1 .. Cardinality(S) : Fresh(S, i) \in S
         /\ \A i, j \in 1 .. Cardinality(S) : i # j => Fresh(S, i) # Fresh(S, j)
<1>1. Cardinality(S) \in Nat
  BY FS_CardinalityType
<1>2. \A i \in 1 .. Cardinality(S) : Fresh(S, i) \in S /\ Cardinality(Below(S, Fresh(S, i))) = i - 1
  BY FreshIs
<1>. QED  BY <1>1, <1>2

(* The first n of the blocks in S. *)
LEMMA FreshBlocks ==
  ASSUME NEW S \in SUBSET Blocks, NEW n \in Nat, n <= Cardinality(S)
  PROVE  /\ \A i \in 1 .. n : Fresh(S, i) \in S /\ Fresh(S, i) \in Blocks
         /\ \A i, j \in 1 .. n : i # j => Fresh(S, i) # Fresh(S, j)
<1>1. S \in SUBSET Nat /\ IsFiniteSet(S)
  <2>1. IsFiniteSet(Blocks) /\ Blocks \in SUBSET Nat
    BY PageTableAssumption, UpTo DEF Blocks
  <2>. QED  BY <2>1, FS_Subset
<1>2. /\ \A i \in 1 .. Cardinality(S) : Fresh(S, i) \in S
      /\ \A i, j \in 1 .. Cardinality(S) : i # j => Fresh(S, i) # Fresh(S, j)
  BY <1>1, FreshDiffer
<1>3. Cardinality(S) \in Nat
  BY <1>1, FS_CardinalityType
<1>. QED  BY <1>2, <1>3

-----------------------------------------------------------------------------
(* The regions of a child. *)

OwnVas == {USER_SIGNAL_WRAPPER_VA, PERIPHERAL_START, USER_SIGNAL_STKSTART_VA}

(* r holds the first n regions of the list, but for those of OwnVas. *)
CopyOf(r, list, n) ==
  /\ r \in Seq(Regions) /\ Len(r) <= n
  /\ Apart(list) => Apart(r)
  /\ \A i \in 1 .. Len(r) : \E x \in 1 .. n : r[i] = list[x] /\ list[x].va \notin OwnVas
  /\ \A x \in 1 .. n : list[x].va \notin OwnVas => \E i \in 1 .. Len(r) : r[i] = list[x]

(* One more step of the walk that copies a list.                           *)
LEMMA CopyGoesOn ==
  ASSUME NEW list \in Seq(Regions), NEW n \in 1 .. Len(list), NEW r, CopyOf(r, list, n - 1)
  PROVE  CopyOf(IF list[n].va \in OwnVas THEN r ELSE Append(r, list[n]), list, n)
<1>1. /\ Len(list) \in Nat /\ DOMAIN list = 1 .. Len(list) /\ list[n] \in Regions
      /\ n \in Nat /\ n - 1 \in Nat /\ \A x \in 1 .. n : x \in 1 .. n - 1 \/ x = n
      /\ \A x \in 1 .. n - 1 : x \in 1 .. n
  BY RegionIs
<1>2. /\ r \in Seq(Regions) /\ Len(r) \in Nat /\ Len(r) <= n - 1 /\ DOMAIN r = 1 .. Len(r)
  BY RegionIs DEF CopyOf
<1>3. CASE list[n].va \in OwnVas
  <2>1. \A i \in 1 .. Len(r) : \E x \in 1 .. n : r[i] = list[x] /\ list[x].va \notin OwnVas
    BY <1>1 DEF CopyOf
  <2>2. \A x \in 1 .. n : list[x].va \notin OwnVas => \E i \in 1 .. Len(r) : r[i] = list[x]
    BY <1>1, <1>3 DEF CopyOf
  <2>3. CopyOf(r, list, n)
    BY <1>1, <1>2, <2>1, <2>2 DEF CopyOf
  <2>. QED  BY <1>3, <2>3
<1>4. CASE list[n].va \notin OwnVas
  <2>. DEFINE a == list[n]
              q == Append(r, a)
  <2>1. /\ q \in Seq(Regions) /\ Len(q) = Len(r) + 1
        /\ \A i \in 1 .. Len(r) : q[i] = r[i]
        /\ q[Len(r) + 1] = a
    BY <1>1, <1>2, AppendProperties
  <2>. HIDE DEF q
  <2>2. \A i \in 1 .. Len(q) : i \in 1 .. Len(r) \/ i = Len(r) + 1
    BY <1>2, <2>1
  <2>3. \A i \in 1 .. Len(q) : \E x \in 1 .. n : q[i] = list[x] /\ list[x].va \notin OwnVas
    <3>1. \A i \in 1 .. Len(r) : \E x \in 1 .. n : r[i] = list[x] /\ list[x].va \notin OwnVas
      BY <1>1 DEF CopyOf
    <3>. QED  BY <1>1, <1>4, <2>1, <2>2, <3>1
  <2>4. \A x \in 1 .. n : list[x].va \notin OwnVas => \E i \in 1 .. Len(q) : q[i] = list[x]
    <3>1. /\ \A i \in 1 .. Len(r) : i \in 1 .. Len(q)
          /\ Len(r) + 1 \in 1 .. Len(q)
      BY <1>2, <2>1
    <3>2. \A x \in 1 .. n - 1 : list[x].va \notin OwnVas => \E i \in 1 .. Len(r) : r[i] = list[x]
      BY DEF CopyOf
    <3>. QED  BY <1>1, <2>1, <3>1, <3>2
  <2>5. ASSUME Apart(list)
        PROVE  Apart(q)
    <3>1. Apart(r)
      BY <2>5 DEF CopyOf
    <3>2. DOMAIN q = 1 .. Len(q)
      BY <2>1, RegionIs
    <3>3. \A i \in 1 .. Len(r) : Clear(r[i], a) /\ Clear(a, r[i])
      <4>. SUFFICES ASSUME NEW i \in 1 .. Len(r)
                    PROVE  Clear(r[i], a) /\ Clear(a, r[i])
        OBVIOUS
      <4>1. PICK x \in 1 .. n - 1 : r[i] = list[x]
        BY DEF CopyOf
      <4>2. x \in DOMAIN list /\ n \in DOMAIN list /\ x # n
        BY <1>1
      <4>. QED  BY <2>5, <4>1, <4>2 DEF Apart
    <3>4. ASSUME NEW i \in 1 .. Len(q), NEW j \in 1 .. Len(q), i # j
          PROVE  Clear(q[i], q[j])
      <4>1. CASE i \in 1 .. Len(r) /\ j \in 1 .. Len(r)
        <5>1. q[i] = r[i] /\ q[j] = r[j]
          BY <2>1, <4>1
        <5>. QED  BY <1>2, <3>1, <3>4, <4>1, <5>1 DEF Apart
      <4>2. CASE i \in 1 .. Len(r) /\ j = Len(r) + 1
        BY <2>1, <3>3, <4>2
      <4>3. CASE i = Len(r) + 1 /\ j \in 1 .. Len(r)
        BY <2>1, <3>3, <4>3
      <4>. QED  BY <2>2, <3>4, <4>1, <4>2, <4>3
    <3>. QED  BY <3>2, <3>4 DEF Apart
  <2>6. Len(q) <= n
    BY <1>1, <1>2, <2>1
  <2>7. CopyOf(q, list, n)
    BY <2>1, <2>3, <2>4, <2>5, <2>6 DEF CopyOf
  <2>. QED  BY <1>4, <2>7 DEF q
<1>. QED  BY <1>3, <1>4

(* What fork copies is its parent's list without the regions of its own.   *)
LEMMA CopiedIs ==
  ASSUME NEW list \in Seq(Regions)
  PROVE  CopyOf(Copied(list), list, Len(list))
<1>. DEFINE N == Len(list)
            S == Seq(Regions)
            F == [n \in 1 .. N |-> [r \in S |-> IF list[n].va \in OwnVas THEN r ELSE Append(r, list[n])]]
            at[n \in 0 .. N] ==
              IF n = 0 THEN <<>>
              ELSE IF list[n].va \in OwnVas THEN at[n - 1] ELSE Append(at[n - 1], list[n])
<1>1. /\ N \in Nat /\ DOMAIN list = 1 .. N /\ \A n \in 1 .. N : list[n] \in Regions
  BY RegionIs
<1>2. F \in [1 .. N -> [S -> S]] /\ <<>> \in S
  BY <1>1
<1>3. \E g \in [0 .. N -> S] : Walks(g, F, <<>>, N)
  <2>. HIDE DEF N, F, S
  <2>. QED  BY <1>1, <1>2, Walked
<1>4. PICK g \in [0 .. N -> S] : g = [n \in 0 .. N |-> IF n = 0 THEN <<>> ELSE F[n][g[n - 1]]]
  BY <1>3 DEF Walks
<1>5. g = [n \in 0 .. N |-> IF n = 0 THEN <<>>
             ELSE IF list[n].va \in OwnVas THEN g[n - 1] ELSE Append(g[n - 1], list[n])]
  <2>1. ASSUME NEW n \in 0 .. N
        PROVE  g[n] = IF n = 0 THEN <<>>
                 ELSE IF list[n].va \in OwnVas THEN g[n - 1] ELSE Append(g[n - 1], list[n])
    <3>1. g[n] = IF n = 0 THEN <<>> ELSE F[n][g[n - 1]]
      BY <1>4
    <3>2. n # 0 => n \in 1 .. N /\ g[n - 1] \in S
      BY <1>1
    <3>. HIDE DEF S
    <3>. QED  BY <3>1, <3>2
  <2>. QED  BY <1>4, <2>1
<1>6. at = [n \in 0 .. N |-> IF n = 0 THEN <<>>
             ELSE IF list[n].va \in OwnVas THEN at[n - 1] ELSE Append(at[n - 1], list[n])]
  BY <1>5, Zenon
<1>7. Copied(list) = at[N]
  BY DEF Copied, OwnVas
<1>. HIDE DEF at
<1>8. /\ at[0] = <<>>
      /\ \A n \in 1 .. N : at[n] = IF list[n].va \in OwnVas THEN at[n - 1] ELSE Append(at[n - 1], list[n])
  <2>1. 0 \in 0 .. N /\ \A n \in 1 .. N : n \in 0 .. N /\ n # 0
    BY <1>1
  <2>2. \A n \in 0 .. N : at[n] = IF n = 0 THEN <<>>
             ELSE IF list[n].va \in OwnVas THEN at[n - 1] ELSE Append(at[n - 1], list[n])
    <3>. HIDE DEF N
    <3>. QED  BY <1>6
  <2>. QED  BY <2>1, <2>2
<1>. DEFINE In == {n \in Nat : n <= N => CopyOf(at[n], list, n)}
<1>9. 0 \in In
  <2>1. CopyOf(<<>>, list, 0)
    BY DEF CopyOf, Apart
  <2>. QED  BY <1>8, <2>1
<1>10. ASSUME NEW n \in 1 .. N, n - 1 \in In
       PROVE  n \in In
  <2>1. n \in Nat /\ CopyOf(at[n - 1], list, n - 1)
    BY <1>1, <1>10
  <2>. QED  BY <1>8, <2>1, CopyGoesOn
<1>11. N \in In
  <2>1. In \in SUBSET Nat
    OBVIOUS
  <2>. HIDE DEF In, N
  <2>2. N \in 0 .. N
    BY <1>1
  <2>. QED  BY <1>1, <1>9, <1>10, <2>1, <2>2, HandedOn
<1>. QED  BY <1>1, <1>7, <1>11

ForkList(list, new) ==
  ForkedAreas(Copied(list), new) \o SubSeq(Areas(NoBlock, NoBlock, new[3]), 3, 5)

(* The regions of a child, one by one. *)
ForkedFrom(r, copied, new) ==
  LET m == Len(copied) IN
  /\ r \in Seq(Regions) /\ Len(r) = m + 3
  /\ \A i \in 1 .. m : /\ LiesAt(r[i], copied[i].va, copied[i].size)
                       /\ r[i].pa = new[5 + i] /\ r[i].is_alloced
  /\ LiesAt(r[m + 1], PERIPHERAL_START, PERIPHERAL_END - PERIPHERAL_START)
  /\ LiesAt(r[m + 2], USER_SIGNAL_WRAPPER_VA, WRAPPER_SIZE)
  /\ LiesAt(r[m + 3], USER_SIGNAL_STKSTART_VA, 1)
  /\ ~r[m + 1].is_alloced /\ ~r[m + 2].is_alloced
  /\ r[m + 1].pa = DEVICE /\ r[m + 2].pa = WRAPPER
  /\ r[m + 3].is_alloced /\ r[m + 3].pa = new[3]

(* The list of a child: the copied regions, then its own.                  *)
LEMMA ForkListIs ==
  ASSUME NEW list \in Seq(Regions), NEW new \in [1 .. 5 + Len(Copied(list)) -> Blocks]
  PROVE  ForkedFrom(ForkList(list, new), Copied(list), new)
<1>. DEFINE copied == Copied(list)
            m == Len(copied)
            f == ForkedAreas(copied, new)
            a == Areas(NoBlock, NoBlock, new[3])
            b == SubSeq(a, 3, 5)
<1>1. copied \in Seq(Regions) /\ m \in Nat /\ DOMAIN copied = 1 .. m
      /\ \A i \in 1 .. m : copied[i] \in Regions
  <2>1. copied \in Seq(Regions)
    BY CopiedIs DEF CopyOf
  <2>. QED  BY <2>1, RegionIs
<1>2. new[3] \in 0 .. NBLOCKS /\ NoBlock \in 0 .. NBLOCKS /\ NBLOCKS \in Nat
      /\ \A i \in 1 .. m : new[5 + i] \in 0 .. NBLOCKS + 2
  <2>1. 3 \in 1 .. 5 + m /\ \A i \in 1 .. m : 5 + i \in 1 .. 5 + m
    BY <1>1
  <2>2. NBLOCKS \in Nat /\ NoBlock = 0
    BY Layout DEF NoBlock
  <2>3. new[3] \in Blocks /\ \A i \in 1 .. m : new[5 + i] \in Blocks
    BY <2>1
  <2>. HIDE DEF m
  <2>. QED  BY <2>2, <2>3 DEF Blocks
<1>. HIDE DEF copied
<1>3. /\ f \in Seq(Regions) /\ Len(f) = m
      /\ \A i \in 1 .. m : /\ LiesAt(f[i], copied[i].va, copied[i].size)
                           /\ f[i].pa = new[5 + i] /\ f[i].is_alloced
  <2>1. f = [i \in 1 .. m |-> [copied[i] EXCEPT !.pa = new[5 + i], !.is_alloced = TRUE]]
    BY <1>1 DEF ForkedAreas
  <2>2. ASSUME NEW i \in 1 .. m
        PROVE  /\ [copied[i] EXCEPT !.pa = new[5 + i], !.is_alloced = TRUE] \in Regions
               /\ LiesAt([copied[i] EXCEPT !.pa = new[5 + i], !.is_alloced = TRUE],
                         copied[i].va, copied[i].size)
               /\ [copied[i] EXCEPT !.pa = new[5 + i], !.is_alloced = TRUE].pa = new[5 + i]
               /\ [copied[i] EXCEPT !.pa = new[5 + i], !.is_alloced = TRUE].is_alloced
    BY <1>1, <1>2 DEF Regions, LiesAt
  <2>. HIDE DEF m, f
  <2>3. \A i \in 1 .. m : f[i] \in Regions
    BY <2>1, <2>2
  <2>4. f \in Seq(Regions) /\ Len(f) = m
    <3>1. f \in [1 .. m -> Regions]
      BY <2>1, <2>3
    <3>. QED  BY <1>1, <3>1, FunctionIsSeq
  <2>. QED  BY <2>1, <2>2, <2>4
<1>4. /\ a \in Seq(Regions) /\ Len(a) = 5
      /\ LiesAt(a[3], PERIPHERAL_START, PERIPHERAL_END - PERIPHERAL_START)
      /\ LiesAt(a[4], USER_SIGNAL_WRAPPER_VA, WRAPPER_SIZE)
      /\ LiesAt(a[5], USER_SIGNAL_STKSTART_VA, 1)
      /\ ~a[3].is_alloced /\ ~a[4].is_alloced /\ a[5].is_alloced /\ a[5].pa = new[3]
      /\ a[3].pa = DEVICE /\ a[4].pa = WRAPPER
  <2>1. AreasFrom(a, NoBlock, NoBlock, new[3])
    BY <1>2, AreasAre
  <2>. HIDE DEF a
  <2>. QED  BY <2>1 DEF AreasFrom
<1>. HIDE DEF a, f
<1>5. b \in Seq(Regions) /\ Len(b) = 3 /\ b[1] = a[3] /\ b[2] = a[4] /\ b[3] = a[5]
  <2>1. \A i \in 3 .. 5 : a[i] \in Regions
    <3>1. \A i \in 1 .. 5 : a[i] \in Regions
      BY <1>4, RegionIs
    <3>. QED  BY <3>1
  <2>2. /\ SubSeq(a, 3, 5) \in Seq(Regions)
        /\ Len(SubSeq(a, 3, 5)) = IF 3 <= 5 THEN 5 - 3 + 1 ELSE 0
        /\ \A i \in 1 .. 5 - 3 + 1 : SubSeq(a, 3, 5)[i] = a[3 + i - 1]
    BY <2>1, SubSeqProperties
  <2>. QED  BY <2>2
<1>. HIDE DEF b
<1>6. /\ f \o b \in Seq(Regions) /\ Len(f \o b) = m + 3
      /\ \A i \in 1 .. m : (f \o b)[i] = f[i]
      /\ (f \o b)[m + 1] = b[1] /\ (f \o b)[m + 2] = b[2] /\ (f \o b)[m + 3] = b[3]
  <2>1. /\ f \o b \in Seq(Regions) /\ Len(f \o b) = Len(f) + Len(b)
        /\ \A i \in 1 .. Len(f) + Len(b) : (f \o b)[i] = IF i <= Len(f) THEN f[i] ELSE b[i - Len(f)]
    <3>1. f \in Seq(Regions) /\ b \in Seq(Regions)
      BY <1>3, <1>5
    <3>. QED  BY <3>1, ConcatProperties
  <2>. HIDE DEF m
  <2>2. Len(f) = m /\ Len(b) = 3 /\ m \in Nat
    BY <1>1, <1>3, <1>5
  <2>3. \A i \in 1 .. m + 3 : (f \o b)[i] = IF i <= m THEN f[i] ELSE b[i - m]
    BY <2>1, <2>2
  <2>4. /\ \A i \in 1 .. m : i \in 1 .. m + 3 /\ i <= m
        /\ m + 1 \in 1 .. m + 3 /\ m + 2 \in 1 .. m + 3 /\ m + 3 \in 1 .. m + 3
        /\ ~(m + 1 <= m) /\ ~(m + 2 <= m) /\ ~(m + 3 <= m)
        /\ (m + 1) - m = 1 /\ (m + 2) - m = 2 /\ (m + 3) - m = 3
    BY <2>2
  <2>5. f \o b \in Seq(Regions) /\ Len(f \o b) = m + 3
    BY <2>1, <2>2
  <2>6. \A i \in 1 .. m : (f \o b)[i] = f[i]
    BY <2>3, <2>4
  <2>7. (f \o b)[m + 1] = b[1] /\ (f \o b)[m + 2] = b[2] /\ (f \o b)[m + 3] = b[3]
    BY <2>3, <2>4
  <2>. QED  BY <2>5, <2>6, <2>7
<1>7. ForkList(list, new) = f \o b
  BY DEF ForkList, a, b, f, copied
<1>. DEFINE r == f \o b
<1>. HIDE DEF r
<1>8. ForkedFrom(r, copied, new)
  BY <1>3, <1>4, <1>5, <1>6 DEF ForkedFrom, r
<1>. QED  BY <1>7, <1>8 DEF copied, r

(* Three numbers more. *)
LEMMA ThreeBehind ==
  ASSUME NEW m \in Nat, NEW a \in 1 .. m + 3
  PROVE  a \in 1 .. m \/ a \in {m + 1, m + 2, m + 3}
OBVIOUS

(* A child has the regions of a program, which share no page. *)
LEMMA ForkLaid ==
  ASSUME NEW list \in Seq(Regions), Laid(list), Apart(list),
         NEW new, NEW r, ForkedFrom(r, Copied(list), new)
  PROVE  Laid(r) /\ Apart(r)
<1>. DEFINE copied == Copied(list)
            m == Len(copied)
<1>1. /\ CopyOf(copied, list, Len(list)) /\ copied \in Seq(Regions) /\ m \in Nat
      /\ \A i \in 1 .. m : copied[i].va \in Nat /\ copied[i].size \in Nat
      /\ DOMAIN copied = 1 .. m
  <2>1. CopyOf(copied, list, Len(list))
    BY CopiedIs
  <2>2. copied \in Seq(Regions)
    BY <2>1 DEF CopyOf
  <2>. QED  BY <2>1, <2>2, RegionIs
<1>. HIDE DEF copied
<1>2. /\ Len(r) = m + 3 /\ DOMAIN r = 1 .. m + 3
      /\ \A i \in 1 .. m : LiesAt(r[i], copied[i].va, copied[i].size)
      /\ LiesAt(r[m + 1], PERIPHERAL_START, PERIPHERAL_END - PERIPHERAL_START)
      /\ LiesAt(r[m + 2], USER_SIGNAL_WRAPPER_VA, WRAPPER_SIZE)
      /\ LiesAt(r[m + 3], USER_SIGNAL_STKSTART_VA, 1)
  BY RegionIs DEF ForkedFrom, copied
<1>3. /\ Len(list) \in Nat /\ DOMAIN list = 1 .. Len(list)
      /\ \A i \in DOMAIN list : list[i].va \in Nat /\ list[i].size \in Nat
  BY RegionIs
<1>4. PICK i \in DOMAIN list, s \in DOMAIN list, p \in DOMAIN list, w \in DOMAIN list, g \in DOMAIN list :
        /\ LiesAt(list[i], USER_KERNEL_BASE, DATASIZE)
        /\ LiesAt(list[s], USER_STACK_BASE - USTACK_SIZE, USTACK_SIZE)
        /\ LiesAt(list[p], PERIPHERAL_START, PERIPHERAL_END - PERIPHERAL_START)
        /\ LiesAt(list[w], USER_SIGNAL_WRAPPER_VA, WRAPPER_SIZE)
        /\ LiesAt(list[g], USER_SIGNAL_STKSTART_VA, 1)
  BY DEF Laid
<1>5. ASSUME NEW x \in DOMAIN list, list[x].va \notin OwnVas
      PROVE  \E y \in 1 .. m : copied[y] = list[x]
  BY <1>1, <1>3, <1>5 DEF CopyOf
<1>6. Laid(r)
  <2>1. list[i].va \notin OwnVas /\ list[s].va \notin OwnVas
    <3>1. list[i].va = USER_KERNEL_BASE /\ list[s].va = USER_STACK_BASE - USTACK_SIZE
      BY <1>4 DEF LiesAt
    <3>2. USER_KERNEL_BASE \notin OwnVas
      BY Layout DEF OwnVas
    <3>3. USER_STACK_BASE - USTACK_SIZE \notin OwnVas
      BY Layout DEF OwnVas
    <3>. QED  BY <3>1, <3>2, <3>3
  <2>2. PICK y \in 1 .. m : copied[y] = list[i]
    BY <1>5, <2>1
  <2>3. PICK z \in 1 .. m : copied[z] = list[s]
    BY <1>5, <2>1
  <2>4. /\ LiesAt(r[y], USER_KERNEL_BASE, DATASIZE)
        /\ LiesAt(r[z], USER_STACK_BASE - USTACK_SIZE, USTACK_SIZE)
    BY <1>2, <1>4, <2>2, <2>3 DEF LiesAt
  <2>5. /\ y \in DOMAIN r /\ z \in DOMAIN r /\ m + 1 \in DOMAIN r /\ m + 2 \in DOMAIN r
        /\ m + 3 \in DOMAIN r /\ m + 2 < m + 3
    BY <1>1, <1>2
  <2>. QED  BY <1>2, <2>4, <2>5 DEF Laid
<1>7. Apart(r)
  <2>1. ASSUME NEW a \in 1 .. m, NEW b \in 1 .. m, a # b
        PROVE  Clear(r[a], r[b])
    <3>1. Clear(copied[a], copied[b])
      BY <1>1, <2>1 DEF CopyOf, Apart
    <3>. QED  BY <1>2, <3>1 DEF Clear, LiesAt
  <2>2. ASSUME NEW a \in 1 .. m, NEW b \in DOMAIN list, list[b].va \in OwnVas,
               NEW c, LiesAt(c, list[b].va, list[b].size)
        PROVE  Clear(r[a], c) /\ Clear(c, r[a])
    <3>1. PICK x \in DOMAIN list : copied[a] = list[x] /\ list[x].va \notin OwnVas
      <4>. HIDE DEF copied
      <4>. QED  BY <1>1, <1>3 DEF CopyOf
    <3>2. x # b
      BY <2>2, <3>1
    <3>3. Clear(list[x], list[b]) /\ Clear(list[b], list[x])
      BY <3>1, <3>2 DEF Apart
    <3>. QED  BY <1>2, <2>2, <3>1, <3>3 DEF Clear, LiesAt
  <2>3. ASSUME NEW a \in 1 .. m, NEW b \in {m + 1, m + 2, m + 3}
        PROVE  Clear(r[a], r[b]) /\ Clear(r[b], r[a])
    <3>1. list[p].va \in OwnVas /\ list[w].va \in OwnVas /\ list[g].va \in OwnVas
      BY <1>4 DEF LiesAt, OwnVas
    <3>2. /\ LiesAt(r[m + 1], list[p].va, list[p].size)
          /\ LiesAt(r[m + 2], list[w].va, list[w].size)
          /\ LiesAt(r[m + 3], list[g].va, list[g].size)
      BY <1>2, <1>4 DEF LiesAt
    <3>. QED  BY <2>2, <3>1, <3>2
  <2>4. /\ Clear(r[m + 1], r[m + 2]) /\ Clear(r[m + 2], r[m + 1])
        /\ Clear(r[m + 1], r[m + 3]) /\ Clear(r[m + 3], r[m + 1])
        /\ Clear(r[m + 2], r[m + 3]) /\ Clear(r[m + 3], r[m + 2])
    BY <1>2, Layout DEF Clear, LiesAt
  <2>5. \A a \in DOMAIN r : a \in 1 .. m \/ a \in {m + 1, m + 2, m + 3}
    <3>1. m \in Nat /\ DOMAIN r = 1 .. m + 3
      BY <1>1, <1>2
    <3>. HIDE DEF m
    <3>. QED  BY <3>1, ThreeBehind
  <2>. QED  BY <2>1, <2>3, <2>4, <2>5 DEF Apart
<1>. QED  BY <1>6, <1>7

-----------------------------------------------------------------------------
(* Numbers of pages, and their parts. *)

(* How many pages an entry of each level spans.                            *)
LEMMA Spans ==
  /\ LEVELS \in Nat /\ LEVELS - 1 \in Nat /\ LEVELS > 1 /\ FAN \in Nat \ {0}
  /\ Span[0] = 1
  /\ \A k \in 0 .. LEVELS : Span[k] \in Nat \ {0}
  /\ \A k \in 1 .. LEVELS : Span[k] = FAN * Span[k - 1]
<1>0. LEVELS \in Nat /\ LEVELS - 1 \in Nat /\ LEVELS > 1 /\ FAN \in Nat \ {0}
  BY PageTableAssumption
<1>. DEFINE S == Nat \ {0}
            F == [k \in 1 .. LEVELS |-> [x \in S |-> FAN * x]]
<1>1. F \in [1 .. LEVELS -> [S -> S]] /\ 1 \in S
  <2>1. \A x \in S : FAN * x \in S
    BY <1>0
  <2>. HIDE DEF S
  <2>2. 1 \in S
    BY DEF S
  <2>. QED  BY <2>1, <2>2
<1>2. PICK g \in [0 .. LEVELS -> S] : g = [k \in 0 .. LEVELS |-> IF k = 0 THEN 1 ELSE F[k][g[k - 1]]]
  <2>. HIDE DEF S, F
  <2>1. \E g \in [0 .. LEVELS -> S] : Walks(g, F, 1, LEVELS)
    BY <1>0, <1>1, Walked
  <2>. QED  BY <2>1 DEF Walks
<1>3. g = [k \in 0 .. LEVELS |-> IF k = 0 THEN 1 ELSE FAN * g[k - 1]]
  <2>1. ASSUME NEW k \in 0 .. LEVELS
        PROVE  g[k] = IF k = 0 THEN 1 ELSE FAN * g[k - 1]
    <3>1. g[k] = IF k = 0 THEN 1 ELSE F[k][g[k - 1]]
      BY <1>2
    <3>2. k # 0 => k \in 1 .. LEVELS /\ g[k - 1] \in S
      BY <1>0
    <3>. HIDE DEF S
    <3>. QED  BY <3>1, <3>2
  <2>. QED  BY <1>2, <2>1
<1>4. Span = [k \in 0 .. LEVELS |-> IF k = 0 THEN 1 ELSE FAN * Span[k - 1]]
  BY <1>3 DEF Span
<1>5. \A k \in 0 .. LEVELS : Span[k] = IF k = 0 THEN 1 ELSE FAN * Span[k - 1]
  BY <1>4
<1>. DEFINE In == {k \in Nat : k <= LEVELS => Span[k] \in S}
<1>6. /\ 0 \in 0 .. LEVELS
      /\ \A k \in 1 .. LEVELS : k \in 0 .. LEVELS /\ k # 0 /\ k \in Nat /\ k - 1 <= LEVELS
  BY <1>0
<1>7. \A k \in 0 .. LEVELS : k \in In
  <2>1. 0 \in In /\ In \in SUBSET Nat
    BY <1>5, <1>6
  <2>2. ASSUME NEW k \in 1 .. LEVELS, k - 1 \in In
        PROVE  k \in In
    <3>1. Span[k - 1] \in S /\ Span[k] = FAN * Span[k - 1]
      BY <1>5, <1>6, <2>2
    <3>. QED  BY <1>0, <1>6, <3>1
  <2>. HIDE DEF In
  <2>. QED  BY <1>0, <2>1, <2>2, HandedOn
<1>. QED  BY <1>0, <1>5, <1>6, <1>7

(* Dividing twice divides by the product. *)
LEMMA DividedTwice ==
  ASSUME NEW a \in Nat, NEW m \in Nat \ {0}, NEW n \in Nat \ {0}
  PROVE  a \div (n * m) = (a \div m) \div n
<1>. DEFINE x == a \div m
            o == a % m
            q == x \div n
            s == x % n
<1>1. x \in Nat /\ o \in 0 .. m - 1 /\ a = (x * m) + o
  BY Divided
<1>2. q \in Nat /\ s \in 0 .. n - 1 /\ x = (q * n) + s
  BY <1>1, Divided
<1>. HIDE DEF x, o, q, s
<1>3. (s * m) + o \in 0 .. (n * m) - 1
  <2>1. (s * m) + m <= n * m /\ s * m \in Nat
    BY <1>2, Products
  <2>. QED  BY <1>1, <2>1
<1>4. a = (q * (n * m)) + ((s * m) + o)
  BY <1>1, <1>2
<1>5. n * m \in Nat \ {0}
  OBVIOUS
<1>6. a \div (n * m) = q
  <2>. DEFINE c == n * m
              d == (s * m) + o
  <2>. HIDE DEF c, d
  <2>1. c \in Nat \ {0} /\ d \in 0 .. c - 1 /\ a = (q * c) + d
    BY <1>3, <1>4, <1>5 DEF c, d
  <2>. QED  BY <1>2, <2>1, Quotient DEF c
<1>. QED  BY <1>6 DEF q, x

(* The index at a level is the next digit of the page.                     *)
LEMMA IndexIs ==
  ASSUME NEW p \in Nat, NEW l \in 0 .. LEVELS - 1
  PROVE  /\ Index(p, l) \in 0 .. FAN - 1
         /\ p \div Span[LEVELS - 1 - l] = ((p \div Span[LEVELS - l]) * FAN) + Index(p, l)
<1>. DEFINE k == LEVELS - 1 - l
            m == Span[k]
            x == p \div m
<1>1. /\ k \in 0 .. LEVELS /\ k + 1 \in 1 .. LEVELS /\ k + 1 = LEVELS - l /\ (k + 1) - 1 = k
      /\ FAN \in Nat \ {0} /\ m \in Nat \ {0} /\ Span[k + 1] = FAN * m
  <2>1. k \in 0 .. LEVELS /\ k + 1 \in 1 .. LEVELS /\ k + 1 = LEVELS - l /\ (k + 1) - 1 = k
    BY Spans
  <2>. HIDE DEF k
  <2>. QED  BY <2>1, Spans
<1>2. x \in Nat
  <2>. HIDE DEF m
  <2>. QED  BY <1>1, Divided
<1>3. p \div Span[LEVELS - l] = x \div FAN
  <2>. HIDE DEF m, k
  <2>1. p \div (FAN * m) = x \div FAN
    BY <1>1, DividedTwice
  <2>. QED  BY <1>1, <2>1
<1>4. Index(p, l) = x % FAN
  BY DEF Index
<1>. HIDE DEF x
<1>5. x % FAN \in 0 .. FAN - 1 /\ x = ((x \div FAN) * FAN) + (x % FAN)
  BY <1>1, <1>2, Divided
<1>. QED  BY <1>3, <1>4, <1>5 DEF x

(* A page is known from its indices. *)
LEMMA SamePage ==
  ASSUME NEW p \in 0 .. NPAGES - 1, NEW q \in 0 .. NPAGES - 1,
         \A l \in 0 .. LEVELS - 1 : Index(p, l) = Index(q, l)
  PROVE  p = q
<1>. DEFINE In == {l \in Nat : l <= LEVELS => p \div Span[LEVELS - l] = q \div Span[LEVELS - l]}
<1>0. p \in Nat /\ q \in Nat /\ p < Span[LEVELS] /\ q < Span[LEVELS]
  BY Spans, VmAssumption
<1>1. 0 \in In
  <2>1. LEVELS - 0 = LEVELS /\ Span[LEVELS] \in Nat \ {0}
    BY Spans
  <2>2. \A a \in Nat : a < Span[LEVELS] => a \div Span[LEVELS] = 0
    <3>. SUFFICES ASSUME NEW m \in Nat \ {0}, NEW a \in Nat, a < m
                  PROVE  a \div m = 0
      BY <2>1
    <3>1. a = (0 * m) + a /\ a \in 0 .. m - 1
      OBVIOUS
    <3>. QED  BY <3>1, Quotient
  <2>. QED  BY <1>0, <2>1, <2>2
<1>2. ASSUME NEW l \in 1 .. LEVELS, l - 1 \in In
      PROVE  l \in In
  <2>1. l - 1 \in 0 .. LEVELS - 1 /\ LEVELS - (l - 1) \in Nat /\ LEVELS - 1 - (l - 1) = LEVELS - l
        /\ l \in Nat
    BY Spans
  <2>2. p \div Span[LEVELS - (l - 1)] = q \div Span[LEVELS - (l - 1)]
    BY <1>2, <2>1, Spans
  <2>3. /\ p \div Span[LEVELS - 1 - (l - 1)] = ((p \div Span[LEVELS - (l - 1)]) * FAN) + Index(p, l - 1)
        /\ q \div Span[LEVELS - 1 - (l - 1)] = ((q \div Span[LEVELS - (l - 1)]) * FAN) + Index(q, l - 1)
    BY <1>0, <2>1, IndexIs
  <2>4. Index(p, l - 1) = Index(q, l - 1)
    BY <2>1
  <2>5. p \div Span[LEVELS - l] = q \div Span[LEVELS - l]
    BY <2>1, <2>2, <2>3, <2>4
  <2>. QED  BY <2>1, <2>5
<1>3. LEVELS \in In
  <2>1. In \in SUBSET Nat /\ LEVELS \in 0 .. LEVELS /\ LEVELS \in Nat
    BY Spans
  <2>. HIDE DEF In
  <2>. QED  BY <1>1, <1>2, <2>1, HandedOn
<1>4. p \div 1 = q \div 1
  <2>1. LEVELS - LEVELS = 0
    BY Spans
  <2>. QED  BY <1>3, <2>1, Spans
<1>. QED  BY <1>0, <1>4


-----------------------------------------------------------------------------
(* The regions of every thread, in every state. *)

(* Threads have numbers, none of them idle's.                              *)
LEMMA ThreadNumbers ==
  /\ MAX_THREAD_COUNT \in Nat \ {0} /\ idle = 0 /\ 1 \in Threads
  /\ \A t \in Threads : t \in Nat /\ t # idle
BY VmAssumption DEF Threads, idle

(* What schedule leaves alone, and the thread it picks. *)
LEMMA Scheduled ==
  ASSUME VmTypeOK, ThreadInv, NEW t \in Threads, curr = t, NEW st,
         \A u \in Threads : st[u] = "FREE" <=> status[u] = "FREE", schedule(t, st)
  PROVE  /\ rq' \in SUBSET Threads /\ curr' \in Threads \cup {idle}
         /\ curr' # idle => st[curr'] # "FREE" /\ curr' \notin rq'
         /\ \A u \in rq' : st[u] # "FREE"
         /\ tlb' = [p \in Pages |-> NoEntry]
<1>1. /\ rq \in SUBSET Threads /\ t # idle /\ t \notin rq /\ status[t] # "FREE"
      /\ \A u \in rq : status[u] # "FREE"
  BY ThreadNumbers DEF VmTypeOK, ThreadInv
<1>2. PICK u \in {idle} \cup {v \in rq : st[v] = "ACTIVE"} :
        /\ curr' = u /\ tlb' = [p \in Pages |-> NoEntry]
        /\ rq' = (rq \ {u}) \cup (IF st[t] = "ZOMBIE" THEN {} ELSE {t})
  BY DEF schedule, switch_to
<1>. QED  BY <1>1, <1>2

(* A step that only changes which threads run, and makes zombies. *)
LEMMA OnlyThreads ==
  ASSUME VmInv, UNCHANGED <<vma_list, pgd, kernel_sp, op>>,
         status' \in [Threads -> {"FREE", "ACTIVE", "ZOMBIE"}],
         \A t \in Threads : status'[t] = "FREE" <=> status[t] = "FREE",
         rq' \in SUBSET Threads, curr' \in Threads \cup {idle},
         curr' # idle => status'[curr'] # "FREE" /\ curr' \notin rq',
         \A t \in rq' : status'[t] # "FREE"
  PROVE  VmInv'
<1>1. VmTypeOK'
  BY DEF VmInv, VmTypeOK
<1>2. ThreadInv'
  BY DEF VmInv, ThreadInv
<1>3. RegionInv'
  BY DEF VmInv, RegionInv, RegionsOK
<1>. QED  BY <1>1, <1>2, <1>3 DEF VmInv

(* The types and regions survive a switch.                                 *)
LEMMA VmTick ==
  ASSUME VmInv, Tick
  PROVE  VmInv'
<1>1. CASE curr = idle
  <2>1. PICK u \in {v \in rq : status[v] = "ACTIVE"} : switch_to(u) /\ rq' = rq \ {u}
    BY <1>1 DEF Tick
  <2>2. /\ rq' \in SUBSET Threads /\ curr' \in Threads \cup {idle}
        /\ curr' # idle => status[curr'] # "FREE" /\ curr' \notin rq'
        /\ \A v \in rq' : status[v] # "FREE"
    BY <2>1 DEF VmInv, VmTypeOK, ThreadInv, switch_to
  <2>. QED  BY <2>2, OnlyThreads DEF Tick, VmInv, VmTypeOK
<1>2. CASE curr # idle
  <2>1. curr \in Threads /\ schedule(curr, status)
    BY <1>2 DEF Tick, VmInv, VmTypeOK
  <2>2. /\ rq' \in SUBSET Threads /\ curr' \in Threads \cup {idle}
        /\ curr' # idle => status[curr'] # "FREE" /\ curr' \notin rq'
        /\ \A u \in rq' : status[u] # "FREE"
    BY <2>1, Scheduled DEF VmInv
  <2>. QED  BY <2>2, OnlyThreads DEF Tick, VmInv, VmTypeOK
<1>. QED  BY <1>1, <1>2

(* They survive a thread becoming a zombie.                                *)
LEMMA VmZombie ==
  ASSUME VmInv, NEW t \in Threads, NEW u \in Threads, curr = t, status[u] # "FREE",
         NEW st, st = [status EXCEPT ![u] = "ZOMBIE"],
         status' = st, schedule(t, st), UNCHANGED <<vma_list, pgd, kernel_sp, op>>
  PROVE  VmInv'
<1>1. /\ st \in [Threads -> {"FREE", "ACTIVE", "ZOMBIE"}]
      /\ \A v \in Threads : st[v] = "FREE" <=> status[v] = "FREE"
  BY DEF VmInv, VmTypeOK
<1>2. /\ rq' \in SUBSET Threads /\ curr' \in Threads \cup {idle}
      /\ curr' # idle => st[curr'] # "FREE" /\ curr' \notin rq'
      /\ \A v \in rq' : st[v] # "FREE"
  BY <1>1, Scheduled DEF VmInv
<1>. QED  BY <1>1, <1>2, OnlyThreads

(* They survive an access that ends its thread.                            *)
LEMMA VmSegfault ==
  ASSUME VmInv, NEW t \in Threads, NEW p \in Touched, NEW write \in BOOLEAN, Segfault(t, p, write)
  PROVE  VmInv'
<1>1. curr = t /\ status[t] # "FREE"
  BY ThreadNumbers DEF Segfault, Running, VmInv, ThreadInv
<1>. QED  BY <1>1, VmZombie DEF Segfault, thread_exit

(* They survive a kill.                                                    *)
LEMMA VmKill ==
  ASSUME VmInv, NEW t \in Threads, NEW u \in Threads, kill(t, u)
  PROVE  VmInv'
<1>1. curr = t /\ status[u] # "FREE"
  BY DEF kill, Running
<1>. QED  BY <1>1, VmZombie DEF kill

(* They survive an exit.                                                   *)
LEMMA VmExit ==
  ASSUME VmInv, NEW t \in Threads, exit(t)
  PROVE  VmInv'
<1>1. /\ status' \in [Threads -> {"FREE", "ACTIVE", "ZOMBIE"}]
      /\ \A v \in Threads : status'[v] = "FREE" <=> status[v] = "FREE"
  BY DEF exit, VmInv, VmTypeOK
<1>. QED  BY <1>1, OnlyThreads DEF exit, VmInv, VmTypeOK, ThreadInv

(* An access to memory concerns neither threads nor regions. *)
LEMMA VmAccess ==
  ASSUME VmInv, NEW t \in Threads, NEW p \in Touched, NEW write \in BOOLEAN, Access(t, p, write)
  PROVE  VmInv'
BY OnlyThreads DEF Access, VmInv, VmTypeOK, ThreadInv

(* They survive a page fault.                                              *)
LEMMA VmFault ==
  ASSUME VmInv, NEW t \in Threads, NEW p \in Touched, NEW first \in BOOLEAN, Fault(t, p, first)
  PROVE  VmInv'
BY OnlyThreads DEF Fault, VmInv, VmTypeOK, ThreadInv

-----------------------------------------------------------------------------
(* What the calls do to the regions of their caller. *)

(* What the locals of a call may be.                                       *)
LEMMA OpsAre ==
  /\ User \in Ops /\ User.pc = "user" /\ User.at = 0 /\ User.new = <<>>
  /\ \A o \in Ops :
       /\ o.pc \in {"user", "del", "tables", "areas", "mmap"} /\ o.at \in Nat
       /\ o.pc = "user" => o = User
       /\ o.pc = "del" => o.at > 0 /\ o.new = <<>>
       /\ o.pc \in {"tables", "areas"} => o.at = 0 /\ o.new \in [1 .. 3 -> Blocks]
       /\ o.pc = "mmap" => o.at = 0 /\ o.new \in [1 .. 1 -> Blocks] /\ o.ask \in Asks
<1>1. User \in Ops
  BY DEF Ops
<1>2. User.pc = "user" /\ User.at = 0 /\ User.new = <<>>
  BY DEF User
<1>3. ASSUME NEW o \in Ops
      PROVE  /\ o.pc \in {"user", "del", "tables", "areas", "mmap"} /\ o.at \in Nat
             /\ o.pc = "user" => o = User
             /\ o.pc = "del" => o.at > 0 /\ o.new = <<>>
             /\ o.pc \in {"tables", "areas"} => o.at = 0 /\ o.new \in [1 .. 3 -> Blocks]
             /\ o.pc = "mmap" => o.at = 0 /\ o.new \in [1 .. 1 -> Blocks] /\ o.ask \in Asks
  <2>1. CASE o = User
    BY <1>2, <2>1
  <2>2. CASE o \in [pc : {"del"}, at : Nat \ {0}, new : {<<>>}, ask : {<<>>}]
    BY <2>2
  <2>3. CASE o \in [pc : {"tables", "areas"}, at : {0}, new : [1 .. 3 -> Blocks], ask : {<<>>}]
    BY <2>3
  <2>4. CASE o \in [pc : {"mmap"}, at : {0}, new : [1 .. 1 -> Blocks], ask : Asks]
    BY <2>4
  <2>. QED  BY <2>1, <2>2, <2>3, <2>4 DEF Ops
<1>. QED  BY <1>1, <1>2, <1>3

(* A call goes on: its place and its program counter change.               *)
LEMMA OpMoved ==
  ASSUME NEW X, NEW A, NEW N, NEW K, NEW o \in [pc : X, at : A, new : N, ask : K],
         NEW Q, NEW pc \in Q, NEW B, NEW at \in B
  PROVE  /\ [o EXCEPT !.pc = pc, !.at = at] \in [pc : Q, at : B, new : N, ask : K]
         /\ [o EXCEPT !.pc = pc, !.at = at].pc = pc /\ [o EXCEPT !.pc = pc, !.at = at].at = at
         /\ [o EXCEPT !.pc = pc, !.at = at].new = o.new
OBVIOUS

(* A call allocates: its blocks and its program counter change.            *)
LEMMA OpCalled ==
  ASSUME NEW X, NEW A, NEW N, NEW K, NEW o \in [pc : X, at : A, new : N, ask : K],
         NEW Q, NEW pc \in Q, NEW M, NEW new \in M
  PROVE  /\ [o EXCEPT !.pc = pc, !.new = new] \in [pc : Q, at : A, new : M, ask : K]
         /\ [o EXCEPT !.pc = pc, !.new = new].pc = pc /\ [o EXCEPT !.pc = pc, !.new = new].at = o.at
         /\ [o EXCEPT !.pc = pc, !.new = new].new = new
OBVIOUS

(* A thread takes a step in a call of its own. *)
LEMMA OneThread ==
  ASSUME VmInv, UNCHANGED <<status, rq, curr, pgd, kernel_sp>>,
         NEW t \in Threads, curr = t, NEW list \in Seq(Regions), NEW o \in Ops,
         vma_list' = [vma_list EXCEPT ![t] = list], op' = [op EXCEPT ![t] = o],
         RegionsOK(status[t], o, list)
  PROVE  VmInv'
<1>0. /\ vma_list \in [Threads -> Seq(Regions)] /\ op \in [Threads -> Ops]
      /\ status[t] # "FREE"
  BY ThreadNumbers DEF VmInv, VmTypeOK, ThreadInv
<1>1. VmTypeOK'
  BY <1>0 DEF VmInv, VmTypeOK
<1>2. \A u \in Threads : u # t => vma_list'[u] = vma_list[u] /\ op'[u] = op[u]
  BY <1>0
<1>3. vma_list'[t] = list /\ op'[t] = o
  BY <1>0
<1>4. ThreadInv'
  BY <1>0, <1>2 DEF VmInv, ThreadInv
<1>5. RegionInv'
  BY <1>2, <1>3 DEF VmInv, RegionInv
<1>. QED  BY <1>1, <1>4, <1>5 DEF VmInv

(* The facts about a thread that has the CPU. *)
LEMMA OnCpu ==
  ASSUME VmInv, NEW t \in Threads, curr = t
  PROVE  /\ status[t] # "FREE" /\ vma_list[t] \in Seq(Regions) /\ op[t] \in Ops
         /\ Apart(vma_list[t]) /\ Len(vma_list[t]) \in Nat
         /\ op[t].pc \in {"tables", "areas"} => vma_list[t] = <<>>
         /\ op[t].pc \notin {"tables", "areas"} => Laid(vma_list[t])
         /\ vma_list = [vma_list EXCEPT ![t] = vma_list[t]]
<1>1. status[t] # "FREE" /\ vma_list[t] \in Seq(Regions) /\ op[t] \in Ops
      /\ vma_list = [vma_list EXCEPT ![t] = vma_list[t]]
  BY ThreadNumbers DEF VmInv, VmTypeOK, ThreadInv
<1>2. Len(vma_list[t]) \in Nat
  BY <1>1, RegionIs
<1>3. RegionsOK(status[t], op[t], vma_list[t])
  BY DEF VmInv, RegionInv
<1>. QED  BY <1>1, <1>2, <1>3 DEF RegionsOK

(* The next region that has memory, and none of those before it.           *)
LEMMA NextIs ==
  ASSUME NEW list \in Seq(Regions), NEW k \in Nat
  PROVE  /\ NextAlloced(list, k) \in Nat
         /\ k <= Len(list) + 1 => NextAlloced(list, k) \in k .. Len(list) + 1
         /\ NextAlloced(list, k) <= Len(list) => list[NextAlloced(list, k)].is_alloced
         /\ \A i \in k .. Len(list) : list[i].is_alloced => NextAlloced(list, k) <= i
<1>. DEFINE rest == {i \in k .. Len(list) : list[i].is_alloced}
<1>1. Len(list) \in Nat
  BY RegionIs
<1>2. rest \in SUBSET Nat
  BY <1>1
<1>3. CASE rest = {}
  <2>1. NextAlloced(list, k) = Len(list) + 1
    BY <1>3 DEF NextAlloced
  <2>. QED  BY <1>1, <1>3, <2>1
<1>4. CASE rest # {}
  <2>1. \E i \in rest : \A j \in rest : i <= j
    BY <1>2, <1>4, SmallestNumber
  <2>2. NextAlloced(list, k) = CHOOSE i \in rest : \A j \in rest : i <= j
    BY <1>4 DEF NextAlloced
  <2>3. NextAlloced(list, k) \in rest /\ \A j \in rest : NextAlloced(list, k) <= j
    <3>. HIDE DEF rest
    <3>. QED  BY <2>1, <2>2
  <2>. QED  BY <1>1, <2>3
<1>. QED  BY <1>3, <1>4

(* The types and regions survive the start of exec.                        *)
LEMMA VmExec ==
  ASSUME VmInv, NEW t \in Threads, exec(t)
  PROVE  VmInv'
<1>. DEFINE k == NextAlloced(vma_list[t], 1)
            o == [User EXCEPT !.pc = "del", !.at = k]
<1>1. /\ curr = t /\ op[t].pc = "user" /\ op' = [op EXCEPT ![t] = o]
      /\ UNCHANGED <<status, rq, curr, pgd, kernel_sp, vma_list>>
  BY DEF exec, Running
<1>2. k \in Nat \ {0}
  <2>1. vma_list[t] \in Seq(Regions) /\ Len(vma_list[t]) \in Nat
    BY <1>1, OnCpu
  <2>2. k \in 1 .. Len(vma_list[t]) + 1
    BY <2>1, NextIs
  <2>. QED  BY <2>1, <2>2
<1>. HIDE DEF k
<1>3. o \in Ops /\ o.pc = "del"
  <2>1. User \in [pc : {"user"}, at : {0}, new : {<<>>}, ask : {<<>>}]
    BY DEF User
  <2>2. o \in [pc : {"del"}, at : Nat \ {0}, new : {<<>>}, ask : {<<>>}] /\ o.pc = "del"
    BY <1>2, <2>1, OpMoved
  <2>. HIDE DEF o
  <2>. QED  BY <2>2 DEF Ops
<1>. HIDE DEF o
<1>4. RegionsOK(status[t], o, vma_list[t])
  BY <1>1, <1>3, OnCpu DEF RegionsOK
<1>5. vma_list' = [vma_list EXCEPT ![t] = vma_list[t]]
  BY <1>1, OnCpu
<1>. QED  BY <1>1, <1>3, <1>4, <1>5, OneThread, OnCpu

(* They survive the freeing of a region.                                   *)
LEMMA VmExecDel ==
  ASSUME VmInv, NEW t \in Threads, ExecDel(t)
  PROVE  VmInv'
<1>. DEFINE i == op[t].at
            k == NextAlloced(vma_list[t], i + 1)
            o == [op[t] EXCEPT !.at = k]
<1>1. /\ curr = t /\ op[t].pc = "del" /\ i <= Len(vma_list[t])
      /\ UNCHANGED <<status, rq, curr, pgd, kernel_sp, vma_list>>
  BY DEF ExecDel
<1>2. op' = [op EXCEPT ![t] = o]
  BY DEF ExecDel
<1>3. op[t] \in [pc : {"del"}, at : Nat \ {0}, new : {<<>>}, ask : {<<>>}]
  <2>1. op[t] \in Ops
    BY <1>1, OnCpu
  <2>. QED  BY <1>1, <2>1 DEF Ops, User
<1>4. k \in Nat \ {0}
  <2>1. vma_list[t] \in Seq(Regions) /\ Len(vma_list[t]) \in Nat /\ i \in Nat
    BY <1>1, <1>3, OnCpu
  <2>2. i + 1 \in Nat /\ i + 1 <= Len(vma_list[t]) + 1
    BY <1>1, <2>1
  <2>3. k \in i + 1 .. Len(vma_list[t]) + 1
    BY <2>1, <2>2, NextIs
  <2>. QED  BY <2>1, <2>3
<1>. HIDE DEF k
<1>5. o \in Ops /\ o.pc = "del"
  BY <1>3, <1>4 DEF Ops
<1>. HIDE DEF o
<1>6. RegionsOK(status[t], o, vma_list[t])
  BY <1>1, <1>5, OnCpu DEF RegionsOK
<1>7. vma_list' = [vma_list EXCEPT ![t] = vma_list[t]]
  BY <1>1, OnCpu
<1>. QED  BY <1>1, <1>2, <1>5, <1>6, <1>7, OneThread, OnCpu

(* The blocks a thread is given are free, and different.                   *)
LEMMA FreeForIs ==
  ASSUME NEW t \in Threads, NEW n \in Nat, n <= Cardinality(FreeFor(t))
  PROVE  /\ FreeFor(t) \in SUBSET Blocks /\ FreeFor(t) = free_blocks \cap Part(t)
         /\ \A i \in 1 .. n : Fresh(FreeFor(t), i) \in FreeFor(t) /\ Fresh(FreeFor(t), i) \in Blocks
         /\ \A i, j \in 1 .. n : i # j => Fresh(FreeFor(t), i) # Fresh(FreeFor(t), j)
<1>1. FreeFor(t) \in SUBSET Blocks
  BY DEF FreeFor, Part
<1>2. /\ \A i \in 1 .. n : Fresh(FreeFor(t), i) \in FreeFor(t) /\ Fresh(FreeFor(t), i) \in Blocks
      /\ \A i, j \in 1 .. n : i # j => Fresh(FreeFor(t), i) # Fresh(FreeFor(t), j)
  BY <1>1, FreshBlocks
<1>. QED  BY <1>1, <1>2 DEF FreeFor

(* A set that is not empty has a member to give out.                       *)
LEMMA SomeFree ==
  ASSUME NEW t \in Threads, FreeFor(t) # {}
  PROVE  1 <= Cardinality(FreeFor(t))
<1>1. IsFiniteSet(FreeFor(t))
  <2>1. FreeFor(t) \in SUBSET Blocks /\ IsFiniteSet(Blocks)
    BY PageTableAssumption, UpTo DEF FreeFor, Part, Blocks
  <2>. QED  BY <2>1, FS_Subset
<1>2. Cardinality(FreeFor(t)) \in Nat /\ Cardinality(FreeFor(t)) # 0
  BY <1>1, FS_CardinalityType, FS_EmptySet
<1>. QED  BY <1>2

(* The types and regions survive exec's allocations.                       *)
LEMMA VmExecAlloc ==
  ASSUME VmInv, NEW t \in Threads, ExecAlloc(t)
  PROVE  VmInv'
<1>. DEFINE new == [i \in 1 .. 3 |-> Fresh(FreeFor(t), i + 1)]
            o == [User EXCEPT !.pc = "tables", !.new = new]
<1>1. /\ curr = t /\ UNCHANGED <<status, rq, curr, pgd, kernel_sp>>
      /\ Cardinality(FreeFor(t)) >= 4
      /\ vma_list' = [vma_list EXCEPT ![t] = <<>>] /\ op' = [op EXCEPT ![t] = o]
  BY DEF ExecAlloc
<1>2. new \in [1 .. 3 -> Blocks]
  <2>1. \A i \in 1 .. 4 : Fresh(FreeFor(t), i) \in Blocks
    BY <1>1, FreeForIs
  <2>2. \A i \in 1 .. 3 : i + 1 \in 1 .. 4
    OBVIOUS
  <2>. QED  BY <2>1, <2>2
<1>. HIDE DEF new
<1>3. o \in Ops /\ o.pc = "tables"
  <2>1. User \in [pc : {"user"}, at : {0}, new : {<<>>}, ask : {<<>>}]
    BY DEF User
  <2>2. /\ o \in [pc : {"tables", "areas"}, at : {0}, new : [1 .. 3 -> Blocks], ask : {<<>>}]
        /\ o.pc = "tables"
    BY <1>2, <2>1, OpCalled
  <2>. HIDE DEF o
  <2>. QED  BY <2>2 DEF Ops
<1>. HIDE DEF o
<1>4. RegionsOK(status[t], o, <<>>) /\ <<>> \in Seq(Regions)
  BY <1>3 DEF RegionsOK, Apart
<1>. QED  BY <1>1, <1>3, <1>4, OneThread

(* They survive the freeing of the tables.                                 *)
LEMMA VmExecTables ==
  ASSUME VmInv, NEW t \in Threads, ExecTables(t)
  PROVE  VmInv'
<1>. DEFINE o == [op[t] EXCEPT !.pc = "areas"]
<1>1. /\ curr = t /\ op[t].pc = "tables"
      /\ UNCHANGED <<status, rq, curr, pgd, kernel_sp, vma_list>>
      /\ op' = [op EXCEPT ![t] = o]
  BY DEF ExecTables
<1>2. op[t] \in [pc : {"tables", "areas"}, at : {0}, new : [1 .. 3 -> Blocks], ask : {<<>>}]
  <2>1. op[t] \in Ops
    BY <1>1, OnCpu
  <2>. QED  BY <1>1, <2>1 DEF Ops, User
<1>3. o \in Ops /\ o.pc = "areas"
  BY <1>2 DEF Ops
<1>. HIDE DEF o
<1>4. RegionsOK(status[t], o, vma_list[t])
  <2>1. vma_list[t] = <<>>
    BY <1>1, OnCpu
  <2>. QED  BY <1>3, <2>1 DEF RegionsOK, Apart
<1>5. vma_list' = [vma_list EXCEPT ![t] = vma_list[t]]
  BY <1>1, OnCpu
<1>. QED  BY <1>1, <1>3, <1>4, <1>5, OneThread, OnCpu

(* The list that exec sets up.                                             *)
LEMMA ExecAreasList ==
  ASSUME VmInv, NEW t \in Threads, ExecAreas(t)
  PROVE  LET new == op[t].new IN
         /\ new \in [1 .. 3 -> Blocks]
         /\ vma_list' = [vma_list EXCEPT ![t] = Areas(new[1], new[2], new[3])]
         /\ AreasFrom(Areas(new[1], new[2], new[3]), new[1], new[2], new[3])
         /\ Laid(Areas(new[1], new[2], new[3])) /\ Apart(Areas(new[1], new[2], new[3]))
<1>. DEFINE new == op[t].new
            a == Areas(new[1], new[2], new[3])
<1>1. curr = t /\ op[t].pc = "areas" /\ op[t] \in Ops /\ vma_list[t] = <<>>
      /\ vma_list' = [vma_list EXCEPT ![t] = vma_list[t] \o a]
  <2>1. curr = t /\ op[t].pc = "areas" /\ vma_list' = [vma_list EXCEPT ![t] = vma_list[t] \o a]
    BY DEF ExecAreas
  <2>. QED  BY <2>1, OnCpu
<1>2. new \in [1 .. 3 -> Blocks]
  BY <1>1, OpsAre
<1>3. new[1] \in 0 .. NBLOCKS /\ new[2] \in 0 .. NBLOCKS /\ new[3] \in 0 .. NBLOCKS
  <2>1. new[1] \in Blocks /\ new[2] \in Blocks /\ new[3] \in Blocks
    BY <1>2
  <2>. HIDE DEF new
  <2>. QED  BY <2>1, Layout DEF Blocks
<1>. HIDE DEF new
<1>4. AreasFrom(a, new[1], new[2], new[3]) /\ Laid(a) /\ Apart(a)
  BY <1>3, AreasAre, AreasLaid
<1>5. a \in Seq(Regions)
  BY <1>4 DEF AreasFrom
<1>. HIDE DEF a
<1>6. vma_list[t] \o a = a
  BY <1>1, <1>5
<1>. QED  BY <1>1, <1>2, <1>4, <1>6 DEF new, a

(* The types and regions survive exec's new regions.                       *)
LEMMA VmExecAreas ==
  ASSUME VmInv, NEW t \in Threads, ExecAreas(t)
  PROVE  VmInv'
<1>1. curr = t /\ UNCHANGED <<status, rq, curr, pgd, kernel_sp>> /\ op' = [op EXCEPT ![t] = User]
  BY DEF ExecAreas
<1>2. PICK a \in Seq(Regions) : vma_list' = [vma_list EXCEPT ![t] = a] /\ Laid(a) /\ Apart(a)
  BY ExecAreasList DEF AreasFrom
<1>3. RegionsOK(status[t], User, a)
  BY <1>2, OpsAre DEF RegionsOK
<1>. QED  BY <1>1, <1>2, <1>3, OpsAre, OneThread

(* They survive the first half of mmap.                                    *)
LEMMA VmMmap ==
  ASSUME VmInv, NEW t \in Threads, NEW r \in Requests, mmap(t, r)
  PROVE  VmInv'
<1>. DEFINE va == MmapAddr(vma_list[t], r[1], r[2])
            b == Fresh(FreeFor(t), 1)
            k == [hint |-> r[1], va |-> va, len |-> r[2], rwx |-> r[3]]
            o == [pc |-> "mmap", at |-> 0, new |-> <<b>>, ask |-> k]
<1>1. /\ curr = t /\ op[t].pc = "user" /\ FreeFor(t) # {} /\ va + r[2] <= NPAGES
      /\ UNCHANGED <<status, rq, curr, pgd, kernel_sp, vma_list>>
      /\ op' = [op EXCEPT ![t] = o]
  BY DEF mmap, Running
<1>2. r[1] \in Nat /\ r[2] \in Nat \ {0} /\ r[3] \in SUBSET RWX
  BY VmAssumption DEF RWX
<1>3. FirstGap(vma_list[t], r[1], r[2], va)
  BY <1>1, <1>2, OnCpu, MmapFindsGap
<1>4. va \in Nat /\ va <= NPAGES
  <2>1. va \in Nat
    BY <1>3 DEF FirstGap
  <2>2. NPAGES \in Nat
    BY VmAssumption, Spans
  <2>. HIDE DEF va
  <2>. QED  BY <1>1, <1>2, <2>1, <2>2
<1>5. b \in Blocks
  BY <1>1, SomeFree, FreeForIs
<1>. HIDE DEF va, b
<1>6. k \in Asks /\ k.va = va /\ k.len = r[2] /\ k.hint = r[1]
  BY <1>2, <1>4 DEF Asks
<1>. HIDE DEF k
<1>7. o \in Ops /\ o.pc = "mmap" /\ o.ask = k
  <2>1. <<b>> \in [1 .. 1 -> Blocks]
    BY <1>5
  <2>. DEFINE n == <<b>>
  <2>. HIDE DEF n
  <2>. QED  BY <1>6, <2>1 DEF Ops, n
<1>. HIDE DEF o
<1>8. RegionsOK(status[t], o, vma_list[t])
  <2>1. Apart(vma_list[t]) /\ Laid(vma_list[t])
    BY <1>1, OnCpu
  <2>. QED  BY <1>3, <1>4, <1>6, <1>7, <2>1 DEF RegionsOK
<1>9. vma_list' = [vma_list EXCEPT ![t] = vma_list[t]]
  BY <1>1, OnCpu
<1>. QED  BY <1>1, <1>7, <1>8, <1>9, OneThread, OnCpu

(* The region that mmap adds. *)
NewArea(t) == Area(op[t].ask.va, op[t].ask.len, op[t].new[1], op[t].ask.rwx, TRUE)

(* The region that mmap adds lies in the first gap.                        *)
LEMMA NewAreaIs ==
  ASSUME VmInv, NEW t \in Threads, MmapAdd(t)
  PROVE  /\ NewArea(t) \in Regions /\ NewArea(t).va = op[t].ask.va
         /\ NewArea(t).size = op[t].ask.len /\ NewArea(t).pa = op[t].new[1]
         /\ NewArea(t).is_alloced /\ op[t].new \in [1 .. 1 -> Blocks]
         /\ FirstGap(vma_list[t], op[t].ask.hint, op[t].ask.len, op[t].ask.va)
         /\ op[t].ask \in Asks
<1>1. curr = t /\ op[t].pc = "mmap"
  BY DEF MmapAdd
<1>2. op[t].new \in [1 .. 1 -> Blocks] /\ op[t].ask \in Asks
  BY <1>1, OnCpu, OpsAre
<1>3. RegionsOK(status[t], op[t], vma_list[t])
  BY DEF VmInv, RegionInv
<1>4. op[t].new[1] \in 0 .. NBLOCKS + 2
  <2>1. op[t].new[1] \in Blocks
    BY <1>2
  <2>. QED  BY <2>1, Layout DEF Blocks
<1>. DEFINE k == op[t].ask
            b == op[t].new[1]
<1>. HIDE DEF k, b
<1>5. /\ k.va \in Nat /\ k.len \in Nat \ {0} /\ k.rwx \in SUBSET RWX
  BY <1>2 DEF Asks, k
<1>6. Area(k.va, k.len, b, k.rwx, TRUE) \in Regions
  BY <1>4, <1>5 DEF Regions, Area, b
<1>7. NewArea(t) = Area(k.va, k.len, b, k.rwx, TRUE)
  BY DEF NewArea, k, b
<1>. QED  BY <1>1, <1>2, <1>3, <1>6, <1>7 DEF RegionsOK, Area, k, b

(* The types and regions survive the second half of mmap.                  *)
LEMMA VmMmapAdd ==
  ASSUME VmInv, NEW t \in Threads, MmapAdd(t)
  PROVE  VmInv'
<1>. DEFINE list == vma_list[t]
            a == NewArea(t)
            q == Append(list, a)
<1>1. /\ curr = t /\ op[t].pc = "mmap" /\ UNCHANGED <<status, rq, curr, pgd, kernel_sp>>
      /\ op' = [op EXCEPT ![t] = User] /\ vma_list' = [vma_list EXCEPT ![t] = q]
  BY DEF MmapAdd, NewArea
<1>2. /\ list \in Seq(Regions) /\ a \in Regions /\ Apart(list) /\ Laid(list)
      /\ a.va \in Nat /\ a.size \in Nat \ {0}
      /\ \A i \in DOMAIN list : ~Overlap(list[i], a.va, a.size)
  <2>1. /\ list \in Seq(Regions) /\ a \in Regions /\ Apart(list) /\ Laid(list)
    BY <1>1, OnCpu, NewAreaIs
  <2>2. \A i \in DOMAIN list : ~Overlap(list[i], a.va, a.size)
    BY NewAreaIs DEF FirstGap
  <2>. QED  BY <2>1, <2>2 DEF Regions
<1>. HIDE DEF list, a
<1>3. /\ q \in Seq(Regions) /\ DOMAIN q = 1 .. Len(list) + 1 /\ Len(list) \in Nat
      /\ DOMAIN list = 1 .. Len(list)
      /\ \A i \in DOMAIN list : q[i] = list[i] /\ list[i].va \in Nat /\ list[i].size \in Nat \ {0}
      /\ q[Len(list) + 1] = a
  <2>1. /\ DOMAIN list = 1 .. Len(list) /\ Len(list) \in Nat
        /\ \A i \in DOMAIN list : list[i].va \in Nat /\ list[i].size \in Nat \ {0}
    BY <1>2, RegionIs
  <2>2. /\ q \in Seq(Regions) /\ Len(q) = Len(list) + 1
        /\ \A i \in 1 .. Len(list) : q[i] = list[i]
        /\ q[Len(list) + 1] = a
    BY <1>2, AppendProperties
  <2>. HIDE DEF q
  <2>3. DOMAIN q = 1 .. Len(q)
    BY <2>2, RegionIs
  <2>. QED  BY <2>1, <2>2, <2>3
<1>. HIDE DEF q
<1>4. \A i \in DOMAIN q : i \in DOMAIN list \/ i = Len(list) + 1
  BY <1>3
<1>5. Laid(q)
  <2>1. \A i \in DOMAIN list : i \in DOMAIN q
    BY <1>3
  <2>. QED  BY <1>2, <1>3, <2>1 DEF Laid
<1>6. Apart(q)
  <2>1. \A i \in DOMAIN list : Clear(list[i], a) /\ Clear(a, list[i])
    BY <1>2, <1>3 DEF Overlap, Clear
  <2>. QED  BY <1>2, <1>3, <1>4, <2>1 DEF Apart
<1>7. RegionsOK(status[t], User, q)
  BY <1>5, <1>6, OpsAre DEF RegionsOK
<1>. QED  BY <1>1, <1>3, <1>7, OpsAre, OneThread

-----------------------------------------------------------------------------
(* fork. *)

EmptySlots == {c \in Threads : status[c] = "FREE"}
Child == CHOOSE u \in EmptySlots : \A v \in EmptySlots : u <= v

(* The blocks for a child that copies m regions. *)
ChildBlocks(m) == [i \in 1 .. 5 + m |-> Fresh(FreeFor(Child), i)]

(* The child of t is in a free slot, and gets blocks of its own. *)
LEMMA ForkIs ==
  ASSUME VmInv, NEW t \in Threads, fork(t), NEW m, m = Len(Copied(vma_list[t])),
         NEW new, new = ChildBlocks(m), NEW c, c = Child
  PROVE  /\ curr = t /\ op[t].pc = "user" /\ c \in Threads /\ status[c] = "FREE" /\ c # t
         /\ m \in Nat /\ new \in [1 .. 5 + m -> Blocks]
         /\ \A i \in 1 .. 5 + m : new[i] \in FreeFor(c)
         /\ \A i, j \in 1 .. 5 + m : i # j => new[i] # new[j]
         /\ status' = [status EXCEPT ![c] = "ACTIVE"] /\ rq' = rq \cup {c}
         /\ kernel_sp' = [kernel_sp EXCEPT ![c] = new[2]] /\ pgd' = [pgd EXCEPT ![c] = new[5]]
         /\ vma_list' = [vma_list EXCEPT ![c] = ForkList(vma_list[t], new)]
         /\ tab' = [tab EXCEPT ![new[5]] = EmptyTable]
         /\ free_blocks' = free_blocks \ (Range(new) \ Replaced(Copied(vma_list[t]), new))
         /\ UNCHANGED <<curr, op, tlb, lost, refreed>>
<1>1. /\ curr = t /\ op[t].pc = "user" /\ EmptySlots # {}
      /\ Cardinality(FreeFor(c)) >= Len(new)
      /\ status' = [status EXCEPT ![c] = "ACTIVE"] /\ rq' = rq \cup {c}
      /\ kernel_sp' = [kernel_sp EXCEPT ![c] = new[2]] /\ pgd' = [pgd EXCEPT ![c] = new[5]]
      /\ vma_list' = [vma_list EXCEPT ![c] = ForkList(vma_list[t], new)]
      /\ tab' = [tab EXCEPT ![new[5]] = EmptyTable]
      /\ free_blocks' = free_blocks \ (Range(new) \ Replaced(Copied(vma_list[t]), new))
      /\ UNCHANGED <<curr, op, tlb, lost, refreed>>
  BY DEF fork, Running, EmptySlots, Child, ChildBlocks, ForkList
<1>2. c \in EmptySlots
  <2>1. EmptySlots \in SUBSET Nat
    BY ThreadNumbers DEF EmptySlots
  <2>2. \E u \in EmptySlots : \A v \in EmptySlots : u <= v
    BY <1>1, <2>1, SmallestNumber
  <2>. QED  BY <2>2 DEF Child
<1>3. c \in Threads /\ status[c] = "FREE"
  BY <1>2 DEF EmptySlots
<1>4. c # t
  BY <1>1, <1>3, OnCpu
<1>5. m \in Nat
  <2>1. Copied(vma_list[t]) \in Seq(Regions)
    BY <1>1, OnCpu, CopiedIs DEF CopyOf
  <2>. QED  BY <2>1, RegionIs
<1>6. 5 + m \in Nat /\ Len(new) = 5 + m
  BY <1>5 DEF ChildBlocks
<1>7. /\ \A i \in 1 .. 5 + m : Fresh(FreeFor(c), i) \in FreeFor(c) /\ Fresh(FreeFor(c), i) \in Blocks
      /\ \A i, j \in 1 .. 5 + m : i # j => Fresh(FreeFor(c), i) # Fresh(FreeFor(c), j)
  BY <1>1, <1>3, <1>6, FreeForIs
<1>8. \A i \in 1 .. 5 + m : new[i] = Fresh(FreeFor(c), i)
  BY DEF ChildBlocks
<1>9. new \in [1 .. 5 + m -> Blocks]
  BY <1>7 DEF ChildBlocks
<1>. QED  BY <1>1, <1>3, <1>4, <1>5, <1>7, <1>8, <1>9

(* They survive a fork.                                                    *)
LEMMA VmFork ==
  ASSUME VmInv, NEW t \in Threads, fork(t)
  PROVE  VmInv'
<1>0. PICK m, new, c : m = Len(Copied(vma_list[t])) /\ new = ChildBlocks(m) /\ c = Child
  OBVIOUS
<1>. DEFINE r == ForkList(vma_list[t], new)
<1>1. /\ curr = t /\ op[t].pc = "user" /\ c \in Threads /\ status[c] = "FREE" /\ c # t
      /\ m \in Nat /\ new \in [1 .. 5 + m -> Blocks]
      /\ status' = [status EXCEPT ![c] = "ACTIVE"] /\ rq' = rq \cup {c}
      /\ kernel_sp' = [kernel_sp EXCEPT ![c] = new[2]] /\ pgd' = [pgd EXCEPT ![c] = new[5]]
      /\ vma_list' = [vma_list EXCEPT ![c] = r]
      /\ curr' = curr /\ op' = op
  BY <1>0, ForkIs
<1>2. vma_list[t] \in Seq(Regions) /\ Laid(vma_list[t]) /\ Apart(vma_list[t])
  BY <1>1, OnCpu
<1>3. ForkedFrom(r, Copied(vma_list[t]), new)
  BY <1>0, <1>1, <1>2, ForkListIs
<1>4. r \in Seq(Regions) /\ Laid(r) /\ Apart(r)
  <2>1. r \in Seq(Regions)
    BY <1>3 DEF ForkedFrom
  <2>. HIDE DEF r
  <2>. QED  BY <1>2, <1>3, <2>1, ForkLaid
<1>5. new[2] \in 0 .. NBLOCKS /\ new[5] \in 0 .. NBLOCKS
  <2>1. new[2] \in Blocks /\ new[5] \in Blocks
    <3>1. 2 \in 1 .. 5 + m /\ 5 \in 1 .. 5 + m
      BY <1>1
    <3>. QED  BY <1>1, <3>1
  <2>. QED  BY <2>1, Layout DEF Blocks
<1>. HIDE DEF r
<1>6. VmTypeOK'
  BY <1>1, <1>4, <1>5 DEF VmInv, VmTypeOK
<1>7. ThreadInv'
  <2>1. status \in [Threads -> {"FREE", "ACTIVE", "ZOMBIE"}] /\ vma_list \in [Threads -> Seq(Regions)]
        /\ rq \in SUBSET Threads
    BY DEF VmInv, VmTypeOK
  <2>2. status'[c] = "ACTIVE" /\ \A u \in Threads : u # c => status'[u] = status[u] /\ vma_list'[u] = vma_list[u]
    BY <1>1, <2>1
  <2>. QED  BY <1>1, <2>1, <2>2, ThreadNumbers DEF VmInv, ThreadInv
<1>8. RegionInv'
  <2>1. /\ \A u \in Threads : u # c => status'[u] = status[u] /\ vma_list'[u] = vma_list[u]
        /\ status'[c] = "ACTIVE" /\ vma_list'[c] = r
    BY <1>1 DEF VmInv, VmTypeOK
  <2>2. op[c] = User
    BY <1>1 DEF VmInv, ThreadInv
  <2>3. RegionsOK("ACTIVE", User, r)
    BY <1>4, OpsAre DEF RegionsOK
  <2>4. \A u \in Threads : RegionsOK(status[u], op[u], vma_list[u])
    BY DEF VmInv, RegionInv
  <2>. QED  BY <1>1, <2>1, <2>2, <2>3, <2>4 DEF RegionInv
<1>. QED  BY <1>6, <1>7, <1>8 DEF VmInv

-----------------------------------------------------------------------------
(* Reaping, and the first program. *)

Dead == {t \in rq : status[t] = "ZOMBIE"}

(* What kill_zombies leaves of the dead and of the living.                 *)
LEMMA ZombiesReaped ==
  ASSUME VmInv, kill_zombies
  PROVE  /\ Dead \in SUBSET Threads /\ curr = idle /\ curr' = curr /\ rq' = rq \ Dead
         /\ \A t \in Dead : /\ status'[t] = "FREE" /\ vma_list'[t] = <<>> /\ pgd'[t] = NoBlock
                            /\ kernel_sp'[t] = NoBlock /\ op'[t] = User
         /\ \A t \in Threads \ Dead :
              /\ status'[t] = status[t] /\ vma_list'[t] = vma_list[t] /\ pgd'[t] = pgd[t]
              /\ kernel_sp'[t] = kernel_sp[t] /\ op'[t] = op[t]
BY DEF kill_zombies, Dead, VmInv, VmTypeOK

(* The types and regions survive the reaping.                              *)
LEMMA VmReap ==
  ASSUME VmInv, kill_zombies
  PROVE  VmInv'
<1>1. NoBlock \in 0 .. NBLOCKS /\ <<>> \in Seq(Regions) /\ User \in Ops
  BY Layout, OpsAre DEF NoBlock
<1>2. VmTypeOK'
  <2>1. /\ curr' = curr /\ rq' \in SUBSET Threads
        /\ status' = [t \in Threads |-> IF t \in Dead THEN "FREE" ELSE status[t]]
        /\ vma_list' = [t \in Threads |-> IF t \in Dead THEN <<>> ELSE vma_list[t]]
        /\ pgd' = [t \in Threads |-> IF t \in Dead THEN NoBlock ELSE pgd[t]]
        /\ kernel_sp' = [t \in Threads |-> IF t \in Dead THEN NoBlock ELSE kernel_sp[t]]
        /\ op' = [t \in Threads |-> IF t \in Dead THEN User ELSE op[t]]
    BY DEF kill_zombies, Dead, VmInv, VmTypeOK
  <2>. QED  BY <1>1, <2>1 DEF VmInv, VmTypeOK
<1>3. ThreadInv'
  BY ZombiesReaped DEF VmInv, VmTypeOK, ThreadInv
<1>4. RegionInv'
  <2>1. RegionsOK("FREE", User, <<>>)
    BY OpsAre DEF RegionsOK, Apart
  <2>. QED  BY <2>1, ZombiesReaped DEF VmInv, RegionInv
<1>. QED  BY <1>2, <1>3, <1>4 DEF VmInv

(* The blocks of the first program. *)
FirstBlocks == [i \in 1 .. 5 |-> Fresh(Part(1), i)]

(* The first program has five blocks of its own.                           *)
LEMMA FirstIs ==
  /\ FirstBlocks \in [1 .. 5 -> Blocks]
  /\ \A i, j \in 1 .. 5 : i # j => FirstBlocks[i] # FirstBlocks[j]
<1>1. Part(1) \in SUBSET Blocks /\ 5 <= Cardinality(Part(1))
  BY RoomAssumption DEF Part
<1>2. /\ \A i \in 1 .. 5 : Fresh(Part(1), i) \in Blocks
      /\ \A i, j \in 1 .. 5 : i # j => Fresh(Part(1), i) # Fresh(Part(1), j)
  BY <1>1, FreshBlocks
<1>. QED  BY <1>2 DEF FirstBlocks

(* The first state, field by field.                                        *)
LEMMA VmInitIs ==
  ASSUME VmInit
  PROVE  LET new == FirstBlocks IN
         /\ status = [t \in Threads |-> IF t = 1 THEN "ACTIVE" ELSE "FREE"]
         /\ rq = {} /\ curr = 1
         /\ kernel_sp = [t \in Threads |-> IF t = 1 THEN new[2] ELSE NoBlock]
         /\ pgd = [t \in Threads |-> IF t = 1 THEN new[5] ELSE NoBlock]
         /\ vma_list = [t \in Threads |-> IF t = 1 THEN Areas(new[4], new[1], new[3]) ELSE <<>>]
         /\ op = [t \in Threads |-> User]
         /\ tab = [b \in Blocks |-> EmptyTable]
         /\ tlb = [p \in Pages |-> NoEntry]
         /\ free_blocks = Blocks \ Range(new)
         /\ lost = {} /\ refreed = {}
BY DEF VmInit, FirstBlocks

(* The types and regions hold at the start.                                *)
LEMMA VmStarts ==
  ASSUME VmInit
  PROVE  VmInv
<1>. DEFINE new == FirstBlocks
            a == Areas(new[4], new[1], new[3])
<1>1. /\ \A i \in 1 .. 5 : new[i] \in 0 .. NBLOCKS
      /\ NoBlock \in 0 .. NBLOCKS
  <2>1. Blocks \subseteq 0 .. NBLOCKS /\ NoBlock \in 0 .. NBLOCKS
    BY Layout DEF Blocks, NoBlock
  <2>. QED  BY <2>1, FirstIs
<1>. HIDE DEF new
<1>2. a \in Seq(Regions) /\ Laid(a) /\ Apart(a)
  <2>1. new[4] \in 0 .. NBLOCKS /\ new[1] \in 0 .. NBLOCKS /\ new[3] \in 0 .. NBLOCKS
    BY <1>1
  <2>2. AreasFrom(a, new[4], new[1], new[3]) /\ Laid(a) /\ Apart(a)
    BY <2>1, AreasAre, AreasLaid
  <2>. HIDE DEF a
  <2>. QED  BY <2>2 DEF AreasFrom
<1>3. /\ status = [t \in Threads |-> IF t = 1 THEN "ACTIVE" ELSE "FREE"]
      /\ rq = {} /\ curr = 1
      /\ kernel_sp = [t \in Threads |-> IF t = 1 THEN new[2] ELSE NoBlock]
      /\ pgd = [t \in Threads |-> IF t = 1 THEN new[5] ELSE NoBlock]
      /\ vma_list = [t \in Threads |-> IF t = 1 THEN a ELSE <<>>]
      /\ op = [t \in Threads |-> User]
  BY VmInitIs DEF new
<1>. HIDE DEF a
<1>4. VmTypeOK
  BY <1>1, <1>2, <1>3, ThreadNumbers, OpsAre DEF VmTypeOK
<1>5. ThreadInv
  BY <1>3, ThreadNumbers DEF ThreadInv
<1>6. RegionInv
  <2>1. RegionsOK("FREE", User, <<>>) /\ RegionsOK("ACTIVE", User, a)
    BY <1>2, OpsAre DEF RegionsOK, Apart
  <2>. QED  BY <1>3, <2>1 DEF RegionInv
<1>. QED  BY <1>4, <1>5, <1>6 DEF VmInv

(* Every step keeps them.                                                  *)
LEMMA VmStep ==
  ASSUME VmInv, [VmNext]_vm_vars
  PROVE  VmInv'
<1>1. CASE UNCHANGED vm_vars
  BY <1>1 DEF vm_vars, VmInv, VmTypeOK, ThreadInv, RegionInv
<1>2. CASE VmNext
  BY <1>2, VmTick, VmReap, VmAccess, VmSegfault, VmFault, VmFork, VmExec, VmExecDel, VmExecAlloc,
     VmExecTables, VmExecAreas, VmMmap, VmMmapAdd, VmExit, VmKill DEF VmNext
<1>. QED  BY <1>1, <1>2

(* The types and regions of every reachable state.                         *)
LEMMA VmInvHolds == VmSpec => []VmInv
<1>1. VmInit => VmInv
  BY VmStarts
<1>2. VmInv /\ [VmNext]_vm_vars => VmInv'
  BY VmStep
<1>. QED  BY <1>1, <1>2, PTL DEF VmSpec

(* mmap finds the lowest address from its hint on where the request fits,  *)
(* whatever the regions, and so regions never overlap: the recursion of    *)
(* mmap over the list (syscall.c) skips no gap and ends behind the last    *)
(* region it meets.                                                        *)
THEOREM GapsAreFound == VmSpec => []MmapFirstFit
<1>1. VmInv => MmapFirstFit
  <2>. SUFFICES ASSUME VmInv, NEW t \in Live
                PROVE  /\ \A i, j \in DOMAIN vma_list[t] : i # j =>
                            ~Overlap(vma_list[t][i], vma_list[t][j].va, vma_list[t][j].size)
                       /\ op[t].pc = "mmap" =>
                            LET ask  == op[t].ask
                                fits == {x \in ask.hint .. NPAGES : \A i \in DOMAIN vma_list[t] :
                                           {p \in x .. x + ask.len - 1 : Inside(vma_list[t][i], p)} = {}}
                            IN  ask.va \in fits /\ \A x \in fits : ask.va <= x
    BY DEF MmapFirstFit
  <2>. DEFINE list == vma_list[t]
              ask == op[t].ask
              fits == {x \in ask.hint .. NPAGES : \A i \in DOMAIN list :
                         {p \in x .. x + ask.len - 1 : Inside(list[i], p)} = {}}
  <2>1. t \in Threads /\ list \in Seq(Regions) /\ op[t] \in Ops
        /\ RegionsOK(status[t], op[t], list)
    BY DEF VmInv, VmTypeOK, RegionInv, Live
  <2>2. \A i \in DOMAIN list : list[i].va \in Nat /\ list[i].size \in Nat \ {0}
    BY <2>1, RegionIs
  <2>3. \A i, j \in DOMAIN list : i # j => ~Overlap(list[i], list[j].va, list[j].size)
    BY <2>1, <2>2 DEF RegionsOK, Apart, Clear, Overlap
  <2>4. ASSUME op[t].pc = "mmap"
        PROVE  ask.va \in fits /\ \A x \in fits : ask.va <= x
    <3>1. /\ ask \in Asks /\ ask.va <= NPAGES /\ FirstGap(list, ask.hint, ask.len, ask.va)
      BY <2>1, <2>4, OpsAre DEF RegionsOK
    <3>2. ask.hint \in Nat /\ ask.len \in Nat \ {0} /\ ask.va \in Nat /\ NPAGES \in Nat
      BY <3>1, VmAssumption, Spans DEF Asks
    <3>. HIDE DEF list, ask
    <3>3. ASSUME NEW i \in DOMAIN list, NEW x \in Nat
          PROVE  Overlap(list[i], x, ask.len)
                   <=> \E p \in x .. x + ask.len - 1 : Inside(list[i], p)
      <4>. DEFINE a == list[i].va
                  n == list[i].size
                  len == ask.len
      <4>1. a \in Nat /\ n \in Nat \ {0} /\ len \in Nat \ {0}
        BY <2>2, <3>2
      <4>2. Overlap(list[i], x, ask.len) <=> ~(a >= x + len \/ a + n <= x)
        BY DEF Overlap
      <4>3. \A p : Inside(list[i], p) <=> a <= p /\ p < a + n
        BY DEF Inside
      <4>. HIDE DEF a, n, len
      <4>4. ASSUME ~(a >= x + len \/ a + n <= x)
            PROVE  \E p \in x .. x + len - 1 : a <= p /\ p < a + n
        <5>1. CASE a <= x
          BY <4>1, <4>4, <5>1
        <5>2. CASE x < a
          BY <4>1, <4>4, <5>2
        <5>. QED  BY <4>1, <5>1, <5>2
      <4>5. ASSUME NEW p \in x .. x + len - 1, a <= p, p < a + n
            PROVE  ~(a >= x + len \/ a + n <= x)
        BY <4>1, <4>5
      <4>. QED  BY <4>2, <4>3, <4>4, <4>5 DEF len
    <3>4. \A x \in ask.hint .. NPAGES : x \in Nat
      BY <3>2
    <3>5. ask.va \in fits
      BY <3>1, <3>2, <3>3 DEF FirstGap
    <3>6. ASSUME NEW x \in fits
          PROVE  ask.va <= x
      <4>1. x \in ask.hint .. NPAGES /\ x \in Nat /\ \A i \in DOMAIN list : ~Overlap(list[i], x, ask.len)
        BY <3>3, <3>4
      <4>2. x \notin ask.hint .. ask.va - 1
        BY <3>1, <4>1 DEF FirstGap
      <4>. QED  BY <3>2, <4>1, <4>2
    <3>. QED  BY <3>5, <3>6
  <2>. QED  BY <2>3, <2>4
<1>. QED  BY <1>1, VmInvHolds, PTL
-----------------------------------------------------------------------------
(* Trees of tables. *)

(* Blocks have numbers, none of them that of no block.                     *)
LEMMA BlockNumbers ==
  /\ NBLOCKS \in Nat /\ NoBlock = 0 /\ NoBlock \notin Blocks
  /\ \A b \in Blocks : b \in Nat /\ b # NoBlock /\ b \in 0 .. NBLOCKS + 2
  /\ Blocks \in SUBSET Nat /\ IsFiniteSet(Blocks)
  /\ NoEntry \in Entry /\ NoEntry.to = NoBlock /\ EmptyTable \in TableTypes
  /\ \A b \in Blocks : ToTable(b) \in Entry /\ ToTable(b).to = b
  /\ \A i \in 0 .. FAN - 1 : EmptyTable[i] = NoEntry
<1>1. NBLOCKS \in Nat /\ IsFiniteSet(Blocks)
  BY PageTableAssumption, UpTo DEF Blocks
<1>2. /\ NoBlock = 0 /\ NoBlock \notin Blocks /\ Blocks \in SUBSET Nat
      /\ \A b \in Blocks : b \in Nat /\ b # NoBlock /\ b \in 0 .. NBLOCKS + 2
  BY <1>1 DEF Blocks, NoBlock
<1>3. NoEntry \in Entry /\ NoEntry.to = NoBlock
  BY <1>1 DEF NoEntry, Entry, NoBlock
<1>4. \A b \in Blocks : ToTable(b) \in Entry /\ ToTable(b).to = b
  BY <1>2 DEF ToTable, Entry
<1>5. EmptyTable \in TableTypes /\ \A i \in 0 .. FAN - 1 : EmptyTable[i] = NoEntry
  BY <1>3 DEF EmptyTable, TableTypes
<1>. QED  BY <1>1, <1>2, <1>3, <1>4, <1>5

(* The tables on the way to page p. *)
Way(at, tb, root, p) ==
  /\ at[0] = root
  /\ \A l \in 1 .. LEVELS - 1 :
       at[l] = IF at[l - 1] = NoBlock THEN NoBlock ELSE tb[at[l - 1]][Index(p, l - 1)].to

(* They are tables of one thread, one of each level. *)
LEMMA PathIs ==
  ASSUME NEW tb, NEW role, Tree(tb, role), NEW t, NEW root \in Blocks,
         role[root] = Role("table", t, 0), NEW p \in Nat
  PROVE  /\ Way(Path(tb, root, p), tb, root, p)
         /\ \A l \in 0 .. LEVELS - 1 : \/ Path(tb, root, p)[l] = NoBlock
                                       \/ /\ Path(tb, root, p)[l] \in Blocks
                                          /\ role[Path(tb, root, p)[l]] = Role("table", t, l)
<1>. DEFINE N == LEVELS - 1
            S == Blocks \cup {NoBlock}
            step(l, x) == IF x = NoBlock THEN NoBlock ELSE tb[x][Index(p, l - 1)].to
            F == [l \in 1 .. N |-> [x \in S |-> step(l, x)]]
            TablesAt(l) == {NoBlock} \cup {b \in Blocks : role[b] = Role("table", t, l)}
            In == [l \in 0 .. N |-> TablesAt(l)]
            at[l \in 0 .. N] ==
              IF l = 0 THEN root
              ELSE LET up == at[l - 1] IN
                   IF up = NoBlock THEN NoBlock ELSE tb[up][Index(p, l - 1)].to
<1>0. N \in Nat /\ root \in In[0] /\ In \in [0 .. N -> SUBSET S]
      /\ \A l \in 1 .. N : l \in 0 .. N /\ l - 1 \in 0 .. N /\ l - 1 < LEVELS - 1 /\ (l - 1) + 1 = l
  BY Spans
<1>1. ASSUME NEW l \in 1 .. N, NEW x \in In[l - 1]
      PROVE  F[l][x] \in In[l]
  <2>1. x \in S /\ In[l - 1] = TablesAt(l - 1) /\ In[l] = TablesAt(l) /\ F[l][x] = step(l, x)
    BY <1>0, <1>1
  <2>2. CASE x = NoBlock
    BY <2>1, <2>2
  <2>3. CASE x # NoBlock
    <3>1. x \in Blocks /\ role[x] = Role("table", t, l - 1)
      BY <2>1, <2>3
    <3>2. Index(p, l - 1) \in 0 .. FAN - 1
      BY <1>0, IndexIs
    <3>3. Upper(role, x) /\ role[x].of = t /\ role[x].at = l - 1
      BY <1>0, <3>1 DEF Upper, Role
    <3>. DEFINE y == tb[x][Index(p, l - 1)].to
    <3>4. y = NoBlock \/ (y \in Blocks /\ role[y] = Role("table", t, (l - 1) + 1))
      BY <3>1, <3>2, <3>3 DEF Tree, Children
    <3>5. step(l, x) = y
      BY <2>3
    <3>6. y \in TablesAt(l)
      BY <1>0, <3>4
    <3>. HIDE DEF TablesAt, step, y
    <3>. QED  BY <2>1, <3>5, <3>6
  <2>. QED  BY <2>2, <2>3
<1>2. PICK g \in [0 .. N -> S] : Walks(g, F, root, N) /\ \A l \in 0 .. N : g[l] \in In[l]
  <2>. HIDE DEF N, S, F, In
  <2>. QED  BY <1>0, <1>1, WalkedWithin
<1>3. g = [l \in 0 .. N |-> IF l = 0 THEN root
             ELSE LET up == g[l - 1] IN IF up = NoBlock THEN NoBlock ELSE tb[up][Index(p, l - 1)].to]
  <2>1. ASSUME NEW l \in 0 .. N
        PROVE  g[l] = IF l = 0 THEN root
             ELSE LET up == g[l - 1] IN IF up = NoBlock THEN NoBlock ELSE tb[up][Index(p, l - 1)].to
    <3>1. g[l] = IF l = 0 THEN root ELSE F[l][g[l - 1]]
      BY <1>2, Zenon DEF Walks
    <3>2. l # 0 => l \in 1 .. N /\ g[l - 1] \in S
      BY <1>0
    <3>3. l # 0 => F[l][g[l - 1]] = step(l, g[l - 1])
      BY <3>2
    <3>. HIDE DEF F
    <3>. QED  BY <3>1, <3>3, Zenon
  <2>2. g = [l \in 0 .. N |-> g[l]]
    <3>. HIDE DEF N, S
    <3>. QED  OBVIOUS
  <2>. QED  BY <2>1, <2>2
<1>4. at = [l \in 0 .. N |-> IF l = 0 THEN root
             ELSE LET up == at[l - 1] IN IF up = NoBlock THEN NoBlock ELSE tb[up][Index(p, l - 1)].to]
  BY <1>3, Zenon
<1>5. Path(tb, root, p) = at
  BY DEF Path
<1>. HIDE DEF at
<1>6. /\ at[0] = root
      /\ \A l \in 1 .. N : at[l] = IF at[l - 1] = NoBlock THEN NoBlock ELSE tb[at[l - 1]][Index(p, l - 1)].to
  <2>1. 0 \in 0 .. N /\ \A l \in 1 .. N : l \in 0 .. N /\ l # 0
    BY <1>0
  <2>. HIDE DEF N
  <2>. QED  BY <1>4, <2>1
<1>7. at = g
  <2>. DEFINE K == {l \in Nat : l <= N => at[l] = g[l]}
  <2>1. 0 \in K /\ K \in SUBSET Nat
    BY <1>3, <1>6
  <2>2. ASSUME NEW l \in 1 .. N, l - 1 \in K
        PROVE  l \in K
    <3>1. at[l - 1] = g[l - 1] /\ l \in Nat
      <4>1. l \in Nat /\ l - 1 <= N
        BY <1>0
      <4>. HIDE DEF N
      <4>. QED  BY <2>2, <4>1
    <3>2. g[l] = IF g[l - 1] = NoBlock THEN NoBlock ELSE tb[g[l - 1]][Index(p, l - 1)].to
      BY <1>0, <1>3
    <3>3. at[l] = g[l]
      BY <1>6, <3>1, <3>2
    <3>. QED  BY <3>1, <3>3
  <2>3. \A l \in 0 .. N : l \in K
    <3>. HIDE DEF K, N
    <3>. QED  BY <1>0, <2>1, <2>2, HandedOn
  <2>4. \A l \in 0 .. N : at[l] = g[l]
    BY <1>0, <2>3
  <2>. HIDE DEF K
  <2>5. at = [l \in 0 .. N |-> at[l]] /\ g = [l \in 0 .. N |-> g[l]]
    BY <1>4
  <2>. HIDE DEF N
  <2>. QED  BY <2>4, <2>5
<1>8. Way(at, tb, root, p)
  BY <1>6 DEF Way
<1>9. ASSUME NEW l \in 0 .. LEVELS - 1
      PROVE  at[l] = NoBlock \/ (at[l] \in Blocks /\ role[at[l]] = Role("table", t, l))
  BY <1>2, <1>7
<1>. QED  BY <1>5, <1>8, <1>9

(* A way that has ended stays ended. *)
LEMMA PathEnds ==
  ASSUME NEW tb, NEW role, Tree(tb, role), NEW t, NEW root \in Blocks,
         role[root] = Role("table", t, 0), NEW p \in Nat, NEW l \in 1 .. LEVELS - 1,
         Path(tb, root, p)[l] # NoBlock
  PROVE  /\ Path(tb, root, p)[l - 1] \in Blocks /\ Upper(role, Path(tb, root, p)[l - 1])
         /\ role[Path(tb, root, p)[l - 1]] = Role("table", t, l - 1)
         /\ Index(p, l - 1) \in 0 .. FAN - 1
         /\ Path(tb, root, p)[l] = tb[Path(tb, root, p)[l - 1]][Index(p, l - 1)].to
<1>. DEFINE x == Path(tb, root, p)[l - 1]
<1>1. l - 1 \in 0 .. LEVELS - 1 /\ l - 1 < LEVELS - 1
  BY Spans
<1>2. Path(tb, root, p)[l] = IF x = NoBlock THEN NoBlock ELSE tb[x][Index(p, l - 1)].to
  BY PathIs DEF Way
<1>3. x = NoBlock \/ (x \in Blocks /\ role[x] = Role("table", t, l - 1))
  BY <1>1, PathIs
<1>4. Index(p, l - 1) \in 0 .. FAN - 1
  BY <1>1, IndexIs
<1>. HIDE DEF x
<1>5. x \in Blocks /\ role[x] = Role("table", t, l - 1)
  BY <1>2, <1>3
<1>6. Upper(role, x)
  BY <1>1, <1>5 DEF Upper, Role
<1>. QED  BY <1>2, <1>4, <1>5, <1>6, BlockNumbers DEF x

(* A table hangs in one entry of one table.                                *)
LEMMA OneParent ==
  ASSUME NEW tb, NEW role, Tree(tb, role), NEW b \in Blocks, NEW i \in 0 .. FAN - 1, Upper(role, b),
         NEW c \in Blocks, NEW j \in 0 .. FAN - 1, Upper(role, c),
         tb[b][i].to # NoBlock, tb[b][i].to = tb[c][j].to
  PROVE  b = c /\ i = j
BY DEF Tree, OnlyParents

(* Different pages have different entries. *)
LEMMA OwnEntry ==
  ASSUME NEW tb, NEW role, Tree(tb, role),
         NEW t, NEW root \in Blocks, role[root] = Role("table", t, 0), NEW p \in 0 .. NPAGES - 1,
         NEW u, NEW top \in Blocks, role[top] = Role("table", u, 0), NEW q \in 0 .. NPAGES - 1,
         Path(tb, root, p)[LEVELS - 1] # NoBlock,
         Path(tb, root, p)[LEVELS - 1] = Path(tb, top, q)[LEVELS - 1],
         Index(p, LEVELS - 1) = Index(q, LEVELS - 1)
  PROVE  root = top /\ p = q
<1>. DEFINE N == LEVELS - 1
            f == Path(tb, root, p)
            g == Path(tb, top, q)
            Same(l) == f[l] # NoBlock /\ f[l] = g[l] /\ Index(p, l) = Index(q, l)
            In == {n \in Nat : n <= N => Same(N - n)}
<1>0. p \in Nat /\ q \in Nat /\ N \in Nat
  BY Spans
<1>1. 0 \in In
  <2>1. N - 0 = N
    BY <1>0
  <2>2. Same(N)
    OBVIOUS
  <2>. HIDE DEF Same
  <2>. QED  BY <2>1, <2>2
<1>2. ASSUME NEW n \in 1 .. N, n - 1 \in In
      PROVE  n \in In
  <2>. DEFINE l == N - (n - 1)
  <2>1. l \in 1 .. LEVELS - 1 /\ l - 1 = N - n /\ n \in Nat /\ n - 1 <= N
    BY <1>0
  <2>2. Same(l) /\ f[l] # NoBlock /\ g[l] # NoBlock
    BY <1>2, <2>1
  <2>. HIDE DEF l, Same, In
  <2>3. /\ f[l - 1] \in Blocks /\ Upper(role, f[l - 1]) /\ Index(p, l - 1) \in 0 .. FAN - 1
        /\ f[l] = tb[f[l - 1]][Index(p, l - 1)].to
    <3>1. l \in 1 .. LEVELS - 1 /\ Path(tb, root, p)[l] # NoBlock /\ p \in Nat
      BY <1>0, <2>1, <2>2
    <3>. QED  BY <3>1, PathEnds
  <2>4. /\ g[l - 1] \in Blocks /\ Upper(role, g[l - 1]) /\ Index(q, l - 1) \in 0 .. FAN - 1
        /\ g[l] = tb[g[l - 1]][Index(q, l - 1)].to
    BY <1>0, <2>1, <2>2, PathEnds
  <2>. HIDE DEF f, g
  <2>5. f[l - 1] = g[l - 1] /\ Index(p, l - 1) = Index(q, l - 1)
    <3>1. f[l] # NoBlock /\ f[l] = g[l]
      BY <2>2 DEF Same
    <3>. DEFINE x == f[l - 1]
                y == g[l - 1]
                i == Index(p, l - 1)
                j == Index(q, l - 1)
    <3>2. /\ x \in Blocks /\ Upper(role, x) /\ i \in 0 .. FAN - 1 /\ f[l] = tb[x][i].to
          /\ y \in Blocks /\ Upper(role, y) /\ j \in 0 .. FAN - 1 /\ g[l] = tb[y][j].to
      BY <2>3, <2>4
    <3>. HIDE DEF x, y, i, j
    <3>3. x = y /\ i = j
      BY <3>1, <3>2, OneParent
    <3>. QED  BY <3>3 DEF x, y, i, j
  <2>6. Same(l - 1)
    BY <2>3, <2>5, BlockNumbers DEF Same
  <2>. QED  BY <2>1, <2>6 DEF In
<1>3. \A n \in 0 .. N : Same(N - n)
  <2>1. \A n \in 0 .. N : n \in In
    <3>. In \in SUBSET Nat
      OBVIOUS
    <3>. HIDE DEF In, N
    <3>. QED  BY <1>0, <1>1, <1>2, HandedOn
  <2>. HIDE DEF Same
  <2>. QED  BY <1>0, <2>1
<1>4. ASSUME NEW l \in 0 .. LEVELS - 1
      PROVE  Same(l)
  <2>1. N - l \in 0 .. N /\ N - (N - l) = l
    BY <1>0
  <2>. HIDE DEF Same, N
  <2>. QED  BY <1>3, <2>1
<1>5. f[0] = root /\ g[0] = top
  BY <1>0, PathIs DEF Way
<1>6. 0 \in 0 .. LEVELS - 1
  BY Spans
<1>7. p = q
  BY <1>4, SamePage
<1>. QED  BY <1>4, <1>5, <1>6, <1>7

(* What a thread's tables translate depends on them alone. *)
LEMMA WalkSame ==
  ASSUME NEW tb, NEW role, Tree(tb, role), NEW tc, NEW rl, Tree(tc, rl),
         NEW t, NEW root \in Blocks, role[root] = Role("table", t, 0),
         rl[root] = Role("table", t, 0),
         \A b \in Blocks : role[b].kind = "table" /\ role[b].of = t => tc[b] = tb[b],
         NEW p \in Nat
  PROVE  Walk(tc, root, p) = Walk(tb, root, p)
<1>. DEFINE N == LEVELS - 1
            f == Path(tb, root, p)
            g == Path(tc, root, p)
            In == {l \in Nat : l <= N => f[l] = g[l]}
<1>0. N \in Nat
  BY Spans
<1>1. Way(f, tb, root, p) /\ Way(g, tc, root, p)
  BY PathIs
<1>2. ASSUME NEW l \in 0 .. N, f[l] # NoBlock
      PROVE  tc[f[l]] = tb[f[l]]
  <2>1. f[l] \in Blocks /\ role[f[l]] = Role("table", t, l)
    BY <1>2, PathIs
  <2>. HIDE DEF f
  <2>. QED  BY <2>1 DEF Role
<1>. HIDE DEF f, g
<1>3. 0 \in In
  BY <1>1 DEF Way
<1>4. ASSUME NEW l \in 1 .. N, l - 1 \in In
      PROVE  l \in In
  <2>1. f[l - 1] = g[l - 1] /\ l - 1 \in 0 .. N /\ l \in Nat
    BY <1>0, <1>4
  <2>2. f[l] = g[l]
    BY <1>1, <1>2, <2>1 DEF Way
  <2>. QED  BY <2>1, <2>2
<1>5. N \in In
  <2>1. In \in SUBSET Nat /\ N \in 0 .. N
    BY <1>0
  <2>. HIDE DEF In, N
  <2>. QED  BY <1>0, <1>3, <1>4, <2>1, HandedOn
<1>6. f[N] = g[N] /\ N \in 0 .. N
  BY <1>0, <1>5
<1>7. /\ Walk(tb, root, p) = IF f[N] = NoBlock THEN NoEntry ELSE tb[f[N]][Index(p, N)]
      /\ Walk(tc, root, p) = IF g[N] = NoBlock THEN NoEntry ELSE tc[g[N]][Index(p, N)]
  BY DEF Walk, f, g
<1>. QED  BY <1>2, <1>6, <1>7

(* Empty tables translate nothing. *)
LEMMA WalkEmpty ==
  ASSUME NEW tb, NEW role, Tree(tb, role), NEW t, NEW root \in Blocks,
         role[root] = Role("table", t, 0), tb[root] = EmptyTable, NEW p \in Nat
  PROVE  Walk(tb, root, p) = NoEntry
<1>. DEFINE N == LEVELS - 1
            f == Path(tb, root, p)
            In == {l \in Nat : l + 1 <= N => f[l + 1] = NoBlock}
<1>0. N \in Nat /\ N >= 1 /\ 1 \in 1 .. N
  BY Spans
<1>1. f[0] = root /\ \A l \in 1 .. N : f[l] = IF f[l - 1] = NoBlock THEN NoBlock ELSE tb[f[l - 1]][Index(p, l - 1)].to
  BY PathIs DEF Way
<1>. HIDE DEF f
<1>2. f[1] = NoBlock
  <2>1. f[1] = tb[root][Index(p, 0)].to
    BY <1>0, <1>1, BlockNumbers
  <2>2. Index(p, 0) \in 0 .. FAN - 1
    BY <1>0, IndexIs
  <2>. QED  BY <2>1, <2>2, BlockNumbers
<1>3. f[N] = NoBlock
  <2>1. 0 \in In
    BY <1>2
  <2>2. ASSUME NEW l \in 1 .. N - 1, l - 1 \in In
        PROVE  l \in In
    <3>1. l \in Nat /\ (l - 1) + 1 = l /\ l <= N /\ l + 1 \in 1 .. N /\ (l + 1) - 1 = l
      BY <1>0
    <3>2. f[l] = NoBlock
      BY <2>2, <3>1
    <3>3. f[l + 1] = NoBlock
      BY <1>1, <3>1, <3>2
    <3>. QED  BY <3>1, <3>3
  <2>3. N - 1 \in In
    <3>1. In \in SUBSET Nat /\ N - 1 \in Nat /\ N - 1 \in 0 .. N - 1
      BY <1>0
    <3>. DEFINE M == N - 1
    <3>. HIDE DEF In, M
    <3>2. \A n \in 0 .. M : n \in In
      BY <2>1, <2>2, <3>1, HandedOn DEF M
    <3>. QED  BY <3>1, <3>2 DEF M
  <2>4. (N - 1) + 1 = N
    BY <1>0
  <2>. QED  BY <1>0, <2>3, <2>4
<1>4. Walk(tb, root, p) = IF f[N] = NoBlock THEN NoEntry ELSE tb[f[N]][Index(p, N)]
  BY DEF Walk, f
<1>. QED  BY <1>3, <1>4

-----------------------------------------------------------------------------
(* How the tables grow. *)

(* tc is tb with a new table b below the i-th entry of x. *)
Linked(tc, tb, x, i, b) ==
  /\ tc \in [Blocks -> TableTypes] /\ tc[b] = EmptyTable /\ tc[x][i].to = b
  /\ \A j \in 0 .. FAN - 1 : j # i => tc[x][j] = tb[x][j]
  /\ \A c \in Blocks : c # x /\ c # b => tc[c] = tb[c]

(* Storing a cleared table in an entry links it there.                     *)
LEMMA LinkedIs ==
  ASSUME NEW tb \in [Blocks -> TableTypes], NEW x \in Blocks, NEW b \in Blocks, x # b,
         NEW i \in 0 .. FAN - 1
  PROVE  Linked([tb EXCEPT ![x][i] = ToTable(b), ![b] = EmptyTable], tb, x, i, b)
<1>. DEFINE e == ToTable(b)
            n == [tb[x] EXCEPT ![i] = e]
            tc == [tb EXCEPT ![x][i] = e, ![b] = EmptyTable]
<1>1. e \in Entry /\ e.to = b /\ EmptyTable \in TableTypes
  BY BlockNumbers
<1>. HIDE DEF e
<1>2. tb[x] \in TableTypes
  OBVIOUS
<1>3. n \in TableTypes /\ n[i] = e /\ \A j \in 0 .. FAN - 1 : j # i => n[j] = tb[x][j]
  BY <1>1, <1>2 DEF TableTypes
<1>. HIDE DEF n
<1>4. tc = [c \in Blocks |-> IF c = b THEN EmptyTable ELSE IF c = x THEN n ELSE tb[c]]
  BY DEF n
<1>. HIDE DEF tc
<1>5. tc \in [Blocks -> TableTypes]
  BY <1>1, <1>3, <1>4
<1>6. tc[b] = EmptyTable /\ tc[x] = n /\ \A c \in Blocks : c # x /\ c # b => tc[c] = tb[c]
  BY <1>4
<1>7. Linked(tc, tb, x, i, b)
  BY <1>1, <1>3, <1>5, <1>6 DEF Linked
<1>. QED  BY <1>7 DEF tc, e

(* Linking a free block where nothing hung keeps the tables a tree.        *)
LEMMA TreeLinked ==
  ASSUME NEW tb, NEW role, Tree(tb, role), NEW x \in Blocks, Upper(role, x), NEW b \in Blocks,
         role[b].kind = "free", NEW i \in 0 .. FAN - 1, tb[x][i].to = NoBlock,
         NEW tc, Linked(tc, tb, x, i, b),
         NEW rl, rl = [role EXCEPT ![b] = Role("table", role[x].of, role[x].at + 1)]
  PROVE  Tree(tc, rl)
<1>1. /\ role \in [Blocks -> Roles] /\ tb \in [Blocks -> TableTypes] /\ tc \in [Blocks -> TableTypes]
      /\ x # b /\ role[x].at < LEVELS - 1 /\ role[x].kind = "table"
  BY DEF Tree, TreeTyped, Linked, Upper
<1>2. role[x].at \in Nat /\ role[x].of \in Nat
  BY <1>1 DEF Roles
<1>3. /\ Role("table", role[x].of, role[x].at + 1) \in Roles
      /\ Role("table", role[x].of, role[x].at + 1).kind = "table"
      /\ Role("table", role[x].of, role[x].at + 1).at = role[x].at + 1
  BY <1>2 DEF Roles, Role
<1>4. /\ rl \in [Blocks -> Roles] /\ \A c \in Blocks : c # b => rl[c] = role[c]
      /\ rl[b] = Role("table", role[x].of, role[x].at + 1)
  BY <1>1, <1>3
<1>5. \A c \in Blocks : rl[c].kind = "table" => rl[c].at <= LEVELS - 1
  <2>1. role[x].at + 1 <= LEVELS - 1
    BY <1>1, <1>2, Spans
  <2>. QED  BY <1>3, <1>4, <2>1 DEF Tree, TreeTyped
<1>6. \A c \in Blocks : c # b => (Upper(rl, c) <=> Upper(role, c))
  BY <1>4 DEF Upper
<1>7. /\ \A j \in 0 .. FAN - 1 : tc[b][j].to = NoBlock
      /\ tc[x][i].to = b /\ \A j \in 0 .. FAN - 1 : j # i => tc[x][j] = tb[x][j]
      /\ \A c \in Blocks : c # x /\ c # b => tc[c] = tb[c]
  BY BlockNumbers DEF Linked
<1>8. ASSUME NEW c \in Blocks, NEW j \in 0 .. FAN - 1, Upper(rl, c), tc[c][j].to # NoBlock
      PROVE  /\ c # b /\ Upper(role, c)
             /\ \/ c = x /\ j = i /\ tc[c][j].to = b
                \/ /\ ~(c = x /\ j = i) /\ tc[c][j].to = tb[c][j].to /\ tb[c][j].to \in Blocks
                   /\ role[tb[c][j].to] = Role("table", role[c].of, role[c].at + 1)
                   /\ tb[c][j].to # b
  <2>1. c # b /\ Upper(role, c)
    BY <1>6, <1>7, <1>8
  <2>2. CASE c = x /\ j = i
    BY <1>7, <2>1, <2>2
  <2>3. CASE ~(c = x /\ j = i)
    <3>1. tc[c][j] = tb[c][j]
      BY <1>7, <2>1, <2>3
    <3>2. /\ tb[c][j].to \in Blocks
          /\ role[tb[c][j].to] = Role("table", role[c].of, role[c].at + 1)
      BY <1>8, <2>1, <3>1 DEF Tree, Children
    <3>3. tb[c][j].to # b
      BY <3>2 DEF Role
    <3>. QED  BY <2>1, <2>3, <3>1, <3>2, <3>3
  <2>. QED  BY <2>2, <2>3
<1>9. ASSUME NEW c \in Blocks, NEW j \in 0 .. FAN - 1, Upper(rl, c), tc[c][j].to # NoBlock
      PROVE  /\ tc[c][j].to \in Blocks
             /\ rl[tc[c][j].to] = Role("table", rl[c].of, rl[c].at + 1)
  BY <1>4, <1>8, <1>9
<1>10. ASSUME NEW c \in Blocks, NEW j \in 0 .. FAN - 1, Upper(rl, c), tc[c][j].to # NoBlock,
              NEW d \in Blocks, NEW k \in 0 .. FAN - 1, Upper(rl, d), tc[c][j].to = tc[d][k].to
       PROVE  c = d /\ j = k
  <2>1. tc[d][k].to # NoBlock
    BY <1>10
  <2>2. \/ c = x /\ j = i /\ tc[c][j].to = b
        \/ ~(c = x /\ j = i) /\ tc[c][j].to = tb[c][j].to /\ tb[c][j].to # b
    BY <1>8, <1>10
  <2>3. \/ d = x /\ k = i /\ tc[d][k].to = b
        \/ ~(d = x /\ k = i) /\ tc[d][k].to = tb[d][k].to /\ tb[d][k].to # b
    BY <1>8, <1>10, <2>1
  <2>4. Upper(role, c) /\ Upper(role, d)
    BY <1>8, <1>10, <2>1
  <2>5. CASE tc[c][j].to = b
    BY <1>10, <2>2, <2>3, <2>5
  <2>6. CASE tc[c][j].to # b
    <3>1. tb[c][j].to # NoBlock /\ tb[c][j].to = tb[d][k].to
      BY <1>10, <2>2, <2>3, <2>6
    <3>. QED  BY <2>4, <3>1, OneParent
  <2>. QED  BY <2>5, <2>6
<1>11. ASSUME NEW c \in Blocks, rl[c].kind = "table", rl[c].at > 0
       PROVE  \E d \in Blocks, j \in 0 .. FAN - 1 : Upper(rl, d) /\ tc[d][j].to = c
  <2>1. CASE c = b
    <3>1. Upper(rl, x)
      BY <1>1, <1>6
    <3>. QED  BY <1>7, <2>1, <3>1
  <2>2. CASE c # b
    <3>1. PICK d \in Blocks, j \in 0 .. FAN - 1 : Upper(role, d) /\ tb[d][j].to = c
      BY <1>4, <1>11, <2>2 DEF Tree, Parents
    <3>2. d # b
      BY <3>1 DEF Upper
    <3>3. ~(d = x /\ j = i)
      BY <3>1, BlockNumbers
    <3>4. tc[d][j] = tb[d][j]
      BY <1>7, <3>2, <3>3
    <3>. QED  BY <1>6, <3>1, <3>2, <3>4
  <2>. QED  BY <2>1, <2>2
<1>12. TreeTyped(tc, rl)
  BY <1>1, <1>4, <1>5 DEF TreeTyped
<1>13. Children(tc, rl)
  BY <1>9 DEF Children
<1>14. OnlyParents(tc, rl)
  BY <1>10 DEF OnlyParents
<1>15. Parents(tc, rl)
  BY <1>11 DEF Parents
<1>. QED  BY <1>12, <1>13, <1>14, <1>15 DEF Tree

(* A new table changes no translation. *)
LEMMA WalkLinked ==
  ASSUME NEW tb, NEW role, Tree(tb, role), NEW x \in Blocks, Upper(role, x), NEW b \in Blocks,
         role[b].kind = "free", NEW i \in 0 .. FAN - 1, tb[x][i].to = NoBlock,
         NEW tc, Linked(tc, tb, x, i, b), NEW rl, Tree(tc, rl),
         NEW t, NEW root \in Blocks, role[root] = Role("table", t, 0), rl[root] = role[root],
         NEW p \in Nat
  PROVE  /\ Walk(tc, root, p) = Walk(tb, root, p)
         /\ \A l \in 0 .. LEVELS - 1 : Path(tb, root, p)[l] # NoBlock =>
              Path(tc, root, p)[l] = Path(tb, root, p)[l]
<1>. DEFINE N == LEVELS - 1
            f == Path(tb, root, p)
            g == Path(tc, root, p)
            Like(l) == g[l] = f[l] \/ (f[l] = NoBlock /\ g[l] = b)
            In == {l \in Nat : l <= N => Like(l)}
<1>0. N \in Nat /\ x # b
  BY Spans DEF Upper
<1>1. Way(f, tb, root, p) /\ Way(g, tc, root, p)
  BY PathIs
<1>2. ASSUME NEW l \in 0 .. N, f[l] # NoBlock
      PROVE  f[l] \in Blocks /\ role[f[l]] = Role("table", t, l) /\ f[l] # b
  <2>1. f[l] \in Blocks /\ role[f[l]] = Role("table", t, l)
    BY <1>2, PathIs
  <2>. HIDE DEF f
  <2>. QED  BY <2>1 DEF Role
<1>. HIDE DEF f, g
<1>3. /\ \A j \in 0 .. FAN - 1 : tc[b][j] = NoEntry
      /\ tc[x][i].to = b /\ \A j \in 0 .. FAN - 1 : j # i => tc[x][j] = tb[x][j]
      /\ \A c \in Blocks : c # x /\ c # b => tc[c] = tb[c]
      /\ NoEntry.to = NoBlock /\ b # NoBlock
  BY BlockNumbers DEF Linked
<1>4. 0 \in In
  BY <1>1 DEF Way
<1>5. ASSUME NEW l \in 1 .. N, l - 1 \in In
      PROVE  l \in In
  <2>1. l - 1 \in 0 .. N /\ l \in Nat /\ Like(l - 1) /\ l - 1 \in 0 .. LEVELS - 1
    BY <1>0, <1>5
  <2>. DEFINE j == Index(p, l - 1)
  <2>2. j \in 0 .. FAN - 1
    BY <2>1, IndexIs
  <2>. HIDE DEF j
  <2>3. /\ f[l] = IF f[l - 1] = NoBlock THEN NoBlock ELSE tb[f[l - 1]][j].to
        /\ g[l] = IF g[l - 1] = NoBlock THEN NoBlock ELSE tc[g[l - 1]][j].to
    BY <1>1 DEF Way, j
  <2>4. Like(l)
    <3>1. CASE f[l - 1] # NoBlock
      <4>1. g[l - 1] = f[l - 1] /\ f[l - 1] \in Blocks /\ f[l - 1] # b
        BY <1>2, <2>1, <3>1
      <4>. QED  BY <1>3, <2>2, <2>3, <3>1, <4>1
    <3>2. CASE f[l - 1] = NoBlock
      BY <1>3, <2>1, <2>2, <2>3, <3>2
    <3>. QED  BY <3>1, <3>2
  <2>. HIDE DEF Like
  <2>. QED  BY <2>1, <2>4
<1>6. \A l \in 0 .. N : Like(l)
  <2>1. \A l \in 0 .. N : l \in In
    <3>. In \in SUBSET Nat
      OBVIOUS
    <3>. HIDE DEF In, N
    <3>. QED  BY <1>0, <1>4, <1>5, HandedOn
  <2>. HIDE DEF Like
  <2>. QED  BY <1>0, <2>1
<1>7. Walk(tc, root, p) = Walk(tb, root, p)
  <2>1. /\ Walk(tb, root, p) = IF f[N] = NoBlock THEN NoEntry ELSE tb[f[N]][Index(p, N)]
        /\ Walk(tc, root, p) = IF g[N] = NoBlock THEN NoEntry ELSE tc[g[N]][Index(p, N)]
    BY DEF Walk, f, g
  <2>2. N \in 0 .. N /\ Index(p, N) \in 0 .. FAN - 1
    BY <1>0, IndexIs
  <2>3. CASE f[N] # NoBlock
    <3>1. f[N] \in Blocks /\ role[f[N]] = Role("table", t, N) /\ f[N] # b /\ g[N] = f[N]
      BY <1>2, <1>6, <2>2, <2>3
    <3>2. f[N] # x
      <4>1. role[f[N]].at = N
        BY <3>1 DEF Role
      <4>2. role[x].at < N
        BY DEF Upper
      <4>. QED  BY <1>0, <4>1, <4>2
    <3>. QED  BY <1>3, <2>1, <2>3, <3>1, <3>2
  <2>4. CASE f[N] = NoBlock
    <3>1. g[N] = NoBlock \/ g[N] = b
      BY <1>6, <2>2, <2>4
    <3>. QED  BY <1>3, <2>1, <2>2, <2>4, <3>1
  <2>. QED  BY <2>3, <2>4
<1>8. \A l \in 0 .. LEVELS - 1 : f[l] # NoBlock => g[l] = f[l]
  BY <1>6
<1>. QED  BY <1>7, <1>8 DEF f, g

(* tc is tb with another entry in a table of the last level. *)
LEMMA LeafSet ==
  ASSUME NEW tb, NEW role, Tree(tb, role), NEW t, NEW root \in Blocks,
         role[root] = Role("table", t, 0), NEW p \in 0 .. NPAGES - 1, NEW x \in Blocks,
         x = Path(tb, root, p)[LEVELS - 1], NEW e \in Entry,
         NEW tc, tc = [tb EXCEPT ![x][Index(p, LEVELS - 1)] = e]
  PROVE  /\ Tree(tc, role) /\ Walk(tc, root, p) = e
         /\ \A u : \A top \in Blocks, q \in 0 .. NPAGES - 1 :
              role[top] = Role("table", u, 0) /\ ~(top = root /\ q = p) =>
                Walk(tc, top, q) = Walk(tb, top, q)
<1>. DEFINE N == LEVELS - 1
            i == Index(p, N)
<1>0. /\ N \in Nat /\ N \in 0 .. N /\ p \in Nat /\ i \in 0 .. FAN - 1
  <2>1. N \in Nat /\ N \in 0 .. N /\ p \in Nat
    BY Spans
  <2>2. i \in 0 .. FAN - 1
    BY <2>1, IndexIs
  <2>. QED  BY <2>1, <2>2
<1>1. role[x].kind = "table" /\ role[x].at = N /\ x # NoBlock
  <2>1. x \in Blocks /\ role[x] = Role("table", t, N)
    BY <1>0, PathIs, BlockNumbers
  <2>. QED  BY <2>1, BlockNumbers DEF Role
<1>2. tb \in [Blocks -> TableTypes]
  BY DEF Tree, TreeTyped
<1>3. /\ tc \in [Blocks -> TableTypes] /\ tc[x][i] = e
      /\ \A j \in 0 .. FAN - 1 : j # i => tc[x][j] = tb[x][j]
      /\ \A c \in Blocks : c # x => tc[c] = tb[c]
  <2>. DEFINE n == [tb[x] EXCEPT ![i] = e]
  <2>1. n \in TableTypes /\ n[i] = e /\ \A j \in 0 .. FAN - 1 : j # i => n[j] = tb[x][j]
    <3>. HIDE DEF i
    <3>1. tb[x] \in TableTypes
      BY <1>2
    <3>. QED  BY <1>0, <3>1 DEF TableTypes
  <2>2. tc = [c \in Blocks |-> IF c = x THEN n ELSE tb[c]]
    BY <1>2
  <2>. HIDE DEF n, i
  <2>3. \A c \in Blocks : tc[c] = IF c = x THEN n ELSE tb[c]
    BY <2>2
  <2>4. tc \in [Blocks -> TableTypes]
    BY <1>2, <2>1, <2>2
  <2>5. x \in Blocks
    BY <1>0, <1>1, PathIs
  <2>. QED  BY <2>1, <2>3, <2>4, <2>5
<1>4. \A c \in Blocks : Upper(role, c) => tc[c] = tb[c]
  BY <1>0, <1>1, <1>3 DEF Upper
<1>5. Tree(tc, role)
  <2>1. TreeTyped(tc, role)
    BY <1>3 DEF Tree, TreeTyped
  <2>2. Children(tc, role)
    BY <1>4 DEF Tree, Children
  <2>3. OnlyParents(tc, role)
    BY <1>4 DEF Tree, OnlyParents
  <2>4. Parents(tc, role)
    BY <1>4 DEF Tree, Parents
  <2>. QED  BY <2>1, <2>2, <2>3, <2>4 DEF Tree
<1>. DEFINE Same(b, r) == \A l \in 0 .. N : Path(tc, b, r)[l] = Path(tb, b, r)[l]
<1>6. ASSUME NEW top \in Blocks, NEW u, NEW q \in 0 .. NPAGES - 1, role[top] = Role("table", u, 0)
      PROVE  Same(top, q)
  <2>. DEFINE f == Path(tb, top, q)
              g == Path(tc, top, q)
              In == {l \in Nat : l <= N => f[l] = g[l]}
  <2>0. q \in Nat
    BY <1>0
  <2>1. Way(f, tb, top, q) /\ Way(g, tc, top, q)
    BY <1>5, <1>6, <2>0, PathIs
  <2>2. ASSUME NEW l \in 0 .. N - 1, f[l] # NoBlock
        PROVE  f[l] \in Blocks /\ Upper(role, f[l])
    <3>1. l \in 0 .. LEVELS - 1 /\ l < LEVELS - 1
      BY <1>0
    <3>2. f[l] \in Blocks /\ role[f[l]] = Role("table", u, l)
      BY <1>6, <2>0, <2>2, <3>1, PathIs
    <3>. HIDE DEF f
    <3>. QED  BY <3>1, <3>2 DEF Upper, Role
  <2>. HIDE DEF f, g
  <2>3. 0 \in In
    BY <2>1 DEF Way
  <2>4. ASSUME NEW l \in 1 .. N, l - 1 \in In
        PROVE  l \in In
    <3>1. f[l - 1] = g[l - 1] /\ l - 1 \in 0 .. N - 1 /\ l \in Nat
      BY <1>0, <2>4
    <3>2. f[l] = g[l]
      BY <1>4, <2>1, <2>2, <3>1 DEF Way
    <3>. QED  BY <3>1, <3>2
  <2>5. \A l \in 0 .. N : l \in In
    <3>. In \in SUBSET Nat
      OBVIOUS
    <3>. HIDE DEF In, N
    <3>. QED  BY <1>0, <2>3, <2>4, HandedOn
  <2>6. \A l \in 0 .. N : f[l] = g[l]
    BY <1>0, <2>5
  <2>. QED  BY <2>6 DEF f, g
<1>. HIDE DEF Same
<1>7. Walk(tc, root, p) = e
  <2>1. Path(tc, root, p)[N] = x
    <3>1. Same(root, p)
      BY <1>6
    <3>. QED  BY <1>0, <3>1 DEF Same
  <2>. QED  BY <1>1, <1>3, <2>1 DEF Walk
<1>8. ASSUME NEW top \in Blocks, NEW u, NEW q \in 0 .. NPAGES - 1, role[top] = Role("table", u, 0),
             ~(top = root /\ q = p)
      PROVE  Walk(tc, top, q) = Walk(tb, top, q)
  <2>. DEFINE y == Path(tb, top, q)[N]
              j == Index(q, N)
  <2>0. q \in Nat /\ j \in 0 .. FAN - 1
    BY <1>0, IndexIs
  <2>1. Path(tc, top, q)[N] = y
    <3>1. Same(top, q)
      BY <1>6, <1>8
    <3>. QED  BY <1>0, <3>1 DEF Same
  <2>2. y = NoBlock \/ y \in Blocks
    <3>1. \A l \in 0 .. LEVELS - 1 : Path(tb, top, q)[l] = NoBlock \/ Path(tb, top, q)[l] \in Blocks
      BY <1>8, <2>0, PathIs
    <3>. QED  BY <1>0, <3>1
  <2>3. ~(y = x /\ j = i)
    BY <1>1, <1>8, OwnEntry
  <2>4. /\ Walk(tb, top, q) = IF y = NoBlock THEN NoEntry ELSE tb[y][j]
        /\ Walk(tc, top, q) = IF y = NoBlock THEN NoEntry ELSE tc[y][j]
    BY <2>1 DEF Walk
  <2>. HIDE DEF y, j, i
  <2>. QED  BY <1>3, <2>0, <2>2, <2>3, <2>4
<1>. QED  BY <1>5, <1>7, <1>8

(* The tables of the threads T go, and threads get new top tables. *)
LEMMA TreeChanged ==
  ASSUME NEW tb, NEW role, Tree(tb, role), NEW tc, NEW rl, TreeTyped(tc, rl), NEW T,
         \A b \in Blocks : role[b].kind = "table" /\ role[b].of \notin T =>
           rl[b] = role[b] /\ tc[b] = tb[b],
         \A b \in Blocks : rl[b].kind = "table" =>
           \/ role[b].kind = "table" /\ role[b].of \notin T
           \/ rl[b].at = 0 /\ tc[b] = EmptyTable
  PROVE  Tree(tc, rl)
<1>0. \A b \in Blocks, i \in 0 .. FAN - 1 : tc[b] = EmptyTable => tc[b][i].to = NoBlock
  BY BlockNumbers
<1>1. ASSUME NEW b \in Blocks, NEW i \in 0 .. FAN - 1, Upper(rl, b), tc[b][i].to # NoBlock
      PROVE  /\ Upper(role, b) /\ tc[b] = tb[b] /\ rl[b] = role[b] /\ role[b].of \notin T
             /\ tb[b][i].to \in Blocks
             /\ role[tb[b][i].to] = Role("table", role[b].of, role[b].at + 1)
  <2>1. tc[b] # EmptyTable /\ rl[b].kind = "table"
    BY <1>0, <1>1 DEF Upper
  <2>2. role[b].kind = "table" /\ role[b].of \notin T /\ tc[b] = tb[b] /\ rl[b] = role[b]
    BY <2>1
  <2>3. Upper(role, b)
    BY <1>1, <2>2 DEF Upper
  <2>. QED  BY <1>1, <2>2, <2>3 DEF Tree, Children
<1>2. Children(tc, rl)
  <2>. SUFFICES ASSUME NEW b \in Blocks, NEW i \in 0 .. FAN - 1, Upper(rl, b), tc[b][i].to # NoBlock
                PROVE  /\ tc[b][i].to \in Blocks
                       /\ rl[tc[b][i].to] = Role("table", rl[b].of, rl[b].at + 1)
    BY DEF Children
  <2>. DEFINE c == tb[b][i].to
  <2>1. /\ Upper(role, b) /\ tc[b] = tb[b] /\ rl[b] = role[b] /\ role[b].of \notin T
        /\ c \in Blocks /\ role[c] = Role("table", role[b].of, role[b].at + 1)
    BY <1>1
  <2>. HIDE DEF c
  <2>2. role[c].kind = "table" /\ role[c].of = role[b].of
    BY <2>1 DEF Role
  <2>3. rl[c] = role[c]
    BY <2>1, <2>2
  <2>. QED  BY <2>1, <2>3 DEF c
<1>3. OnlyParents(tc, rl)
  <2>. SUFFICES ASSUME NEW b \in Blocks, NEW c \in Blocks, NEW i \in 0 .. FAN - 1, NEW j \in 0 .. FAN - 1,
                       Upper(rl, b), Upper(rl, c), tc[b][i].to # NoBlock, tc[b][i].to = tc[c][j].to
                PROVE  b = c /\ i = j
    BY DEF OnlyParents
  <2>1. Upper(role, b) /\ tc[b] = tb[b]
    BY <1>1
  <2>2. tc[c][j].to # NoBlock
    OBVIOUS
  <2>3. Upper(role, c) /\ tc[c] = tb[c]
    BY <1>1, <2>2
  <2>. QED  BY <2>1, <2>3, OneParent
<1>4. Parents(tc, rl)
  <2>. SUFFICES ASSUME NEW b \in Blocks, rl[b].kind = "table", rl[b].at > 0
                PROVE  \E c \in Blocks, i \in 0 .. FAN - 1 : Upper(rl, c) /\ tc[c][i].to = b
    BY DEF Parents
  <2>1. role[b].kind = "table" /\ role[b].of \notin T /\ rl[b] = role[b]
    OBVIOUS
  <2>2. PICK c \in Blocks, i \in 0 .. FAN - 1 : Upper(role, c) /\ tb[c][i].to = b
    BY <2>1 DEF Tree, Parents
  <2>3. role[b] = Role("table", role[c].of, role[c].at + 1)
    BY <2>2, BlockNumbers DEF Tree, Children
  <2>4. role[c].kind = "table" /\ role[c].of \notin T
    BY <2>1, <2>2, <2>3 DEF Role, Upper
  <2>5. rl[c] = role[c] /\ tc[c] = tb[c]
    BY <2>4
  <2>. QED  BY <2>2, <2>5 DEF Upper
<1>. QED  BY <1>2, <1>3, <1>4 DEF Tree

-----------------------------------------------------------------------------
(* What mmu_free_page_tables frees. *)

Level(role, t, l) == {b \in Blocks : role[b] = Role("table", t, l)}

Lower(tb, X) == {tb[b][i].to : b \in X, i \in 0 .. FAN - 1} \ {NoBlock}

(* The tables below a level are those of the next.                         *)
LEMMA NextLevel ==
  ASSUME NEW tb, NEW role, Tree(tb, role), NEW t, NEW l \in 1 .. LEVELS - 1
  PROVE  Lower(tb, Level(role, t, l - 1)) = Level(role, t, l)
<1>0. l \in Nat /\ l - 1 \in Nat /\ l - 1 < LEVELS - 1 /\ (l - 1) + 1 = l /\ l > 0
  BY Spans
<1>1. ASSUME NEW b \in Level(role, t, l - 1), NEW i \in 0 .. FAN - 1, tb[b][i].to # NoBlock
      PROVE  tb[b][i].to \in Level(role, t, l)
  <2>1. b \in Blocks /\ role[b].kind = "table" /\ role[b].of = t /\ role[b].at = l - 1
    BY DEF Level, Role
  <2>2. Upper(role, b)
    BY <1>0, <2>1 DEF Upper
  <2>3. tb[b][i].to \in Blocks /\ role[tb[b][i].to] = Role("table", role[b].of, role[b].at + 1)
    BY <1>1, <2>1, <2>2 DEF Tree, Children
  <2>. QED  BY <1>0, <2>1, <2>3 DEF Level
<1>2. ASSUME NEW c \in Level(role, t, l)
      PROVE  c # NoBlock /\ \E b \in Level(role, t, l - 1), i \in 0 .. FAN - 1 : c = tb[b][i].to
  <2>1. c \in Blocks /\ role[c].kind = "table" /\ role[c].of = t /\ role[c].at = l
    BY DEF Level, Role
  <2>2. PICK b \in Blocks, i \in 0 .. FAN - 1 : Upper(role, b) /\ tb[b][i].to = c
    BY <1>0, <2>1 DEF Tree, Parents
  <2>3. role[c] = Role("table", role[b].of, role[b].at + 1) /\ c # NoBlock
    BY <2>1, <2>2, BlockNumbers DEF Tree, Children
  <2>4. role[b].of = t /\ role[b].at + 1 = l /\ role[b].kind = "table"
    BY <2>1, <2>2, <2>3 DEF Role, Upper
  <2>5. role[b] \in Roles
    BY <2>2 DEF Tree, TreeTyped
  <2>6. role[b].at = l - 1
    BY <1>0, <2>4, <2>5 DEF Roles
  <2>7. role[b] = Role("table", t, l - 1)
    BY <2>4, <2>5, <2>6 DEF Roles, Role
  <2>. QED  BY <2>2, <2>3, <2>7 DEF Level
<1>. QED  BY <1>1, <1>2 DEF Lower

(* The tables below a thread's top table. *)
LEMMA TablesAre ==
  ASSUME NEW tb, NEW role, Tree(tb, role), NEW t, NEW root \in Blocks,
         role[root] = Role("table", t, 0),
         \A b \in Blocks : role[b] = Role("table", t, 0) => b = root
  PROVE  TablesTo(tb, root, LEVELS - 1)
           = {b \in Blocks : role[b].kind = "table" /\ role[b].of = t /\ role[b].at > 0}
<1>. DEFINE N == LEVELS - 1
            S == SUBSET Blocks
            F == [l \in 1 .. N |-> [X \in S |-> Lower(tb, X)]]
            In == [l \in 0 .. N |-> {Level(role, t, l)}]
            at[l \in 0 .. N] == IF l = 0 THEN {root} ELSE Lower(tb, at[l - 1])
<1>0. /\ N \in Nat /\ \A l \in 1 .. N : l \in 0 .. N /\ l # 0 /\ l - 1 \in 0 .. N
      /\ \A l : Level(role, t, l) \in S
      /\ 0 \in 0 .. N
  BY Spans DEF Level
<1>1. In \in [0 .. N -> SUBSET S] /\ {root} \in In[0]
  <2>1. Level(role, t, 0) = {root}
    BY DEF Level
  <2>. QED  BY <1>0, <2>1
<1>2. ASSUME NEW l \in 1 .. N, NEW X \in In[l - 1]
      PROVE  F[l][X] \in In[l]
  <2>1. X = Level(role, t, l - 1) /\ X \in S /\ In[l] = {Level(role, t, l)}
    BY <1>0
  <2>2. Lower(tb, X) = Level(role, t, l)
    BY <2>1, NextLevel
  <2>3. F[l][X] = Lower(tb, X)
    BY <2>1
  <2>. QED  BY <2>1, <2>2, <2>3
<1>3. PICK g \in [0 .. N -> S] : Walks(g, F, {root}, N) /\ \A l \in 0 .. N : g[l] \in In[l]
  <2>. HIDE DEF N, S, F, In
  <2>. QED  BY <1>0, <1>1, <1>2, WalkedWithin
<1>4. g = [l \in 0 .. N |-> IF l = 0 THEN {root} ELSE Lower(tb, g[l - 1])]
  <2>1. ASSUME NEW l \in 0 .. N
        PROVE  g[l] = IF l = 0 THEN {root} ELSE Lower(tb, g[l - 1])
    <3>1. g[l] = IF l = 0 THEN {root} ELSE F[l][g[l - 1]]
      BY <1>3 DEF Walks
    <3>2. l # 0 => l \in 1 .. N /\ g[l - 1] \in S
      BY <1>0
    <3>3. l # 0 => F[l][g[l - 1]] = Lower(tb, g[l - 1])
      BY <3>2
    <3>. HIDE DEF F
    <3>. QED  BY <3>1, <3>3
  <2>2. g = [l \in 0 .. N |-> g[l]]
    OBVIOUS
  <2>. QED  BY <2>1, <2>2
<1>5. at = [l \in 0 .. N |-> IF l = 0 THEN {root} ELSE Lower(tb, at[l - 1])]
  BY <1>4
<1>6. TablesTo(tb, root, N) = UNION {at[l] : l \in 1 .. N}
  BY DEF TablesTo, Lower
<1>. HIDE DEF at
<1>7. at[0] = {root} /\ \A l \in 1 .. N : at[l] = Lower(tb, at[l - 1])
  <2>. HIDE DEF N
  <2>. QED  BY <1>0, <1>5
<1>8. \A l \in 0 .. N : at[l] = Level(role, t, l)
  <2>. DEFINE K == {l \in Nat : l <= N => at[l] = Level(role, t, l)}
  <2>1. 0 \in K
    BY <1>7 DEF Level
  <2>2. ASSUME NEW l \in 1 .. N, l - 1 \in K
        PROVE  l \in K
    <3>1. l \in Nat /\ at[l - 1] = Level(role, t, l - 1)
      BY <1>0, <2>2
    <3>2. at[l] = Level(role, t, l)
      BY <1>7, <3>1, NextLevel
    <3>. QED  BY <3>1, <3>2
  <2>3. \A l \in 0 .. N : l \in K
    <3>. K \in SUBSET Nat
      OBVIOUS
    <3>. HIDE DEF K, N
    <3>. QED  BY <1>0, <2>1, <2>2, HandedOn
  <2>. QED  BY <1>0, <2>3
<1>9. ASSUME NEW b \in Blocks
      PROVE  (\E l \in 1 .. N : role[b] = Role("table", t, l))
               <=> role[b].kind = "table" /\ role[b].of = t /\ role[b].at > 0
  <2>1. role[b] \in Roles /\ role[b].kind = "table" => role[b].at <= N
    BY DEF Tree, TreeTyped
  <2>1a. role[b] \in Roles
    BY DEF Tree, TreeTyped
  <2>2. ASSUME NEW l \in 1 .. N, role[b] = Role("table", t, l)
        PROVE  role[b].kind = "table" /\ role[b].of = t /\ role[b].at > 0
    BY <1>0, <2>2 DEF Role
  <2>3. ASSUME role[b].kind = "table", role[b].of = t, role[b].at > 0
        PROVE  \E l \in 1 .. N : role[b] = Role("table", t, l)
    <3>1. role[b].at \in 1 .. N
      BY <1>0, <2>1, <2>1a, <2>3 DEF Roles
    <3>2. role[b] = Role("table", t, role[b].at)
      BY <2>1a, <2>3 DEF Roles, Role
    <3>. QED  BY <3>1, <3>2
  <2>. QED  BY <2>2, <2>3
<1>10. \A l \in 1 .. N : at[l] = {b \in Blocks : role[b] = Role("table", t, l)}
  BY <1>0, <1>8 DEF Level
<1>11. UNION {at[l] : l \in 1 .. N} = {b \in Blocks : \E l \in 1 .. N : role[b] = Role("table", t, l)}
  <2>. HIDE DEF N
  <2>. QED  BY <1>10
<1>. QED  BY <1>6, <1>9, <1>11

-----------------------------------------------------------------------------
(* map_one_page. *)

Heaps == [tab : [Blocks -> TableTypes], free : SUBSET Blocks]
Places == [h : Heaps, at : Blocks]

(* One level down on the way to page p, with a new table if there is none. *)
MapStep(l, s, p) ==
  LET i    == Index(p, l - 1)
      next == s.h.tab[s.at][i].to
      b    == Fresh(s.h.free, 1)
  IN  IF next # NoBlock THEN [s EXCEPT !.at = next]
      ELSE [h  |-> [tab  |-> [s.h.tab EXCEPT ![s.at][i] = ToTable(b), ![b] = EmptyTable],
                    free |-> s.h.free \ {b}],
            at |-> b]

(* The tables tc and the free blocks fc are those of h, and some more of   *)
(* h's blocks are tables of the thread t.                                  *)
Grown(tc, fc, rl, h, role, t) ==
  /\ Tree(tc, rl) /\ fc \subseteq h.free
  /\ \A b \in Blocks : IF b \in h.free \ fc
                       THEN rl[b].kind = "table" /\ rl[b].of = t /\ rl[b].at > 0
                       ELSE rl[b] = role[b]

(* A place on the way to page p, at level l. *)
OnTheWay(s, l, h, role, t, root, p) ==
  /\ s \in Places /\ Cardinality(s.h.free) + l >= Cardinality(h.free)
  /\ Path(s.h.tab, root, p)[l] = s.at
  /\ \E rl : Grown(s.h.tab, s.h.free, rl, h, role, t) /\ rl[s.at] = Role("table", t, l)
  /\ \A u : \A top \in Blocks, q \in 0 .. NPAGES - 1 :
       role[top] = Role("table", u, 0) => Walk(s.h.tab, top, q) = Walk(h.tab, top, q)

(* Giving out a block leaves one less.                                     *)
LEMMA FreeCount ==
  ASSUME NEW S \in SUBSET Blocks
  PROVE  /\ IsFiniteSet(S) /\ Cardinality(S) \in Nat
         /\ Cardinality(S) > 0 => Fresh(S, 1) \in S
         /\ \A b \in S : Cardinality(S \ {b}) = Cardinality(S) - 1
<1>1. IsFiniteSet(S)
  BY BlockNumbers, FS_Subset
<1>2. Cardinality(S) \in Nat
  BY <1>1, FS_CardinalityType
<1>3. Cardinality(S) > 0 => Fresh(S, 1) \in S
  BY <1>2, FreshBlocks
<1>4. \A b \in S : Cardinality(S \ {b}) = Cardinality(S) - 1
  BY <1>1, FS_RemoveElement
<1>. QED  BY <1>1, <1>2, <1>3, <1>4

(* One more level of map_one_page, which stays on the way to the page.     *)
LEMMA MapGoesOn ==
  ASSUME NEW h \in Heaps, NEW role, Tree(h.tab, role), \A b \in h.free : role[b].kind = "free",
         Cardinality(h.free) >= LEVELS,
         NEW t, NEW root \in Blocks, role[root] = Role("table", t, 0), NEW p \in 0 .. NPAGES - 1,
         NEW l \in 1 .. LEVELS - 1, NEW s, OnTheWay(s, l - 1, h, role, t, root, p)
  PROVE  OnTheWay(MapStep(l, s, p), l, h, role, t, root, p)
<1>. DEFINE tb == s.h.tab
            fb == s.h.free
            x == s.at
            i == Index(p, l - 1)
            y == tb[x][i].to
            b == Fresh(fb, 1)
            tc == [tb EXCEPT ![x][i] = ToTable(b), ![b] = EmptyTable]
<1>0. /\ l \in Nat /\ l - 1 \in 0 .. LEVELS - 1 /\ l - 1 < LEVELS - 1 /\ (l - 1) + 1 = l /\ p \in Nat
      /\ l \in 0 .. LEVELS - 1 /\ LEVELS \in Nat /\ l > 0
  BY Spans
<1>1. i \in 0 .. FAN - 1
  BY <1>0, IndexIs
<1>2. /\ s \in Places /\ Cardinality(fb) + (l - 1) >= Cardinality(h.free) /\ Path(tb, root, p)[l - 1] = x
      /\ \A u : \A top \in Blocks, q \in 0 .. NPAGES - 1 :
           role[top] = Role("table", u, 0) => Walk(tb, top, q) = Walk(h.tab, top, q)
  BY DEF OnTheWay
<1>3. PICK rl : Grown(tb, fb, rl, h, role, t) /\ rl[x] = Role("table", t, l - 1)
  BY DEF OnTheWay
<1>4. /\ s.h \in Heaps /\ x \in Blocks /\ tb \in [Blocks -> TableTypes] /\ fb \in SUBSET Blocks
      /\ h.free \in SUBSET Blocks
  BY <1>2 DEF Places, Heaps
<1>5. /\ Tree(tb, rl) /\ fb \subseteq h.free /\ Upper(rl, x) /\ rl[x].of = t /\ rl[x].at = l - 1
  BY <1>0, <1>3 DEF Grown, Role, Upper
<1>6. MapStep(l, s, p) = IF y # NoBlock THEN [s EXCEPT !.at = y]
                         ELSE [h |-> [tab |-> tc, free |-> fb \ {b}], at |-> b]
  BY DEF MapStep
<1>7. rl[root] = Role("table", t, 0)
  <2>1. root \notin h.free
    BY DEF Role
  <2>. QED  BY <1>3, <2>1 DEF Grown
<1>. HIDE DEF i
<1>8. CASE y # NoBlock
  <2>. DEFINE n == [s EXCEPT !.at = y]
  <2>1. y \in Blocks /\ rl[y] = Role("table", t, l)
    BY <1>0, <1>1, <1>4, <1>5, <1>8 DEF Tree, Children
  <2>2. n \in Places /\ n.h = s.h /\ n.at = y
    <3>. HIDE DEF y
    <3>. QED  BY <1>2, <2>1 DEF Places
  <2>3. Path(tb, root, p)[l] = y
    <3>1. Path(tb, root, p)[l] = IF Path(tb, root, p)[l - 1] = NoBlock THEN NoBlock
                                 ELSE tb[Path(tb, root, p)[l - 1]][Index(p, l - 1)].to
      <4>1. p \in Nat /\ Tree(tb, rl)
        BY <1>0, <1>5
      <4>. HIDE DEF tb
      <4>2. Way(Path(tb, root, p), tb, root, p)
        BY <1>7, <4>1, PathIs
      <4>. QED  BY <4>2 DEF Way
    <3>. QED  BY <1>2, <1>4, <3>1, BlockNumbers DEF i
  <2>4. Cardinality(n.h.free) + l >= Cardinality(h.free)
    <3>1. Cardinality(fb) \in Nat /\ Cardinality(h.free) \in Nat
      BY <1>4, FreeCount
    <3>2. Cardinality(fb) + l >= Cardinality(h.free)
      <4>. HIDE DEF fb
      <4>. QED  BY <1>0, <1>2, <3>1
    <3>. QED  BY <2>2, <3>2
  <2>. HIDE DEF n
  <2>5. OnTheWay(n, l, h, role, t, root, p)
    BY <1>2, <1>3, <2>1, <2>2, <2>3, <2>4 DEF OnTheWay
  <2>. QED  BY <1>6, <1>8, <2>5 DEF n
<1>9. CASE y = NoBlock
  <2>1. b \in fb /\ b \in Blocks /\ Cardinality(fb \ {b}) + l >= Cardinality(h.free)
    <3>1. Cardinality(fb) \in Nat /\ Cardinality(h.free) \in Nat
      BY <1>4, FreeCount
    <3>2. Cardinality(fb) > 0
      <4>. HIDE DEF fb
      <4>. QED  BY <1>0, <1>2, <3>1
    <3>. HIDE DEF fb
    <3>3. Fresh(fb, 1) \in fb /\ \A c \in fb : Cardinality(fb \ {c}) = Cardinality(fb) - 1
      BY <1>4, <3>2, FreeCount
    <3>4. Cardinality(fb \ {b}) = Cardinality(fb) - 1 /\ b \in fb
      BY <3>3
    <3>. HIDE DEF b
    <3>. QED  BY <1>0, <1>2, <1>4, <3>1, <3>4
  <2>. HIDE DEF b
  <2>2. role[b].kind = "free" /\ rl[b].kind = "free" /\ x # b
    <3>1. b \in h.free /\ b \notin h.free \ fb
      BY <1>5, <2>1
    <3>. QED  BY <1>3, <1>5, <2>1, <3>1 DEF Grown, Upper
  <2>3. Linked(tc, tb, x, i, b)
    <3>. HIDE DEF tb, x
    <3>. QED  BY <1>1, <1>4, <2>1, <2>2, LinkedIs
  <2>. DEFINE rm == [rl EXCEPT ![b] = Role("table", rl[x].of, rl[x].at + 1)]
  <2>. HIDE DEF tc, rm, tb, x, fb
  <2>4. Tree(tc, rm)
    <3>1. rm = [rl EXCEPT ![b] = Role("table", rl[x].of, rl[x].at + 1)]
      BY DEF rm
    <3>. QED  BY <1>1, <1>4, <1>5, <1>9, <2>1, <2>2, <2>3, <3>1, TreeLinked
  <2>5. rm[b] = Role("table", t, l) /\ \A c \in Blocks : c # b => rm[c] = rl[c]
    <3>1. rl \in [Blocks -> Roles]
      BY <1>5 DEF Tree, TreeTyped
    <3>. QED  BY <1>0, <1>5, <2>1, <3>1 DEF rm
  <2>6. Grown(tc, fb \ {b}, rm, h, role, t)
    <3>1. ASSUME NEW c \in Blocks
          PROVE  IF c \in h.free \ (fb \ {b})
                 THEN rm[c].kind = "table" /\ rm[c].of = t /\ rm[c].at > 0
                 ELSE rm[c] = role[c]
      <4>1. IF c \in h.free \ fb
            THEN rl[c].kind = "table" /\ rl[c].of = t /\ rl[c].at > 0
            ELSE rl[c] = role[c]
        BY <1>3 DEF Grown
      <4>2. CASE c = b
        BY <1>0, <1>5, <2>1, <2>5, <4>2 DEF Role
      <4>3. CASE c # b
        BY <2>5, <4>1, <4>3
      <4>. QED  BY <4>2, <4>3
    <3>. QED  BY <1>5, <2>4, <3>1 DEF Grown
  <2>7. ASSUME NEW top \in Blocks, NEW u, NEW q \in 0 .. NPAGES - 1, role[top] = Role("table", u, 0)
        PROVE  Walk(tc, top, q) = Walk(h.tab, top, q)
    <3>1. top \notin h.free /\ top # b
      BY <2>2, <2>7 DEF Role
    <3>2. rl[top] = role[top] /\ rm[top] = rl[top]
      BY <1>3, <2>5, <3>1 DEF Grown
    <3>3. q \in Nat
      BY <1>0
    <3>4. Walk(tc, top, q) = Walk(tb, top, q)
      <4>1. /\ Tree(tb, rl) /\ x \in Blocks /\ Upper(rl, x) /\ b \in Blocks /\ rl[b].kind = "free"
            /\ i \in 0 .. FAN - 1 /\ tb[x][i].to = NoBlock /\ Linked(tc, tb, x, i, b) /\ Tree(tc, rm)
        BY <1>1, <1>4, <1>5, <1>9, <2>1, <2>2, <2>3, <2>4 DEF y
      <4>2. rl[top] = Role("table", u, 0) /\ rm[top] = rl[top]
        BY <2>7, <3>2
      <4>. QED  BY <3>3, <4>1, <4>2, WalkLinked
    <3>. QED  BY <1>2, <2>7, <3>4
  <2>8. Path(tc, root, p)[l] = b
    <3>1. rm[root] = rl[root]
      BY <1>7, <2>2, <2>5 DEF Role
    <3>2. Path(tc, root, p)[l - 1] = x
      <4>1. Path(tb, root, p)[l - 1] # NoBlock
        BY <1>2, <1>4, BlockNumbers
      <4>2. Path(tc, root, p)[l - 1] = Path(tb, root, p)[l - 1]
        BY <1>0, <1>1, <1>4, <1>5, <1>7, <1>9, <2>1, <2>2, <2>3, <2>4, <3>1, <4>1, WalkLinked DEF y
      <4>. QED  BY <1>2, <4>2
    <3>3. Way(Path(tc, root, p), tc, root, p)
      <4>1. rm[root] = Role("table", t, 0) /\ p \in Nat
        BY <1>0, <1>7, <3>1
      <4>. QED  BY <2>4, <4>1, PathIs
    <3>4. Path(tc, root, p)[l] = tc[x][i].to
      BY <1>4, <3>2, <3>3, BlockNumbers DEF Way, i
    <3>. QED  BY <2>3, <3>4 DEF Linked
  <2>. DEFINE n == [h |-> [tab |-> tc, free |-> fb \ {b}], at |-> b]
  <2>9. n \in Places /\ n.h.tab = tc /\ n.h.free = fb \ {b} /\ n.at = b
    <3>1. tc \in [Blocks -> TableTypes]
      BY <2>3 DEF Linked
    <3>. QED  BY <1>4, <2>1, <3>1 DEF Places, Heaps
  <2>. HIDE DEF n
  <2>10. OnTheWay(n, l, h, role, t, root, p)
    <3>1. n \in Places /\ Cardinality(n.h.free) + l >= Cardinality(h.free) /\ Path(n.h.tab, root, p)[l] = n.at
      BY <2>1, <2>8, <2>9
    <3>2. Grown(n.h.tab, n.h.free, rm, h, role, t) /\ rm[n.at] = Role("table", t, l)
      BY <2>5, <2>6, <2>9
    <3>3. \A u : \A top \in Blocks, q \in 0 .. NPAGES - 1 :
            role[top] = Role("table", u, 0) => Walk(n.h.tab, top, q) = Walk(h.tab, top, q)
      BY <2>7, <2>9
    <3>. QED  BY <3>1, <3>2, <3>3 DEF OnTheWay
  <2>. QED  BY <1>6, <1>9, <2>10 DEF n, fb, tc, tb, x
<1>. QED  BY <1>8, <1>9

(* map_one_page maps page p, and changes no other translation. *)
LEMMA PageMapped ==
  ASSUME NEW h \in Heaps, NEW role, Tree(h.tab, role), \A b \in h.free : role[b].kind = "free",
         Cardinality(h.free) >= LEVELS,
         NEW t, NEW root \in Blocks, role[root] = Role("table", t, 0), NEW p \in 0 .. NPAGES - 1,
         NEW e \in Entry, NEW m, m = map_one_page(h, root, p, e)
  PROVE  /\ m \in Heaps /\ \E rl : Grown(m.tab, m.free, rl, h, role, t)
         /\ Walk(m.tab, root, p) = e
         /\ \A u : \A top \in Blocks, q \in 0 .. NPAGES - 1 :
              role[top] = Role("table", u, 0) /\ ~(top = root /\ q = p) =>
                Walk(m.tab, top, q) = Walk(h.tab, top, q)
<1>. DEFINE N == LEVELS - 1
            first == [h |-> h, at |-> root]
            F == [l \in 1 .. N |-> [s \in Places |-> MapStep(l, s, p)]]
            In == [l \in 0 .. N |-> {s \in Places : OnTheWay(s, l, h, role, t, root, p)}]
            after[l \in 0 .. N] == IF l = 0 THEN first ELSE MapStep(l, after[l - 1], p)
<1>0. /\ N \in Nat /\ \A l \in 1 .. N : l \in 0 .. N /\ l # 0 /\ l - 1 \in 0 .. N
      /\ p \in Nat /\ 0 \in 0 .. N /\ N \in 0 .. N
  BY Spans
<1>1. first \in In[0] /\ In \in [0 .. N -> SUBSET Places]
  <2>1. first \in Places /\ first.h = h /\ first.at = root
    BY DEF Places
  <2>. HIDE DEF first
  <2>2. Path(h.tab, root, p)[0] = root
    <3>1. Way(Path(h.tab, root, p), h.tab, root, p)
      BY <1>0, PathIs
    <3>. QED  BY <3>1 DEF Way
  <2>3. Cardinality(first.h.free) + 0 >= Cardinality(h.free)
    <3>1. h.free \in SUBSET Blocks
      BY DEF Heaps
    <3>2. Cardinality(h.free) \in Nat
      BY <3>1, FreeCount
    <3>. QED  BY <2>1, <3>2
  <2>4. Grown(first.h.tab, first.h.free, role, h, role, t)
    BY <2>1 DEF Grown
  <2>5. OnTheWay(first, 0, h, role, t, root, p)
    BY <2>1, <2>2, <2>3, <2>4 DEF OnTheWay
  <2>6. In[0] = {s \in Places : OnTheWay(s, 0, h, role, t, root, p)}
    BY <1>0
  <2>7. In \in [0 .. N -> SUBSET Places]
    OBVIOUS
  <2>. HIDE DEF In
  <2>. QED  BY <2>1, <2>5, <2>6, <2>7
<1>2. ASSUME NEW l \in 1 .. N, NEW s \in In[l - 1]
      PROVE  F[l][s] \in In[l]
  <2>1. s \in Places /\ OnTheWay(s, l - 1, h, role, t, root, p)
    BY <1>0
  <2>2. OnTheWay(MapStep(l, s, p), l, h, role, t, root, p)
    BY <2>1, MapGoesOn
  <2>3. MapStep(l, s, p) \in Places
    BY <2>2 DEF OnTheWay
  <2>4. F[l][s] = MapStep(l, s, p)
    BY <2>1
  <2>5. l \in 0 .. N
    BY <1>0
  <2>. QED  BY <2>2, <2>3, <2>4, <2>5
<1>3. PICK g \in [0 .. N -> Places] : Walks(g, F, first, N) /\ \A l \in 0 .. N : g[l] \in In[l]
  <2>. HIDE DEF N, F, In, first
  <2>. QED  BY <1>0, <1>1, <1>2, WalkedWithin
<1>4. g = [l \in 0 .. N |-> IF l = 0 THEN first ELSE MapStep(l, g[l - 1], p)]
  <2>1. ASSUME NEW l \in 0 .. N
        PROVE  g[l] = IF l = 0 THEN first ELSE MapStep(l, g[l - 1], p)
    <3>1. g[l] = IF l = 0 THEN first ELSE F[l][g[l - 1]]
      <4>. HIDE DEF F, first
      <4>. QED  BY <1>3 DEF Walks
    <3>2. l # 0 => l \in 1 .. N /\ g[l - 1] \in Places
      BY <1>0
    <3>3. l # 0 => F[l][g[l - 1]] = MapStep(l, g[l - 1], p)
      BY <3>2
    <3>. HIDE DEF F, first
    <3>. QED  BY <3>1, <3>3
  <2>2. g = [l \in 0 .. N |-> g[l]]
    OBVIOUS
  <2>. HIDE DEF first
  <2>. QED  BY <2>1, <2>2
<1>5. after = [l \in 0 .. N |-> IF l = 0 THEN first ELSE MapStep(l, after[l - 1], p)]
  BY <1>4, Zenon
<1>. DEFINE s == after[N]
<1>6. m = [s.h EXCEPT !.tab[s.at][Index(p, N)] = e]
  BY Zenon DEF map_one_page, MapStep
<1>. HIDE DEF after
<1>7. after[0] = first /\ \A l \in 1 .. N : after[l] = MapStep(l, after[l - 1], p)
  <2>. HIDE DEF N, first
  <2>. QED  BY <1>0, <1>5
<1>8. after[N] = g[N]
  <2>. DEFINE K == {l \in Nat : l <= N => after[l] = g[l]}
  <2>1. 0 \in K
    BY <1>4, <1>7
  <2>2. ASSUME NEW l \in 1 .. N, l - 1 \in K
        PROVE  l \in K
    <3>1. l \in Nat /\ after[l - 1] = g[l - 1] /\ l \in 0 .. N /\ l # 0
      BY <1>0, <2>2
    <3>2. g[l] = MapStep(l, g[l - 1], p)
      <4>. HIDE DEF first
      <4>. QED  BY <1>4, <3>1
    <3>3. after[l] = g[l]
      BY <1>7, <3>1, <3>2
    <3>. QED  BY <3>1, <3>3
  <2>3. N \in K
    <3>. K \in SUBSET Nat
      OBVIOUS
    <3>. HIDE DEF K, N
    <3>. QED  BY <1>0, <2>1, <2>2, HandedOn
  <2>. QED  BY <1>0, <2>3
<1>. HIDE DEF s
<1>9. OnTheWay(s, N, h, role, t, root, p)
  <2>1. g[N] \in In[N]
    BY <1>0, <1>3
  <2>. QED  BY <1>0, <1>8, <2>1 DEF s
<1>10. /\ s \in Places /\ Path(s.h.tab, root, p)[N] = s.at
       /\ \A u : \A top \in Blocks, q \in 0 .. NPAGES - 1 :
            role[top] = Role("table", u, 0) => Walk(s.h.tab, top, q) = Walk(h.tab, top, q)
  BY <1>9 DEF OnTheWay
<1>11. PICK rl : Grown(s.h.tab, s.h.free, rl, h, role, t)
  BY <1>9 DEF OnTheWay
<1>. DEFINE i == Index(p, N)
            tc == [s.h.tab EXCEPT ![s.at][i] = e]
<1>12. s.h \in Heaps /\ s.at \in Blocks /\ s.h.tab \in [Blocks -> TableTypes] /\ s.h.free \in SUBSET Blocks
  BY <1>10 DEF Places, Heaps
<1>13. rl[root] = Role("table", t, 0) /\ Tree(s.h.tab, rl)
       /\ \A u : \A top \in Blocks : role[top] = Role("table", u, 0) => rl[top] = Role("table", u, 0)
  <2>1. \A u : \A top \in Blocks : role[top] = Role("table", u, 0) => top \notin h.free
    BY DEF Role
  <2>. QED  BY <1>11, <2>1 DEF Grown
<1>14. /\ Tree(tc, rl) /\ Walk(tc, root, p) = e
       /\ \A u : \A top \in Blocks, q \in 0 .. NPAGES - 1 :
            rl[top] = Role("table", u, 0) /\ ~(top = root /\ q = p) =>
              Walk(tc, top, q) = Walk(s.h.tab, top, q)
  <2>1. s.at = Path(s.h.tab, root, p)[LEVELS - 1]
    BY <1>10
  <2>2. tc = [s.h.tab EXCEPT ![s.at][Index(p, LEVELS - 1)] = e]
    OBVIOUS
  <2>. HIDE DEF tc, i, N
  <2>. QED  BY <1>12, <1>13, <2>1, <2>2, LeafSet
<1>15. m \in Heaps /\ m.tab = tc /\ m.free = s.h.free
  <2>1. tc \in [Blocks -> TableTypes]
    BY <1>14 DEF Tree, TreeTyped
  <2>2. m = [tab |-> tc, free |-> s.h.free]
    <3>1. m = [s.h EXCEPT !.tab = tc]
      BY <1>6
    <3>. HIDE DEF tc
    <3>. QED  BY <1>12, <3>1 DEF Heaps
  <2>. HIDE DEF tc
  <2>. QED  BY <1>12, <2>1, <2>2 DEF Heaps
<1>. HIDE DEF tc
<1>16. Grown(m.tab, m.free, rl, h, role, t)
  BY <1>11, <1>14, <1>15 DEF Grown
<1>17. ASSUME NEW u, NEW top \in Blocks, NEW q \in 0 .. NPAGES - 1,
              role[top] = Role("table", u, 0), ~(top = root /\ q = p)
       PROVE  Walk(m.tab, top, q) = Walk(h.tab, top, q)
  <2>1. Walk(s.h.tab, top, q) = Walk(h.tab, top, q)
    BY <1>10, <1>17
  <2>2. rl[top] = Role("table", u, 0)
    BY <1>13, <1>17
  <2>3. Walk(tc, top, q) = Walk(s.h.tab, top, q)
    BY <1>14, <1>17, <2>2
  <2>. QED  BY <1>15, <2>1, <2>3
<1>. QED  BY <1>14, <1>15, <1>16, <1>17

-----------------------------------------------------------------------------
(* Who owns which block.  Roles that stay. *)

(* The parts of a role.                                                    *)
LEMMA RoleIs ==
  /\ \A k, t, n : /\ Role(k, t, n).kind = k /\ Role(k, t, n).of = t /\ Role(k, t, n).at = n
  /\ \A r \in Roles : r = Role(r.kind, r.of, r.at) /\ r.of \in Nat /\ r.at \in Nat
  /\ \A t \in Threads, n \in Nat :
       /\ Role("kernel_sp", t, n) \in Roles /\ Role("table", t, n) \in Roles
       /\ Role("area", t, n) \in Roles /\ Role("local", t, n) \in Roles
       /\ Role("free", t, n) \in Roles /\ Role("lost", t, n) \in Roles
BY ThreadNumbers DEF Role, Roles

(* The blocks that t has in role k are the same. *)
Alike(role, rl, k, t) ==
  \A b \in Blocks : (role[b].kind = k /\ role[b].of = t) \/ (rl[b].kind = k /\ rl[b].of = t) =>
    rl[b] = role[b]

(* A thread keeps its kernel stack if the roles of stacks stay.            *)
LEMMA StackKept ==
  ASSUME NEW role, NEW rl, NEW t, Alike(role, rl, "kernel_sp", t), NEW sp, OwnsStack(role, t, sp)
  PROVE  OwnsStack(rl, t, sp)
BY RoleIs DEF Alike, OwnsStack

(* It keeps its top table if the roles of top tables stay.                 *)
LEMMA TopKept ==
  ASSUME NEW role, NEW rl, NEW t, NEW top, OwnsTop(role, t, top),
         \A b \in Blocks : \/ role[b].kind = "table" /\ role[b].of = t /\ role[b].at = 0
                           \/ rl[b].kind = "table" /\ rl[b].of = t /\ rl[b].at = 0
           => rl[b] = role[b]
  PROVE  OwnsTop(rl, t, top)
BY RoleIs DEF OwnsTop

(* It keeps its regions' memory if those roles stay.                       *)
LEMMA AreasKept ==
  ASSUME NEW role, NEW rl, NEW t, Alike(role, rl, "area", t), NEW list, NEW at,
         OwnsAreas(role, t, list, at), NEW ls, NEW k, Held(ls, k) = Held(list, at),
         \A n \in Held(list, at) : ls[n].pa = list[n].pa
  PROVE  OwnsAreas(rl, t, ls, k)
BY RoleIs DEF Alike, OwnsAreas

(* It keeps the blocks of its call if those roles stay.                    *)
LEMMA LocalsKept ==
  ASSUME NEW role, NEW rl, NEW t, Alike(role, rl, "local", t), NEW new, OwnsLocals(role, t, new)
  PROVE  OwnsLocals(rl, t, new)
BY RoleIs DEF Alike, OwnsLocals

(* It keeps all it owns if the roles of all it owns stay.                  *)
LEMMA AllKept ==
  ASSUME NEW role, NEW rl, NEW t, NEW sp, NEW top, NEW list, NEW o,
         ThreadOwns(role, t, sp, top, list, o),
         \A b \in Blocks : \/ role[b].kind \notin Unowned /\ role[b].of = t
                           \/ rl[b].kind \notin Unowned /\ rl[b].of = t
           => rl[b] = role[b]
  PROVE  ThreadOwns(rl, t, sp, top, list, o)
<1>1. Alike(role, rl, "kernel_sp", t) /\ Alike(role, rl, "area", t) /\ Alike(role, rl, "local", t)
  BY DEF Alike, Unowned
<1>2. \A b \in Blocks : \/ role[b].kind = "table" /\ role[b].of = t /\ role[b].at = 0
                        \/ rl[b].kind = "table" /\ rl[b].of = t /\ rl[b].at = 0
        => rl[b] = role[b]
  BY DEF Unowned
<1>3. OwnsStack(rl, t, sp) /\ OwnsTop(rl, t, top)
  BY <1>1, <1>2, StackKept, TopKept DEF ThreadOwns
<1>4. OwnsAreas(rl, t, list, o.at) /\ OwnsLocals(rl, t, o.new)
  BY <1>1, AreasKept, LocalsKept DEF ThreadOwns
<1>. QED  BY <1>3, <1>4 DEF ThreadOwns

(* A step that changes what one thread owns. *)
LEMMA OneOwns ==
  ASSUME NEW role, Owned(role), NEW rl \in [Blocks -> Roles], NEW t \in Threads,
         \A u \in Threads : u # t =>
           /\ status'[u] = "FREE" <=> status[u] = "FREE"
           /\ kernel_sp'[u] = kernel_sp[u] /\ pgd'[u] = pgd[u]
           /\ vma_list'[u] = vma_list[u] /\ op'[u] = op[u],
         status'[t] # "FREE",
         \A b \in Blocks : rl[b] # role[b] =>
           /\ role[b].kind \in Unowned \/ role[b].of = t
           /\ rl[b].kind \in Unowned \/ rl[b].of = t,
         ThreadOwns(rl, t, kernel_sp'[t], pgd'[t], vma_list'[t], op'[t]),
         free_blocks' \in SUBSET Blocks, lost' \in SUBSET Blocks,
         \A b \in Blocks : /\ rl[b].kind = "free" <=> b \in free_blocks'
                           /\ rl[b].kind = "lost" <=> b \in lost',
         Tree(tab', rl)
  PROVE  Owned(rl)'
<1>1. t \in Live' /\ \A u \in Threads : u # t => (u \in Live' <=> u \in Live)
  BY DEF Live
<1>2. ASSUME NEW u \in Live'
      PROVE  ThreadOwns(rl, u, kernel_sp'[u], pgd'[u], vma_list'[u], op'[u])
  <2>1. CASE u = t
    BY <2>1
  <2>2. CASE u # t
    <3>1. u \in Live /\ u \in Threads
      BY <1>1, <2>2 DEF Live
    <3>2. ThreadOwns(role, u, kernel_sp[u], pgd[u], vma_list[u], op[u])
      BY <3>1 DEF Owned
    <3>3. \A b \in Blocks : \/ role[b].kind \notin Unowned /\ role[b].of = u
                            \/ rl[b].kind \notin Unowned /\ rl[b].of = u
            => rl[b] = role[b]
      BY <2>2
    <3>4. ThreadOwns(rl, u, kernel_sp[u], pgd[u], vma_list[u], op[u])
      BY <3>2, <3>3, AllKept
    <3>. QED  BY <2>2, <3>1, <3>4
  <2>. QED  BY <2>1, <2>2
<1>3. \A b \in Blocks : rl[b].kind \notin Unowned => rl[b].of \in Live'
  <2>. SUFFICES ASSUME NEW b \in Blocks, rl[b].kind \notin Unowned
                PROVE  rl[b].of \in Live'
    OBVIOUS
  <2>1. CASE rl[b] = role[b]
    <3>1. role[b].of \in Live /\ role[b].of \in Threads
      BY <2>1 DEF Owned, Live
    <3>. QED  BY <1>1, <2>1, <3>1
  <2>2. CASE rl[b] # role[b]
    BY <1>1, <2>2
  <2>. QED  BY <2>1, <2>2
<1>. QED  BY <1>2, <1>3 DEF Owned

(* The tables stay a tree if their roles stay.                             *)
LEMMA TreeAlike ==
  ASSUME NEW tb, NEW role, Tree(tb, role), NEW rl \in [Blocks -> Roles],
         \A b \in Blocks : role[b].kind = "table" \/ rl[b].kind = "table" => rl[b] = role[b]
  PROVE  Tree(tb, rl)
<1>1. TreeTyped(tb, rl)
  BY DEF Tree, TreeTyped
<1>. DEFINE T == {}
<1>2. /\ \A b \in Blocks : role[b].kind = "table" /\ role[b].of \notin T => rl[b] = role[b] /\ tb[b] = tb[b]
      /\ \A b \in Blocks : rl[b].kind = "table" => role[b].kind = "table" /\ role[b].of \notin T
  OBVIOUS
<1>. HIDE DEF T
<1>. QED  BY <1>1, <1>2, TreeChanged

(* What the thread on the CPU owns. *)
LEMMA OwnerIs ==
  ASSUME VmInv, NEW role, Owned(role), NEW t \in Threads, status[t] # "FREE"
  PROVE  /\ t \in Live /\ ThreadOwns(role, t, kernel_sp[t], pgd[t], vma_list[t], op[t])
         /\ OwnsStack(role, t, kernel_sp[t]) /\ OwnsTop(role, t, pgd[t])
         /\ OwnsAreas(role, t, vma_list[t], op[t].at) /\ OwnsLocals(role, t, op[t].new)
         /\ pgd[t] \in Blocks /\ role[pgd[t]] = Role("table", t, 0)
         /\ Tree(tab, role) /\ role \in [Blocks -> Roles]
BY DEF Owned, ThreadOwns, OwnsTop, Live

(* Nothing changes but which threads run. *)
LEMMA SameOwners ==
  ASSUME NEW role, Owned(role),
         UNCHANGED <<vma_list, pgd, kernel_sp, op, tab, free_blocks, lost>>,
         \A t \in Threads : status'[t] = "FREE" <=> status[t] = "FREE"
  PROVE  Owned(role)'
<1>1. Live' = Live
  BY DEF Live
<1>. QED  BY <1>1 DEF Owned

(* The fault handler finds the first region that matches.                  *)
LEMMA FaultAreaIs ==
  ASSUME NEW list \in Seq(Regions), NEW p \in Nat, NEW first \in BOOLEAN,
         NEW i, i = FaultArea(list, p, first), i # 0
  PROVE  /\ i \in DOMAIN list /\ Matches(list[i], p, first)
         /\ \A j \in DOMAIN list : Matches(list[j], p, first) => i <= j
<1>. DEFINE hits == {j \in DOMAIN list : Matches(list[j], p, first)}
<1>1. hits # {} /\ i = CHOOSE x \in hits : \A j \in hits : x <= j
  BY DEF FaultArea
<1>2. hits \in SUBSET Nat
  <2>1. DOMAIN list = 1 .. Len(list) /\ Len(list) \in Nat
    BY RegionIs
  <2>. QED  BY <2>1
<1>3. \E x \in hits : \A j \in hits : x <= j
  BY <1>1, <1>2, SmallestNumber
<1>4. i \in hits /\ \A j \in hits : i <= j
  <2>. HIDE DEF hits
  <2>. QED  BY <1>1, <1>3
<1>. QED  BY <1>4

FaultEntry(t, p, first) ==
  LET a == vma_list[t][FaultArea(vma_list[t], p, first)]
  IN  [to |-> a.pa, off |-> p - a.va, rwx |-> a.rwx]

(* A page fault: the new tables are the thread's, and only the page's      *)
(* translation changes.                                                    *)
LEMMA FaultOwns ==
  ASSUME VmInv, NEW role, Owned(role), NEW t \in Threads, NEW p \in Touched, NEW first \in BOOLEAN,
         Fault(t, p, first)
  PROVE  /\ \E rl : Owned(rl)'
         /\ Walk(tab', pgd[t], p) = FaultEntry(t, p, first)
         /\ \A u \in Live, q \in Pages : ~(u = t /\ q = p) =>
              Walk(tab', pgd[u], q) = Walk(tab, pgd[u], q)
<1>. DEFINE h == Heap(t)
            e == FaultEntry(t, p, first)
            m == map_one_page(h, pgd[t], p, e)
<1>1. /\ curr = t /\ FaultArea(vma_list[t], p, first) # 0 /\ Cardinality(FreeFor(t)) >= LEVELS
      /\ tab' = m.tab /\ free_blocks' = (free_blocks \ Part(t)) \cup m.free
      /\ UNCHANGED <<status, vma_list, pgd, kernel_sp, op, lost>>
  BY DEF Fault, Running, FaultEntry
<1>2. /\ status[t] # "FREE" /\ vma_list[t] \in Seq(Regions)
  BY <1>1, OnCpu
<1>3. /\ t \in Live /\ ThreadOwns(role, t, kernel_sp[t], pgd[t], vma_list[t], op[t])
      /\ pgd[t] \in Blocks /\ role[pgd[t]] = Role("table", t, 0) /\ Tree(tab, role)
      /\ role \in [Blocks -> Roles]
  BY <1>2, OwnerIs
<1>4. p \in 0 .. NPAGES - 1 /\ p \in Nat
  BY VmAssumption
<1>5. e \in Entry
  <2>. DEFINE i == FaultArea(vma_list[t], p, first)
              a == vma_list[t][i]
  <2>1. i \in DOMAIN vma_list[t] /\ Matches(a, p, first)
    BY <1>1, <1>2, <1>4, FaultAreaIs
  <2>2. a \in Regions
    BY <1>2, <2>1, RegionIs
  <2>3. e = [to |-> a.pa, off |-> p - a.va, rwx |-> a.rwx]
    BY DEF FaultEntry
  <2>. HIDE DEF a, e
  <2>4. a.va \in Nat /\ a.va <= p /\ a.pa \in 0 .. NBLOCKS + 2 /\ a.rwx \in SUBSET {"r", "w", "x"}
    BY <2>1, <2>2 DEF Regions, Matches, RWX
  <2>. QED  BY <1>4, <2>3, <2>4 DEF Entry
<1>6. /\ h \in Heaps /\ h.tab = tab /\ h.free = FreeFor(t)
      /\ \A b \in FreeFor(t) : role[b].kind = "free" /\ b \in free_blocks /\ b \in Part(t)
      /\ FreeFor(t) = free_blocks \cap Part(t)
  <2>1. tab \in [Blocks -> TableTypes]
    BY <1>3 DEF Tree, TreeTyped
  <2>2. FreeFor(t) \in SUBSET Blocks /\ FreeFor(t) = free_blocks \cap Part(t)
    BY DEF FreeFor, Part
  <2>3. h \in Heaps /\ h.tab = tab /\ h.free = FreeFor(t)
    BY <2>1, <2>2 DEF Heap, Heaps
  <2>. QED  BY <2>2, <2>3 DEF Owned
<1>. HIDE DEF e, h
<1>7. /\ m \in Heaps /\ \E rl : Grown(m.tab, m.free, rl, h, role, t)
      /\ Walk(m.tab, pgd[t], p) = e
      /\ \A u : \A top \in Blocks, q \in 0 .. NPAGES - 1 :
           role[top] = Role("table", u, 0) /\ ~(top = pgd[t] /\ q = p) =>
             Walk(m.tab, top, q) = Walk(tab, top, q)
  <2>1. /\ Tree(h.tab, role) /\ \A b \in h.free : role[b].kind = "free"
        /\ Cardinality(h.free) >= LEVELS /\ h \in Heaps
    BY <1>1, <1>3, <1>6
  <2>2. m = map_one_page(h, pgd[t], p, e)
    OBVIOUS
  <2>. HIDE DEF m
  <2>3. m \in Heaps /\ \E rl : Grown(m.tab, m.free, rl, h, role, t)
    BY <1>3, <1>4, <1>5, <2>1, <2>2, PageMapped
  <2>4. /\ Walk(m.tab, pgd[t], p) = e
        /\ \A u : \A top \in Blocks, q \in 0 .. NPAGES - 1 :
             role[top] = Role("table", u, 0) /\ ~(top = pgd[t] /\ q = p) =>
               Walk(m.tab, top, q) = Walk(h.tab, top, q)
    BY <1>3, <1>4, <1>5, <2>1, <2>2, PageMapped
  <2>. QED  BY <1>6, <2>3, <2>4
<1>. HIDE DEF m
<1>8. ASSUME NEW u \in Live, NEW q \in Pages, ~(u = t /\ q = p)
      PROVE  Walk(tab', pgd[u], q) = Walk(tab, pgd[u], q)
  <2>1. pgd[u] \in Blocks /\ role[pgd[u]] = Role("table", u, 0)
    BY DEF Owned, ThreadOwns, OwnsTop
  <2>2. u # t => pgd[u] # pgd[t]
    BY <1>3, <2>1, RoleIs
  <2>. QED  BY <1>1, <1>7, <1>8, <2>1, <2>2 DEF Pages
<1>9. PICK rl : Grown(m.tab, m.free, rl, h, role, t)
  BY <1>7
<1>10. /\ Tree(tab', rl) /\ m.free \subseteq FreeFor(t) /\ rl \in [Blocks -> Roles]
       /\ \A b \in Blocks : IF b \in FreeFor(t) \ m.free
                            THEN rl[b].kind = "table" /\ rl[b].of = t /\ rl[b].at > 0
                            ELSE rl[b] = role[b]
  BY <1>1, <1>6, <1>9 DEF Grown, Tree, TreeTyped
<1>11. ThreadOwns(rl, t, kernel_sp[t], pgd[t], vma_list[t], op[t])
  <2>1. Alike(role, rl, "kernel_sp", t) /\ Alike(role, rl, "area", t) /\ Alike(role, rl, "local", t)
    BY <1>6, <1>10 DEF Alike
  <2>2. \A b \in Blocks : \/ role[b].kind = "table" /\ role[b].of = t /\ role[b].at = 0
                          \/ rl[b].kind = "table" /\ rl[b].of = t /\ rl[b].at = 0
          => rl[b] = role[b]
    BY <1>6, <1>10
  <2>3. OwnsStack(rl, t, kernel_sp[t]) /\ OwnsTop(rl, t, pgd[t])
    BY <1>3, <2>1, <2>2, StackKept, TopKept DEF ThreadOwns
  <2>4. OwnsAreas(rl, t, vma_list[t], op[t].at) /\ OwnsLocals(rl, t, op[t].new)
    BY <1>3, <2>1, AreasKept, LocalsKept DEF ThreadOwns
  <2>. QED  BY <2>3, <2>4 DEF ThreadOwns
<1>12. /\ free_blocks' \in SUBSET Blocks /\ lost' \in SUBSET Blocks
       /\ \A b \in Blocks : /\ rl[b].kind = "free" <=> b \in free_blocks'
                            /\ rl[b].kind = "lost" <=> b \in lost'
  <2>1. /\ \A b \in Blocks : /\ role[b].kind = "free" <=> b \in free_blocks
                             /\ role[b].kind = "lost" <=> b \in lost
        /\ free_blocks \in SUBSET Blocks /\ lost \in SUBSET Blocks
    BY DEF Owned
  <2>. QED  BY <1>1, <1>6, <1>10, <2>1
<1>13. \A b \in Blocks : rl[b] # role[b] =>
         /\ role[b].kind \in Unowned \/ role[b].of = t
         /\ rl[b].kind \in Unowned \/ rl[b].of = t
  BY <1>6, <1>10 DEF Unowned
<1>14. Owned(rl)'
  BY <1>1, <1>2, <1>10, <1>11, <1>12, <1>13, OneOwns
<1>. QED  BY <1>1, <1>7, <1>8, <1>14 DEF e

(* A step in a call of the thread on the CPU: only the memory of its       *)
(* regions and its locals change hands.                                    *)
Handed == Unowned \cup {"area", "local"}

(* A step of a call that hands blocks between its thread, its locals and   *)
(* the heap keeps one role per block.                                      *)
LEMMA CallOwns ==
  ASSUME VmInv, NEW role, Owned(role), NEW rl \in [Blocks -> Roles], NEW t \in Threads, curr = t,
         UNCHANGED <<status, pgd, kernel_sp, tab>>,
         NEW list, vma_list' = [vma_list EXCEPT ![t] = list],
         NEW o, op' = [op EXCEPT ![t] = o],
         \A b \in Blocks : rl[b] # role[b] =>
           /\ role[b].kind \in Handed /\ (role[b].kind \in Unowned \/ role[b].of = t)
           /\ rl[b].kind \in Handed /\ (rl[b].kind \in Unowned \/ rl[b].of = t),
         OwnsAreas(rl, t, list, o.at), OwnsLocals(rl, t, o.new),
         free_blocks' \in SUBSET Blocks, lost' \in SUBSET Blocks,
         \A b \in Blocks : /\ rl[b].kind = "free" <=> b \in free_blocks'
                           /\ rl[b].kind = "lost" <=> b \in lost'
  PROVE  Owned(rl)'
<1>1. status[t] # "FREE" /\ vma_list \in [Threads -> Seq(Regions)] /\ op \in [Threads -> Ops]
  BY OnCpu DEF VmInv, VmTypeOK
<1>2. /\ vma_list'[t] = list /\ op'[t] = o
      /\ \A u \in Threads : u # t => vma_list'[u] = vma_list[u] /\ op'[u] = op[u]
  BY <1>1
<1>3. /\ OwnsStack(role, t, kernel_sp[t]) /\ OwnsTop(role, t, pgd[t]) /\ Tree(tab, role)
  BY <1>1, OwnerIs
<1>4. \A b \in Blocks : role[b].kind \in {"table", "kernel_sp"} \/ rl[b].kind \in {"table", "kernel_sp"}
        => rl[b] = role[b]
  BY DEF Handed, Unowned
<1>5. OwnsStack(rl, t, kernel_sp[t]) /\ OwnsTop(rl, t, pgd[t])
  <2>1. Alike(role, rl, "kernel_sp", t)
    BY <1>4 DEF Alike
  <2>2. \A b \in Blocks : \/ role[b].kind = "table" /\ role[b].of = t /\ role[b].at = 0
                          \/ rl[b].kind = "table" /\ rl[b].of = t /\ rl[b].at = 0
          => rl[b] = role[b]
    BY <1>4
  <2>. QED  BY <1>3, <2>1, <2>2, StackKept, TopKept
<1>6. ThreadOwns(rl, t, kernel_sp'[t], pgd'[t], vma_list'[t], op'[t])
  BY <1>2, <1>5 DEF ThreadOwns
<1>7. Tree(tab', rl)
  <2>1. Tree(tab, rl)
    BY <1>3, <1>4, TreeAlike
  <2>. QED  BY <2>1
<1>8. \A b \in Blocks : rl[b] # role[b] =>
        /\ role[b].kind \in Unowned \/ role[b].of = t
        /\ rl[b].kind \in Unowned \/ rl[b].of = t
  OBVIOUS
<1>9. \A u \in Threads : u # t =>
        /\ status'[u] = "FREE" <=> status[u] = "FREE"
        /\ kernel_sp'[u] = kernel_sp[u] /\ pgd'[u] = pgd[u]
        /\ vma_list'[u] = vma_list[u] /\ op'[u] = op[u]
  BY <1>2
<1>10. status'[t] # "FREE"
  BY <1>1
<1>. QED  BY <1>6, <1>7, <1>8, <1>9, <1>10, OneOwns

(* What holds of calls still holds after such a step.                      *)
LEMMA CallKept ==
  ASSUME VmInv, CallInv, NEW t \in Threads, curr = t, UNCHANGED <<status, rq>>,
         NEW list, vma_list' = [vma_list EXCEPT ![t] = list],
         NEW o, op' = [op EXCEPT ![t] = o],
         o.pc = "del" /\ o.at <= Len(list) => list[o.at].is_alloced
  PROVE  CallInv'
<1>1. vma_list \in [Threads -> Seq(Regions)] /\ op \in [Threads -> Ops] /\ rq \in SUBSET Threads
  BY DEF VmInv, VmTypeOK
<1>2. t \notin rq
  BY ThreadNumbers DEF VmInv, ThreadInv
<1>3. /\ vma_list'[t] = list /\ op'[t] = o
      /\ \A u \in Threads : u # t => vma_list'[u] = vma_list[u] /\ op'[u] = op[u]
  BY <1>1
<1>4. \A u \in rq' : status'[u] = "ZOMBIE" => op'[u].pc = "user"
  BY <1>1, <1>2, <1>3 DEF CallInv
<1>5. ASSUME NEW u \in Threads, op'[u].pc = "del", op'[u].at <= Len(vma_list'[u])
      PROVE  vma_list'[u][op'[u].at].is_alloced
  <2>1. CASE u = t
    BY <1>3, <1>5, <2>1
  <2>2. CASE u # t
    BY <1>3, <1>5, <2>2 DEF CallInv
  <2>. QED  BY <2>1, <2>2
<1>. QED  BY <1>4, <1>5 DEF CallInv

-----------------------------------------------------------------------------
(* What a thread owns during exec. *)

(* Regions without memory hold no blocks.                                  *)
LEMMA HeldFromNext ==
  ASSUME NEW list \in Seq(Regions), NEW k \in Nat, k <= Len(list) + 1
  PROVE  Held(list, NextAlloced(list, k)) = Held(list, k)
<1>. DEFINE x == NextAlloced(list, k)
<1>1. Len(list) \in Nat /\ DOMAIN list = 1 .. Len(list)
  BY RegionIs
<1>2. x \in Nat /\ k <= x /\ \A i \in k .. Len(list) : list[i].is_alloced => x <= i
  <2>1. x \in Nat /\ x \in k .. Len(list) + 1
        /\ \A i \in k .. Len(list) : list[i].is_alloced => x <= i
    BY NextIs
  <2>. QED  BY <1>1, <2>1
<1>. HIDE DEF x
<1>3. ASSUME NEW i \in DOMAIN list, list[i].is_alloced
      PROVE  i >= x <=> i >= k
  <2>1. i \in Nat /\ i <= Len(list)
    BY <1>1
  <2>2. i >= k => i >= x
    BY <1>1, <1>2, <1>3, <2>1
  <2>3. i >= x => i >= k
    BY <1>2, <2>1
  <2>. QED  BY <2>2, <2>3
<1>4. \A i : i \in Held(list, x) <=> i \in Held(list, k)
  BY <1>3 DEF Held
<1>5. Held(list, x) = Held(list, k)
  BY <1>4
<1>. QED  BY <1>5 DEF x

(* The start of exec moves no block.                                       *)
LEMMA ExecOwns ==
  ASSUME VmInv, CallInv, NEW role, Owned(role), NEW t \in Threads, exec(t)
  PROVE  CallInv' /\ Owned(role)' /\ refreed' = refreed
<1>. DEFINE list == vma_list[t]
            k == NextAlloced(list, 1)
            o == [User EXCEPT !.pc = "del", !.at = k]
<1>1. /\ curr = t /\ op[t].pc = "user" /\ op' = [op EXCEPT ![t] = o]
      /\ UNCHANGED <<status, rq, curr, pgd, kernel_sp, vma_list, tab, free_blocks, lost, refreed>>
  BY DEF exec, Running
<1>2. /\ list \in Seq(Regions) /\ Len(list) \in Nat /\ status[t] # "FREE"
      /\ vma_list' = [vma_list EXCEPT ![t] = list] /\ op[t] = User
  BY <1>1, OnCpu, OpsAre
<1>3. o.pc = "del" /\ o.at = k /\ o.new = <<>>
  BY DEF User
<1>4. Held(list, k) = Held(list, 0)
  <2>1. DOMAIN list = 1 .. Len(list) /\ 1 <= Len(list) + 1
    BY <1>2, RegionIs
  <2>2. Held(list, k) = Held(list, 1)
    BY <1>2, <2>1, HeldFromNext
  <2>3. \A i : i \in Held(list, 1) <=> i \in Held(list, 0)
    BY <2>1 DEF Held
  <2>. HIDE DEF list, k
  <2>. QED  BY <2>2, <2>3
<1>5. k <= Len(list) => list[k].is_alloced
  BY <1>2, NextIs
<1>. HIDE DEF k, o
<1>6. CallInv'
  BY <1>1, <1>2, <1>3, <1>5, CallKept
<1>7. OwnsAreas(role, t, list, 0) /\ OwnsLocals(role, t, <<>>) /\ role \in [Blocks -> Roles]
  BY <1>1, <1>2, OpsAre, OwnerIs
<1>8. OwnsAreas(role, t, list, o.at) /\ OwnsLocals(role, t, o.new)
  BY <1>3, <1>4, <1>7 DEF OwnsAreas
<1>9. /\ free_blocks' \in SUBSET Blocks /\ lost' \in SUBSET Blocks
      /\ \A b \in Blocks : /\ role[b].kind = "free" <=> b \in free_blocks'
                           /\ role[b].kind = "lost" <=> b \in lost'
  BY <1>1 DEF Owned
<1>10. Owned(role)'
  BY <1>1, <1>2, <1>7, <1>8, <1>9, CallOwns
<1>. QED  BY <1>1, <1>6, <1>10

(* Freeing a region returns its block.                                     *)
LEMMA ExecDelOwns ==
  ASSUME VmInv, CallInv, NEW role, Owned(role), refreed = {}, NEW t \in Threads, ExecDel(t)
  PROVE  CallInv' /\ (\E rl : Owned(rl)') /\ refreed' = {}
<1>. DEFINE list == vma_list[t]
            i == op[t].at
            pa == list[i].pa
            k == NextAlloced(list, i + 1)
            o == [op[t] EXCEPT !.at = k]
<1>1. /\ curr = t /\ op[t].pc = "del" /\ i <= Len(list) /\ op' = [op EXCEPT ![t] = o]
      /\ UNCHANGED <<status, rq, curr, pgd, kernel_sp, vma_list, tab, lost>>
  BY DEF ExecDel
<1>2. free_blocks' = free_blocks \cup {pa} /\ refreed' = refreed \cup ({pa} \cap free_blocks)
  BY DEF ExecDel, kfree
<1>3. /\ list \in Seq(Regions) /\ Len(list) \in Nat /\ status[t] # "FREE"
      /\ vma_list' = [vma_list EXCEPT ![t] = list] /\ op[t] \in Ops
      /\ i \in Nat /\ i > 0 /\ op[t].new = <<>>
  BY <1>1, OnCpu, OpsAre
<1>4. DOMAIN list = 1 .. Len(list) /\ i \in DOMAIN list
  BY <1>1, <1>3, RegionIs
<1>5. list[i].is_alloced /\ i \in Held(list, i)
  <2>1. list[i].is_alloced
    BY <1>1 DEF CallInv
  <2>. QED  BY <1>3, <1>4, <2>1 DEF Held
<1>6. /\ OwnsAreas(role, t, list, i) /\ OwnsLocals(role, t, <<>>) /\ role \in [Blocks -> Roles]
  BY <1>1, <1>3, OwnerIs
<1>7. pa \in Blocks /\ role[pa] = Role("area", t, i)
  BY <1>5, <1>6 DEF OwnsAreas
<1>8. pa \notin free_blocks /\ refreed' = {}
  <2>1. pa \notin free_blocks
    BY <1>7, RoleIs DEF Owned
  <2>. QED  BY <1>2, <2>1
<1>9. Held(list, k) = Held(list, i) \ {i} /\ (k <= Len(list) => list[k].is_alloced)
  <2>1. i + 1 \in Nat /\ i + 1 <= Len(list) + 1
    BY <1>1, <1>3
  <2>2. Held(list, k) = Held(list, i + 1) /\ (k <= Len(list) => list[k].is_alloced)
    BY <1>3, <2>1, HeldFromNext, NextIs
  <2>3. \A x \in DOMAIN list : x >= i + 1 <=> x >= i /\ x # i
    BY <1>3, <1>4
  <2>4. \A x : x \in Held(list, i + 1) <=> x \in Held(list, i) /\ x # i
    BY <2>3 DEF Held
  <2>. HIDE DEF list, k, i
  <2>. QED  BY <2>2, <2>4
<1>10. o.pc = "del" /\ o.at = k /\ o.new = <<>>
  <2>1. op[t] \in [pc : {"del"}, at : Nat \ {0}, new : {<<>>}, ask : {<<>>}]
    BY <1>1, <1>3 DEF Ops, User
  <2>. HIDE DEF k, list
  <2>. QED  BY <2>1
<1>. HIDE DEF k, o
<1>11. CallInv'
  BY <1>1, <1>3, <1>9, <1>10, CallKept
<1>. HIDE DEF pa
<1>a. PICK rl : rl = [role EXCEPT ![pa] = Role("free", t, 0)]
  OBVIOUS
<1>12. /\ rl \in [Blocks -> Roles] /\ rl[pa] = Role("free", t, 0) /\ rl[pa].kind = "free"
       /\ \A b \in Blocks : b # pa => rl[b] = role[b]
  <2>1. Role("free", t, 0) \in Roles /\ Role("free", t, 0).kind = "free"
    BY RoleIs
  <2>. QED  BY <1>a, <1>6, <1>7, <2>1
<1>13. role[pa].kind = "area" /\ role[pa].of = t /\ role[pa].at = i
  BY <1>7, RoleIs
<1>14. \A b \in Blocks : rl[b] # role[b] =>
         /\ role[b].kind \in Handed /\ (role[b].kind \in Unowned \/ role[b].of = t)
         /\ rl[b].kind \in Handed /\ (rl[b].kind \in Unowned \/ rl[b].of = t)
  BY <1>12, <1>13 DEF Handed, Unowned
<1>15. OwnsAreas(rl, t, list, o.at)
  <2>1. \A n \in Held(list, i) : n # i => list[n].pa # pa
    <3>1. \A n \in Held(list, i) : role[list[n].pa].at = n
      BY <1>6, RoleIs DEF OwnsAreas
    <3>. QED  BY <1>13, <3>1
  <2>2. \A n \in Held(list, o.at) : list[n].pa \in Blocks /\ rl[list[n].pa] = Role("area", t, n)
    BY <1>6, <1>9, <1>10, <1>12, <2>1 DEF OwnsAreas
  <2>3. ASSUME NEW b \in Blocks, rl[b].kind = "area", rl[b].of = t
        PROVE  rl[b].at \in Held(list, o.at) /\ list[rl[b].at].pa = b
    <3>1. b # pa /\ rl[b] = role[b]
      BY <1>12, <2>3
    <3>2. role[b].at \in Held(list, i) /\ list[role[b].at].pa = b
      BY <1>6, <2>3, <3>1 DEF OwnsAreas
    <3>. QED  BY <1>9, <1>10, <3>1, <3>2 DEF pa
  <2>. QED  BY <2>2, <2>3 DEF OwnsAreas
<1>16. OwnsLocals(rl, t, o.new)
  <2>1. Alike(role, rl, "local", t)
    BY <1>12, <1>13 DEF Alike
  <2>. QED  BY <1>6, <1>10, <2>1, LocalsKept
<1>17. /\ free_blocks' \in SUBSET Blocks /\ lost' \in SUBSET Blocks
       /\ \A b \in Blocks : /\ rl[b].kind = "free" <=> b \in free_blocks'
                            /\ rl[b].kind = "lost" <=> b \in lost'
  <2>1. /\ free_blocks \in SUBSET Blocks /\ lost \in SUBSET Blocks
        /\ \A b \in Blocks : /\ role[b].kind = "free" <=> b \in free_blocks
                             /\ role[b].kind = "lost" <=> b \in lost
    BY DEF Owned
  <2>. QED  BY <1>1, <1>2, <1>7, <1>12, <1>13, <2>1
<1>18. Owned(rl)'
  <2>1. /\ curr = t /\ UNCHANGED <<status, pgd, kernel_sp, tab>> /\ rl \in [Blocks -> Roles]
        /\ vma_list' = [vma_list EXCEPT ![t] = list] /\ op' = [op EXCEPT ![t] = o]
    BY <1>1, <1>3, <1>12
  <2>. HIDE DEF list, i
  <2>. QED  BY <2>1, <1>14, <1>15, <1>16, <1>17, CallOwns
<1>. QED  BY <1>8, <1>11, <1>18

(* Blocks get new roles. *)
Given(rl, role, f, r, n) ==
  /\ rl \in [Blocks -> Roles] /\ \A i \in 1 .. n : rl[f[i]] = r[i]
  /\ \A b \in Blocks : (\A i \in 1 .. n : b # f[i]) => rl[b] = role[b]

(* New roles for some blocks, the old ones for the others.                 *)
LEMMA RolesGiven ==
  ASSUME NEW role \in [Blocks -> Roles], NEW n \in Nat, NEW f \in [1 .. n -> Blocks],
         \A i, j \in 1 .. n : i # j => f[i] # f[j], NEW r \in [1 .. n -> Roles]
  PROVE  \E rl : Given(rl, role, f, r, n)
<1>. DEFINE at(b) == CHOOSE i \in 1 .. n : f[i] = b
            rl == [b \in Blocks |-> IF \E i \in 1 .. n : f[i] = b THEN r[at(b)] ELSE role[b]]
<1>1. \A b \in Blocks : (\E i \in 1 .. n : f[i] = b) => at(b) \in 1 .. n /\ f[at(b)] = b
  OBVIOUS
<1>2. \A i \in 1 .. n : at(f[i]) = i
  BY <1>1
<1>. HIDE DEF at
<1>3. rl \in [Blocks -> Roles]
  BY <1>1
<1>4. \A i \in 1 .. n : rl[f[i]] = r[i]
  BY <1>2
<1>5. \A b \in Blocks : (\A i \in 1 .. n : b # f[i]) => rl[b] = role[b]
  OBVIOUS
<1>. HIDE DEF rl
<1>. QED  BY <1>3, <1>4, <1>5 DEF Given

(* exec's blocks are its locals', but for the one it forgets.              *)
LEMMA ExecAllocOwns ==
  ASSUME VmInv, CallInv, NEW role, Owned(role), NEW t \in Threads, ExecAlloc(t)
  PROVE  CallInv' /\ (\E rl : Owned(rl)') /\ refreed' = refreed
<1>. DEFINE list == vma_list[t]
            new == [i \in 1 .. 3 |-> Fresh(FreeFor(t), i + 1)]
            o == [User EXCEPT !.pc = "tables", !.new = new]
<1>1. /\ curr = t /\ op[t].pc = "del" /\ op[t].at > Len(list) /\ Cardinality(FreeFor(t)) >= 4
      /\ op' = [op EXCEPT ![t] = o] /\ vma_list' = [vma_list EXCEPT ![t] = <<>>]
      /\ UNCHANGED <<status, rq, curr, pgd, kernel_sp, tab, refreed>>
      /\ lost' = lost \cup {Fresh(FreeFor(t), 1)}
      /\ free_blocks' = free_blocks \ {Fresh(FreeFor(t), i) : i \in 1 .. 4}
  BY DEF ExecAlloc
<1>2. PICK f \in [1 .. 4 -> Blocks] :
        /\ \A i \in 1 .. 4 : f[i] = Fresh(FreeFor(t), i) /\ f[i] \in free_blocks
        /\ \A i, j \in 1 .. 4 : i # j => f[i] # f[j]
  <2>. DEFINE f == [i \in 1 .. 4 |-> Fresh(FreeFor(t), i)]
  <2>1. /\ FreeFor(t) \subseteq free_blocks
        /\ \A i \in 1 .. 4 : Fresh(FreeFor(t), i) \in FreeFor(t) /\ Fresh(FreeFor(t), i) \in Blocks
        /\ \A i, j \in 1 .. 4 : i # j => Fresh(FreeFor(t), i) # Fresh(FreeFor(t), j)
    BY <1>1, FreeForIs
  <2>2. f \in [1 .. 4 -> Blocks] /\ \A i \in 1 .. 4 : f[i] = Fresh(FreeFor(t), i) /\ f[i] \in free_blocks
    BY <2>1
  <2>3. \A i, j \in 1 .. 4 : i # j => f[i] # f[j]
    BY <2>1
  <2>. HIDE DEF f
  <2>. QED  BY <2>2, <2>3
<1>3. new \in [1 .. 3 -> Blocks] /\ \A i \in 1 .. 3 : new[i] = f[i + 1]
  <2>1. \A i \in 1 .. 3 : i + 1 \in 1 .. 4
    OBVIOUS
  <2>. QED  BY <1>2, <2>1
<1>4. free_blocks' = free_blocks \ {f[i] : i \in 1 .. 4} /\ lost' = lost \cup {f[1]}
  <2>1. \A i \in 1 .. 4 : f[i] = Fresh(FreeFor(t), i)
    BY <1>2
  <2>. QED  BY <1>1, <2>1
<1>. HIDE DEF new
<1>5. o.pc = "tables" /\ o.at = 0 /\ o.new = new
  BY DEF User
<1>. HIDE DEF o
<1>6. CallInv'
  BY <1>1, <1>5, CallKept
<1>7. /\ list \in Seq(Regions) /\ op[t] \in Ops /\ op[t].new = <<>> /\ status[t] # "FREE"
  BY <1>1, OnCpu, OpsAre
<1>8. /\ OwnsAreas(role, t, list, op[t].at) /\ OwnsLocals(role, t, <<>>) /\ role \in [Blocks -> Roles]
  BY <1>1, <1>7, OwnerIs
<1>9. \A b \in Blocks : role[b].of = t => role[b].kind \notin {"area", "local"}
  <2>1. Held(list, op[t].at) = {}
    <3>1. DOMAIN list = 1 .. Len(list) /\ Len(list) \in Nat /\ op[t].at \in Nat
      BY <1>7, RegionIs, OpsAre
    <3>2. \A n \in DOMAIN list : ~(n >= op[t].at)
      BY <1>1, <3>1
    <3>. QED  BY <3>2 DEF Held
  <2>2. \A b \in Blocks : role[b].kind = "area" /\ role[b].of = t => FALSE
    BY <1>8, <2>1 DEF OwnsAreas
  <2>3. \A b \in Blocks : role[b].kind = "local" /\ role[b].of = t => FALSE
    BY <1>8 DEF OwnsLocals
  <2>. QED  BY <2>2, <2>3
<1>10. PICK rl : Given(rl, role, f,
                       [i \in 1 .. 4 |-> IF i = 1 THEN Role("lost", t, 0) ELSE Role("local", t, i - 1)], 4)
  <2>. DEFINE r == [i \in 1 .. 4 |-> IF i = 1 THEN Role("lost", t, 0) ELSE Role("local", t, i - 1)]
  <2>1. r \in [1 .. 4 -> Roles]
    <3>1. \A i \in 1 .. 4 : i # 1 => i - 1 \in Nat
      OBVIOUS
    <3>2. Role("lost", t, 0) \in Roles /\ \A n \in Nat : Role("local", t, n) \in Roles
      BY RoleIs
    <3>. QED  BY <3>1, <3>2
  <2>. HIDE DEF r
  <2>2. \E rl : Given(rl, role, f, r, 4)
    BY <1>2, <1>8, <2>1, RolesGiven
  <2>. QED  BY <2>2 DEF r
<1>11. /\ rl \in [Blocks -> Roles] /\ rl[f[1]] = Role("lost", t, 0)
       /\ \A i \in 1 .. 3 : rl[new[i]] = Role("local", t, i)
       /\ \A b \in Blocks : (\A i \in 1 .. 4 : b # f[i]) => rl[b] = role[b]
  <2>1. \A i \in 1 .. 3 : i + 1 \in 1 .. 4 /\ i + 1 # 1 /\ (i + 1) - 1 = i
    OBVIOUS
  <2>2. /\ \A i \in 1 .. 4 : rl[f[i]] = IF i = 1 THEN Role("lost", t, 0) ELSE Role("local", t, i - 1)
        /\ rl \in [Blocks -> Roles]
        /\ \A b \in Blocks : (\A i \in 1 .. 4 : b # f[i]) => rl[b] = role[b]
    BY <1>10 DEF Given
  <2>3. rl[f[1]] = Role("lost", t, 0)
    BY <2>2
  <2>4. \A i \in 1 .. 3 : rl[f[i + 1]] = Role("local", t, i)
    BY <2>1, <2>2
  <2>. QED  BY <1>3, <2>2, <2>3, <2>4
<1>12. \A i \in 1 .. 4 : role[f[i]].kind = "free"
  BY <1>2 DEF Owned
<1>13. \A b \in Blocks : \/ rl[b] = role[b] /\ \A i \in 1 .. 4 : b # f[i]
                         \/ b = f[1]
                         \/ \E i \in 1 .. 3 : b = new[i] /\ b = f[i + 1]
  <2>1. \A i \in 1 .. 4 : i = 1 \/ \E j \in 1 .. 3 : i = j + 1
    <3>1. \A i \in 1 .. 4 : i = 1 \/ (i - 1 \in 1 .. 3 /\ i = (i - 1) + 1)
      OBVIOUS
    <3>. QED  BY <3>1
  <2>. QED  BY <1>3, <1>11, <2>1
<1>14. \A b \in Blocks : rl[b] # role[b] =>
         /\ role[b].kind \in Handed /\ (role[b].kind \in Unowned \/ role[b].of = t)
         /\ rl[b].kind \in Handed /\ (rl[b].kind \in Unowned \/ rl[b].of = t)
  <2>1. /\ rl[f[1]].kind = "lost" /\ \A i \in 1 .. 3 : rl[new[i]].kind = "local" /\ rl[new[i]].of = t
    BY <1>11, RoleIs
  <2>2. \A i \in 1 .. 3 : i + 1 \in 1 .. 4
    OBVIOUS
  <2>. QED  BY <1>12, <1>13, <2>1, <2>2 DEF Handed, Unowned
<1>15. OwnsAreas(rl, t, <<>>, o.at)
  <2>1. Held(<<>>, o.at) = {}
    BY DEF Held
  <2>2. \A b \in Blocks : rl[b].of = t => rl[b].kind # "area"
    BY <1>9, <1>11, <1>13, RoleIs
  <2>. QED  BY <2>1, <2>2 DEF OwnsAreas
<1>16. OwnsLocals(rl, t, o.new)
  <2>1. DOMAIN new = 1 .. 3
    BY <1>3
  <2>2. \A n \in 1 .. 3 : new[n] \in Blocks /\ rl[new[n]] = Role("local", t, n)
    BY <1>3, <1>11
  <2>3. ASSUME NEW b \in Blocks, rl[b].kind = "local", rl[b].of = t
        PROVE  rl[b].at \in 1 .. 3 /\ new[rl[b].at] = b
    <3>1. rl[b] # role[b] /\ b # f[1]
      BY <1>9, <1>11, <2>3, RoleIs
    <3>2. PICK i \in 1 .. 3 : b = new[i]
      BY <1>13, <3>1
    <3>. QED  BY <2>2, <3>2, RoleIs
  <2>. QED  BY <1>5, <2>1, <2>2, <2>3 DEF OwnsLocals
<1>17. /\ free_blocks' \in SUBSET Blocks /\ lost' \in SUBSET Blocks
       /\ \A b \in Blocks : /\ rl[b].kind = "free" <=> b \in free_blocks'
                            /\ rl[b].kind = "lost" <=> b \in lost'
  <2>1. /\ free_blocks \in SUBSET Blocks /\ lost \in SUBSET Blocks
        /\ \A b \in Blocks : /\ role[b].kind = "free" <=> b \in free_blocks
                             /\ role[b].kind = "lost" <=> b \in lost
    BY DEF Owned
  <2>2. free_blocks' \in SUBSET Blocks /\ lost' \in SUBSET Blocks /\ f[1] \in Blocks
    BY <1>2, <1>4, <2>1
  <2>3. ASSUME NEW b \in Blocks
        PROVE  /\ rl[b].kind = "free" <=> b \in free_blocks'
               /\ rl[b].kind = "lost" <=> b \in lost'
    <3>1. CASE rl[b] = role[b] /\ \A i \in 1 .. 4 : b # f[i]
      BY <1>4, <2>1, <3>1
    <3>2. CASE b = f[1]
      BY <1>4, <1>11, <3>2, RoleIs
    <3>3. CASE \E i \in 1 .. 3 : b = new[i] /\ b = f[i + 1]
      <4>1. PICK i \in 1 .. 3 : b = new[i] /\ b = f[i + 1]
        BY <3>3
      <4>2. i + 1 \in 1 .. 4 /\ i + 1 # 1
        OBVIOUS
      <4>3. b # f[1] /\ role[b].kind = "free" /\ rl[b].kind = "local"
        <5>1. rl[b] = Role("local", t, i)
          BY <1>11, <4>1
        <5>2. b # f[1]
          BY <1>2, <4>1, <4>2
        <5>3. role[b].kind = "free"
          BY <1>12, <4>1, <4>2
        <5>. QED  BY <5>1, <5>2, <5>3, RoleIs
      <4>4. b \notin free_blocks' /\ b \notin lost'
        BY <1>4, <2>1, <4>1, <4>2, <4>3
      <4>. QED  BY <4>3, <4>4
    <3>. QED  BY <1>13, <3>1, <3>2, <3>3
  <2>. QED  BY <2>2, <2>3
<1>18. Owned(rl)'
  <2>1. /\ curr = t /\ UNCHANGED <<status, pgd, kernel_sp, tab>> /\ rl \in [Blocks -> Roles]
        /\ vma_list' = [vma_list EXCEPT ![t] = <<>>] /\ op' = [op EXCEPT ![t] = o]
    BY <1>1, <1>11
  <2>. QED  BY <2>1, <1>14, <1>15, <1>16, <1>17, CallOwns
<1>. QED  BY <1>1, <1>6, <1>18

(* A thread whose tables a step leaves alone finds the same pages. *)
LEMMA SameWalks ==
  ASSUME NEW role, Owned(role), NEW rl, Owned(rl)', NEW u \in Live, u \in Live',
         pgd'[u] = pgd[u],
         \A b \in Blocks : role[b].kind = "table" /\ role[b].of = u => tab'[b] = tab[b]
  PROVE  \A p \in Nat : Walk(tab', pgd[u], p) = Walk(tab, pgd[u], p)
<1>1. Tree(tab, role) /\ pgd[u] \in Blocks /\ role[pgd[u]] = Role("table", u, 0)
  BY DEF Owned, ThreadOwns, OwnsTop
<1>2. Tree(tab', rl) /\ rl[pgd'[u]] = Role("table", u, 0)
  BY DEF Owned, ThreadOwns, OwnsTop
<1>3. rl[pgd[u]] = Role("table", u, 0)
  BY <1>2
<1>. QED  BY <1>1, <1>2, <1>3, WalkSame

(* Pages are numbers.                                                      *)
LEMMA PagesAreNumbers == NPAGES \in Nat /\ Pages = 0 .. NPAGES - 1 /\ \A p \in Pages : p \in Nat
<1>1. NPAGES \in Nat
  BY VmAssumption, Spans
<1>. QED  BY <1>1 DEF Pages

(* The tables that go with the thread t, and what it is left with. *)
LEMMA TablesGone ==
  ASSUME VmInv, NEW role, Owned(role), NEW t \in Threads, status[t] # "FREE"
  PROVE  FreedTables(tab, pgd[t])
           = {b \in Blocks : role[b].kind = "table" /\ role[b].of = t /\ role[b].at > 0}
<1>1. /\ Tree(tab, role) /\ pgd[t] \in Blocks /\ role[pgd[t]] = Role("table", t, 0)
      /\ OwnsTop(role, t, pgd[t])
  BY OwnerIs
<1>2. \A b \in Blocks : role[b] = Role("table", t, 0) => b = pgd[t]
  BY <1>1, RoleIs DEF OwnsTop
<1>3. TablesTo(tab, pgd[t], LEVELS - 1)
        = {b \in Blocks : role[b].kind = "table" /\ role[b].of = t /\ role[b].at > 0}
  BY <1>1, <1>2, TablesAre
<1>. QED  BY <1>3 DEF FreedTables

(* Freeing the tables returns those of the thread and leaves the walks of  *)
(* others.                                                                 *)
LEMMA ExecTablesOwns ==
  ASSUME VmInv, CallInv, NEW role, Owned(role), refreed = {}, NEW t \in Threads, ExecTables(t)
  PROVE  /\ CallInv' /\ (\E rl : Owned(rl)') /\ refreed' = {}
         /\ \A p \in Pages : Walk(tab', pgd[t], p) = NoEntry
         /\ \A u \in Live : u # t => \A p \in Pages : Walk(tab', pgd[u], p) = Walk(tab, pgd[u], p)
<1>. DEFINE old == FreedTables(tab, pgd[t])
            o == [op[t] EXCEPT !.pc = "areas"]
<1>1. /\ curr = t /\ op[t].pc = "tables"
      /\ tab' = [b \in Blocks |-> IF b \in old \cup {pgd[t]} THEN EmptyTable ELSE tab[b]]
      /\ op' = [op EXCEPT ![t] = o]
      /\ UNCHANGED <<status, rq, curr, vma_list, pgd, kernel_sp, lost>>
  BY DEF ExecTables
<1>2. free_blocks' = free_blocks \cup old /\ refreed' = refreed \cup (old \cap free_blocks)
  BY DEF ExecTables, kfree
<1>3. status[t] # "FREE" /\ op[t] \in Ops /\ vma_list' = [vma_list EXCEPT ![t] = vma_list[t]]
  BY <1>1, OnCpu
<1>4. /\ t \in Live /\ ThreadOwns(role, t, kernel_sp[t], pgd[t], vma_list[t], op[t])
      /\ OwnsStack(role, t, kernel_sp[t]) /\ OwnsTop(role, t, pgd[t])
      /\ OwnsAreas(role, t, vma_list[t], op[t].at) /\ OwnsLocals(role, t, op[t].new)
      /\ pgd[t] \in Blocks /\ role[pgd[t]] = Role("table", t, 0)
      /\ Tree(tab, role) /\ role \in [Blocks -> Roles]
  BY <1>3, OwnerIs
<1>5. old = {b \in Blocks : role[b].kind = "table" /\ role[b].of = t /\ role[b].at > 0}
  BY <1>3, TablesGone
<1>. HIDE DEF old
<1>6. o.pc = "areas" /\ o.at = op[t].at /\ o.new = op[t].new
  <2>1. op[t] \in [pc : {"tables", "areas"}, at : {0}, new : [1 .. 3 -> Blocks], ask : {<<>>}]
    BY <1>1, <1>3 DEF Ops, User
  <2>. QED  BY <2>1
<1>. HIDE DEF o
<1>7. CallInv'
  BY <1>1, <1>3, <1>6, CallKept
<1>8. refreed' = {}
  <2>1. \A b \in old : b \notin free_blocks
    BY <1>5 DEF Owned
  <2>. QED  BY <1>2, <2>1
<1>9. PICK rl : rl = [b \in Blocks |-> IF b \in old THEN Role("free", t, 0) ELSE role[b]]
  OBVIOUS
<1>10. /\ rl \in [Blocks -> Roles]
       /\ \A b \in Blocks : rl[b] = IF b \in old THEN Role("free", t, 0) ELSE role[b]
       /\ Role("free", t, 0).kind = "free"
  <2>1. Role("free", t, 0) \in Roles /\ Role("free", t, 0).kind = "free"
    BY RoleIs
  <2>. QED  BY <1>4, <1>9, <2>1
<1>11. Tree(tab', rl)
  <2>1. tab \in [Blocks -> TableTypes] /\ \A b \in Blocks : role[b].kind = "table" => role[b].at <= LEVELS - 1
    BY <1>4 DEF Tree, TreeTyped
  <2>2. TreeTyped(tab', rl)
    <3>1. tab' \in [Blocks -> TableTypes]
      BY <1>1, <2>1, BlockNumbers
    <3>. QED  BY <1>10, <2>1, <3>1 DEF TreeTyped
  <2>. DEFINE T == {t}
  <2>3. ASSUME NEW b \in Blocks, role[b].kind = "table", role[b].of \notin T
        PROVE  rl[b] = role[b] /\ tab'[b] = tab[b]
    <3>1. b \notin old
      BY <1>5, <2>3
    <3>2. b # pgd[t]
      BY <1>4, <2>3, RoleIs
    <3>. QED  BY <1>1, <1>10, <3>1, <3>2
  <2>4. ASSUME NEW b \in Blocks, rl[b].kind = "table"
        PROVE  \/ role[b].kind = "table" /\ role[b].of \notin T
               \/ rl[b].at = 0 /\ tab'[b] = EmptyTable
    <3>1. b \notin old /\ rl[b] = role[b] /\ role[b].at \in Nat
      BY <1>4, <1>10, <2>4, RoleIs
    <3>2. role[b].of = t => role[b].at = 0
      BY <1>5, <2>4, <3>1
    <3>3. role[b].of = t => b = pgd[t]
      BY <1>4, <2>4, <3>1, <3>2 DEF OwnsTop
    <3>. QED  BY <1>1, <2>4, <3>1, <3>2, <3>3
  <2>. HIDE DEF T
  <2>5. \A b \in Blocks : role[b].kind = "table" /\ role[b].of \notin T =>
          rl[b] = role[b] /\ tab'[b] = tab[b]
    BY <2>3
  <2>6. \A b \in Blocks : rl[b].kind = "table" =>
          \/ role[b].kind = "table" /\ role[b].of \notin T
          \/ rl[b].at = 0 /\ tab'[b] = EmptyTable
    BY <2>4
  <2>7. Tree(tab, role)
    BY <1>4
  <2>. QED  BY <2>2, <2>5, <2>6, <2>7, TreeChanged
<1>12. ThreadOwns(rl, t, kernel_sp[t], pgd[t], vma_list[t], o)
  <2>1. Alike(role, rl, "kernel_sp", t) /\ Alike(role, rl, "area", t) /\ Alike(role, rl, "local", t)
    BY <1>5, <1>10 DEF Alike
  <2>2. \A b \in Blocks : \/ role[b].kind = "table" /\ role[b].of = t /\ role[b].at = 0
                          \/ rl[b].kind = "table" /\ rl[b].of = t /\ rl[b].at = 0
          => rl[b] = role[b]
    BY <1>5, <1>10
  <2>3. OwnsStack(rl, t, kernel_sp[t]) /\ OwnsTop(rl, t, pgd[t])
    BY <1>4, <2>1, <2>2, StackKept, TopKept
  <2>4. OwnsAreas(rl, t, vma_list[t], o.at) /\ OwnsLocals(rl, t, o.new)
    BY <1>4, <1>6, <2>1, AreasKept, LocalsKept
  <2>. QED  BY <2>3, <2>4 DEF ThreadOwns
<1>13. /\ free_blocks' \in SUBSET Blocks /\ lost' \in SUBSET Blocks
       /\ \A b \in Blocks : /\ rl[b].kind = "free" <=> b \in free_blocks'
                            /\ rl[b].kind = "lost" <=> b \in lost'
  <2>1. /\ free_blocks \in SUBSET Blocks /\ lost \in SUBSET Blocks
        /\ \A b \in Blocks : /\ role[b].kind = "free" <=> b \in free_blocks
                             /\ role[b].kind = "lost" <=> b \in lost
    BY DEF Owned
  <2>. QED  BY <1>1, <1>2, <1>5, <1>10, <2>1
<1>14. \A b \in Blocks : rl[b] # role[b] =>
         /\ role[b].kind \in Unowned \/ role[b].of = t
         /\ rl[b].kind \in Unowned \/ rl[b].of = t
  BY <1>5, <1>10 DEF Unowned
<1>15. op \in [Threads -> Ops] /\ op'[t] = o /\ \A u \in Threads : u # t => op'[u] = op[u]
  BY <1>1 DEF VmInv, VmTypeOK
<1>16. Owned(rl)'
  <2>1. /\ \A u \in Threads : u # t =>
             /\ status'[u] = "FREE" <=> status[u] = "FREE"
             /\ kernel_sp'[u] = kernel_sp[u] /\ pgd'[u] = pgd[u]
             /\ vma_list'[u] = vma_list[u] /\ op'[u] = op[u]
        /\ status'[t] # "FREE"
    BY <1>1, <1>3, <1>15
  <2>2. ThreadOwns(rl, t, kernel_sp'[t], pgd'[t], vma_list'[t], op'[t])
    BY <1>1, <1>12, <1>15
  <2>. QED  BY <1>10, <1>11, <1>13, <1>14, <2>1, <2>2, OneOwns
<1>17. ASSUME NEW p \in Pages
       PROVE  Walk(tab', pgd[t], p) = NoEntry
  <2>1. rl[pgd[t]] = Role("table", t, 0) /\ tab'[pgd[t]] = EmptyTable
    BY <1>1, <1>4, <1>12 DEF ThreadOwns, OwnsTop
  <2>. QED  BY <1>4, <1>11, <2>1, WalkEmpty, PagesAreNumbers
<1>18. ASSUME NEW u \in Live, u # t
       PROVE  \A p \in Pages : Walk(tab', pgd[u], p) = Walk(tab, pgd[u], p)
  <2>1. u \in Live' /\ pgd'[u] = pgd[u]
    BY <1>1 DEF Live
  <2>2. \A b \in Blocks : role[b].kind = "table" /\ role[b].of = u => tab'[b] = tab[b]
    BY <1>1, <1>4, <1>5, <1>18, RoleIs
  <2>3. \A p \in Nat : Walk(tab', pgd[u], p) = Walk(tab, pgd[u], p)
    BY <1>16, <2>1, <2>2, SameWalks
  <2>. QED  BY <2>3, PagesAreNumbers
<1>. QED  BY <1>7, <1>8, <1>16, <1>17, <1>18

(* Which of a new program's regions have memory.                           *)
LEMMA FirstHeld ==
  ASSUME NEW list, NEW b1, NEW b2, NEW b3, AreasFrom(list, b1, b2, b3)
  PROVE  Held(list, 0) = {1, 2, 5}
<1>1. DOMAIN list = 1 .. 5
  BY DEF AreasFrom
<1>2. list[1].is_alloced /\ list[2].is_alloced /\ list[5].is_alloced
  BY DEF AreasFrom
<1>3. ~list[3].is_alloced /\ ~list[4].is_alloced
  BY DEF AreasFrom
<1>4. \A n \in 1 .. 5 : n = 1 \/ n = 2 \/ n = 3 \/ n = 4 \/ n = 5
  OBVIOUS
<1>5. \A n : n \in Held(list, 0) <=> n = 1 \/ n = 2 \/ n = 5
  BY <1>1, <1>2, <1>3, <1>4 DEF Held
<1>. QED  BY <1>5

(* The blocks behind the regions of a program that starts. *)
LEMMA FirstOwned ==
  ASSUME NEW rl \in [Blocks -> Roles], NEW t \in Threads, NEW list,
         NEW b1 \in Blocks, NEW b2 \in Blocks, NEW b3 \in Blocks, AreasFrom(list, b1, b2, b3),
         rl[b1] = Role("area", t, 1), rl[b2] = Role("area", t, 2), rl[b3] = Role("area", t, 5),
         \A b \in Blocks : rl[b].kind = "area" /\ rl[b].of = t => b = b1 \/ b = b2 \/ b = b3
  PROVE  OwnsAreas(rl, t, list, 0)
<1>1. Held(list, 0) = {1, 2, 5}
  BY FirstHeld
<1>2. list[1].pa = b1 /\ list[2].pa = b2 /\ list[5].pa = b3
  BY DEF AreasFrom
<1>3. \A n \in Held(list, 0) : list[n].pa \in Blocks /\ rl[list[n].pa] = Role("area", t, n)
  BY <1>1, <1>2
<1>4. \A b \in Blocks : rl[b].kind = "area" /\ rl[b].of = t =>
        rl[b].at \in Held(list, 0) /\ list[rl[b].at].pa = b
  BY <1>1, <1>2, RoleIs
<1>. QED  BY <1>3, <1>4 DEF OwnsAreas

(* The locals of exec become memory of regions.                            *)
LEMMA ExecAreasOwns ==
  ASSUME VmInv, CallInv, NEW role, Owned(role), NEW t \in Threads, ExecAreas(t)
  PROVE  CallInv' /\ (\E rl : Owned(rl)') /\ refreed' = refreed
<1>. DEFINE new == op[t].new
            list == Areas(new[1], new[2], new[3])
<1>1. /\ curr = t /\ op[t].pc = "areas" /\ op' = [op EXCEPT ![t] = User]
      /\ UNCHANGED <<status, rq, curr, pgd, kernel_sp, tab, free_blocks, lost, refreed>>
  BY DEF ExecAreas
<1>2. /\ new \in [1 .. 3 -> Blocks] /\ vma_list' = [vma_list EXCEPT ![t] = list]
      /\ AreasFrom(list, new[1], new[2], new[3])
  BY ExecAreasList
<1>3. status[t] # "FREE" /\ op[t] \in Ops /\ op[t].at = 0 /\ vma_list[t] = <<>>
  BY <1>1, OnCpu, OpsAre
<1>4. /\ OwnsAreas(role, t, <<>>, 0) /\ OwnsLocals(role, t, new) /\ role \in [Blocks -> Roles]
  BY <1>3, OwnerIs
<1>. HIDE DEF new, list
<1>5. CallInv'
  BY <1>1, <1>2, OpsAre, CallKept
<1>6. /\ \A i \in 1 .. 3 : role[new[i]] = Role("local", t, i)
      /\ \A b \in Blocks : role[b].of = t => role[b].kind # "area"
      /\ \A b \in Blocks : role[b].kind = "local" /\ role[b].of = t => \E i \in 1 .. 3 : b = new[i]
  <2>1. DOMAIN new = 1 .. 3
    BY <1>2
  <2>2. Held(<<>>, 0) = {}
    BY DEF Held
  <2>. QED  BY <1>4, <2>1, <2>2 DEF OwnsLocals, OwnsAreas
<1>7. \A i, j \in 1 .. 3 : i # j => new[i] # new[j]
  BY <1>6, RoleIs
<1>. DEFINE r == [i \in 1 .. 3 |-> Role("area", t, IF i = 3 THEN 5 ELSE i)]
<1>8. r \in [1 .. 3 -> Roles]
  <2>1. \A n \in Nat : Role("area", t, n) \in Roles
    BY RoleIs
  <2>. QED  BY <2>1
<1>9. r[1] = Role("area", t, 1) /\ r[2] = Role("area", t, 2) /\ r[3] = Role("area", t, 5)
      /\ \A i \in 1 .. 3 : r[i].kind = "area" /\ r[i].of = t
  <2>1. \A i \in 1 .. 3 : r[i] = Role("area", t, IF i = 3 THEN 5 ELSE i)
    OBVIOUS
  <2>. HIDE DEF r
  <2>. QED  BY <2>1, RoleIs
<1>. HIDE DEF r
<1>10. PICK rl : Given(rl, role, new, r, 3)
  BY <1>2, <1>4, <1>7, <1>8, RolesGiven
<1>11. /\ rl \in [Blocks -> Roles] /\ \A i \in 1 .. 3 : rl[new[i]] = r[i]
       /\ \A b \in Blocks : rl[b] = role[b] \/ \E i \in 1 .. 3 : b = new[i]
  BY <1>10 DEF Given
<1>12. \A i \in 1 .. 3 : /\ role[new[i]].kind = "local" /\ role[new[i]].of = t
                         /\ rl[new[i]].kind = "area" /\ rl[new[i]].of = t
  BY <1>6, <1>9, <1>11, RoleIs
<1>13. \A b \in Blocks : rl[b] # role[b] =>
         /\ role[b].kind \in Handed /\ (role[b].kind \in Unowned \/ role[b].of = t)
         /\ rl[b].kind \in Handed /\ (rl[b].kind \in Unowned \/ rl[b].of = t)
  BY <1>11, <1>12 DEF Handed
<1>14. OwnsAreas(rl, t, list, 0)
  <2>1. /\ new[1] \in Blocks /\ new[2] \in Blocks /\ new[3] \in Blocks
        /\ rl[new[1]] = Role("area", t, 1) /\ rl[new[2]] = Role("area", t, 2)
        /\ rl[new[3]] = Role("area", t, 5)
    BY <1>2, <1>9, <1>11
  <2>2. \A b \in Blocks : rl[b].kind = "area" /\ rl[b].of = t => b = new[1] \/ b = new[2] \/ b = new[3]
    BY <1>6, <1>11
  <2>. QED  BY <1>2, <1>11, <2>1, <2>2, FirstOwned
<1>15. OwnsLocals(rl, t, <<>>)
  <2>1. \A b \in Blocks : rl[b].kind = "local" /\ rl[b].of = t => FALSE
    BY <1>6, <1>11, <1>12
  <2>. QED  BY <2>1 DEF OwnsLocals
<1>16. /\ free_blocks' \in SUBSET Blocks /\ lost' \in SUBSET Blocks
       /\ \A b \in Blocks : /\ rl[b].kind = "free" <=> b \in free_blocks'
                            /\ rl[b].kind = "lost" <=> b \in lost'
  <2>1. \A b \in Blocks : /\ rl[b].kind = "free" <=> role[b].kind = "free"
                          /\ rl[b].kind = "lost" <=> role[b].kind = "lost"
    BY <1>11, <1>12
  <2>. QED  BY <1>1, <2>1 DEF Owned
<1>17. OwnsAreas(rl, t, list, User.at) /\ OwnsLocals(rl, t, User.new)
  BY <1>14, <1>15, OpsAre
<1>18. Owned(rl)'
  <2>1. /\ curr = t /\ UNCHANGED <<status, pgd, kernel_sp, tab>> /\ rl \in [Blocks -> Roles]
        /\ vma_list' = [vma_list EXCEPT ![t] = list] /\ op' = [op EXCEPT ![t] = User]
    BY <1>1, <1>2, <1>11
  <2>. QED  BY <2>1, <1>13, <1>16, <1>17, CallOwns
<1>. QED  BY <1>1, <1>5, <1>18

-----------------------------------------------------------------------------
(* What a thread owns during mmap. *)

(* mmap's block is its local.                                              *)
LEMMA MmapOwns ==
  ASSUME VmInv, CallInv, NEW role, Owned(role), NEW t \in Threads, NEW r \in Requests, mmap(t, r)
  PROVE  CallInv' /\ (\E rl : Owned(rl)') /\ refreed' = refreed
<1>. DEFINE list == vma_list[t]
            ask == [hint |-> r[1], va |-> MmapAddr(list, r[1], r[2]), len |-> r[2], rwx |-> r[3]]
            x == Fresh(FreeFor(t), 1)
            o == [pc |-> "mmap", at |-> 0, new |-> <<x>>, ask |-> ask]
<1>1. /\ curr = t /\ op[t].pc = "user" /\ FreeFor(t) # {} /\ op' = [op EXCEPT ![t] = o]
      /\ UNCHANGED <<status, rq, curr, vma_list, pgd, kernel_sp, tab, lost, refreed>>
      /\ free_blocks' = free_blocks \ {x}
  BY DEF mmap, Running
<1>2. x \in Blocks /\ x \in free_blocks
  BY <1>1, SomeFree, FreeForIs
<1>3. status[t] # "FREE" /\ op[t] = User /\ vma_list' = [vma_list EXCEPT ![t] = list]
  BY <1>1, OnCpu, OpsAre
<1>4. OwnsAreas(role, t, list, 0) /\ OwnsLocals(role, t, <<>>) /\ role \in [Blocks -> Roles]
  BY <1>3, OpsAre, OwnerIs
<1>. HIDE DEF x, ask
<1>5. o.pc = "mmap" /\ o.at = 0 /\ o.new = <<x>>
  OBVIOUS
<1>. HIDE DEF o
<1>6. CallInv'
  BY <1>1, <1>3, <1>5, CallKept
<1>7. PICK b1 : b1 = x
  OBVIOUS
<1>8. PICK rl : rl = [role EXCEPT ![b1] = Role("local", t, 1)]
  OBVIOUS
<1>9. /\ rl \in [Blocks -> Roles] /\ rl[x] = Role("local", t, 1)
      /\ \A b \in Blocks : b # x => rl[b] = role[b]
      /\ role[x].kind = "free" /\ rl[x].kind = "local" /\ rl[x].of = t
  <2>1. Role("local", t, 1) \in Roles /\ Role("local", t, 1).kind = "local" /\ Role("local", t, 1).of = t
    BY RoleIs
  <2>2. role[x].kind = "free"
    BY <1>2 DEF Owned
  <2>. QED  BY <1>2, <1>4, <1>7, <1>8, <2>1, <2>2
<1>10. \A b \in Blocks : rl[b] # role[b] =>
         /\ role[b].kind \in Handed /\ (role[b].kind \in Unowned \/ role[b].of = t)
         /\ rl[b].kind \in Handed /\ (rl[b].kind \in Unowned \/ rl[b].of = t)
  BY <1>9 DEF Handed, Unowned
<1>11. OwnsAreas(rl, t, list, o.at)
  <2>1. Alike(role, rl, "area", t)
    BY <1>9 DEF Alike
  <2>. QED  BY <1>4, <1>5, <2>1, AreasKept
<1>12. OwnsLocals(rl, t, o.new)
  <2>1. DOMAIN <<x>> = {1} /\ <<x>>[1] = x
    OBVIOUS
  <2>2. \A b \in Blocks : role[b].kind = "local" /\ role[b].of = t => FALSE
    BY <1>4 DEF OwnsLocals
  <2>3. \A b \in Blocks : rl[b].kind = "local" /\ rl[b].of = t => b = x
    BY <1>9, <2>2
  <2>4. rl[x].at = 1
    BY <1>9, RoleIs
  <2>. QED  BY <1>2, <1>5, <1>9, <2>1, <2>3, <2>4 DEF OwnsLocals
<1>13. /\ free_blocks' \in SUBSET Blocks /\ lost' \in SUBSET Blocks
       /\ \A b \in Blocks : /\ rl[b].kind = "free" <=> b \in free_blocks'
                            /\ rl[b].kind = "lost" <=> b \in lost'
  <2>1. /\ free_blocks \in SUBSET Blocks /\ lost \in SUBSET Blocks
        /\ \A b \in Blocks : /\ role[b].kind = "free" <=> b \in free_blocks
                             /\ role[b].kind = "lost" <=> b \in lost
    BY DEF Owned
  <2>. QED  BY <1>1, <1>9, <2>1
<1>14. Owned(rl)'
  <2>1. /\ curr = t /\ UNCHANGED <<status, pgd, kernel_sp, tab>> /\ rl \in [Blocks -> Roles]
        /\ vma_list' = [vma_list EXCEPT ![t] = list] /\ op' = [op EXCEPT ![t] = o]
    BY <1>1, <1>3, <1>9
  <2>. HIDE DEF list
  <2>. QED  BY <2>1, <1>10, <1>11, <1>12, <1>13, CallOwns
<1>. QED  BY <1>1, <1>6, <1>14

(* The local of mmap becomes memory of a region.                           *)
LEMMA MmapAddOwns ==
  ASSUME VmInv, CallInv, NEW role, Owned(role), NEW t \in Threads, MmapAdd(t)
  PROVE  CallInv' /\ (\E rl : Owned(rl)') /\ refreed' = refreed
<1>. DEFINE list == vma_list[t]
            a == NewArea(t)
            q == Append(list, a)
            m == Len(list) + 1
            x == op[t].new[1]
<1>1. /\ curr = t /\ op[t].pc = "mmap" /\ op' = [op EXCEPT ![t] = User]
      /\ UNCHANGED <<status, rq, curr, pgd, kernel_sp, tab, free_blocks, lost, refreed>>
      /\ vma_list' = [vma_list EXCEPT ![t] = q]
  BY DEF MmapAdd, NewArea
<1>2. /\ a \in Regions /\ a.pa = x /\ a.is_alloced /\ op[t].new \in [1 .. 1 -> Blocks]
  BY NewAreaIs
<1>3. status[t] # "FREE" /\ op[t] \in Ops /\ op[t].at = 0 /\ list \in Seq(Regions) /\ Len(list) \in Nat
  BY <1>1, OnCpu, OpsAre
<1>4. OwnsAreas(role, t, list, 0) /\ OwnsLocals(role, t, op[t].new) /\ role \in [Blocks -> Roles]
  BY <1>3, OwnerIs
<1>5. x \in Blocks /\ role[x] = Role("local", t, 1)
      /\ \A b \in Blocks : role[b].kind = "local" /\ role[b].of = t => b = x
  <2>1. DOMAIN op[t].new = {1}
    BY <1>2
  <2>. QED  BY <1>2, <1>4, <2>1 DEF OwnsLocals
<1>. HIDE DEF a, list, x
<1>6. /\ DOMAIN q = 1 .. m /\ q[m] = a /\ m \in Nat /\ DOMAIN list = 1 .. Len(list)
      /\ \A i \in DOMAIN list : q[i] = list[i] /\ i \in Nat /\ i # m
  <2>1. DOMAIN list = 1 .. Len(list)
    BY <1>3, RegionIs
  <2>2. Len(q) = m /\ q \in Seq(Regions) /\ q[m] = a /\ \A i \in 1 .. Len(list) : q[i] = list[i]
    BY <1>2, <1>3
  <2>3. DOMAIN q = 1 .. m
    BY <2>2
  <2>4. \A i \in 1 .. Len(list) : i \in Nat /\ i # m
    BY <1>3
  <2>. QED  BY <1>3, <2>1, <2>2, <2>3, <2>4
<1>. HIDE DEF q
<1>7. Held(q, 0) = Held(list, 0) \cup {m} /\ m \notin Held(list, 0)
  <2>1. \A i : i \in 1 .. m <=> i \in 1 .. Len(list) \/ i = m
    BY <1>3
  <2>. HIDE DEF m
  <2>2. m >= 0 /\ \A i \in DOMAIN list : i >= 0
    BY <1>6
  <2>3. \A i : i \in Held(q, 0) <=> i \in Held(list, 0) \/ i = m
    BY <1>2, <1>6, <2>1, <2>2 DEF Held
  <2>. QED  BY <1>6, <2>3 DEF Held
<1>. HIDE DEF m
<1>8. CallInv'
  BY <1>1, OpsAre, CallKept
<1>9. PICK b1, n : b1 = x /\ n = m
  OBVIOUS
<1>10. PICK rl : rl = [role EXCEPT ![b1] = Role("area", t, n)]
  OBVIOUS
<1>11. /\ rl \in [Blocks -> Roles] /\ rl[x] = Role("area", t, m)
       /\ \A b \in Blocks : b # x => rl[b] = role[b]
  <2>1. Role("area", t, m) \in Roles
    BY <1>6, RoleIs
  <2>. QED  BY <1>4, <1>5, <1>9, <1>10, <2>1
<1>12. /\ rl[x].kind = "area" /\ rl[x].of = t /\ rl[x].at = m
       /\ role[x].kind = "local" /\ role[x].of = t
  BY <1>5, <1>11, RoleIs
<1>13. \A b \in Blocks : rl[b] # role[b] =>
         /\ role[b].kind \in Handed /\ (role[b].kind \in Unowned \/ role[b].of = t)
         /\ rl[b].kind \in Handed /\ (rl[b].kind \in Unowned \/ rl[b].of = t)
  BY <1>11, <1>12 DEF Handed
<1>14. OwnsAreas(rl, t, q, 0)
  <2>1. \A i \in Held(list, 0) : list[i].pa \in Blocks /\ role[list[i].pa] = Role("area", t, i) /\ q[i] = list[i]
    BY <1>4, <1>6 DEF OwnsAreas, Held
  <2>2. \A i \in Held(list, 0) : list[i].pa # x
    BY <1>12, <2>1, RoleIs
  <2>3. \A i \in Held(q, 0) : q[i].pa \in Blocks /\ rl[q[i].pa] = Role("area", t, i)
    BY <1>2, <1>5, <1>6, <1>7, <1>11, <2>1, <2>2
  <2>4. ASSUME NEW b \in Blocks, rl[b].kind = "area", rl[b].of = t
        PROVE  rl[b].at \in Held(q, 0) /\ q[rl[b].at].pa = b
    <3>1. CASE b = x
      BY <1>2, <1>6, <1>7, <1>12, <3>1
    <3>2. CASE b # x
      <4>1. rl[b] = role[b]
        BY <1>11, <3>2
      <4>2. role[b].at \in Held(list, 0) /\ list[role[b].at].pa = b
        BY <1>4, <2>4, <4>1 DEF OwnsAreas
      <4>. QED  BY <1>7, <2>1, <4>1, <4>2
    <3>. QED  BY <3>1, <3>2
  <2>. QED  BY <2>3, <2>4 DEF OwnsAreas
<1>15. OwnsLocals(rl, t, <<>>)
  <2>1. \A b \in Blocks : rl[b].kind = "local" /\ rl[b].of = t => FALSE
    BY <1>5, <1>11, <1>12
  <2>. QED  BY <2>1 DEF OwnsLocals
<1>16. /\ free_blocks' \in SUBSET Blocks /\ lost' \in SUBSET Blocks
       /\ \A b \in Blocks : /\ rl[b].kind = "free" <=> b \in free_blocks'
                            /\ rl[b].kind = "lost" <=> b \in lost'
  <2>1. \A b \in Blocks : /\ rl[b].kind = "free" <=> role[b].kind = "free"
                          /\ rl[b].kind = "lost" <=> role[b].kind = "lost"
    BY <1>11, <1>12
  <2>. QED  BY <1>1, <2>1 DEF Owned
<1>17. OwnsAreas(rl, t, q, User.at) /\ OwnsLocals(rl, t, User.new)
  BY <1>14, <1>15, OpsAre
<1>18. Owned(rl)'
  BY <1>1, <1>11, <1>13, <1>16, <1>17, CallOwns
<1>. QED  BY <1>1, <1>8, <1>18

-----------------------------------------------------------------------------
(* What a child owns. *)

(* fork frees the two blocks it allocated for what it then copies.         *)
LEMMA ReplacedAre ==
  ASSUME NEW list \in Seq(Regions), Laid(list), NEW new
  PROVE  Replaced(Copied(list), new) = {new[4], new[1]}
<1>. DEFINE copied == Copied(list)
<1>1. CopyOf(copied, list, Len(list))
  BY CopiedIs
<1>. HIDE DEF copied
<1>2. copied \in Seq(Regions) /\ DOMAIN copied = 1 .. Len(copied) /\ DOMAIN list = 1 .. Len(list)
  <2>1. copied \in Seq(Regions)
    BY <1>1 DEF CopyOf
  <2>. QED  BY <2>1, RegionIs
<1>3. PICK i, s \in DOMAIN list : /\ LiesAt(list[i], USER_KERNEL_BASE, DATASIZE)
                                  /\ LiesAt(list[s], USER_STACK_BASE - USTACK_SIZE, USTACK_SIZE)
  BY DEF Laid
<1>4. list[i].va = USER_KERNEL_BASE /\ list[s].va = USER_STACK_BASE - USTACK_SIZE
  BY <1>3 DEF LiesAt
<1>5. USER_KERNEL_BASE \notin OwnVas /\ USER_STACK_BASE - USTACK_SIZE \notin OwnVas
  BY Layout DEF OwnVas
<1>6. \E j \in DOMAIN copied : copied[j].va = USER_KERNEL_BASE
  BY <1>1, <1>2, <1>4, <1>5 DEF CopyOf
<1>7. \E j \in DOMAIN copied : copied[j].va = USER_STACK_BASE - USTACK_SIZE
  BY <1>1, <1>2, <1>4, <1>5 DEF CopyOf
<1>8. {new[4] : j \in {k \in DOMAIN copied : copied[k].va = USER_KERNEL_BASE}} = {new[4]}
  BY <1>6
<1>9. {new[1] : j \in {k \in DOMAIN copied : copied[k].va = USER_STACK_BASE - USTACK_SIZE}} = {new[1]}
  BY <1>7
<1>10. Replaced(copied, new) = {new[4], new[1]}
  BY <1>8, <1>9 DEF Replaced
<1>. QED  BY <1>10 DEF copied

(* The roles of a child's blocks. *)
ChildRole(c, m, i) ==
  CASE i = 1 -> Role("free", c, 0)
    [] i = 2 -> Role("kernel_sp", c, 0)
    [] i = 3 -> Role("area", c, m + 3)
    [] i = 4 -> Role("free", c, 0)
    [] i = 5 -> Role("table", c, 0)
    [] OTHER -> Role("area", c, i - 5)

(* The roles of a child's blocks.                                          *)
LEMMA ChildRoles ==
  ASSUME NEW c \in Threads, NEW m \in Nat
  PROVE  /\ \A i \in 1 .. 5 + m : ChildRole(c, m, i) \in Roles
         /\ ChildRole(c, m, 1) = Role("free", c, 0) /\ ChildRole(c, m, 4) = Role("free", c, 0)
         /\ ChildRole(c, m, 2) = Role("kernel_sp", c, 0)
         /\ ChildRole(c, m, 3) = Role("area", c, m + 3)
         /\ ChildRole(c, m, 5) = Role("table", c, 0)
         /\ \A i \in 1 .. m : ChildRole(c, m, 5 + i) = Role("area", c, i)
         /\ \A i \in 1 .. 5 + m : i \in {1, 2, 3, 4, 5} \/ i - 5 \in 1 .. m
<1>1. ChildRole(c, m, 1) = Role("free", c, 0) /\ ChildRole(c, m, 4) = Role("free", c, 0)
  BY DEF ChildRole
<1>2. ChildRole(c, m, 2) = Role("kernel_sp", c, 0) /\ ChildRole(c, m, 3) = Role("area", c, m + 3)
      /\ ChildRole(c, m, 5) = Role("table", c, 0)
  BY DEF ChildRole
<1>3. ASSUME NEW i \in 1 .. m
      PROVE  ChildRole(c, m, 5 + i) = Role("area", c, i)
  <2>. DEFINE j == 5 + i
  <2>1. j # 1 /\ j # 2 /\ j # 3 /\ j # 4 /\ j # 5 /\ j - 5 = i
    OBVIOUS
  <2>. HIDE DEF j
  <2>2. ChildRole(c, m, j) = Role("area", c, i)
    BY <2>1 DEF ChildRole
  <2>. QED  BY <2>2 DEF j
<1>4. \A i \in 1 .. 5 + m : i \in {1, 2, 3, 4, 5} \/ (i - 5 \in 1 .. m /\ 5 + (i - 5) = i)
  OBVIOUS
<1>5. ASSUME NEW i \in 1 .. 5 + m
      PROVE  ChildRole(c, m, i) \in Roles
  <2>1. CASE i \in {1, 2, 3, 4, 5}
    <3>1. m + 3 \in Nat /\ 0 \in Nat
      OBVIOUS
    <3>2. /\ Role("free", c, 0) \in Roles /\ Role("kernel_sp", c, 0) \in Roles
          /\ Role("area", c, m + 3) \in Roles /\ Role("table", c, 0) \in Roles
      BY <3>1, RoleIs
    <3>. QED  BY <1>1, <1>2, <2>1, <3>2
  <2>2. CASE i - 5 \in 1 .. m /\ 5 + (i - 5) = i
    <3>1. ChildRole(c, m, i) = Role("area", c, i - 5)
      BY <1>3, <2>2
    <3>. QED  BY <2>2, <3>1, RoleIs
  <2>. QED  BY <1>4, <2>1, <2>2
<1>. QED  BY <1>1, <1>2, <1>3, <1>4, <1>5

(* The regions of a child that have memory of their own. *)
LEMMA ChildHolds ==
  ASSUME NEW q, NEW copied, NEW new, ForkedFrom(q, copied, new), NEW m \in Nat, m = Len(copied)
  PROVE  Held(q, 0) = 1 .. m \cup {m + 3} /\ \A i \in 1 .. m : q[i].pa = new[5 + i]
<1>1. /\ q \in Seq(Regions) /\ Len(q) = m + 3 /\ DOMAIN q = 1 .. m + 3
      /\ \A i \in 1 .. m : q[i].is_alloced /\ q[i].pa = new[5 + i]
      /\ ~q[m + 1].is_alloced /\ ~q[m + 2].is_alloced /\ q[m + 3].is_alloced
  <2>1. q \in Seq(Regions) /\ Len(q) = m + 3
    BY DEF ForkedFrom
  <2>2. DOMAIN q = 1 .. m + 3
    BY <2>1, RegionIs
  <2>. QED  BY <2>1, <2>2 DEF ForkedFrom
<1>2. \A i \in 1 .. m + 3 : i \in 1 .. m \/ i = m + 1 \/ i = m + 2 \/ i = m + 3
  OBVIOUS
<1>3. m + 3 \in 1 .. m + 3 /\ \A i \in 1 .. m : i \in 1 .. m + 3
  OBVIOUS
<1>4. \A i \in 1 .. m + 3 : i >= 0
  OBVIOUS
<1>5. \A i : i \in Held(q, 0) <=> i \in 1 .. m \cup {m + 3}
  BY <1>1, <1>2, <1>3, <1>4 DEF Held
<1>. QED  BY <1>1, <1>5

(* A fork gives the child blocks of its own, and leaves all walks.         *)
LEMMA ForkOwns ==
  ASSUME VmInv, CallInv, NEW role, Owned(role), NEW t \in Threads, fork(t)
  PROVE  /\ CallInv' /\ (\E rl : Owned(rl)') /\ refreed' = refreed
         /\ \A p \in Pages : Walk(tab', pgd'[Child], p) = NoEntry
         /\ \A u \in Live : \A p \in Pages : Walk(tab', pgd[u], p) = Walk(tab, pgd[u], p)
<1>1. PICK m, new, c : m = Len(Copied(vma_list[t])) /\ new = ChildBlocks(m) /\ c = Child
  OBVIOUS
<1>2. /\ curr = t /\ op[t].pc = "user" /\ c \in Threads /\ status[c] = "FREE" /\ c # t
      /\ m \in Nat /\ new \in [1 .. 5 + m -> Blocks]
      /\ \A i \in 1 .. 5 + m : new[i] \in FreeFor(c)
      /\ \A i, j \in 1 .. 5 + m : i # j => new[i] # new[j]
      /\ status' = [status EXCEPT ![c] = "ACTIVE"] /\ rq' = rq \cup {c}
      /\ kernel_sp' = [kernel_sp EXCEPT ![c] = new[2]] /\ pgd' = [pgd EXCEPT ![c] = new[5]]
      /\ vma_list' = [vma_list EXCEPT ![c] = ForkList(vma_list[t], new)]
      /\ tab' = [tab EXCEPT ![new[5]] = EmptyTable]
      /\ free_blocks' = free_blocks \ (Range(new) \ Replaced(Copied(vma_list[t]), new))
      /\ UNCHANGED <<curr, op, tlb, lost, refreed>>
  BY <1>1, ForkIs
<1>. DEFINE list == vma_list[t]
            q == ForkList(list, new)
            I == 1 .. 5 + m
<1>3. list \in Seq(Regions) /\ Laid(list)
  BY <1>2, OnCpu
<1>4. free_blocks' = free_blocks \ (Range(new) \ {new[4], new[1]})
  BY <1>2, <1>3, ReplacedAre
<1>5. ForkedFrom(q, Copied(list), new) /\ m = Len(Copied(list))
  BY <1>1, <1>2, <1>3, ForkListIs
<1>. HIDE DEF q
<1>6. /\ Held(q, 0) = 1 .. m \cup {m + 3} /\ \A i \in 1 .. m : q[i].pa = new[5 + i]
      /\ q[m + 3].pa = new[3]
  <2>. DEFINE copied == Copied(list)
  <2>1. ForkedFrom(q, copied, new) /\ m = Len(copied) /\ m \in Nat
    BY <1>2, <1>5
  <2>. HIDE DEF copied
  <2>2. Held(q, 0) = 1 .. m \cup {m + 3} /\ \A i \in 1 .. m : q[i].pa = new[5 + i]
    BY <2>1, ChildHolds
  <2>3. q[m + 3].pa = new[3]
    BY <2>1 DEF ForkedFrom
  <2>. QED  BY <2>2, <2>3
<1>7. role \in [Blocks -> Roles] /\ Tree(tab, role)
  BY DEF Owned
<1>8. \A i \in I : new[i] \in Blocks /\ new[i] \in free_blocks /\ role[new[i]].kind = "free"
  BY <1>2 DEF Owned, FreeFor
<1>9. \A b \in Blocks : role[b].kind \notin Unowned => role[b].of # c
  BY <1>2 DEF Owned, Live
<1>10. PICK rl : Given(rl, role, new, [i \in 1 .. 5 + m |-> ChildRole(c, m, i)], 5 + m)
  <2>. DEFINE r == [i \in 1 .. 5 + m |-> ChildRole(c, m, i)]
  <2>1. r \in [1 .. 5 + m -> Roles]
    BY <1>2, ChildRoles
  <2>. HIDE DEF r
  <2>2. 5 + m \in Nat
    BY <1>2
  <2>3. \E rl : Given(rl, role, new, r, 5 + m)
    BY <1>2, <1>7, <2>1, <2>2, RolesGiven
  <2>. QED  BY <2>3 DEF r
<1>11. /\ rl \in [Blocks -> Roles] /\ \A i \in I : rl[new[i]] = ChildRole(c, m, i)
       /\ \A b \in Blocks : rl[b] = role[b] \/ \E i \in I : b = new[i]
       /\ \A b \in Blocks : (\A i \in I : b # new[i]) => rl[b] = role[b]
  BY <1>10 DEF Given
<1>12. 1 \in I /\ 2 \in I /\ 3 \in I /\ 4 \in I /\ 5 \in I /\ \A i \in 1 .. m : 5 + i \in I
  BY <1>2
<1>. HIDE DEF I
<1>13. /\ rl[new[1]] = Role("free", c, 0) /\ rl[new[4]] = Role("free", c, 0)
       /\ rl[new[2]] = Role("kernel_sp", c, 0) /\ rl[new[3]] = Role("area", c, m + 3)
       /\ rl[new[5]] = Role("table", c, 0)
       /\ \A i \in 1 .. m : rl[new[5 + i]] = Role("area", c, i)
  <2>1. /\ ChildRole(c, m, 1) = Role("free", c, 0) /\ ChildRole(c, m, 4) = Role("free", c, 0)
        /\ ChildRole(c, m, 2) = Role("kernel_sp", c, 0)
        /\ ChildRole(c, m, 3) = Role("area", c, m + 3)
        /\ ChildRole(c, m, 5) = Role("table", c, 0)
        /\ \A i \in 1 .. m : ChildRole(c, m, 5 + i) = Role("area", c, i)
    BY <1>2, ChildRoles
  <2>2. /\ rl[new[1]] = ChildRole(c, m, 1) /\ rl[new[2]] = ChildRole(c, m, 2)
        /\ rl[new[3]] = ChildRole(c, m, 3) /\ rl[new[4]] = ChildRole(c, m, 4)
        /\ rl[new[5]] = ChildRole(c, m, 5)
        /\ \A i \in 1 .. m : rl[new[5 + i]] = ChildRole(c, m, 5 + i)
    BY <1>11, <1>12
  <2>. QED  BY <2>1, <2>2
<1>14. \A i \in I : i \in {1, 2, 3, 4, 5} \/ \E k \in 1 .. m : i = 5 + k
  <2>1. \A i \in I : i \in {1, 2, 3, 4, 5} \/ i - 5 \in 1 .. m
    BY <1>2, ChildRoles DEF I
  <2>2. \A i \in I : i = 5 + (i - 5)
    BY DEF I
  <2>. QED  BY <2>1, <2>2
(* A block is as before, or one of the child's. *)
<1>15. \A b \in Blocks : \/ rl[b] = role[b] /\ (\A i \in I : b # new[i])
                         \/ b \in {new[1], new[4]} \/ b = new[2] \/ b = new[3] \/ b = new[5]
                         \/ \E k \in 1 .. m : b = new[5 + k]
  BY <1>11, <1>14
<1>16. OwnsStack(rl, c, new[2])
  <2>1. ASSUME NEW b \in Blocks, rl[b].kind = "kernel_sp", rl[b].of = c
        PROVE  b = new[2]
    BY <1>9, <1>13, <1>15, <2>1, RoleIs DEF Unowned
  <2>. QED  BY <1>8, <1>12, <1>13, <2>1 DEF OwnsStack
<1>17. OwnsTop(rl, c, new[5])
  <2>1. ASSUME NEW b \in Blocks, rl[b].kind = "table", rl[b].of = c
        PROVE  b = new[5]
    BY <1>9, <1>13, <1>15, <2>1, RoleIs DEF Unowned
  <2>. QED  BY <1>8, <1>12, <1>13, <2>1 DEF OwnsTop
<1>18. OwnsAreas(rl, c, q, 0)
  <2>1. \A n \in Held(q, 0) : q[n].pa \in Blocks /\ rl[q[n].pa] = Role("area", c, n)
    BY <1>6, <1>8, <1>12, <1>13
  <2>2. ASSUME NEW b \in Blocks, rl[b].kind = "area", rl[b].of = c
        PROVE  rl[b].at \in Held(q, 0) /\ q[rl[b].at].pa = b
    <3>1. b = new[3] \/ \E k \in 1 .. m : b = new[5 + k]
      BY <1>9, <1>13, <1>15, <2>2, RoleIs DEF Unowned
    <3>. QED  BY <1>6, <1>13, <3>1, RoleIs
  <2>. QED  BY <2>1, <2>2 DEF OwnsAreas
<1>19. OwnsLocals(rl, c, <<>>)
  <2>1. \A b \in Blocks : ~(rl[b].kind = "local" /\ rl[b].of = c)
    BY <1>9, <1>13, <1>15, RoleIs DEF Unowned
  <2>. QED  BY <2>1 DEF OwnsLocals
<1>20. /\ \A u \in Threads : u # c =>
            /\ status'[u] = "FREE" <=> status[u] = "FREE"
            /\ kernel_sp'[u] = kernel_sp[u] /\ pgd'[u] = pgd[u]
            /\ vma_list'[u] = vma_list[u] /\ op'[u] = op[u]
       /\ status'[c] = "ACTIVE" /\ kernel_sp'[c] = new[2] /\ pgd'[c] = new[5]
       /\ vma_list'[c] = q /\ op'[c] = User
  <2>1. /\ status \in [Threads -> {"FREE", "ACTIVE", "ZOMBIE"}] /\ kernel_sp \in [Threads -> 0 .. NBLOCKS]
        /\ pgd \in [Threads -> 0 .. NBLOCKS] /\ vma_list \in [Threads -> Seq(Regions)] /\ op[c] = User
    BY <1>2 DEF VmInv, VmTypeOK, ThreadInv
  <2>2. vma_list' = [vma_list EXCEPT ![c] = q]
    BY <1>2 DEF q
  <2>. QED  BY <1>2, <2>1, <2>2
<1>21. ThreadOwns(rl, c, kernel_sp'[c], pgd'[c], vma_list'[c], op'[c])
  BY <1>16, <1>17, <1>18, <1>19, <1>20, OpsAre DEF ThreadOwns
<1>22. \A b \in Blocks : rl[b] # role[b] =>
         /\ role[b].kind \in Unowned \/ role[b].of = c
         /\ rl[b].kind \in Unowned \/ rl[b].of = c
  <2>1. \A b \in Blocks : rl[b] # role[b] => role[b].kind \in Unowned
    BY <1>8, <1>11 DEF Unowned
  <2>2. \A b \in Blocks : rl[b] # role[b] => rl[b].of = c
    BY <1>13, <1>15, RoleIs
  <2>. QED  BY <2>1, <2>2
<1>23. /\ free_blocks' \in SUBSET Blocks /\ lost' \in SUBSET Blocks
       /\ \A b \in Blocks : /\ rl[b].kind = "free" <=> b \in free_blocks'
                            /\ rl[b].kind = "lost" <=> b \in lost'
  <2>1. /\ free_blocks \in SUBSET Blocks /\ lost \in SUBSET Blocks
        /\ \A b \in Blocks : /\ role[b].kind = "free" <=> b \in free_blocks
                             /\ role[b].kind = "lost" <=> b \in lost
    BY DEF Owned
  <2>2. Range(new) = {new[i] : i \in I}
    BY <1>2 DEF Range, I
  <2>3. \A b : b \in free_blocks' <=> b \in free_blocks /\ ((\A i \in I : b # new[i]) \/ b \in {new[4], new[1]})
    BY <1>4, <2>2
  <2>4. ASSUME NEW b \in Blocks, rl[b] = role[b], \A i \in I : b # new[i]
        PROVE  /\ rl[b].kind = "free" <=> b \in free_blocks'
               /\ rl[b].kind = "lost" <=> b \in lost'
    BY <1>2, <2>1, <2>3, <2>4
  <2>5. ASSUME NEW b \in {new[1], new[4]}
        PROVE  /\ rl[b].kind = "free" <=> b \in free_blocks'
               /\ rl[b].kind = "lost" <=> b \in lost'
    <3>1. b \in free_blocks' /\ role[b].kind = "free" /\ rl[b].kind = "free" /\ b \in Blocks
      BY <1>8, <1>12, <1>13, <2>3, RoleIs
    <3>2. b \notin lost'
      BY <1>2, <2>1, <3>1
    <3>. QED  BY <3>1, <3>2
  <2>6. ASSUME NEW j \in I, j # 1, j # 4
        PROVE  new[j] \notin free_blocks' /\ new[j] \notin lost'
    <3>1. new[j] # new[1] /\ new[j] # new[4]
      BY <1>2, <1>12, <2>6 DEF I
    <3>2. new[j] \notin free_blocks'
      BY <2>3, <3>1
    <3>3. new[j] \notin lost'
      BY <1>2, <1>8, <2>1
    <3>. QED  BY <3>2, <3>3
  <2>7. \A k \in 1 .. m : 5 + k # 1 /\ 5 + k # 4
    BY <1>2
  <2>8. ASSUME NEW b \in Blocks, b = new[2] \/ b = new[3] \/ b = new[5] \/ \E k \in 1 .. m : b = new[5 + k]
        PROVE  /\ rl[b].kind = "free" <=> b \in free_blocks'
               /\ rl[b].kind = "lost" <=> b \in lost'
    <3>1. b \notin free_blocks' /\ b \notin lost'
      BY <1>12, <2>6, <2>7, <2>8
    <3>2. rl[b].kind \notin Unowned
      BY <1>13, <2>8, RoleIs DEF Unowned
    <3>. QED  BY <3>1, <3>2 DEF Unowned
  <2>9. free_blocks' \in SUBSET Blocks /\ lost' \in SUBSET Blocks
    BY <1>2, <2>1
  <2>. QED  BY <1>15, <2>4, <2>5, <2>8, <2>9
<1>24. /\ \A b \in Blocks : role[b].kind = "table" => rl[b] = role[b] /\ tab'[b] = tab[b]
       /\ tab' \in [Blocks -> TableTypes] /\ tab'[new[5]] = EmptyTable /\ new[5] \in Blocks
  <2>1. tab \in [Blocks -> TableTypes] /\ EmptyTable \in TableTypes
    BY <1>7, BlockNumbers DEF Tree, TreeTyped
  <2>2. new[5] \in Blocks /\ role[new[5]].kind = "free"
    BY <1>8, <1>12
  <2>3. \A b \in Blocks : role[b].kind = "table" => rl[b] = role[b]
    BY <1>8, <1>11
  <2>. QED  BY <1>2, <2>1, <2>2, <2>3
<1>25. Tree(tab', rl)
  <2>. DEFINE T == {}
  <2>1. \A b \in Blocks : rl[b].kind = "table" => rl[b] = role[b] \/ b = new[5]
    BY <1>13, <1>15, RoleIs
  <2>2. TreeTyped(tab', rl)
    <3>1. \A b \in Blocks : rl[b].kind = "table" => rl[b].at <= LEVELS - 1
      <4>1. rl[new[5]].at = 0 /\ 0 <= LEVELS - 1
        BY <1>13, RoleIs, Spans
      <4>. QED  BY <1>7, <2>1, <4>1 DEF Tree, TreeTyped
    <3>. QED  BY <1>11, <1>24, <3>1 DEF TreeTyped
  <2>3. \A b \in Blocks : role[b].kind = "table" /\ role[b].of \notin T => rl[b] = role[b] /\ tab'[b] = tab[b]
    BY <1>24
  <2>4. \A b \in Blocks : rl[b].kind = "table" =>
          \/ role[b].kind = "table" /\ role[b].of \notin T
          \/ rl[b].at = 0 /\ tab'[b] = EmptyTable
    BY <1>13, <1>24, <2>1, RoleIs
  <2>. HIDE DEF T
  <2>. QED  BY <1>7, <2>2, <2>3, <2>4, TreeChanged
<1>26. Owned(rl)'
  <2>1. status'[c] # "FREE"
    BY <1>20
  <2>2. /\ c \in Threads /\ rl \in [Blocks -> Roles]
        /\ \A u \in Threads : u # c =>
             /\ status'[u] = "FREE" <=> status[u] = "FREE"
             /\ kernel_sp'[u] = kernel_sp[u] /\ pgd'[u] = pgd[u]
             /\ vma_list'[u] = vma_list[u] /\ op'[u] = op[u]
    BY <1>2, <1>11, <1>20
  <2>. QED  BY <1>21, <1>22, <1>23, <1>25, <2>1, <2>2, OneOwns
<1>27. CallInv'
  <2>1. \A u \in rq' : status'[u] = "ZOMBIE" => op'[u].pc = "user"
    BY <1>2, <1>20, OpsAre DEF CallInv, VmInv, VmTypeOK
  <2>2. \A u \in Threads : op'[u].pc = "del" /\ op'[u].at <= Len(vma_list'[u]) =>
          vma_list'[u][op'[u].at].is_alloced
    BY <1>2, <1>20, OpsAre DEF CallInv
  <2>. QED  BY <2>1, <2>2 DEF CallInv
<1>28. ASSUME NEW p \in Pages
       PROVE  Walk(tab', pgd'[Child], p) = NoEntry
  <2>1. pgd'[Child] = new[5]
    BY <1>1, <1>20
  <2>. QED  BY <1>13, <1>24, <1>25, <2>1, WalkEmpty, PagesAreNumbers
<1>29. ASSUME NEW u \in Live
       PROVE  \A p \in Pages : Walk(tab', pgd[u], p) = Walk(tab, pgd[u], p)
  <2>1. u \in Threads /\ u # c
    BY <1>2 DEF Live
  <2>2. u \in Live' /\ pgd'[u] = pgd[u]
    BY <1>20, <2>1 DEF Live
  <2>3. \A p \in Nat : Walk(tab', pgd[u], p) = Walk(tab, pgd[u], p)
    BY <1>24, <1>26, <2>2, SameWalks
  <2>. QED  BY <2>3, PagesAreNumbers
<1>. QED  BY <1>2, <1>26, <1>27, <1>28, <1>29

-----------------------------------------------------------------------------
(* What goes when zombies are reaped. *)

(* A zombie on the queue is in no call: kill_zombies frees everything that *)
(* it owns.                                                                *)
LEMMA ReapedAre ==
  ASSUME VmInv, CallInv, NEW role, Owned(role), NEW t \in Dead
  PROVE  Reaped(t) = {b \in Blocks : role[b].kind \notin Unowned /\ role[b].of = t}
<1>1. t \in Threads /\ t \in rq /\ status[t] = "ZOMBIE" /\ status[t] # "FREE"
  BY DEF Dead, VmInv, VmTypeOK
<1>2. op[t] = User /\ vma_list[t] \in Seq(Regions)
  <2>1. op[t].pc = "user" /\ op[t] \in Ops /\ vma_list[t] \in Seq(Regions)
    BY <1>1 DEF CallInv, VmInv, VmTypeOK
  <2>. QED  BY <2>1, OpsAre
<1>. DEFINE list == vma_list[t]
<1>3. /\ OwnsStack(role, t, kernel_sp[t]) /\ OwnsTop(role, t, pgd[t])
      /\ OwnsAreas(role, t, list, 0) /\ OwnsLocals(role, t, <<>>) /\ role \in [Blocks -> Roles]
  BY <1>1, <1>2, OwnerIs, OpsAre
<1>4. FreedTables(tab, pgd[t])
        = {b \in Blocks : role[b].kind = "table" /\ role[b].of = t /\ role[b].at > 0}
  BY <1>1, TablesGone
<1>5. AreaBlocks(list) = {b \in Blocks : role[b].kind = "area" /\ role[b].of = t}
  <2>1. \A i : i \in Held(list, 0) <=> i \in DOMAIN list /\ list[i].is_alloced
    <3>1. DOMAIN list = 1 .. Len(list)
      BY <1>2, RegionIs
    <3>2. \A i \in DOMAIN list : i >= 0
      BY <3>1
    <3>. QED  BY <3>2 DEF Held
  <2>2. AreaBlocks(list) = {list[i].pa : i \in Held(list, 0)}
    BY <2>1 DEF AreaBlocks
  <2>3. \A i \in Held(list, 0) :
          list[i].pa \in Blocks /\ role[list[i].pa].kind = "area" /\ role[list[i].pa].of = t
    BY <1>3, RoleIs DEF OwnsAreas
  <2>4. \A b \in Blocks : role[b].kind = "area" /\ role[b].of = t =>
          \E i \in Held(list, 0) : list[i].pa = b
    BY <1>3 DEF OwnsAreas
  <2>. HIDE DEF list
  <2>. QED  BY <2>2, <2>3, <2>4
<1>6. ASSUME NEW b
      PROVE  b \in Reaped(t) <=> b \in Blocks /\ role[b].kind \notin Unowned /\ role[b].of = t
  <2>1. b \in Reaped(t) <=> \/ b \in FreedTables(tab, pgd[t]) \/ b \in AreaBlocks(list)
                            \/ b = kernel_sp[t] \/ b = pgd[t]
    BY DEF Reaped
  <2>. HIDE DEF list
  <2>2. ASSUME b \in Reaped(t)
        PROVE  b \in Blocks /\ role[b].kind \notin Unowned /\ role[b].of = t
    <3>1. CASE b \in FreedTables(tab, pgd[t]) \/ b \in AreaBlocks(list)
      BY <1>4, <1>5, <3>1 DEF Unowned
    <3>2. CASE b = kernel_sp[t] \/ b = pgd[t]
      BY <1>3, <3>2, RoleIs DEF OwnsStack, OwnsTop, Unowned
    <3>. QED  BY <2>1, <2>2, <3>1, <3>2
  <2>3. ASSUME b \in Blocks, role[b].kind \notin Unowned, role[b].of = t
        PROVE  b \in Reaped(t)
    <3>1. role[b] \in Roles /\ role[b].at \in Nat
      BY <1>3, <2>3, RoleIs
    <3>2. role[b].kind \in {"kernel_sp", "table", "area", "local"}
      BY <2>3, <3>1 DEF Roles, Unowned
    <3>3. CASE role[b].kind = "kernel_sp"
      BY <1>3, <2>1, <2>3, <3>3 DEF OwnsStack
    <3>4. CASE role[b].kind = "table"
      <4>1. role[b].at = 0 => b = pgd[t]
        BY <1>3, <2>3, <3>4 DEF OwnsTop
      <4>2. role[b].at > 0 => b \in FreedTables(tab, pgd[t])
        BY <1>4, <2>3, <3>4
      <4>. QED  BY <2>1, <3>1, <4>1, <4>2
    <3>5. CASE role[b].kind = "area"
      BY <1>5, <2>1, <2>3, <3>5
    <3>6. CASE role[b].kind = "local"
      BY <1>3, <2>3, <3>6 DEF OwnsLocals
    <3>. QED  BY <3>2, <3>3, <3>4, <3>5, <3>6
  <2>. QED  BY <2>2, <2>3
<1>. QED  BY <1>6

(* Reaping returns what the dead own, and leaves the walks of the living.  *)
LEMMA ReapOwns ==
  ASSUME VmInv, CallInv, NEW role, Owned(role), refreed = {}, kill_zombies
  PROVE  /\ CallInv' /\ (\E rl : Owned(rl)') /\ refreed' = {}
         /\ Live' = Live \ Dead
         /\ \A u \in Live \ Dead : \A p \in Pages : Walk(tab', pgd[u], p) = Walk(tab, pgd[u], p)
<1>. DEFINE old == UNION {Reaped(t) : t \in Dead}
<1>1. /\ tab' = [b \in Blocks |-> IF b \in old THEN EmptyTable ELSE tab[b]]
      /\ free_blocks' = free_blocks \cup old /\ refreed' = refreed \cup (old \cap free_blocks)
      /\ lost' = lost
  BY DEF kill_zombies, kfree, Dead
<1>2. old = {b \in Blocks : role[b].kind \notin Unowned /\ role[b].of \in Dead}
  <2>1. \A t \in Dead : Reaped(t) = {b \in Blocks : role[b].kind \notin Unowned /\ role[b].of = t}
    BY ReapedAre
  <2>2. \A b : b \in old <=> b \in Blocks /\ role[b].kind \notin Unowned /\ role[b].of \in Dead
    BY <2>1
  <2>. HIDE DEF old
  <2>. QED  BY <2>2
<1>. HIDE DEF old
<1>3. /\ Dead \in SUBSET Threads /\ rq' = rq \ Dead
      /\ \A t \in Dead : /\ status'[t] = "FREE" /\ vma_list'[t] = <<>> /\ pgd'[t] = NoBlock
                         /\ kernel_sp'[t] = NoBlock /\ op'[t] = User
      /\ \A t \in Threads \ Dead :
           /\ status'[t] = status[t] /\ vma_list'[t] = vma_list[t] /\ pgd'[t] = pgd[t]
           /\ kernel_sp'[t] = kernel_sp[t] /\ op'[t] = op[t]
  BY ZombiesReaped
<1>4. Live' = Live \ Dead
  BY <1>3 DEF Live
<1>5. role \in [Blocks -> Roles] /\ Tree(tab, role)
  BY DEF Owned
<1>6. refreed' = {}
  <2>1. \A b \in old : b \notin free_blocks
    BY <1>2 DEF Owned, Unowned
  <2>. QED  BY <1>1, <2>1
<1>7. CallInv'
  <2>1. \A u \in rq' : u \in rq /\ u \in Threads \ Dead
    BY <1>3 DEF VmInv, VmTypeOK
  <2>2. \A u \in rq' : status'[u] = "ZOMBIE" => op'[u].pc = "user"
    BY <1>3, <2>1 DEF CallInv
  <2>3. ASSUME NEW u \in Threads, op'[u].pc = "del", op'[u].at <= Len(vma_list'[u])
        PROVE  vma_list'[u][op'[u].at].is_alloced
    <3>1. u \notin Dead
      BY <1>3, <2>3, OpsAre
    <3>. QED  BY <1>3, <2>3, <3>1 DEF CallInv
  <2>. QED  BY <2>2, <2>3 DEF CallInv
<1>8. PICK rl : rl = [b \in Blocks |-> IF b \in old THEN Role("free", 1, 0) ELSE role[b]]
  OBVIOUS
<1>9. /\ rl \in [Blocks -> Roles]
      /\ \A b \in Blocks : rl[b] = IF b \in old THEN Role("free", 1, 0) ELSE role[b]
      /\ Role("free", 1, 0).kind = "free"
  <2>1. Role("free", 1, 0) \in Roles /\ Role("free", 1, 0).kind = "free"
    BY RoleIs, ThreadNumbers
  <2>. QED  BY <1>5, <1>8, <2>1
<1>10. Tree(tab', rl)
  <2>1. tab \in [Blocks -> TableTypes] /\ \A b \in Blocks : role[b].kind = "table" => role[b].at <= LEVELS - 1
    BY <1>5 DEF Tree, TreeTyped
  <2>2. TreeTyped(tab', rl)
    <3>1. tab' \in [Blocks -> TableTypes]
      BY <1>1, <2>1, BlockNumbers
    <3>. QED  BY <1>9, <2>1, <3>1 DEF TreeTyped
  <2>3. \A b \in Blocks : role[b].kind = "table" /\ role[b].of \notin Dead => rl[b] = role[b] /\ tab'[b] = tab[b]
    BY <1>1, <1>2, <1>9
  <2>4. \A b \in Blocks : rl[b].kind = "table" => role[b].kind = "table" /\ role[b].of \notin Dead
    BY <1>2, <1>9 DEF Unowned
  <2>. QED  BY <1>5, <2>2, <2>3, <2>4, TreeChanged
<1>11. ASSUME NEW u \in Live'
       PROVE  ThreadOwns(rl, u, kernel_sp'[u], pgd'[u], vma_list'[u], op'[u])
  <2>1. u \in Live /\ u \in Threads \ Dead
    BY <1>4 DEF Live
  <2>2. ThreadOwns(role, u, kernel_sp[u], pgd[u], vma_list[u], op[u])
    BY <2>1 DEF Owned
  <2>3. \A b \in Blocks : \/ role[b].kind \notin Unowned /\ role[b].of = u
                          \/ rl[b].kind \notin Unowned /\ rl[b].of = u
          => rl[b] = role[b]
    BY <1>2, <1>9, <2>1 DEF Unowned
  <2>4. ThreadOwns(rl, u, kernel_sp[u], pgd[u], vma_list[u], op[u])
    BY <2>2, <2>3, AllKept
  <2>. QED  BY <1>3, <2>1, <2>4
<1>12. \A b \in Blocks : /\ rl[b].kind = "free" <=> b \in free_blocks'
                         /\ rl[b].kind = "lost" <=> b \in lost'
                         /\ rl[b].kind \notin Unowned => rl[b].of \in Live'
  <2>1. \A b \in Blocks : /\ role[b].kind = "free" <=> b \in free_blocks
                          /\ role[b].kind = "lost" <=> b \in lost
                          /\ role[b].kind \notin Unowned => role[b].of \in Live
    BY DEF Owned
  <2>. QED  BY <1>1, <1>2, <1>4, <1>9, <2>1 DEF Unowned
<1>13. free_blocks' \in SUBSET Blocks /\ lost' \in SUBSET Blocks
  BY <1>1, <1>2 DEF Owned
<1>14. Owned(rl)'
  BY <1>9, <1>10, <1>11, <1>12, <1>13 DEF Owned
<1>15. ASSUME NEW u \in Live \ Dead
       PROVE  \A p \in Pages : Walk(tab', pgd[u], p) = Walk(tab, pgd[u], p)
  <2>1. u \in Live' /\ pgd'[u] = pgd[u]
    BY <1>3, <1>4 DEF Live
  <2>2. \A b \in Blocks : role[b].kind = "table" /\ role[b].of = u => tab'[b] = tab[b]
    BY <1>1, <1>2
  <2>3. \A p \in Nat : Walk(tab', pgd[u], p) = Walk(tab, pgd[u], p)
    BY <1>14, <2>1, <2>2, SameWalks
  <2>. QED  BY <2>3, PagesAreNumbers
<1>. QED  BY <1>4, <1>6, <1>7, <1>14, <1>15

-----------------------------------------------------------------------------
(* Every block has one owner. *)

(* schedule queues no zombie. *)
LEMMA QueuedZombies ==
  ASSUME NEW t \in Threads, NEW st, schedule(t, st)
  PROVE  \A v \in rq' : st[v] = "ZOMBIE" => v \in rq
<1>1. PICK u : rq' = (rq \ {u}) \cup (IF st[t] = "ZOMBIE" THEN {} ELSE {t})
  BY DEF schedule
<1>. QED  BY <1>1

(* Steps that only change which threads run, and make zombies. *)
LEMMA RunOwns ==
  ASSUME VmInv, CallInv, NEW role, Owned(role),
         UNCHANGED <<vma_list, pgd, kernel_sp, op, tab, free_blocks, lost, refreed>>,
         \A t \in Threads : status'[t] = "FREE" <=> status[t] = "FREE",
         \A v \in rq' : status'[v] = "ZOMBIE" => op[v].pc = "user"
  PROVE  CallInv' /\ Owned(role)' /\ refreed' = refreed
<1>1. Owned(role)'
  BY SameOwners
<1>. QED  BY <1>1 DEF CallInv

(* A switch moves no block.                                                *)
LEMMA TickOwns ==
  ASSUME VmInv, CallInv, NEW role, Owned(role), Tick
  PROVE  CallInv' /\ Owned(role)' /\ refreed' = refreed
<1>1. UNCHANGED <<status, vma_list, pgd, kernel_sp, op, tab, free_blocks, lost, refreed>>
  BY DEF Tick
<1>2. \A v \in rq' : status[v] = "ZOMBIE" => v \in rq
  <2>1. CASE curr = idle
    <3>1. \E u : rq' = rq \ {u}
      BY <2>1 DEF Tick
    <3>. QED  BY <3>1
  <2>2. CASE curr # idle
    <3>1. curr \in Threads /\ schedule(curr, status)
      BY <2>2 DEF Tick, VmInv, VmTypeOK
    <3>. QED  BY <3>1, QueuedZombies
  <2>. QED  BY <2>1, <2>2
<1>3. \A v \in rq' : status'[v] = "ZOMBIE" => op[v].pc = "user"
  BY <1>1, <1>2 DEF CallInv
<1>. QED  BY <1>1, <1>3, RunOwns

(* An access moves no block.                                               *)
LEMMA AccessOwns ==
  ASSUME VmInv, CallInv, NEW role, Owned(role), NEW t \in Threads, NEW p \in Touched,
         NEW write \in BOOLEAN, Access(t, p, write)
  PROVE  CallInv' /\ Owned(role)' /\ refreed' = refreed
<1>1. UNCHANGED <<status, rq, vma_list, pgd, kernel_sp, op, tab, free_blocks, lost, refreed>>
  BY DEF Access
<1>2. \A v \in rq' : status'[v] = "ZOMBIE" => op[v].pc = "user"
  BY <1>1 DEF CallInv
<1>. QED  BY <1>1, <1>2, RunOwns

(* The thread u becomes a zombie outside of any call. *)
LEMMA ZombieOwns ==
  ASSUME VmInv, CallInv, NEW role, Owned(role), NEW u \in Threads, status[u] # "FREE",
         op[u].pc = "user", status' = [status EXCEPT ![u] = "ZOMBIE"],
         UNCHANGED <<vma_list, pgd, kernel_sp, op, tab, free_blocks, lost, refreed>>,
         \A v \in rq' : status'[v] = "ZOMBIE" => v \in rq \/ v = u
  PROVE  CallInv' /\ Owned(role)' /\ refreed' = refreed
<1>1. /\ status \in [Threads -> {"FREE", "ACTIVE", "ZOMBIE"}] /\ rq \in SUBSET Threads
  BY DEF VmInv, VmTypeOK
<1>2. \A t \in Threads : status'[t] = "FREE" <=> status[t] = "FREE"
  BY <1>1
<1>3. \A v \in Threads : v # u => status'[v] = status[v]
  BY <1>1
<1>4. \A v \in rq' : status'[v] = "ZOMBIE" => op[v].pc = "user"
  BY <1>1, <1>3 DEF CallInv
<1>. QED  BY <1>2, <1>4, RunOwns

(* An access that ends its thread moves no block.                          *)
LEMMA SegfaultOwns ==
  ASSUME VmInv, CallInv, NEW role, Owned(role), NEW t \in Threads, NEW p \in Touched,
         NEW write \in BOOLEAN, Segfault(t, p, write)
  PROVE  CallInv' /\ Owned(role)' /\ refreed' = refreed
<1>. DEFINE st == [status EXCEPT ![t] = "ZOMBIE"]
<1>1. /\ curr = t /\ op[t].pc = "user" /\ status' = st /\ schedule(t, st)
      /\ UNCHANGED <<vma_list, pgd, kernel_sp, op, tab, free_blocks, lost, refreed>>
  BY DEF Segfault, thread_exit, Running
<1>2. \A v \in rq' : st[v] = "ZOMBIE" => v \in rq
  <2>. HIDE DEF st
  <2>. QED  BY <1>1, QueuedZombies
<1>3. status[t] # "FREE"
  BY <1>1, OnCpu
<1>. QED  BY <1>1, <1>2, <1>3, ZombieOwns

(* An exit moves no block.                                                 *)
LEMMA ExitOwns ==
  ASSUME VmInv, CallInv, NEW role, Owned(role), NEW t \in Threads, exit(t)
  PROVE  CallInv' /\ Owned(role)' /\ refreed' = refreed
<1>1. /\ curr = t /\ op[t].pc = "user" /\ status' = [status EXCEPT ![t] = "ZOMBIE"]
      /\ UNCHANGED <<rq, vma_list, pgd, kernel_sp, op, tab, free_blocks, lost, refreed>>
  BY DEF exit, Running
<1>2. status[t] # "FREE"
  BY <1>1, OnCpu
<1>. QED  BY <1>1, <1>2, ZombieOwns

(* A kill of a thread outside exec and mmap moves no block.                *)
LEMMA KillOwns ==
  ASSUME VmInv, CallInv, NEW role, Owned(role), ~KillInKernel,
         NEW t \in Threads, NEW u \in Threads, kill(t, u)
  PROVE  CallInv' /\ Owned(role)' /\ refreed' = refreed
<1>. DEFINE st == [status EXCEPT ![u] = "ZOMBIE"]
<1>1. /\ status[u] # "FREE" /\ op[u].pc = "user" /\ status' = st /\ schedule(t, st)
      /\ UNCHANGED <<vma_list, pgd, kernel_sp, op, tab, free_blocks, lost, refreed>>
  BY DEF kill
<1>2. \A v \in rq' : st[v] = "ZOMBIE" => v \in rq
  <2>. HIDE DEF st
  <2>. QED  BY <1>1, QueuedZombies
<1>. QED  BY <1>1, <1>2, ZombieOwns

(* The blocks of the first program. *)
LEMMA FirstOwns ==
  ASSUME VmInit, VmInv
  PROVE  OwnInv
<1>1. PICK new : new = FirstBlocks
  OBVIOUS
<1>. DEFINE list == Areas(new[4], new[1], new[3])
<1>2. /\ new \in [1 .. 5 -> Blocks] /\ \A i, j \in 1 .. 5 : i # j => new[i] # new[j]
  BY <1>1, FirstIs
<1>3. /\ status = [t \in Threads |-> IF t = 1 THEN "ACTIVE" ELSE "FREE"]
      /\ rq = {}
      /\ kernel_sp = [t \in Threads |-> IF t = 1 THEN new[2] ELSE NoBlock]
      /\ pgd = [t \in Threads |-> IF t = 1 THEN new[5] ELSE NoBlock]
      /\ vma_list = [t \in Threads |-> IF t = 1 THEN list ELSE <<>>]
      /\ op = [t \in Threads |-> User]
      /\ tab = [b \in Blocks |-> EmptyTable]
      /\ free_blocks = Blocks \ Range(new)
      /\ lost = {} /\ refreed = {}
  BY <1>1, VmInitIs
<1>4. AreasFrom(list, new[4], new[1], new[3])
  <2>1. new[1] \in 0 .. NBLOCKS /\ new[3] \in 0 .. NBLOCKS /\ new[4] \in 0 .. NBLOCKS
    BY <1>2, Layout DEF Blocks
  <2>. QED  BY <2>1, AreasAre
<1>. HIDE DEF list
<1>5. 1 \in Threads /\ Live = {1}
  BY <1>3, ThreadNumbers DEF Live
<1>. DEFINE r == <<Role("area", 1, 2), Role("kernel_sp", 1, 0), Role("area", 1, 5),
                   Role("area", 1, 1), Role("table", 1, 0)>>
            none == [b \in Blocks |-> Role("free", 1, 0)]
<1>6. r \in [1 .. 5 -> Roles] /\ none \in [Blocks -> Roles]
      /\ \A b \in Blocks : none[b].kind = "free"
  <2>1. /\ Role("area", 1, 2) \in Roles /\ Role("kernel_sp", 1, 0) \in Roles
        /\ Role("area", 1, 5) \in Roles /\ Role("area", 1, 1) \in Roles
        /\ Role("table", 1, 0) \in Roles /\ Role("free", 1, 0) \in Roles
    BY <1>5, RoleIs
  <2>. QED  BY <2>1, RoleIs
<1>7. r[1] = Role("area", 1, 2) /\ r[2] = Role("kernel_sp", 1, 0) /\ r[3] = Role("area", 1, 5)
      /\ r[4] = Role("area", 1, 1) /\ r[5] = Role("table", 1, 0)
  OBVIOUS
<1>. HIDE DEF r, none
<1>8. PICK rl : Given(rl, none, new, r, 5)
  BY <1>2, <1>6, RolesGiven
<1>9. /\ rl \in [Blocks -> Roles] /\ \A i \in 1 .. 5 : rl[new[i]] = r[i]
      /\ \A b \in Blocks : (\A i \in 1 .. 5 : b # new[i]) => rl[b].kind = "free"
  BY <1>6, <1>8 DEF Given
<1>10. /\ new[1] \in Blocks /\ new[2] \in Blocks /\ new[3] \in Blocks /\ new[4] \in Blocks
       /\ new[5] \in Blocks
       /\ rl[new[1]] = Role("area", 1, 2) /\ rl[new[2]] = Role("kernel_sp", 1, 0)
       /\ rl[new[3]] = Role("area", 1, 5) /\ rl[new[4]] = Role("area", 1, 1)
       /\ rl[new[5]] = Role("table", 1, 0)
  BY <1>2, <1>7, <1>9
<1>11. \A i \in 1 .. 5 : i = 1 \/ i = 2 \/ i = 3 \/ i = 4 \/ i = 5
  OBVIOUS
<1>12. \A b \in Blocks : \/ rl[b].kind = "free" /\ \A i \in 1 .. 5 : b # new[i]
                         \/ b = new[1] \/ b = new[2] \/ b = new[3] \/ b = new[4] \/ b = new[5]
  BY <1>9, <1>11
<1>13. OwnsStack(rl, 1, new[2])
  <2>1. \A b \in Blocks : rl[b].kind = "kernel_sp" => b = new[2]
    BY <1>10, <1>12, RoleIs
  <2>. QED  BY <1>10, <2>1 DEF OwnsStack
<1>14. OwnsTop(rl, 1, new[5]) /\ \A b \in Blocks : rl[b].kind = "table" => b = new[5]
  <2>1. \A b \in Blocks : rl[b].kind = "table" => b = new[5]
    BY <1>10, <1>12, RoleIs
  <2>. QED  BY <1>10, <2>1 DEF OwnsTop
<1>15. OwnsAreas(rl, 1, list, 0)
  <2>1. \A b \in Blocks : rl[b].kind = "area" => b = new[4] \/ b = new[1] \/ b = new[3]
    BY <1>10, <1>12, RoleIs
  <2>. QED  BY <1>4, <1>5, <1>9, <1>10, <2>1, FirstOwned
<1>16. OwnsLocals(rl, 1, <<>>)
  <2>1. \A b \in Blocks : rl[b].kind # "local"
    BY <1>10, <1>12, RoleIs
  <2>. QED  BY <2>1 DEF OwnsLocals
<1>17. ThreadOwns(rl, 1, kernel_sp[1], pgd[1], vma_list[1], op[1])
  BY <1>3, <1>5, <1>13, <1>14, <1>15, <1>16, OpsAre DEF ThreadOwns
<1>18. Tree(tab, rl)
  <2>1. rl[new[5]].at = 0 /\ 0 <= LEVELS - 1
    BY <1>10, RoleIs, Spans
  <2>2. TreeTyped(tab, rl)
    BY <1>3, <1>9, <1>14, <2>1, BlockNumbers DEF TreeTyped
  <2>3. \A b \in Blocks, i \in 0 .. FAN - 1 : tab[b][i].to = NoBlock
    BY <1>3, BlockNumbers
  <2>4. Children(tab, rl) /\ OnlyParents(tab, rl)
    BY <2>3 DEF Children, OnlyParents
  <2>5. \A b \in Blocks : rl[b].kind = "table" => rl[b].at = 0
    BY <1>14, <2>1
  <2>6. Parents(tab, rl)
    BY <2>5 DEF Parents
  <2>. QED  BY <2>2, <2>4, <2>6 DEF Tree
<1>19. \A b \in Blocks : /\ rl[b].kind = "free" <=> b \in free_blocks
                         /\ rl[b].kind = "lost" <=> b \in lost
                         /\ rl[b].kind \notin Unowned => rl[b].of \in Live
  <2>1. Range(new) = {new[i] : i \in 1 .. 5}
    BY <1>2 DEF Range
  <2>2. \A b \in Blocks : b \in free_blocks <=> \A i \in 1 .. 5 : b # new[i]
    BY <1>3, <2>1
  <2>3. new[1] \notin free_blocks /\ new[2] \notin free_blocks /\ new[3] \notin free_blocks
        /\ new[4] \notin free_blocks /\ new[5] \notin free_blocks
    BY <1>10, <2>2
  <2>4. /\ rl[new[1]].kind \notin Unowned /\ rl[new[1]].of = 1
        /\ rl[new[2]].kind \notin Unowned /\ rl[new[2]].of = 1
        /\ rl[new[3]].kind \notin Unowned /\ rl[new[3]].of = 1
        /\ rl[new[4]].kind \notin Unowned /\ rl[new[4]].of = 1
        /\ rl[new[5]].kind \notin Unowned /\ rl[new[5]].of = 1
    BY <1>10, RoleIs DEF Unowned
  <2>5. \A b \in Blocks : \/ rl[b].kind = "free" /\ b \in free_blocks
                          \/ rl[b].kind \notin Unowned /\ rl[b].of = 1 /\ b \notin free_blocks
    BY <1>12, <2>2, <2>3, <2>4
  <2>. QED  BY <1>3, <1>5, <2>5 DEF Unowned
<1>20. free_blocks \in SUBSET Blocks /\ lost \in SUBSET Blocks
  BY <1>3
<1>21. Owned(rl)
  BY <1>5, <1>9, <1>17, <1>18, <1>19, <1>20 DEF Owned
<1>22. CallInv
  BY <1>3, OpsAre DEF CallInv
<1>. QED  BY <1>3, <1>21, <1>22 DEF OwnInv

(* A page fault frees nothing.                                             *)
LEMMA FaultKeeps ==
  ASSUME VmInv, CallInv, NEW t \in Threads, NEW p \in Touched, NEW first \in BOOLEAN,
         Fault(t, p, first)
  PROVE  CallInv' /\ refreed' = refreed
BY DEF Fault, CallInv

(* Every step keeps one role per block.                                    *)
LEMMA OwnStep ==
  ASSUME VmInv, OwnInv, ~KillInKernel, [VmNext]_vm_vars
  PROVE  OwnInv'
<1>1. PICK role : Owned(role)
  BY DEF OwnInv
<1>2. refreed = {} /\ CallInv
  BY DEF OwnInv
<1>3. CASE UNCHANGED vm_vars
  <2>1. Owned(role)'
    BY <1>1, <1>3, SameOwners DEF vm_vars
  <2>. QED  BY <1>2, <1>3, <2>1 DEF vm_vars, OwnInv, CallInv
<1>4. CASE Tick
  BY <1>1, <1>2, <1>4, TickOwns DEF OwnInv
<1>5. CASE kill_zombies
  BY <1>1, <1>2, <1>5, ReapOwns DEF OwnInv
<1>6. ASSUME NEW t \in Threads, NEW p \in Touched, NEW write \in BOOLEAN,
             Access(t, p, write) \/ Segfault(t, p, write)
      PROVE  OwnInv'
  BY <1>1, <1>2, <1>6, AccessOwns, SegfaultOwns DEF OwnInv
<1>7. ASSUME NEW t \in Threads, NEW p \in Touched, NEW first \in BOOLEAN, Fault(t, p, first)
      PROVE  OwnInv'
  <2>1. \E rl : Owned(rl)'
    BY <1>1, <1>7, FaultOwns
  <2>. QED  BY <1>2, <1>7, <2>1, FaultKeeps DEF OwnInv
<1>8. ASSUME NEW t \in Threads, fork(t)
      PROVE  OwnInv'
  BY <1>1, <1>2, <1>8, ForkOwns DEF OwnInv
<1>9. ASSUME NEW t \in Threads, exec(t) \/ ExecDel(t)
      PROVE  OwnInv'
  BY <1>1, <1>2, <1>9, ExecOwns, ExecDelOwns DEF OwnInv
<1>10. ASSUME NEW t \in Threads, ExecAlloc(t) \/ ExecTables(t) \/ ExecAreas(t)
       PROVE  OwnInv'
  BY <1>1, <1>2, <1>10, ExecAllocOwns, ExecTablesOwns, ExecAreasOwns DEF OwnInv
<1>11. ASSUME NEW t \in Threads, (\E r \in Requests : mmap(t, r)) \/ MmapAdd(t)
       PROVE  OwnInv'
  BY <1>1, <1>2, <1>11, MmapOwns, MmapAddOwns DEF OwnInv
<1>12. ASSUME NEW t \in Threads, exit(t) \/ \E u \in Threads : kill(t, u)
       PROVE  OwnInv'
  BY <1>1, <1>2, <1>12, ExitOwns, KillOwns DEF OwnInv
<1>. QED  BY <1>3, <1>4, <1>5, <1>6, <1>7, <1>8, <1>9, <1>10, <1>11, <1>12 DEF VmNext

(* The inductive invariant of the blocks, provided that no thread is       *)
(* killed inside a call.                                                   *)
LEMMA OwnInvHolds ==
  ASSUME ~KillInKernel
  PROVE  VmSpec => []OwnInv
<1>1. VmInit => OwnInv
  BY VmStarts, FirstOwns
<1>2. VmInv /\ OwnInv /\ [VmNext]_vm_vars => OwnInv'
  BY OwnStep
<1>. QED  BY <1>1, <1>2, VmInvHolds, PTL DEF VmSpec

-----------------------------------------------------------------------------
(* Counting the claims. *)

Tag(b, t, what, n) == <<b, t, what, n>>

(* The claims of a thread, tagged. *)
LEMMA ClaimsOfAre ==
  ASSUME NEW t \in Threads
  PROVE  ClaimsOf(t) =
              {Tag(kernel_sp[t], t, "kernel_sp", 0), Tag(pgd[t], t, "pgd", 0)}
         \cup {Tag(b, t, "table", 0) : b \in Tables(tab, pgd[t])}
         \cup {Tag(vma_list[t][i].pa, t, "area", i) : i \in Held(vma_list[t], op[t].at)}
         \cup {Tag(op[t].new[i], t, "local", i) : i \in DOMAIN op[t].new}
BY DEF ClaimsOf, Tag, Held

(* The claim to a block, by its role. *)
Top(role, b) == role[b].kind = "table" /\ role[b].at = 0

TagOf(role, b) ==
  Tag(b, role[b].of, IF Top(role, b) THEN "pgd" ELSE role[b].kind,
      IF role[b].kind = "table" THEN 0 ELSE role[b].at)

(* A thread claims the blocks it has a role for, each once.                *)
LEMMA ThreadClaims ==
  ASSUME VmInv, NEW role, Owned(role), NEW t \in Live
  PROVE  ClaimsOf(t) = {TagOf(role, b) : b \in {x \in Blocks : role[x].kind \notin Unowned /\ role[x].of = t}}
<1>1. t \in Threads /\ status[t] # "FREE"
  BY DEF Live
<1>. DEFINE list == vma_list[t]
            new == op[t].new
            k == op[t].at
            Own == {x \in Blocks : role[x].kind \notin Unowned /\ role[x].of = t}
<1>2. /\ OwnsStack(role, t, kernel_sp[t]) /\ OwnsTop(role, t, pgd[t])
      /\ OwnsAreas(role, t, list, k) /\ OwnsLocals(role, t, new)
      /\ role \in [Blocks -> Roles]
  BY <1>1, OwnerIs
<1>3. Tables(tab, pgd[t]) = {b \in Blocks : role[b].kind = "table" /\ role[b].of = t /\ role[b].at > 0}
  BY <1>1, TablesGone DEF Tables, FreedTables
<1>4. ClaimsOf(t) =
           {Tag(kernel_sp[t], t, "kernel_sp", 0), Tag(pgd[t], t, "pgd", 0)}
      \cup {Tag(b, t, "table", 0) : b \in Tables(tab, pgd[t])}
      \cup {Tag(list[i].pa, t, "area", i) : i \in Held(list, k)}
      \cup {Tag(new[i], t, "local", i) : i \in DOMAIN new}
  BY <1>1, ClaimsOfAre
<1>. HIDE DEF list, new, k
<1>5. \A b \in Own : /\ role[b].kind = "kernel_sp" => TagOf(role, b) = Tag(b, t, "kernel_sp", role[b].at)
                     /\ role[b].kind = "table" /\ role[b].at = 0 => TagOf(role, b) = Tag(b, t, "pgd", 0)
                     /\ role[b].kind = "table" /\ role[b].at # 0 => TagOf(role, b) = Tag(b, t, "table", 0)
                     /\ role[b].kind = "area" => TagOf(role, b) = Tag(b, t, "area", role[b].at)
                     /\ role[b].kind = "local" => TagOf(role, b) = Tag(b, t, "local", role[b].at)
  BY DEF TagOf, Top
<1>6. /\ kernel_sp[t] \in Own /\ TagOf(role, kernel_sp[t]) = Tag(kernel_sp[t], t, "kernel_sp", 0)
      /\ pgd[t] \in Own /\ TagOf(role, pgd[t]) = Tag(pgd[t], t, "pgd", 0)
  BY <1>2, <1>5, RoleIs DEF OwnsStack, OwnsTop, Unowned
<1>7. \A b \in Tables(tab, pgd[t]) : b \in Own /\ TagOf(role, b) = Tag(b, t, "table", 0)
  BY <1>3, <1>5 DEF Unowned
<1>8. \A i \in Held(list, k) : list[i].pa \in Own /\ TagOf(role, list[i].pa) = Tag(list[i].pa, t, "area", i)
  BY <1>2, <1>5, RoleIs DEF OwnsAreas, Unowned
<1>9. \A i \in DOMAIN new : new[i] \in Own /\ TagOf(role, new[i]) = Tag(new[i], t, "local", i)
  BY <1>2, <1>5, RoleIs DEF OwnsLocals, Unowned
<1>10. ASSUME NEW c \in ClaimsOf(t)
       PROVE  \E b \in Own : c = TagOf(role, b)
  BY <1>4, <1>6, <1>7, <1>8, <1>9, <1>10
<1>11. ASSUME NEW b \in Own
       PROVE  TagOf(role, b) \in ClaimsOf(t)
  <2>1. role[b].kind \in {"kernel_sp", "table", "area", "local"} /\ role[b].at \in Nat /\ b \in Blocks
    BY <1>2, RoleIs DEF Unowned, Roles
  <2>2. CASE role[b].kind = "kernel_sp"
    BY <1>2, <1>4, <1>6, <2>2 DEF OwnsStack
  <2>3. CASE role[b].kind = "table" /\ role[b].at = 0
    BY <1>2, <1>4, <1>6, <2>3 DEF OwnsTop
  <2>4. CASE role[b].kind = "table" /\ role[b].at # 0
    BY <1>3, <1>4, <1>5, <2>1, <2>4
  <2>5. CASE role[b].kind = "area"
    <3>1. role[b].at \in Held(list, k) /\ list[role[b].at].pa = b
      BY <1>2, <2>5 DEF OwnsAreas
    <3>. QED  BY <1>4, <1>8, <3>1
  <2>6. CASE role[b].kind = "local"
    <3>1. role[b].at \in DOMAIN new /\ new[role[b].at] = b
      BY <1>2, <2>6 DEF OwnsLocals
    <3>. QED  BY <1>4, <1>9, <3>1
  <2>. QED  BY <2>1, <2>2, <2>3, <2>4, <2>5, <2>6
<1>. HIDE DEF Own
<1>12. ClaimsOf(t) = {TagOf(role, b) : b \in Own}
  BY <1>10, <1>11
<1>. QED  BY <1>12 DEF Own

(* What has leaked: the blocks that exec forgot and those with a role for  *)
(* a thread that nobody reaps.                                             *)
LEMMA LeakedAre ==
  ASSUME VmInv, NEW role, Owned(role)
  PROVE  Leaked = {b \in Blocks : \/ role[b].kind = "lost"
                                  \/ role[b].kind \notin Unowned /\ role[b].of \in Stranded}
<1>. DEFINE Gone == {b \in Blocks : \/ role[b].kind = "lost"
                                    \/ role[b].kind \notin Unowned /\ role[b].of \in Stranded}
<1>1. /\ lost \in SUBSET Blocks
      /\ \A b \in Blocks : role[b].kind = "lost" <=> b \in lost
  BY DEF Owned
<1>2. Stranded \subseteq Live
  BY DEF Stranded
<1>3. \A b : TagOf(role, b)[1] = b
  BY DEF TagOf, Tag
<1>4. ASSUME NEW b \in Leaked
      PROVE  b \in Gone
  <2>1. CASE b \in lost
    BY <1>1, <2>1
  <2>2. CASE b \notin lost
    <3>1. PICK t \in Stranded : \E c \in ClaimsOf(t) : b = c[1]
      BY <1>4, <2>2 DEF Leaked
    <3>. PICK c \in ClaimsOf(t) : b = c[1]
      BY <3>1
    <3>2. PICK x \in Blocks : role[x].kind \notin Unowned /\ role[x].of = t /\ c = TagOf(role, x)
      BY <1>2, <3>1, ThreadClaims
    <3>. QED  BY <1>3, <3>1, <3>2
  <2>. QED  BY <2>1, <2>2
<1>5. ASSUME NEW b \in Gone
      PROVE  b \in Leaked
  <2>1. CASE role[b].kind = "lost"
    BY <1>1, <2>1 DEF Leaked
  <2>2. CASE role[b].kind \notin Unowned /\ role[b].of \in Stranded
    <3>1. TagOf(role, b) \in ClaimsOf(role[b].of)
      BY <1>2, <2>2, ThreadClaims
    <3>2. TagOf(role, b)[1] \in Leaked
      BY <2>2, <3>1 DEF Leaked
    <3>. QED  BY <1>3, <3>2
  <2>. QED  BY <2>1, <2>2
<1>. QED  BY <1>4, <1>5

(* The claims are those of the blocks that are neither free nor leaked,    *)
(* one for each.                                                           *)
LEMMA AllClaims ==
  ASSUME VmInv, NEW role, Owned(role)
  PROVE  Claims = {TagOf(role, b) : b \in Blocks \ (free_blocks \cup Leaked)}
<1>. DEFINE A == Blocks \ (free_blocks \cup Leaked)
<1>1. \A b \in Blocks : /\ role[b].kind = "free" <=> b \in free_blocks
                        /\ role[b].kind \notin Unowned => role[b].of \in Live
  BY DEF Owned
<1>2. A = {b \in Blocks : role[b].kind \notin Unowned /\ role[b].of \in Live \ Stranded}
  BY <1>1, LeakedAre DEF Unowned
<1>. HIDE DEF A
<1>3. ASSUME NEW c \in Claims
      PROVE  \E b \in A : c = TagOf(role, b)
  <2>1. PICK t \in Live \ Stranded : c \in ClaimsOf(t)
    BY <1>3 DEF Claims
  <2>2. PICK b \in Blocks : role[b].kind \notin Unowned /\ role[b].of = t /\ c = TagOf(role, b)
    BY <2>1, ThreadClaims
  <2>. QED  BY <1>2, <2>1, <2>2
<1>4. ASSUME NEW b \in A
      PROVE  TagOf(role, b) \in Claims
  <2>1. b \in Blocks /\ role[b].kind \notin Unowned /\ role[b].of \in Live \ Stranded
    BY <1>2, <1>4
  <2>2. TagOf(role, b) \in ClaimsOf(role[b].of)
    BY <2>1, ThreadClaims
  <2>. QED  BY <2>1, <2>2 DEF Claims
<1>5. Claims = {TagOf(role, b) : b \in A}
  BY <1>3, <1>4
<1>. QED  BY <1>5 DEF A

(* One role per block is one claim per block that is used.                 *)
LEMMA ClaimsCounted ==
  ASSUME VmInv, OwnInv
  PROVE  EveryBlockOwnedOnce
<1>1. PICK role : Owned(role)
  BY DEF OwnInv
<1>. DEFINE A == Blocks \ (free_blocks \cup Leaked)
            f == [b \in A |-> TagOf(role, b)]
<1>2. Claims = {TagOf(role, b) : b \in A}
  BY <1>1, AllClaims
<1>3. \A b \in A : TagOf(role, b)[1] = b
  BY DEF TagOf, Tag
<1>4. IsFiniteSet(A)
  BY BlockNumbers, FS_Subset
<1>5. Leaked \cap free_blocks = {}
  <2>1. \A b \in Blocks : role[b].kind = "free" <=> b \in free_blocks
    BY <1>1 DEF Owned
  <2>. QED  BY <1>1, <2>1, LeakedAre DEF Unowned
<1>. HIDE DEF A
<1>6. f \in Bijection(A, Claims)
  <2>1. \A b, c \in A : TagOf(role, b) = TagOf(role, c) => b = c
    BY <1>3
  <2>. QED  BY <1>2, <2>1 DEF Bijection, Injection, IsInjective, Surjection
<1>7. Cardinality(Claims) = Cardinality(A)
  <2>1. ExistsBijection(A, Claims)
    BY <1>6 DEF ExistsBijection
  <2>. QED  BY <1>4, <2>1, FS_Bijection
<1>8. {c[1] : c \in Claims} = A
  <2>1. \A c \in Claims : \E b \in A : c = TagOf(role, b)
    BY <1>2
  <2>2. \A b \in A : TagOf(role, b) \in Claims
    BY <1>2
  <2>. QED  BY <1>3, <2>1, <2>2
<1>9. refreed = {}
  BY DEF OwnInv
<1>. QED  BY <1>5, <1>7, <1>8, <1>9 DEF EveryBlockOwnedOnce, A

(* No block is used twice or freed twice, and none leaks but what exec     *)
(* forgets and what threads had that died while they had the CPU, whatever *)
(* threads fork, execute, map, touch, exit and are reaped (mmu.c,          *)
(* syscall.c, sched.c) as long as none is killed inside exec or mmap.      *)
THEOREM BlocksAreOwnedOnce ==
  ASSUME ~KillInKernel
  PROVE  VmSpec => []EveryBlockOwnedOnce
<1>1. VmInv /\ OwnInv => EveryBlockOwnedOnce
  BY ClaimsCounted
<1>2. VmSpec => []OwnInv
  BY OwnInvHolds
<1>. QED  BY <1>1, <1>2, VmInvHolds, PTL

-----------------------------------------------------------------------------
(* What the tables and the TLB say. *)

(* Exact tables and an exact cache translate exactly.                      *)
LEMMA ExactSays ==
  ASSUME ExactInv
  PROVE  TranslationExact
<1>1. ASSUME NEW t \in Live, op[t].pc \in {"user", "mmap"}, NEW p \in Pages,
             Walk(tab, pgd[t], p) # NoEntry
      PROVE  PageOf(vma_list[t], p, Walk(tab, pgd[t], p))
  BY <1>1 DEF ExactInv, Exact
<1>2. \A p \in Pages : Cached(p) => curr # idle /\ tlb[p] = Walk(tab, pgd[curr], p)
  BY DEF ExactInv, CacheInv
<1>. QED  BY <1>1, <1>2 DEF TranslationExact, PageOf

(* A thread's tables stay exact if its walks stay.                         *)
LEMMA ExactSame ==
  ASSUME NEW tb, NEW top, NEW list, NEW pc, Exact(tb, top, list, pc),
         NEW tc, \A p \in Pages : Walk(tc, top, p) = Walk(tb, top, p)
  PROVE  Exact(tc, top, list, pc)
BY DEF Exact

(* A step of the thread on the CPU that leaves the other threads' pages. *)
LEMMA OneExact ==
  ASSUME VmInv, ExactInv, NEW t \in Threads, UNCHANGED <<status, pgd>>,
         NEW list, vma_list' = [vma_list EXCEPT ![t] = list],
         NEW o, op' = [op EXCEPT ![t] = o],
         \A u \in Live : u # t => \A p \in Pages : Walk(tab', pgd[u], p) = Walk(tab, pgd[u], p),
         Exact(tab', pgd[t], list, o.pc)
  PROVE  \A u \in Live' : Exact(tab', pgd'[u], vma_list'[u], op'[u].pc)
<1>1. /\ vma_list'[t] = list /\ op'[t] = o
      /\ \A u \in Threads : u # t => vma_list'[u] = vma_list[u] /\ op'[u] = op[u]
  BY DEF VmInv, VmTypeOK
<1>2. ASSUME NEW u \in Live'
      PROVE  Exact(tab', pgd'[u], vma_list'[u], op'[u].pc)
  <2>1. u \in Live /\ u \in Threads /\ pgd'[u] = pgd[u]
    BY DEF Live
  <2>2. CASE u = t
    BY <1>1, <2>1, <2>2
  <2>3. CASE u # t
    <3>1. Exact(tab, pgd[u], vma_list[u], op[u].pc)
      BY <2>1 DEF ExactInv
    <3>2. Exact(tab', pgd[u], vma_list[u], op[u].pc)
      BY <2>1, <2>3, <3>1, ExactSame
    <3>. QED  BY <1>1, <2>1, <2>3, <3>2
  <2>. QED  BY <2>2, <2>3
<1>. QED  BY <1>2

(* With the tables and the TLB as they were. *)
LEMMA SameTables ==
  ASSUME VmInv, ExactInv, NEW t \in Threads, UNCHANGED <<status, curr, pgd, tab, tlb>>,
         NEW list, vma_list' = [vma_list EXCEPT ![t] = list],
         NEW o, op' = [op EXCEPT ![t] = o],
         Exact(tab, pgd[t], list, o.pc)
  PROVE  ExactInv'
<1>1. \A u \in Live' : Exact(tab', pgd'[u], vma_list'[u], op'[u].pc)
  <2>1. \A u \in Live : u # t => \A p \in Pages : Walk(tab', pgd[u], p) = Walk(tab, pgd[u], p)
    OBVIOUS
  <2>2. Exact(tab', pgd[t], list, o.pc)
    OBVIOUS
  <2>. QED  BY <2>1, <2>2, OneExact
<1>2. CacheInv'
  BY DEF ExactInv, CacheInv, Cached
<1>. QED  BY <1>1, <1>2 DEF ExactInv

(* Nothing changes but which threads run; whoever gets the CPU finds an    *)
(* empty TLB.                                                              *)
LEMMA EmptyCache ==
  ASSUME ExactInv, UNCHANGED <<vma_list, pgd, op, tab>>,
         \A t \in Threads : status'[t] = "FREE" <=> status[t] = "FREE",
         tlb' = [p \in Pages |-> NoEntry] \/ UNCHANGED <<curr, tlb>>
  PROVE  ExactInv'
<1>1. Live' = Live
  BY DEF Live
<1>2. \A t \in Live' : Exact(tab', pgd'[t], vma_list'[t], op'[t].pc)
  BY <1>1 DEF ExactInv
<1>3. CacheInv'
  BY DEF ExactInv, CacheInv, Cached
<1>. QED  BY <1>2, <1>3 DEF ExactInv

(* A switch empties the cache.                                             *)
LEMMA CpuEmptied ==
  ASSUME NEW t, NEW st, schedule(t, st)
  PROVE  tlb' = [p \in Pages |-> NoEntry]
BY DEF schedule, switch_to

(* Exactness survives a switch, an exit, a kill and a deadly access.       *)
LEMMA RunExact ==
  ASSUME VmInv, ExactInv,
         \/ Tick
         \/ \E t \in Threads : exit(t) \/ \E u \in Threads : kill(t, u)
         \/ \E t \in Threads, p \in Touched, write \in BOOLEAN : Segfault(t, p, write)
  PROVE  ExactInv'
<1>1. status \in [Threads -> {"FREE", "ACTIVE", "ZOMBIE"}]
  BY DEF VmInv, VmTypeOK
<1>2. CASE Tick
  <2>1. tlb' = [p \in Pages |-> NoEntry]
    BY <1>2, CpuEmptied DEF Tick, switch_to
  <2>. QED  BY <1>2, <2>1, EmptyCache DEF Tick
<1>3. ASSUME NEW t \in Threads, exit(t)
      PROVE  ExactInv'
  <2>1. status[t] # "FREE" /\ status' = [status EXCEPT ![t] = "ZOMBIE"]
        /\ UNCHANGED <<vma_list, pgd, op, tab, curr, tlb>>
    BY <1>3 DEF exit
  <2>2. \A u \in Threads : status'[u] = "FREE" <=> status[u] = "FREE"
    BY <1>1, <2>1
  <2>. QED  BY <2>1, <2>2, EmptyCache
<1>4. ASSUME NEW t \in Threads, NEW u \in Threads, kill(t, u)
      PROVE  ExactInv'
  <2>1. status[u] # "FREE" /\ status' = [status EXCEPT ![u] = "ZOMBIE"]
        /\ UNCHANGED <<vma_list, pgd, op, tab>> /\ tlb' = [p \in Pages |-> NoEntry]
    BY <1>4, CpuEmptied DEF kill
  <2>2. \A v \in Threads : status'[v] = "FREE" <=> status[v] = "FREE"
    BY <1>1, <2>1
  <2>. QED  BY <2>1, <2>2, EmptyCache
<1>5. ASSUME NEW t \in Threads, NEW p \in Touched, NEW write \in BOOLEAN, Segfault(t, p, write)
      PROVE  ExactInv'
  <2>1. curr = t /\ status' = [status EXCEPT ![t] = "ZOMBIE"]
        /\ UNCHANGED <<vma_list, pgd, op, tab>> /\ tlb' = [q \in Pages |-> NoEntry]
    BY <1>5, CpuEmptied DEF Segfault, thread_exit, Running
  <2>2. status[t] # "FREE"
    BY <2>1, OnCpu
  <2>3. \A v \in Threads : status'[v] = "FREE" <=> status[v] = "FREE"
    BY <1>1, <2>1, <2>2
  <2>. QED  BY <2>1, <2>3, EmptyCache
<1>. QED  BY <1>2, <1>3, <1>4, <1>5

(* The TLB keeps what the tables say. *)
LEMMA AccessExact ==
  ASSUME VmInv, ExactInv, NEW t \in Threads, NEW p \in Touched, NEW write \in BOOLEAN,
         Access(t, p, write)
  PROVE  ExactInv'
<1>1. /\ curr = t /\ tlb' = [tlb EXCEPT ![p] = Translation(t, p)]
      /\ UNCHANGED <<status, curr, vma_list, pgd, op, tab>>
  BY DEF Access, Running
<1>2. p \in Pages /\ t # idle
  BY VmAssumption, ThreadNumbers DEF Pages
<1>3. DOMAIN tlb = Pages /\ \A q \in Pages : tlb[q] # NoEntry => curr # idle /\ tlb[q] = Walk(tab, pgd[curr], q)
  BY DEF ExactInv, CacheInv, Cached
<1>4. Translation(t, p) = Walk(tab, pgd[t], p)
  BY <1>1, <1>2, <1>3 DEF Translation, Cached
<1>5. /\ DOMAIN tlb' = Pages /\ tlb'[p] = Walk(tab, pgd[t], p)
      /\ \A q \in Pages : q # p => tlb'[q] = tlb[q]
  BY <1>1, <1>2, <1>3, <1>4
<1>6. \A q \in Pages : tlb'[q] # NoEntry => curr # idle /\ tlb'[q] = Walk(tab, pgd[curr], q)
  BY <1>1, <1>2, <1>3, <1>5
<1>7. CacheInv'
  BY <1>1, <1>5, <1>6 DEF CacheInv, Cached
<1>8. Live' = Live
  BY <1>1 DEF Live
<1>. QED  BY <1>1, <1>7, <1>8 DEF ExactInv

(* The region that a fault is taken for is the one the page lies in, when  *)
(* programs do not touch the byte behind a region: the wrapper comes       *)
(* before the signal stack, behind which it lies.                          *)
LEMMA FaultInside ==
  ASSUME VmInv, ~EndTouch, NEW t \in Threads, NEW p \in Touched, NEW first \in BOOLEAN,
         Fault(t, p, first)
  PROVE  PageOf(vma_list[t], p, FaultEntry(t, p, first))
<1>. DEFINE list == vma_list[t]
            i == FaultArea(list, p, first)
<1>1. curr = t /\ op[t].pc = "user" /\ i # 0 /\ Byte(t, p, first)
  BY DEF Fault, Running
<1>2. list \in Seq(Regions) /\ Apart(list) /\ Laid(list)
  BY <1>1, OnCpu
<1>3. p \in Nat
  BY VmAssumption
<1>4. FaultEntry(t, p, first) = [to |-> list[i].pa, off |-> p - list[i].va, rwx |-> list[i].rwx]
  BY DEF FaultEntry
<1>5. first => p = USER_SIGNAL_WRAPPER_VA \/ ~BehindArea(list, p)
  BY <1>1 DEF Byte
<1>6. /\ i \in DOMAIN list /\ Matches(list[i], p, first)
      /\ \A j \in DOMAIN list : Matches(list[j], p, first) => i <= j
  BY <1>1, <1>2, <1>3, FaultAreaIs
<1>. HIDE DEF list, i
<1>7. /\ DOMAIN list = 1 .. Len(list) /\ Len(list) \in Nat
      /\ \A j \in DOMAIN list : list[j].va \in Nat /\ list[j].size \in Nat \ {0}
  BY <1>2, RegionIs
<1>8. ASSUME ~Inside(list[i], p)
      PROVE  FALSE
  <2>1. first /\ p = list[i].va + list[i].size
    BY <1>3, <1>6, <1>7, <1>8 DEF Matches, Inside
  <2>2. CASE ~BehindArea(list, p)
    <3>1. PICK j \in 1 .. i : Inside(list[j], p)
      BY <1>6, <2>1, <2>2 DEF BehindArea
    <3>2. j \in DOMAIN list /\ j <= i /\ j # i
      BY <1>6, <1>7, <1>8, <3>1
    <3>3. Matches(list[j], p, first)
      BY <3>1 DEF Inside, Matches
    <3>. QED  BY <1>6, <1>7, <3>2, <3>3
  <2>3. CASE p = USER_SIGNAL_WRAPPER_VA
    <3>1. PICK w, g \in DOMAIN list : /\ LiesAt(list[w], USER_SIGNAL_WRAPPER_VA, WRAPPER_SIZE)
                                      /\ LiesAt(list[g], USER_SIGNAL_STKSTART_VA, 1) /\ w < g
      BY <1>2 DEF Laid
    <3>2. /\ list[w].va = p /\ list[w].size \in Nat \ {0}
          /\ list[g].va + 1 = p /\ list[g].size = 1 /\ list[g].va \in Nat
      BY <1>7, <2>3, <3>1, Layout DEF LiesAt
    <3>3. Inside(list[w], p)
      BY <1>3, <3>2 DEF Inside
    <3>4. i <= w /\ i # w
      <4>1. Matches(list[w], p, first)
        BY <3>3 DEF Inside, Matches
      <4>. QED  BY <1>6, <1>8, <3>3, <4>1
    <3>5. i # g
      BY <1>6, <1>7, <3>1, <3>4
    <3>6. Clear(list[i], list[g])
      BY <1>2, <1>6, <3>5 DEF Apart
    <3>7. list[i].va \in Nat /\ list[i].size \in Nat \ {0}
      BY <1>6, <1>7
    <3>. QED  BY <1>3, <2>1, <3>2, <3>6, <3>7 DEF Clear
  <2>. QED  BY <1>5, <2>1, <2>2, <2>3
<1>. QED  BY <1>4, <1>6, <1>8 DEF PageOf, list

(* It survives a page fault: what is mapped is what the region says.       *)
LEMMA FaultExact ==
  ASSUME VmInv, OwnInv, ExactInv, ~EndTouch, NEW t \in Threads, NEW p \in Touched,
         NEW first \in BOOLEAN, Fault(t, p, first)
  PROVE  ExactInv'
<1>1. PICK role : Owned(role)
  BY DEF OwnInv
<1>2. /\ curr = t /\ op[t].pc = "user" /\ Translation(t, p) = NoEntry
      /\ UNCHANGED <<status, curr, vma_list, pgd, op, tlb>>
  BY DEF Fault, Running
<1>3. /\ Walk(tab', pgd[t], p) = FaultEntry(t, p, first)
      /\ \A u \in Live, q \in Pages : ~(u = t /\ q = p) =>
           Walk(tab', pgd[u], q) = Walk(tab, pgd[u], q)
  BY <1>1, FaultOwns
<1>4. t \in Live /\ t # idle
  BY <1>2, OnCpu, ThreadNumbers DEF Live
<1>5. PageOf(vma_list[t], p, FaultEntry(t, p, first))
  BY FaultInside
<1>6. Exact(tab', pgd[t], vma_list[t], op[t].pc)
  <2>1. Exact(tab, pgd[t], vma_list[t], op[t].pc)
    BY <1>4 DEF ExactInv
  <2>2. ASSUME NEW q \in Pages, Walk(tab', pgd[t], q) # NoEntry
        PROVE  PageOf(vma_list[t], q, Walk(tab', pgd[t], q))
    <3>1. CASE q = p
      BY <1>3, <1>5, <3>1
    <3>2. CASE q # p
      <4>1. Walk(tab', pgd[t], q) = Walk(tab, pgd[t], q)
        BY <1>3, <1>4, <3>2
      <4>. QED  BY <1>2, <2>1, <2>2, <4>1 DEF Exact
    <3>. QED  BY <3>1, <3>2
  <2>. QED  BY <1>2, <2>2 DEF Exact
<1>7. \A u \in Live' : Exact(tab', pgd'[u], vma_list'[u], op'[u].pc)
  <2>1. \A u \in Live : u # t => \A q \in Pages : Walk(tab', pgd[u], q) = Walk(tab, pgd[u], q)
    BY <1>3
  <2>2. vma_list' = [vma_list EXCEPT ![t] = vma_list[t]] /\ op' = [op EXCEPT ![t] = op[t]]
    BY <1>2 DEF VmInv, VmTypeOK
  <2>. QED  BY <1>2, <1>6, <2>1, <2>2, OneExact
<1>8. CacheInv'
  <2>1. DOMAIN tlb = Pages /\ \A q \in Pages : tlb[q] # NoEntry => tlb[q] = Walk(tab, pgd[t], q)
    BY <1>2 DEF ExactInv, CacheInv, Cached
  <2>2. tlb[p] = NoEntry
    BY <1>2 DEF Translation, Cached
  <2>3. \A q \in Pages : tlb[q] # NoEntry => tlb[q] = Walk(tab', pgd[t], q)
    BY <1>3, <1>4, <2>1, <2>2
  <2>. QED  BY <1>2, <1>4, <2>1, <2>3 DEF CacheInv, Cached
<1>. QED  BY <1>7, <1>8 DEF ExactInv

(* It survives a fork, whose child has empty tables.                       *)
LEMMA ForkExact ==
  ASSUME VmInv, OwnInv, ExactInv, NEW t \in Threads, fork(t)
  PROVE  ExactInv'
<1>1. PICK role : Owned(role)
  BY DEF OwnInv
<1>2. /\ \A p \in Pages : Walk(tab', pgd'[Child], p) = NoEntry
      /\ \A u \in Live : \A p \in Pages : Walk(tab', pgd[u], p) = Walk(tab, pgd[u], p)
  BY <1>1, ForkOwns DEF OwnInv
<1>0. PICK m, new, c : m = Len(Copied(vma_list[t])) /\ new = ChildBlocks(m) /\ c = Child
  OBVIOUS
<1>3. /\ curr = t /\ c \in Threads /\ status[c] = "FREE" /\ c # t
      /\ status' = [status EXCEPT ![c] = "ACTIVE"]
      /\ pgd' = [pgd EXCEPT ![c] = new[5]]
      /\ vma_list' = [vma_list EXCEPT ![c] = ForkList(vma_list[t], new)]
      /\ UNCHANGED <<curr, op, tlb>>
  BY <1>0, ForkIs
<1>4. \A u \in Threads : u # c => status'[u] = status[u] /\ pgd'[u] = pgd[u] /\ vma_list'[u] = vma_list[u]
  BY <1>3 DEF VmInv, VmTypeOK
<1>5. ASSUME NEW u \in Live'
      PROVE  Exact(tab', pgd'[u], vma_list'[u], op'[u].pc)
  <2>1. CASE u = c
    BY <1>0, <1>2, <1>3, <2>1 DEF Exact
  <2>2. CASE u # c
    <3>1. u \in Live /\ pgd'[u] = pgd[u] /\ vma_list'[u] = vma_list[u]
      BY <1>4, <2>2 DEF Live
    <3>2. Exact(tab, pgd[u], vma_list[u], op[u].pc)
      BY <3>1 DEF ExactInv
    <3>3. Exact(tab', pgd[u], vma_list[u], op[u].pc)
      BY <1>2, <3>1, <3>2, ExactSame
    <3>. QED  BY <1>3, <3>1, <3>3
  <2>. QED  BY <2>1, <2>2
<1>6. CacheInv'
  <2>1. t \in Live /\ pgd'[t] = pgd[t]
    BY <1>3, <1>4, OnCpu DEF Live
  <2>2. \A p \in Pages : Walk(tab', pgd[t], p) = Walk(tab, pgd[t], p)
    BY <1>2, <2>1
  <2>. QED  BY <1>3, <2>1, <2>2 DEF ExactInv, CacheInv, Cached
<1>. QED  BY <1>5, <1>6 DEF ExactInv

(* exec, until it frees the tables: the program is not running. *)
LEMMA ExecMoves ==
  ASSUME VmInv, NEW t \in Threads, exec(t) \/ ExecDel(t) \/ ExecAlloc(t)
  PROVE  \E list, o :
           /\ curr = t /\ UNCHANGED <<status, curr, pgd, tab, tlb>>
           /\ vma_list' = [vma_list EXCEPT ![t] = list] /\ op' = [op EXCEPT ![t] = o]
           /\ list \in {vma_list[t], <<>>}
           /\ o.pc \in {"del", "tables"} /\ op[t].pc \in {"user", "del"}
<1>1. CASE exec(t)
  <2>. DEFINE o == [User EXCEPT !.pc = "del", !.at = NextAlloced(vma_list[t], 1)]
  <2>1. o.pc = "del"
    BY DEF User
  <2>2. vma_list' = [vma_list EXCEPT ![t] = vma_list[t]] /\ op' = [op EXCEPT ![t] = o]
        /\ curr = t /\ UNCHANGED <<status, curr, pgd, tab, tlb>> /\ op[t].pc = "user"
    BY <1>1 DEF exec, Running, VmInv, VmTypeOK
  <2>. HIDE DEF o
  <2>. QED  BY <2>1, <2>2
<1>2. CASE ExecDel(t)
  <2>. DEFINE o == [op[t] EXCEPT !.at = NextAlloced(vma_list[t], op[t].at + 1)]
  <2>1. vma_list' = [vma_list EXCEPT ![t] = vma_list[t]] /\ op' = [op EXCEPT ![t] = o]
        /\ curr = t /\ UNCHANGED <<status, curr, pgd, tab, tlb>> /\ op[t].pc = "del"
    BY <1>2 DEF ExecDel, VmInv, VmTypeOK
  <2>2. o.pc = "del"
    <3>1. op[t] \in Ops
      BY DEF VmInv, VmTypeOK
    <3>2. op[t] \in [pc : {"del"}, at : Nat \ {0}, new : {<<>>}, ask : {<<>>}]
      BY <2>1, <3>1 DEF Ops, User
    <3>. QED  BY <3>2
  <2>. HIDE DEF o
  <2>. QED  BY <2>1, <2>2
<1>3. CASE ExecAlloc(t)
  <2>. DEFINE o == [User EXCEPT !.pc = "tables", !.new = [i \in 1 .. 3 |-> Fresh(FreeFor(t), i + 1)]]
  <2>1. o.pc = "tables"
    BY DEF User
  <2>2. vma_list' = [vma_list EXCEPT ![t] = <<>>] /\ op' = [op EXCEPT ![t] = o]
        /\ curr = t /\ UNCHANGED <<status, curr, pgd, tab, tlb>> /\ op[t].pc = "del"
    BY <1>3 DEF ExecAlloc
  <2>. HIDE DEF o
  <2>. QED  BY <2>1, <2>2
<1>. QED  BY <1>1, <1>2, <1>3

(* Exactness survives it, because the tables stay.                         *)
LEMMA ExecExact ==
  ASSUME VmInv, ExactInv, NEW t \in Threads, exec(t) \/ ExecDel(t) \/ ExecAlloc(t)
  PROVE  ExactInv'
<1>1. PICK list, o : /\ curr = t /\ UNCHANGED <<status, curr, pgd, tab, tlb>>
                     /\ vma_list' = [vma_list EXCEPT ![t] = list] /\ op' = [op EXCEPT ![t] = o]
                     /\ o.pc \in {"del", "tables"} /\ op[t].pc \in {"user", "del"}
  BY ExecMoves
<1>2. Exact(tab, pgd[t], list, o.pc)
  BY <1>1 DEF Exact
<1>. QED  BY <1>1, <1>2, SameTables

(* The tables are gone before the new regions are there, and the TLB with  *)
(* them.                                                                   *)
LEMMA ExecTablesExact ==
  ASSUME VmInv, OwnInv, ExactInv, NEW t \in Threads, ExecTables(t)
  PROVE  ExactInv'
<1>1. PICK role : Owned(role)
  BY DEF OwnInv
<1>2. /\ \A p \in Pages : Walk(tab', pgd[t], p) = NoEntry
      /\ \A u \in Live : u # t => \A p \in Pages : Walk(tab', pgd[u], p) = Walk(tab, pgd[u], p)
  BY <1>1, ExecTablesOwns DEF OwnInv
<1>. DEFINE o == [op[t] EXCEPT !.pc = "areas"]
<1>3. /\ UNCHANGED <<status, curr, pgd>> /\ op' = [op EXCEPT ![t] = o]
      /\ vma_list' = [vma_list EXCEPT ![t] = vma_list[t]]
      /\ tlb' = [p \in Pages |-> NoEntry]
  BY DEF ExecTables, VmInv, VmTypeOK
<1>. HIDE DEF o
<1>4. Exact(tab', pgd[t], vma_list[t], o.pc)
  BY <1>2 DEF Exact
<1>5. \A u \in Live' : Exact(tab', pgd'[u], vma_list'[u], op'[u].pc)
  BY <1>2, <1>3, <1>4, OneExact
<1>6. CacheInv'
  BY <1>3 DEF CacheInv, Cached
<1>. QED  BY <1>5, <1>6 DEF ExactInv

(* It survives exec's new regions, whose tables are empty.                 *)
LEMMA ExecAreasExact ==
  ASSUME VmInv, ExactInv, NEW t \in Threads, ExecAreas(t)
  PROVE  ExactInv'
<1>1. /\ curr = t /\ op[t].pc = "areas" /\ op' = [op EXCEPT ![t] = User]
      /\ UNCHANGED <<status, curr, pgd, tab, tlb>>
  BY DEF ExecAreas
<1>2. PICK list : vma_list' = [vma_list EXCEPT ![t] = list]
  BY ExecAreasList
<1>3. t \in Live
  BY <1>1, OnCpu DEF Live
<1>4. Exact(tab, pgd[t], vma_list[t], "areas")
  BY <1>1, <1>3 DEF ExactInv
<1>5. Exact(tab, pgd[t], list, User.pc)
  BY <1>4 DEF Exact
<1>. QED  BY <1>1, <1>2, <1>5, SameTables

(* It survives mmap, which maps nothing yet and overlaps nothing mapped.   *)
LEMMA MmapExact ==
  ASSUME VmInv, ExactInv, NEW t \in Threads, NEW r \in Requests, mmap(t, r)
  PROVE  ExactInv'
<1>1. PICK o : /\ curr = t /\ op[t].pc = "user" /\ op' = [op EXCEPT ![t] = o] /\ o.pc = "mmap"
               /\ UNCHANGED <<status, curr, vma_list, pgd, tab, tlb>>
  <2>. DEFINE o == [pc |-> "mmap", at |-> 0, new |-> <<Fresh(FreeFor(t), 1)>>,
                    ask |-> [hint |-> r[1], va |-> MmapAddr(vma_list[t], r[1], r[2]),
                             len |-> r[2], rwx |-> r[3]]]
  <2>1. /\ curr = t /\ op[t].pc = "user" /\ op' = [op EXCEPT ![t] = o] /\ o.pc = "mmap"
        /\ UNCHANGED <<status, curr, vma_list, pgd, tab, tlb>>
    BY DEF mmap, Running
  <2>. HIDE DEF o
  <2>. QED  BY <2>1
<1>2. t \in Live /\ vma_list' = [vma_list EXCEPT ![t] = vma_list[t]]
  BY <1>1, OnCpu DEF Live
<1>3. Exact(tab, pgd[t], vma_list[t], "user")
  BY <1>1, <1>2 DEF ExactInv
<1>4. Exact(tab, pgd[t], vma_list[t], o.pc)
  BY <1>1, <1>3 DEF Exact
<1>. QED  BY <1>1, <1>2, <1>4, SameTables

(* A region that is appended leaves the pages of the others where they     *)
(* are.                                                                    *)
LEMMA MmapAddExact ==
  ASSUME VmInv, ExactInv, NEW t \in Threads, MmapAdd(t)
  PROVE  ExactInv'
<1>. DEFINE list == vma_list[t]
            q == Append(list, NewArea(t))
<1>1. /\ curr = t /\ op[t].pc = "mmap" /\ op' = [op EXCEPT ![t] = User]
      /\ UNCHANGED <<status, curr, pgd, tab, tlb>> /\ vma_list' = [vma_list EXCEPT ![t] = q]
  BY DEF MmapAdd, NewArea
<1>2. t \in Live /\ list \in Seq(Regions) /\ NewArea(t) \in Regions
  BY <1>1, OnCpu, NewAreaIs DEF Live
<1>3. \A i \in DOMAIN list : i \in DOMAIN q /\ q[i] = list[i]
  BY <1>2
<1>4. Exact(tab, pgd[t], list, "mmap")
  BY <1>1, <1>2 DEF ExactInv
<1>. HIDE DEF list, q
<1>5. \A p \in Pages : \A e : PageOf(list, p, e) => PageOf(q, p, e)
  BY <1>3 DEF PageOf
<1>6. Exact(tab, pgd[t], q, User.pc)
  BY <1>4, <1>5, OpsAre DEF Exact
<1>. QED  BY <1>1, <1>6, SameTables

(* It survives the reaping.                                                *)
LEMMA ReapExact ==
  ASSUME VmInv, OwnInv, ExactInv, kill_zombies
  PROVE  ExactInv'
<1>1. PICK role : Owned(role)
  BY DEF OwnInv
<1>2. /\ Live' = Live \ Dead
      /\ \A u \in Live \ Dead : \A p \in Pages : Walk(tab', pgd[u], p) = Walk(tab, pgd[u], p)
  BY <1>1, ReapOwns DEF OwnInv
<1>3. /\ curr = idle /\ tlb' = tlb
      /\ \A t \in Threads \ Dead :
           /\ vma_list'[t] = vma_list[t] /\ pgd'[t] = pgd[t] /\ op'[t] = op[t]
  BY ZombiesReaped DEF kill_zombies
<1>4. ASSUME NEW u \in Live'
      PROVE  Exact(tab', pgd'[u], vma_list'[u], op'[u].pc)
  <2>1. u \in Live /\ u \in Live \ Dead /\ u \in Threads \ Dead
    BY <1>2 DEF Live
  <2>2. Exact(tab, pgd[u], vma_list[u], op[u].pc)
    BY <2>1 DEF ExactInv
  <2>3. Exact(tab', pgd[u], vma_list[u], op[u].pc)
    BY <1>2, <2>1, <2>2, ExactSame
  <2>. QED  BY <1>3, <2>1, <2>3
<1>5. CacheInv'
  <2>1. DOMAIN tlb = Pages /\ \A p \in Pages : tlb[p] = NoEntry
    BY <1>3 DEF ExactInv, CacheInv, Cached
  <2>. QED  BY <1>3, <2>1 DEF CacheInv, Cached
<1>. QED  BY <1>4, <1>5 DEF ExactInv

(* It holds at the start, when nothing is mapped.                          *)
LEMMA FirstExact ==
  ASSUME VmInit, OwnInv
  PROVE  ExactInv
<1>1. PICK role : Owned(role)
  BY DEF OwnInv
<1>2. tab = [b \in Blocks |-> EmptyTable] /\ tlb = [p \in Pages |-> NoEntry]
  BY VmInitIs
<1>3. ASSUME NEW t \in Live, NEW p \in Pages
      PROVE  Walk(tab, pgd[t], p) = NoEntry
  <2>1. Tree(tab, role) /\ pgd[t] \in Blocks /\ role[pgd[t]] = Role("table", t, 0)
    BY <1>1 DEF Owned, ThreadOwns, OwnsTop
  <2>. QED  BY <1>2, <2>1, WalkEmpty, PagesAreNumbers
<1>4. CacheInv
  BY <1>2 DEF CacheInv, Cached
<1>. QED  BY <1>3, <1>4 DEF ExactInv, Exact

(* Every step keeps it.                                                    *)
LEMMA ExactStep ==
  ASSUME VmInv, OwnInv, ExactInv, ~EndTouch, [VmNext]_vm_vars
  PROVE  ExactInv'
<1>1. CASE UNCHANGED vm_vars
  BY <1>1, EmptyCache DEF vm_vars
<1>2. CASE Tick \/ kill_zombies
  BY <1>2, RunExact, ReapExact
<1>3. ASSUME NEW t \in Threads, NEW p \in Touched, NEW write \in BOOLEAN,
             Access(t, p, write) \/ Segfault(t, p, write)
      PROVE  ExactInv'
  BY <1>3, AccessExact, RunExact
<1>4. ASSUME NEW t \in Threads, NEW p \in Touched, NEW first \in BOOLEAN, Fault(t, p, first)
      PROVE  ExactInv'
  BY <1>4, FaultExact
<1>5. ASSUME NEW t \in Threads,
             fork(t) \/ exec(t) \/ ExecDel(t) \/ ExecAlloc(t) \/ ExecTables(t) \/ ExecAreas(t)
      PROVE  ExactInv'
  BY <1>5, ForkExact, ExecExact, ExecTablesExact, ExecAreasExact
<1>6. ASSUME NEW t \in Threads, (\E r \in Requests : mmap(t, r)) \/ MmapAdd(t)
      PROVE  ExactInv'
  BY <1>6, MmapExact, MmapAddExact
<1>7. ASSUME NEW t \in Threads, exit(t) \/ \E u \in Threads : kill(t, u)
      PROVE  ExactInv'
  BY <1>7, RunExact
<1>. QED  BY <1>1, <1>2, <1>3, <1>4, <1>5, <1>6, <1>7 DEF VmNext

(* User code reaches, through tables or TLB, only the page of the region   *)
(* that contains the address, with the region's rights (mmu.c 84-193,      *)
(* syscall.c exec, sched.c switch_to), unless a thread is killed inside a  *)
(* call or touches the byte behind a region.                               *)
THEOREM TranslationsAreExact ==
  ASSUME ~KillInKernel, ~EndTouch
  PROVE  VmSpec => []TranslationExact
<1>1. VmInit => ExactInv
  BY VmStarts, FirstOwns, FirstExact
<1>2. VmInv /\ OwnInv /\ ExactInv /\ [VmNext]_vm_vars => ExactInv'
  BY ExactStep
<1>3. VmSpec => []OwnInv
  BY OwnInvHolds
<1>4. ExactInv => TranslationExact
  BY ExactSays
<1>. QED  BY <1>1, <1>2, <1>3, <1>4, VmInvHolds, PTL DEF VmSpec

-----------------------------------------------------------------------------
(* The memory that programs see. *)

(* The memory of a thread is that of its regions, except inside exec.      *)
LEMMA SpaceIs ==
  /\ Space = [t \in Threads |-> SpaceOf(op[t], vma_list[t], content)]
  /\ Space' = [t \in Threads |-> SpaceOf(op'[t], vma_list'[t], content')]
<1>1. ASSUME NEW o, NEW list, NEW mem
      PROVE  SpaceOf(o, list, mem) =
               LET own == IF o.pc \in {"user", "mmap"}
                          THEN {i \in DOMAIN list : list[i].is_alloced} ELSE {}
               IN  UNION {{<<list[i].va + k, mem[list[i].pa][k]>> :
                             k \in 0 .. list[i].size - 1} : i \in own}
  BY DEF SpaceOf, MemOf
<1>. QED  BY <1>1 DEF Space

(* Memory, page by page.                                                   *)
LEMMA MemIs ==
  ASSUME NEW list, NEW mem
  PROVE  \A x : x \in MemOf(list, mem) <=>
           \E i \in DOMAIN list : /\ list[i].is_alloced
                                  /\ \E o \in 0 .. list[i].size - 1 :
                                       x = <<list[i].va + o, mem[list[i].pa][o]>>
BY DEF MemOf

(* It stays if the blocks of the regions keep what they hold.              *)
LEMMA MemKept ==
  ASSUME NEW list, NEW mem, NEW m,
         \A i \in DOMAIN list : list[i].is_alloced => m[list[i].pa] = mem[list[i].pa]
  PROVE  MemOf(list, m) = MemOf(list, mem)
<1>1. \A x : x \in MemOf(list, m) <=> x \in MemOf(list, mem)
  BY MemIs
<1>. QED  BY <1>1

(* Pages of a region lie in the region, and in no other one.               *)
LEMMA PagesApart ==
  ASSUME NEW list \in Seq(Regions), Apart(list), NEW i \in DOMAIN list, NEW j \in DOMAIN list,
         NEW o \in 0 .. list[i].size - 1, NEW k \in 0 .. list[j].size - 1,
         list[i].va + o = list[j].va + k
  PROVE  i = j /\ o = k
<1>1. /\ list[i].va \in Nat /\ list[i].size \in Nat /\ list[j].va \in Nat /\ list[j].size \in Nat
  BY RegionIs
<1>. DEFINE a == list[i].va
            b == list[j].va
            m == list[i].size
            n == list[j].size
<1>2. a \in Nat /\ b \in Nat /\ m \in Nat /\ n \in Nat /\ o \in 0 .. m - 1 /\ k \in 0 .. n - 1
      /\ a + o = b + k
  BY <1>1
<1>3. i # j => a + m <= b \/ b + n <= a
  BY DEF Apart, Clear
<1>. HIDE DEF a, b, m, n
<1>4. i = j
  BY <1>2, <1>3
<1>5. i = j => a = b
  BY DEF a, b
<1>. QED  BY <1>2, <1>4, <1>5

-----------------------------------------------------------------------------
(* Threads that a step leaves alone. *)

(* A step changes the memory of the threads in S only, apart from blocks   *)
(* that are no memory.                                                     *)
OnlyOf(role, S) ==
  \A b \in Blocks : content'[b] # content[b] =>
    role[b].kind \notin {"area", "local"} \/ role[b].of \in S

(* The regions of a thread that is not in exec own their blocks.           *)
LEMMA AreasOwned ==
  ASSUME VmInv, NEW role, Owned(role), NEW t \in Threads, op[t].pc \in {"user", "mmap"}
  PROVE  /\ \A i \in DOMAIN vma_list[t] : vma_list[t][i].is_alloced =>
              vma_list[t][i].pa \in Blocks /\ role[vma_list[t][i].pa] = Role("area", t, i)
         /\ op[t].pc = "mmap" =>
              op[t].new[1] \in Blocks /\ role[op[t].new[1]] = Role("local", t, 1)
<1>1. CASE status[t] = "FREE"
  <2>1. vma_list[t] = <<>> /\ op[t] = User
    BY <1>1 DEF VmInv, ThreadInv
  <2>. QED  BY <2>1, OpsAre
<1>2. CASE status[t] # "FREE"
  <2>1. OwnsAreas(role, t, vma_list[t], op[t].at) /\ OwnsLocals(role, t, op[t].new)
    BY <1>2, OwnerIs
  <2>2. op[t] \in Ops /\ vma_list[t] \in Seq(Regions)
    BY DEF VmInv, VmTypeOK
  <2>3. op[t].at = 0 /\ (op[t].pc = "mmap" => op[t].new \in [1 .. 1 -> Blocks])
    BY <2>2, OpsAre
  <2>4. \A i \in DOMAIN vma_list[t] : vma_list[t][i].is_alloced => i \in Held(vma_list[t], op[t].at)
    <3>1. \A i \in DOMAIN vma_list[t] : i >= 0
      BY <2>2, RegionIs
    <3>. QED  BY <2>3, <3>1 DEF Held
  <2>5. op[t].pc = "mmap" => 1 \in DOMAIN op[t].new
    BY <2>3
  <2>. QED  BY <2>1, <2>4, <2>5 DEF OwnsAreas, OwnsLocals
<1>. QED  BY <1>1, <1>2

(* A thread that the step leaves alone keeps its memory.                   *)
LEMMA Bystander ==
  ASSUME VmInv, SpaceInv, NEW role, Owned(role), NEW S, OnlyOf(role, S),
         NEW u \in Threads, u \notin S, vma_list'[u] = vma_list[u], op'[u] = op[u]
  PROVE  /\ SpaceOf(op'[u], vma_list'[u], content') = SpaceOf(op[u], vma_list[u], content)
         /\ MemoryOK(op'[u], vma_list'[u], content')
<1>1. CASE op[u].pc \in {"user", "mmap"}
  <2>1. /\ \A i \in DOMAIN vma_list[u] : vma_list[u][i].is_alloced =>
             vma_list[u][i].pa \in Blocks /\ role[vma_list[u][i].pa] = Role("area", u, i)
        /\ op[u].pc = "mmap" => op[u].new[1] \in Blocks /\ role[op[u].new[1]] = Role("local", u, 1)
    BY <1>1, AreasOwned
  <2>2. \A b \in Blocks : role[b].kind \in {"area", "local"} /\ role[b].of = u => content'[b] = content[b]
    BY DEF OnlyOf
  <2>3. \A i \in DOMAIN vma_list[u] : vma_list[u][i].is_alloced =>
          content'[vma_list[u][i].pa] = content[vma_list[u][i].pa]
    BY <2>1, <2>2, RoleIs
  <2>4. op[u].pc = "mmap" => content'[op[u].new[1]] = content[op[u].new[1]]
    BY <2>1, <2>2, RoleIs
  <2>5. MemOf(vma_list[u], content') = MemOf(vma_list[u], content)
    BY <2>3, MemKept
  <2>. QED  BY <2>4, <2>5 DEF SpaceOf, SpaceInv, MemoryOK
<1>2. CASE op[u].pc \notin {"user", "mmap"}
  BY <1>2 DEF SpaceOf, SpaceInv, MemoryOK
<1>. QED  BY <1>1, <1>2

(* A step on the threads in S keeps the invariant, and the memory of all   *)
(* others.                                                                 *)
LEMMA SpaceKept ==
  ASSUME VmInv, SpaceInv, NEW role, Owned(role), NEW S, OnlyOf(role, S), content' \in Memories,
         \A u \in Threads : u \notin S => vma_list'[u] = vma_list[u] /\ op'[u] = op[u],
         \A t \in Threads : t \in S => MemoryOK(op'[t], vma_list'[t], content')
  PROVE  SpaceInv' /\ \A u \in Threads : u \notin S => Space'[u] = Space[u]
<1>1. \A u \in Threads : u \notin S =>
        /\ SpaceOf(op'[u], vma_list'[u], content') = SpaceOf(op[u], vma_list[u], content)
        /\ MemoryOK(op'[u], vma_list'[u], content')
  BY Bystander
<1>2. SpaceInv'
  BY <1>1 DEF SpaceInv
<1>3. \A u \in Threads : u \notin S => Space'[u] = Space[u]
  BY <1>1, SpaceIs
<1>. QED  BY <1>2, <1>3

-----------------------------------------------------------------------------
(* Steps of the abstract specification. *)

(* A step on the memory of one thread is one of the abstract steps, or none. *)
LEMMA OneStep ==
  ASSUME NEW t \in Threads, AS!Others(t),
         \/ Space'[t] = Space[t] \/ AS!Store(t) \/ AS!Mmap(t) \/ AS!Unload \/ AS!Load(t)
         \/ \E p \in Threads \ {t} : AS!Fork(p, t)
  PROVE  [AS!Next]_Space
<1>1. CASE Space'[t] = Space[t]
  <2>1. \A u \in Threads : Space'[u] = Space[u]
    BY <1>1 DEF AS!Others
  <2>2. Space' = [u \in Threads |-> Space'[u]] /\ Space = [u \in Threads |-> Space[u]]
    BY SpaceIs
  <2>. QED  BY <2>1, <2>2
<1>2. CASE Space'[t] # Space[t]
  BY <1>2 DEF AS!Next
<1>. QED  BY <1>1, <1>2

(* So is the end of any number of programs. *)
LEMMA EndStep ==
  ASSUME AS!Unload
  PROVE  [AS!Next]_Space
<1>1. CASE \A t \in Threads : Space'[t] = Space[t]
  <2>1. Space' = [u \in Threads |-> Space'[u]] /\ Space = [u \in Threads |-> Space[u]]
    BY SpaceIs
  <2>. QED  BY <1>1, <2>1
<1>2. CASE \E t \in Threads : Space'[t] # Space[t]
  BY <1>2 DEF AS!Next
<1>. QED  BY <1>1, <1>2

(* A step that changes neither regions, calls nor memory.                  *)
LEMMA NothingSeen ==
  ASSUME SpaceInv, UNCHANGED <<op, vma_list, content>>
  PROVE  SpaceInv' /\ [AS!Next]_Space
<1>1. SpaceInv'
  BY DEF SpaceInv
<1>2. Space' = Space
  BY SpaceIs
<1>. QED  BY <1>1, <1>2

(* A step of one thread on its own memory. *)
LEMMA OwnMemory ==
  ASSUME VmInv, SpaceInv, NEW role, Owned(role), NEW t \in Threads, OnlyOf(role, {t}),
         content' \in Memories,
         NEW list, vma_list' = [vma_list EXCEPT ![t] = list],
         NEW o, op' = [op EXCEPT ![t] = o], MemoryOK(o, list, content')
  PROVE  /\ SpaceInv' /\ AS!Others(t)
         /\ Space[t] = SpaceOf(op[t], vma_list[t], content)
         /\ Space'[t] = SpaceOf(o, list, content')
<1>1. /\ vma_list'[t] = list /\ op'[t] = o
      /\ \A u \in Threads : u # t => vma_list'[u] = vma_list[u] /\ op'[u] = op[u]
  BY DEF VmInv, VmTypeOK
<1>2. SpaceInv' /\ \A u \in Threads : u # t => Space'[u] = Space[u]
  <2>1. /\ \A u \in Threads : u \notin {t} => vma_list'[u] = vma_list[u] /\ op'[u] = op[u]
        /\ \A u \in Threads : u \in {t} => MemoryOK(op'[u], vma_list'[u], content')
    BY <1>1
  <2>2. SpaceInv' /\ \A u \in Threads : u \notin {t} => Space'[u] = Space[u]
    BY <2>1, SpaceKept
  <2>. QED  BY <2>2
<1>. QED  BY <1>1, <1>2, SpaceIs DEF AS!Others

(* A step that frees blocks leaves them with junk.                         *)
LEMMA FreedIs ==
  ASSUME SpaceInv, NEW S, kfree(S)
  PROVE  /\ content' \in Memories
         /\ \A b \in Blocks : b \notin S => content'[b] = content[b]
<1>1. Filled("junk") \in [Offsets -> Contents]
  BY DEF Filled, Offsets, Contents
<1>. QED  BY <1>1 DEF kfree, SpaceInv, Memories

-----------------------------------------------------------------------------
(* The steps, one by one. *)

(* Switches, exits, kills and page faults move no memory.                  *)
LEMMA QuietSpace ==
  ASSUME SpaceInv,
         \/ Tick
         \/ \E t \in Threads : exit(t) \/ \E u \in Threads : kill(t, u)
         \/ \E t \in Threads, p \in Touched, write \in BOOLEAN : Segfault(t, p, write)
         \/ \E t \in Threads, p \in Touched, first \in BOOLEAN : Fault(t, p, first)
  PROVE  SpaceInv' /\ [AS!Next]_Space
<1>1. Tick => UNCHANGED <<op, vma_list, content>>
  BY DEF Tick
<1>2. \A t, u \in Threads : exit(t) \/ kill(t, u) => UNCHANGED <<op, vma_list, content>>
  BY DEF exit, kill
<1>3. \A t \in Threads, p \in Touched, write \in BOOLEAN :
        Segfault(t, p, write) => UNCHANGED <<op, vma_list, content>>
  BY DEF Segfault
<1>4. \A t \in Threads, p \in Touched, first \in BOOLEAN :
        Fault(t, p, first) => UNCHANGED <<op, vma_list, content>>
  BY DEF Fault
<1>5. UNCHANGED <<op, vma_list, content>>
  BY <1>1, <1>2, <1>3, <1>4
<1>. QED  BY <1>5, NothingSeen

(* A program that execs loses its memory, the others keep theirs.          *)
LEMMA ExecSpace ==
  ASSUME VmInv, OwnInv, SpaceInv, NEW t \in Threads, exec(t) \/ ExecDel(t) \/ ExecAlloc(t)
  PROVE  SpaceInv' /\ [AS!Next]_Space
<1>1. PICK role : Owned(role)
  BY DEF OwnInv
<1>2. PICK list, o : /\ curr = t
                     /\ vma_list' = [vma_list EXCEPT ![t] = list] /\ op' = [op EXCEPT ![t] = o]
                     /\ list \in {vma_list[t], <<>>} /\ o.pc \in {"del", "tables"}
  BY ExecMoves
<1>3. content' \in Memories /\ OnlyOf(role, {t})
  <2>1. CASE exec(t) \/ ExecAlloc(t)
    <3>1. content' = content
      BY <2>1 DEF exec, ExecAlloc
    <3>. QED  BY <3>1 DEF SpaceInv, OnlyOf
  <2>2. CASE ExecDel(t)
    <3>1. /\ op[t].pc = "del" /\ op[t].at <= Len(vma_list[t])
          /\ kfree({vma_list[t][op[t].at].pa})
      BY <2>2 DEF ExecDel
    <3>2. /\ content' \in Memories
          /\ \A b \in Blocks : b # vma_list[t][op[t].at].pa => content'[b] = content[b]
      BY <3>1, FreedIs
    <3>3. vma_list[t][op[t].at].is_alloced
      BY <3>1 DEF OwnInv, CallInv
    <3>4. op[t].at \in Held(vma_list[t], op[t].at)
      <4>1. op[t] \in Ops /\ vma_list[t] \in Seq(Regions) /\ status[t] # "FREE"
        BY <1>2, OnCpu
      <4>2. op[t].at \in Nat /\ op[t].at > 0
        BY <3>1, <4>1, OpsAre
      <4>3. op[t].at \in DOMAIN vma_list[t] /\ op[t].at >= op[t].at
        BY <3>1, <4>1, <4>2, RegionIs
      <4>. QED  BY <3>3, <4>3 DEF Held
    <3>5. OwnsAreas(role, t, vma_list[t], op[t].at)
      BY <1>1, <1>2, OnCpu, OwnerIs
    <3>6. role[vma_list[t][op[t].at].pa] = Role("area", t, op[t].at)
      BY <3>4, <3>5 DEF OwnsAreas
    <3>. QED  BY <3>2, <3>6, RoleIs DEF OnlyOf
  <2>. QED  BY <2>1, <2>2
<1>4. MemoryOK(o, list, content')
  <2>1. Known(vma_list[t]) /\ Known(<<>>)
    BY DEF SpaceInv, MemoryOK, Known
  <2>. QED  BY <1>2, <2>1 DEF MemoryOK
<1>5. SpaceInv' /\ AS!Others(t) /\ Space'[t] = SpaceOf(o, list, content')
  BY <1>1, <1>2, <1>3, <1>4, OwnMemory
<1>6. Space'[t] = {}
  BY <1>2, <1>5 DEF SpaceOf
<1>7. AS!Unload
  BY <1>5, <1>6 DEF AS!Unload, AS!Others
<1>. QED  BY <1>5, <1>7, EndStep

(* Freeing tables moves no memory.                                         *)
LEMMA ExecTablesSpace ==
  ASSUME VmInv, OwnInv, SpaceInv, NEW t \in Threads, ExecTables(t)
  PROVE  SpaceInv' /\ [AS!Next]_Space
<1>1. PICK role : Owned(role)
  BY DEF OwnInv
<1>. DEFINE o == [op[t] EXCEPT !.pc = "areas"]
            old == FreedTables(tab, pgd[t])
<1>2. /\ curr = t /\ op[t].pc = "tables" /\ kfree(old)
      /\ op' = [op EXCEPT ![t] = o] /\ vma_list' = [vma_list EXCEPT ![t] = vma_list[t]]
  BY DEF ExecTables, VmInv, VmTypeOK
<1>3. o.pc = "areas"
  <2>1. op[t] \in Ops
    BY DEF VmInv, VmTypeOK
  <2>2. op[t] \in [pc : {"tables", "areas"}, at : {0}, new : [1 .. 3 -> Blocks], ask : {<<>>}]
    BY <1>2, <2>1 DEF Ops, User
  <2>. QED  BY <2>2
<1>4. \A b \in old : role[b].kind = "table"
  BY <1>1, <1>2, OnCpu, TablesGone
<1>. HIDE DEF o, old
<1>5. content' \in Memories /\ OnlyOf(role, {t})
  BY <1>2, <1>4, FreedIs DEF OnlyOf
<1>6. MemoryOK(o, vma_list[t], content')
  BY <1>3 DEF SpaceInv, MemoryOK
<1>7. /\ SpaceInv' /\ AS!Others(t) /\ Space[t] = SpaceOf(op[t], vma_list[t], content)
      /\ Space'[t] = SpaceOf(o, vma_list[t], content')
  BY <1>1, <1>2, <1>5, <1>6, OwnMemory
<1>8. Space'[t] = Space[t]
  BY <1>2, <1>3, <1>7 DEF SpaceOf
<1>. QED  BY <1>7, <1>8, OneStep

(* What the o-th page of the i-th region holds. *)
PageAt(list, mem, i, o) == <<list[i].va + o, mem[list[i].pa][o]>>

(* The regions of a list have blocks of their own, large enough. *)
OwnBlocks(list) ==
  /\ \A i \in DOMAIN list : list[i].is_alloced => list[i].pa \in Blocks /\ list[i].size <= MaxSize
  /\ \A i, j \in DOMAIN list :
       list[i].is_alloced /\ list[j].is_alloced /\ list[i].pa = list[j].pa => i = j

Written(m, mem, b, o, v) == m = [mem EXCEPT ![b][o] = v]

OffsetsOf(list, i) == 0 .. list[i].size - 1

StoredAt(list, m, mem, i, o, v) ==
  /\ PageAt(list, mem, i, o) \in MemOf(list, mem)
  /\ MemOf(list, m) = (MemOf(list, mem) \ {PageAt(list, mem, i, o)}) \cup {<<list[i].va + o, v>>}

(* The page that a write changes, as seen through a list of regions.       *)
LEMMA OneWritten ==
  ASSUME NEW list \in Seq(Regions), Apart(list), NEW mem \in Memories, OwnBlocks(list),
         NEW i \in DOMAIN list, list[i].is_alloced, NEW o \in OffsetsOf(list, i), NEW v,
         NEW m, Written(m, mem, list[i].pa, o, v)
  PROVE  StoredAt(list, m, mem, i, o, v)
<1>0. o \in 0 .. list[i].size - 1
  BY DEF OffsetsOf
<1>. DEFINE x == <<list[i].va + o, mem[list[i].pa][o]>>
            y == <<list[i].va + o, v>>
<1>1. /\ list[i].pa \in Blocks /\ mem[list[i].pa] \in [Offsets -> Contents]
      /\ o \in Offsets
  <2>1. list[i].pa \in Blocks /\ list[i].size <= MaxSize /\ list[i].size \in Nat /\ MaxSize \in Nat
    BY RegionIs, VmAssumption DEF OwnBlocks
  <2>. QED  BY <1>0, <2>1 DEF Memories, Offsets
<1>2. /\ m[list[i].pa][o] = v
      /\ \A k \in Offsets : k # o => m[list[i].pa][k] = mem[list[i].pa][k]
      /\ \A b \in Blocks : b # list[i].pa => m[b] = mem[b]
  BY <1>1 DEF Memories, Written
<1>3. x \in MemOf(list, mem)
  BY <1>0, MemIs
<1>4. ASSUME NEW j \in DOMAIN list, list[j].is_alloced, NEW k \in 0 .. list[j].size - 1,
             ~(j = i /\ k = o)
      PROVE  /\ m[list[j].pa][k] = mem[list[j].pa][k] /\ list[j].va + k # list[i].va + o
  <2>1. list[j].va + k # list[i].va + o
    BY <1>0, <1>4, PagesApart
  <2>2. list[j].pa \in Blocks /\ k \in Offsets
    <3>1. list[j].size <= MaxSize /\ list[j].size \in Nat /\ MaxSize \in Nat
      BY <1>4, RegionIs, VmAssumption DEF OwnBlocks
    <3>. QED  BY <1>4, <3>1 DEF Offsets, OwnBlocks
  <2>3. j # i => list[j].pa # list[i].pa
    BY <1>4 DEF OwnBlocks
  <2>. QED  BY <1>2, <1>4, <2>1, <2>2, <2>3
<1>5. ASSUME NEW z
      PROVE  z \in MemOf(list, m) <=> (z \in MemOf(list, mem) /\ z # x) \/ z = y
  <2>1. ASSUME z \in MemOf(list, m)
        PROVE  (z \in MemOf(list, mem) /\ z # x) \/ z = y
    <3>1. PICK j \in DOMAIN list : list[j].is_alloced
             /\ \E k \in 0 .. list[j].size - 1 : z = <<list[j].va + k, m[list[j].pa][k]>>
      BY <2>1 DEF MemOf
    <3>2. PICK k \in 0 .. list[j].size - 1 : z = <<list[j].va + k, m[list[j].pa][k]>>
      BY <3>1
    <3>3. CASE j = i /\ k = o
      BY <1>2, <3>2, <3>3
    <3>4. CASE ~(j = i /\ k = o)
      <4>1. m[list[j].pa][k] = mem[list[j].pa][k] /\ list[j].va + k # list[i].va + o
        BY <1>4, <3>1, <3>4
      <4>2. z \in MemOf(list, mem)
        BY <3>1, <3>2, <4>1, MemIs
      <4>. QED  BY <3>2, <4>1, <4>2
    <3>. QED  BY <3>3, <3>4
  <2>2. ASSUME z \in MemOf(list, mem), z # x
        PROVE  z \in MemOf(list, m)
    <3>1. PICK j \in DOMAIN list : list[j].is_alloced
             /\ \E k \in 0 .. list[j].size - 1 : z = <<list[j].va + k, mem[list[j].pa][k]>>
      BY <2>2, MemIs
    <3>2. PICK k \in 0 .. list[j].size - 1 : z = <<list[j].va + k, mem[list[j].pa][k]>>
      BY <3>1
    <3>3. ~(j = i /\ k = o)
      BY <2>2, <3>2
    <3>4. m[list[j].pa][k] = mem[list[j].pa][k]
      BY <1>4, <3>1, <3>3
    <3>. QED  BY <3>1, <3>2, <3>4, MemIs
  <2>3. y \in MemOf(list, m)
    BY <1>0, <1>2, MemIs
  <2>. QED  BY <2>1, <2>2, <2>3
<1>. HIDE DEF x, y
<1>6. MemOf(list, m) = (MemOf(list, mem) \ {x}) \cup {y}
  BY <1>5
<1>. QED  BY <1>3, <1>6 DEF x, y, PageAt, StoredAt

(* A write changes one page of the thread that writes, whatever the tables *)
(* and the TLB were.                                                       *)
LEMMA AccessSpace ==
  ASSUME VmInv, OwnInv, ExactInv, SpaceInv,
         NEW t \in Threads, NEW p \in Touched, NEW write \in BOOLEAN, Access(t, p, write)
  PROVE  SpaceInv' /\ [AS!Next]_Space
<1>1. PICK role : Owned(role)
  BY DEF OwnInv
<1>. DEFINE list == vma_list[t]
            e == Translation(t, p)
<1>2. /\ curr = t /\ op[t].pc = "user" /\ e # NoEntry
      /\ content' = IF write /\ e.to \in Blocks /\ e.off < MaxSize
                    THEN [content EXCEPT ![e.to][e.off] = "data"] ELSE content
      /\ UNCHANGED <<vma_list, op>>
  BY DEF Access, Running
<1>3. CASE content' = content
  BY <1>2, <1>3, NothingSeen
<1>4. CASE content' # content
  <2>1. content' = [content EXCEPT ![e.to][e.off] = "data"] /\ e.to \in Blocks
    BY <1>2, <1>4
  <2>2. p \in Pages /\ t \in Live /\ status[t] # "FREE" /\ list \in Seq(Regions) /\ Apart(list)
    BY <1>2, OnCpu, VmAssumption DEF Pages, Live
  <2>3. e = Walk(tab, pgd[t], p)
    BY <1>2, <2>2 DEF Translation, ExactInv, CacheInv
  <2>4. PageOf(list, p, e)
    BY <1>2, <2>2, <2>3 DEF ExactInv, Exact
  <2>. HIDE DEF e
  <2>5. PICK i \in DOMAIN list : /\ list[i].va <= p /\ p < list[i].va + list[i].size
                                 /\ e = [to |-> list[i].pa, off |-> p - list[i].va, rwx |-> list[i].rwx]
    BY <2>4 DEF PageOf, Inside
  <2>6. e.to = list[i].pa /\ e.off = p - list[i].va
    BY <2>5
  <2>7. /\ Known(list) /\ content \in Memories
        /\ \A j \in DOMAIN list : list[j].is_alloced =>
             list[j].pa \in Blocks /\ list[j].size <= MaxSize /\ role[list[j].pa] = Role("area", t, j)
    <3>1. Known(list) /\ content \in Memories
      BY DEF SpaceInv, MemoryOK
    <3>2. \A j \in DOMAIN list : list[j].is_alloced =>
             list[j].pa \in Blocks /\ role[list[j].pa] = Role("area", t, j)
      BY <1>1, <1>2, AreasOwned
    <3>. QED  BY <3>1, <3>2 DEF Known
  <2>8. list[i].is_alloced
    BY <2>1, <2>6, <2>7 DEF Known
  <2>9. PICK o : o = p - list[i].va
    OBVIOUS
  <2>10. o \in 0 .. list[i].size - 1
    <3>1. list[i].va \in Nat /\ list[i].size \in Nat /\ p \in Nat
      BY <2>2, RegionIs, PagesAreNumbers
    <3>. QED  BY <2>5, <2>9, <3>1
  <2>11. content' = [content EXCEPT ![list[i].pa][o] = "data"]
    BY <2>1, <2>6, <2>9
  <2>12. OwnBlocks(list)
    <3>1. \A j, k \in DOMAIN list :
            list[j].is_alloced /\ list[k].is_alloced /\ list[j].pa = list[k].pa => j = k
      BY <2>7, RoleIs
    <3>. QED  BY <2>7, <3>1 DEF OwnBlocks
  <2>. HIDE DEF list
  <2>. DEFINE x == PageAt(list, content, i, o)
  <2>13. /\ x \in MemOf(list, content)
         /\ MemOf(list, content') = (MemOf(list, content) \ {x}) \cup {<<list[i].va + o, "data">>}
    <3>1. PICK m : m = content'
      OBVIOUS
    <3>2. Written(m, content, list[i].pa, o, "data")
      BY <2>11, <3>1 DEF Written
    <3>3. /\ list \in Seq(Regions) /\ Apart(list) /\ content \in Memories
          /\ i \in DOMAIN list /\ list[i].is_alloced
      BY <2>2, <2>7, <2>8
    <3>4. o \in OffsetsOf(list, i)
      BY <2>10 DEF OffsetsOf
    <3>5. StoredAt(list, m, content, i, o, "data")
      BY <2>12, <3>2, <3>3, <3>4, OneWritten
    <3>. QED  BY <3>1, <3>5 DEF StoredAt
  <2>14. content' \in Memories /\ OnlyOf(role, {t})
    <3>1. content' \in Memories
      BY <2>7, <2>11 DEF Memories, Contents
    <3>2. \A b \in Blocks : b # list[i].pa => content'[b] = content[b]
      BY <2>7, <2>11 DEF Memories
    <3>3. role[list[i].pa].of = t
      BY <2>7, <2>8, RoleIs
    <3>. QED  BY <3>1, <3>2, <3>3 DEF OnlyOf
  <2>15. MemoryOK(User, list, content')
    BY <2>7, OpsAre DEF MemoryOK
  <2>16. op' = [op EXCEPT ![t] = User] /\ op[t] = User /\ vma_list' = [vma_list EXCEPT ![t] = list]
    BY <1>2, <2>2, OnCpu, OpsAre DEF list, VmInv, VmTypeOK
  <2>17. /\ SpaceInv' /\ AS!Others(t)
         /\ Space[t] = SpaceOf(User, list, content) /\ Space'[t] = SpaceOf(User, list, content')
    <3>1. /\ vma_list' = [vma_list EXCEPT ![t] = list] /\ op' = [op EXCEPT ![t] = User]
          /\ OnlyOf(role, {t}) /\ content' \in Memories
      BY <2>14, <2>16
    <3>2. /\ SpaceInv' /\ AS!Others(t) /\ Space[t] = SpaceOf(op[t], vma_list[t], content)
          /\ Space'[t] = SpaceOf(User, list, content')
      BY <1>1, <2>15, <3>1, OwnMemory
    <3>. QED  BY <2>16, <3>2 DEF list
  <2>18. Space[t] = MemOf(list, content) /\ Space'[t] = MemOf(list, content')
    BY <2>17, OpsAre DEF SpaceOf
  <2>19. AS!Store(t)
    <3>1. x \in Space[t] /\ Space'[t] = (Space[t] \ {x}) \cup {<<x[1], "data">>}
      BY <2>13, <2>18 DEF PageAt
    <3>. HIDE DEF x
    <3>. QED  BY <2>17, <3>1 DEF AS!Store
  <2>. QED  BY <2>17, <2>19, OneStep
<1>. QED  BY <1>3, <1>4

-----------------------------------------------------------------------------
(* Programs that start. *)

(* The regions of a program that starts, with their blocks. *)
ProgramFrom(list, new) ==
  /\ new \in [1 .. 3 -> Blocks]
  /\ AreasFrom(list, new[1], new[2], new[3])

(* Three of them have memory of their own, inside the address space.       *)
LEMMA ProgramAreas ==
  ASSUME NEW list, NEW new, ProgramFrom(list, new)
  PROVE  /\ \A i \in DOMAIN list : list[i].is_alloced <=> i \in {1, 2, 5}
         /\ \A i \in {1, 2, 5} :
              /\ list[i].va \in Nat /\ list[i].size \in 1 .. MaxSize
              /\ list[i].va + list[i].size <= NPAGES /\ list[i].pa \in Blocks
         /\ Known(list)
<1>1. /\ DOMAIN list = 1 .. 5
      /\ LiesAt(list[1], USER_KERNEL_BASE, DATASIZE)
      /\ LiesAt(list[2], USER_STACK_BASE - USTACK_SIZE, USTACK_SIZE)
      /\ LiesAt(list[3], PERIPHERAL_START, PERIPHERAL_END - PERIPHERAL_START)
      /\ LiesAt(list[4], USER_SIGNAL_WRAPPER_VA, WRAPPER_SIZE)
      /\ LiesAt(list[5], USER_SIGNAL_STKSTART_VA, 1)
      /\ list[1].pa = new[1] /\ list[2].pa = new[2] /\ list[5].pa = new[3]
      /\ list[1].is_alloced /\ list[2].is_alloced /\ list[5].is_alloced
      /\ ~list[3].is_alloced /\ ~list[4].is_alloced
      /\ list[3].pa = DEVICE /\ list[4].pa = WRAPPER
  BY DEF ProgramFrom, AreasFrom
<1>2. new[1] \in Blocks /\ new[2] \in Blocks /\ new[3] \in Blocks
  BY DEF ProgramFrom
<1>3. DATASIZE \in 1 .. MaxSize /\ USTACK_SIZE \in 1 .. MaxSize /\ 1 \in 1 .. MaxSize
      /\ NPAGES \in Nat /\ USER_STACK_BASE <= NPAGES
  BY LayoutAssumption, VmAssumption, PagesAreNumbers
<1>4. DEVICE \notin Blocks /\ WRAPPER \notin Blocks
  BY PageTableAssumption DEF DEVICE, WRAPPER, Blocks
<1>5. \A i \in 1 .. 5 : i = 1 \/ i = 2 \/ i = 3 \/ i = 4 \/ i = 5
  OBVIOUS
<1>6. \A i \in DOMAIN list : list[i].is_alloced <=> i \in {1, 2, 5}
  BY <1>1, <1>5
<1>7. list[1].va \in Nat /\ list[2].va \in Nat /\ list[5].va \in Nat
  BY <1>1, Layout DEF LiesAt
<1>8. /\ list[1].size \in 1 .. MaxSize /\ list[2].size \in 1 .. MaxSize
      /\ list[5].size \in 1 .. MaxSize
  BY <1>1, <1>3 DEF LiesAt
<1>9. /\ list[1].va + list[1].size <= NPAGES /\ list[2].va + list[2].size <= NPAGES
      /\ list[5].va + list[5].size <= NPAGES
  BY <1>1, <1>3, Layout DEF LiesAt
<1>10. Known(list)
  <2>1. /\ list[1].va \notin {PERIPHERAL_START, USER_SIGNAL_WRAPPER_VA}
        /\ list[2].va \notin {PERIPHERAL_START, USER_SIGNAL_WRAPPER_VA}
        /\ list[3].va = PERIPHERAL_START /\ list[4].va = USER_SIGNAL_WRAPPER_VA
        /\ list[5].va \notin {PERIPHERAL_START, USER_SIGNAL_WRAPPER_VA}
    BY <1>1, Layout DEF LiesAt
  <2>2. list[1].size <= MaxSize /\ list[2].size <= MaxSize /\ list[5].size <= MaxSize
    BY <1>8
  <2>3. ASSUME NEW i \in DOMAIN list
        PROVE  /\ list[i].is_alloced <=> list[i].va \notin {PERIPHERAL_START, USER_SIGNAL_WRAPPER_VA}
               /\ list[i].is_alloced => list[i].size <= MaxSize
               /\ ~list[i].is_alloced => list[i].pa \notin Blocks
    BY <1>1, <1>4, <1>5, <2>1, <2>2
  <2>. QED  BY <2>3 DEF Known
<1>. QED  BY <1>1, <1>2, <1>6, <1>7, <1>8, <1>9, <1>10

(* The pages that AddressSpace gives to a program are those of its regions. *)
LEMMA ProgramPages ==
  ASSUME NEW list, NEW new, ProgramFrom(list, new)
  PROVE  /\ \A p : p \in InitialPages <=>
              \E i \in {1, 2, 5} : \E o \in 0 .. list[i].size - 1 : p = list[i].va + o
         /\ \A p : p \in ImagePages <=> \E o \in 0 .. list[1].size - 1 : p = list[1].va + o
<1>1. \A i \in {1, 2, 5} :
         /\ list[i].va \in Nat /\ list[i].size \in 1 .. MaxSize
         /\ list[i].va + list[i].size <= NPAGES
  BY ProgramAreas
<1>2. NPAGES \in Nat /\ MaxSize \in Nat /\ Pages = 0 .. NPAGES - 1
  BY VmAssumption, PagesAreNumbers
<1>3. ASSUME NEW i \in {1, 2, 5}, NEW p
      PROVE  p \in Pages /\ Inside(list[i], p) <=>
               \E o \in 0 .. list[i].size - 1 : p = list[i].va + o
  <2>. DEFINE a == list[i].va
              n == list[i].size
  <2>0. a \in Nat /\ n \in 1 .. MaxSize /\ a + n <= NPAGES
    BY <1>1
  <2>. HIDE DEF a, n
  <2>1. a \in Nat /\ n \in Nat /\ a + n <= NPAGES
    BY <1>2, <2>0
  <2>2. p \in Pages /\ a <= p /\ p < a + n => p - a \in 0 .. n - 1 /\ p = a + (p - a)
    BY <1>2, <2>1
  <2>3. \A o \in 0 .. n - 1 : a + o \in Pages /\ a <= a + o /\ a + o < a + n
    BY <1>2, <2>1
  <2>4. p \in Pages /\ a <= p /\ p < a + n <=> \E o \in 0 .. n - 1 : p = a + o
    BY <2>2, <2>3
  <2>. QED  BY <2>4 DEF a, n, Inside
<1>4. \A i \in {1, 2, 5} : \A p : Inside(Areas(0, 0, 0)[i], p) <=> Inside(list[i], p)
  <2>1. 0 \in 0 .. NBLOCKS
    BY PageTableAssumption
  <2>2. AreasFrom(Areas(0, 0, 0), 0, 0, 0)
    BY <2>1, AreasAre
  <2>3. AreasFrom(list, new[1], new[2], new[3])
    BY DEF ProgramFrom
  <2>. QED  BY <2>2, <2>3 DEF AreasFrom, LiesAt, Inside
<1>5. \A p : p \in ImagePages <=> p \in Pages /\ Inside(list[1], p)
  <2>1. LiesAt(list[1], USER_KERNEL_BASE, DATASIZE)
    BY DEF ProgramFrom, AreasFrom
  <2>. QED  BY <2>1 DEF LiesAt, Inside, ImagePages
<1>6. \A p : p \in InitialPages <=> \E i \in {1, 2, 5} : p \in Pages /\ Inside(list[i], p)
  BY <1>4 DEF InitialPages
<1>7. \A p : p \in InitialPages <=>
        \E i \in {1, 2, 5} : \E o \in 0 .. list[i].size - 1 : p = list[i].va + o
  BY <1>3, <1>6
<1>8. \A p : p \in ImagePages <=> \E o \in 0 .. list[1].size - 1 : p = list[1].va + o
  BY <1>3, <1>5
<1>. QED  BY <1>7, <1>8

(* A program starts with its image, in memory of its own.                  *)
LEMMA ProgramLoaded ==
  ASSUME NEW list, NEW new, ProgramFrom(list, new), Apart(list), NEW mem \in Memories,
         mem[new[1]] = Filled("image")
  PROVE  AS!Loaded(MemOf(list, mem))
<1>. DEFINE m == MemOf(list, mem)
            off(i) == 0 .. list[i].size - 1
            at(i, o) == <<list[i].va + o, mem[list[i].pa][o]>>
<1>1. /\ list \in Seq(Regions) /\ DOMAIN list = 1 .. 5 /\ list[1].pa = new[1]
      /\ 1 \in DOMAIN list /\ 2 \in DOMAIN list /\ 5 \in DOMAIN list
  BY DEF ProgramFrom, AreasFrom
<1>2. \A i \in {1, 2, 5} : list[i].pa \in Blocks /\ list[i].size \in 1 .. MaxSize
  BY ProgramAreas
<1>3. \A x : x \in m <=> \E i \in {1, 2, 5} : \E o \in off(i) : x = at(i, o)
  <2>1. \A i : i \in DOMAIN list /\ list[i].is_alloced <=> i \in {1, 2, 5}
    BY <1>1, ProgramAreas
  <2>2. \A x : x \in m <=> \E i \in DOMAIN list : list[i].is_alloced /\ \E o \in off(i) : x = at(i, o)
    BY MemIs
  <2>. HIDE DEF m, off, at
  <2>. QED  BY <2>1, <2>2
<1>4. /\ \A p : p \in InitialPages <=>
           \E i \in {1, 2, 5} : \E o \in off(i) : p = list[i].va + o
      /\ \A p : p \in ImagePages <=> \E o \in off(1) : p = list[1].va + o
  BY ProgramPages
<1>5. \A i \in {1, 2, 5} : \A o \in off(i) :
        o \in Offsets /\ mem[list[i].pa][o] \in Contents /\ (i = 1 => mem[list[i].pa][o] = "image")
  <2>1. \A i \in {1, 2, 5} : \A o \in off(i) : o \in Offsets
    BY <1>2, VmAssumption DEF Offsets
  <2>2. \A o \in Offsets : mem[new[1]][o] = "image"
    BY DEF Filled, Offsets
  <2>. HIDE DEF off
  <2>. QED  BY <1>1, <1>2, <2>1, <2>2 DEF Memories
<1>6. \A i \in {1, 2, 5} : \A o \in off(i), k \in off(1) :
        list[i].va + o = list[1].va + k => i = 1
  BY <1>1, PagesApart
<1>7. \A i, o : at(i, o)[1] = list[i].va + o /\ at(i, o)[2] = mem[list[i].pa][o]
  OBVIOUS
<1>. HIDE DEF m, off
<1>8. m \subseteq InitialPages \X Contents
  BY <1>3, <1>4, <1>5
<1>9. {x[1] : x \in m} = InitialPages
  <2>1. ASSUME NEW p \in {x[1] : x \in m}
        PROVE  p \in InitialPages
    BY <1>8
  <2>2. ASSUME NEW p \in InitialPages
        PROVE  p \in {x[1] : x \in m}
    <3>1. PICK i \in {1, 2, 5} : \E o \in off(i) : p = list[i].va + o
      BY <1>4
    <3>2. PICK o \in off(i) : p = list[i].va + o
      BY <3>1
    <3>3. at(i, o) \in m /\ at(i, o)[1] = p
      BY <1>3, <3>2
    <3>. HIDE DEF at
    <3>. QED  BY <3>3
  <2>. QED  BY <2>1, <2>2
<1>10. ASSUME NEW p \in ImagePages
       PROVE  {x \in m : x[1] = p} = {<<p, "image">>}
  <2>1. PICK k \in off(1) : p = list[1].va + k
    BY <1>4
  <2>2. at(1, k) = <<p, "image">> /\ at(1, k) \in m
    BY <1>3, <1>5, <2>1
  <2>3. ASSUME NEW x \in m, x[1] = p
        PROVE  x = <<p, "image">>
    <3>1. PICK i \in {1, 2, 5} : \E o \in off(i) : x = at(i, o)
      BY <1>3
    <3>2. PICK o \in off(i) : x = at(i, o)
      BY <3>1
    <3>3. i = 1
      BY <1>6, <1>7, <2>1, <2>3, <3>2
    <3>. QED  BY <1>5, <2>3, <3>2, <3>3
  <2>. QED  BY <2>2, <2>3
<1>. QED  BY <1>8, <1>9, <1>10 DEF AS!Loaded, AS!Has, Contents, m

(* exec ends with the new program in memory of its own.                    *)
LEMMA ExecAreasSpace ==
  ASSUME VmInv, OwnInv, SpaceInv, NEW t \in Threads, ExecAreas(t)
  PROVE  SpaceInv' /\ [AS!Next]_Space
<1>1. PICK role : Owned(role)
  BY DEF OwnInv
<1>2. PICK new : new = op[t].new
  OBVIOUS
<1>3. /\ curr = t /\ op[t].pc = "areas" /\ op' = [op EXCEPT ![t] = User]
      /\ content' = [content EXCEPT ![new[1]] = Filled("image")]
  BY <1>2 DEF ExecAreas
<1>4. PICK list : list = Areas(new[1], new[2], new[3])
  OBVIOUS
<1>5. /\ vma_list' = [vma_list EXCEPT ![t] = list] /\ ProgramFrom(list, new) /\ Apart(list)
  BY <1>2, <1>4, ExecAreasList DEF ProgramFrom
<1>6. 1 \in DOMAIN new /\ new[1] \in Blocks /\ role[new[1]] = Role("local", t, 1)
  <2>1. 1 \in DOMAIN new /\ new[1] \in Blocks
    BY <1>5 DEF ProgramFrom
  <2>2. OwnsLocals(role, t, new)
    BY <1>1, <1>2, <1>3, OnCpu, OwnerIs
  <2>. QED  BY <2>1, <2>2 DEF OwnsLocals
<1>7. content' \in Memories /\ OnlyOf(role, {t}) /\ content'[new[1]] = Filled("image")
  <2>1. Filled("image") \in [Offsets -> Contents] /\ content \in Memories
    BY DEF Filled, Offsets, Contents, SpaceInv
  <2>2. content' \in Memories /\ content'[new[1]] = Filled("image")
        /\ \A b \in Blocks : b # new[1] => content'[b] = content[b]
    BY <1>3, <1>6, <2>1 DEF Memories
  <2>. QED  BY <1>6, <2>2, RoleIs DEF OnlyOf
<1>8. MemoryOK(User, list, content')
  BY <1>5, ProgramAreas, OpsAre DEF MemoryOK
<1>9. /\ SpaceInv' /\ AS!Others(t) /\ Space[t] = SpaceOf(op[t], vma_list[t], content)
      /\ Space'[t] = SpaceOf(User, list, content')
  BY <1>1, <1>3, <1>5, <1>7, <1>8, OwnMemory
<1>10. Space[t] = {} /\ Space'[t] = MemOf(list, content')
  BY <1>3, <1>9, OpsAre DEF SpaceOf
<1>11. AS!Loaded(MemOf(list, content'))
  <2>1. PICK m : m = content'
    OBVIOUS
  <2>2. m \in Memories /\ m[new[1]] = Filled("image")
    BY <1>7, <2>1
  <2>3. AS!Loaded(MemOf(list, m))
    BY <1>5, <2>2, ProgramLoaded
  <2>. QED  BY <2>1, <2>3
<1>12. AS!Load(t)
  BY <1>9, <1>10, <1>11 DEF AS!Load
<1>. QED  BY <1>9, <1>12, OneStep

(* The first half of mmap clears memory that no program sees yet.          *)
LEMMA MmapSpace ==
  ASSUME VmInv, OwnInv, SpaceInv, NEW t \in Threads, NEW r \in Requests, mmap(t, r)
  PROVE  SpaceInv' /\ [AS!Next]_Space
<1>1. PICK role : Owned(role)
  BY DEF OwnInv
<1>2. PICK b, list : b = Fresh(FreeFor(t), 1) /\ list = vma_list[t]
  OBVIOUS
<1>. DEFINE k == [hint |-> r[1], va |-> MmapAddr(vma_list[t], r[1], r[2]), len |-> r[2], rwx |-> r[3]]
            o == [pc |-> "mmap", at |-> 0, new |-> <<b>>, ask |-> k]
<1>3. /\ curr = t /\ op[t].pc = "user" /\ op' = [op EXCEPT ![t] = o] /\ FreeFor(t) # {}
      /\ content' = [content EXCEPT ![b] = Filled("zero")] /\ vma_list' = vma_list
  BY <1>2 DEF mmap, Running
<1>4. b \in Blocks /\ role[b].kind = "free"
  <2>1. b \in FreeFor(t)
    BY <1>2, <1>3, SomeFree, FreeForIs
  <2>. QED  BY <1>1, <2>1 DEF FreeFor, Part, Owned
<1>5. /\ content' \in Memories /\ content'[b] = Filled("zero")
      /\ \A c \in Blocks : c # b => content'[c] = content[c]
  <2>1. Filled("zero") \in [Offsets -> Contents] /\ content \in Memories
    BY DEF Filled, Offsets, Contents, SpaceInv
  <2>. QED  BY <1>3, <1>4, <2>1 DEF Memories
<1>6. OnlyOf(role, {t})
  BY <1>4, <1>5 DEF OnlyOf
<1>7. o.pc = "mmap" /\ o.ask.len <= MaxSize /\ o.new[1] = b
  <2>1. r[2] <= MaxSize
    BY VmAssumption
  <2>. QED  BY <2>1
<1>. HIDE DEF k, o
<1>8. MemoryOK(o, list, content')
  BY <1>2, <1>5, <1>7 DEF SpaceInv, MemoryOK
<1>9. vma_list' = [vma_list EXCEPT ![t] = list]
  BY <1>2, <1>3 DEF VmInv, VmTypeOK
<1>10. /\ SpaceInv' /\ AS!Others(t) /\ Space[t] = SpaceOf(op[t], vma_list[t], content)
       /\ Space'[t] = SpaceOf(o, list, content')
  <2>1. PICK f : f = o
    OBVIOUS
  <2>2. op' = [op EXCEPT ![t] = f] /\ MemoryOK(f, list, content')
    BY <1>3, <1>8, <2>1
  <2>3. /\ SpaceInv' /\ AS!Others(t) /\ Space[t] = SpaceOf(op[t], vma_list[t], content)
        /\ Space'[t] = SpaceOf(f, list, content')
    BY <1>1, <1>5, <1>6, <1>9, <2>2, OwnMemory
  <2>. QED  BY <2>1, <2>3
<1>11. MemOf(list, content') = MemOf(list, content)
  <2>1. \A i \in DOMAIN list : list[i].is_alloced =>
          list[i].pa \in Blocks /\ role[list[i].pa] = Role("area", t, i)
    BY <1>1, <1>2, <1>3, AreasOwned
  <2>2. \A i \in DOMAIN list : list[i].is_alloced => list[i].pa # b
    BY <1>4, <2>1, RoleIs
  <2>3. \A i \in DOMAIN list : list[i].is_alloced => content'[list[i].pa] = content[list[i].pa]
    BY <1>5, <2>1, <2>2
  <2>. QED  BY <2>3, MemKept
<1>12. Space'[t] = Space[t]
  BY <1>2, <1>3, <1>7, <1>10, <1>11 DEF SpaceOf
<1>. QED  BY <1>10, <1>12, OneStep

(* The memory of a list with one region more. *)
LEMMA MemAppended ==
  ASSUME NEW list \in Seq(Regions), NEW a \in Regions, a.is_alloced, NEW mem
  PROVE  \A x : x \in MemOf(Append(list, a), mem) <=>
           x \in MemOf(list, mem) \/ \E o \in 0 .. a.size - 1 : x = <<a.va + o, mem[a.pa][o]>>
<1>. DEFINE q == Append(list, a)
            n == Len(list)
<1>1. /\ n \in Nat /\ DOMAIN list = 1 .. n /\ DOMAIN q = 1 .. n + 1
      /\ q[n + 1] = a /\ \A i \in 1 .. n : q[i] = list[i]
  BY LenProperties, AppendProperties
<1>2. \A i : i \in 1 .. n + 1 <=> i \in 1 .. n \/ i = n + 1
  BY <1>1
<1>. HIDE DEF q, n
<1>3. \A x : x \in MemOf(q, mem) <=>
        \E i \in 1 .. n + 1 : q[i].is_alloced
           /\ \E o \in 0 .. q[i].size - 1 : x = <<q[i].va + o, mem[q[i].pa][o]>>
  BY <1>1, MemIs
<1>4. \A x : x \in MemOf(list, mem) <=>
        \E i \in 1 .. n : list[i].is_alloced
           /\ \E o \in 0 .. list[i].size - 1 : x = <<list[i].va + o, mem[list[i].pa][o]>>
  BY <1>1, MemIs
<1>. DEFINE On(b, x) == \E o \in 0 .. b.size - 1 : x = <<b.va + o, mem[b.pa][o]>>
<1>5. /\ \A x : x \in MemOf(q, mem) <=> \E i \in 1 .. n + 1 : q[i].is_alloced /\ On(q[i], x)
      /\ \A x : x \in MemOf(list, mem) <=> \E i \in 1 .. n : list[i].is_alloced /\ On(list[i], x)
  BY <1>3, <1>4
<1>. HIDE DEF On
<1>6. \A x : x \in MemOf(q, mem) <=> x \in MemOf(list, mem) \/ On(a, x)
  BY <1>1, <1>2, <1>5
<1>. QED  BY <1>6 DEF On, q

(* The second half of mmap adds cleared pages where there were none.       *)
LEMMA MmapAddSpace ==
  ASSUME VmInv, OwnInv, SpaceInv, NEW t \in Threads, MmapAdd(t)
  PROVE  SpaceInv' /\ [AS!Next]_Space
<1>1. PICK role : Owned(role)
  BY DEF OwnInv
<1>2. PICK list, a, q : list = vma_list[t] /\ a = NewArea(t) /\ q = Append(list, a)
  OBVIOUS
<1>3. /\ curr = t /\ op[t].pc = "mmap" /\ op' = [op EXCEPT ![t] = User]
      /\ vma_list' = [vma_list EXCEPT ![t] = q] /\ content' = content
  BY <1>2 DEF MmapAdd, NewArea
<1>4. /\ a \in Regions /\ a.va = op[t].ask.va /\ a.size = op[t].ask.len /\ a.pa = op[t].new[1]
      /\ a.is_alloced /\ FirstGap(list, op[t].ask.hint, op[t].ask.len, op[t].ask.va)
  BY <1>2, NewAreaIs
<1>5. /\ list \in Seq(Regions) /\ Laid(list) /\ Known(list)
      /\ a.size <= MaxSize /\ content[a.pa] = Filled("zero")
  BY <1>2, <1>3, <1>4, OnCpu DEF SpaceInv, MemoryOK
<1>6. \A i \in DOMAIN list : ~Overlap(list[i], a.va, a.size)
  BY <1>4 DEF FirstGap
<1>7. a.va \in Nat /\ a.size \in Nat \ {0}
  BY <1>4 DEF Regions
<1>8. \A i \in DOMAIN list : list[i].va # a.va
  BY <1>5, <1>6, <1>7, RegionIs DEF Overlap
<1>9. a.va \notin {PERIPHERAL_START, USER_SIGNAL_WRAPPER_VA}
  <2>1. PICK p, w \in DOMAIN list : list[p].va = PERIPHERAL_START /\ list[w].va = USER_SIGNAL_WRAPPER_VA
    BY <1>5 DEF Laid, LiesAt
  <2>. QED  BY <1>8, <2>1
<1>10. /\ Len(list) \in Nat /\ DOMAIN list = 1 .. Len(list) /\ DOMAIN q = 1 .. Len(list) + 1
       /\ q[Len(list) + 1] = a /\ \A i \in 1 .. Len(list) : q[i] = list[i]
       /\ q \in Seq(Regions)
  BY <1>2, <1>4, <1>5, LenProperties, AppendProperties
<1>11. Known(q)
  <2>1. \A i \in DOMAIN q : (i \in DOMAIN list /\ q[i] = list[i]) \/ q[i] = a
    BY <1>10
  <2>. QED  BY <1>4, <1>5, <1>9, <2>1 DEF Known
<1>12. MemoryOK(User, q, content')
  BY <1>11, OpsAre DEF MemoryOK
<1>13. content' \in Memories /\ OnlyOf(role, {t})
  BY <1>3 DEF SpaceInv, OnlyOf
<1>14. /\ SpaceInv' /\ AS!Others(t) /\ Space[t] = SpaceOf(op[t], vma_list[t], content)
       /\ Space'[t] = SpaceOf(User, q, content')
  <2>1. vma_list' = [vma_list EXCEPT ![t] = q] /\ op' = [op EXCEPT ![t] = User]
    BY <1>3
  <2>. QED  BY <1>1, <1>12, <1>13, <2>1, OwnMemory
<1>15. Space[t] = MemOf(list, content) /\ Space'[t] = MemOf(q, content)
  BY <1>2, <1>3, <1>14, OpsAre DEF SpaceOf
<1>16. \A x : x \in Space'[t] <=>
         x \in Space[t] \/ \E o \in 0 .. a.size - 1 : x = <<a.va + o, content[a.pa][o]>>
  BY <1>2, <1>4, <1>5, <1>15, MemAppended
<1>17. ASSUME NEW o \in 0 .. a.size - 1
       PROVE  content[a.pa][o] = "zero" /\ \A y \in Space[t] : y[1] # a.va + o
  <2>1. content[a.pa][o] = "zero"
    <3>1. o \in 0 .. MaxSize - 1
      BY <1>5, <1>7, VmAssumption
    <3>. QED  BY <1>5, <3>1 DEF Filled
  <2>2. ASSUME NEW y \in Space[t], y[1] = a.va + o
        PROVE  FALSE
    <3>1. PICK i \in DOMAIN list : \E k \in 0 .. list[i].size - 1 :
                                     y = <<list[i].va + k, content[list[i].pa][k]>>
      BY <1>15, <2>2, MemIs
    <3>2. PICK k \in 0 .. list[i].size - 1 : y = <<list[i].va + k, content[list[i].pa][k]>>
      BY <3>1
    <3>3. list[i].va + k = a.va + o
      BY <2>2, <3>2
    <3>4. list[i].va \in Nat /\ list[i].size \in Nat /\ ~Overlap(list[i], a.va, a.size)
      BY <1>5, <1>6, RegionIs
    <3>. DEFINE v == list[i].va
                n == list[i].size
                w == a.va
                m == a.size
    <3>5. v \in Nat /\ n \in Nat /\ w \in Nat /\ m \in Nat /\ k \in 0 .. n - 1 /\ o \in 0 .. m - 1
          /\ v + k = w + o /\ (v >= w + m \/ v + n <= w)
      BY <1>7, <3>3, <3>4 DEF Overlap
    <3>. HIDE DEF v, n, w, m
    <3>. QED  BY <3>5
  <2>. QED  BY <2>1, <2>2
<1>18. Space[t] \subseteq Space'[t]
  BY <1>16
<1>19. ASSUME NEW x \in Space'[t] \ Space[t]
       PROVE  x[1] \notin AS!Has(Space[t]) /\ x[2] = "zero"
  <2>1. PICK o \in 0 .. a.size - 1 : x = <<a.va + o, content[a.pa][o]>>
    BY <1>16
  <2>. QED  BY <1>17, <2>1 DEF AS!Has
<1>20. AS!Mmap(t)
  BY <1>14, <1>18, <1>19 DEF AS!Mmap
<1>. QED  BY <1>14, <1>20, OneStep

-----------------------------------------------------------------------------
(* fork and the reaping. *)

(* The page of the signal stack, which a child does not inherit. *)
SignalPage == USER_SIGNAL_STKSTART_VA

(* The signal stack is a region of one page, with memory of its own.       *)
LEMMA SignalStack ==
  ASSUME NEW list \in Seq(Regions), Apart(list), Laid(list), Known(list)
  PROVE  /\ \E g \in DOMAIN list : list[g].is_alloced /\ list[g].va = SignalPage /\ list[g].size = 1
         /\ \A i \in DOMAIN list : list[i].va = SignalPage => list[i].size = 1
<1>1. PICK g \in DOMAIN list : list[g].va = SignalPage /\ list[g].size = 1
  BY DEF Laid, LiesAt, SignalPage
<1>2. list[g].is_alloced
  <2>1. SignalPage \notin {PERIPHERAL_START, USER_SIGNAL_WRAPPER_VA}
    BY Layout DEF SignalPage
  <2>. QED  BY <1>1, <2>1 DEF Known
<1>3. ASSUME NEW i \in DOMAIN list, list[i].va = SignalPage
      PROVE  list[i].size = 1
  <2>1. list[i].va \in Nat /\ list[i].size \in Nat \ {0}
    BY RegionIs
  <2>2. i # g => list[i].va + list[i].size <= list[g].va \/ list[g].va + list[g].size <= list[i].va
    BY DEF Apart, Clear
  <2>. QED  BY <1>1, <1>3, <2>1, <2>2
<1>. QED  BY <1>1, <1>2, <1>3

(* The memory of a child, region by region.                                *)
LEMMA ChildMem ==
  ASSUME NEW copied, NEW new, NEW q, ForkedFrom(q, copied, new), Len(copied) \in Nat, NEW mem
  PROVE  \A x : x \in MemOf(q, mem) <=>
           \/ \E i \in 1 .. Len(copied) : \E o \in 0 .. copied[i].size - 1 :
                x = <<copied[i].va + o, mem[new[5 + i]][o]>>
           \/ x = <<SignalPage, mem[new[3]][0]>>
<1>. DEFINE m == Len(copied)
            On(va, size, pa, x) == \E o \in 0 .. size - 1 : x = <<va + o, mem[pa][o]>>
<1>1. /\ q \in Seq(Regions) /\ Len(q) = m + 3 /\ m \in Nat
      /\ \A i \in 1 .. m : /\ q[i].va = copied[i].va /\ q[i].size = copied[i].size
                           /\ q[i].pa = new[5 + i] /\ q[i].is_alloced
      /\ q[m + 3].va = SignalPage /\ q[m + 3].size = 1
      /\ ~q[m + 1].is_alloced /\ ~q[m + 2].is_alloced
      /\ q[m + 3].is_alloced /\ q[m + 3].pa = new[3]
  BY DEF ForkedFrom, LiesAt, SignalPage
<1>2. DOMAIN q = 1 .. m + 3
  BY <1>1, RegionIs
<1>3. \A x : x \in MemOf(q, mem) <=>
        \E i \in DOMAIN q : q[i].is_alloced /\ On(q[i].va, q[i].size, q[i].pa, x)
  BY MemIs
<1>4. \A x : On(SignalPage, 1, new[3], x) <=> x = <<SignalPage, mem[new[3]][0]>>
  <2>1. SignalPage \in Nat
    BY Layout DEF SignalPage
  <2>2. \A o : o \in 0 .. 1 - 1 <=> o = 0
    OBVIOUS
  <2>3. SignalPage + 0 = SignalPage
    BY <2>1
  <2>. QED  BY <2>2, <2>3
<1>. HIDE DEF m, On
<1>5. \A i : i \in 1 .. m + 3 <=> i \in 1 .. m \/ i = m + 1 \/ i = m + 2 \/ i = m + 3
  <2>1. m \in Nat
    BY <1>1
  <2>2. \A i \in 1 .. m + 3 : i \in 1 .. m \/ i \in {m + 1, m + 2, m + 3}
    BY <2>1, ThreeBehind
  <2>3. \A i \in 1 .. m : i \in 1 .. m + 3
    BY <2>1
  <2>4. m + 1 \in 1 .. m + 3 /\ m + 2 \in 1 .. m + 3 /\ m + 3 \in 1 .. m + 3
    BY <2>1
  <2>. QED  BY <2>2, <2>3, <2>4
<1>6. \A x : x \in MemOf(q, mem) <=>
        \/ \E i \in 1 .. m : On(copied[i].va, copied[i].size, new[5 + i], x)
        \/ On(SignalPage, 1, new[3], x)
  <2>. DEFINE Own(i, x) == q[i].is_alloced /\ On(q[i].va, q[i].size, q[i].pa, x)
  <2>1. \A i \in 1 .. m : \A x : Own(i, x) <=> On(copied[i].va, copied[i].size, new[5 + i], x)
    BY <1>1
  <2>2. \A x : ~Own(m + 1, x) /\ ~Own(m + 2, x) /\ (Own(m + 3, x) <=> On(SignalPage, 1, new[3], x))
    BY <1>1
  <2>3. \A x : x \in MemOf(q, mem) <=> \E i \in 1 .. m + 3 : Own(i, x)
    BY <1>2, <1>3
  <2>. HIDE DEF Own
  <2>4. \A x : x \in MemOf(q, mem) <=>
          \/ \E i \in 1 .. m : Own(i, x)
          \/ Own(m + 1, x) \/ Own(m + 2, x) \/ Own(m + 3, x)
    BY <1>5, <2>3
  <2>. QED  BY <2>1, <2>2, <2>4
<1>. QED  BY <1>4, <1>6 DEF On, m

(* The regions of a list are copied to new blocks. *)
CopiedTo(copied, new, m, mem) ==
  \A i \in 1 .. Len(copied) : m[new[5 + i]] = mem[copied[i].pa]

(* Two memories have the same pages, with the same values except in the    *)
(* signal stack.                                                           *)
AlikeBut(A, B) ==
  /\ \A x : x[1] # SignalPage => (x \in A <=> x \in B)
  /\ \E x \in A : x[1] = SignalPage
  /\ \E x \in B : x[1] = SignalPage

(* A child sees what its parent saw, but for the signal stack.             *)
LEMMA ForkMem ==
  ASSUME NEW list \in Seq(Regions), Apart(list), Laid(list), Known(list),
         NEW copied, CopyOf(copied, list, Len(list)),
         NEW new, NEW q, ForkedFrom(q, copied, new), NEW mem, NEW m,
         CopiedTo(copied, new, m, mem)
  PROVE  AlikeBut(MemOf(q, m), MemOf(list, mem))
<1>1. copied \in Seq(Regions) /\ Len(copied) \in Nat /\ DOMAIN list = 1 .. Len(list)
  <2>1. copied \in Seq(Regions)
    BY DEF CopyOf
  <2>. QED  BY <2>1, RegionIs
<1>2. \A x : x \in MemOf(q, m) <=>
        \/ \E i \in 1 .. Len(copied) : \E o \in 0 .. copied[i].size - 1 :
             x = <<copied[i].va + o, m[new[5 + i]][o]>>
        \/ x = <<SignalPage, m[new[3]][0]>>
  BY <1>1, ChildMem
<1>0. \A i \in 1 .. Len(copied) : m[new[5 + i]] = mem[copied[i].pa]
  BY DEF CopiedTo
<1>. DEFINE On(a, x) == \E o \in 0 .. a.size - 1 : x = <<a.va + o, mem[a.pa][o]>>
<1>3. \A x : x \in MemOf(q, m) <=>
        (\E i \in 1 .. Len(copied) : On(copied[i], x)) \/ x = <<SignalPage, m[new[3]][0]>>
  <2>. DEFINE New(i, x) == \E o \in 0 .. copied[i].size - 1 : x = <<copied[i].va + o, m[new[5 + i]][o]>>
  <2>1. \A i \in 1 .. Len(copied) : \A x : New(i, x) <=> On(copied[i], x)
    BY <1>0
  <2>2. \A x : x \in MemOf(q, m) <=>
          (\E i \in 1 .. Len(copied) : New(i, x)) \/ x = <<SignalPage, m[new[3]][0]>>
    BY <1>2
  <2>. HIDE DEF New, On
  <2>. QED  BY <2>1, <2>2
<1>4. \A x : x \in MemOf(list, mem) <=> \E i \in DOMAIN list : list[i].is_alloced /\ On(list[i], x)
  BY MemIs
<1>5. /\ \A i \in 1 .. Len(copied) : \E j \in DOMAIN list : copied[i] = list[j] /\ list[j].is_alloced
      /\ \A j \in DOMAIN list : list[j].is_alloced /\ list[j].va # SignalPage =>
           \E i \in 1 .. Len(copied) : copied[i] = list[j]
  <2>1. \A i \in 1 .. Len(copied) : \E j \in DOMAIN list : copied[i] = list[j] /\ list[j].va \notin OwnVas
    BY <1>1 DEF CopyOf
  <2>2. \A j \in DOMAIN list : list[j].va \notin OwnVas => \E i \in 1 .. Len(copied) : copied[i] = list[j]
    BY <1>1 DEF CopyOf
  <2>3. \A j \in DOMAIN list : list[j].is_alloced <=> list[j].va \notin {PERIPHERAL_START, USER_SIGNAL_WRAPPER_VA}
    BY DEF Known
  <2>4. /\ \A j \in DOMAIN list : list[j].va \notin OwnVas => list[j].is_alloced
        /\ \A j \in DOMAIN list : list[j].is_alloced /\ list[j].va # SignalPage => list[j].va \notin OwnVas
    BY <2>3 DEF OwnVas, SignalPage
  <2>. QED  BY <2>1, <2>2, <2>4
<1>6. ASSUME NEW j \in DOMAIN list, list[j].va = SignalPage, NEW x, On(list[j], x)
      PROVE  x[1] = SignalPage
  <2>1. list[j].size = 1 /\ SignalPage \in Nat
    BY <1>6, SignalStack, Layout DEF SignalPage
  <2>2. PICK o \in 0 .. list[j].size - 1 : x = <<list[j].va + o, mem[list[j].pa][o]>>
    BY <1>6
  <2>3. o = 0 /\ x[1] = list[j].va + o
    BY <2>1, <2>2
  <2>. QED  BY <1>6, <2>1, <2>3
<1>7. \E x \in MemOf(list, mem) : x[1] = SignalPage
  <2>1. PICK g \in DOMAIN list : list[g].is_alloced /\ list[g].va = SignalPage /\ list[g].size = 1
    BY SignalStack
  <2>2. 0 \in 0 .. list[g].size - 1
    BY <2>1
  <2>3. On(list[g], <<list[g].va + 0, mem[list[g].pa][0]>>)
    BY <2>2
  <2>. HIDE DEF On
  <2>4. <<list[g].va + 0, mem[list[g].pa][0]>> \in MemOf(list, mem)
    BY <1>4, <2>1, <2>3
  <2>5. list[g].va + 0 = SignalPage
    BY <2>1, Layout DEF SignalPage
  <2>. QED  BY <2>4, <2>5
<1>8. \E x \in MemOf(q, m) : x[1] = SignalPage
  <2>. DEFINE y == <<SignalPage, m[new[3]][0]>>
  <2>1. y[1] = SignalPage
    OBVIOUS
  <2>2. y \in MemOf(q, m)
    BY <1>3
  <2>. QED  BY <2>1, <2>2
<1>. HIDE DEF On
<1>9. ASSUME NEW x, x[1] # SignalPage
      PROVE  x \in MemOf(q, m) <=> x \in MemOf(list, mem)
  <2>1. x # <<SignalPage, m[new[3]][0]>>
    BY <1>9
  <2>2. ASSUME x \in MemOf(q, m)
        PROVE  x \in MemOf(list, mem)
    <3>1. PICK i \in 1 .. Len(copied) : On(copied[i], x)
      BY <1>3, <2>1, <2>2
    <3>. QED  BY <1>4, <1>5, <3>1
  <2>3. ASSUME x \in MemOf(list, mem)
        PROVE  x \in MemOf(q, m)
    <3>1. PICK j \in DOMAIN list : list[j].is_alloced /\ On(list[j], x)
      BY <1>4, <2>3
    <3>2. list[j].va # SignalPage
      BY <1>6, <1>9, <3>1
    <3>. QED  BY <1>3, <1>5, <3>1, <3>2
  <2>. QED  BY <2>2, <2>3
<1>. QED  BY <1>7, <1>8, <1>9 DEF AlikeBut

(* The regions that are copied into block b. *)
Source(copied, new, b) == {i \in DOMAIN copied : new[5 + i] = b}

(* What a fork writes into the blocks: copies of the parent's memory.      *)
LEMMA ForkCopies ==
  ASSUME VmInv, NEW t \in Threads, fork(t), NEW copied, copied = Copied(vma_list[t]),
         NEW new, new = ChildBlocks(Len(copied)), copied \in Seq(Regions)
  PROVE  /\ \A i \in 1 .. Len(copied) : content'[new[5 + i]] = content[copied[i].pa]
         /\ \A b \in Blocks : (\A i \in 1 .. Len(copied) : b # new[5 + i]) => content'[b] = content[b]
         /\ content' = [b \in Blocks |-> content'[b]]
<1>1. content' = [b \in Blocks |->
         IF Source(copied, new, b) = {} THEN content[b]
         ELSE content[copied[CHOOSE i \in Source(copied, new, b) : TRUE].pa]]
  BY DEF fork, ChildBlocks, Child, EmptySlots, Source
<1>2. /\ DOMAIN copied = 1 .. Len(copied) /\ Len(copied) \in Nat
      /\ new \in [1 .. 5 + Len(copied) -> Blocks]
      /\ \A i, j \in 1 .. 5 + Len(copied) : i # j => new[i] # new[j]
  <2>1. DOMAIN copied = 1 .. Len(copied) /\ Len(copied) \in Nat
    BY RegionIs
  <2>2. PICK m, c : m = Len(Copied(vma_list[t])) /\ c = Child
    OBVIOUS
  <2>3. /\ new \in [1 .. 5 + m -> Blocks]
        /\ \A i, j \in 1 .. 5 + m : i # j => new[i] # new[j]
    BY <2>2, ForkIs
  <2>. QED  BY <2>1, <2>2, <2>3
<1>. DEFINE m == Len(copied)
<1>3. \A i \in 1 .. m : 5 + i \in 1 .. 5 + m
  BY <1>2
<1>4. \A i, j \in 1 .. m : i # j => 5 + i # 5 + j
  BY <1>2
<1>. HIDE DEF m
<1>5. ASSUME NEW i \in 1 .. m
      PROVE  new[5 + i] \in Blocks /\ Source(copied, new, new[5 + i]) = {i}
  <2>1. \A j \in 1 .. m : j # i => new[5 + j] # new[5 + i]
    BY <1>2, <1>3, <1>4 DEF m
  <2>. QED  BY <1>2, <1>3, <2>1 DEF Source, m
<1>6. ASSUME NEW i \in 1 .. m
      PROVE  content'[new[5 + i]] = content[copied[i].pa]
  <2>1. (CHOOSE k \in {i} : TRUE) = i
    OBVIOUS
  <2>. QED  BY <1>1, <1>5, <2>1
<1>7. ASSUME NEW b \in Blocks, \A i \in 1 .. m : b # new[5 + i]
      PROVE  content'[b] = content[b]
  <2>1. Source(copied, new, b) = {}
    BY <1>2, <1>7 DEF Source, m
  <2>. QED  BY <1>1, <2>1
<1>8. content' = [b \in Blocks |-> content'[b]]
  <2>. DEFINE val(b) == IF Source(copied, new, b) = {} THEN content[b]
                        ELSE content[copied[CHOOSE i \in Source(copied, new, b) : TRUE].pa]
  <2>1. content' = [b \in Blocks |-> val(b)]
    BY <1>1
  <2>. HIDE DEF val
  <2>. QED  BY <2>1
<1>. QED  BY <1>6, <1>7, <1>8 DEF m

(* The regions of a child with memory of their own are known.              *)
LEMMA ChildKnown ==
  ASSUME NEW list \in Seq(Regions), Known(list), NEW copied, CopyOf(copied, list, Len(list)),
         NEW new, NEW q, ForkedFrom(q, copied, new)
  PROVE  Known(q)
<1>. DEFINE m == Len(copied)
<1>1. m \in Nat /\ DOMAIN list = 1 .. Len(list)
  BY RegionIs DEF CopyOf
<1>2. /\ q \in Seq(Regions) /\ Len(q) = m + 3
      /\ \A i \in 1 .. m : /\ q[i].va = copied[i].va /\ q[i].size = copied[i].size
                           /\ q[i].is_alloced
      /\ q[m + 1].va = PERIPHERAL_START /\ q[m + 2].va = USER_SIGNAL_WRAPPER_VA
      /\ q[m + 3].va = SignalPage /\ q[m + 3].size = 1
      /\ ~q[m + 1].is_alloced /\ ~q[m + 2].is_alloced /\ q[m + 3].is_alloced
      /\ q[m + 1].pa = DEVICE /\ q[m + 2].pa = WRAPPER
  BY DEF ForkedFrom, LiesAt, SignalPage
<1>3. DOMAIN q = 1 .. m + 3
  BY <1>2, RegionIs
<1>4. ASSUME NEW i \in 1 .. m
      PROVE  copied[i].va \notin OwnVas /\ copied[i].size <= MaxSize
  <2>1. PICK j \in 1 .. Len(list) : copied[i] = list[j] /\ list[j].va \notin OwnVas
    BY <1>4 DEF CopyOf
  <2>2. list[j].is_alloced /\ (list[j].is_alloced => list[j].size <= MaxSize)
    BY <1>1, <2>1 DEF Known, OwnVas
  <2>. QED  BY <2>1, <2>2
<1>5. DEVICE \notin Blocks /\ WRAPPER \notin Blocks
  BY PageTableAssumption DEF DEVICE, WRAPPER, Blocks
<1>6. SignalPage \notin {PERIPHERAL_START, USER_SIGNAL_WRAPPER_VA} /\ 1 <= MaxSize
  <2>1. 1 <= MaxSize
    BY LayoutAssumption, VmAssumption
  <2>. QED  BY <2>1, Layout DEF SignalPage
<1>7. \A i \in DOMAIN q : i \in 1 .. m \/ i = m + 1 \/ i = m + 2 \/ i = m + 3
  <2>. HIDE DEF m
  <2>1. \A i \in 1 .. m + 3 : i \in 1 .. m \/ i \in {m + 1, m + 2, m + 3}
    BY <1>1, ThreeBehind
  <2>. QED  BY <1>3, <2>1
<1>. HIDE DEF m
<1>8. ASSUME NEW i \in DOMAIN q
      PROVE  /\ q[i].is_alloced <=> q[i].va \notin {PERIPHERAL_START, USER_SIGNAL_WRAPPER_VA}
             /\ q[i].is_alloced => q[i].size <= MaxSize
             /\ ~q[i].is_alloced => q[i].pa \notin Blocks
  <2>1. CASE i \in 1 .. m
    BY <1>2, <1>4, <2>1 DEF OwnVas
  <2>2. CASE i = m + 1 \/ i = m + 2
    BY <1>2, <1>5, <2>2
  <2>3. CASE i = m + 3
    BY <1>2, <1>6, <2>3
  <2>. QED  BY <1>7, <2>1, <2>2, <2>3
<1>. QED  BY <1>8 DEF Known

(* fork gives a free thread a copy of the parent's memory.                 *)
LEMMA ForkSpace ==
  ASSUME VmInv, OwnInv, SpaceInv, NEW t \in Threads, fork(t)
  PROVE  SpaceInv' /\ [AS!Next]_Space
<1>1. PICK role : Owned(role)
  BY DEF OwnInv
<1>2. PICK list, copied, m, new, c, q :
        /\ list = vma_list[t] /\ copied = Copied(list) /\ m = Len(copied)
        /\ new = ChildBlocks(m) /\ c = Child /\ q = ForkList(list, new)
  OBVIOUS
<1>3. /\ curr = t /\ op[t].pc = "user" /\ c \in Threads /\ status[c] = "FREE" /\ c # t
      /\ m \in Nat /\ new \in [1 .. 5 + m -> Blocks]
      /\ \A i \in 1 .. 5 + m : new[i] \in FreeFor(c)
      /\ vma_list' = [vma_list EXCEPT ![c] = q] /\ op' = op
  BY <1>2, ForkIs
<1>4. /\ list \in Seq(Regions) /\ Apart(list) /\ Laid(list) /\ Known(list)
  BY <1>2, <1>3, OnCpu DEF SpaceInv, MemoryOK
<1>5. /\ CopyOf(copied, list, Len(list)) /\ ForkedFrom(q, copied, new)
      /\ copied \in Seq(Regions) /\ DOMAIN list = 1 .. Len(list)
  <2>1. CopyOf(copied, list, Len(list)) /\ DOMAIN list = 1 .. Len(list)
    BY <1>2, <1>4, CopiedIs, RegionIs
  <2>2. ForkedFrom(q, copied, new)
    BY <1>2, <1>3, <1>4, ForkListIs
  <2>. QED  BY <2>1, <2>2 DEF CopyOf
<1>6. /\ \A i \in 1 .. m : content'[new[5 + i]] = content[copied[i].pa]
      /\ \A b \in Blocks : (\A i \in 1 .. m : b # new[5 + i]) => content'[b] = content[b]
      /\ content' = [b \in Blocks |-> content'[b]]
  <2>1. copied = Copied(vma_list[t]) /\ new = ChildBlocks(Len(copied)) /\ copied \in Seq(Regions)
    BY <1>2, <1>5
  <2>2. /\ \A i \in 1 .. Len(copied) : content'[new[5 + i]] = content[copied[i].pa]
        /\ \A b \in Blocks : (\A i \in 1 .. Len(copied) : b # new[5 + i]) => content'[b] = content[b]
        /\ content' = [b \in Blocks |-> content'[b]]
    BY <2>1, ForkCopies
  <2>. QED  BY <1>2, <2>2
<1>7. \A i \in 1 .. m : new[5 + i] \in Blocks /\ role[new[5 + i]].kind = "free"
  <2>1. \A i \in 1 .. m : 5 + i \in 1 .. 5 + m
    BY <1>3
  <2>2. \A i \in 1 .. m : new[5 + i] \in Blocks /\ new[5 + i] \in free_blocks
    BY <1>3, <2>1 DEF FreeFor
  <2>. QED  BY <1>1, <2>2 DEF Owned
<1>8. \A i \in 1 .. m : copied[i].pa \in Blocks
  <2>1. \A j \in DOMAIN list : list[j].is_alloced => list[j].pa \in Blocks
    BY <1>1, <1>2, <1>3, AreasOwned
  <2>2. ASSUME NEW i \in 1 .. m
        PROVE  copied[i].pa \in Blocks
    <3>1. PICK j \in DOMAIN list : copied[i] = list[j] /\ list[j].va \notin OwnVas
      BY <1>2, <1>5 DEF CopyOf
    <3>2. list[j].is_alloced
      BY <1>4, <3>1 DEF Known, OwnVas
    <3>. QED  BY <2>1, <3>1, <3>2
  <2>. QED  BY <2>2
<1>9. content' \in Memories
  <2>1. content \in [Blocks -> [Offsets -> Contents]]
    BY DEF SpaceInv, Memories
  <2>2. ASSUME NEW b \in Blocks
        PROVE  content'[b] \in [Offsets -> Contents]
    <3>1. CASE \E i \in 1 .. m : b = new[5 + i]
      BY <1>6, <1>8, <2>1, <3>1
    <3>2. CASE \A i \in 1 .. m : b # new[5 + i]
      BY <1>6, <2>1, <3>2
    <3>. QED  BY <3>1, <3>2
  <2>. QED  BY <1>6, <2>2 DEF Memories
<1>10. OnlyOf(role, {c})
  BY <1>6, <1>7 DEF OnlyOf
<1>11. op[c] = User /\ vma_list[c] = <<>>
  BY <1>3 DEF VmInv, ThreadInv
<1>12. op' = [op EXCEPT ![c] = User]
  BY <1>3, <1>11 DEF VmInv, VmTypeOK
<1>13. Known(q)
  BY <1>4, <1>5, ChildKnown
<1>14. MemoryOK(User, q, content')
  BY <1>13, OpsAre DEF MemoryOK
<1>15. /\ SpaceInv' /\ AS!Others(c) /\ Space[c] = SpaceOf(op[c], vma_list[c], content)
       /\ Space'[c] = SpaceOf(User, q, content')
  <2>1. c \in Threads /\ vma_list' = [vma_list EXCEPT ![c] = q] /\ op' = [op EXCEPT ![c] = User]
    BY <1>3, <1>12
  <2>. QED  BY <1>1, <1>9, <1>10, <1>14, <2>1, OwnMemory
<1>16. /\ Space[t] = MemOf(list, content) /\ Space'[c] = MemOf(q, content')
       /\ Space[c] = {}
  <2>1. Space[t] = SpaceOf(op[t], vma_list[t], content)
    BY SpaceIs
  <2>2. MemOf(<<>>, content) = {}
    BY MemIs
  <2>. QED  BY <1>2, <1>3, <1>11, <1>15, <2>1, <2>2, OpsAre DEF SpaceOf
<1>17. PICK n : n = content'
  OBVIOUS
<1>18. AlikeBut(MemOf(q, n), MemOf(list, content))
  <2>1. PICK mem : mem = content
    OBVIOUS
  <2>2. CopiedTo(copied, new, n, mem)
    BY <1>2, <1>6, <1>17, <2>1 DEF CopiedTo
  <2>3. /\ list \in Seq(Regions) /\ Apart(list) /\ Laid(list) /\ Known(list)
        /\ CopyOf(copied, list, Len(list)) /\ ForkedFrom(q, copied, new)
    BY <1>4, <1>5
  <2>4. AlikeBut(MemOf(q, n), MemOf(list, mem))
    BY <2>2, <2>3, ForkMem
  <2>. QED  BY <2>1, <2>4
<1>19. AS!Fork(t, c)
  <2>. DEFINE A == Space[t]
              B == Space'[c]
  <2>1. /\ \A x : x[1] # SignalPage => (x \in B <=> x \in A)
        /\ \E x \in B : x[1] = SignalPage
        /\ \E x \in A : x[1] = SignalPage
    BY <1>16, <1>17, <1>18 DEF AlikeBut
  <2>. HIDE DEF A, B
  <2>2. A # {}
    BY <2>1
  <2>3. {x[1] : x \in B} = {x[1] : x \in A}
    <3>1. ASSUME NEW p
          PROVE  (\E x \in B : p = x[1]) <=> (\E x \in A : p = x[1])
      BY <2>1
    <3>. QED  BY <3>1
  <2>4. {x \in B : x[1] \notin {SignalPage}} = {x \in A : x[1] \notin {SignalPage}}
    BY <2>1
  <2>. QED  BY <1>15, <1>16, <2>2, <2>3, <2>4 DEF AS!Fork, AS!Has, A, B, SignalPage
<1>. QED  BY <1>3, <1>15, <1>19, OneStep

(* Reaping takes the memory of the dead, and leaves that of the living.    *)
LEMMA ReapSpace ==
  ASSUME VmInv, OwnInv, SpaceInv, kill_zombies
  PROVE  SpaceInv' /\ [AS!Next]_Space
<1>1. PICK role : Owned(role)
  BY DEF OwnInv
<1>2. /\ Dead \in SUBSET Threads
      /\ \A t \in Dead : vma_list'[t] = <<>> /\ op'[t] = User
      /\ \A t \in Threads \ Dead : vma_list'[t] = vma_list[t] /\ op'[t] = op[t]
  BY ZombiesReaped
<1>3. PICK old : old = UNION {Reaped(t) : t \in Dead}
  OBVIOUS
<1>4. kfree(old)
  BY <1>3 DEF kill_zombies, Dead
<1>5. \A b \in old : role[b].of \in Dead
  <2>1. \A t \in Dead : Reaped(t) = {b \in Blocks : role[b].kind \notin Unowned /\ role[b].of = t}
    BY <1>1, ReapedAre DEF OwnInv
  <2>. QED  BY <1>3, <2>1
<1>6. content' \in Memories /\ OnlyOf(role, Dead)
  BY <1>4, <1>5, FreedIs DEF OnlyOf
<1>7. \A t \in Threads : t \in Dead => MemoryOK(op'[t], vma_list'[t], content')
  <2>1. Known(<<>>) /\ User.pc # "mmap"
    BY OpsAre DEF Known
  <2>. QED  BY <1>2, <2>1 DEF MemoryOK
<1>8. SpaceInv' /\ \A u \in Threads : u \notin Dead => Space'[u] = Space[u]
  BY <1>1, <1>2, <1>6, <1>7, SpaceKept
<1>9. \A u \in Threads : u \in Dead => Space'[u] = {}
  <2>1. \A o, mem : SpaceOf(o, <<>>, mem) = {}
    BY DEF SpaceOf, MemOf
  <2>. QED  BY <1>2, <2>1, SpaceIs
<1>10. AS!Unload
  BY <1>8, <1>9 DEF AS!Unload
<1>. QED  BY <1>8, <1>10, EndStep

(* At the start one thread has a program's memory, the others none.        *)
LEMMA FirstSpace ==
  ASSUME VmInit
  PROVE  SpaceInv /\ AS!Init
<1>. DEFINE f == FirstBlocks
<1>1. PICK new, list : new = <<f[4], f[1], f[3]>> /\ list = Areas(f[4], f[1], f[3])
  OBVIOUS
<1>2. f[4] \in Blocks /\ f[1] \in Blocks /\ f[3] \in Blocks /\ Blocks \subseteq 0 .. NBLOCKS
  <2>1. f[4] \in Blocks /\ f[1] \in Blocks /\ f[3] \in Blocks
    BY FirstIs
  <2>. QED  BY <2>1, Layout DEF Blocks
<1>3. /\ vma_list = [t \in Threads |-> IF t = 1 THEN list ELSE <<>>]
      /\ op = [t \in Threads |-> User]
  BY <1>1, VmInitIs
<1>4. content = [b \in Blocks |-> Filled(IF b = f[4] THEN "image" ELSE "junk")]
  BY DEF VmInit, FirstBlocks
<1>. HIDE DEF f
<1>5. /\ new \in [1 .. 3 -> Blocks] /\ new[1] = f[4]
      /\ list = Areas(new[1], new[2], new[3])
      /\ new[1] \in 0 .. NBLOCKS /\ new[2] \in 0 .. NBLOCKS /\ new[3] \in 0 .. NBLOCKS
  <2>1. new[1] = f[4] /\ new[2] = f[1] /\ new[3] = f[3]
    BY <1>1
  <2>2. new \in [1 .. 3 -> Blocks]
    BY <1>1, <1>2
  <2>. QED  BY <1>1, <1>2, <2>1, <2>2
<1>6. ProgramFrom(list, new) /\ Apart(list)
  BY <1>5, AreasAre, AreasLaid DEF ProgramFrom
<1>7. content \in Memories /\ content[new[1]] = Filled("image")
  <2>1. Filled("image") \in [Offsets -> Contents] /\ Filled("junk") \in [Offsets -> Contents]
    BY DEF Filled, Offsets, Contents
  <2>. QED  BY <1>2, <1>4, <1>5, <2>1 DEF Memories
<1>8. Known(list) /\ Known(<<>>)
  BY <1>6, ProgramAreas DEF Known
<1>9. SpaceInv
  <2>1. User.pc # "mmap"
    BY OpsAre
  <2>2. \A t \in Threads : op[t] = User /\ vma_list[t] \in {list, <<>>}
    BY <1>3
  <2>. QED  BY <1>7, <1>8, <2>1, <2>2 DEF SpaceInv, MemoryOK
<1>10. Space[1] = MemOf(list, content) /\ \A t \in Threads \ {1} : Space[t] = {}
  <2>1. 1 \in Threads
    BY ThreadNumbers
  <2>2. MemOf(<<>>, content) = {}
    BY MemIs
  <2>3. \A t \in Threads : Space[t] = SpaceOf(User, vma_list[t], content)
    BY <1>3, SpaceIs
  <2>. QED  BY <1>3, <2>1, <2>2, <2>3, OpsAre DEF SpaceOf
<1>11. AS!Loaded(MemOf(list, content))
  BY <1>6, <1>7, ProgramLoaded
<1>12. AS!Init
  BY <1>10, <1>11, ThreadNumbers DEF AS!Init
<1>. QED  BY <1>9, <1>12

(* Every step keeps the invariant, and is an abstract step or none.        *)
LEMMA SpaceStep ==
  ASSUME VmInv, OwnInv, ExactInv, SpaceInv, [VmNext]_vm_vars
  PROVE  SpaceInv' /\ [AS!Next]_Space
<1>1. CASE UNCHANGED vm_vars
  BY <1>1, NothingSeen DEF vm_vars
<1>2. CASE Tick \/ kill_zombies
  BY <1>2, QuietSpace, ReapSpace
<1>3. ASSUME NEW t \in Threads, NEW p \in Touched, NEW write \in BOOLEAN, Access(t, p, write)
      PROVE  SpaceInv' /\ [AS!Next]_Space
  BY <1>3, AccessSpace
<1>4. ASSUME NEW t \in Threads, NEW p \in Touched, NEW write \in BOOLEAN, Segfault(t, p, write)
      PROVE  SpaceInv' /\ [AS!Next]_Space
  BY <1>4, QuietSpace
<1>5. ASSUME NEW t \in Threads, NEW p \in Touched, NEW first \in BOOLEAN, Fault(t, p, first)
      PROVE  SpaceInv' /\ [AS!Next]_Space
  BY <1>5, QuietSpace
<1>6. ASSUME NEW t \in Threads, fork(t)
      PROVE  SpaceInv' /\ [AS!Next]_Space
  BY <1>6, ForkSpace
<1>7. ASSUME NEW t \in Threads, exec(t) \/ ExecDel(t) \/ ExecAlloc(t)
      PROVE  SpaceInv' /\ [AS!Next]_Space
  BY <1>7, ExecSpace
<1>8. ASSUME NEW t \in Threads, ExecTables(t) \/ ExecAreas(t)
      PROVE  SpaceInv' /\ [AS!Next]_Space
  BY <1>8, ExecTablesSpace, ExecAreasSpace
<1>9. ASSUME NEW t \in Threads, (\E r \in Requests : mmap(t, r)) \/ MmapAdd(t)
      PROVE  SpaceInv' /\ [AS!Next]_Space
  BY <1>9, MmapSpace, MmapAddSpace
<1>10. ASSUME NEW t \in Threads, exit(t) \/ \E u \in Threads : kill(t, u)
       PROVE  SpaceInv' /\ [AS!Next]_Space
  BY <1>10, QuietSpace
<1>. QED  BY <1>1, <1>2, <1>3, <1>4, <1>5, <1>6, <1>7, <1>8, <1>9, <1>10 DEF VmNext

(* Programs have private memories: through the tables, the TLB and the     *)
(* blocks, every step is a store to a page of one thread, a fork that      *)
(* copies all but the signal stack, an mmap that adds zeroed pages, an     *)
(* exec or the end of programs (mmu.c, syscall.c, sched.c), unless a       *)
(* thread is killed inside a call or touches the byte behind a region.     *)
THEOREM MemoriesArePrivate ==
  ASSUME ~KillInKernel, ~EndTouch
  PROVE  VmSpec => ImplementsAddressSpace
<1>1. VmInit => ExactInv /\ SpaceInv /\ AS!Init
  BY VmStarts, FirstOwns, FirstExact, FirstSpace
<1>2. VmInv /\ OwnInv /\ ExactInv /\ [VmNext]_vm_vars => ExactInv'
  BY ExactStep
<1>3. VmInv /\ OwnInv /\ ExactInv /\ SpaceInv /\ [VmNext]_vm_vars => SpaceInv' /\ [AS!Next]_Space
  BY SpaceStep
<1>4. VmSpec => []OwnInv
  BY OwnInvHolds
<1>. QED  BY <1>1, <1>2, <1>3, <1>4, VmInvHolds, PTL DEF VmSpec, ImplementsAddressSpace, AS!Spec
=============================================================================
