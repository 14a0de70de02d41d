---------------------------------- MODULE Vm ----------------------------------
(***************************************************************************)
(* Virtual memory: the regions, page tables and memory blocks of the       *)
(* threads through page faults, fork, exec, mmap, death and reaping        *)
(* (kernel/src/mmu.c, syscall.c, sched.c).                                 *)
(*                                                                         *)
(* A block is what one kmalloc returns; a page of it is a pair of a block  *)
(* and an offset, so the memory behind a block is never the thread's own.  *)
(* Addresses and sizes are in pages.  exec and mmap run with interrupts    *)
(* enabled and are several steps; fork and kill_zombies are masked.  Which *)
(* thread schedule picks is left open (Sched decides it); 0 stands for     *)
(* idle.                                                                   *)
(***************************************************************************)
EXTENDS PageTable, Sequences, SequencesExt

CONSTANTS
  MAX_THREAD_COUNT,
  USER_KERNEL_BASE, USER_STACK_BASE, USTACK_SIZE, PERIPHERAL_START, PERIPHERAL_END,
  USER_SIGNAL_WRAPPER_VA, WRAPPER_SIZE, USER_SIGNAL_STKSTART_VA,
  DATASIZE,      \* pages of the program
  NPAGES,        \* pages of the address space
  MaxSize,       \* pages of a block, for the largest region
  Requests,      \* the <<addr, len, rwx>> that programs pass to mmap
  Touched,       \* the pages that programs use
  MaxCalls,      \* bound: calls of fork, exec, mmap, exit and kill
  MaxAreas,      \* bound: regions of a thread
  EndTouch,      \* programs touch the first byte behind a region
  KillInKernel   \* a thread may be killed while it is inside exec or mmap

ASSUME VmAssumption ==
  /\ MAX_THREAD_COUNT \in Nat \ {0}
  /\ NPAGES \in 0 .. Span[LEVELS]  \* the tables have an entry for every page
  /\ Requests \subseteq Nat \X (1 .. MaxSize) \X SUBSET {"r", "w", "x"}
  /\ Touched \subseteq 0 .. NPAGES - 1
  /\ MaxSize \in Nat /\ MaxCalls \in Nat /\ MaxAreas \in Nat
  /\ EndTouch \in BOOLEAN /\ KillInKernel \in BOOLEAN

(* Where the regions of a program lie (mmu.h 31-36): the image, the        *)
(* peripherals, the signal stack, directly behind it the wrapper, the      *)
(* stack.                                                                  *)
ASSUME LayoutAssumption ==
  /\ {USER_KERNEL_BASE, PERIPHERAL_START, PERIPHERAL_END, USER_SIGNAL_STKSTART_VA,
      USER_SIGNAL_WRAPPER_VA, USER_STACK_BASE} \subseteq Nat
  /\ {DATASIZE, USTACK_SIZE} \subseteq 1 .. MaxSize /\ WRAPPER_SIZE \in Nat \ {0}
  /\ USER_KERNEL_BASE + DATASIZE <= PERIPHERAL_START /\ PERIPHERAL_START < PERIPHERAL_END
  /\ PERIPHERAL_END <= USER_SIGNAL_STKSTART_VA
  /\ USER_SIGNAL_STKSTART_VA + 1 = USER_SIGNAL_WRAPPER_VA
  /\ USER_SIGNAL_WRAPPER_VA + WRAPPER_SIZE <= USER_STACK_BASE - USTACK_SIZE
  /\ USER_STACK_BASE <= NPAGES

Threads == 1 .. MAX_THREAD_COUNT
idle    == 0
Pages   == 0 .. NPAGES - 1

VARIABLES
  status,      \* threads[t].status
  rq,          \* the threads on the run queue
  curr,        \* curr_thread
  vma_list,    \* threads[t].vma_list
  pgd,         \* threads[t].context.pgd
  kernel_sp,   \* threads[t].kernel_sp
  op,          \* the call that t is inside, and its locals
  tab,         \* the page tables
  content,     \* what the pages of the blocks hold
  tlb,         \* the translations the CPU has cached
  free_blocks, \* the blocks that are not allocated
  lost,        \* history: blocks that exec has allocated and forgotten
  refreed,     \* history: blocks that were freed while they were free
  calls        \* system calls so far

vm_vars == <<status, rq, curr, vma_list, pgd, kernel_sp, op, tab, content, tlb,
             free_blocks, lost, refreed, calls>>

User == [pc |-> "user", at |-> 0, new |-> <<>>, ask |-> <<>>]

RWX == {"r", "w", "x"}

Filled(v) == [o \in 0 .. MaxSize - 1 |-> v]

(* kmalloc may return any free block.  Which one makes no difference to    *)
(* the properties, so every thread is served from a part of its own.       *)
Part(t) == {b \in Blocks : b % MAX_THREAD_COUNT = t % MAX_THREAD_COUNT}
FreeFor(t) == free_blocks \cap Part(t)

(* There is room for the first program. *)
ASSUME RoomAssumption == Cardinality(Part(1)) >= 5

Heap(t) == [tab |-> tab, free |-> FreeFor(t)]

-----------------------------------------------------------------------------
(* Regions.  mmu_add_vma appends to the list. *)

Area(va, size, pa, rwx, is_alloced) ==
  [va |-> va, size |-> size, pa |-> pa, rwx |-> rwx, is_alloced |-> is_alloced]

Inside(a, p) == a.va <= p /\ p < a.va + a.size

(* Mutant of Areas: the signal stack comes before the wrapper. *)
AreasSwapped(data, user_sp, signal_sp) ==
  << Area(USER_KERNEL_BASE, DATASIZE, data, RWX, TRUE),
     Area(USER_STACK_BASE - USTACK_SIZE, USTACK_SIZE, user_sp, RWX, TRUE),
     Area(PERIPHERAL_START, PERIPHERAL_END - PERIPHERAL_START, DEVICE, {"r", "w"}, FALSE),
     Area(USER_SIGNAL_STKSTART_VA, 1, signal_sp, RWX, TRUE),
     Area(USER_SIGNAL_WRAPPER_VA, WRAPPER_SIZE, WRAPPER, {"r", "x"}, FALSE) >>

(* The regions of a program that starts. *)
Areas(data, user_sp, signal_sp) ==
  << Area(USER_KERNEL_BASE, DATASIZE, data, RWX, TRUE),
     Area(USER_STACK_BASE - USTACK_SIZE, USTACK_SIZE, user_sp, RWX, TRUE),
     Area(PERIPHERAL_START, PERIPHERAL_END - PERIPHERAL_START, DEVICE, {"r", "w"}, FALSE),
     Area(USER_SIGNAL_WRAPPER_VA, WRAPPER_SIZE, WRAPPER, {"r", "x"}, FALSE),
     Area(USER_SIGNAL_STKSTART_VA, 1, signal_sp, RWX, TRUE) >>

(* The blocks that mmu_del_all_vma frees. *)
AreaBlocks(list) == {list[i].pa : i \in {j \in DOMAIN list : list[j].is_alloced}}

(* The memory of the blocks S is given back; what it holds is undefined    *)
(* from then on.                                                           *)
kfree(S) ==
  /\ free_blocks' = free_blocks \cup S
  /\ refreed' = refreed \cup (S \cap free_blocks)
  /\ content' = [b \in Blocks |-> IF b \in S THEN Filled("junk") ELSE content[b]]

-----------------------------------------------------------------------------
(* thread_exec, called by the shell: thread_create, the regions, the copy  *)
(* of the program; then the thread runs.                                   *)
VmInit ==
  LET new == [i \in 1 .. 5 |-> Fresh(Part(1), i)] IN
  /\ status = [t \in Threads |-> IF t = 1 THEN "ACTIVE" ELSE "FREE"]
  /\ rq = {} /\ curr = 1
  /\ kernel_sp = [t \in Threads |-> IF t = 1 THEN new[2] ELSE NoBlock]
  /\ pgd = [t \in Threads |-> IF t = 1 THEN new[5] ELSE NoBlock]
  /\ vma_list = [t \in Threads |-> IF t = 1 THEN Areas(new[4], new[1], new[3]) ELSE <<>>]
  /\ op = [t \in Threads |-> User]
  /\ tab = [b \in Blocks |-> EmptyTable]
  /\ content = [b \in Blocks |-> Filled(IF b = new[4] THEN "image" ELSE "junk")]
  /\ tlb = [p \in Pages |-> NoEntry]
  /\ free_blocks = Blocks \ Range(new)
  /\ lost = {} /\ refreed = {} /\ calls = 0

-----------------------------------------------------------------------------
(* The CPU goes to another thread.  switch_to loads its top table and      *)
(* empties the TLB.  A zombie that leaves the CPU is not queued.           *)

switch_to(u) == curr' = u /\ tlb' = [p \in Pages |-> NoEntry]

(* schedule, for a thread t that leaves; st is the status of the threads.  *)
schedule(t, st) ==
  \E u \in {idle} \cup {v \in rq : st[v] = "ACTIVE"} :
    /\ switch_to(u)
    /\ rq' = (rq \ {u}) \cup (IF st[t] = "ZOMBIE" THEN {} ELSE {t})

(* The timer interrupt while a thread, or idle, has the CPU. *)
Tick ==
  /\ IF curr = idle
     THEN \E u \in {v \in rq : status[v] = "ACTIVE"} : switch_to(u) /\ rq' = rq \ {u}
     ELSE schedule(curr, status)
  /\ UNCHANGED <<status, vma_list, pgd, kernel_sp, op, tab, content, free_blocks,
                 lost, refreed, calls>>

-----------------------------------------------------------------------------
(* User code: an access to page p, in its first byte or in another one.    *)

Running(t) == curr = t /\ op[t].pc = "user"

Cached(p) == tlb[p] # NoEntry

Translation(t, p) == IF Cached(p) THEN tlb[p] ELSE Walk(tab, pgd[t], p)

Allowed(e, write) == "r" \in e.rwx /\ (write => "w" \in e.rwx)

(* An access with a translation: the TLB keeps it, a write changes the     *)
(* page.                                                                   *)
Access(t, p, write) ==
  LET e == Translation(t, p) IN
  /\ Running(t) /\ e # NoEntry /\ Allowed(e, write)
  /\ write \/ ~Cached(p)
  /\ tlb' = [tlb EXCEPT ![p] = e]
  /\ content' = IF write /\ e.to \in Blocks /\ e.off < MaxSize
                THEN [content EXCEPT ![e.to][e.off] = "data"] ELSE content
  /\ UNCHANGED <<status, rq, curr, vma_list, pgd, kernel_sp, op, tab, free_blocks,
                 lost, refreed, calls>>

(* Does mmu_memfail_abort_handle take area a for an access to page p?  The *)
(* end of a region, which is the first byte of a page, is included.        *)
Matches(a, p, first) == a.va <= p /\ (p < a.va + a.size \/ (first /\ p = a.va + a.size))

(* The first region of the list that is taken, 0 if there is none. *)
FaultArea(list, p, first) ==
  LET hits == {i \in DOMAIN list : Matches(list[i], p, first)} IN
  IF hits = {} THEN 0 ELSE CHOOSE i \in hits : \A j \in hits : i <= j

(* The page is the end of a region that is searched before its own. *)
BehindArea(list, p) ==
  \E i \in DOMAIN list : /\ p = list[i].va + list[i].size
                         /\ \A j \in 1 .. i : ~Inside(list[j], p)

(* Programs touch any byte of a page, but the first one only with EndTouch *)
(* if it is the end of a region.  The kernel itself, in run_signal, enters *)
(* the wrapper at its first byte, which is the end of the signal stack.    *)
Byte(t, p, first) ==
  first => EndTouch \/ p = USER_SIGNAL_WRAPPER_VA \/ ~BehindArea(vma_list[t], p)

(* mmu_memfail_abort_handle, translation fault: one page is mapped. *)
Fault(t, p, first) ==
  LET i == FaultArea(vma_list[t], p, first)
      a == vma_list[t][i]
      h == map_one_page(Heap(t), pgd[t], p, [to |-> a.pa, off |-> p - a.va, rwx |-> a.rwx])
  IN  /\ Running(t) /\ Byte(t, p, first)
      /\ Translation(t, p) = NoEntry /\ i # 0
      /\ Cardinality(FreeFor(t)) >= LEVELS
      /\ tab' = h.tab /\ free_blocks' = (free_blocks \ Part(t)) \cup h.free
      /\ UNCHANGED <<status, rq, curr, vma_list, pgd, kernel_sp, op, content, tlb,
                     lost, refreed, calls>>

(* thread_exit: the thread is a zombie and leaves the CPU for good. *)
thread_exit(t) ==
  LET st == [status EXCEPT ![t] = "ZOMBIE"] IN status' = st /\ schedule(t, st)

(* The same handler when no region is found, or on a permission fault. *)
Segfault(t, p, write) ==
  LET e == Translation(t, p) IN
  /\ Running(t)
  /\ IF e = NoEntry THEN FaultArea(vma_list[t], p, FALSE) = 0 ELSE ~Allowed(e, write)
  /\ thread_exit(t)
  /\ UNCHANGED <<vma_list, pgd, kernel_sp, op, tab, content, free_blocks, lost,
                 refreed, calls>>

-----------------------------------------------------------------------------
(* fork, masked throughout: thread_create for the first free slot c, then  *)
(* a copy of every region but three, for which there are new ones.         *)

ForkedAreas(list, new) ==
  [i \in DOMAIN list |-> [list[i] EXCEPT !.pa = new[5 + i], !.is_alloced = TRUE]]

(* The regions whose memory is copied. *)
Copied(list) ==
  LET own == {USER_SIGNAL_WRAPPER_VA, PERIPHERAL_START, USER_SIGNAL_STKSTART_VA}
      upto[n \in 0 .. Len(list)] ==
        IF n = 0 THEN <<>>
        ELSE IF list[n].va \in own THEN upto[n - 1] ELSE Append(upto[n - 1], list[n])
  IN  upto[Len(list)]

(* The blocks of thread_create that a copied image or stack replaces. *)
Replaced(list, new) ==
  {new[4] : i \in {j \in DOMAIN list : list[j].va = USER_KERNEL_BASE}} \cup
  {new[1] : i \in {j \in DOMAIN list : list[j].va = USER_STACK_BASE - USTACK_SIZE}}

fork(t) ==
  LET slots  == {c \in Threads : status[c] = "FREE"}
      c      == CHOOSE u \in slots : \A v \in slots : u <= v
      copied == Copied(vma_list[t])
      \* user_sp, kernel_sp, signal_sp, data, pgd, and the copies
      new    == [i \in 1 .. 5 + Len(copied) |-> Fresh(FreeFor(c), i)]
      drop   == Replaced(copied, new)
      source == [b \in Blocks |-> {i \in DOMAIN copied : new[5 + i] = b}]
  IN  /\ Running(t) /\ calls < MaxCalls /\ slots # {} /\ Cardinality(FreeFor(c)) >= Len(new)
      /\ status' = [status EXCEPT ![c] = "ACTIVE"]
      /\ rq' = rq \cup {c}
      /\ kernel_sp' = [kernel_sp EXCEPT ![c] = new[2]]
      /\ pgd' = [pgd EXCEPT ![c] = new[5]]
      /\ tab' = [tab EXCEPT ![new[5]] = EmptyTable]
      /\ vma_list' = [vma_list EXCEPT ![c] =
           ForkedAreas(copied, new) \o SubSeq(Areas(NoBlock, NoBlock, new[3]), 3, 5)]
      /\ content' = [b \in Blocks |->
           IF source[b] = {} THEN content[b]
           ELSE content[copied[CHOOSE i \in source[b] : TRUE].pa]]
      /\ free_blocks' = free_blocks \ (Range(new) \ drop)
      /\ calls' = calls + 1
      /\ UNCHANGED <<curr, op, tlb, lost, refreed>>

-----------------------------------------------------------------------------
(* exec, with interrupts enabled. *)

(* The next region from the k-th on whose memory mmu_del_all_vma frees. *)
NextAlloced(list, k) ==
  LET rest == {i \in k .. Len(list) : list[i].is_alloced} IN
  IF rest = {} THEN Len(list) + 1 ELSE CHOOSE i \in rest : \A j \in rest : i <= j

exec(t) ==
  /\ Running(t) /\ calls < MaxCalls
  /\ op' = [op EXCEPT ![t] = [User EXCEPT !.pc = "del", !.at = NextAlloced(vma_list[t], 1)]]
  /\ calls' = calls + 1
  /\ UNCHANGED <<status, rq, curr, vma_list, pgd, kernel_sp, tab, content, tlb,
                 free_blocks, lost, refreed>>

(* mmu_del_all_vma, up to the next region that has memory of its own. *)
ExecDel(t) ==
  LET i == op[t].at IN
  /\ curr = t /\ op[t].pc = "del" /\ i <= Len(vma_list[t])
  /\ kfree({vma_list[t][i].pa})
  /\ op' = [op EXCEPT ![t].at = NextAlloced(vma_list[t], i + 1)]
  /\ UNCHANGED <<status, rq, curr, vma_list, pgd, kernel_sp, tab, tlb, lost, calls>>

(* The list is empty only now.  The image is allocated twice, and the      *)
(* first block is forgotten; then the stacks.                              *)
ExecAlloc(t) ==
  /\ curr = t /\ op[t].pc = "del" /\ op[t].at > Len(vma_list[t])
  /\ Cardinality(FreeFor(t)) >= 4
  /\ vma_list' = [vma_list EXCEPT ![t] = <<>>]
  /\ lost' = lost \cup {Fresh(FreeFor(t), 1)}
  /\ op' = [op EXCEPT ![t] = [User EXCEPT !.pc = "tables",
                                          !.new = [i \in 1 .. 3 |-> Fresh(FreeFor(t), i + 1)]]]
  /\ free_blocks' = free_blocks \ {Fresh(FreeFor(t), i) : i \in 1 .. 4}
  /\ UNCHANGED <<status, rq, curr, pgd, kernel_sp, tab, content, tlb, refreed, calls>>

(* The page tables go, and the TLB is invalidated. *)
ExecTables(t) ==
  LET old == FreedTables(tab, pgd[t]) IN
  /\ curr = t /\ op[t].pc = "tables"
  /\ kfree(old)
  /\ tab' = [b \in Blocks |-> IF b \in old \cup {pgd[t]} THEN EmptyTable ELSE tab[b]]
  /\ tlb' = [p \in Pages |-> NoEntry]
  /\ op' = [op EXCEPT ![t].pc = "areas"]
  /\ UNCHANGED <<status, rq, curr, vma_list, pgd, kernel_sp, lost, calls>>

(* The new regions, and the program is read into its memory. *)
ExecAreas(t) ==
  LET new == op[t].new IN
  /\ curr = t /\ op[t].pc = "areas"
  /\ vma_list' = [vma_list EXCEPT ![t] = @ \o Areas(new[1], new[2], new[3])]
  /\ content' = [content EXCEPT ![new[1]] = Filled("image")]
  /\ op' = [op EXCEPT ![t] = User]
  /\ UNCHANGED <<status, rq, curr, pgd, kernel_sp, tab, tlb, free_blocks, lost,
                 refreed, calls>>

-----------------------------------------------------------------------------
(* mmap, with interrupts enabled. *)

(* Mutant of Overlap: only the start of the request is looked at. *)
OverlapStart(a, addr, len) == a.va <= addr /\ addr < a.va + a.size

Overlap(a, addr, len) == ~(a.va >= addr + len \/ a.va + a.size <= addr)

(* mmap's recursion: as long as a region of the list overlaps, the search  *)
(* goes on behind the first such region.  Every step gets behind another   *)
(* region, so Len(list) steps are enough.                                  *)
MmapAddr(list, addr, len) ==
  LET next(x) == LET hits == {i \in DOMAIN list : Overlap(list[i], x, len)}
                     i    == CHOOSE j \in hits : \A k \in hits : j <= k
                 IN  IF hits = {} THEN x ELSE list[i].va + list[i].size
      at[n \in 0 .. Len(list)] == IF n = 0 THEN addr ELSE next(at[n - 1])
  IN  at[Len(list)]

(* Mutant of mmap: the memory is not cleared. *)
mmapDirty(t, r) ==
  /\ Running(t) /\ calls < MaxCalls /\ FreeFor(t) # {} /\ Len(vma_list[t]) < MaxAreas
  /\ MmapAddr(vma_list[t], r[1], r[2]) + r[2] <= NPAGES
  /\ op' = [op EXCEPT ![t] = [pc |-> "mmap", at |-> 0,
                  new |-> <<Fresh(FreeFor(t), 1)>>,
                  ask |-> [hint |-> r[1], va |-> MmapAddr(vma_list[t], r[1], r[2]),
                           len |-> r[2], rwx |-> r[3]]]]
  /\ free_blocks' = free_blocks \ {Fresh(FreeFor(t), 1)} /\ calls' = calls + 1
  /\ UNCHANGED <<status, rq, curr, vma_list, pgd, kernel_sp, tab, content, tlb,
                 lost, refreed>>

(* The address is found and the memory allocated and cleared. *)
mmap(t, r) ==
  /\ Running(t) /\ calls < MaxCalls /\ FreeFor(t) # {} /\ Len(vma_list[t]) < MaxAreas
  /\ MmapAddr(vma_list[t], r[1], r[2]) + r[2] <= NPAGES
  /\ op' = [op EXCEPT ![t] = [pc |-> "mmap", at |-> 0,
                  new |-> <<Fresh(FreeFor(t), 1)>>,
                  ask |-> [hint |-> r[1], va |-> MmapAddr(vma_list[t], r[1], r[2]),
                           len |-> r[2], rwx |-> r[3]]]]
  /\ free_blocks' = free_blocks \ {Fresh(FreeFor(t), 1)} /\ calls' = calls + 1
  /\ content' = [content EXCEPT ![Fresh(FreeFor(t), 1)] = Filled("zero")]
  /\ UNCHANGED <<status, rq, curr, vma_list, pgd, kernel_sp, tab, tlb, lost, refreed>>

(* mmu_add_vma, and the return. *)
MmapAdd(t) ==
  /\ curr = t /\ op[t].pc = "mmap"
  /\ vma_list' = [vma_list EXCEPT ![t] =
       Append(@, Area(op[t].ask.va, op[t].ask.len, op[t].new[1], op[t].ask.rwx, TRUE))]
  /\ op' = [op EXCEPT ![t] = User]
  /\ UNCHANGED <<status, rq, curr, pgd, kernel_sp, tab, content, tlb, free_blocks,
                 lost, refreed, calls>>

-----------------------------------------------------------------------------
(* Death. *)

(* exit only marks the caller, which runs on until the next tick. *)
exit(t) ==
  /\ Running(t) /\ status[t] = "ACTIVE" /\ calls < MaxCalls
  /\ status' = [status EXCEPT ![t] = "ZOMBIE"] /\ calls' = calls + 1
  /\ UNCHANGED <<rq, curr, vma_list, pgd, kernel_sp, op, tab, content, tlb,
                 free_blocks, lost, refreed>>

kill(t, u) ==
  LET st == [status EXCEPT ![u] = "ZOMBIE"] IN
  /\ Running(t) /\ status[u] # "FREE" /\ calls < MaxCalls
  /\ KillInKernel \/ op[u].pc = "user"
  /\ status' = st /\ schedule(t, st) /\ calls' = calls + 1
  /\ UNCHANGED <<vma_list, pgd, kernel_sp, op, tab, content, free_blocks, lost, refreed>>

(* What kill_zombies frees for the zombie t. *)
Reaped(t) ==
  FreedTables(tab, pgd[t]) \cup AreaBlocks(vma_list[t]) \cup {kernel_sp[t], pgd[t]}

(* kill_zombies, called by idle, masked: all zombies on the queue. *)
kill_zombies ==
  LET dead == {t \in rq : status[t] = "ZOMBIE"}
      old  == UNION {Reaped(t) : t \in dead}
  IN  /\ curr = idle /\ dead # {}
      /\ kfree(old)
      /\ tab' = [b \in Blocks |-> IF b \in old THEN EmptyTable ELSE tab[b]]
      /\ rq' = rq \ dead
      /\ status' = [t \in Threads |-> IF t \in dead THEN "FREE" ELSE status[t]]
      /\ vma_list' = [t \in Threads |-> IF t \in dead THEN <<>> ELSE vma_list[t]]
      /\ pgd' = [t \in Threads |-> IF t \in dead THEN NoBlock ELSE pgd[t]]
      /\ kernel_sp' = [t \in Threads |-> IF t \in dead THEN NoBlock ELSE kernel_sp[t]]
      /\ op' = [t \in Threads |-> IF t \in dead THEN User ELSE op[t]]
      /\ UNCHANGED <<curr, tlb, lost, calls>>

VmNext ==
  \/ Tick \/ kill_zombies
  \/ \E t \in Threads :
       \/ \E p \in Touched, write \in BOOLEAN : Access(t, p, write) \/ Segfault(t, p, write)
       \/ \E p \in Touched, first \in BOOLEAN : Fault(t, p, first)
       \/ fork(t) \/ exec(t) \/ ExecDel(t) \/ ExecAlloc(t) \/ ExecTables(t) \/ ExecAreas(t)
       \/ \E r \in Requests : mmap(t, r)
       \/ MmapAdd(t) \/ exit(t)
       \/ \E u \in Threads : kill(t, u)

VmSpec == VmInit /\ [][VmNext]_vm_vars

-----------------------------------------------------------------------------
(* Properties. *)

Live == {t \in Threads : status[t] # "FREE"}

(* Who needs which block: a thread its kernel stack, its tables, the       *)
(* memory of its regions (those that exec has not yet freed) and the       *)
(* locals of the call it is in.  Tables that hang in two places are one.   *)
ClaimsOf(t) ==
       {<<kernel_sp[t], t, "kernel_sp", 0>>, <<pgd[t], t, "pgd", 0>>}
  \cup {<<b, t, "table", 0>> : b \in Tables(tab, pgd[t])}
  \cup {<<vma_list[t][i].pa, t, "area", i>> : i \in
         {j \in DOMAIN vma_list[t] : vma_list[t][j].is_alloced /\ j >= op[t].at}}
  \cup {<<op[t].new[i], t, "local", i>> : i \in DOMAIN op[t].new}

(* The threads that died with the CPU and have lost it.  schedule has not  *)
(* queued them (sched.c:103), so kill_zombies never meets them.            *)
Stranded == {t \in Live : status[t] = "ZOMBIE" /\ t # curr /\ t \notin rq}

(* The claims of the threads that run, or that will run or be reaped. *)
Claims == UNION {ClaimsOf(t) : t \in Live \ Stranded}

(* What nobody will free: the first image block of every exec              *)
(* (syscall.c:63), and all that a stranded thread had.                     *)
Leaked == lost \cup {c[1] : c \in UNION {ClaimsOf(t) : t \in Stranded}}

(* Every allocated block that has not leaked is claimed, and claimed once: *)
(* no memory has two users, nor one that is freed or leaked, and none is   *)
(* freed that is free already, neither by exec nor by the reaping of a     *)
(* thread that has forked, execed or mapped memory.  Nothing leaks but     *)
(* what exec forgets and what threads had that died while they had the CPU *)
(* (by exit, a memory fault or kill of themselves).                        *)
EveryBlockOwnedOnce ==
  LET used == Blocks \ (free_blocks \cup Leaked) IN
  /\ refreed = {}
  /\ Leaked \cap free_blocks = {}
  /\ {c[1] : c \in Claims} = used
  /\ Cardinality(Claims) = Cardinality(used)

(* A page that user code can reach, through the tables or the TLB, is the  *)
(* page of the region that contains it, with the region's rights: stale    *)
(* translations of an earlier program, thread or table are never used.     *)
TranslationExact ==
  /\ \A t \in Live : op[t].pc \in {"user", "mmap"} => \A p \in Pages :
       LET e == Walk(tab, pgd[t], p) IN
       e # NoEntry => \E i \in DOMAIN vma_list[t] :
         LET a == vma_list[t][i] IN
         Inside(a, p) /\ e = [to |-> a.pa, off |-> p - a.va, rwx |-> a.rwx]
  /\ \A p \in Pages : Cached(p) => curr # idle /\ tlb[p] = Walk(tab, pgd[curr], p)

(* mmap finds the lowest address from its hint on where the request fits   *)
(* between the regions, which therefore never overlap.                     *)
MmapFirstFit ==
  \A t \in Live :
    /\ \A i, j \in DOMAIN vma_list[t] : i # j =>
         ~Overlap(vma_list[t][i], vma_list[t][j].va, vma_list[t][j].size)
    /\ op[t].pc = "mmap" =>
         LET ask  == op[t].ask
             fits == {x \in ask.hint .. NPAGES : \A i \in DOMAIN vma_list[t] :
                        {p \in x .. x + ask.len - 1 : Inside(vma_list[t][i], p)} = {}}
         IN  ask.va \in fits /\ \A x \in fits : ask.va <= x

(* The memory of t that is its own, as the program sees it. *)
Space == [t \in Threads |->
  LET own == IF op[t].pc \in {"user", "mmap"}
             THEN {i \in DOMAIN vma_list[t] : vma_list[t][i].is_alloced} ELSE {}
  IN  UNION {{<<vma_list[t][i].va + o, content[vma_list[t][i].pa][o]>> :
                o \in 0 .. vma_list[t][i].size - 1} : i \in own}]

(* The pages of the image, and of all the memory of a program that starts. *)
ImagePages   == {p \in Pages : USER_KERNEL_BASE <= p /\ p < USER_KERNEL_BASE + DATASIZE}
InitialPages == {p \in Pages : \E i \in {1, 2, 5} : Inside(Areas(0, 0, 0)[i], p)}

AS == INSTANCE AddressSpace WITH
  space <- Space, Values <- {"junk", "zero", "image", "data"}, Zero <- "zero", Image <- "image",
  Scratch <- {USER_SIGNAL_STKSTART_VA}

(* The threads' memories are private: the tables, the TLB and the blocks   *)
(* behave like one array of pages per thread.                              *)
ImplementsAddressSpace == AS!Spec

=============================================================================
