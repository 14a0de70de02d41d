# A verification of the kernel: TLA+ models, model checking and proofs

This directory models the kernel in `kernel/` (a small operating system for the
Raspberry Pi 3) in TLA+, checks the models with TLC on small instances, and
proves theorems about nine components with TLAPS for every value of their constants.
`PROJECT.json` lists the components, the runs, the line of code behind every
definition, the hazards of the code and the findings.

## 1. The system

One core runs everything. Concurrency comes from two interrupts (the core timer
and the UART), from the preemptive switching of threads that the timer causes,
and from interrupts that arrive while the kernel is in the middle of an
operation. `disable_interrupt` / `enable_interrupt` (a nesting counter) are the
only lock.

| Part | State | Operations | What makes it correct |
|---|---|---|---|
| Page allocator (`memory.c`) | a descriptor per frame, a doubly linked free list per order | `memory_reserve`, `buddy_init`, `buddy_allocate`, `buddy_free` | no frame lost, shared, or handed out although reserved; buddies merged |
| Slab allocator, heap (`memory.c`) | a slab descriptor per frame, a list of pages per class | `kmalloc`, `malloc_s`, `malloc_b`, `kfree` | callers never share memory; no page leaks; wrong frees are refused |
| Boot heap (`memory.c`) | a bump pointer | `s_allocator` | blocks do not overlap |
| Threads, scheduler (`sched.c`, `ctxsw.S`) | thread table, run queue, `curr_thread` | `thread_create`, `thread_exec`, `schedule`, `kill_zombies`, `thread_exit`, `idle` | the queue is a list; no live thread is lost; everyone gets a turn; the dead are reaped |
| System calls (`syscall.c`) | the caller's trap frame | `fork`, `exec`, `exit`, `kill`, `signal_*`, `mmap`, files, console | the effect on the parts above is atomic where it must be |
| Signals (`signal.c`) | counts and handlers per thread, saved context | `check_signal`, `run_signal`, `sigreturn` | a signal is delivered once; handlers do not nest; what was interrupted is resumed |
| Exceptions (`entry.S`, `exception.c`) | trap frames, mask nesting | vectors, `sync_64_router`, `irq_router` | interrupts are neither lost nor left masked |
| Interrupt tasks (`irqtask.c`) | sorted task list, current priority | `irqtask_add`, `irqtask_run_preemptive` | every task runs once, higher priorities first |
| Timers (`timer.c`) | sorted event list, compare register | `add_timer`, `core_timer_handler` | no event early or lost; the scheduler's tick goes on |
| Console (`uart1.c`, `dev_uart.c`) | two ring buffers, interrupt enable register | `uart_async_getc/putc`, two handlers | bytes in order, once each; no byte stuck |
| Virtual memory (`mmu.c`, `boot.S`) | page tables, regions per thread, TLB | `mmu_add_vma`, fault handler, `mmap`, `fork`, `exec`, reaping | a page is mapped as its region says; every block has one owner; memories are private |
| File system (`vfs.c`, `tmpfs.c`, `initramfs.c`, `dev_*.c`) | vnodes, mounts, files | `vfs_open/close/read/write/mkdir/mount/lookup` | a path names the file that was created; mounts hide what is below |
| Shell, start-up (`shell.c`, `main.c`) | none | commands, `cli_exec` | parts are initialised before interrupts use them |
| Device tree, archive, mailbox, strings | none | parsing, formatting | pure input handling |
| Bootloader (`bootloader/`) | none | receive an image, jump to it | pure I/O |

How they interact: system calls and handlers call `kmalloc`/`kfree`, which mask
interrupts; the timer's handler runs timer events and then `schedule`; the
return to user mode delivers signals, which end in `schedule`; `idle` reaps dead
threads and frees their memory; console output of several threads and the two
UART handlers share the buffers and one device register.

What is hard here and what a test would hardly reach is listed, with its line,
under `hazards` in `PROJECT.json`: pointer surgery over long sequences of calls
(free lists, slab lists, run queue), boundaries (the last frames, the top order,
32-bit wrap), threads that die in every possible place, checks made before
interrupts are masked, registers updated by read-modify-write, searches with
interrupts masked, and a tick that lives on adding itself again.

## 2. Modules

Each module names, in its header and in `map`, the code it models. An action is
the whole of a stretch of code that nothing can interrupt.

### `PageAllocator`, `Buddy`, `BuddyProofs` (memory.c 74-347, 534-605)

`PageAllocator` is what callers rely on: the set `held` of blocks handed out,
pairwise disjoint, aligned, clear of the reserved frames. `Buddy` is the code:
`status`, `next`, `prev`, `allocated_order` are the descriptor fields,
`free_frame_lists` the heads, and `pc`, `block_index`, `order`, `request` the
locals of the one call in progress (callers mask interrupts). `InitBlock`,
`SplitBlock` and `MergeBuddy` are one loop iteration each, so the invariants
also speak of the middle of a call. Calls that fail or are refused change
nothing and are no step. `ReservedBy` is the rounding of `memory_reserve`.

### `KMem` (memory.c 51-63, 349-532, 607-785)

The heap, on the *abstract* page allocator. A call is one step, since `kmalloc`
and `kfree` mask interrupts throughout. `size2order` keeps the 32-bit wrap of its
sum (`UINT_RANGE`). `kfree` is given every address of memory, so double frees and
frees inside an object occur. `malloc_s` is called directly as well: it is an
exported function, and through `kmalloc` only a request of 0 bytes reaches it
(section 5). The ghost variable `live` is what callers hold.

### `ReadyQueue`, `Sched`, `SchedProofs` (sched.c, syscall.c 110-255, signal.c 10-50, 91-107, exception.c 147-160)

`ReadyQueue` has the run queue as a sequence; `Sched` has `RQ_head`, `RQ_tail` and
the `next`/`prev` links as `push_rq`, `pop_rq` and `kill_zombies` change them.
`schedule` is one step per thread it takes off the queue, so that an endless
search is a behaviour, and `kill_zombies` one step per thread it visits (`Visit`, with
`th_ptr` the thread it visits next); interrupts stay masked throughout both.
Abstractions and assumptions:

- the context switch is part of the last step of `schedule` (the window between
  unmasking and `switch_to`, sched.c:107, is planned, section 6);
- `IdleTick` says whether a timer interrupt may arrive while idle has the CPU
  outside its masked stretches. The passing run allows it for the safety
  properties; its liveness properties are about the behaviours that are
  `Undisturbed` (idle is not killed and no tick hits it, which `idle_hit`
  records), because with such a tick liveness fails (finding 1);
- `QueuedZombiesReaped` is about the dead threads that are on the run queue;
  those that die while they have the CPU never get there (finding 4);
- `EarlyFork` says whether a program may fork before its first tick, one second
  after it starts; the passing run assumes not (finding 10);
- a full thread table is left out: `thread_create` then returns NULL, which its
  callers dereference;
- signals are those below 64 with the default handler (`Signal` has the others);
  no timer interrupt happens before `thread_exec`.

### `Timer` (timer.c, shell.c 73-98, sched.c 248, 284-288, exception.c 136-143)

The event list as a sequence (the code's list is singly owned and sorted on
insertion), times relative to the counter. `add_timer` is two steps, reading the
counter and inserting with interrupts masked. `set_core_timer_interrupt` keeps
the signed 32-bit width of the register. The passing run stands for a counter
frequency at which the delay for an empty list is positive there, so that code
gets on between interrupts; finding 11 is about the boards where it is not. The
register's reset value is not defined, so it starts with either kind of value. `setTimeout` is the shell's
command; at this commit the shell's input loop is commented out and starts a
program at once, so the messages are the module's interface rather than today's
traffic, and the tick is what always runs.

### `Fifo`, `Uart` (uart1.c 8-14, 116-125, 160-236, syscall.c 20-45, dev_uart.c)

`Fifo` is a bounded queue. `Uart` is the two ring buffers, the threads inside
`uart_async_getc` and `uart_async_putc` (from `/dev/uart`, or from `uartread` and
`uartwrite` when SAFE_DEMO is 0) and the handlers. Test, store and the
read-modify-write of `AUX_MU_IER_REG` are separate steps. A handler is one step.
In the code the timer may interrupt it and suspend it with its thread;
`OneTaskPerPriority` of `IrqTask` shows that no second UART handler starts then,
but threads may run in between: such a switch inside a handler is not modelled.
What holds depends on how many threads use the console at once, since neither test
is repeated behind `disable_interrupt` and the register has no lock: the queues need
one writer and one reader (findings 5 and 6), progress of the output needs that no
other thread updates the register (finding 7), and one reader needs neither, because it
enables its interrupt again on every turn of its loop (`GetcReturns`).

### `IrqTask` (irqtask.c, exception.c 121-160, entry.S 137-142)

A task runs with interrupts enabled on the kernel stack of the thread that was
interrupted. `stack[t]` holds the interrupts that thread `t` is inside, each with
the place it has reached (`add`, `loop`, `task`, `ran`, `schedule`, `resume`), the task
it runs and its local `prev_task_priority`. `curr_task_priority` is global, so an
interrupt restores on one stack what other threads' interrupts have changed
meanwhile; whether that works is the question of the module. `irqtask_add`'s
`kmalloc` unmasks interrupts, hence `irq_router` and `AddTask` are two steps.
`EnableLine` is what `uart_async_getc` and `uart_async_putc` do to a line at any time,
also while a task of it waits or is suspended on another stack; the line then
interrupts again and a further task of it is queued. `MAX_TASKS` bounds how many
tasks wait when the UART interrupts. Which
thread `schedule` picks is left open (`Sched` decides it), as is what a UART handler
finds to do. `DieInTask` says whether a thread may be killed while it owes a task;
the run assumes not (section 5). With SAFE_DEMO the UART is not served from user
mode; the model serves it always, as the other build does.

### `PathTree`, `Vfs` (vfs.c, tmpfs.c, initramfs.c, syscall.c 110-126, 317-422, sched.c 144-153)

`PathTree` is what programs rely on: a map from paths to a kind, a file system and
a size, in which paths appear in writable directories, files grow, and only a
mount hides something. `Vfs` is the code: vnodes with entry arrays and mount
pointers, `struct file` allocations, the descriptor table of each thread.
`vfs_lookup` follows mounts as the code's loops do. Creating an entry is the scan
and later the insertion, a write is the copy and later the update of the size,
since file calls run with interrupts enabled; `open` stores a `struct file` in the
descriptor (`Attach`) and fills it later (`tmpfs_open`, for any file system), `close`
frees it and clears the descriptor later (`ClearFd`); `mount`, `fork` and reaping are
masked and one step each. `Preempt` says whether threads may be switched inside
these calls. They may, and then the sizes and the directories go wrong (finding 12
and section 5), so the run `vfs` checks the logic of the calls one at a time,
`VfsSizeRace.cfg` the race, and `VfsPreempt.cfg` what switches do not break, the
ownership of open files. `KillIn` names those of the two calls at whose end a thread
may be killed; with either of them ownership is lost too (findings 8 and 9).
`StaleSlots` says whether a fork may reuse a slot whose old descriptors it
does not overwrite; the passing run assumes not (section 5). Left out: missing
files opened without O_CREAT, relative paths, the three console descriptors, the
bytes.

### `PageTable`, `AddressSpace`, `Vm`, `VmInvariants` (mmu.c 36-226, syscall.c 48-309, sched.c, ctxsw.S 1-30)

`PageTable` has the tables as operators on a heap of blocks: the walk of the
hardware, `map_one_page`, and the tables that `mmu_free_page_tables` frees.
`AddressSpace` is what programs rely on: each thread has memory of its own; a
child starts with a copy, a program with its image, `mmap` adds zeros. `Vm` is the
code: `vma_list`, `context.pgd` and `kernel_sp` of each thread, the tables, the TLB,
the content of the blocks and the set `free_blocks` the heap may return
(`kmalloc` and `kfree` as `KMem` shows them to work). `Access` is the hardware,
`Fault` and `Segfault` are the two outcomes of `mmu_memfail_abort_handle`. `fork` and
`kill_zombies` are masked and one step. `exec` runs with interrupts enabled: each
region freed, the allocations, the page tables, the new regions are steps of their
own (`op[t]` holds the place and the locals), and `mmap` is two. Abstractions and
assumptions:

- addresses and sizes are in pages, and a page's content is one of image, data
  (written), zeros and junk (freed or never cleared);
- which thread `schedule` picks is open, as `Sched` decides it; blocks are given
  out lowest first from a part of memory per thread, since no property depends on
  which block `kmalloc` returns;
- `EndTouch` says whether programs touch the first byte behind a region, which the
  handler takes for the region (finding 13). The passing run assumes not, except for
  the signal wrapper, which lies behind the signal stack and whose first byte the
  kernel jumps to; that this works rests on the order of the regions, and is what
  `TranslationExact` checks and its mutant breaks;
- `KillInKernel` says whether a thread may be killed inside `exec` or `mmap`; the run
  assumes not (section 5);
- the structures `vm_area_struct` themselves are not counted as blocks;
- two things are never freed by the code. The block that `exec` allocates for the
  image and forgets (syscall.c:63) is recorded in `lost`; and a thread that died while
  it had the CPU is not on the queue that `kill_zombies` walks (finding 4), so once it
  has been switched out (`Stranded`) nobody frees what it had. `EveryBlockOwnedOnce`
  counts both as `Leaked`, and says that nothing else is: every other allocated block
  is claimed once, by a thread that runs, will run or will be reaped;
- `MaxSize` is the size of a block in pages, large enough for an image, a stack and
  every request.

### `Signal` (signal.c, syscall.c 94-315, entry.S, ctxsw.S 32-54, sched.c 166-214)

What a thread is resumed with. `stack[t]` is its kernel stack, as far as it
matters: trap frames (`save_all`) and frames of `check_signal`. A handler runs in user
mode on top of both, because `run_signal` leaves by an `eret`; `sigreturn` cuts the
stack back to the saved depth. Every turn of `check_signal`'s loop, `load_all`, `eret`,
and the parts of `signal_kill` and `fork` that run unmasked are steps of their own, and
the timer may interrupt user code, handlers and the kernel between any two. The
ghosts `owed` (signals sent to this owner of the slot) and `due` (what each exception
must be resumed with) are what the state is compared with. Abstractions and
assumptions:

- of a user context the model keeps which code runs, the program or a handler, and
  whether x0 is its own value, a child's pid or 0;
- turns of idle that find nothing to reap are left out while another thread is
  ready: they change nothing here;
- `exit` and page faults, which end a thread too, are in `Sched` and `Vm`;
- `InterruptReturn` lets an interrupt come between `load_all` and `eret` (finding 3);
  `InterruptKill` lets one come between `signal_kill`'s test and its count;
  `ForkInHandler` and `ExecInHandler` let handlers fork and exec; the passing run
  assumes none of them and sends signals below SIGNAL_MAX only (section 5).

## 3. Runs

| Run | Instance | Shows |
|---|---|---|
| `buddy` | 9 frames of 2 bytes, orders 0-2, two reservations inside frames | conservation, dead corruption branches, exact lists, failing only when full (so buddies are merged), refinement |
| `kmem` | 4 frames of 4 bytes, classes 1 and 2, sizes 0, 2, 5, 14 of a 16-valued integer | disjointness, no use after free (wrong frees included), no leak, exact slab lists |
| `sched` | idle and three threads, all pids and one outside the table, ticks at any time | a well-formed queue, no thread lost, no reaped one left, first-in first-out; undisturbed: somebody for `schedule` to find, turns for everyone, reaping |
| `irqtask` | two threads, three interrupt lines enabled at any time, two interrupts on a stack, the UART does not interrupt while a task waits | one task per priority, a consistent priority, no line forgotten, urgent tasks first, every queued task runs |
| `timer` | three messages, delays 0, 1 and 3, a tick | the register is that of the first event; none early; all fire; the tick goes on for ever |
| `uart` | buffers of 3 slots, one thread that reads and writes, 2 bytes | the rings are queues; output is not stuck; every read returns |
| `vfs` | two threads, one descriptor each besides the console's, directories of 3 entries, paths a, b, a/f, a/prog, 3 new vnodes, one file call at a time | exact directories, positions inside files, one owner per open file, the tree of paths |
| `vm` | two threads, 3 levels of tables with 3 entries, 28 blocks, 10 pages, two mmap requests, 4 calls | one owner per block but for the leaks that are known, no double free, no stale or wrong translation, first fit, private memories |
| `signal` | two threads, signals 0 (registered or not) and 1 of 0-2, 4 calls | no signal lost or inherited, no nesting, the right code resumed, every pending signal taken |
| `sched_spin` | ticks that hit idle | finding 1 |
| `fork_child` | `signal`'s instance | finding 2 |
| `trap_return` | `signal`'s instance with `InterruptReturn` | finding 3 |

Three more configurations check what the runs leave out, and pass:

| Configuration | Instance | Shows |
|---|---|---|
| `IrqTaskQueue.cfg` (`MCIrqTask`) | `irqtask`'s, with three waiting tasks | `irqtask`'s properties but `TasksRun`, with a second task of a line queued behind the first |
| `UartPair.cfg` (`MCUart`) | one reader and one writer, 1 byte | every read returns, whatever the writer does to the register (`GetcReturns`) |
| `VfsPreempt.cfg` (`MCVfs`) | `vfs`'s, with threads switched and killed inside calls, 2 new vnodes | one owner per open file (`OneOwner`) |

Ten reproduce what section 5 reports from finding 4 on. Each has one property, which TLC
finds violated:

| Configuration | Module | Property | Finding |
|---|---|---|---|
| `SchedUnreaped.cfg` | `MCSched` | `DeadThreadsReaped` | 4 |
| `UartTwoWriters.cfg` | `MCUart` | `TransmitIsFifo` | 5 |
| `UartTwoReaders.cfg` | `MCUart` | `ReceiveIsFifo` | 6 |
| `UartLostUpdate.cfg` | `MCUart` | `TransmitGoesOn` | 7 |
| `VfsKillClose.cfg` | `MCVfs` | `OneOwner` | 8 |
| `VfsKillOpen.cfg` | `MCVfs` | `OneOwner` | 9 |
| `SchedEarlyFork.cfg` | `MCSched` | `NoThreadLost` | 10 |
| `TimerEmpty.cfg` | `MCTimer` | `NoEventNoInterrupt` | 11 |
| `VfsSizeRace.cfg` | `MCVfs` | `ReadStaysInside` | 12 |
| `VmRegionEnd.cfg` | `MCVm` | `TranslationExact` | 13 |

Why the bounds are enough. Nine frames with orders up to 2 and two reserved
frames give a cut-off block at the end, blocks of all orders, lists of three
blocks (head, middle, tail), and merges that cascade over two orders; the proofs
cover all other sizes. Four frames give a slab class two full pages and one with
room. Three threads besides idle give a queue with a head, a middle and a tail,
deaths of any subset of them, and slot reuse. Three slots make the rings wrap, be
full and be empty. Two threads with stacks of two interrupts give a task that is
preempted, suspended and overtaken by another thread's interrupts; a third level
adds only the second UART line below the timer. The run `irqtask`, whose graph has to be
small enough for liveness, lets a UART line interrupt only while no task waits: the
timer's task then waits with it, and a line is still enabled while its first task is
suspended, and its second waits. In `IrqTaskQueue.cfg` three tasks wait: one of each UART
line and a second of one of them, behind another that is in progress; the proofs have no
such limit. Three new vnodes are enough for a
directory, a file in it and a mount, or for two mounts on one directory, and the
root directory, which starts with two of its three entries used, gets full. In
`Timer`, overdue times are told apart up to `LATENCY`: the code never subtracts
times, it only compares events with each other. Three levels of tables have a
level in the middle, where the recursion of `mmu_free_page_tables` has to go on,
and ten pages reach two tables of the last level; four calls are a fork, an mmap
in each thread and an exec, or an exec of parent and child with two deaths, and
slots and blocks are used again. Four calls of `Signal` are a registration, a fork
and two signals, or signals to a slot whose owner dies before a second fork; a
handler is then interrupted, sent a signal and makes calls itself. Kernel stacks
stay within three frames, which is `OneHandlerAtATime` and not a bound.

Fairness. `Sched`: the CPU executes
what comes next (the loops of `schedule` and `kill_zombies`, idle's two calls), the tick recurs (shown by
`TicksForever` of `Timer`), and a thread that gets the CPU again and again gets through its
exception return; user programs are under no obligation to do anything. `Timer`:
the counter advances, a due interrupt is taken, and the interrupted `add_timer`
goes on between interrupts, which are a period apart. `Uart`: the transmitter
becomes ready after every byte, so its handler runs again and again as long as
its interrupt is enabled (strong fairness, other handlers come in between), so does the
receiver's, to which bytes keep coming (`GetcReturns` needs that), and a
thread inside a call gets its turns. `IrqTask`: interrupts are apart in time, so
the code at every depth of a stack goes on again and again (strong fairness per
thread and depth); every live thread is scheduled (`EveryThreadRuns` of `Sched`) and
the timer keeps interrupting. `Signal`: the timer goes on, every thread that is
ready gets the CPU again and again (`EveryThreadRuns` of `Sched`) and, having it, goes
on in the kernel; handlers return, which is an assumption about programs, without
which `check_signal` never gets to a second signal. `MaxCalls` also bounds the signals
that are sent: a stream of one signal without end keeps the loop from the higher
ones. `Buddy`, `KMem`, `Vfs` and `Vm` have no liveness: their calls are loops over orders,
arrays and lists.

Every property has a mutant, a plausible slip in one mapped definition, under
which TLC finds it violated.

## 4. Proofs

Each theorem holds for every value of the constants that satisfies the component's
`ASSUME` and the hypotheses named here. The proofs of a component are in its own
module (`DeviceProofs` and `MemoryProofs` hold two each); `ListLemmas` has what they share: the elements of a sequence after an
insertion and a removal; the smallest element of a set of numbers, which is how an
argument by induction is made without an induction theorem; and chains of links: a
function can be applied over and over (`Iterated`), a chain along which a number
falls is no longer than there are places (`ChainEnds`), going back from a member of a
list leads to its head (`HeadFound`), and a walk from the head meets exactly the
members (`WalkMeetsAll`).

### `BuddyProofs`

For every number of frames, top order, frame size and set of reservations
(`SizeAssumption`, `BlockSizeAssumption`: block sizes double from 1,
`ReservationsAssumption`: byte ranges of natural numbers):

- `TypeCorrect`: no index leaves the arrays, no order leaves 0..MAX_ORDER;
- `Conservation`: `FramesConserved`, also in the middle of every call;
- `ListsNeverCorrupted`: the two "Corrupted list structure" branches are dead;
- `Refinement`: `Buddy` implements `PageAllocator`, on which `KMem` is built;
- `ListsExact` (`FreeListsExact`): no free block is lost from its list, and nothing else
  is on one;
- `FailsOnlyWhenItMust` (`FailsOnlyWhenFull`): while a run of the size asked for is free,
  `buddy_allocate` finds a block.

The argument. `FramesConserved` is not inductive: it says nothing about
alignment or pointers. `IndInv` adds: a block of order k starts at a multiple of
`BlockSize[k]`; the frames behind its first frame carry the mark
`BELONGED_FRAME`, and every such mark has its block; list neighbours point at
each other and have the list's order; and where `buddy_init` has got to. Two
arithmetic lemmas carry the rest: the exclusive or with `1 << k` of an aligned
index is the index plus or minus the block size (`BuddyOfAligned`), and the
halves of an aligned block are aligned (`SplitAligned`). Disjointness of blocks
follows from the marks (`BlocksDisjoint`), not from comparing blocks pairwise.
`LinkFrontKeepsLists` and `UnlinkKeepsLists` are the pointer lemmas; each action
has its own lemma above them, which also says what the step does to the free blocks:
it puts one in front of a list, takes one off, or keeps them (`Pushed`, `Taken`, `Kept`).

Two more invariants are proved on top of that. `RankInv`: a number falls along `next`.
Neighbours that point at each other may still form a ring beside the list; with the
number, `WalkMeetsAll` gives `ListsExact`. `Merged`: no two free blocks are the halves
of a block. When `buddy_free` returns, this is its loop's exit condition; when
`buddy_allocate` splits, the other half is the block in hand; for `buddy_init` it has to
be known that every run it has passed, at this order or a larger one, has a reserved
frame or a frame of a block at least as large (`InitMerged`), so a second half would
have been found as part of the whole. For `FailsOnlyWhenItMust`, take the smallest free
block in the run: its buddy lies in the run too, and the free block that covers the buddy
is no smaller. If it has the same size it is the buddy, against `Merged`; if it is larger
it covers both, for of two aligned runs that meet the larger holds the smaller
(`Nested`), and blocks do not overlap. `FailsOnlyWhenFull` speaks of the time between
calls; TLC checked `Merged` and `InitMerged` on the instance of `Buddy.cfg` first.

### `MemoryProofs`: the heap

For every number of frames, every slab table whose classes fit into a frame and whose
first class has a size, and every set of request sizes (`KMemAssumption`):

- `CallersApart` (`LiveDisjoint`), `MemoryHeld` (`NoUseAfterFree`), `NothingLeaked`
  (`NoPageLeaked`): whatever is allocated and freed, also at addresses that were never
  handed out, callers share nothing, use only memory that is held, and leak nothing;
- `ListsExact` (`SlabListsExact`): the "Corrupted list structure" branch of `slab_free`
  is dead.

As in the properties, a request so large that `size2order` wraps has its address to
itself but not its bytes. The argument has two halves. `MemoryInv`: every allocation is
a slot in use of a page of a class large enough, or the start of a block of the order
asked for (`LiveInv`); every slot in use and every block that is no slab page has its
allocation (`UseInv`); held blocks do not overlap. Division carries it: an address
determines its frame and slot, and an address that `slab_free` accepts is that of its
slot (`AcceptedSlot`); the class that is chosen never is the one of size 0
(`ClassChosen`). `ListInv`: neighbours point at each other, only the head has no
predecessor, and a number falls along each list (`RankInv`). The number is needed
because the walks are bounded recursive functions: it shows that they end
(`RoomFound`), and that the walk from the head meets every page (`PagesExact`).

### `MemoryProofs`: virtual memory

For every number of threads, every shape of the page tables and amount of memory, and
wherever threads are switched. The assumptions on the constants of `Vm`: the regions of a
program lie as in mmu.h 31-36, apart, with the wrapper directly behind the signal stack
(`LayoutAssumption`); the tables reach every page, and requests ask for at least one page
(`VmAssumption`); there is memory for the first program (`RoomAssumption`).

- `GapsAreFound` (`MmapFirstFit`), with no hypothesis;
- `BlocksAreOwnedOnce` (`EveryBlockOwnedOnce`), if no thread is killed inside `exec` or
  `mmap` (`~KillInKernel`);
- `TranslationsAreExact` (`TranslationExact`), if moreover no program touches the first
  byte behind a region (`~EndTouch`; section 5 says what goes wrong otherwise);
- `MemoriesArePrivate` (`ImplementsAddressSpace`) under the same hypotheses: the memory
  code implements `AddressSpace`.

Four invariants, written down in `VmInvariants`, each resting on the one before. `VmInv`: what a thread's regions are and
that they lie apart; between calls, and in `mmap`, the list holds the five regions of a
program (`Laid`), without which a fork's copy of the list, or the fault handler's choice of
a region for the wrapper's page, could be anything. `mmap`'s search is a walk that gets
behind one more region with every step, so as many steps as there are regions are enough;
and since the regions it skips cover everything it passes (`NextAddr`), what it finds is
the first gap.

`EveryBlockOwnedOnce` counts claims, of the threads that run, will run or will be
reaped and of what is leaked, and is far from inductive. `OwnInv` says instead that
there is an assignment of one role to every block: free, forgotten, kernel stack, table of
thread t at level l, memory of region i, local of the call t is in (`Owned`). Each
action then moves a few blocks from role to role (`ExecDelOwns`, `ForkOwns`, `ReapOwns`
and so on), and `ClaimsCounted` turns one role per block into one claim per block, the
roles of stranded threads into leaks. For the
page tables the roles make a tree (`Tree`): an entry above the last level leads to a table
of the same thread, one level down, and no table hangs in two entries. That is what makes
the level-by-level freeing of `mmu_free_page_tables` reach every table of the thread once
and none of another (`TablesGone`), and what keeps a new entry from changing any walk but
that of its page (`OwnEntry`): two walks that meet in a table have the same top table and
the same digits, so the same page (`Span`, `IndexIs`). `CallInv` says what the
locals of calls need: a zombie on the queue is not inside a call, so reaping forgets no
local. This is where a kill inside `exec` would break the proof.

`ExactInv` is `TranslationExact` and that the cache agrees with the tables of the running
thread. A fault maps what its region says because the handler finds the region that
contains the page; the first-byte match in front of the wrapper is harmless because of the
order of the regions in the list. All other steps leave the walks of all threads but the
one they are about (`ExecTablesOwns`, `ForkOwns`, `ReapOwns` say so next to the roles), and
every switch empties the cache.

`MemoriesArePrivate` maps the memory of a thread to the content of its regions (`MemOf`),
and to nothing inside `exec`. That no two regions have a block in common is in `OwnInv`,
so a store or a copy into one leaves the memory of every other thread; that the page of
an access is the page of its region is `TranslationExact`. What is left is `SpaceInv`:
regions fit into their blocks, and the block that `mmap` has cleared still holds zeros
when it is added, whatever other threads do in between.

### `IrqTaskProofs`

For every set of threads and every depth of nesting (TLC: two threads, two deep):

- `OnePerPriority` (`OneTaskPerPriority`), `PriorityExact` (`PriorityOfRunning`) and
  `MoreUrgentFirst` (`UrgentFirst`, an action property), with no hypothesis;
- `InterruptsServed` (`NoInterruptLost`), if no thread dies inside a task
  (`~DieInTask`; section 5 has what happens otherwise).

None of them limits when a UART line is enabled: several tasks of one line may wait,
and one more may be in progress.

The argument. Why does one global priority work although every interrupt saves and
restores it on a stack of its own and threads are switched in between? Because of the
timer's line. A timer interrupt masks it and enables it again only when it leaves the
loop (`TimerInv`), so while one is on its way no other starts and no thread is
switched; its task is queued or runs for exactly that interrupt (`WaitInv`). Hence at
most a UART task and, above it or in another thread, the timer's are unfinished, and
each has saved what the global has to be without it (`PriorityInv`). The list is
sorted (`SortedInv`), so looking at its first task is enough. `NoInterruptLost` needs
three facts more: while tasks wait and none runs, the running thread is in a loop with
nothing above it but interrupts that have yet to add their task (`LoopInv`); where the
interrupt of a masked UART line has got to (`UartInv`); the dead owe nothing
(`DeadInv`).

### `SignalProofs`

For every number of threads, signals and calls:

- `HandlersDoNotNest` (`OneHandlerAtATime`), if handlers neither fork nor exec;
- `InterruptedCodeResumed` (`ResumesInterruptedCode`), if moreover no interrupt comes
  between `load_all` and `eret` (finding 3 shows that this is needed);
- `NoSignalLost` (`SignalsConserved`), if no interrupt comes between `signal_kill`'s
  test and its count and signal 64 is not used (section 5 has both).

The argument. A live thread's kernel stack has one of four shapes (`AtRest`, `InTrap`,
`InCheck`, `InHandlerTrap`), and its place in the kernel, the code it runs, the flag
`signal_is_checking` and the saved depth say which (`Shapes`); the longest is a trap, a
check in it, and a trap out of the handler. Each step takes one shape to another. For
the counts, `KillInv` says that a `signal_kill` in progress has its target checked and
keeps the CPU. The attempt to prove this found a slip of the model: `kill`'s call of
`schedule` looked at the threads' states from before the kill, so that the thread just
killed could be picked. `schedule` now takes the states as it finds them.

### `DeviceProofs`

`Uart`, for every buffer of two slots or more and every set of bytes: `TransmitRefines`
(one writer) and `ReceiveRefines` (one reader): the rings implement `Fifo`. With two
writers the first is false (finding 5), with two readers the second (finding 6). What has to be shown is that the test for room,
made with interrupts enabled, still holds at the store: only the handler runs in
between, and it makes room (`WritersInv`, `ReadersInv`). `Contents` says without
remainders what a buffer holds; from it follow `StoreAppends` and `TakeTails`.

`Timer`, for every set of messages and delays: `RegisterExact` (`RegisterIsFirstEvent`)
and `NothingEarly` (`NeverEarly`, an action property). `TimerInv`: the list is sorted, the
register holds the first event's time, and the handler runs only after that time.

### `SchedProofs`

For every number of threads and every set of pids that programs kill, if no program
forks before its first timer interrupt (`~EarlyFork`; with such a fork `NoThreadLost`
fails, finding 10), and with ticks wherever they fall:

- `QueueStaysWellFormed` (`QueueWellFormed`) and `NoThreadIsLost` (`NoThreadLost`);
- `ThereIsSomeoneToRun` (`SomeoneToRun`): as long as idle lives and no tick hits it,
  `schedule` never searches a queue of dead threads only, the case of finding 1;
- `SchedImplementsReadyQueue` (`ImplementsReadyQueue`): the links behave as the sequence
  of `ReadyQueue`.

The argument. Two things in the code are not clean, and the invariant has to say how
far they go. `thread_exec` makes a thread current and queues it at once, so the first
`schedule` queues a thread that is already queued; and `push_rq` of the thread that is
the last one makes its back link point to itself. The inductive invariant `Inv` says:
the forward links spell some sequence `s` in which no thread occurs twice (`Spells`);
the back links are those of `s`, but for the last one, which may be wrong while `s`
has at most two threads, until the next `pop_rq` (`BackLinks`), and `kill_zombies` never
meets it; a running thread is queued only in the two cases above or while `schedule`
looks for another (`Running`); who is alive is in `s` or runs (`Lives`); idle's place
(`IdleAt`). Each operation on the links has a lemma with the sequence it leaves:
`PushNew`, `PushLast`, `PopFirst`, `UnlinkAt`. `QueueIs` shows that the bounded walk
`Queue` reads off `s`, which turns these lemmas into the refinement. For
`SomeoneToRun`, `Ahead` adds that a dead thread in the queue is still ahead of `th_ptr`
while `kill_zombies` runs, so that none is left when idle calls `schedule`. TLC checked
`InvAt` and `Ahead`, and that they are inductive, first.

### `VfsProofs`

For every number of threads and descriptors, every size of directories, every set of
non-empty paths and every archive without a name twice (`VfsAssumption`), if a fork
overwrites what a dead thread left in the slot (`~StaleSlots`; without it `OneOwner`
fails, section 5):

- `EachFileOwnedOnce` (`OneOwner`), also when threads are switched and killed inside file
  calls, as long as no kill hits the end of an `open` or of a `close` (`KillIn = {}`; with
  such a kill it fails, findings 8 and 9);
- `PositionsStayInside` (`ReadStaysInside`) and `DirectoriesStayExact`
  (`DirectoriesExact`), if they are not switched (`~Preempt`; with switches both fail,
  finding 12 and section 5).

The argument. First that every lookup ends: a file system is always younger than the
directory it is mounted on (`Tables`), so each turn of `vfs_lookup`'s loop over mounts
goes up, and the loop ends on a vnode on which nothing is mounted (`FollowEnds`,
`LookupEnds`). That is also why a mount on a directory that already has one does not
cut the first one off. `FdInv` is the ownership in three parts (`NoneFreed`, `NoneShared`,
`NoneLost`), that the descriptor `open` found free is still free when the new file
exists (`RoomLeft`), and that the struct files that are not filled are those the calls of
`open` are about to fill (`Filled`). A descriptor counts unless its thread is between the
two statements of `close` (`Has`), where the struct file may already be somebody else's.
For the positions, `Writers`: a position is behind the end exactly
during a write that has found the size too small, through a descriptor of the thread
that writes. For the directories, `Exact` says of a sequence of vnodes what
`DirectoriesExact` counts, and that every vnode but the first is an entry or a mount;
`ExactInserted`, `ExactMounted` and `ExactSized` show that each operation keeps it if
what the scan found still holds at the insertion, and `Pending`, with `OneBusy`, that it
does. `RootExact` carries it through `init_rootfs`. TLC checked these invariants on the
instance of `Vfs.cfg` first.

### What the proofs changed in the models

`kill_zombies` was one step with a fold over the queue; it is now the loop of the code.
`ReadyQueue` reaps one thread at a time and speaks of `RemoveFirst`. Besides the slip in
`Signal`, the insertions of `irqtask_add` and `add_timer` and the
removal in `timer_event_callback` were filters and counts, about which the provers know
nothing; they are now the walk to the first place that fits, which is also closer to
the code. In `Vfs`, `kmalloc` returned the first free `struct file`; it may now return
any. In `Vm`, `Copied` is the loop of `fork` instead of a filter, the span of a
table entry a recursive function instead of a power, about which the provers know nothing,
and the assumptions on the layout are stated. `Timer` and `Vm` have names of their own for their initial states and steps, so that one module can speak of `Timer` and `Uart`, and
one of `KMem` and `Vm`.

### Only model-checked

- Liveness (the temporal properties of `Sched`, `Timer`, `Uart`, `IrqTask`, `Signal`):
  fairness and ENABLED are out of the prover's reach.
- `ImplementsPathTree` of `Vfs`: each path would need its lookup compared before and
  after every insertion and mount, at every depth;
- `ResultsDelivered` of `Signal`, which is violated (finding 2).

## 5. Findings

With a run each:

1. `schedule` can search a queue that holds only zombies for ever, with interrupts
   masked, after a tick that hits idle (sched.c:89, `sched_spin`).
2. The child of a `fork` stores its 0 through the parent's trap frame pointer: it
   returns with its old x0, and the parent, if it is inside an exception again, may
   be resumed with 0 (syscall.c:186, `fork_child`).
3. An interrupt between `load_all` and its `eret` overwrites `elr_el1` and `spsr_el1`;
   interrupts are unmasked there since `check_signal` (entry.S:55, `trap_return`). The
   return of an interrupt in the kernel does not have this window: `irq_router` ends with
   `el1_interrupt_disable` (exception.c:144).

With a configuration each (section 3):

4. A thread that dies while it has the CPU (`exit`, a fault outside its regions, `kill` of
   itself) is not pushed by `schedule`, and `kill_zombies` looks at the run queue only: its
   slot, image, stacks, tables and open files are never freed, and after enough exits no
   thread can be created (sched.c:103, `SchedUnreaped.cfg`), although sched.c:122 speaks
   of finding zombies.
5. Two writers that both see the last free slot overrun the transmit buffer, the
   indices become equal and its content is dropped (uart1.c:178, `UartTwoWriters.cfg`).
6. Two readers that both see the last byte take two: the read index overtakes the write
   index, and bytes are delivered that did not come in (uart1.c:165,
   `UartTwoReaders.cfg`).
7. A read-modify-write of the interrupt enable register can undo another thread's
   update, and output then stays in the buffer (uart1.c:183, `UartLostUpdate.cfg`).
8. A thread killed between `vfs_close` and the clearing of its descriptor has the
   `struct file` freed twice (syscall.c:350, `VfsKillClose.cfg`).
9. A thread killed between `kmalloc` and `tmpfs_open` in `vfs_open` is reaped with a
   `struct file` of indeterminate content, through which `kill_zombies` calls `close`
   (vfs.c:74, `VfsKillOpen.cfg`).
10. A child forked before the first tick is cut off the run queue (sched.c:240,
   `SchedEarlyFork.cfg`).
11. The delay for an empty timer list, 10000 s, is negative in the signed 32-bit
   register at 19.2 MHz and at 62.5 MHz, so the interrupt recurs at once
   (timer.c:154, `TimerEmpty.cfg`); timer.c:74 and 82 mean to disable it.
12. A switch between the test and the store of the size in `tmpfs_write` makes a
   file shorter than a position in it; the next read's length wraps (tmpfs.c:51,
   `VfsSizeRace.cfg`).
13. The fault handler takes the first byte behind a region for part of it and maps
   the page behind its memory, which is somebody else's (mmu.c:171,
   `VmRegionEnd.cfg`), where mmu.c:181 says of what is not found "area is not part of
   process's address space".

Met on the way, with the constant of the module that shows it:

- `exec` in a handler leaves the old frames on the kernel stack and
  `signal_is_checking` set, so the new program gets no signals and its frames are not
  the ones due (`ResumesInterruptedCode` with `ExecInHandler`).
- `fork` in a handler gives the child a stack inside a handler with
  `signal_is_checking` 0 and no saved context of its own (`OneHandlerAtATime` with
  `ForkInHandler`).
- `thread_create` does not reset the count of signal 64 (sched.c:206;
  `SignalsConserved` with SIGNAL_MAX in `Signals`), and `signal_kill` may count a signal
  for the next owner of the slot (syscall.c:242; `SignalsConserved` with `InterruptKill`,
  three threads and five calls).
- A thread killed inside `exec`'s `mmu_del_all_vma` is reaped with the freed regions
  still on its list, which are freed again; one killed between `mmap`'s `kmalloc` and
  `mmu_add_vma` leaves the memory behind (mmu.c:102; `EveryBlockOwnedOnce` with
  `KillInKernel`).
- `exec` allocates the image twice and forgets the first block (syscall.c:63).
- `kmalloc` uses the slab classes for no request of 1 byte or more: `slab_sizes` has
  one initialiser fewer than `SLAB_TYPE` (memory.c:755).
- A thread killed inside an interrupt task leaves `curr_task_priority` at the
  UART's level, and no UART task starts again (irqtask.c:85; `NoInterruptLost` with
  `DieInTask`).
- Two creates in one directory can take the same entry (tmpfs.c:158;
  `DirectoriesExact` with `Preempt` and nine vnodes).
- Reaping leaves a dead thread's descriptors in its slot, and a later fork into
  the slot keeps those its parent does not have (sched.c:147; `OneOwner` with
  `StaleSlots`).
- A second mount on a directory stacks on the first (vfs.c:147), where README.md of
  the repository speaks of tracking to avoid duplicate mounts; lookups follow the
  whole stack.
- A create that fails is not noticed, and the directory is opened (vfs.c:71).

## 6. Plan

1. The window between `curr_thread = ...` and `switch_to` (sched.c:107) and a tick
   before `thread_exec` (main.c:53); SAFE_DEMO's user-mode interrupts
   (exception.c:148); a handler suspended inside `Uart`.
2. `Vfs` with `chdir`.
3. Pure operators against reference definitions: `s_allocator` (memory.c:39) and
   `get_absolute_path` (vfs.c:281).

Not modelled, and not planned: the polled UART functions, formatted printing,
string helpers, device tree and archive parsing, the mailbox, the framebuffer and
the bootloader are sequential input and output without state that outlives a call;
the tables that `boot.S` and `set_2M_kernel_mmu` write once are not changed later;
`lseek64` and `ioctl` have no number in `sync_64_router`; of the registers that
`ctxsw.S` and `entry.S` move, only those that decide where a thread goes on and with
which result are told apart.
