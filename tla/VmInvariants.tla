---------------------------- MODULE VmInvariants ----------------------------
(***************************************************************************)
(* The inductive invariant of Vm, in parts: what a thread's list of        *)
(* regions is like (VmInv), what every block of memory is for (OwnInv),    *)
(* what the tables and the TLB say (ExactInv), and what the memory of the  *)
(* regions holds (SpaceInv).  MemoryProofs proves that they hold.          *)
(***************************************************************************)
EXTENDS Vm

-----------------------------------------------------------------------------
(* Regions, and calls that are under way. *)

Regions ==
  [va : Nat, size : Nat \ {0}, pa : 0 .. NBLOCKS + 2, rwx : SUBSET RWX, is_alloced : BOOLEAN]

Asks == [hint : Nat, va : Nat, len : Nat \ {0}, rwx : SUBSET RWX]

(* What a thread is doing, and its locals. *)
Ops ==
  {User}
    \cup [pc : {"del"}, at : Nat \ {0}, new : {<<>>}, ask : {<<>>}]
    \cup [pc : {"tables", "areas"}, at : {0}, new : [1 .. 3 -> Blocks], ask : {<<>>}]
    \cup [pc : {"mmap"}, at : {0}, new : [1 .. 1 -> Blocks], ask : Asks]

VmTypeOK ==
  /\ status \in [Threads -> {"FREE", "ACTIVE", "ZOMBIE"}]
  /\ rq \in SUBSET Threads /\ curr \in Threads \cup {idle}
  /\ vma_list \in [Threads -> Seq(Regions)]
  /\ pgd \in [Threads -> 0 .. NBLOCKS] /\ kernel_sp \in [Threads -> 0 .. NBLOCKS]
  /\ op \in [Threads -> Ops]

(* Free slots are not on the CPU or the queue, and own no regions. *)
ThreadInv ==
  /\ curr # idle => status[curr] # "FREE" /\ curr \notin rq
  /\ \A t \in rq : status[t] # "FREE"
  /\ \A t \in Threads : status[t] = "FREE" => op[t] = User /\ vma_list[t] = <<>>

(* Regions that share no page. *)
Clear(a, b) == a.va + a.size <= b.va \/ b.va + b.size <= a.va
Apart(list) == \A i, j \in DOMAIN list : i # j => Clear(list[i], list[j])

LiesAt(a, va, size) == a.va = va /\ a.size = size

(* A list has the regions of Areas, the wrapper's before the signal        *)
(* stack's.                                                                *)
Laid(list) ==
  \E i, s, p, w, g \in DOMAIN list :
    /\ LiesAt(list[i], USER_KERNEL_BASE, DATASIZE)
    /\ LiesAt(list[s], USER_STACK_BASE - USTACK_SIZE, USTACK_SIZE)
    /\ LiesAt(list[p], PERIPHERAL_START, PERIPHERAL_END - PERIPHERAL_START)
    /\ LiesAt(list[w], USER_SIGNAL_WRAPPER_VA, WRAPPER_SIZE)
    /\ LiesAt(list[g], USER_SIGNAL_STKSTART_VA, 1)
    /\ w < g

(* va is the lowest address from hint on where len pages are in no region. *)
FirstGap(list, hint, len, va) ==
  /\ va \in Nat /\ hint <= va
  /\ \A i \in DOMAIN list : ~Overlap(list[i], va, len)
  /\ \A x \in hint .. va - 1 : \E i \in DOMAIN list : Overlap(list[i], x, len)

RegionsOK(st, o, list) ==
  /\ Apart(list)
  /\ o.pc \in {"tables", "areas"} => list = <<>>
  /\ st # "FREE" /\ o.pc \notin {"tables", "areas"} => Laid(list)
  /\ o.pc = "mmap" => o.ask.va <= NPAGES /\ FirstGap(list, o.ask.hint, o.ask.len, o.ask.va)

RegionInv == \A t \in Threads : RegionsOK(status[t], op[t], vma_list[t])

VmInv == VmTypeOK /\ ThreadInv /\ RegionInv

-----------------------------------------------------------------------------
(* Trees of tables.  What every block is for: a thread's kernel stack, a   *)
(* table of its (at: the level), the memory of one of its regions (at: its *)
(* place in the list), a local of its call.                                *)

Roles ==
  [kind : {"free", "lost", "kernel_sp", "table", "area", "local"}, of : Nat, at : Nat]

Role(kind, of, at) == [kind |-> kind, of |-> of, at |-> at]

TableTypes == [0 .. FAN - 1 -> Entry]

(* A table whose entries are tables. *)
Upper(role, b) == role[b].kind = "table" /\ role[b].at < LEVELS - 1

(* Tables hang in one place each, and one level below another of the same  *)
(* thread.                                                                 *)
TreeTyped(tb, role) ==
  /\ tb \in [Blocks -> TableTypes] /\ role \in [Blocks -> Roles]
  /\ \A b \in Blocks : role[b].kind = "table" => role[b].at <= LEVELS - 1

Children(tb, role) ==
  \A b \in Blocks, i \in 0 .. FAN - 1 : Upper(role, b) /\ tb[b][i].to # NoBlock =>
    /\ tb[b][i].to \in Blocks
    /\ role[tb[b][i].to] = Role("table", role[b].of, role[b].at + 1)

OnlyParents(tb, role) ==
  \A b, c \in Blocks, i, j \in 0 .. FAN - 1 :
    Upper(role, b) /\ Upper(role, c) /\ tb[b][i].to # NoBlock /\ tb[b][i].to = tb[c][j].to
      => b = c /\ i = j

Parents(tb, role) ==
  \A b \in Blocks : role[b].kind = "table" /\ role[b].at > 0 =>
    \E c \in Blocks, i \in 0 .. FAN - 1 : Upper(role, c) /\ tb[c][i].to = b

Tree(tb, role) ==
  TreeTyped(tb, role) /\ Children(tb, role) /\ OnlyParents(tb, role) /\ Parents(tb, role)

-----------------------------------------------------------------------------
(* Who owns which block. *)

OwnsStack(role, t, sp) ==
  /\ sp \in Blocks /\ role[sp] = Role("kernel_sp", t, 0)
  /\ \A b \in Blocks : role[b].kind = "kernel_sp" /\ role[b].of = t => b = sp

OwnsTop(role, t, top) ==
  /\ top \in Blocks /\ role[top] = Role("table", t, 0)
  /\ \A b \in Blocks : role[b].kind = "table" /\ role[b].of = t /\ role[b].at = 0 => b = top

(* The regions whose memory a thread owns: from the at-th on, because exec *)
(* has freed those before.                                                 *)
Held(list, at) == {n \in DOMAIN list : list[n].is_alloced /\ n >= at}

OwnsAreas(role, t, list, at) ==
  /\ \A n \in Held(list, at) : list[n].pa \in Blocks /\ role[list[n].pa] = Role("area", t, n)
  /\ \A b \in Blocks : role[b].kind = "area" /\ role[b].of = t =>
       role[b].at \in Held(list, at) /\ list[role[b].at].pa = b

OwnsLocals(role, t, new) ==
  /\ \A n \in DOMAIN new : new[n] \in Blocks /\ role[new[n]] = Role("local", t, n)
  /\ \A b \in Blocks : role[b].kind = "local" /\ role[b].of = t =>
       role[b].at \in DOMAIN new /\ new[role[b].at] = b

ThreadOwns(role, t, sp, top, list, o) ==
  /\ OwnsStack(role, t, sp) /\ OwnsTop(role, t, top)
  /\ OwnsAreas(role, t, list, o.at) /\ OwnsLocals(role, t, o.new)

Unowned == {"free", "lost"}

(* Every block has one role: it is free, or lost, or has one owner. *)
Owned(role) ==
  /\ role \in [Blocks -> Roles]
  /\ free_blocks \in SUBSET Blocks /\ lost \in SUBSET Blocks
  /\ \A b \in Blocks : /\ role[b].kind = "free" <=> b \in free_blocks
                       /\ role[b].kind = "lost" <=> b \in lost
                       /\ role[b].kind \notin Unowned => role[b].of \in Live
  /\ \A t \in Live : ThreadOwns(role, t, kernel_sp[t], pgd[t], vma_list[t], op[t])
  /\ Tree(tab, role)

(* Zombies that are queued, and so will be reaped, are in no call, and     *)
(* exec is at a region with memory.                                        *)
CallInv ==
  /\ \A t \in rq : status[t] = "ZOMBIE" => op[t].pc = "user"
  /\ \A t \in Threads : op[t].pc = "del" /\ op[t].at <= Len(vma_list[t]) =>
       vma_list[t][op[t].at].is_alloced

OwnInv == refreed = {} /\ CallInv /\ \E role : Owned(role)

-----------------------------------------------------------------------------
(* What the tables and the TLB say. *)

(* The entry e is for page p of a region of the list. *)
PageOf(list, p, e) ==
  \E i \in DOMAIN list :
    /\ Inside(list[i], p)
    /\ e = [to |-> list[i].pa, off |-> p - list[i].va, rwx |-> list[i].rwx]

(* The tables map pages of the regions only, and nothing just before exec  *)
(* adds its regions.                                                       *)
Exact(tb, top, list, pc) ==
  \A p \in Pages : Walk(tb, top, p) # NoEntry =>
    pc # "areas" /\ (pc \in {"user", "mmap"} => PageOf(list, p, Walk(tb, top, p)))

CacheInv ==
  /\ DOMAIN tlb = Pages
  /\ \A p \in Pages : Cached(p) => curr # idle /\ tlb[p] = Walk(tab, pgd[curr], p)

ExactInv == CacheInv /\ \A t \in Live : Exact(tab, pgd[t], vma_list[t], op[t].pc)

-----------------------------------------------------------------------------
(* The memory that programs see. *)

Contents == {"junk", "zero", "image", "data"}
Offsets  == 0 .. MaxSize - 1
Memories == [Blocks -> [Offsets -> Contents]]

(* The regions with memory of their own are all but those of the           *)
(* peripherals and the wrapper; a block is large enough for its region.    *)
Known(list) ==
  \A i \in DOMAIN list :
    /\ list[i].is_alloced <=> list[i].va \notin {PERIPHERAL_START, USER_SIGNAL_WRAPPER_VA}
    /\ list[i].is_alloced => list[i].size <= MaxSize
    /\ ~list[i].is_alloced => list[i].pa \notin Blocks

(* mmap has cleared the memory that it is about to add. *)
MemoryOK(o, list, mem) ==
  /\ Known(list)
  /\ o.pc = "mmap" => o.ask.len <= MaxSize /\ mem[o.new[1]] = Filled("zero")

SpaceInv ==
  content \in Memories /\ \A t \in Threads : MemoryOK(op[t], vma_list[t], content)

(* What the regions of a list hold, page by page. *)
MemOf(list, mem) ==
  UNION {{<<list[i].va + o, mem[list[i].pa][o]>> : o \in 0 .. list[i].size - 1} :
           i \in {j \in DOMAIN list : list[j].is_alloced}}

SpaceOf(o, list, mem) == IF o.pc \in {"user", "mmap"} THEN MemOf(list, mem) ELSE {}
=============================================================================
