------------------------------ MODULE PageTable ------------------------------
(***************************************************************************)
(* The page tables of kernel/src/mmu.c, as operators: the walk of the      *)
(* hardware, map_one_page and mmu_free_page_tables.  A table fills one     *)
(* block of memory, and h is a heap [tab, free]: h.tab[b] holds the        *)
(* entries of the table in block b, h.free is the set of blocks kmalloc    *)
(* may return.  Addresses are page numbers.  The code has LEVELS = 4 and   *)
(* FAN = 512.                                                              *)
(***************************************************************************)
EXTENDS Integers, FiniteSets

CONSTANTS
  LEVELS,  \* levels of tables, the last one holding pages
  FAN,     \* entries of a table
  NBLOCKS  \* the blocks of memory are 1 .. NBLOCKS

ASSUME PageTableAssumption ==
  LEVELS \in Nat \ {0, 1} /\ FAN \in Nat \ {0, 1} /\ NBLOCKS \in Nat

Blocks   == 1 .. NBLOCKS
NoBlock  == 0
DEVICE   == NBLOCKS + 1   \* the peripherals' registers
WRAPPER  == NBLOCKS + 2   \* the kernel page with signal_handler_wrapper

(* An entry points to the page off of the block to, with access rights, or *)
(* in the tables above the last level to the next table.                   *)
Entry    == [to : 0 .. NBLOCKS + 2, off : Nat, rwx : SUBSET {"r", "w", "x"}]
NoEntry  == [to |-> NoBlock, off |-> 0, rwx |-> {}]
ToTable(b) == [to |-> b, off |-> 0, rwx |-> {}]

EmptyTable == [i \in 0 .. FAN - 1 |-> NoEntry]

(* The i-th of the blocks that kmalloc returns next, of those in free.  The *)
(* blocks are interchangeable, so they are given out lowest first.         *)
Fresh(free, i) == CHOOSE b \in free : Cardinality({c \in free : c < b}) = i - 1

(* The pages below k levels of tables. *)
Span[k \in 0 .. LEVELS] == IF k = 0 THEN 1 ELSE FAN * Span[k - 1]

(* The index of page p in a table of the given level. *)
Index(p, level) == (p \div Span[LEVELS - 1 - level]) % FAN

(* The tables on the way to page p, from the top one at level 0 on. *)
Path(tab, pgd, p) ==
  LET at[l \in 0 .. LEVELS - 1] ==
        IF l = 0 THEN pgd
        ELSE LET up == at[l - 1] IN
             IF up = NoBlock THEN NoBlock ELSE tab[up][Index(p, l - 1)].to
  IN  at

(* What the hardware finds for page p. *)
Walk(tab, pgd, p) ==
  LET last == Path(tab, pgd, p)[LEVELS - 1] IN
  IF last = NoBlock THEN NoEntry ELSE tab[last][Index(p, LEVELS - 1)]

(* map_one_page: the tables that are missing on the way are created, then  *)
(* the entry of the page is set.                                           *)
map_one_page(h, pgd, p, e) ==
  LET after[l \in 0 .. LEVELS - 1] ==
        IF l = 0 THEN [h |-> h, at |-> pgd]
        ELSE LET s    == after[l - 1]
                 i    == Index(p, l - 1)
                 next == s.h.tab[s.at][i].to
                 b    == Fresh(s.h.free, 1)
             IN  IF next # NoBlock THEN [s EXCEPT !.at = next]
                 ELSE [h  |-> [tab  |-> [s.h.tab EXCEPT ![s.at][i] = ToTable(b),
                                                        ![b] = EmptyTable],
                               free |-> s.h.free \ {b}],
                       at |-> b]
      s == after[LEVELS - 1]
  IN  [s.h EXCEPT !.tab[s.at][Index(p, LEVELS - 1)] = e]

(* The tables below the one in block pgd, down to the given level. *)
TablesTo(tab, pgd, level) ==
  LET at[l \in 0 .. LEVELS - 1] ==
        IF l = 0 THEN {pgd}
        ELSE {tab[b][i].to : b \in at[l - 1], i \in 0 .. FAN - 1} \ {NoBlock}
  IN  UNION {at[l] : l \in 1 .. level}

Tables(tab, pgd) == TablesTo(tab, pgd, LEVELS - 1)

(* Mutant of FreedTables: the recursion ends one level too early. *)
FreedTablesShort(tab, pgd) == TablesTo(tab, pgd, LEVELS - 2)

(* The tables that mmu_free_page_tables(pgd, 0) frees: it recurses down to *)
(* level 2 of 4, whose entries point to the tables of the last level, and  *)
(* does not free the pages.                                                *)
FreedTables(tab, pgd) == TablesTo(tab, pgd, LEVELS - 1)

=============================================================================
