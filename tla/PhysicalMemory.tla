--------------------------- MODULE PhysicalMemory ---------------------------
(***************************************************************************)
(* The allocator of physical pages (src/src/core/physical_memory.c).       *)
(*                                                                         *)
(* pmem.lock makes kalloc and kfree single steps.  The operators take the  *)
(* state of memory and return the next one, because an operation of        *)
(* another module may call them several times.  The free list is a set:    *)
(* no property depends on which of its pages kalloc returns.               *)
(***************************************************************************)
EXTENDS Integers, FiniteSets, FiniteSetsExt

CONSTANTS
    NPAGES,   \* pages of physical memory
    FANOUT    \* N_PTE_PER_TABLE: entries of a page that is a page table

ASSUME PhysicalMemoryAssumption == NPAGES \in Nat /\ FANOUT \in Nat \ {0}

VARIABLES
    pmem,   \* free: the free list; page: the entries of each page; and as a
            \* history, twice: a page was freed twice; out: kalloc has returned
            \* NULL; left: the tables that vm_free did not free
    sys     \* up, panicked, or undefined after a write through NULL

Pages == 1..NPAGES
NULL == 0
Index == 0..(FANOUT - 1)
Zeroed == [i \in Index |-> NULL]

init_memory_manager ==
    [free |-> Pages, page |-> [p \in Pages |-> Zeroed], twice |-> FALSE, out |-> FALSE,
     left |-> {}]

\* The page comes zeroed.
kalloc(m) ==
    IF m.free = {}
      THEN [mem |-> [m EXCEPT !.out = TRUE], ptr |-> NULL]
      ELSE LET p == Min(m.free) IN
           [mem |-> [m EXCEPT !.free = @ \ {p}, !.page[p] = Zeroed], ptr |-> p]

\* kfree of every page of a set.
kfree(m, freed) ==
    [m EXCEPT !.free = @ \cup freed,
              !.twice = @ \/ freed \cap m.free # {},
              !.page = [p \in Pages |-> IF p \in freed THEN Zeroed ELSE @[p]]]
=============================================================================
