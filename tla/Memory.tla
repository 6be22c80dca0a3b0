------------------------------- MODULE Memory -------------------------------
(***************************************************************************)
(* Address spaces and the objects of an arena on one pool of pages: brk,   *)
(* execve, fork and wait of several processes, and alloc_object and        *)
(* free_object of the file system, take pages from one another.            *)
(***************************************************************************)
EXTENDS Arena, VirtualMemory

vars == <<pmem, sys, ring, used, numObjects, pgdir, sz, job, shrunk, calls>>

Init == VmInit /\ ArenaInit

Next ==
    \/ VmNext /\ UNCHANGED arenaVars
    \/ ArenaNext /\ UNCHANGED vmVars

Spec == Init /\ [][Next]_vars

-----------------------------------------------------------------------------
\* No page is freed twice, is both free and in use, or is used by two owners (two
\* address spaces, two entries of one, or an arena): whatever fails half-way, each
\* page that is not free has at most one path to it.
OneOwner ==
    /\ ~pmem.twice
    /\ \A top \in Roots :
         /\ Cardinality(Owned(top)) = 1 + Cardinality(Entries(top))
         /\ Owned(top) \cap (pmem.free \cup Range(ring)) = {}
         /\ \A other \in Roots \ {top} : Owned(top) \cap Owned(other) = {}
    /\ PoolSound

\* While kalloc has not failed, every page is free, in use, or a last-level table
\* that vm_free left behind: execve's way out at bad, the undoing of uvm_alloc and
\* wait lose no user page, no upper table and no root.
OnlyTablesLost ==
    ~pmem.out =>
        Pages \ (pmem.free \cup Range(ring) \cup UNION {Owned(top) : top \in Roots}) = pmem.left

\* While kalloc has not failed and no process was made smaller, a process in user
\* mode has exactly the pages below proc.sz: brk, execve that fails or succeeds and
\* fork leave no hole and nothing beyond.
ImageWhole ==
    ~pmem.out /\ ~shrunk => \A p \in Procs : InUser(p) => SizeOf(p)

\* The panics of uvm_map, uvmunmap, loaduvm and alloc_object and the writes through
\* NULL need a kalloc that failed or a growproc that made a process smaller.
PanicsExplained == sys # "up" => pmem.out \/ shrunk
=============================================================================
