---------------------------- MODULE VirtualMemory ----------------------------
(***************************************************************************)
(* User address spaces (src/src/core/virtual_memory.c) and their users:    *)
(* growproc, fork and wait in proc.c and execve in exec.c.                 *)
(*                                                                         *)
(* An address is the number of a page.  Page tables are pages whose        *)
(* entries are the numbers of other pages.  uvm_alloc and uvm_copy take a  *)
(* step for each page, so that several processes run out of memory in the  *)
(* middle of one another's loops; job holds their local variables.         *)
(***************************************************************************)
EXTENDS PhysicalMemory, Sequences, SequencesExt

CONSTANTS
    LEVELS,     \* levels of a page table (4)
    NPROC,      \* slots of processes
    MaxSize,    \* bound on the pages of a program or of a grown process
    MaxCalls,   \* bound on the calls of brk, execve and fork
    NStack      \* pages of a stack, the lowest one inaccessible (2)

ASSUME VirtualMemoryAssumption ==
    /\ LEVELS \in Nat \ {0, 1} /\ NPROC \in Nat \ {0}
    /\ MaxSize \in Nat \ {0} /\ NStack \in Nat \ {0}
    /\ MaxCalls \in Nat /\ MaxSize + NStack < FANOUT^LEVELS

VARIABLES
    pgdir,    \* proc.pgdir, NULL for an unused slot
    sz,       \* proc.sz in pages
    job,      \* the loop a process is in and its variables
    shrunk,   \* history: growproc has made a process smaller
    calls     \* the system calls so far, up to the bound MaxCalls

vmVars == <<pgdir, sz, job, shrunk, calls>>

Procs == 1..NPROC

\* for is the caller of uvm_alloc (brk, load, stack) or fork; dir the table that
\* is built; a the page the loop is at; old, new its bounds; np the child.
Idle == [for |-> "none", dir |-> NULL, a |-> 0, old |-> 0, new |-> 0, np |-> 0]

-----------------------------------------------------------------------------
PX(level, va) == (va \div FANOUT^level) % FANOUT

Upper == [i \in 1..(LEVELS - 1) |-> LEVELS - i]

\* pgdir_walk: the last-level table for va, NULL if there is none; with alloc the
\* tables on the way are made.  Those made before kalloc fails stay.
pgdir_walk(m, top, va, alloc) ==
    FoldLeft(LAMBDA w, level :
               LET entry == w.mem.page[w.dir][PX(level, va)]
                   k == kalloc(w.mem)
               IN CASE w.dir = NULL -> w
                    [] w.dir # NULL /\ entry # NULL -> [w EXCEPT !.dir = entry]
                    [] w.dir # NULL /\ entry = NULL /\ ~alloc -> [w EXCEPT !.dir = NULL]
                    [] OTHER ->
                         [dir |-> k.ptr,
                          mem |-> IF k.ptr = NULL THEN k.mem
                                  ELSE [k.mem EXCEPT !.page[w.dir][PX(level, va)] = k.ptr]],
             [mem |-> m, dir |-> top], Upper)

\* The page mapped at va, or NULL.
Mapped(m, top, va) ==
    LET w == pgdir_walk(m, top, va, FALSE)
    IN IF w.dir = NULL THEN NULL ELSE m.page[w.dir][PX(0, va)]

\* uvm_map of one page.
uvm_map(m, top, va, pa) ==
    LET w == pgdir_walk(m, top, va, TRUE)
    IN IF w.dir = NULL THEN [mem |-> w.mem, ret |-> "failed"]
       ELSE IF w.mem.page[w.dir][PX(0, va)] # NULL THEN [mem |-> w.mem, ret |-> "remap"]
       ELSE [mem |-> [w.mem EXCEPT !.page[w.dir][PX(0, va)] = pa], ret |-> "ok"]

\* uvm_dealloc with uvmunmap: the pages from new to old - 1, all of which must be
\* mapped.  (The mutant leaves the entry of the page it frees.)
KeepEntry(m, top, va) == kfree(m, {Mapped(m, top, va)})
Unmap(m, top, va) ==
    LET w == pgdir_walk(m, top, va, FALSE)
    IN [kfree(m, {Mapped(m, top, va)}) EXCEPT !.page[w.dir][PX(0, va)] = NULL]

uvm_dealloc(m, top, old, new) ==
    IF \E va \in new..(old - 1) : Mapped(m, top, va) = NULL
      THEN [mem |-> m, ok |-> FALSE]
      ELSE [mem |-> FoldLeft(LAMBDA n, i : Unmap(n, top, new + i - 1), m,
                             [i \in 1..(IF old > new THEN old - new ELSE 0) |-> i]),
            ok |-> TRUE]

\* The pages at a depth of the tree under top; those at depth LEVELS are the
\* user's.
AtDepth(m, top) ==
    LET at[x \in 0..LEVELS] ==
          IF x = 0 THEN {top} ELSE {m.page[t][i] : t \in at[x - 1], i \in Index} \ {NULL}
    IN at

\* vm_free: everything but the tables of the last level, which nobody can reach
\* afterwards (their entries, never read again, are dropped).
FreedBy(m, top) == UNION {AtDepth(m, top)[x] : x \in (0..LEVELS) \ {LEVELS - 1}}
vm_free(m, top) ==
    LET last == AtDepth(m, top)[LEVELS - 1]
    IN kfree([m EXCEPT !.left = @ \cup last,
                       !.page = [p \in Pages |-> IF p \in last THEN Zeroed ELSE @[p]]],
             FreedBy(m, top))

-----------------------------------------------------------------------------
\* init's one page, mapped by spawn_init_process when all memory is free.
VmInit ==
    LET top == kalloc(init_memory_manager)
        user == kalloc(top.mem)
    IN /\ pmem = uvm_map(user.mem, top.ptr, 0, user.ptr).mem
       /\ sys = "up"
       /\ pgdir = [p \in Procs |-> IF p = 1 THEN top.ptr ELSE NULL]
       /\ sz = [p \in Procs |-> IF p = 1 THEN 1 ELSE 0]
       /\ job = [p \in Procs |-> Idle]
       /\ shrunk = FALSE /\ calls = 0

InUser(p) == sys = "up" /\ pgdir[p] # NULL /\ job[p] = Idle

Call(p) == InUser(p) /\ calls < MaxCalls /\ calls' = calls + 1

Loop(p, for) == sys = "up" /\ job[p].for = for

\* uvm_alloc starts, for a caller, with its oldsz and newsz.
Begin(p, caller, dir, old, new) ==
    job' = [job EXCEPT ![p] = [Idle EXCEPT !.for = caller, !.dir = dir, !.a = old,
                                           !.old = old, !.new = new]]

\* sys_brk, growproc with n > 0.
Grow(p, n) ==
    /\ Call(p)
    /\ sz[p] + n <= MaxSize + NStack
    /\ Begin(p, "brk", pgdir[p], sz[p], sz[p] + n)
    /\ UNCHANGED <<pmem, sys, pgdir, sz, shrunk>>

\* growproc with n < 0.  uvm_dealloc returns 0, which becomes the size.  (Beyond
\* the size sz + n wraps around and nothing happens.)
Shrink(p, n) ==
    LET d == uvm_dealloc(pmem, pgdir[p], sz[p], sz[p] - n)
    IN /\ Call(p)
       /\ n <= sz[p]
       /\ pmem' = d.mem
       /\ sys' = IF d.ok THEN "up" ELSE "panicked"
       /\ sz' = IF d.ok THEN [sz EXCEPT ![p] = 0] ELSE sz
       /\ shrunk' = TRUE
       /\ UNCHANGED <<pgdir, job>>

\* execve makes a table and loads a first segment that ends at page n.
Exec(p, n) ==
    LET k == kalloc(pmem)
    IN /\ Call(p)
       /\ pmem' = k.mem
       /\ IF k.ptr = NULL THEN UNCHANGED job ELSE Begin(p, "load", k.ptr, 0, n)
       /\ UNCHANGED <<sys, pgdir, sz, shrunk>>

-----------------------------------------------------------------------------
\* uvm_alloc gives up: growproc returns -1, execve goes to bad.  (The mutant
\* forgets vm_free at bad.)
GiveUpLeaks(p, m) ==
    /\ pmem' = m
    /\ job' = [job EXCEPT ![p] = Idle]
GiveUp(p, m) ==
    /\ pmem' = IF job[p].for = "brk" THEN m ELSE vm_free(m, job[p].dir)
    /\ job' = [job EXCEPT ![p] = Idle]

\* One iteration of uvm_alloc.  After uvm_map has failed it undoes the pages so
\* far and goes on.
UvmAlloc(p) ==
    LET j == job[p]
        k == kalloc(pmem)
        mapped == uvm_map(k.mem, j.dir, j.a, k.ptr)
        m == IF k.ptr = NULL THEN k.mem ELSE kfree(mapped.mem, {k.ptr})
        undo == uvm_dealloc(m, j.dir, j.a, j.old)
        next == job' = [job EXCEPT ![p].a = j.a + 1]
    IN /\ sys = "up" /\ j.for \in {"brk", "load", "stack"}
       /\ j.a < j.new
       /\ \/ /\ k.ptr = NULL /\ undo.ok
             /\ GiveUp(p, undo.mem)
             /\ UNCHANGED sys
          \/ /\ k.ptr # NULL /\ mapped.ret = "failed" /\ undo.ok
             /\ pmem' = undo.mem
             /\ next
             /\ UNCHANGED sys
          \/ /\ k.ptr # NULL /\ mapped.ret = "ok"
             /\ pmem' = mapped.mem
             /\ next
             /\ UNCHANGED sys
          \/ /\ \/ k.ptr # NULL /\ mapped.ret = "remap"
                \/ (k.ptr = NULL \/ mapped.ret = "failed") /\ ~undo.ok
             /\ sys' = "panicked"
             /\ UNCHANGED <<pmem, job>>
       /\ UNCHANGED <<pgdir, sz, shrunk, calls>>

\* uvm_alloc returns newsz to growproc.  (The mutant stores the difference.)
NewSizeDelta(p) == job[p].new - job[p].old
NewSize(p) == job[p].new
Grown(p) ==
    /\ Loop(p, "brk") /\ job[p].a = job[p].new
    /\ sz' = [sz EXCEPT ![p] = NewSize(p)]
    /\ job' = [job EXCEPT ![p] = Idle]
    /\ UNCHANGED <<pmem, sys, pgdir, shrunk, calls>>

\* ... and to execve: loaduvm, which does not check the table, needs the pages
\* from lo to hi - 1.  A segment that cannot be read ends at bad; after one that
\* can comes another one, or the stack.
Loaded(p) ==
    LET j == job[p]
    IN /\ Loop(p, "load") /\ j.a = j.new
       /\ \E lo \in j.old..j.new : \E hi \in lo..j.new :
            LET hole == \E va \in lo..(hi - 1) : Mapped(pmem, j.dir, va) = NULL
            IN \/ /\ hole
                  /\ sys' \in {"undefined", "panicked"}
                  /\ UNCHANGED <<pmem, job>>
               \/ /\ ~hole
                  /\ UNCHANGED sys
                  /\ \/ GiveUp(p, pmem)
                     \/ /\ \E n \in (j.new + 1)..MaxSize : Begin(p, "load", j.dir, j.new, n)
                        /\ UNCHANGED pmem
                     \/ /\ Begin(p, "stack", j.dir, j.new, j.new + NStack)
                        /\ UNCHANGED pmem
       /\ UNCHANGED <<pgdir, sz, shrunk, calls>>

\* The stack is there: clearpteu and copyout, which do not check, then the new
\* table replaces the old one.
Execed(p) ==
    LET j == job[p]
        bad == Mapped(pmem, j.dir, j.new - 1) = NULL
    IN /\ Loop(p, "stack") /\ j.a = j.new
       /\ \/ /\ bad
             /\ sys' \in {"undefined", "panicked"}
             /\ UNCHANGED <<pmem, pgdir, sz, job>>
          \/ /\ ~bad
             /\ pmem' = vm_free(pmem, pgdir[p])
             /\ pgdir' = [pgdir EXCEPT ![p] = j.dir]
             /\ sz' = [sz EXCEPT ![p] = j.new]
             /\ job' = [job EXCEPT ![p] = Idle]
             /\ UNCHANGED sys
       /\ UNCHANGED <<shrunk, calls>>

-----------------------------------------------------------------------------
\* fork reaches uvm_copy, whose pgdir_init may return NULL: with a first page to
\* map that is a write through NULL, without one fork fails.
Fork(p, q) ==
    LET k == kalloc(pmem)
    IN /\ Call(p)
       /\ pgdir[q] = NULL /\ \A r \in Procs : job[r].np # q
       /\ pmem' = k.mem
       /\ \/ /\ k.ptr = NULL
             /\ sys' = IF Mapped(pmem, pgdir[p], 0) # NULL THEN "undefined" ELSE sys
             /\ UNCHANGED job
          \/ /\ k.ptr # NULL
             /\ job' = [job EXCEPT ![p] = [Idle EXCEPT !.for = "fork", !.dir = k.ptr, !.np = q]]
             /\ UNCHANGED sys
       /\ UNCHANGED <<pgdir, sz, shrunk>>

\* One iteration of uvm_copy.  The result of uvm_map is not looked at: a page that
\* could not be mapped is lost.
UvmCopy(p) ==
    LET j == job[p]
        k == kalloc(pmem)
    IN /\ Loop(p, "fork") /\ Mapped(pmem, pgdir[p], j.a) # NULL
       /\ \/ /\ k.ptr = NULL
             /\ sys' = "undefined"
             /\ pmem' = k.mem
             /\ UNCHANGED job
          \/ /\ k.ptr # NULL
             /\ pmem' = uvm_map(k.mem, j.dir, j.a, k.ptr).mem
             /\ job' = [job EXCEPT ![p].a = @ + 1]
             /\ UNCHANGED sys
       /\ UNCHANGED <<pgdir, sz, shrunk, calls>>

\* uvm_copy stops at the first page that is not mapped and the child is complete.
Forked(p) ==
    LET j == job[p]
    IN /\ Loop(p, "fork") /\ Mapped(pmem, pgdir[p], j.a) = NULL
       /\ pgdir' = [pgdir EXCEPT ![j.np] = j.dir]
       /\ sz' = [sz EXCEPT ![j.np] = sz[p]]
       /\ job' = [job EXCEPT ![p] = Idle]
       /\ UNCHANGED <<pmem, sys, shrunk, calls>>

\* wait frees the memory of a process that has exited (the size it leaves is not read
\* again); init does not exit.
Wait(q) ==
    /\ InUser(q) /\ q # 1
    /\ pmem' = vm_free(pmem, pgdir[q])
    /\ pgdir' = [pgdir EXCEPT ![q] = NULL]
    /\ sz' = [sz EXCEPT ![q] = 0]
    /\ UNCHANGED <<sys, job, shrunk, calls>>

VmNext ==
    \E p \in Procs :
        \/ \E n \in 1..MaxSize : Grow(p, n) \/ Shrink(p, n) \/ Exec(p, n)
        \/ UvmAlloc(p) \/ Grown(p) \/ Loaded(p) \/ Execed(p)
        \/ \E q \in Procs : Fork(p, q)
        \/ UvmCopy(p) \/ Forked(p) \/ Wait(p)

-----------------------------------------------------------------------------
\* The roots of the address spaces, complete or being built.
Roots == (({pgdir[p] : p \in Procs} \cup {job[p].dir : p \in Procs}) \ {NULL})

Owned(top) == UNION {AtDepth(pmem, top)[x] : x \in 0..LEVELS}

Tables(top) == UNION {AtDepth(pmem, top)[x] : x \in 0..(LEVELS - 1)}

Entries(top) == {e \in Tables(top) \X Index : pmem.page[e[1]][e[2]] # NULL}

\* A process in user mode maps exactly the pages below its size.
SizeOf(p) ==
    \A va \in 0..(FANOUT^LEVELS - 1) : (Mapped(pmem, pgdir[p], va) # NULL) <=> (va < sz[p])
=============================================================================
