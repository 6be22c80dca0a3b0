-------------------------------- MODULE Proc --------------------------------
(***************************************************************************)
(* Processes: the process table and the scheduler of the root container    *)
(* (src/src/core/proc.c, sched.c), fork, exit, wait, yield, sleep and      *)
(* wakeup, and the sleeplock built on them (sleeplock.c).                  *)
(*                                                                         *)
(* What runs under ptable.lock is one step, from the acquire to the        *)
(* release, through the switch to or from the scheduler; only a process    *)
(* that is switched to inside wait keeps the lock for another step.  What  *)
(* fork does to the new slot without the lock is cut into single steps.    *)
(* The sleeplock stands for every sleeplock of the kernel.  The kernel     *)
(* is not preempted: interrupts are taken in user mode only.  Channels are *)
(* addresses: a process waits for its children on its own, for the         *)
(* sleeplock on the address of the lock and for the SD card on its buf.    *)
(***************************************************************************)
EXTENDS Integers, FiniteSets, FiniteSetsExt

CONSTANTS
    NPROC,       \* slots of the process table
    CPUs,
    NPAGES,      \* physical pages for kernel stacks and page tables
    NPID,        \* pids of a container
    MaxForking,  \* bound: how many forks overlap
    MaxForks,    \* bound: how often fork is called
    MaxLockers   \* bound: how many processes use the sleeplock at a time

ASSUME ProcAssumption ==
    /\ NPROC \in Nat \ {0} /\ NPID \in Nat \ {0}
    /\ IsFiniteSet(CPUs)
    /\ NPAGES \in Nat /\ NPAGES >= 2
    /\ MaxForking \in Nat /\ MaxForks \in Nat /\ MaxLockers \in Nat

Slots == 1..NPROC
initproc == 1
Pages == 1..NPAGES
None == 0
sleeplock == NPROC + 1   \* the address of the sleeplock, as a channel
sdbuf == NPROC + 2       \* the address of a request to the SD card

VARIABLES
    state,    \* proc.state
    chan,     \* proc.chan: None, a slot, the sleeplock or sdbuf
    parent,   \* proc.parent
    pid,      \* proc.pid
    kstack,   \* proc.kstack: a page
    pgdir,    \* proc.pgdir: a page
    pc,       \* where each process is in the kernel
    np,       \* the local variable np of fork
    cur,      \* cpu.proc: the process on each CPU
    pos,      \* the slot at which the scheduler of each CPU is
    free,     \* the free pages
    lastPid,  \* scheduler.pid of the root container
    locked,   \* SleepLock.locked
    spin,     \* the holder of SleepLock.lock
    forks

ptable == <<state, chan, parent, pid>>
mem == <<kstack, pgdir, free>>
slock == <<locked, spin>>
vars == <<ptable, mem, pc, np, cur, pos, lastPid, slock, forks>>

Init ==
    /\ state = [p \in Slots |-> IF p = initproc THEN "RUNNABLE" ELSE "UNUSED"]
    /\ chan = [p \in Slots |-> None]
    /\ parent = [p \in Slots |-> None]
    /\ pid = [p \in Slots |-> IF p = initproc THEN 1 ELSE 0]
    /\ kstack = [p \in Slots |-> IF p = initproc THEN 1 ELSE None]
    /\ pgdir = [p \in Slots |-> IF p = initproc THEN 2 ELSE None]
    /\ pc = [p \in Slots |-> "user"]
    /\ np = [p \in Slots |-> None]
    /\ cur = [c \in CPUs |-> None]
    /\ pos = [c \in CPUs |-> 1]
    /\ free = Pages \ {1, 2}
    /\ lastPid = 1
    /\ locked = FALSE /\ spin = None
    /\ forks = 0

-----------------------------------------------------------------------------
(* The scheduler.                                                           *)

\* The process runs in the kernel, or in user mode, on some CPU.
Runs(p) == \E c \in CPUs : cur[c] = p

\* ptable.lock is free: no process has come back from sleep inside wait.
PtableFree == \A p \in Slots : Runs(p) => pc[p] # "wait"

\* sched: the CPU goes back to the loop of the scheduler, at the next slot.
GiveUp(p) ==
    \E c \in CPUs :
        /\ cur[c] = p
        /\ cur' = [cur EXCEPT ![c] = None]
        /\ pos' = [pos EXCEPT ![c] = IF @ = NPROC THEN 1 ELSE @ + 1]

Goto(p, label) == pc' = [pc EXCEPT ![p] = label]

\* One round of the loop of scheduler_simple: a RUNNABLE process is switched to.
\* A process that waited on a channel leaves sleep.  (The mutant leaves the
\* process RUNNABLE.)
SwitchUnmarked(p) == UNCHANGED state
SwitchTo(p) == state' = [state EXCEPT ![p] = "RUNNING"]
Scan(c) ==
    /\ cur[c] = None /\ PtableFree
    /\ LET p == pos[c] IN
       IF state[p] = "RUNNABLE"
         THEN /\ SwitchTo(p)
              /\ chan' = [chan EXCEPT ![p] = None]
              /\ cur' = [cur EXCEPT ![c] = p]
              /\ UNCHANGED pos
         ELSE /\ pos' = [pos EXCEPT ![c] = IF p = NPROC THEN 1 ELSE p + 1]
              /\ UNCHANGED <<state, chan, cur>>
    /\ UNCHANGED <<parent, pid, mem, pc, np, lastPid, slock, forks>>

\* yield: of a process that calls it, or by the clock handler.
Yield(p) ==
    /\ Runs(p) /\ pc[p] = "user" /\ PtableFree
    /\ state' = [state EXCEPT ![p] = "RUNNABLE"]
    /\ GiveUp(p)
    /\ UNCHANGED <<chan, parent, pid, mem, pc, np, lastPid, slock, forks>>

-----------------------------------------------------------------------------
(* fork.                                                                    *)

Forking == {p \in Slots : pc[p] \in {"embryo", "stack", "copy", "parent", "runnable"}}

\* alloc_resource(PID): the count stops when all entries of pmap are taken, since
\* no entry is ever given back.  (The mutant
\* does not count.)
NextPidStale == lastPid
NextPid == IF lastPid < NPID THEN lastPid + 1 ELSE lastPid

Unused == {s \in Slots : state[s] = "UNUSED"}

\* alloc_pcb takes the first UNUSED slot, which stays UNUSED.  fork fails when
\* there is none.
AllocPcb(p) ==
    /\ Runs(p) /\ pc[p] = "user" /\ PtableFree
    /\ forks < MaxForks /\ forks' = forks + 1
    /\ Cardinality(Forking) < MaxForking
    /\ IF Unused = {}
         THEN UNCHANGED <<pid, np, lastPid, pc>>
         ELSE LET s == Min(Unused) IN
              /\ lastPid' = NextPid
              /\ pid' = [pid EXCEPT ![s] = NextPid]
              /\ np' = [np EXCEPT ![p] = s]
              /\ Goto(p, "embryo")
    /\ UNCHANGED <<state, chan, parent, mem, cur, pos, slock>>

\* alloc_proc: state = EMBRYO.
Embryo(p) ==
    /\ Runs(p) /\ pc[p] = "embryo"
    /\ state' = [state EXCEPT ![np[p]] = "EMBRYO"]
    /\ Goto(p, "stack")
    /\ UNCHANGED <<chan, parent, pid, mem, np, cur, pos, lastPid, slock, forks>>

\* alloc_proc allocates the kernel stack.  When no page is left the slot is
\* UNUSED again and fork returns -1.  Which page kalloc returns does not matter.
AllocStack(p) ==
    /\ Runs(p) /\ pc[p] = "stack"
    /\ \/ /\ free # {}
          /\ kstack' = [kstack EXCEPT ![np[p]] = Min(free)]
          /\ free' = free \ {Min(free)}
          /\ Goto(p, "copy")
          /\ UNCHANGED <<state, np>>
       \/ /\ free = {}
          /\ state' = [state EXCEPT ![np[p]] = "UNUSED"]
          /\ np' = [np EXCEPT ![p] = None]
          /\ Goto(p, "user")
          /\ UNCHANGED <<kstack, free>>
    /\ UNCHANGED <<chan, parent, pid, pgdir, cur, pos, lastPid, slock, forks>>

\* uvm_copy makes the page table, here one page.  It does not test the result of
\* kalloc, and fork's test never sees 0 but when the parent maps nothing: what
\* happens without a page is undefined, and the model stops there.
UvmCopy(p) ==
    /\ Runs(p) /\ pc[p] = "copy" /\ free # {}
    /\ pgdir' = [pgdir EXCEPT ![np[p]] = Min(free)]
    /\ free' = free \ {Min(free)}
    /\ Goto(p, "parent")
    /\ UNCHANGED <<ptable, np, kstack, cur, pos, lastPid, slock, forks>>

\* np->parent = p, and then np->state = RUNNABLE.  The child starts in user mode.
SetParent(p) ==
    /\ Runs(p) /\ pc[p] = "parent"
    /\ parent' = [parent EXCEPT ![np[p]] = p]
    /\ Goto(p, "runnable")
    /\ UNCHANGED <<state, chan, pid, mem, np, cur, pos, lastPid, slock, forks>>
SetRunnable(p) ==
    /\ Runs(p) /\ pc[p] = "runnable"
    /\ state' = [state EXCEPT ![np[p]] = "RUNNABLE"]
    /\ np' = [np EXCEPT ![p] = None]
    /\ pc' = [pc EXCEPT ![p] = "user", ![np[p]] = "user"]
    /\ UNCHANGED <<chan, parent, pid, mem, cur, pos, lastPid, slock, forks>>

-----------------------------------------------------------------------------
(* exit and wait.                                                           *)

\* exit, once the files are closed: wake up the parent, pass the children to
\* initproc and wake it up if one of them is a ZOMBIE.  (The mutants forget one
\* of the two.)
Inherited(p) == {q \in Slots : parent[q] = p}
KeepChildren(p) == parent
PassChildren(p) == [q \in Slots |-> IF q \in Inherited(p) THEN initproc ELSE parent[q]]
WakesNoInit(p) == {parent[p]}
Wakes(p) ==
    {parent[p]} \cup
    (IF \E q \in Inherited(p) : state[q] = "ZOMBIE" THEN {initproc} ELSE {})
Exit(p) ==
    /\ Runs(p) /\ pc[p] = "user" /\ PtableFree
    /\ p # initproc
    /\ state' = [[q \in Slots |->
                     IF state[q] = "SLEEPING" /\ chan[q] \in Wakes(p) /\ q # p
                       THEN "RUNNABLE" ELSE state[q]]
                  EXCEPT ![p] = "ZOMBIE"]
    /\ parent' = PassChildren(p)
    /\ Goto(p, "exited")
    /\ GiveUp(p)
    /\ UNCHANGED <<chan, pid, mem, np, lastPid, slock, forks>>

\* wait, from the acquire of ptable.lock or from the return of sleep, which
\* holds it.  The first ZOMBIE child is freed; without children wait returns -1;
\* otherwise the process sleeps.  (The mutant forgets the kernel stack.)
Children(p) == {q \in Slots : parent[q] = p}
Zombies(p) == {q \in Children(p) : state[q] = "ZOMBIE"}
FreedPgdirOnly(q) == {pgdir[q]}
Freed(q) == {kstack[q], pgdir[q]}
Reap(p) ==
    LET q == Min(Zombies(p)) IN
    /\ Zombies(p) # {}
    /\ state' = [state EXCEPT ![q] = "UNUSED"]
    /\ pid' = [pid EXCEPT ![q] = 0]
    /\ parent' = [parent EXCEPT ![q] = None]
    /\ free' = free \cup Freed(q)
    /\ Goto(p, "user")
    /\ UNCHANGED <<chan, cur, pos>>
WaitFails(p) ==
    /\ Children(p) = {}
    /\ Goto(p, "user")
    /\ UNCHANGED <<ptable, cur, pos, free>>
WaitSleeps(p) ==
    /\ Children(p) # {} /\ Zombies(p) = {}
    /\ state' = [state EXCEPT ![p] = "SLEEPING"]
    /\ chan' = [chan EXCEPT ![p] = p]
    /\ Goto(p, "wait")
    /\ GiveUp(p)
    /\ UNCHANGED <<parent, pid, free>>
Wait(p) ==
    /\ Runs(p)
    /\ pc[p] = "wait" \/ (pc[p] = "user" /\ PtableFree)
    /\ Reap(p) \/ WaitFails(p) \/ WaitSleeps(p)
    /\ UNCHANGED <<kstack, pgdir, np, lastPid, slock, forks>>

-----------------------------------------------------------------------------
(* The sleeplock.                                                           *)

\* acquire_sleeplock takes SleepLock.lock, at its start or when sleep returns,
\* and takes the lock if it is free.  If not, it goes on to sleep with
\* SleepLock.lock held.
Locking == {p \in Slots : pc[p] \in {"hold", "sleep", "woken", "wakeup"}}
SleeplockAcquire(p) ==
    /\ Runs(p)
    /\ pc[p] = "woken" \/ (pc[p] = "user" /\ Cardinality(Locking) < MaxLockers)
    /\ spin = None
    /\ IF locked
         THEN spin' = p /\ Goto(p, "sleep") /\ UNCHANGED locked
         ELSE locked' = TRUE /\ Goto(p, "hold") /\ UNCHANGED spin
    /\ UNCHANGED <<ptable, mem, np, cur, pos, lastPid, forks>>

\* sleep: ptable.lock is taken before SleepLock.lock is released.  (The mutant
\* releases SleepLock.lock first.)
SleepUnlocked(p) ==
    /\ Runs(p) /\ PtableFree
    /\ \/ pc[p] = "sleep" /\ spin = p /\ spin' = None
          /\ UNCHANGED <<ptable, pc, cur, pos>>
       \/ /\ pc[p] = "sleep" /\ spin # p
          /\ chan' = [chan EXCEPT ![p] = sleeplock]
          /\ state' = [state EXCEPT ![p] = "SLEEPING"]
          /\ Goto(p, "woken")
          /\ GiveUp(p)
          /\ UNCHANGED <<parent, pid, spin>>
    /\ UNCHANGED <<mem, np, lastPid, locked, forks>>
Sleep(p) ==
    /\ Runs(p) /\ pc[p] = "sleep" /\ PtableFree
    /\ spin' = None
    /\ chan' = [chan EXCEPT ![p] = sleeplock]
    /\ state' = [state EXCEPT ![p] = "SLEEPING"]
    /\ Goto(p, "woken")
    /\ GiveUp(p)
    /\ UNCHANGED <<parent, pid, mem, np, lastPid, locked, forks>>

\* release_sleeplock, and then wakeup.
SleeplockRelease(p) ==
    /\ Runs(p) /\ pc[p] = "hold"
    /\ spin = None
    /\ locked' = FALSE
    /\ Goto(p, "wakeup")
    /\ UNCHANGED <<ptable, mem, np, cur, pos, lastPid, spin, forks>>
Wakeup(p) ==
    /\ Runs(p) /\ pc[p] = "wakeup" /\ PtableFree
    /\ state' = [q \in Slots |->
                    IF state[q] = "SLEEPING" /\ chan[q] = sleeplock /\ q # p
                      THEN "RUNNABLE" ELSE state[q]]
    /\ Goto(p, "user")
    /\ UNCHANGED <<chan, parent, pid, mem, np, cur, pos, lastPid, slock, forks>>

\* The holder of a block or an inode sleeps in sdrw until the interrupt, which
\* is taken while a CPU runs user code: of a process, or of one of those that
\* spawn_init_process_sd makes, which only loop and yield and have no slot here.
SdSleep(p) ==
    /\ Runs(p) /\ pc[p] = "hold" /\ PtableFree
    /\ chan' = [chan EXCEPT ![p] = sdbuf]
    /\ state' = [state EXCEPT ![p] = "SLEEPING"]
    /\ GiveUp(p)
    /\ UNCHANGED <<parent, pid, mem, pc, np, lastPid, slock, forks>>
SdIntr ==
    /\ \E c \in CPUs : \A p \in Slots : cur[c] = p => pc[p] = "user"
    /\ PtableFree
    /\ \E p \in Slots :
          /\ state[p] = "SLEEPING" /\ chan[p] = sdbuf
          /\ state' = [state EXCEPT ![p] = "RUNNABLE"]
    /\ UNCHANGED <<chan, parent, pid, mem, pc, np, cur, pos, lastPid, slock, forks>>

-----------------------------------------------------------------------------
Step(p) ==
    \/ Embryo(p) \/ AllocStack(p) \/ UvmCopy(p) \/ SetParent(p) \/ SetRunnable(p)
    \/ Sleep(p) \/ SleeplockRelease(p) \/ Wakeup(p) \/ SdSleep(p)

Next ==
    \/ \E c \in CPUs : Scan(c)
    \/ SdIntr
    \/ \E p \in Slots :
          Yield(p) \/ AllocPcb(p) \/ Exit(p) \/ Wait(p) \/ SleeplockAcquire(p) \/ Step(p)

Spec == Init /\ [][Next]_vars

-----------------------------------------------------------------------------
(* Properties.                                                              *)

Live(p) == state[p] \in {"RUNNABLE", "RUNNING", "SLEEPING", "ZOMBIE"}

\* A process runs on one CPU at most, and exactly the processes that are on a
\* CPU are RUNNING: two schedulers never switch to the same process.
OnOneCpu ==
    /\ \A c, d \in CPUs : cur[c] = cur[d] /\ cur[c] # None => c = d
    /\ \A p \in Slots : state[p] = "RUNNING" <=> Runs(p)

\* No wakeup is lost between exit and wait: a parent asleep in wait has children,
\* and none of them is a ZOMBIE that it would wait for in vain.
NoZombieSlept ==
    \A p \in Slots :
        (state[p] = "SLEEPING" /\ pc[p] = "wait") =>
            Children(p) # {} /\ Zombies(p) = {}

\* A sleeplock has one holder while it is locked, and no wakeup is lost between
\* acquire_sleeplock and release_sleeplock: while a process sleeps on it, either
\* somebody holds it or somebody who released it is about to call wakeup.
SleeplockSound ==
    /\ Cardinality({p \in Slots : pc[p] = "hold"}) = IF locked THEN 1 ELSE 0
    /\ (\E p \in Slots : state[p] = "SLEEPING" /\ chan[p] = sleeplock) =>
           locked \/ \E p \in Slots : pc[p] = "wakeup"

\* Nobody is orphaned: following the parents of any process, in whatever order
\* processes fork and exit, leads to a process that has not exited or that is
\* itself waited for; a ZOMBIE always has a live parent that can free it.
FamilyIntact ==
    \A p \in Slots : Live(p) /\ p # initproc =>
        /\ parent[p] # None
        /\ state[parent[p]] \in {"RUNNABLE", "RUNNING", "SLEEPING"}

\* The kernel stacks and page tables of live processes are distinct pages, and
\* every other page is free: fork, its failure, exit and wait neither leak a page
\* nor free one twice.
Building(s, labels) == \E p \in Slots : np[p] = s /\ pc[p] \in labels
Stacked == {s \in Slots : Live(s) \/ Building(s, {"copy", "parent", "runnable"})}
Mapped == {s \in Slots : Live(s) \/ Building(s, {"parent", "runnable"})}
PagesOwned ==
    /\ Cardinality(free) + Cardinality(Stacked) + Cardinality(Mapped) = Cardinality(Pages)
    /\ free \cup {kstack[s] : s \in Stacked} \cup {pgdir[s] : s \in Mapped} = Pages

\* Live processes have different pids, over any number of forks, failed forks and
\* exits, until the last pid of the container is reached; only that one is shared.
PidsDiffer ==
    \A p, q \in Slots :
        Live(p) /\ Live(q) /\ pid[p] = pid[q] /\ pid[p] < NPID => p = q

\* A slot is built by one fork at a time: the lock is there "to serialize the
\* access to ptable" (proc.c:20).
PcbExclusive ==
    \A p, q \in Forking : np[p] = np[q] => p = q
=============================================================================
