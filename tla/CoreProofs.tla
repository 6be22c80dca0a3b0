---------------------------- MODULE CoreProofs ----------------------------
(***************************************************************************)
(* Proofs about processes and the console (src/src/core).                  *)
(*                                                                         *)
(* The process table, for any number of slots, processors, pages and pids, *)
(* and any number of forks, as long as no two forks overlap: two that do   *)
(* share a slot (PcbExclusive in Proc).                                    *)
(*                                                                         *)
(* The console, for every size of the ring and any number of readers: the  *)
(* ring never blocks, and it implements AtomicConsole.                     *)
(***************************************************************************)
EXTENDS Proc, Console, FiniteSetTheorems, TLAPS

-----------------------------------------------------------------------------
(* Processes.                                                               *)

\* alloc_pcb returns a slot that stays UNUSED until alloc_proc marks it; no other
\* fork looks for a slot in between.
OneFork == MaxForking <= 1

Labels == {"user", "embryo", "stack", "copy", "parent", "runnable", "exited",
           "wait", "sleep", "woken", "hold", "wakeup"}
States == {"UNUSED", "EMBRYO", "RUNNABLE", "RUNNING", "SLEEPING", "ZOMBIE"}

Types ==
    /\ state \in [Slots -> States]
    /\ chan \in [Slots -> Slots \cup {None, sleeplock, sdbuf}]
    /\ parent \in [Slots -> Slots \cup {None}]
    /\ pid \in [Slots -> Nat]
    /\ kstack \in [Slots -> Pages \cup {None}]
    /\ pgdir \in [Slots -> Pages \cup {None}]
    /\ pc \in [Slots -> Labels]
    /\ np \in [Slots -> Slots \cup {None}]
    /\ cur \in [CPUs -> Slots \cup {None}]
    /\ pos \in [CPUs -> Slots]
    /\ free \in SUBSET Pages
    /\ lastPid \in 1..NPID
    /\ locked \in BOOLEAN
    /\ spin \in Slots \cup {None}
    /\ forks \in Nat

\* A fork runs on a CPU until it is done; its slot is UNUSED until it is marked, and
\* nobody but the fork has an EMBRYO.
ForkInv ==
    /\ \A p, q \in Forking : p = q
    /\ \A p \in Slots : p \in Forking <=> np[p] # None
    /\ \A p \in Forking :
         /\ state[p] = "RUNNING"
         /\ state[np[p]] = IF pc[p] = "embryo" THEN "UNUSED" ELSE "EMBRYO"
    /\ \A s \in Slots : state[s] = "EMBRYO" => \E p \in Forking : np[p] = s

\* Where a process can be in the kernel while it is not on a CPU, and the channel it
\* sleeps on there.
LabelInv ==
    \A s \in Slots :
        /\ state[s] = "SLEEPING" =>
             \/ pc[s] = "wait" /\ chan[s] = s
             \/ pc[s] = "woken" /\ chan[s] = sleeplock
             \/ pc[s] = "hold" /\ chan[s] = sdbuf
        /\ state[s] = "RUNNABLE" => pc[s] \in {"user", "wait", "woken", "hold"}
        /\ state[s] \in {"UNUSED", "EMBRYO", "ZOMBIE"} => pc[s] \in {"user", "exited"}

\* Who is about to sleep on the sleeplock has SleepLock.lock, and with it the lock
\* stays taken; the lock is taken exactly while one process holds it.
LockInv ==
    /\ \A p \in Slots : pc[p] = "sleep" <=> spin = p
    /\ spin # None => locked
    /\ \A p, q \in Slots : pc[p] = "hold" /\ pc[q] = "hold" => p = q
    /\ locked <=> \E p \in Slots : pc[p] = "hold"
    /\ (\E p \in Slots : state[p] = "SLEEPING" /\ chan[p] = sleeplock) =>
           locked \/ \E p \in Slots : pc[p] = "wakeup"

\* initproc never exits; a slot has a parent from just before it is RUNNABLE until
\* it is freed, and the parent has not exited.
Alive(s) == state[s] \in {"RUNNABLE", "RUNNING", "SLEEPING"}
FamilyInv ==
    /\ Alive(initproc) /\ parent[initproc] = None
    /\ \A s \in Slots :
         /\ parent[s] # s
         /\ Live(s) /\ s # initproc => parent[s] # None /\ Alive(parent[s])
         /\ state[s] = "UNUSED" => parent[s] = None
         /\ state[s] = "EMBRYO" /\ parent[s] # None => pc[parent[s]] = "runnable"
         /\ pc[s] = "runnable" => parent[np[s]] = s

\* The slots that have a pid of their own, from alloc_pcb on.
Named(s) == Live(s) \/ \E p \in Slots : np[p] = s
PidInv ==
    /\ \A s \in Slots : pid[s] <= lastPid
    /\ \A s, t \in Slots :
         Named(s) /\ Named(t) /\ pid[s] = pid[t] /\ pid[s] < NPID => s = t

\* Every page is free, one kernel stack or one page table.
PageInv ==
    /\ \A s \in Stacked : kstack[s] \in Pages \ free
    /\ \A s \in Mapped : pgdir[s] \in Pages \ free
    /\ \A s, t \in Stacked : kstack[s] = kstack[t] => s = t
    /\ \A s, t \in Mapped : pgdir[s] = pgdir[t] => s = t
    /\ \A s \in Stacked, t \in Mapped : kstack[s] # pgdir[t]
    /\ \A g \in Pages \ free :
         (\E s \in Stacked : kstack[s] = g) \/ (\E s \in Mapped : pgdir[s] = g)

ProcInv ==
    /\ Types /\ OnOneCpu /\ ForkInv /\ LabelInv /\ LockInv /\ FamilyInv
    /\ NoZombieSlept /\ PidInv /\ PageInv

-----------------------------------------------------------------------------
(* Facts about the constants and the helpers of the model.                  *)

\* The channels are different addresses, and none of them is a slot.
LEMMA Addresses ==
  /\ initproc \in Slots /\ None \notin Slots
  /\ sleeplock \notin Slots \cup {None} /\ sdbuf \notin Slots \cup {None}
  /\ sleeplock # sdbuf
  /\ None \notin Pages
  BY ProcAssumption DEF Slots, initproc, Pages, None, sleeplock, sdbuf

\* The scheduler goes round the slots.
LEMMA NextSlot ==
  \A s \in Slots : (IF s = NPROC THEN 1 ELSE s + 1) \in Slots
  BY ProcAssumption DEF Slots

\* A set of numbers that is not empty has a minimum: the first slot that alloc_pcb
\* and wait look for is one of those they look for.
LEMMA MinIn ==
  ASSUME NEW S \in SUBSET Nat, S # {}
  PROVE  Min(S) \in S
<1> DEFINE T == {0..x : x \in S}
<1>1. T \subseteq FiniteSubsetsOf(Nat)
  <2> SUFFICES ASSUME NEW x \in S PROVE 0..x \in FiniteSubsetsOf(Nat)
    BY Zenon
  <2>1. IsFiniteSet(0..x)
    BY FS_Interval
  <2> QED
    BY <2>1 DEF FiniteSubsetsOf
<1>2. PICK u \in T : \A v \in T : ~ (<<v, u>> \in StrictSubsetOrdering(Nat))
  <2>1. T # {}
    BY Zenon
  <2> HIDE DEF T
  <2> QED
    BY <1>1, <2>1, FS_StrictSubsetOrderingWellFounded, WFMin, Zenon
<1>3. PICK x \in S : u = 0..x
  BY Zenon
<1>4. \A y \in S : x <= y
  <2> SUFFICES ASSUME NEW y \in S, y < x PROVE FALSE
    OBVIOUS
  <2>1. 0..y \in SUBSET Nat /\ 0..x \in SUBSET Nat /\ 0..y \subseteq 0..x
    OBVIOUS
  <2>2. 0..y # 0..x
    <3>1. x \in 0..x /\ x \notin 0..y
      OBVIOUS
    <3> QED
      BY <3>1, Zenon
  <2>3. <<0..y, 0..x>> \in StrictSubsetOrdering(Nat)
    <3> DEFINE a == 0..y  b == 0..x
    <3>1. a \in SUBSET Nat /\ b \in SUBSET Nat /\ a \subseteq b /\ a # b
      BY <2>1, <2>2, Zenon
    <3> HIDE DEF a, b
    <3>2. <<a, b>> \in StrictSubsetOrdering(Nat)
      BY <3>1, Zenon DEF StrictSubsetOrdering
    <3> QED
      BY <3>2, Zenon DEF a, b
  <2>4. 0..y \in T
    BY Zenon
  <2> QED
    BY <1>2, <1>3, <2>3, <2>4, Zenon
<1> QED
  BY <1>4, Zenon DEF Min

\* With one fork at a time, alloc_pcb runs while no other fork does.
LEMMA ForkAlone ==
  ASSUME OneFork, NEW p \in Slots, AllocPcb(p)
  PROVE  Forking = {}
<1>1. IsFiniteSet(Slots) /\ Forking \in SUBSET Slots
  BY FS_Interval, ProcAssumption DEF Slots, Forking
<1>2. IsFiniteSet(Forking) /\ Cardinality(Forking) \in Nat
  BY <1>1, FS_Subset, FS_CardinalityType, Zenon
<1>3. Cardinality(Forking) = 0
  BY <1>2, ProcAssumption DEF AllocPcb, OneFork
<1> QED
  BY <1>2, <1>3, FS_EmptySet, Zenon

-----------------------------------------------------------------------------
(* What the actions do, without the search for the first slot or page.      *)

\* alloc_pcb takes some UNUSED slot and gives it the next pid, or fork fails.
LEMMA AllocPcbFacts ==
  ASSUME OneFork, NEW p \in Slots, AllocPcb(p)
  PROVE  /\ Runs(p) /\ pc[p] = "user"
         /\ \A q \in Slots : q \notin Forking
         /\ UNCHANGED <<state, chan, parent, mem, cur, pos, slock>>
         /\ forks' = forks + 1
         /\ \/ UNCHANGED <<pid, np, lastPid, pc>>
            \/ \E s \in Slots :
                 /\ state[s] = "UNUSED"
                 /\ lastPid' = NextPid
                 /\ pid' = [pid EXCEPT ![s] = NextPid]
                 /\ np' = [np EXCEPT ![p] = s]
                 /\ pc' = [pc EXCEPT ![p] = "embryo"]
<1>1. Forking = {}
  BY ForkAlone, Zenon
<1>2. Unused # {} => Min(Unused) \in Slots /\ state[Min(Unused)] = "UNUSED"
  <2>1. Unused \in SUBSET Nat
    BY ProcAssumption DEF Unused, Slots
  <2>2. Unused # {} => Min(Unused) \in Unused
    BY <2>1, MinIn, Zenon
  <2> QED
    BY <2>2, Zenon DEF Unused
<1> QED
  BY <1>1, <1>2, Zenon DEF AllocPcb, Goto

\* The next pid is one of the container.
LEMMA NextPidType ==
  ASSUME Types
  PROVE  NextPid \in 1..NPID /\ NextPid \in Nat
  BY ProcAssumption DEF NextPid, Types

\* wait frees some ZOMBIE child.
LEMMA ReapFacts ==
  ASSUME NEW p \in Slots, Reap(p)
  PROVE  \E q \in Slots :
            /\ parent[q] = p /\ state[q] = "ZOMBIE"
            /\ state' = [state EXCEPT ![q] = "UNUSED"]
            /\ pid' = [pid EXCEPT ![q] = 0]
            /\ parent' = [parent EXCEPT ![q] = None]
            /\ free' = free \cup {kstack[q], pgdir[q]}
            /\ pc' = [pc EXCEPT ![p] = "user"]
            /\ UNCHANGED <<chan, cur, pos>>
<1>1. Zombies(p) \in SUBSET Nat /\ Zombies(p) # {}
  BY ProcAssumption DEF Zombies, Children, Slots, Reap
<1>2. Min(Zombies(p)) \in Zombies(p)
  BY <1>1, MinIn, Zenon
<1>3. /\ Min(Zombies(p)) \in Slots
      /\ parent[Min(Zombies(p))] = p /\ state[Min(Zombies(p))] = "ZOMBIE"
  BY <1>2, Zenon DEF Zombies, Children
<1> QED
  BY <1>3, Zenon DEF Reap, Freed, Goto

\* kalloc returns one of the free pages.
LEMMA FreePage ==
  ASSUME Types, free # {}
  PROVE  Min(free) \in free
<1>1. free \in SUBSET Nat
  BY ProcAssumption DEF Types, Pages
<1> QED
  BY <1>1, MinIn, Zenon

\* The process is taken off its CPU, and the scheduler goes on with some slot.
LEMMA GiveUpFacts ==
  ASSUME Types, NEW p \in Slots, GiveUp(p)
  PROVE  /\ pos' \in [CPUs -> Slots]
         /\ \E c \in CPUs : cur[c] = p /\ cur' = [cur EXCEPT ![c] = None]
  BY NextSlot, Zenon DEF GiveUp, Types

\* exit: who is woken, and who gets a new parent.
LEMMA ExitFacts ==
  ASSUME Types, NEW p \in Slots, Exit(p)
  PROVE  /\ Runs(p)
         /\ pc[p] = "user" /\ p # initproc
         /\ state' \in [Slots -> States]
         /\ state'[p] = "ZOMBIE"
         /\ \A q \in Slots \ {p} :
              state'[q] = IF state[q] = "SLEEPING" /\ chan[q] \in Wakes(p)
                            THEN "RUNNABLE" ELSE state[q]
         /\ parent' \in [Slots -> Slots \cup {None}]
         /\ \A q \in Slots : parent'[q] = IF parent[q] = p THEN initproc ELSE parent[q]
         /\ pc' = [pc EXCEPT ![p] = "exited"]
         /\ UNCHANGED <<chan, pid, mem, np, lastPid, slock, forks>>
<1>1. /\ state \in [Slots -> States]
      /\ parent \in [Slots -> Slots \cup {None}]
  BY Zenon DEF Types
<1>2. /\ state' \in [Slots -> States]
      /\ state'[p] = "ZOMBIE"
      /\ \A q \in Slots \ {p} :
           state'[q] = IF state[q] = "SLEEPING" /\ chan[q] \in Wakes(p)
                         THEN "RUNNABLE" ELSE state[q]
  BY <1>1, Zenon DEF Exit, States
<1>3. /\ parent' \in [Slots -> Slots \cup {None}]
      /\ \A q \in Slots : parent'[q] = IF parent[q] = p THEN initproc ELSE parent[q]
  BY <1>1, Addresses, Zenon DEF Exit, PassChildren, Inherited
<1> QED
  BY <1>2, <1>3, Zenon DEF Exit, Goto

-----------------------------------------------------------------------------
(* Every step preserves the invariant.                                      *)

\* Every step keeps the types.
LEMMA TypesStep ==
  ASSUME OneFork, Types, ForkInv, PageInv, Next
  PROVE  Types'
<1>1. ASSUME NEW c \in CPUs, Scan(c) PROVE Types'
  BY <1>1, NextSlot, Addresses
     DEF Scan, SwitchTo, Types, Labels, States, ForkInv, Forking, mem, slock
<1>2. CASE SdIntr
  BY <1>2, Zenon DEF SdIntr, Types, States, mem, slock
<1>3. ASSUME NEW p \in Slots, Yield(p) PROVE Types'
  BY <1>3, GiveUpFacts, Zenon DEF Yield, Types, Labels, States, mem, slock
<1>4. ASSUME NEW p \in Slots, AllocPcb(p) PROVE Types'
  BY <1>4, AllocPcbFacts, NextPidType DEF Types, Labels, ForkInv, mem, slock
<1>5. ASSUME NEW p \in Slots, Embryo(p) PROVE Types'
  BY <1>5, Zenon DEF Embryo, Goto, Types, Labels, States, ForkInv, Forking, mem, slock
<1>6. ASSUME NEW p \in Slots, AllocStack(p) PROVE Types'
  BY <1>6, FreePage DEF AllocStack, Goto, Types, Labels, States, Forking, slock
<1>7. ASSUME NEW p \in Slots, UvmCopy(p) PROVE Types'
  BY <1>7, FreePage, Zenon
     DEF UvmCopy, Goto, Types, Labels, ForkInv, Forking, ptable, slock
<1>8. ASSUME NEW p \in Slots, SetParent(p) PROVE Types'
  BY <1>8, Zenon DEF SetParent, Goto, Types, Labels, ForkInv, Forking, mem, slock
<1>9. ASSUME NEW p \in Slots, SetRunnable(p) PROVE Types'
  BY <1>9, Zenon DEF SetRunnable, Types, Labels, States, ForkInv, Forking, mem, slock
<1>10. ASSUME NEW p \in Slots, Exit(p) PROVE Types'
  <2>1. GiveUp(p)
    BY <1>10, Zenon DEF Exit
  <2>2. pos' \in [CPUs -> Slots] /\ cur' \in [CPUs -> Slots \cup {None}]
    BY <2>1, GiveUpFacts, Zenon DEF Types
  <2>3. pc' \in [Slots -> Labels]
    BY <1>10, ExitFacts, Zenon DEF Types, Labels
  <2> QED
    BY <1>10, <2>2, <2>3, ExitFacts, Zenon DEF Types, mem, slock
<1>11. ASSUME NEW p \in Slots, Wait(p) PROVE Types'
  <2>1. CASE Reap(p)
    <3>1. PICK q \in Slots :
             /\ state[q] = "ZOMBIE"
             /\ state' = [state EXCEPT ![q] = "UNUSED"]
             /\ pid' = [pid EXCEPT ![q] = 0]
             /\ parent' = [parent EXCEPT ![q] = None]
             /\ free' = free \cup {kstack[q], pgdir[q]}
             /\ pc' = [pc EXCEPT ![p] = "user"]
             /\ UNCHANGED <<chan, cur, pos>>
      BY <2>1, ReapFacts, Zenon
    <3>2. kstack[q] \in Pages /\ pgdir[q] \in Pages
      BY <3>1, Zenon DEF PageInv, Stacked, Mapped, Live
    <3> QED
      BY <1>11, <3>1, <3>2, Zenon DEF Wait, Types, Labels, States, slock
  <2>2. CASE WaitFails(p)
    BY <1>11, <2>2, Zenon DEF Wait, WaitFails, Goto, Types, Labels, ptable, slock
  <2>3. CASE WaitSleeps(p)
    BY <1>11, <2>3, GiveUpFacts, Zenon
       DEF Wait, WaitSleeps, Goto, Types, Labels, States, slock
  <2> QED
    BY <1>11, <2>1, <2>2, <2>3, Zenon DEF Wait, ForkInv
<1>12. ASSUME NEW p \in Slots, SleeplockAcquire(p) PROVE Types'
  <2>1. spin' \in Slots \cup {None}
    BY <1>12, Zenon DEF SleeplockAcquire
  <2>2. locked' \in BOOLEAN
    BY Zenon, <1>12 DEF SleeplockAcquire
  <2>3. pc' \in [Slots -> Labels]
    BY <1>12 DEF SleeplockAcquire, Goto, Types, Labels
  <2> QED
    BY <1>12, <2>2, <2>3, Addresses
       DEF SleeplockAcquire, Types, ForkInv, Forking, ptable, mem
<1>13. ASSUME NEW p \in Slots, Sleep(p) PROVE Types'
  BY <1>13, GiveUpFacts, Zenon
     DEF Sleep, Goto, Types, Labels, States, ptable, mem, slock
<1>14. ASSUME NEW p \in Slots, SleeplockRelease(p) PROVE Types'
  BY <1>14, Addresses, Zenon DEF SleeplockRelease, Goto, Types, Labels, ptable, mem
<1>15. ASSUME NEW p \in Slots, Wakeup(p) PROVE Types'
  BY <1>15, Zenon DEF Wakeup, Goto, Types, Labels, States, mem, slock
<1>16. ASSUME NEW p \in Slots, SdSleep(p) PROVE Types'
  BY <1>16, GiveUpFacts, Zenon DEF SdSleep, Types, States, mem, slock
<1> QED
  BY Zenon, <1>1, <1>2, <1>3, <1>4, <1>5, <1>6, <1>7, <1>8, <1>9, <1>10, <1>11, <1>12,
     <1>13, <1>14, <1>15, <1>16, Zenon DEF Next, Step

\* The scheduler switches only to a RUNNABLE process, and marks it before the lock is
\* released.
LEMMA CpuStep ==
  ASSUME OneFork, Types, OnOneCpu, ForkInv, Next
  PROVE  OnOneCpu'
<1>0. /\ state \in [Slots -> States]
      /\ cur \in [CPUs -> Slots \cup {None}]
      /\ np \in [Slots -> Slots \cup {None}]
      /\ pos \in [CPUs -> Slots]
  BY Zenon DEF Types
<1>1. ASSUME NEW c \in CPUs, Scan(c) PROVE OnOneCpu'
  BY <1>1, <1>0, Addresses DEF Scan, SwitchTo, OnOneCpu, Runs
<1>2. CASE SdIntr
  BY <1>2 DEF SdIntr, OnOneCpu, Runs
<1>3. ASSUME NEW p \in Slots, Yield(p) PROVE OnOneCpu'
  BY <1>3, <1>0, Addresses DEF Yield, GiveUp, OnOneCpu, Runs
<1>4. ASSUME NEW p \in Slots, AllocPcb(p) PROVE OnOneCpu'
  BY <1>4, AllocPcbFacts DEF OnOneCpu, Runs
<1>5. ASSUME NEW p \in Slots, Embryo(p) PROVE OnOneCpu'
  BY <1>5, Addresses DEF Embryo, OnOneCpu, ForkInv, Runs
<1>6. ASSUME NEW p \in Slots, AllocStack(p) PROVE OnOneCpu'
  BY <1>6, <1>0, Addresses DEF AllocStack, OnOneCpu, ForkInv, Runs
<1>7. ASSUME NEW p \in Slots, UvmCopy(p) PROVE OnOneCpu'
  BY <1>7, Zenon DEF UvmCopy, OnOneCpu, Runs, ptable
<1>8. ASSUME NEW p \in Slots, SetParent(p) PROVE OnOneCpu'
  BY <1>8, Zenon DEF SetParent, OnOneCpu, Runs
<1>9. ASSUME NEW p \in Slots, SetRunnable(p) PROVE OnOneCpu'
  BY <1>9, Addresses DEF SetRunnable, OnOneCpu, ForkInv, Runs
<1>10. ASSUME NEW p \in Slots, Exit(p) PROVE OnOneCpu'
  BY <1>10, ExitFacts, GiveUpFacts, <1>0, Addresses
     DEF Exit, OnOneCpu, ForkInv, Forking, Runs
<1>11. ASSUME NEW p \in Slots, Wait(p) PROVE OnOneCpu'
  <2>1. CASE Reap(p)
    <3>1. PICK q \in Slots :
             /\ parent[q] = p /\ state[q] = "ZOMBIE"
             /\ state' = [state EXCEPT ![q] = "UNUSED"]
             /\ pid' = [pid EXCEPT ![q] = 0]
             /\ parent' = [parent EXCEPT ![q] = None]
             /\ pc' = [pc EXCEPT ![p] = "user"]
             /\ UNCHANGED <<chan, cur, pos>>
      BY <2>1, ReapFacts, Zenon
    <3> QED
      BY <3>1 DEF OnOneCpu, Runs
  <2>2. CASE WaitFails(p)
    BY <2>2, Zenon DEF WaitFails, Goto, OnOneCpu, Runs, ptable
  <2>3. CASE WaitSleeps(p)
    BY <2>3, <1>0, Addresses DEF WaitSleeps, Zombies, Children, Goto, GiveUp,
           OnOneCpu, ForkInv, Forking, Runs
  <2> QED
    BY <1>11, <2>1, <2>2, <2>3, Zenon DEF Wait
<1>12. ASSUME NEW p \in Slots, SleeplockAcquire(p) PROVE OnOneCpu'
  BY <1>12, Zenon DEF SleeplockAcquire, OnOneCpu, Runs, ptable
<1>13. ASSUME NEW p \in Slots, Sleep(p) PROVE OnOneCpu'
  BY <1>13, <1>0, Addresses DEF Sleep, GiveUp, OnOneCpu, Runs
<1>14. ASSUME NEW p \in Slots, SleeplockRelease(p) PROVE OnOneCpu'
  BY <1>14, Zenon DEF SleeplockRelease, OnOneCpu, Runs, ptable
<1>15. ASSUME NEW p \in Slots, Wakeup(p) PROVE OnOneCpu'
  BY <1>15, Zenon DEF Wakeup, OnOneCpu, Runs
<1>16. ASSUME NEW p \in Slots, SdSleep(p) PROVE OnOneCpu'
  BY <1>16, <1>0, Addresses DEF SdSleep, GiveUp, OnOneCpu, Runs
<1> QED
  BY Zenon, <1>1, <1>2, <1>3, <1>4, <1>5, <1>6, <1>7, <1>8, <1>9, <1>10, <1>11, <1>12,
     <1>13, <1>14, <1>15, <1>16, Zenon DEF Next, Step

\* A fork keeps its slot to itself.
LEMMA ForkStep ==
  ASSUME OneFork, Types, OnOneCpu, ForkInv, LabelInv, Next
  PROVE  ForkInv'
<1>0. /\ state \in [Slots -> States]
      /\ pc \in [Slots -> Labels]
      /\ np \in [Slots -> Slots \cup {None}]
      /\ pos \in [CPUs -> Slots]
  BY Zenon DEF Types
<1>1. ASSUME NEW c \in CPUs, Scan(c) PROVE ForkInv'
  BY <1>1, <1>0 DEF Scan, SwitchTo, ForkInv, Forking
<1>2. CASE SdIntr
  BY <1>2 DEF SdIntr, ForkInv, Forking
<1>3. ASSUME NEW p \in Slots, Yield(p) PROVE ForkInv'
  BY <1>3 DEF Yield, OnOneCpu, ForkInv, Forking
<1>4. ASSUME NEW p \in Slots, AllocPcb(p) PROVE ForkInv'
  BY <1>4, AllocPcbFacts, <1>0, Addresses DEF OnOneCpu, ForkInv, Forking
<1>5. ASSUME NEW p \in Slots, Embryo(p) PROVE ForkInv'
  BY <1>5, <1>0 DEF Embryo, Goto, ForkInv, Forking, slock
<1>6. ASSUME NEW p \in Slots, AllocStack(p) PROVE ForkInv'
  BY <1>6, <1>0 DEF AllocStack, Goto, ForkInv, Forking, ptable, mem, slock
<1>7. ASSUME NEW p \in Slots, UvmCopy(p) PROVE ForkInv'
  BY <1>7 DEF UvmCopy, Goto, ForkInv, Forking, ptable
<1>8. ASSUME NEW p \in Slots, SetParent(p) PROVE ForkInv'
  BY <1>8 DEF SetParent, Goto, ForkInv, Forking
<1>9. ASSUME NEW p \in Slots, SetRunnable(p) PROVE ForkInv'
  BY <1>9, <1>0 DEF SetRunnable, ForkInv, Forking
<1>10. ASSUME NEW p \in Slots, Exit(p) PROVE ForkInv'
  BY <1>10, ExitFacts, <1>0, Addresses
     DEF Runs, OnOneCpu, ForkInv, LabelInv, Forking, mem, slock
<1>11. ASSUME NEW p \in Slots, Wait(p) PROVE ForkInv'
  <2>1. CASE Reap(p)
    <3>1. PICK q \in Slots :
             /\ parent[q] = p /\ state[q] = "ZOMBIE"
             /\ state' = [state EXCEPT ![q] = "UNUSED"]
             /\ pid' = [pid EXCEPT ![q] = 0]
             /\ parent' = [parent EXCEPT ![q] = None]
             /\ pc' = [pc EXCEPT ![p] = "user"]
             /\ UNCHANGED <<chan, cur, pos>>
      BY <2>1, ReapFacts, Zenon
    <3> QED
      BY <1>11, <3>1 DEF Wait, ForkInv, Forking
  <2>2. CASE WaitFails(p)
    BY <1>11, <2>2 DEF Wait, WaitFails, Goto, ForkInv, Forking, ptable
  <2>3. CASE WaitSleeps(p)
    BY <1>11, <2>3 DEF Wait, WaitSleeps, Zombies, Children, Goto, GiveUp, OnOneCpu,
           ForkInv, Forking
  <2> QED
    BY <1>11, <2>1, <2>2, <2>3, <1>0, Zenon
       DEF Wait, OnOneCpu, ForkInv, LabelInv, Forking, slock
<1>12. ASSUME NEW p \in Slots, SleeplockAcquire(p) PROVE ForkInv'
  BY <1>12, <1>0 DEF SleeplockAcquire, Goto, ForkInv, Forking, ptable, mem
<1>13. ASSUME NEW p \in Slots, Sleep(p) PROVE ForkInv'
  BY <1>13 DEF Sleep, Goto, OnOneCpu, ForkInv, Forking
<1>14. ASSUME NEW p \in Slots, SleeplockRelease(p) PROVE ForkInv'
  BY <1>14 DEF SleeplockRelease, Goto, ForkInv, Forking, ptable
<1>15. ASSUME NEW p \in Slots, Wakeup(p) PROVE ForkInv'
  BY <1>15, <1>0 DEF Wakeup, Goto, ForkInv, Forking
<1>16. ASSUME NEW p \in Slots, SdSleep(p) PROVE ForkInv'
  BY <1>16 DEF SdSleep, OnOneCpu, ForkInv, Forking
<1> QED
  BY Zenon, <1>1, <1>2, <1>3, <1>4, <1>5, <1>6, <1>7, <1>8, <1>9, <1>10, <1>11, <1>12,
     <1>13, <1>14, <1>15, <1>16, Zenon DEF Next, Step

\* A process leaves the CPU only where it sleeps or yields.
LEMMA LabelStep ==
  ASSUME OneFork, Types, OnOneCpu, ForkInv, LabelInv, Next
  PROVE  LabelInv'
<1>0. /\ state \in [Slots -> States]
      /\ pc \in [Slots -> Labels]
      /\ np \in [Slots -> Slots \cup {None}]
      /\ pos \in [CPUs -> Slots]
      /\ chan \in [Slots -> Slots \cup {None, sleeplock, sdbuf}]
  BY Zenon DEF Types
<1>1. ASSUME NEW c \in CPUs, Scan(c) PROVE LabelInv'
  BY <1>1, <1>0, Zenon DEF Scan, SwitchTo, LabelInv
<1>2. CASE SdIntr
  BY <1>2 DEF SdIntr, LabelInv
<1>3. ASSUME NEW p \in Slots, Yield(p) PROVE LabelInv'
  BY <1>3 DEF Yield, LabelInv
<1>4. ASSUME NEW p \in Slots, AllocPcb(p) PROVE LabelInv'
  BY Zenon, <1>4, AllocPcbFacts, <1>0 DEF OnOneCpu, LabelInv
<1>5. ASSUME NEW p \in Slots, Embryo(p) PROVE LabelInv'
  BY <1>5, Addresses DEF Embryo, Goto, ForkInv, LabelInv
<1>6. ASSUME NEW p \in Slots, AllocStack(p) PROVE LabelInv'
  BY <1>6, <1>0, Addresses DEF AllocStack, Goto, ForkInv, LabelInv
<1>7. ASSUME NEW p \in Slots, UvmCopy(p) PROVE LabelInv'
  <2>1. /\ state' = state /\ chan' = chan /\ pc' = [pc EXCEPT ![p] = "parent"]
        /\ state[p] = "RUNNING"
    BY <1>7, Zenon DEF UvmCopy, Goto, ptable, OnOneCpu
  <2> QED
    BY <1>0, <2>1, Zenon DEF LabelInv
<1>8. ASSUME NEW p \in Slots, SetParent(p) PROVE LabelInv'
  BY <1>8 DEF SetParent, Goto, LabelInv
<1>9. ASSUME NEW p \in Slots, SetRunnable(p) PROVE LabelInv'
  BY <1>9, <1>0, Zenon DEF SetRunnable, LabelInv
<1>10. ASSUME NEW p \in Slots, Exit(p) PROVE LabelInv'
  BY <1>10, ExitFacts, <1>0 DEF LabelInv, mem
<1>11. ASSUME NEW p \in Slots, Wait(p) PROVE LabelInv'
  <2>1. CASE Reap(p)
    <3>1. PICK q \in Slots :
             /\ parent[q] = p /\ state[q] = "ZOMBIE"
             /\ state' = [state EXCEPT ![q] = "UNUSED"]
             /\ pid' = [pid EXCEPT ![q] = 0]
             /\ parent' = [parent EXCEPT ![q] = None]
             /\ pc' = [pc EXCEPT ![p] = "user"]
             /\ UNCHANGED <<chan, cur, pos>>
      BY Zenon, <2>1, ReapFacts DEF Forking
    <3> QED
      BY <1>11, <3>1 DEF Wait, OnOneCpu, LabelInv
  <2>2. CASE WaitFails(p)
    BY <1>11, <2>2 DEF Wait, WaitFails, Goto, OnOneCpu, ForkInv, LabelInv, ptable
  <2>3. CASE WaitSleeps(p)
    BY <2>3, <1>0, Zenon DEF WaitSleeps, Goto, LabelInv
  <2> QED
    BY <1>11, <2>1, <2>2, <2>3, Zenon DEF Wait
<1>12. ASSUME NEW p \in Slots, SleeplockAcquire(p) PROVE LabelInv'
  BY Zenon, <1>12, <1>0 DEF SleeplockAcquire, Goto, OnOneCpu, LabelInv, ptable
<1>13. ASSUME NEW p \in Slots, Sleep(p) PROVE LabelInv'
  BY <1>13, <1>0, Zenon DEF Sleep, Goto, LabelInv
<1>14. ASSUME NEW p \in Slots, SleeplockRelease(p) PROVE LabelInv'
  BY <1>14 DEF SleeplockRelease, Goto, Runs, OnOneCpu, LabelInv, ptable
<1>15. ASSUME NEW p \in Slots, Wakeup(p) PROVE LabelInv'
  BY <1>15 DEF Wakeup, Goto, LabelInv
<1>16. ASSUME NEW p \in Slots, SdSleep(p) PROVE LabelInv'
  BY <1>16, <1>0, Zenon DEF SdSleep, LabelInv
<1> QED
  BY Zenon, <1>1, <1>2, <1>3, <1>4, <1>5, <1>6, <1>7, <1>8, <1>9, <1>10, <1>11, <1>12,
     <1>13, <1>14, <1>15, <1>16, Zenon DEF Next, Step

\* A step that leaves the sleeplock alone, moves no process into or out of sleep and
\* the lock, and puts nobody to sleep on it keeps LockInv.
LEMMA SameLock ==
  ASSUME LockInv, locked' = locked, spin' = spin,
         \A q \in Slots : /\ pc'[q] = "sleep" <=> pc[q] = "sleep"
                          /\ pc'[q] = "hold" <=> pc[q] = "hold"
                          /\ pc[q] = "wakeup" => pc'[q] = "wakeup",
         \A q \in Slots : state'[q] = "SLEEPING" /\ chan'[q] = sleeplock =>
                          state[q] = "SLEEPING" /\ chan[q] = sleeplock
  PROVE  LockInv'
BY Zenon DEF LockInv

\* Nobody takes a sleeplock that is taken, and SleepLock.lock is held from the test to
\* the sleep.
LEMMA LockStep ==
  ASSUME OneFork, Types, OnOneCpu, ForkInv, LabelInv, LockInv, Next
  PROVE  LockInv'
<1>0. /\ state \in [Slots -> States]
      /\ pc \in [Slots -> Labels]
      /\ np \in [Slots -> Slots \cup {None}]
      /\ pos \in [CPUs -> Slots]
      /\ chan \in [Slots -> Slots \cup {None, sleeplock, sdbuf}]
      /\ locked \in BOOLEAN
      /\ spin \in Slots \cup {None}
  BY Zenon DEF Types
<1>1. ASSUME NEW c \in CPUs, Scan(c) PROVE LockInv'
  BY <1>1, <1>0, SameLock, Zenon DEF Scan, SwitchTo, slock
<1>2. CASE SdIntr
  BY <1>2, <1>0, SameLock, Zenon DEF SdIntr, slock
<1>3. ASSUME NEW p \in Slots, Yield(p) PROVE LockInv'
  BY <1>3, <1>0, SameLock, Zenon DEF Yield, slock
<1>4. ASSUME NEW p \in Slots, AllocPcb(p) PROVE LockInv'
  BY <1>4, <1>0, SameLock, AllocPcbFacts DEF slock
<1>5. ASSUME NEW p \in Slots, Embryo(p) PROVE LockInv'
  BY <1>5, <1>0, SameLock, Zenon DEF Embryo, Goto, slock
<1>6. ASSUME NEW p \in Slots, AllocStack(p) PROVE LockInv'
  BY <1>6, <1>0, SameLock DEF AllocStack, Goto, slock
<1>7. ASSUME NEW p \in Slots, UvmCopy(p) PROVE LockInv'
  BY <1>7, <1>0, SameLock, Zenon DEF UvmCopy, Goto, ptable, slock
<1>8. ASSUME NEW p \in Slots, SetParent(p) PROVE LockInv'
  BY <1>8, <1>0, SameLock, Zenon DEF SetParent, Goto, slock
<1>9. ASSUME NEW p \in Slots, SetRunnable(p) PROVE LockInv'
  <2>1. np[p] \in Slots /\ pc[np[p]] \notin {"sleep", "hold", "wakeup"}
    BY <1>9, <1>0 DEF SetRunnable, OnOneCpu, ForkInv, LabelInv, Forking
  <2> QED
    BY <1>9, <1>0, <2>1, SameLock, Zenon DEF SetRunnable, slock
<1>10. ASSUME NEW p \in Slots, Exit(p) PROVE LockInv'
  BY <1>10, <1>0, SameLock, ExitFacts, Zenon DEF slock
<1>11. ASSUME NEW p \in Slots, Wait(p) PROVE LockInv'
  <2>1. CASE Reap(p)
    BY <1>11, <1>0, <2>1, SameLock, ReapFacts DEF Wait, slock
  <2>2. CASE WaitFails(p)
    BY <1>11, <1>0, <2>2, SameLock, Zenon DEF Wait, WaitFails, Goto, ptable, slock
  <2>3. CASE WaitSleeps(p)
    BY <1>11, <1>0, <2>3, SameLock, Addresses, Zenon DEF Wait, WaitSleeps, Goto, slock
  <2> QED
    BY <1>11, <2>1, <2>2, <2>3, Zenon DEF Wait
<1>12. ASSUME NEW p \in Slots, SleeplockAcquire(p) PROVE LockInv'
  BY <1>12, <1>0, Addresses DEF SleeplockAcquire, Goto, LockInv
<1>13. ASSUME NEW p \in Slots, Sleep(p) PROVE LockInv'
  BY <1>13, <1>0, Addresses DEF Sleep, Goto, LockInv
<1>14. ASSUME NEW p \in Slots, SleeplockRelease(p) PROVE LockInv'
  BY <1>14, <1>0, Zenon DEF SleeplockRelease, Goto, LockInv
<1>15. ASSUME NEW p \in Slots, Wakeup(p) PROVE LockInv'
  <2>1. state[p] # "SLEEPING"
    BY <1>15, Zenon DEF Wakeup, Runs, OnOneCpu
  <2>2. /\ pc[p] = "wakeup" /\ pc' = [pc EXCEPT ![p] = "user"]
        /\ UNCHANGED <<chan, locked, spin>>
    BY <1>15, Zenon DEF Wakeup, Goto, slock
  <2>3. \A q \in Slots : ~(state'[q] = "SLEEPING" /\ chan'[q] = sleeplock)
    BY <1>15, <2>1, Zenon DEF Wakeup
  <2> QED
    BY <1>0, <2>2, <2>3, Zenon DEF LockInv
<1>16. ASSUME NEW p \in Slots, SdSleep(p) PROVE LockInv'
  BY <1>16, <1>0, SameLock, Addresses, Zenon DEF SdSleep, slock
<1> QED
  BY Zenon, <1>1, <1>2, <1>3, <1>4, <1>5, <1>6, <1>7, <1>8, <1>9, <1>10, <1>11, <1>12,
     <1>13, <1>14, <1>15, <1>16, Zenon DEF Next, Step


\* A step that changes no parent and no fork, and takes processes only from one of
\* the states RUNNABLE, RUNNING and SLEEPING to another, keeps FamilyInv.
LEMMA SameFamily ==
  ASSUME FamilyInv, Types, parent' = parent, np' = np,
         \A s \in Slots : state'[s] = state[s] \/ (Alive(s) /\ Alive(s)'),
         \A s \in Slots : pc'[s] = "runnable" <=> pc[s] = "runnable"
  PROVE  FamilyInv'
<1>1. \A s \in Slots : /\ Alive(s)' <=> Alive(s)
                       /\ Live(s)' <=> Live(s)
                       /\ state'[s] = "UNUSED" => state[s] = "UNUSED"
                       /\ state'[s] = "EMBRYO" => state[s] = "EMBRYO"
  BY Zenon DEF Alive, Live
<1>2. parent \in [Slots -> Slots \cup {None}] /\ initproc \in Slots
  BY Addresses, Zenon DEF Types
<1> HIDE DEF Alive, Live
<1> QED
  BY <1>1, <1>2 DEF FamilyInv

\* exit passes the children on before anybody can see the ZOMBIE.
LEMMA FamilyStep ==
  ASSUME OneFork, Types, OnOneCpu, ForkInv, LabelInv, FamilyInv, Next
  PROVE  FamilyInv'
<1>0. /\ state \in [Slots -> States]
      /\ pc \in [Slots -> Labels]
      /\ np \in [Slots -> Slots \cup {None}]
      /\ pos \in [CPUs -> Slots]
      /\ parent \in [Slots -> Slots \cup {None}]
  BY Zenon DEF Types
<1>1. ASSUME NEW c \in CPUs, Scan(c) PROVE FamilyInv'
  BY <1>1, <1>0, SameFamily, Zenon DEF Scan, SwitchTo, Alive
<1>2. CASE SdIntr
  BY <1>2, <1>0, SameFamily, Zenon DEF SdIntr, Alive
<1>3. ASSUME NEW p \in Slots, Yield(p) PROVE FamilyInv'
  BY <1>3, <1>0, SameFamily, Zenon DEF Yield, OnOneCpu, Alive
<1>4. ASSUME NEW p \in Slots, AllocPcb(p) PROVE FamilyInv'
  BY <1>4, AllocPcbFacts, <1>0 DEF FamilyInv, Live, Alive, mem
<1>5. ASSUME NEW p \in Slots, Embryo(p) PROVE FamilyInv'
  BY <1>5, Addresses DEF Embryo, Goto, ForkInv, FamilyInv, Live, Alive
<1>6. ASSUME NEW p \in Slots, AllocStack(p) PROVE FamilyInv'
  BY <1>6, <1>0, Addresses
     DEF AllocStack, Goto, ForkInv, LabelInv, FamilyInv, Forking, Live, Alive
<1>7. ASSUME NEW p \in Slots, UvmCopy(p) PROVE FamilyInv'
  BY <1>7, <1>0, SameFamily, Zenon DEF UvmCopy, Goto, ptable
<1>8. ASSUME NEW p \in Slots, SetParent(p) PROVE FamilyInv'
  BY <1>8, <1>0 DEF SetParent, Goto, ForkInv, FamilyInv, Forking, Live, Alive
<1>9. ASSUME NEW p \in Slots, SetRunnable(p) PROVE FamilyInv'
  BY <1>9, <1>0, Addresses DEF SetRunnable, ForkInv, FamilyInv, Forking, Live, Alive
<1>10. ASSUME NEW p \in Slots, Exit(p) PROVE FamilyInv'
  BY <1>10, ExitFacts, <1>0, Addresses
     DEF OnOneCpu, ForkInv, FamilyInv, Forking, Live, Alive
<1>11. ASSUME NEW p \in Slots, Wait(p) PROVE FamilyInv'
  <2>1. CASE Reap(p)
    <3>1. PICK q \in Slots :
             /\ parent[q] = p /\ state[q] = "ZOMBIE"
             /\ state' = [state EXCEPT ![q] = "UNUSED"]
             /\ pid' = [pid EXCEPT ![q] = 0]
             /\ parent' = [parent EXCEPT ![q] = None]
             /\ pc' = [pc EXCEPT ![p] = "user"]
             /\ UNCHANGED <<chan, cur, pos>>
      BY <2>1, ReapFacts, Zenon
    <3> QED
      BY <1>11, <3>1, <1>0, Addresses DEF Wait, FamilyInv, Live, Alive
  <2>2. CASE WaitFails(p)
    BY <1>11, <2>2, <1>0, SameFamily, Zenon DEF Wait, WaitFails, Goto, ptable
  <2>3. CASE WaitSleeps(p)
    BY <1>11, <2>3, <1>0, SameFamily, Zenon
       DEF Wait, WaitSleeps, Goto, OnOneCpu, Alive
  <2> QED
    BY <1>11, <2>1, <2>2, <2>3, Zenon DEF Wait, ForkInv, Forking, Live, Alive
<1>12. ASSUME NEW p \in Slots, SleeplockAcquire(p) PROVE FamilyInv'
  BY <1>12, <1>0, SameFamily, Zenon DEF SleeplockAcquire, Goto, ptable
<1>13. ASSUME NEW p \in Slots, Sleep(p) PROVE FamilyInv'
  BY <1>13, <1>0, SameFamily, Zenon DEF Sleep, Goto, OnOneCpu, Alive
<1>14. ASSUME NEW p \in Slots, SleeplockRelease(p) PROVE FamilyInv'
  BY <1>14, <1>0, SameFamily, Zenon DEF SleeplockRelease, Goto, ptable
<1>15. ASSUME NEW p \in Slots, Wakeup(p) PROVE FamilyInv'
  BY <1>15, <1>0, SameFamily, Zenon DEF Wakeup, Goto, Alive
<1>16. ASSUME NEW p \in Slots, SdSleep(p) PROVE FamilyInv'
  BY <1>16, <1>0, SameFamily, Zenon DEF SdSleep, OnOneCpu, Alive
<1> QED
  BY Zenon, <1>1, <1>2, <1>3, <1>4, <1>5, <1>6, <1>7, <1>8, <1>9, <1>10, <1>11, <1>12,
     <1>13, <1>14, <1>15, <1>16 DEF Next, Step

\* A step after which nobody is a ZOMBIE or sleeps in wait who was not before.
LEMMA SameSlept ==
  ASSUME NoZombieSlept, parent' = parent,
         \A s \in Slots : state'[s] = "ZOMBIE" => state[s] = "ZOMBIE",
         \A s \in Slots : state'[s] = "SLEEPING" /\ pc'[s] = "wait"
                          => state[s] = "SLEEPING" /\ pc[s] = "wait"
  PROVE  NoZombieSlept'
<1>1. \A s \in Slots : Children(s)' = Children(s) /\ Zombies(s)' \subseteq Zombies(s)
  BY Zenon DEF Children, Zombies
<1> QED
  BY <1>1, Zenon DEF NoZombieSlept

\* exit wakes the parent, and initproc for the children it passes on.
LEMMA WaitStep ==
  ASSUME OneFork, Types, OnOneCpu, ForkInv, LabelInv, FamilyInv, NoZombieSlept, Next
  PROVE  NoZombieSlept'
<1>0. /\ state \in [Slots -> States]
      /\ pc \in [Slots -> Labels]
      /\ np \in [Slots -> Slots \cup {None}]
      /\ pos \in [CPUs -> Slots]
      /\ parent \in [Slots -> Slots \cup {None}]
      /\ chan \in [Slots -> Slots \cup {None, sleeplock, sdbuf}]
  BY Zenon DEF Types
<1>1. ASSUME NEW c \in CPUs, Scan(c) PROVE NoZombieSlept'
  BY <1>1, <1>0, Zenon DEF Scan, SwitchTo, NoZombieSlept, Children, Zombies
<1>2. CASE SdIntr
  BY <1>0, <1>2, SameSlept, Zenon DEF SdIntr
<1>3. ASSUME NEW p \in Slots, Yield(p) PROVE NoZombieSlept'
  BY <1>0, <1>3, SameSlept, Zenon DEF Yield
<1>4. ASSUME NEW p \in Slots, AllocPcb(p) PROVE NoZombieSlept'
  <2>1. /\ state' = state /\ parent' = parent
        /\ \A s \in Slots : pc'[s] = "wait" => pc[s] = "wait"
    BY <1>0, <1>4, AllocPcbFacts, Zenon
  <2> QED
    BY <2>1, SameSlept, Zenon
<1>5. ASSUME NEW p \in Slots, Embryo(p) PROVE NoZombieSlept'
  BY <1>0, <1>5, SameSlept, Zenon DEF Embryo, Goto
<1>6. ASSUME NEW p \in Slots, AllocStack(p) PROVE NoZombieSlept'
  <2>1. /\ state' = state \/ state' = [state EXCEPT ![np[p]] = "UNUSED"]
        /\ pc' = [pc EXCEPT ![p] = "copy"] \/ pc' = [pc EXCEPT ![p] = "user"]
        /\ parent' = parent
    BY <1>6, Zenon DEF AllocStack, Goto
  <2>2. \A s \in Slots : state'[s] \in {state[s], "UNUSED"}
    BY <1>0, <2>1, Zenon
  <2>3. \A s \in Slots : pc'[s] = "wait" => pc[s] = "wait"
    BY <1>0, <2>1, Zenon
  <2> QED
    BY <2>1, <2>2, <2>3, SameSlept, Zenon
<1>7. ASSUME NEW p \in Slots, UvmCopy(p) PROVE NoZombieSlept'
  BY <1>0, <1>7, SameSlept, Zenon DEF UvmCopy, Goto, ptable
<1>8. ASSUME NEW p \in Slots, SetParent(p) PROVE NoZombieSlept'
  BY <1>8, Addresses DEF SetParent, Goto, ForkInv, FamilyInv, NoZombieSlept,
         Children, Zombies
<1>9. ASSUME NEW p \in Slots, SetRunnable(p) PROVE NoZombieSlept'
  BY <1>9, <1>0, Zenon DEF SetRunnable, NoZombieSlept, Children, Zombies
<1>10. ASSUME NEW p \in Slots, Exit(p) PROVE NoZombieSlept'
  <2> SUFFICES ASSUME NEW s \in Slots, state'[s] = "SLEEPING", pc'[s] = "wait"
               PROVE  Children(s)' # {} /\ Zombies(s)' = {}
    BY Zenon DEF NoZombieSlept
  <2>1. /\ s # p /\ state[s] = "SLEEPING" /\ pc[s] = "wait" /\ chan[s] = s
        /\ s \notin Wakes(p)
    BY <1>10, ExitFacts, <1>0 DEF LabelInv
  <2>2. s # parent[p] /\ \E q \in Slots : parent[q] = s
    BY <2>1, Zenon DEF Wakes, NoZombieSlept, Children
  <2>3. \A q \in Slots : parent[q] = s => parent'[q] = s
    BY <1>10, ExitFacts DEF OnOneCpu, ForkInv, NoZombieSlept, Forking
  <2>4. ASSUME NEW q \in Slots, parent'[q] = s, state'[q] = "ZOMBIE" PROVE FALSE
    <3>1. CASE q = p
      BY <1>10, <2>2, <2>4, <3>1, ExitFacts, <1>0 DEF LabelInv, FamilyInv,
             NoZombieSlept, Forking, Live, Alive, Children, Zombies
    <3>2. CASE q # p /\ parent[q] = p
      <4>1. s = initproc /\ state[q] = "ZOMBIE"
        BY <1>10, <2>4, <3>2, ExitFacts DEF ForkInv, Alive, Zombies
      <4> QED
        BY <2>1, <3>2, <4>1, Zenon
           DEF Wakes, Inherited, LabelInv, NoZombieSlept, Forking, Children
    <3>3. CASE q # p /\ parent[q] # p
      BY <1>10, <2>1, <2>4, <3>3, ExitFacts, <1>0, Addresses DEF OnOneCpu, ForkInv,
             LabelInv, FamilyInv, NoZombieSlept, Forking, Alive, Children, Zombies,
             slock
    <3> QED
      BY <3>1, <3>2, <3>3, Zenon
  <2> QED
    BY <2>2, <2>3, <2>4, <1>0, Addresses DEF OnOneCpu, ForkInv, LabelInv,
           FamilyInv, NoZombieSlept, Forking, Live, Alive, Children, Zombies
<1>11. ASSUME NEW p \in Slots, Wait(p) PROVE NoZombieSlept'
  <2>1. CASE Reap(p)
    <3>1. PICK q \in Slots :
             /\ parent[q] = p /\ state[q] = "ZOMBIE"
             /\ state' = [state EXCEPT ![q] = "UNUSED"]
             /\ pid' = [pid EXCEPT ![q] = 0]
             /\ parent' = [parent EXCEPT ![q] = None]
             /\ pc' = [pc EXCEPT ![p] = "user"]
             /\ UNCHANGED <<chan, cur, pos>>
      BY <2>1, ReapFacts DEF OnOneCpu, ForkInv, LabelInv, FamilyInv, NoZombieSlept,
             Forking, Live, Alive, Children, Zombies
    <3> QED
      BY <3>1, Addresses
         DEF ForkInv, NoZombieSlept, Forking, Live, Alive, Children, Zombies
  <2>2. CASE WaitFails(p)
    BY <2>2 DEF WaitFails, Goto, OnOneCpu, ForkInv, LabelInv, FamilyInv,
           NoZombieSlept, Forking, Live, Children, Zombies, ptable
  <2>3. CASE WaitSleeps(p)
    BY <2>3 DEF WaitSleeps, Goto, ForkInv, FamilyInv, NoZombieSlept, Forking,
           Alive, Children, Zombies
  <2> QED
    BY <1>11, <2>1, <2>2, <2>3, <1>0, Addresses, Zenon
       DEF Wait, FamilyInv, Forking, Live, Alive
<1>12. ASSUME NEW p \in Slots, SleeplockAcquire(p) PROVE NoZombieSlept'
  BY <1>12, <1>0 DEF SleeplockAcquire, Goto, ForkInv, LabelInv, NoZombieSlept,
         Alive, Children, Zombies, ptable, mem
<1>13. ASSUME NEW p \in Slots, Sleep(p) PROVE NoZombieSlept'
  BY <1>13 DEF Sleep, Goto, NoZombieSlept, Children, Zombies
<1>14. ASSUME NEW p \in Slots, SleeplockRelease(p) PROVE NoZombieSlept'
  BY <1>14 DEF SleeplockRelease, Goto, NoZombieSlept, Children, Zombies, ptable
<1>15. ASSUME NEW p \in Slots, Wakeup(p) PROVE NoZombieSlept'
  BY <1>15 DEF Wakeup, Goto, LabelInv, NoZombieSlept, Forking, Children, Zombies
<1>16. ASSUME NEW p \in Slots, SdSleep(p) PROVE NoZombieSlept'
  BY <1>16 DEF SdSleep, NoZombieSlept, Children, Zombies
<1> QED
  BY Zenon, <1>1, <1>2, <1>3, <1>4, <1>5, <1>6, <1>7, <1>8, <1>9, <1>10, <1>11, <1>12,
     <1>13, <1>14, <1>15, <1>16, Zenon DEF Next, Step

\* A step that gives out no pid, and no slot that nobody has, keeps PidInv.
LEMMA SamePids ==
  ASSUME PidInv, pid' = pid, lastPid' = lastPid, \A s \in Slots : Named(s)' => Named(s)
  PROVE  PidInv'
BY Zenon DEF PidInv

\* A new pid is larger than all others, until the last one is reached.
LEMMA PidStep ==
  ASSUME OneFork, Types, OnOneCpu, ForkInv, PidInv, Next
  PROVE  PidInv'
<1>0. /\ state \in [Slots -> States]
      /\ pc \in [Slots -> Labels]
      /\ np \in [Slots -> Slots \cup {None}]
      /\ pos \in [CPUs -> Slots]
      /\ pid \in [Slots -> Nat]
      /\ lastPid \in 1..NPID
  BY Zenon DEF Types
<1>1. ASSUME NEW c \in CPUs, Scan(c) PROVE PidInv'
  BY <1>1, <1>0, SamePids, Zenon DEF Scan, SwitchTo, Live, Named
<1>2. CASE SdIntr
  BY <1>2, <1>0, SamePids, Zenon DEF SdIntr, Live, Named
<1>3. ASSUME NEW p \in Slots, Yield(p) PROVE PidInv'
  BY <1>3, <1>0, SamePids, Zenon DEF Yield, OnOneCpu, Live, Named
<1>4. ASSUME NEW p \in Slots, AllocPcb(p) PROVE PidInv'
  <2>1. CASE UNCHANGED <<pid, np, lastPid, pc>>
    BY <1>4, <2>1, AllocPcbFacts DEF PidInv, Live, Named
  <2>2. CASE ~ UNCHANGED <<pid, np, lastPid, pc>>
    <3>1. PICK s \in Slots :
             /\ state[s] = "UNUSED"
             /\ lastPid' = NextPid
             /\ pid' = [pid EXCEPT ![s] = NextPid]
             /\ np' = [np EXCEPT ![p] = s]
      BY <1>4, <2>2, AllocPcbFacts, Zenon DEF mem
    <3>2. PICK n \in 1..NPID : n = NextPid /\ lastPid <= n /\ (n < NPID => lastPid < n)
      BY ProcAssumption, <1>0 DEF NextPid
    <3>3. \A t \in Slots : pid'[t] = IF t = s THEN n ELSE pid[t]
      BY <3>1, <3>2, <1>0, Zenon
    <3>4. \A t \in Slots : Named(t)' => Named(t) \/ t = s
      BY <1>4, <3>1, AllocPcbFacts DEF Live, Named
    <3>5. \A t \in Slots : pid'[t] <= lastPid'
      <4> SUFFICES ASSUME NEW t \in Slots PROVE pid'[t] <= n
        BY <3>1, <3>2, Zenon
      <4>1. pid[t] <= lastPid /\ pid[t] \in Nat
        BY <1>0, Zenon DEF PidInv
      <4> QED
        BY <1>0, <3>2, <3>3, <4>1
    <3>6. ASSUME NEW t \in Slots, NEW u \in Slots, Named(t)', Named(u)',
                 pid'[t] = pid'[u], pid'[t] < NPID
          PROVE  t = u
      <4>1. pid[t] <= lastPid /\ pid[u] <= lastPid
        BY Zenon DEF PidInv
      <4> QED
        BY <3>2, <3>3, <3>4, <3>6, <4>1, ProcAssumption, <1>0, Addresses
           DEF OnOneCpu, ForkInv, PidInv, Forking, Live, Named
    <3> QED
      BY <3>5, <3>6, Zenon DEF PidInv
  <2> QED
    BY <2>1, <2>2, Zenon
<1>5. ASSUME NEW p \in Slots, Embryo(p) PROVE PidInv'
  BY <1>5, <1>0, SamePids, Zenon DEF Embryo, Live, Named
<1>6. ASSUME NEW p \in Slots, AllocStack(p) PROVE PidInv'
  BY <1>6, <1>0, Addresses, SamePids DEF AllocStack, Live, Named
<1>7. ASSUME NEW p \in Slots, UvmCopy(p) PROVE PidInv'
  BY <1>7, <1>0, SamePids, Zenon DEF UvmCopy, Live, Named, ptable
<1>8. ASSUME NEW p \in Slots, SetParent(p) PROVE PidInv'
  BY <1>8, <1>0, SamePids, Zenon DEF SetParent, Live, Named
<1>9. ASSUME NEW p \in Slots, SetRunnable(p) PROVE PidInv'
  BY <1>9, <1>0, Addresses, SamePids, Zenon DEF SetRunnable, Live, Named
<1>10. ASSUME NEW p \in Slots, Exit(p) PROVE PidInv'
  BY <1>10, ExitFacts, SamePids, Zenon DEF OnOneCpu, Live, Named
<1>11. ASSUME NEW p \in Slots, Wait(p) PROVE PidInv'
  <2>1. CASE Reap(p)
    <3>1. PICK q \in Slots :
             /\ parent[q] = p /\ state[q] = "ZOMBIE"
             /\ state' = [state EXCEPT ![q] = "UNUSED"]
             /\ pid' = [pid EXCEPT ![q] = 0]
             /\ parent' = [parent EXCEPT ![q] = None]
             /\ pc' = [pc EXCEPT ![p] = "user"]
             /\ UNCHANGED <<chan, cur, pos>>
      BY <2>1, ReapFacts, Zenon
    <3> QED
      BY <1>11, <3>1, <1>0, Addresses DEF Wait, ForkInv, PidInv, Live, Named
  <2>2. CASE WaitFails(p)
    BY <1>11, <2>2, SamePids, Zenon DEF Wait, WaitFails, Live, Named, ptable
  <2>3. CASE WaitSleeps(p)
    BY <1>11, <2>3, <1>0, SamePids, Zenon DEF Wait, WaitSleeps, OnOneCpu, Live, Named
  <2> QED
    BY <1>11, <2>1, <2>2, <2>3, Addresses, Zenon DEF Wait, OnOneCpu, ForkInv
<1>12. ASSUME NEW p \in Slots, SleeplockAcquire(p) PROVE PidInv'
  BY <1>12, SamePids, Zenon DEF SleeplockAcquire, Live, Named, ptable
<1>13. ASSUME NEW p \in Slots, Sleep(p) PROVE PidInv'
  BY <1>13, <1>0, SamePids, Zenon DEF Sleep, OnOneCpu, Live, Named
<1>14. ASSUME NEW p \in Slots, SleeplockRelease(p) PROVE PidInv'
  BY <1>14, SamePids, Zenon DEF SleeplockRelease, Live, Named, ptable
<1>15. ASSUME NEW p \in Slots, Wakeup(p) PROVE PidInv'
  BY <1>15, <1>0, SamePids, Zenon DEF Wakeup, Live, Named
<1>16. ASSUME NEW p \in Slots, SdSleep(p) PROVE PidInv'
  BY <1>16, <1>0, SamePids, Zenon DEF SdSleep, OnOneCpu, Live, Named
<1> QED
  BY Zenon, <1>1, <1>2, <1>3, <1>4, <1>5, <1>6, <1>7, <1>8, <1>9, <1>10, <1>11, <1>12,
     <1>13, <1>14, <1>15, <1>16, Zenon DEF Next, Step

\* A step that creates or frees no process and moves no fork leaves every page with
\* its owner.
LEMMA SameOwners ==
  ASSUME Types, PageInv, UNCHANGED <<np, kstack, pgdir, free>>,
         \A s \in Slots : Live(s)' <=> Live(s),
         \A s \in Slots : pc'[s] = pc[s] \/ np[s] = None
  PROVE  PageInv'
<1>1. Stacked' = Stacked /\ Mapped' = Mapped
  BY Addresses, Zenon DEF Stacked, Mapped, Building
<1> QED
  BY <1>1, Zenon DEF PageInv

\* A page is taken from the free ones for one new owner, and goes back only when its
\* owner is freed.
LEMMA PageStep ==
  ASSUME OneFork, Types, OnOneCpu, ForkInv, LabelInv, PageInv, Next
  PROVE  PageInv'
<1>0. /\ state \in [Slots -> States]
      /\ pc \in [Slots -> Labels]
      /\ np \in [Slots -> Slots \cup {None}]
      /\ pos \in [CPUs -> Slots]
      /\ kstack \in [Slots -> Pages \cup {None}]
      /\ pgdir \in [Slots -> Pages \cup {None}]
      /\ free \in SUBSET Pages
  BY Zenon DEF Types
<1> USE <1>0, Addresses DEF ptable, mem, slock
<1>1. ASSUME NEW c \in CPUs, Scan(c) PROVE PageInv'
  BY <1>1, SameOwners, Zenon DEF Scan, SwitchTo, Live
<1>2. CASE SdIntr
  BY <1>2, SameOwners, Zenon DEF SdIntr, Live
<1>3. ASSUME NEW p \in Slots, Yield(p) PROVE PageInv'
  BY <1>3, SameOwners, Zenon DEF Yield, Live, OnOneCpu
<1>4. ASSUME NEW p \in Slots, AllocPcb(p) PROVE PageInv'
  <2>1. Stacked' = Stacked /\ Mapped' = Mapped
    BY <1>4, AllocPcbFacts DEF Stacked, Mapped, Building, Live
  <2> QED
    BY <1>4, <2>1, AllocPcbFacts DEF PageInv
<1>5. ASSUME NEW p \in Slots, Embryo(p) PROVE PageInv'
  <2>1. Stacked' = Stacked /\ Mapped' = Mapped
    BY <1>5 DEF Embryo, Goto, Stacked, Mapped, Building, Live, ForkInv
  <2> QED
    BY <1>5, <2>1, Zenon DEF Embryo, PageInv
<1>6. ASSUME NEW p \in Slots, AllocStack(p) PROVE PageInv'
  <2>1. p \in Forking /\ np[p] \in Slots /\ np[p] \notin Stacked /\ np[p] \notin Mapped
    BY <1>6 DEF AllocStack, Forking, ForkInv, Stacked, Mapped, Building, Live
  <2>2. CASE free # {}
    <3>1. PICK g \in free : /\ kstack' = [kstack EXCEPT ![np[p]] = g]
                            /\ free' = free \ {g}
                            /\ pc' = [pc EXCEPT ![p] = "copy"]
                            /\ UNCHANGED <<state, np, pgdir>>
      BY <1>6, <2>2, FreePage, Zenon DEF AllocStack, Goto
    <3>2. Stacked' = Stacked \cup {np[p]} /\ Mapped' = Mapped
      BY <2>1, <3>1 DEF Stacked, Mapped, Building, Live
    <3> QED
      BY <2>1, <3>1, <3>2 DEF PageInv
  <2>3. CASE free = {}
    <3>1. Stacked' = Stacked /\ Mapped' = Mapped
      BY <1>6, <2>1, <2>3 DEF AllocStack, Goto, Stacked, Mapped, Building, Live
    <3> QED
      BY <1>6, <2>3, <3>1 DEF AllocStack, PageInv
  <2> QED
    BY <2>2, <2>3, Zenon
<1>7. ASSUME NEW p \in Slots, UvmCopy(p) PROVE PageInv'
  <2>1. p \in Forking /\ np[p] \in Slots /\ np[p] \in Stacked /\ np[p] \notin Mapped
    BY <1>7 DEF UvmCopy, Forking, ForkInv, Stacked, Mapped, Building, Live
  <2>2. PICK g \in free : /\ pgdir' = [pgdir EXCEPT ![np[p]] = g]
                          /\ free' = free \ {g}
                          /\ pc' = [pc EXCEPT ![p] = "parent"]
                          /\ UNCHANGED <<state, np, kstack>>
    BY <1>7, FreePage, Zenon DEF UvmCopy, Goto
  <2>3. Stacked' = Stacked /\ Mapped' = Mapped \cup {np[p]}
    BY <2>1, <2>2 DEF Stacked, Mapped, Building, Live
  <2> QED
    BY <2>1, <2>2, <2>3 DEF PageInv
<1>8. ASSUME NEW p \in Slots, SetParent(p) PROVE PageInv'
  <2>1. Stacked' = Stacked /\ Mapped' = Mapped
    BY <1>8, Zenon DEF SetParent, Goto, Stacked, Mapped, Building, Live
  <2> QED
    BY <1>8, <2>1, Zenon DEF SetParent, PageInv
<1>9. ASSUME NEW p \in Slots, SetRunnable(p) PROVE PageInv'
  <2>1. p \in Forking /\ np[p] \in Slots
    BY <1>9 DEF SetRunnable, Forking, ForkInv
  <2>2. Stacked' = Stacked /\ Mapped' = Mapped
    <3>1. \A s \in Slots : Live(s)' <=> Live(s) \/ s = np[p]
      BY <1>9, Zenon DEF SetRunnable, Live
    <3>2. \A q \in Slots : np[q] # None => q = p
      BY <2>1, Zenon DEF ForkInv
    <3> QED
      BY <1>9, <3>1, <3>2 DEF SetRunnable, Stacked, Mapped, Building
  <2> QED
    BY <1>9, <2>2, Zenon DEF SetRunnable, PageInv
<1>10. ASSUME NEW p \in Slots, Exit(p) PROVE PageInv'
  <2>1. \A s \in Slots : Live(s)' <=> Live(s)
    BY <1>10, ExitFacts, Zenon DEF Live, OnOneCpu
  <2>2. np[p] = None
    BY <1>10, ExitFacts, Zenon DEF ForkInv, Forking
  <2> QED
    BY <1>10, <2>1, <2>2, ExitFacts, SameOwners
<1>11. ASSUME NEW p \in Slots, Wait(p) PROVE PageInv'
  <2>1. np[p] = None /\ state[p] = "RUNNING"
    BY <1>11, Zenon DEF Wait, ForkInv, Forking, OnOneCpu
  <2>2. CASE Reap(p)
    <3>1. PICK q \in Slots :
             /\ state[q] = "ZOMBIE"
             /\ state' = [state EXCEPT ![q] = "UNUSED"]
             /\ free' = free \cup {kstack[q], pgdir[q]}
             /\ pc' = [pc EXCEPT ![p] = "user"]
      BY <2>2, ReapFacts, Zenon
    <3>2. UNCHANGED <<np, kstack, pgdir>>
      BY <1>11, Zenon DEF Wait
    <3>3. \A t \in Slots : np[t] # q
      BY <3>1 DEF ForkInv
    <3>4. Stacked' = Stacked \ {q} /\ Mapped' = Mapped \ {q}
      BY <2>1, <3>1, <3>2, <3>3 DEF Stacked, Mapped, Building, Live
    <3>5. q \in Stacked /\ q \in Mapped
      BY <3>1, Zenon DEF Stacked, Mapped, Live
    <3> QED
      BY Zenon, <3>1, <3>2, <3>4, <3>5 DEF PageInv
  <2>3. CASE WaitFails(p)
    BY <1>11, <2>1, <2>3, SameOwners, Zenon DEF Wait, WaitFails, Goto, Live
  <2>4. CASE WaitSleeps(p)
    BY <1>11, <2>1, <2>4, SameOwners, Zenon DEF Wait, WaitSleeps, Goto, Live
  <2> QED
    BY <1>11, <2>2, <2>3, <2>4, Zenon DEF Wait
<1>12. ASSUME NEW p \in Slots, SleeplockAcquire(p) PROVE PageInv'
  <2>1. np[p] = None
    BY <1>12, Zenon DEF SleeplockAcquire, ForkInv, Forking
  <2> QED
    BY <1>12, <2>1, SameOwners, Zenon DEF SleeplockAcquire, Goto, Live
<1>13. ASSUME NEW p \in Slots, Sleep(p) PROVE PageInv'
  <2>1. np[p] = None /\ state[p] = "RUNNING"
    BY <1>13, Zenon DEF Sleep, ForkInv, Forking, OnOneCpu
  <2> QED
    BY <1>13, <2>1, SameOwners, Zenon DEF Sleep, Goto, Live
<1>14. ASSUME NEW p \in Slots, SleeplockRelease(p) PROVE PageInv'
  <2>1. np[p] = None
    BY <1>14, Zenon DEF SleeplockRelease, ForkInv, Forking
  <2> QED
    BY <1>14, <2>1, SameOwners, Zenon DEF SleeplockRelease, Goto, Live
<1>15. ASSUME NEW p \in Slots, Wakeup(p) PROVE PageInv'
  <2>1. np[p] = None
    BY <1>15, Zenon DEF Wakeup, ForkInv, Forking
  <2> QED
    BY <1>15, <2>1, SameOwners, Zenon DEF Wakeup, Goto, Live
<1>16. ASSUME NEW p \in Slots, SdSleep(p) PROVE PageInv'
  BY <1>16, SameOwners, Zenon DEF SdSleep, Live, OnOneCpu
<1> QED
  BY Zenon, <1>1, <1>2, <1>3, <1>4, <1>5, <1>6, <1>7, <1>8, <1>9, <1>10, <1>11, <1>12,
    <1>13, <1>14, <1>15, <1>16, Zenon DEF Next, Step

-----------------------------------------------------------------------------
(* The theorems.                                                            *)

\* The initial state: only initproc, on no CPU, with its two pages.
LEMMA ProcInit ==
  ASSUME Init
  PROVE  ProcInv
<1>0. 1 \in Pages /\ 2 \in Pages /\ 1 \in 1..NPID /\ 1 \in Slots
  BY ProcAssumption DEF Pages, Slots
<1> USE <1>0, Addresses DEF Init
<1>1. Types
  BY Zenon DEF Types, States, Labels, initproc
<1>2. OnOneCpu /\ ForkInv /\ LabelInv
  BY Zenon DEF OnOneCpu, Runs, ForkInv, Forking, LabelInv
<1>3. LockInv
  BY Zenon DEF LockInv
<1>4. FamilyInv /\ NoZombieSlept
  BY Zenon DEF FamilyInv, Alive, Live, NoZombieSlept
<1>5. PidInv
  BY DEF PidInv, Named, Live
<1>6. PageInv
  <2>1. Stacked = {initproc} /\ Mapped = {initproc}
    BY Zenon DEF Stacked, Mapped, Live, Building
  <2>2. kstack[initproc] = 1 /\ pgdir[initproc] = 2 /\ free = Pages \ {1, 2}
    BY Zenon
  <2> HIDE DEF Init
  <2> QED
    BY <2>1, <2>2 DEF PageInv
<1> QED
  BY <1>1, <1>2, <1>3, <1>4, <1>5, <1>6, Zenon DEF ProcInv

\* Nothing changes when the variables do not.
LEMMA ProcStutter ==
  ASSUME ProcInv, UNCHANGED vars
  PROVE  ProcInv'
<1> USE DEF vars, ptable, mem, slock
<1>1. Types' /\ OnOneCpu' /\ ForkInv' /\ LabelInv'
  BY DEF ProcInv, Types, OnOneCpu, Runs, ForkInv, Forking, LabelInv
<1>2. LockInv' /\ FamilyInv' /\ NoZombieSlept' /\ PidInv'
  <2>1. LockInv' /\ NoZombieSlept'
    BY Zenon DEF ProcInv, LockInv, NoZombieSlept, Children, Zombies
  <2>2. FamilyInv'
    BY Zenon DEF ProcInv, FamilyInv, Alive, Live
  <2>3. PidInv'
    BY Zenon DEF ProcInv, PidInv, Named, Live
  <2> QED
    BY <2>1, <2>2, <2>3, Zenon
<1>3. Stacked' = Stacked /\ Mapped' = Mapped
  BY Zenon DEF Stacked, Mapped, Live, Building
<1>4. PageInv'
  BY <1>3, Zenon DEF ProcInv, PageInv
<1> QED
  BY <1>1, <1>2, <1>4, Zenon DEF ProcInv

\* The inductive invariant of the process table.
THEOREM ProcInvariant ==
  ASSUME OneFork
  PROVE  Spec => []ProcInv
<1>1. Init => ProcInv
  BY ProcInit, Zenon
<1>2. ProcInv /\ [Next]_vars => ProcInv'
  <2> SUFFICES ASSUME ProcInv, [Next]_vars PROVE ProcInv'
    BY Zenon
  <2>1. CASE Next
    BY <2>1, TypesStep, CpuStep, ForkStep, LabelStep, LockStep, FamilyStep, WaitStep,
      PidStep, PageStep, Zenon DEF ProcInv
  <2>2. CASE UNCHANGED vars
    BY <2>2, ProcStutter, Zenon
  <2> QED
    BY <2>1, <2>2, Zenon
<1> QED
  BY <1>1, <1>2, PTL DEF Spec

\* Two schedulers never switch to the same process (scheduler_simple, sched).
THEOREM ProcOnOneCpu ==
  ASSUME OneFork
  PROVE  Spec => []OnOneCpu
<1>1. ProcInv => OnOneCpu
  BY Zenon DEF ProcInv
<1> QED
  BY <1>1, ProcInvariant, PTL

\* No wakeup is lost between exit and wait.
THEOREM ProcNoZombieSlept ==
  ASSUME OneFork
  PROVE  Spec => []NoZombieSlept
<1>1. ProcInv => NoZombieSlept
  BY Zenon DEF ProcInv
<1> QED
  BY <1>1, ProcInvariant, PTL

\* A sleeplock has one holder at most, and release_sleeplock loses no sleeper.
THEOREM ProcSleeplockSound ==
  ASSUME OneFork
  PROVE  Spec => []SleeplockSound
<1>1. ASSUME ProcInv PROVE SleeplockSound
  <2> DEFINE H == {p \in Slots : pc[p] = "hold"}
  <2>1. CASE locked
    <3>1. PICK p \in Slots : pc[p] = "hold"
      BY <1>1, <2>1, Zenon DEF ProcInv, LockInv
    <3>2. H = {p}
      BY <1>1, <3>1, Zenon DEF ProcInv, LockInv
    <3>3. Cardinality(H) = 1
      BY <3>2, FS_Singleton, Zenon
    <3> QED
      BY <2>1, <3>3, Zenon DEF SleeplockSound
  <2>2. CASE ~locked
    <3>1. H = {}
      BY <1>1, <2>2, Zenon DEF ProcInv, LockInv
    <3>2. Cardinality(H) = 0
      BY <3>1, FS_EmptySet, Zenon
    <3> QED
      BY <1>1, <2>2, <3>2, Zenon DEF SleeplockSound, ProcInv, LockInv
  <2> QED
    BY <2>1, <2>2, Zenon
<1> QED
  BY <1>1, ProcInvariant, PTL

\* Every process that is to be waited for has a parent that has not exited (exit).
THEOREM ProcFamilyIntact ==
  ASSUME OneFork
  PROVE  Spec => []FamilyIntact
<1>1. ProcInv => FamilyIntact
  BY Zenon DEF ProcInv, FamilyInv, FamilyIntact, Alive
<1> QED
  BY <1>1, ProcInvariant, PTL

\* Live processes have different pids up to the last one (alloc_pcb).
THEOREM ProcPidsDiffer ==
  ASSUME OneFork
  PROVE  Spec => []PidsDiffer
<1>1. ProcInv => PidsDiffer
  BY Zenon DEF ProcInv, PidInv, PidsDiffer, Named
<1> QED
  BY <1>1, ProcInvariant, PTL

\* The image of a set under a function that is injective on it has as many elements.
LEMMA ImageCardinality ==
  ASSUME NEW S, IsFiniteSet(S), NEW f, \A s, t \in S : f[s] = f[t] => s = t
  PROVE  /\ IsFiniteSet({f[s] : s \in S})
         /\ Cardinality({f[s] : s \in S}) = Cardinality(S)
<1> DEFINE T == {f[s] : s \in S}
           g == [s \in S |-> f[s]]
<1>1. g \in Bijection(S, T)
  BY Zenon DEF Bijection, Injection, Surjection, IsInjective
<1>2. ExistsBijection(S, T)
  BY <1>1, Zenon DEF ExistsBijection
<1> QED
  BY <1>2, FS_Bijection, Zenon

\* fork, its failure, exit and wait neither leak a page nor free one twice.
THEOREM ProcPagesOwned ==
  ASSUME OneFork
  PROVE  Spec => []PagesOwned
<1>1. ASSUME ProcInv PROVE PagesOwned
  <2> DEFINE K == {kstack[s] : s \in Stacked}
             D == {pgdir[s] : s \in Mapped}
  <2>1. IsFiniteSet(Stacked) /\ IsFiniteSet(Mapped)
    <3>1. IsFiniteSet(Slots)
      BY FS_Interval, ProcAssumption DEF Slots
    <3>2. Stacked \in SUBSET Slots /\ Mapped \in SUBSET Slots
      BY Zenon DEF Stacked, Mapped
    <3> QED
      BY <3>1, <3>2, FS_Subset, Zenon
  <2>2. IsFiniteSet(free) /\ free \subseteq Pages
    <3>1. IsFiniteSet(Pages)
      BY FS_Interval, ProcAssumption DEF Pages
    <3>2. free \in SUBSET Pages
      BY <1>1, Zenon DEF ProcInv, Types
    <3> QED
      BY <3>1, <3>2, FS_Subset, Zenon
  <2>3. IsFiniteSet(K) /\ Cardinality(K) = Cardinality(Stacked)
    <3>1. \A s, t \in Stacked : kstack[s] = kstack[t] => s = t
      BY <1>1, Zenon DEF ProcInv, PageInv
    <3> QED
      BY <2>1, <3>1, ImageCardinality, Zenon
  <2>4. IsFiniteSet(D) /\ Cardinality(D) = Cardinality(Mapped)
    <3>1. \A s, t \in Mapped : pgdir[s] = pgdir[t] => s = t
      BY <1>1, Zenon DEF ProcInv, PageInv
    <3> QED
      BY <2>1, <3>1, ImageCardinality, Zenon
  <2>5. K \cap D = {} /\ free \cap (K \cup D) = {} /\ free \cup K \cup D = Pages
    BY <1>1, <2>2 DEF ProcInv, PageInv
  <2> HIDE DEF K, D
  <2>6. IsFiniteSet(K \cup D) /\ Cardinality(K \cup D) = Cardinality(K) + Cardinality(D)
    <3>1. Cardinality(K \cap D) = 0 /\ Cardinality(K) \in Nat /\ Cardinality(D) \in Nat
      BY <2>3, <2>4, <2>5, FS_EmptySet, FS_CardinalityType, Zenon
    <3>2. /\ IsFiniteSet(K \cup D)
          /\ Cardinality(K \cup D) = Cardinality(K) + Cardinality(D) - Cardinality(K \cap D)
      BY <2>3, <2>4, FS_Union, Zenon
    <3> QED
      BY <3>1, <3>2
  <2>7. Cardinality(free \cup (K \cup D)) = Cardinality(free) + Cardinality(K \cup D)
    <3>1. /\ Cardinality(free \cap (K \cup D)) = 0
          /\ Cardinality(free) \in Nat /\ Cardinality(K \cup D) \in Nat
      BY <2>2, <2>5, <2>6, FS_EmptySet, FS_CardinalityType, Zenon
    <3>2. Cardinality(free \cup (K \cup D)) =
            Cardinality(free) + Cardinality(K \cup D) - Cardinality(free \cap (K \cup D))
      BY <2>2, <2>6, FS_Union, Zenon
    <3> QED
      BY <3>1, <3>2
  <2>8. free \cup (K \cup D) = Pages
    BY <2>5, Zenon
  <2>9. Cardinality(free) + Cardinality(Stacked) + Cardinality(Mapped) = Cardinality(Pages)
    <3>1. Cardinality(free) \in Nat /\ Cardinality(K) \in Nat /\ Cardinality(D) \in Nat
      BY <2>2, <2>3, <2>4, FS_CardinalityType, Zenon
    <3>2. Cardinality(Pages) = Cardinality(free) + Cardinality(K \cup D)
      BY <2>7, <2>8, Zenon
    <3> QED
      BY <2>3, <2>4, <2>6, <3>1, <3>2
  <2> QED
    BY <2>5, <2>9, Zenon DEF PagesOwned, K, D
<1> QED
  BY <1>1, ProcInvariant, PTL

-----------------------------------------------------------------------------
(* Sequences.                                                               *)

\* Two sequences with the same elements are equal.
LEMMA SameElements ==
  ASSUME NEW S, NEW s \in Seq(S), NEW t \in Seq(S), Len(s) = Len(t),
         \A k \in 1..Len(s) : s[k] = t[k]
  PROVE  s = t
  OBVIOUS

\* A sequence of length 0 is empty.
LEMMA EmptyIsEmpty ==
  ASSUME NEW S, NEW s \in Seq(S), Len(s) = 0
  PROVE  s = <<>>
  OBVIOUS

\* Two sequences one after the other.
LEMMA ConcatIs ==
  ASSUME NEW S, NEW s \in Seq(S), NEW t \in Seq(S)
  PROVE  /\ s \o t \in Seq(S) /\ Len(s \o t) = Len(s) + Len(t)
         /\ \A k \in 1..Len(s) + Len(t) :
               (s \o t)[k] = IF k <= Len(s) THEN s[k] ELSE t[k - Len(s)]
  OBVIOUS

\* The empty sequence after, or before, another.
LEMMA ConcatEmpty ==
  ASSUME NEW S, NEW s \in Seq(S), NEW t \in Seq(S)
  PROVE  (s \o t = <<>> <=> s = <<>> /\ t = <<>>) /\ (t = <<>> => s \o t = s)
  OBVIOUS

\* A sequence with one more element.
LEMMA AppendIs ==
  ASSUME NEW S, NEW s \in Seq(S), NEW c \in S
  PROVE  /\ Append(s, c) \in Seq(S) /\ Len(Append(s, c)) = Len(s) + 1
         /\ \A k \in 1..Len(s) : Append(s, c)[k] = s[k]
         /\ Append(s, c)[Len(s) + 1] = c
  OBVIOUS

\* A sequence without its first element.
LEMMA TailIs ==
  ASSUME NEW S, NEW s \in Seq(S), s # <<>>
  PROVE  Tail(s) = SubSeq(s, 2, Len(s))
  OBVIOUS

-----------------------------------------------------------------------------
(* The console.                                                             *)

\* The types of the variables of console.c.
RingTypes ==
    /\ buf \in [0..INPUT_BUF - 1 -> Keys]
    /\ r \in Nat /\ w \in Nat /\ e \in Nat /\ typed \in Nat
    /\ rd \in [Readers -> [pc : {"idle", "run", "sleep", "return"}, n : Int, got : Seq(Keys)]]

\* NeverStuck needs the order of the indices to be inductive.
ConsoleInv == RingTypes /\ RingOrder /\ NeverStuck

\* An index of the ring.
LEMMA SlotInRing == \A i \in Int : Slot(i) \in 0..INPUT_BUF - 1
  BY ConsoleAssumption DEF Slot

\* Indices less than INPUT_BUF apart have different slots.
LEMMA SlotsDiffer ==
  ASSUME NEW i \in Int, NEW j \in Int, i < j, j < i + INPUT_BUF
  PROVE  Slot(i) # Slot(j)
<1> DEFINE N == INPUT_BUF
           a == i \div N
           b == j \div N
<1>1. N \in Int /\ N > 0
  BY ConsoleAssumption
<1>2. a \in Int /\ i = N * a + (i % N)
  BY <1>1
<1>3. b \in Int /\ j = N * b + (j % N)
  BY <1>1
<1>4. SUFFICES ASSUME i % N = j % N PROVE FALSE
  BY Zenon DEF Slot
<1>5. i % N \in Int /\ j % N \in Int
  BY <1>1
<1> HIDE DEF a, b, N
<1>6. j - i = N * (b - a)
  BY <1>1, <1>2, <1>3, <1>4, <1>5
<1>7. CASE b - a >= 1
  BY <1>1, <1>2, <1>3, <1>6, <1>7 DEF N
<1>8. CASE b - a <= 0
  BY <1>1, <1>2, <1>3, <1>6, <1>8 DEF N
<1> QED
  BY <1>2, <1>3, <1>7, <1>8

\* A reader that is woken up keeps its call.
LEMMA WokenKeeps ==
  ASSUME RingTypes
  PROVE  /\ Woken \in [Readers -> [pc : {"idle", "run", "sleep", "return"}, n : Int, got : Seq(Keys)]]
         /\ \A p \in Readers : Woken[p].pc # "sleep" /\ Woken[p].got = rd[p].got
  BY Zenon DEF RingTypes, Woken

\* A part of the ring, whose content is b.
Win(b, i, j) == [k \in 1..j - i |-> b[(i + k - 1) % INPUT_BUF]]

\* The windows of the refinement, before and after a step.
LEMMA WindowIsWin ==
  /\ \A i, j \in Int : Window(i, j) = Win(buf, i, j)
  /\ Edit = Win(buf, w, e) /\ Edit' = Win(buf', w', e')
  /\ Lines = Win(buf, r, w) /\ Lines' = Win(buf', r', w')
  BY Zenon DEF Window, Edit, Lines, At, Slot, Win

\* A part of the ring is a sequence of characters.
LEMMA WinIsSeq ==
  ASSUME NEW b \in [0..INPUT_BUF - 1 -> Keys], NEW i \in Int, NEW j \in Int, i <= j
  PROVE  /\ Win(b, i, j) \in Seq(Keys) /\ Len(Win(b, i, j)) = j - i
         /\ \A k \in 1..j - i : Win(b, i, j)[k] = b[(i + k - 1) % INPUT_BUF]
<1>1. \A k \in 1..j - i : b[(i + k - 1) % INPUT_BUF] \in Keys
  BY SlotInRing DEF Slot
<1>2. j - i \in Nat
  OBVIOUS
<1> QED
  BY <1>1, <1>2 DEF Win

\* Parts that lie next to each other.
LEMMA WinConcat ==
  ASSUME NEW b \in [0..INPUT_BUF - 1 -> Keys],
         NEW i \in Int, NEW j \in Int, NEW m \in Int, i <= j, j <= m
  PROVE  Win(b, i, m) = Win(b, i, j) \o Win(b, j, m)
<1> DEFINE x == Win(b, i, j)
           y == Win(b, j, m)
           z == Win(b, i, m)
<1>1. /\ x \in Seq(Keys) /\ Len(x) = j - i
      /\ \A k \in 1..j - i : x[k] = b[(i + k - 1) % INPUT_BUF]
  BY Zenon, WinIsSeq
<1>2. /\ y \in Seq(Keys) /\ Len(y) = m - j
      /\ \A k \in 1..m - j : y[k] = b[(j + k - 1) % INPUT_BUF]
  BY Zenon, WinIsSeq
<1>3. /\ z \in Seq(Keys) /\ Len(z) = m - i
      /\ \A k \in 1..m - i : z[k] = b[(i + k - 1) % INPUT_BUF]
  <2>1. i <= m
    OBVIOUS
  <2> QED
    BY Zenon, <2>1, WinIsSeq
<1> HIDE DEF x, y, z
<1>4. /\ x \o y \in Seq(Keys) /\ Len(x \o y) = m - i
      /\ \A k \in 1..m - i : (x \o y)[k] = IF k <= j - i THEN x[k] ELSE y[k - (j - i)]
  <2>1. Len(x) + Len(y) = m - i
    BY <1>1, <1>2
  <2>2. /\ x \o y \in Seq(Keys) /\ Len(x \o y) = Len(x) + Len(y)
        /\ \A k \in 1..Len(x) + Len(y) :
              (x \o y)[k] = IF k <= Len(x) THEN x[k] ELSE y[k - Len(x)]
    BY Zenon, <1>1, <1>2, ConcatIs
  <2> QED
    BY Zenon, <1>1, <2>1, <2>2
<1>5. ASSUME NEW k \in 1..m - i PROVE z[k] = (x \o y)[k]
  <2>1. CASE k <= j - i
    BY <1>1, <1>3, <1>4, <2>1
  <2>2. CASE ~(k <= j - i)
    <3>1. k - (j - i) \in 1..m - j /\ j + (k - (j - i)) - 1 = i + k - 1
      BY <2>2
    <3> QED
      BY Zenon, <1>2, <1>3, <1>4, <2>2, <3>1
  <2> QED
    BY Zenon, <2>1, <2>2
<1>6. z = x \o y
  BY Zenon, <1>3, <1>4, <1>5, SameElements
<1> QED
  BY Zenon, <1>6 DEF x, y, z

\* A new character in the slot of m shows in no part of the ring that ends at m.
LEMMA WinKeeps ==
  ASSUME NEW b \in [0..INPUT_BUF - 1 -> Keys], NEW c \in Keys,
         NEW i \in Int, NEW j \in Int, NEW m \in Int, i <= j, j <= m, m < i + INPUT_BUF
  PROVE  Win([b EXCEPT ![Slot(m)] = c], i, j) = Win(b, i, j)
<1> DEFINE d == [b EXCEPT ![Slot(m)] = c]
<1>1. ASSUME NEW k \in 1..j - i
      PROVE  d[(i + k - 1) % INPUT_BUF] = b[(i + k - 1) % INPUT_BUF]
  <2>1. i + k - 1 \in Int /\ i + k - 1 < m /\ m < (i + k - 1) + INPUT_BUF
    BY ConsoleAssumption
  <2>2. Slot(i + k - 1) # Slot(m)
    BY Zenon, <2>1, SlotsDiffer
  <2>3. Slot(i + k - 1) \in 0..INPUT_BUF - 1
    BY Zenon, <2>1, SlotInRing
  <2> QED
    BY Zenon, <2>2, <2>3 DEF Slot
<1> QED
  BY Zenon, <1>1 DEF Win

\* A part without characters, and a part that grows by the character in its last slot.
LEMMA WinEmpty ==
  ASSUME NEW b \in [0..INPUT_BUF - 1 -> Keys], NEW i \in Int
  PROVE  Win(b, i, i) = <<>>
<1>1. Win(b, i, i) \in Seq(Keys) /\ Len(Win(b, i, i)) = 0
  BY WinIsSeq
<1> QED
  BY Zenon, <1>1, EmptyIsEmpty

\* A character that is put into the slot after a part of the ring extends it.
LEMMA WinAppend ==
  ASSUME NEW b \in [0..INPUT_BUF - 1 -> Keys], NEW c \in Keys,
         NEW i \in Int, NEW m \in Int, i <= m, m < i + INPUT_BUF
  PROVE  Win([b EXCEPT ![Slot(m)] = c], i, m + 1) = Append(Win(b, i, m), c)
<1> DEFINE d == [b EXCEPT ![Slot(m)] = c]
           x == Win(b, i, m)
           z == Win(d, i, m + 1)
<1>0. d \in [0..INPUT_BUF - 1 -> Keys] /\ d[m % INPUT_BUF] = c
  BY Zenon, SlotInRing DEF Slot
<1>1. x \in Seq(Keys) /\ Len(x) = m - i
  BY Zenon, WinIsSeq
<1>3. Win(d, i, m) = x
  <2>1. m <= m
    OBVIOUS
  <2> QED
    BY Zenon, <2>1, WinKeeps
<1> HIDE DEF d
<1>2. /\ z \in Seq(Keys) /\ Len(z) = m + 1 - i
      /\ \A k \in 1..m + 1 - i : z[k] = d[(i + k - 1) % INPUT_BUF]
  <2>1. PICK q \in Int : q = m + 1
    OBVIOUS
  <2>2. i <= q
    BY <2>1
  <2>3. /\ Win(d, i, q) \in Seq(Keys) /\ Len(Win(d, i, q)) = q - i
        /\ \A k \in 1..q - i : Win(d, i, q)[k] = d[(i + k - 1) % INPUT_BUF]
    BY Zenon, <1>0, <2>2, WinIsSeq
  <2> QED
    BY <2>1, <2>3
<1>4. \A k \in 1..m - i : x[k] = d[(i + k - 1) % INPUT_BUF]
  <2>1. \A k \in 1..m - i : Win(d, i, m)[k] = d[(i + k - 1) % INPUT_BUF]
    BY Zenon, <1>0, WinIsSeq
  <2> QED
    BY Zenon, <1>3, <2>1
<1> HIDE DEF x, z
<1>5. /\ Append(x, c) \in Seq(Keys) /\ Len(Append(x, c)) = m + 1 - i
      /\ \A k \in 1..m - i : Append(x, c)[k] = x[k]
      /\ Append(x, c)[m + 1 - i] = c
  <2>1. /\ Append(x, c) \in Seq(Keys) /\ Len(Append(x, c)) = Len(x) + 1
        /\ \A k \in 1..Len(x) : Append(x, c)[k] = x[k]
        /\ Append(x, c)[Len(x) + 1] = c
    BY Zenon, <1>1, AppendIs
  <2>2. Len(x) + 1 = m + 1 - i
    BY <1>1
  <2> QED
    BY Zenon, <1>1, <2>1, <2>2
<1>6. ASSUME NEW k \in 1..m + 1 - i PROVE z[k] = Append(x, c)[k]
  <2>1. CASE k = m + 1 - i
    <3>1. i + k - 1 = m
      BY <2>1
    <3> QED
      BY Zenon, <1>0, <1>2, <1>5, <2>1, <3>1
  <2>2. CASE k # m + 1 - i
    <3>1. k \in 1..m - i
      BY <2>2
    <3> QED
      BY Zenon, <1>2, <1>4, <1>5, <3>1
  <2> QED
    BY Zenon, <2>1, <2>2
<1>7. z = Append(x, c)
  BY Zenon, <1>2, <1>5, <1>6, SameElements
<1> QED
  BY Zenon, <1>7 DEF x, z, d

\* The beginning and the rest of a part.
LEMMA WinSplit ==
  ASSUME NEW b \in [0..INPUT_BUF - 1 -> Keys],
         NEW i \in Int, NEW j \in Int, NEW m \in Int, i <= j, j <= m
  PROVE  /\ SubSeq(Win(b, i, m), 1, j - i) = Win(b, i, j)
         /\ SubSeq(Win(b, i, m), j - i + 1, m - i) = Win(b, j, m)
<1> DEFINE x == Win(b, i, j)
           y == Win(b, j, m)
           z == Win(b, i, m)
           u == SubSeq(z, 1, j - i)
           v == SubSeq(z, j - i + 1, m - i)
<1>1. /\ x \in Seq(Keys) /\ Len(x) = j - i
      /\ \A k \in 1..j - i : x[k] = b[(i + k - 1) % INPUT_BUF]
  BY Zenon, WinIsSeq
<1>2. /\ y \in Seq(Keys) /\ Len(y) = m - j
      /\ \A k \in 1..m - j : y[k] = b[(j + k - 1) % INPUT_BUF]
  BY Zenon, WinIsSeq
<1>3. /\ z \in Seq(Keys) /\ Len(z) = m - i
      /\ \A k \in 1..m - i : z[k] = b[(i + k - 1) % INPUT_BUF]
  <2>1. i <= m
    OBVIOUS
  <2> QED
    BY Zenon, <2>1, WinIsSeq
<1> HIDE DEF x, y, z
<1>4. u \in Seq(Keys) /\ Len(u) = j - i /\ \A k \in 1..j - i : u[k] = z[k]
  BY <1>3
<1>5. v \in Seq(Keys) /\ Len(v) = m - j /\ \A k \in 1..m - j : v[k] = z[j - i + k]
  BY <1>3
<1> HIDE DEF u, v
<1>6. \A k \in 1..j - i : u[k] = x[k]
  <2>1. \A k \in 1..j - i : k \in 1..m - i
    OBVIOUS
  <2> QED
    BY Zenon, <1>1, <1>3, <1>4, <2>1
<1>7. ASSUME NEW k \in 1..m - j PROVE v[k] = y[k]
  <2>1. j - i + k \in 1..m - i /\ i + (j - i + k) - 1 = j + k - 1
    OBVIOUS
  <2> QED
    BY Zenon, <1>2, <1>3, <1>5, <2>1
<1>8. u = x
  BY Zenon, <1>1, <1>4, <1>6, SameElements
<1>9. v = y
  BY Zenon, <1>2, <1>5, <1>7, SameElements
<1> QED
  BY Zenon, <1>8, <1>9 DEF x, y, z, u, v

\* Each step of console_intr and console_read keeps the invariant.
LEMMA ConsoleInvStep == ConsoleInv /\ [ConsoleNext]_consoleVars => ConsoleInv'
<1> SUFFICES ASSUME ConsoleInv PROVE [ConsoleNext]_consoleVars => ConsoleInv'
  OBVIOUS
<1> USE DEF ConsoleInv
<1>0. INPUT_BUF \in Nat /\ INPUT_BUF > 0
  BY ConsoleAssumption
<1>1. ASSUME NEW c \in Keys, Type(c) PROVE ConsoleInv'
  <2>0. buf' \in [0..INPUT_BUF - 1 -> Keys]
    BY Zenon, <1>0, <1>1, SlotInRing DEF RingTypes, Type
  <2>1. RingTypes'
    BY <1>1, <2>0, WokenKeeps DEF RingTypes, Type
  <2>2. RingOrder'
    BY <1>0, <1>1 DEF RingTypes, Type, RingOrder, Room
  <2>3. NeverStuck'
    <3>1. CASE Enters(c)
      BY Zenon, <1>0, <1>1, <3>1, WokenKeeps DEF RingTypes, Type, NeverStuck, RingOrder
    <3>2. CASE ~Enters(c)
      BY Zenon, <1>0, <1>1, <3>2 DEF RingTypes, Type, NeverStuck, Enters
    <3> QED
      BY Zenon, <3>1, <3>2
  <2> QED
    BY Zenon, <2>1, <2>2, <2>3
<1>2. CASE Erase
  BY <1>0, <1>2 DEF RingTypes, RingOrder, NeverStuck, Erase
<1>3. CASE Kill
  BY <1>0, <1>3 DEF RingTypes, RingOrder, NeverStuck, Kill
<1>4. ASSUME NEW p \in Readers, NEW n \in Counts, Call(p, n) PROVE ConsoleInv'
  <2>1. n \in Int /\ <<>> \in Seq(Keys)
    BY ConsoleAssumption
  <2> QED
    BY Zenon, <1>4, <2>1 DEF RingTypes, RingOrder, NeverStuck, Call
<1>5. ASSUME NEW p \in Readers, Read(p) PROVE ConsoleInv'
  <2>0. buf' = buf /\ w' = w /\ e' = e /\ typed' = typed
    BY Zenon, <1>5 DEF Read
  <2>1. PICK i \in r..w : ReadTo(p, i)
    BY Zenon, <1>5 DEF Read
  <2>2. r \in Nat /\ w \in Nat /\ e \in Nat /\ rd[p].n \in Int
    BY Zenon DEF RingTypes
  <2>3. i \in Nat /\ r <= i /\ i <= w /\ rd[p].n - (i - r) \in Int
    BY <2>1, <2>2
  <2>4. rd[p].got \o Window(r, i) \in Seq(Keys)
    <3>1. Window(r, i) \in Seq(Keys)
      BY <2>3, WindowIsWin, WinIsSeq DEF RingTypes
    <3>2. rd[p].got \in Seq(Keys)
      BY Zenon DEF RingTypes
    <3> QED
      BY <3>1, <3>2
  <2>5. r' = i \/ (r' = i + 1 /\ i < w)
    BY <2>1, Zenon DEF ReadTo
  <2>6. r' \in Nat /\ r <= r' /\ r' <= w
    BY <2>3, <2>5, <2>2
  <2>7. RingTypes'
    BY <2>0, <2>1, <2>3, <2>4, <2>6, Zenon DEF RingTypes, ReadTo
  <2> r \in Nat /\ r' \in Nat /\ w \in Nat /\ e \in Nat
    BY <2>6, <2>2, Zenon
  <2>8. RingOrder'
    <3>1. PICK s \in Nat : s = r'
      OBVIOUS
    <3>2. r <= s /\ s <= w /\ w <= e /\ e <= r + INPUT_BUF
      BY Zenon, <2>6, <3>1 DEF RingOrder
    <3>3. s <= w /\ w <= e /\ e <= s + INPUT_BUF
      BY <1>0, <3>2
    <3> QED
      BY Zenon, <2>0, <3>1, <3>3 DEF RingOrder
  <2>9. ASSUME NEW q \in Readers, rd'[q].pc = "sleep" PROVE r' = w
    <3>1. CASE q # p
      <4>1. rd[q].pc = "sleep"
        BY Zenon, <2>1, <2>9, <3>1 DEF RingTypes, ReadTo
      <4>2. r = w
        BY <4>1, Zenon DEF NeverStuck
      <4> QED
        BY <2>6, <2>2, <4>2
    <3>2. CASE q = p
      <4>1. r' = i /\ ~(i < w)
        BY <2>1, <2>9, <3>2, Zenon DEF RingTypes, ReadTo
      <4> QED
        BY <2>3, <2>2, <4>1
    <3> QED
      BY Zenon, <3>1, <3>2
  <2>10. NeverStuck'
    <3>1. e = r' + INPUT_BUF => w = e
      <4>1. PICK s \in Nat : s = r'
        OBVIOUS
      <4>2. r <= s /\ s <= w /\ w <= e /\ e <= r + INPUT_BUF
        BY Zenon, <2>6, <4>1 DEF RingOrder
      <4>3. e = s + INPUT_BUF => s = r
        BY <1>0, <4>2
      <4> QED
        BY Zenon, <4>1, <4>3 DEF NeverStuck
    <3> QED
      BY Zenon, <2>0, <2>9, <3>1 DEF NeverStuck
  <2> QED
    BY Zenon, <2>7, <2>8, <2>10
<1>6. ASSUME NEW p \in Readers, Return(p) PROVE ConsoleInv'
  BY <1>6 DEF RingTypes, RingOrder, NeverStuck, Return, Idle
<1>7. CASE UNCHANGED consoleVars
  BY Zenon, <1>7 DEF RingTypes, RingOrder, NeverStuck, consoleVars
<1> QED
  BY Zenon, <1>1, <1>2, <1>3, <1>4, <1>5, <1>6, <1>7 DEF ConsoleNext

\* The invariant holds in every state, for every ring and any number of readers.
THEOREM ConsoleInvariant == ConsoleSpec => []ConsoleInv
<1>1. ConsoleInit => ConsoleInv
  BY ConsoleAssumption DEF ConsoleInit, ConsoleInv, RingTypes, RingOrder,
         NeverStuck, Idle, Keys
<1> QED
  BY <1>1, ConsoleInvStep, PTL DEF ConsoleSpec

\* A full ring has always been entered, and a process sleeps in console_read only
\* while nothing can be read.
THEOREM ConsoleNeverStuck == ConsoleSpec => []NeverStuck
  BY ConsoleInvariant, PTL DEF ConsoleInv
-----------------------------------------------------------------------------
(* The console implements AtomicConsole.                                    *)

\* The line that is edited holds no NEWLINE, so that C('U') erases all of it.
EditPlain == \A i \in w..e - 1 : buf[Slot(i)] # NEWLINE

\* Every step keeps it: a NEWLINE is entered when it is typed.
LEMMA EditPlainStep == ConsoleInv /\ EditPlain /\ [ConsoleNext]_consoleVars => EditPlain'
<1> SUFFICES ASSUME ConsoleInv, EditPlain PROVE [ConsoleNext]_consoleVars => EditPlain'
  OBVIOUS
<1> USE DEF ConsoleInv
<1>0. INPUT_BUF \in Nat /\ INPUT_BUF > 0 /\ r \in Nat /\ w \in Nat /\ e \in Nat
  BY ConsoleAssumption DEF RingTypes
<1>1. ASSUME NEW c \in Keys, Type(c) PROVE EditPlain'
  <2>1. CASE Enters(c)
    <3>1. w' = e + 1 /\ e' = e + 1
      BY Zenon, <1>1, <2>1 DEF Type
    <3>2. w'..e' - 1 = {}
      BY <1>0, <3>1
    <3> QED
      BY Zenon, <3>2 DEF EditPlain
  <2>2. CASE ~Enters(c)
    <3>1. c # NEWLINE
      BY Zenon, <2>2 DEF Enters
    <3>2. w' = w /\ e' = e + 1 /\ buf' = [buf EXCEPT ![Slot(e)] = c]
      BY Zenon, <1>1, <2>2 DEF Type
    <3>3. ASSUME NEW i \in w..e PROVE buf'[Slot(i)] # NEWLINE
      <4>1. Slot(i) \in 0..INPUT_BUF - 1
        BY <1>0, SlotInRing
      <4>2. CASE i = e
        BY Zenon, <3>1, <3>2, <4>1, <4>2 DEF RingTypes
      <4>3. CASE i # e
        <5>1. i \in Int /\ i < e /\ e < i + INPUT_BUF /\ i \in w..e - 1
          BY <1>0, <1>1, <4>3 DEF Type, Room, RingOrder
        <5>2. Slot(i) # Slot(e)
          BY <1>0, <5>1, SlotsDiffer
        <5> QED
          BY Zenon, <3>2, <4>1, <5>1, <5>2 DEF RingTypes, EditPlain
      <4> QED
        BY Zenon, <4>2, <4>3
    <3>4. w'..e' - 1 = w..e
      BY <1>0, <3>2
    <3> QED
      BY Zenon, <3>3, <3>4 DEF EditPlain
  <2> QED
    BY Zenon, <2>1, <2>2
<1>2. CASE Erase
  BY <1>0, <1>2 DEF EditPlain, Erase
<1>3. CASE Kill
  BY <1>0, <1>3 DEF EditPlain, Kill
<1>4. ASSUME NEW p \in Readers, NEW n \in Counts, Call(p, n) PROVE EditPlain'
  BY Zenon, <1>4 DEF EditPlain, Call
<1>5. ASSUME NEW p \in Readers, Read(p) PROVE EditPlain'
  BY Zenon, <1>5 DEF EditPlain, Read
<1>6. ASSUME NEW p \in Readers, Return(p) PROVE EditPlain'
  BY Zenon, <1>6 DEF EditPlain, Return
<1>7. CASE UNCHANGED consoleVars
  BY Zenon, <1>7 DEF EditPlain, consoleVars
<1> QED
  BY Zenon, <1>1, <1>2, <1>3, <1>4, <1>5, <1>6, <1>7 DEF ConsoleNext

\* The two parts of the ring as sequences.
LEMMA RingIsSeq ==
  ASSUME ConsoleInv
  PROVE  Len(Edit) = e - w /\ Len(Lines) = w - r /\ Edit \in Seq(Keys) /\ Lines \in Seq(Keys)
<1>1. /\ r \in Int /\ w \in Int /\ e \in Int /\ r <= w /\ w <= e
      /\ buf \in [0..INPUT_BUF - 1 -> Keys]
  BY DEF ConsoleInv, RingTypes, RingOrder
<1>2. Len(Win(buf, w, e)) = e - w /\ Win(buf, w, e) \in Seq(Keys)
  BY Zenon, <1>1, WinIsSeq
<1>3. Len(Win(buf, r, w)) = w - r /\ Win(buf, r, w) \in Seq(Keys)
  BY Zenon, <1>1, WinIsSeq
<1> QED
  BY Zenon, <1>2, <1>3, WindowIsWin

\* A character that is typed.
LEMMA TypeImplements ==
  ASSUME ConsoleInv, NEW c \in Keys, Type(c)
  PROVE  Abs!Type(c)
<1> USE DEF ConsoleInv
<1>0. INPUT_BUF \in Nat /\ r \in Nat /\ w \in Nat /\ e \in Nat
  BY Zenon, ConsoleAssumption DEF RingTypes
<1>1. r <= w /\ w <= e /\ e < r + INPUT_BUF /\ e < w + INPUT_BUF
  BY <1>0 DEF RingOrder, Type, Room
<1>2. buf \in [0..INPUT_BUF - 1 -> Keys] /\ buf' = [buf EXCEPT ![Slot(e)] = c]
  BY Zenon DEF RingTypes, Type
<1>3. buf' \in [0..INPUT_BUF - 1 -> Keys]
  BY Zenon, <1>2
<1>4. Len(Edit) = e - w /\ Len(Lines) = w - r /\ Edit \in Seq(Keys) /\ Lines \in Seq(Keys)
  BY Zenon, RingIsSeq
<1>5. Win(buf', w, e + 1) = Append(Edit, c)
  <2>1. Edit = Win(buf, w, e)
    BY Zenon, WindowIsWin
  <2>2. w \in Int /\ e \in Int
    BY <1>0
  <2>3. Win([buf EXCEPT ![Slot(e)] = c], w, e + 1) = Append(Win(buf, w, e), c)
    BY Zenon, <1>1, <1>2, <2>2, WinAppend
  <2> QED
    BY Zenon, <1>2, <2>1, <2>3
<1>6. Win(buf', r, w) = Lines
  <2>1. Lines = Win(buf, r, w)
    BY Zenon, WindowIsWin
  <2>2. r \in Int /\ w \in Int /\ e \in Int
    BY <1>0
  <2>3. Win([buf EXCEPT ![Slot(e)] = c], r, w) = Win(buf, r, w)
    BY <1>1, <1>2, <2>2, WinKeeps, ZenonT(60)
  <2> QED
    BY Zenon, <1>2, <2>1, <2>3
<1>7. Len(Append(Edit, c)) = e + 1 - w
  BY <1>0, <1>4, AppendIs
<1>8. Enters(c) <=> c \in {NEWLINE, EOF} \/ Len(Lines) + Len(Append(Edit, c)) = INPUT_BUF
  BY <1>0, <1>4, <1>7 DEF Enters
<1>9. Len(Lines) + Len(Edit) < INPUT_BUF
  BY <1>0, <1>1, <1>4
<1>10. Got' = Got
  BY Zenon, WokenKeeps DEF Type, Got, RingTypes
<1>11. CASE Enters(c)
  <2>1. w' = e + 1 /\ e' = e + 1 /\ r' = r
    BY Zenon, <1>11 DEF Type
  <2>2. Edit' = <<>>
    BY <1>0, <1>3, <2>1, WindowIsWin, WinEmpty
  <2>3. Lines' = Lines \o Append(Edit, c)
    <3>1. PICK q \in Int : q = e + 1
      BY <1>0
    <3>2. w <= q /\ r \in Int /\ w \in Int
      BY <1>0, <1>1, <3>1
    <3>3. Win(buf', r, q) = Win(buf', r, w) \o Win(buf', w, q)
      BY <1>1, <1>3, <3>2, WinConcat, Zenon
    <3> QED
      BY Zenon, <1>5, <1>6, <2>1, <3>1, <3>3, WindowIsWin
  <2> QED
    BY Zenon, <1>8, <1>9, <1>10, <1>11, <2>2, <2>3 DEF Abs!Type
<1>12. CASE ~Enters(c)
  <2>1. w' = w /\ e' = e + 1 /\ r' = r
    BY Zenon, <1>12 DEF Type
  <2>2. Edit' = Append(Edit, c) /\ Lines' = Lines
    BY Zenon, <1>5, <1>6, <2>1, WindowIsWin
  <2> QED
    BY Zenon, <1>8, <1>9, <1>10, <1>12, <2>2 DEF Abs!Type
<1> QED
  BY Zenon, <1>11, <1>12

\* Backspace and C('U').
LEMMA EraseImplements ==
  ASSUME ConsoleInv, Erase
  PROVE  Abs!Erase
<1>0. /\ r \in Int /\ w \in Int /\ e \in Int /\ r <= w /\ w < e
      /\ buf \in [0..INPUT_BUF - 1 -> Keys]
  BY DEF ConsoleInv, RingTypes, RingOrder, Erase
<1>1. buf' = buf /\ r' = r /\ w' = w /\ rd' = rd /\ e' = e - 1
  BY Zenon DEF Erase
<1>2. PICK q \in Int : q = e - 1
  BY <1>0
<1>3. SubSeq(Win(buf, w, e), 1, q - w) = Win(buf, w, q)
  BY <1>0, <1>2, WinSplit
<1>4. Edit' = SubSeq(Edit, 1, Len(Edit) - 1)
  <2>1. Len(Edit) - 1 = q - w
    BY <1>0, <1>2, RingIsSeq
  <2> QED
    BY Zenon, <1>1, <1>2, <1>3, <2>1, WindowIsWin
<1>5. Edit # <<>>
  BY <1>0, RingIsSeq
<1>6. Lines' = Lines /\ Got' = Got
  BY Zenon, <1>1, WindowIsWin DEF Got
<1> QED
  BY Zenon, <1>4, <1>5, <1>6 DEF Abs!Erase

\* C('U') kills the line that is edited.
LEMMA KillImplements ==
  ASSUME ConsoleInv, EditPlain, Kill
  PROVE  Abs!Kill
<1>0. /\ r \in Int /\ w \in Int /\ e \in Int /\ buf \in [0..INPUT_BUF - 1 -> Keys]
  BY DEF ConsoleInv, RingTypes
<1>1. buf' = buf /\ r' = r /\ w' = w /\ rd' = rd
  BY Zenon DEF Kill
<1>2. e' = w
  <2>1. PICK i \in w..e : LineStart(i) /\ e' = i
    BY Zenon DEF Kill
  <2>2. CASE i = w
    BY Zenon, <2>1, <2>2
  <2>3. CASE i # w
    <3>1. i - 1 \in w..e - 1
      BY <1>0, <2>3
    <3> QED
      BY Zenon, <2>1, <2>3, <3>1 DEF EditPlain, LineStart, At
  <2> QED
    BY Zenon, <2>2, <2>3
<1>3. Edit' = <<>>
  BY Zenon, <1>0, <1>1, <1>2, WindowIsWin, WinEmpty
<1>4. Lines' = Lines /\ Got' = Got
  BY Zenon, <1>1, WindowIsWin DEF Got
<1> QED
  BY Zenon, <1>3, <1>4 DEF Abs!Kill

\* console_read takes characters, or the EOF, or finds nothing.
LEMMA ReadImplements ==
  ASSUME ConsoleInv, NEW p \in Readers, Read(p)
  PROVE  \/ \E k \in 1..INPUT_BUF : Abs!Take(p, k)
         \/ Abs!TakeEof(p)
         \/ UNCHANGED <<Edit, Lines, Got>>
<1>0. /\ r \in Int /\ w \in Int /\ e \in Int /\ r <= w /\ w <= e
      /\ INPUT_BUF \in Nat /\ w <= r + INPUT_BUF
      /\ buf \in [0..INPUT_BUF - 1 -> Keys] /\ rd[p].got \in Seq(Keys)
  BY ConsoleAssumption DEF ConsoleInv, RingTypes, RingOrder
<1>1. buf' = buf /\ w' = w /\ e' = e
  BY Zenon DEF Read
<1>2. PICK i \in r..w : ReadTo(p, i)
  BY Zenon DEF Read
<1> DEFINE n == rd[p].n
           got == rd[p].got \o Window(r, i)
           eof == ~Full(n, i) /\ i < w
<1>3. i \in Int /\ r <= i /\ i <= w
  BY <1>0
<1>4. /\ StopsAt(n, i) /\ \A j \in r..i - 1 : ~StopsAt(n, j)
      /\ r' = IF eof /\ EofTaken(got) THEN i + 1 ELSE i
  BY Zenon, <1>2 DEF ReadTo
<1>5. Got' = [Got EXCEPT ![p] = got]
  <2>1. rd \in [Readers -> [pc : {"idle", "run", "sleep", "return"}, n : Int, got : Seq(Keys)]]
    BY Zenon DEF ConsoleInv, RingTypes
  <2> DEFINE z == IF Full(n, i) \/ eof
                    THEN [pc |-> "return", n |-> n, got |-> got]
                    ELSE [pc |-> "sleep", n |-> n - (i - r), got |-> got]
  <2>2. rd' = [rd EXCEPT ![p] = z]
    BY Zenon, <1>2 DEF ReadTo
  <2> HIDE DEF n, got, eof
  <2>3. z.got = got
    OBVIOUS
  <2> HIDE DEF z
  <2> QED
    BY Zenon, <2>1, <2>2, <2>3 DEF Got
<1>6. Edit' = Edit
  BY Zenon, <1>1, WindowIsWin
<1>7. Window(r, i) = Win(buf, r, i)
  BY Zenon, <1>3, <1>0, WindowIsWin
<1>8. Lines = Win(buf, r, w) /\ Lines' = Win(buf, r', w)
  BY Zenon, <1>1, WindowIsWin
<1>9. /\ Win(buf, r, i) = SubSeq(Lines, 1, i - r)
      /\ Win(buf, i, w) = SubSeq(Lines, i - r + 1, Len(Lines))
  <2>1. /\ SubSeq(Win(buf, r, w), 1, i - r) = Win(buf, r, i)
        /\ SubSeq(Win(buf, r, w), i - r + 1, w - r) = Win(buf, i, w)
    BY <1>0, <1>3, WinSplit, ZenonT(60)
  <2> QED
    BY Zenon, <1>8, <2>1, RingIsSeq
<1>10. \A j \in 1..w - r : Lines[j] = At(r + j - 1)
  <2>1. \A j \in 1..w - r : Win(buf, r, w)[j] = buf[(r + j - 1) % INPUT_BUF]
    BY Zenon, <1>0, WinIsSeq
  <2> QED
    BY Zenon, <1>8, <2>1 DEF At, Slot
<1> HIDE DEF n, got, eof
<1>11. CASE r' = i /\ i = r
  <2>1. got = rd[p].got
    <3>1. Window(r, i) = <<>>
      BY Zenon, <1>0, <1>7, <1>11, WinEmpty
    <3> QED
      BY <1>0, <3>1, ConcatEmpty DEF got
  <2>2. Got' = Got
    BY Zenon, <1>5, <2>1 DEF Got
  <2>3. Lines' = Lines
    BY Zenon, <1>8, <1>11
  <2> QED
    BY Zenon, <1>6, <2>2, <2>3
<1>12. CASE r' = i /\ i # r
  <2> DEFINE k == i - r
  <2>1. k \in 1..INPUT_BUF /\ k <= Len(Lines)
    BY <1>0, <1>3, <1>12, RingIsSeq
  <2>2. ASSUME NEW j \in 1..k
        PROVE  Lines[j] # EOF /\ (j < k => Lines[j] # NEWLINE)
    <3>1. r + j - 1 \in r..i - 1 /\ j \in 1..w - r
      BY <1>0, <1>3
    <3>0. Lines[j] = At(r + j - 1)
      BY Zenon, <1>10, <3>1
    <3>2. Lines[j] # EOF
      BY Zenon, <1>4, <3>0, <3>1 DEF StopsAt
    <3>3. ASSUME j < k PROVE Lines[j] # NEWLINE
      <4>1. r + j \in r..i - 1 /\ r + j > r
        BY <1>0, <1>3, <3>3
      <4>2. ~StopsAt(n, r + j)
        BY Zenon, <1>4, <4>1
      <4>3. PICK q \in Int : q = r + j
        BY <1>0
      <4>4. ~StopsAt(n, q) /\ q > r
        BY Zenon, <4>1, <4>2, <4>3
      <4>5. At(q - 1) # NEWLINE
        BY Zenon, <4>4 DEF StopsAt, Full
      <4>6. q - 1 = r + j - 1
        BY <1>0, <4>3
      <4> QED
        BY Zenon, <3>0, <4>5, <4>6
    <3> QED
      BY Zenon, <3>2, <3>3
  <2>3. Got' = [Got EXCEPT ![p] = Got[p] \o SubSeq(Lines, 1, k)]
    BY Zenon, <1>5, <1>7, <1>9 DEF got, Got
  <2>4. Lines' = SubSeq(Lines, k + 1, Len(Lines))
    BY Zenon, <1>8, <1>9, <1>12
  <2>5. Abs!Take(p, k)
    BY Zenon, <1>6, <2>1, <2>2, <2>3, <2>4 DEF Abs!Take
  <2> QED
    BY Zenon, <2>1, <2>5
<1>13. CASE r' # i
  <2>1. eof /\ got = <<>> /\ r' = i + 1
    BY Zenon, <1>4, <1>13 DEF EofTaken
  <2>2. rd[p].got = <<>> /\ Window(r, i) = <<>>
    <3>1. Window(r, i) \in Seq(Keys)
      BY <1>0, <1>3, <1>7, WinIsSeq
    <3> QED
      BY Zenon, <1>0, <2>1, <3>1, ConcatEmpty DEF got
  <2>3. i = r
    <3>1. Len(Win(buf, r, i)) = i - r
      BY Zenon, <1>0, <1>3, WinIsSeq
    <3> QED
      BY <1>0, <1>3, <1>7, <2>2, <3>1
  <2>4. r < w /\ At(r) = EOF
    BY <1>0, <1>4, <2>1, <2>3 DEF StopsAt, eof
  <2>5. Lines # <<>> /\ Head(Lines) = EOF
    <3>1. Len(Lines) = w - r /\ Lines \in Seq(Keys) /\ 1 \in 1..w - r /\ r + 1 - 1 = r
      BY <1>0, <2>4, RingIsSeq
    <3>2. Lines[1] = EOF
      BY Zenon, <1>10, <2>4, <3>1
    <3> QED
      BY <1>0, <2>4, <3>1, <3>2
  <2>6. Lines' = Tail(Lines)
    <3>1. PICK q \in Int : q = r + 1
      BY <1>0
    <3>2. r <= q /\ q <= w
      BY <1>0, <2>4, <3>1
    <3>3. SubSeq(Win(buf, r, w), q - r + 1, w - r) = Win(buf, q, w)
      BY <1>0, <3>2, WinSplit
    <3>4. q - r + 1 = 2 /\ w - r = Len(Lines)
      BY <1>0, <3>1, RingIsSeq
    <3>5. Tail(Lines) = SubSeq(Lines, 2, Len(Lines))
      BY Zenon, <2>5, RingIsSeq, TailIs
    <3> QED
      BY Zenon, <1>8, <2>1, <2>3, <3>1, <3>3, <3>4, <3>5
  <2>7. Got[p] = <<>> /\ Got' = Got
    BY Zenon, <1>5, <2>1, <2>2 DEF Got
  <2> QED
    BY Zenon, <1>6, <2>5, <2>6, <2>7 DEF Abs!TakeEof
<1> QED
  BY Zenon, <1>11, <1>12, <1>13

\* What is typed is read once and in order, whatever the size of the ring and the
\* number of readers.
THEOREM ConsoleRefinement == ConsoleSpec => ConsoleInOrder
<1>1. ConsoleInit => Abs!Init
  <2> SUFFICES ASSUME ConsoleInit PROVE Abs!Init
    OBVIOUS
  <2>1. buf \in [0..INPUT_BUF - 1 -> Keys] /\ r = 0 /\ w = 0 /\ e = 0
    BY Zenon DEF ConsoleInit, Keys
  <2>2. Win(buf, 0, 0) = <<>>
    BY <2>1, WinEmpty
  <2>3. Edit = <<>> /\ Lines = <<>>
    BY Zenon, <2>1, <2>2, WindowIsWin
  <2>4. Got = [p \in Readers |-> <<>>]
    BY Zenon DEF ConsoleInit, Got, Idle
  <2> QED
    BY Zenon, <2>3, <2>4 DEF Abs!Init
<1>2. ConsoleInit => EditPlain
  BY DEF ConsoleInit, EditPlain
<1>3. ConsoleInv /\ EditPlain /\ [ConsoleNext]_consoleVars => [Abs!Next]_<<Edit, Lines, Got>>
  <2> SUFFICES ASSUME ConsoleInv, EditPlain
               PROVE  [ConsoleNext]_consoleVars => [Abs!Next]_<<Edit, Lines, Got>>
    OBVIOUS
  <2>1. ASSUME NEW c \in Keys, Type(c) PROVE Abs!Next
    BY Zenon, <2>1, TypeImplements DEF Abs!Next, Keys
  <2>2. CASE Erase
    BY Zenon, <2>2, EraseImplements DEF Abs!Next
  <2>3. CASE Kill
    BY Zenon, <2>3, KillImplements DEF Abs!Next
  <2>4. ASSUME NEW p \in Readers, NEW n \in Counts, Call(p, n) PROVE Abs!Return(p)
    <3>1. Edit' = Edit /\ Lines' = Lines
      BY Zenon, <2>4, WindowIsWin DEF Call
    <3>2. Got' = [Got EXCEPT ![p] = <<>>]
      BY Zenon, <2>4 DEF Call, Got, ConsoleInv, RingTypes
    <3> QED
      BY Zenon, <3>1, <3>2 DEF Abs!Return
  <2>5. ASSUME NEW p \in Readers, Return(p) PROVE Abs!Return(p)
    <3>1. Edit' = Edit /\ Lines' = Lines
      BY Zenon, <2>5, WindowIsWin DEF Return
    <3>2. Got' = [Got EXCEPT ![p] = <<>>]
      BY Zenon, <2>5 DEF Return, Idle, Got, ConsoleInv, RingTypes
    <3> QED
      BY Zenon, <3>1, <3>2 DEF Abs!Return
  <2>6. ASSUME NEW p \in Readers, Read(p) PROVE [Abs!Next]_<<Edit, Lines, Got>>
    BY Zenon, <2>6, ReadImplements DEF Abs!Next
  <2>7. CASE UNCHANGED consoleVars
    <3>1. Edit' = Edit /\ Lines' = Lines /\ Got' = Got
      BY Zenon, <2>7, WindowIsWin DEF consoleVars, Got
    <3> QED
      BY Zenon, <3>1
  <2> QED
    BY Zenon, <2>1, <2>2, <2>3, <2>4, <2>5, <2>6, <2>7 DEF ConsoleNext, Abs!Next
<1>4. ConsoleSpec => []EditPlain
  BY <1>2, EditPlainStep, ConsoleInvariant, PTL DEF ConsoleSpec
<1> QED
  BY <1>1, <1>3, <1>4, ConsoleInvariant, PTL DEF ConsoleSpec, ConsoleInOrder, Abs!Spec
=============================================================================
