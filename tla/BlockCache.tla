----------------------------- MODULE BlockCache -----------------------------
(***************************************************************************)
(* cache_acquire, cache_release and the eviction of src/src/fs/cache.c:    *)
(* the LRU list of Block objects, the sleeplock of each object and the     *)
(* three flags acquired, pinned and valid.                                 *)
(*                                                                         *)
(* A step is what a thread does between two points at which others can     *)
(* run: the search and the insertion are one step (they hold the spinlock  *)
(* `lock'), taking the sleeplock is one, the end of the read is one.       *)
(***************************************************************************)
EXTENDS Integers, Sequences, FiniteSets

CONSTANTS
    Threads,
    Blocks,              \* block numbers
    Values,              \* block contents
    InitValue,
    Objects,             \* the memory of the arena, one element per Block
    EVICTION_THRESHOLD

ASSUME BlockCacheAssumption ==
    /\ EVICTION_THRESHOLD \in Nat \ {0}
    /\ InitValue \in Values
    /\ IsFiniteSet(Threads)
    /\ Cardinality(Objects) > Cardinality(Blocks)

VARIABLES
    disk,     \* content of every block on the device
    list,     \* the objects from head.next to head.prev: most recent first
    obj,      \* the members of every object
    locked,   \* the sleeplock of every object
    pc,       \* where each thread is in cache_acquire
    want,     \* the argument of its call
    ptr,      \* the object it is about to return or has returned
    readNo,   \* the block its device_read asked for
    latest,   \* history: the last content given to every block
    recent,   \* history: the blocks in order of use, last used first
    unread    \* history: a hit has returned a block before its content was read

vars == <<disk, list, obj, locked, pc, want, ptr, readNo, latest, recent, unread>>

None == "none"

\* init_block
FreshBlock(b) ==
    [block_no |-> b, acquired |-> FALSE, pinned |-> FALSE, valid |-> FALSE,
     data |-> InitValue]

Init ==
    /\ disk = [b \in Blocks |-> InitValue]
    /\ list = <<>>
    /\ obj = [o \in Objects |-> FreshBlock(None)]
    /\ locked = [o \in Objects |-> FALSE]
    /\ pc = [t \in Threads |-> "idle"]
    /\ want = [t \in Threads |-> None]
    /\ ptr = [t \in Threads |-> None]
    /\ readNo = [t \in Threads |-> None]
    /\ latest = disk
    /\ recent = <<>>
    /\ unread = FALSE

Cached == {list[i] : i \in DOMAIN list}

\* detach_from_list: s without the elements of E, in the same order.
Without(s, E) ==
    LET F[i \in 0..Len(s)] ==
          IF i = 0 THEN << >>
          ELSE IF s[i] \in E THEN F[i - 1] ELSE Append(F[i - 1], s[i])
    IN  F[Len(s)]

\* The search of cache_acquire: the object of block b, if there is one.
Holding(b) == {o \in Cached : obj[o].block_no = b}

\* The test of the eviction loop.  (The mutant forgets a flag.)
EvictableIfUnacquired(o) == ~obj[o].acquired
Evictable(o) == ~obj[o].pinned /\ ~obj[o].acquired

\* How many objects the eviction loop wants to free.  (The mutant starts to
\* evict one block too late.)
SurplusLate == Len(list) - EVICTION_THRESHOLD
Surplus == Len(list) - EVICTION_THRESHOLD + 1

\* The loop goes from the tail to the head and frees what it may, until it has
\* freed enough.
Evicted ==
    {list[i] : i \in {j \in DOMAIN list :
        /\ Evictable(list[j])
        /\ Cardinality({k \in (j + 1)..Len(list) : Evictable(list[k])})
             < Surplus}}

Use(b) == recent' = <<b>> \o Without(recent, {b})

\* Hit: the object moves to the head of the list; `acquired' is not set.
\* (The mutant leaves the object where it is.)
AcquireHitUnmoved(t, b) ==
    \E o \in Holding(b) :
        /\ pc[t] = "idle"
        /\ pc' = [pc EXCEPT ![t] = "lock_hit"]
        /\ want' = [want EXCEPT ![t] = b]
        /\ ptr' = [ptr EXCEPT ![t] = o]
        /\ Use(b)
        /\ UNCHANGED <<disk, list, obj, locked, readNo, latest, unread>>
AcquireHit(t, b) ==
    \E o \in Holding(b) :
        /\ pc[t] = "idle"
        /\ list' = <<o>> \o Without(list, {o})
        /\ pc' = [pc EXCEPT ![t] = "lock_hit"]
        /\ want' = [want EXCEPT ![t] = b]
        /\ ptr' = [ptr EXCEPT ![t] = o]
        /\ Use(b)
        /\ UNCHANGED <<disk, obj, locked, readNo, latest, unread>>

\* Miss: evict, take a free object of the arena and put it at the head.
AcquireMiss(t, b) ==
    LET rest == Without(list, Evicted) IN
    \E o \in Objects \ {rest[i] : i \in DOMAIN rest} :
        /\ pc[t] = "idle"
        /\ Holding(b) = {}
        /\ list' = <<o>> \o rest
        /\ obj' = [x \in Objects |-> CASE x = o -> FreshBlock(b)
                                       [] x \in Evicted \ {o} -> FreshBlock(None)
                                       [] OTHER -> obj[x]]
        /\ locked' = [locked EXCEPT ![o] = FALSE]
        /\ pc' = [pc EXCEPT ![t] = "lock_miss"]
        /\ want' = [want EXCEPT ![t] = b]
        /\ ptr' = [ptr EXCEPT ![t] = o]
        /\ Use(b)
        /\ UNCHANGED <<disk, readNo, latest, unread>>

\* acquire_sleeplock.  (The mutant does not wait.)
CanLockAlways(o) == TRUE
CanLock(o) == ~locked[o]

\* acquire_sleeplock on the path of a hit; the object is returned as it is.
LockHit(t) ==
    /\ pc[t] = "lock_hit"
    /\ CanLock(ptr[t])
    /\ locked' = [locked EXCEPT ![ptr[t]] = TRUE]
    /\ pc' = [pc EXCEPT ![t] = "held"]
    /\ unread' = (unread \/ ~obj[ptr[t]].valid)
    /\ UNCHANGED <<disk, list, obj, want, ptr, readNo, latest, recent>>

\* acquire_sleeplock on the path of a miss; device_read starts.
LockMiss(t) ==
    /\ pc[t] = "lock_miss"
    /\ CanLock(ptr[t])
    /\ locked' = [locked EXCEPT ![ptr[t]] = TRUE]
    /\ readNo' = [readNo EXCEPT ![t] = obj[ptr[t]].block_no]
    /\ pc' = [pc EXCEPT ![t] = "reading"]
    /\ UNCHANGED <<disk, list, obj, want, ptr, latest, recent, unread>>

\* device_read is done; valid and acquired are set and the object is returned.
ReadDone(t) ==
    /\ pc[t] = "reading"
    /\ obj' = [obj EXCEPT ![ptr[t]].data = disk[readNo[t]],
                          ![ptr[t]].valid = TRUE,
                          ![ptr[t]].acquired = TRUE]
    /\ pc' = [pc EXCEPT ![t] = "held"]
    /\ UNCHANGED <<disk, list, locked, want, ptr, readNo, latest, recent, unread>>

\* A holder changes the block and calls sync with a context, which pins it.
Modify(t, v) ==
    /\ pc[t] = "held"
    /\ obj' = [obj EXCEPT ![ptr[t]].data = v, ![ptr[t]].pinned = TRUE]
    /\ latest' = [latest EXCEPT ![want[t]] = v]
    /\ UNCHANGED <<disk, list, locked, pc, want, ptr, readNo, recent, unread>>

\* install_trans(0), and sync with a NULL context: device_write of a held block.
WriteBack(t) ==
    /\ pc[t] = "held"
    /\ disk' = [disk EXCEPT ![obj[ptr[t]].block_no] = obj[ptr[t]].data]
    /\ UNCHANGED <<list, obj, locked, pc, want, ptr, readNo, latest, recent, unread>>

\* cache_release; the locals of the thread go out of scope.
Release(t) ==
    /\ pc[t] = "held"
    /\ obj' = [obj EXCEPT ![ptr[t]].acquired = FALSE]
    /\ locked' = [locked EXCEPT ![ptr[t]] = FALSE]
    /\ pc' = [pc EXCEPT ![t] = "idle"]
    /\ want' = [want EXCEPT ![t] = None]
    /\ ptr' = [ptr EXCEPT ![t] = None]
    /\ readNo' = [readNo EXCEPT ![t] = None]
    /\ UNCHANGED <<disk, list, latest, recent, unread>>

\* The object a thread has in hand, from the search to release, is the one of its
\* block.  When it is not, it was freed: what its use does is undefined, and the
\* model goes no further.
Kept(t) == pc[t] # "idle" => ptr[t] \in Cached /\ obj[ptr[t]].block_no = want[t]

Next ==
    /\ \A t \in Threads : Kept(t)
    /\ \E t \in Threads :
        \/ \E b \in Blocks : AcquireHit(t, b) \/ AcquireMiss(t, b)
        \/ LockHit(t) \/ LockMiss(t) \/ ReadDone(t)
        \/ \E v \in Values : Modify(t, v)
        \/ WriteBack(t)
        \/ Release(t)

Spec == Init /\ [][Next]_vars

-----------------------------------------------------------------------------
(* Properties.                                                              *)

\* A block stays in the cache while a thread has it ("acquired; // is the block
\* already acquired by some thread?", cache.h:23, which the eviction tests).
HeldKept == \A t \in Threads : pc[t] = "held" => Kept(t)

\* acquire locks the block: the search under the spinlock and the sleeplock together
\* give a block to one thread at a time, through hits, misses, evictions and the
\* reuse of objects, as long as no block in use is evicted.
HeldExclusive ==
    \A t, u \in Threads :
        (t # u /\ pc[t] = "held" /\ pc[u] = "held") => want[t] # want[u]

\* What acquire returns has the content that the block was last given: no eviction
\* and no reload loses a modification.  Only a hit that takes the sleeplock of a new
\* object before the thread that is to read it from disk can make it wrong.
HeldContent ==
    ~unread => \A t \in Threads : pc[t] = "held" => obj[ptr[t]].data = latest[want[t]]

\* The cache grows beyond the threshold of cache.h:13 only for pinned blocks and
\* for the blocks the threads have in use.
Pinned == {o \in Cached : obj[o].pinned}
CacheBounded ==
    \/ Len(list) <= EVICTION_THRESHOLD
    \/ Len(list) <= Cardinality(Pinned) + Cardinality(Threads)

\* Eviction is least recently used: when a miss evicts a block, it also evicts
\* every evictable block whose last cache_acquire is longer ago.
CachedNos == {obj[o].block_no : o \in Cached}
Older(a, b) ==
    \E i, j \in DOMAIN recent : i > j /\ recent[i] = a /\ recent[j] = b
EvictsLRU ==
    [][\A o, q \in Cached :
          ( /\ Older(obj[o].block_no, obj[q].block_no) /\ Evictable(o)
            /\ obj[q].block_no \notin CachedNos' )
          => obj[o].block_no \notin CachedNos']_vars
=============================================================================
