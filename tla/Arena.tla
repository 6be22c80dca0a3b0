-------------------------------- MODULE Arena --------------------------------
(***************************************************************************)
(* The allocator of objects (src/src/core/arena.c), which the block cache, *)
(* the inodes and the containers use.  arena.lock makes alloc_object and   *)
(* free_object single steps.  The circular list of pages is the sequence   *)
(* that starts at arena.pages.                                             *)
(***************************************************************************)
EXTENDS PhysicalMemory, Sequences

CONSTANTS
    MaxCount,    \* arena.max_count: objects of a page
    MaxObjects   \* bound on the objects in use

ASSUME ArenaAssumption == MaxCount \in Nat \ {0} /\ MaxObjects \in Nat

VARIABLES
    ring,        \* the pages of the arena, from arena.pages on
    used,        \* the bitmap of each page
    numObjects   \* arena.num_objects

arenaVars == <<ring, used, numObjects>>

ArenaInit ==
    /\ ring = <<>>
    /\ used = [p \in Pages |-> {}]
    /\ numObjects = 0

FullPage(p, u) == Cardinality(u[p]) >= MaxCount

\* add_page, with insert_page.  Without a page of memory the ring stays.  (The
\* mutant puts the page at the end of the list.)
AddedLast(r, new) == IF new = NULL THEN r ELSE Append(r, new)
Added(r, new) == IF new = NULL THEN r ELSE <<new>> \o r

\* The head moves on when its page is full.  (The mutant leaves it.)
Stays(r, u) == r
Rotated(r, u) == IF FullPage(Head(r), u) THEN Append(Tail(r), Head(r)) ELSE r

\* alloc_object.  If there is no page at all it reads through NULL; if all pages
\* are full the assertion fails.
AllocObject ==
    LET full == ring = <<>> \/ FullPage(Head(ring), used)
        k == IF full THEN kalloc(pmem) ELSE [mem |-> pmem, ptr |-> NULL]
        r == Added(ring, k.ptr)
        u == IF k.ptr = NULL THEN used ELSE [used EXCEPT ![k.ptr] = {}]
    IN /\ sys = "up" /\ numObjects < MaxObjects
       /\ pmem' = k.mem
       /\ \/ /\ r = <<>>
             /\ sys' = "undefined"
             /\ UNCHANGED arenaVars
          \/ /\ r # <<>> /\ FullPage(Head(r), u)
             /\ sys' = "panicked"
             /\ UNCHANGED arenaVars
          \/ /\ r # <<>> /\ ~FullPage(Head(r), u)
             /\ LET i == Min(1..MaxCount \ u[Head(r)])
                IN used' = [u EXCEPT ![Head(r)] = @ \cup {i}]
             /\ ring' = Rotated(r, used')
             /\ numObjects' = numObjects + 1
             /\ UNCHANGED sys

\* move_page_to_head: the pages before p move up by one.
Moved(r, p) ==
    LET k == CHOOSE x \in DOMAIN r : r[x] = p
    IN [x \in DOMAIN r |-> IF x = 1 THEN p ELSE IF x <= k THEN r[x - 1] ELSE r[x]]

\* free_object: the page, which now has room, moves to the head.
FreeObject(p, i) ==
    /\ sys = "up"
    /\ i \in used[p]
    /\ used' = [used EXCEPT ![p] = @ \ {i}]
    /\ numObjects' = numObjects - 1
    /\ ring' = Moved(ring, p)
    /\ UNCHANGED <<pmem, sys>>

ArenaNext == AllocObject \/ \E p \in Pages, i \in 1..MaxCount : FreeObject(p, i)

\* The arena beside whatever else uses memory: a step that leaves it alone may do
\* anything to pmem.
ArenaSpec == ArenaInit /\ [][ArenaNext]_arenaVars

\* What the arena relies on: a page it has is not on the free list.
PoolSound == pmem.free \subseteq Pages /\ Range(ring) \cap pmem.free = {}

-----------------------------------------------------------------------------
\* The pages with room come first in the list, in whatever order objects were
\* allocated and freed: alloc_object, which looks at the first page only, asks for
\* memory only when every page is full, and finds room when it does not.
RoomFirst ==
    \A i, j \in DOMAIN ring : i < j /\ FullPage(ring[i], used) => FullPage(ring[j], used)
=============================================================================
