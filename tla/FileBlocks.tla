----------------------------- MODULE FileBlocks -----------------------------
(***************************************************************************)
(* Files on blocks: the bitmap of blocks (src/src/fs/cache.c: cache_alloc, *)
(* cache_free), inodes, their blocks and directories (fs/inode.c), and     *)
(* create, read and write of the kernel on top of them (core/sysfile.c,    *)
(* fs/file.c), on a disk that mkfs has formatted.                          *)
(*                                                                         *)
(* Every operation on an inode runs under its lock, and block locks make   *)
(* each change of a shared block one step: an operation of the inode layer *)
(* is one action.  It works on a record w of the state (World) that the    *)
(* calls below hand on.  The log is seen through sync and end_op: what is  *)
(* synced becomes durable when the last outstanding operation ends (module *)
(* Log).  No system call removes a file; remove and clear are what         *)
(* fs/test/inode_test.cpp calls.                                           *)
(***************************************************************************)
EXTENDS Mkfs

CONSTANTS
    OP_MAX_NUM_BLOCKS,   \* blocks that one operation may log
    Names,               \* names of files
    Values,              \* what files hold
    Images,              \* arguments of mkfs: sequences of [name, data]
    Threads,             \* processes in a system call
    WriteSizes,          \* counts that are passed to write
    MaxOps, MaxCrashes   \* bounds: operations, and failures of the power

ASSUME FileBlocksAssumption ==
    /\ OP_MAX_NUM_BLOCKS \in Nat \ {0} /\ WriteSizes \subseteq Nat \ {0}
    /\ MaxOps \in Nat /\ MaxCrashes \in Nat

VARIABLES
    disk,     \* what is durable
    mem,      \* the blocks as the cache has them
    inode,    \* Inode.entry of the inodes in memory
    logged,   \* the blocks in the header of the log
    op,       \* OpContext of each thread
    panic,    \* "no", or what the kernel panicked about
    ops, crashes

vars == <<disk, mem, inode, logged, op, panic, ops, crashes>>

NotLoaded == [ZeroInode EXCEPT !.type = "none"]
NoOp == [state |-> "none", rm |-> 0, short |-> FALSE]

\* init_inodes gets the root.
Loaded(m) == [i \in Inums |-> IF i = ROOT_INODE_NO THEN Dinode(m, i) ELSE NotLoaded]

Init ==
    \E files \in Images :
        /\ disk = Mkfs(files) /\ mem = disk
        /\ inode = Loaded(disk) /\ logged = {}
        /\ op = [t \in Threads |-> NoOp] /\ panic = "no"
        /\ ops = 0 /\ crashes = 0

\* The state that a call works on; addr is the result of an allocation.
World(rm) == [disk |-> disk, mem |-> mem, inode |-> inode, logged |-> logged, rm |-> rm,
              addr |-> 0, panic |-> "no"]
Panics(w, why) == IF w.panic = "no" THEN [w EXCEPT !.panic = why] ELSE w

-----------------------------------------------------------------------------
(* Blocks.  ctx tells whether the call has an OpContext.                    *)

\* cache_sync: without a context the block goes to the disk at once.
Sync(w, ctx, b) ==
    IF ~ctx THEN [w EXCEPT !.disk[b] = w.mem[b]]
    ELSE IF b \in w.logged THEN w
    ELSE IF w.rm = 0 THEN Panics(w, "exceeded")
    ELSE [w EXCEPT !.logged = @ \cup {b}, !.rm = @ - 1]

\* cache_alloc with bzero: the first free block, marked and zeroed.  (The mutant
\* forgets to sync the bitmap.)
MarkUnsynced(w, ctx, b) == [w EXCEPT !.mem[BBLOCK(b)] = @ \cup {b % BPB}]
Mark(w, ctx, b) == Sync([w EXCEPT !.mem[BBLOCK(b)] = @ \cup {b % BPB}], ctx, BBLOCK(b))
Alloc(w, ctx) ==
    LET free == Blocks \ Used(w.mem)
        b == Min(free)
    IN  IF free = {} THEN Panics(w, "no block")
        ELSE Sync([Mark(w, ctx, b) EXCEPT !.mem[b] = ZeroBlock, !.addr = b], ctx, b)

\* cache_free
Free(w, b) ==
    IF b \notin Used(w.mem) THEN Panics(w, "freeing free block")
    ELSE Sync([w EXCEPT !.mem[BBLOCK(b)] = @ \ {b % BPB}], TRUE, BBLOCK(b))

-----------------------------------------------------------------------------
(* Inodes.                                                                  *)

\* inode_get of an inode that is not in memory reads it.
Get(w, i) == IF w.inode[i] = NotLoaded THEN [w EXCEPT !.inode[i] = Dinode(w.mem, i)] ELSE w

\* inode_sync with do_write.
InodeSync(w, i) == Sync([w EXCEPT !.mem[IBLOCK(i)][i % IPB] = w.inode[i]], TRUE, IBLOCK(i))

\* inode_map: block k of inode i, allocated if it has none; w.addr is the block.
MapDirect(w, ctx, i, k) ==
    IF w.inode[i].addrs[k] # 0 THEN [w EXCEPT !.addr = w.inode[i].addrs[k]]
    ELSE LET x == Alloc(w, ctx) IN [x EXCEPT !.inode[i].addrs[k] = x.addr]
MapIndirect(w, ctx, i, k) ==
    LET v == IF w.inode[i].indirect # 0 THEN w
             ELSE LET x == Alloc(w, ctx) IN [x EXCEPT !.inode[i].indirect = x.addr]
        ib == v.inode[i].indirect
        a == v.mem[ib][k][1]
    IN  IF a # 0 THEN [v EXCEPT !.addr = a]
        ELSE LET x == Alloc(v, ctx)
             IN  Sync([x EXCEPT !.mem[ib][k] = Unit(x.addr)], ctx, ib)
InodeMap(w, ctx, i, k) ==
    IF k < NDIRECT THEN MapDirect(w, ctx, i, k) ELSE MapIndirect(w, ctx, i, k - NDIRECT)

\* inode_read maps the blocks it reads, without a context.
InodeRead(w, i, off, end) ==
    FoldLeft(LAMBDA v, k : InodeMap(v, FALSE, i, k), w, BlocksOf(off, end))

\* inode_write, and the size it leaves.  (The mutants let the size lag behind, and
\* do not write the inode.)
GrowsLate(e, end) == IF end > e.num_bytes + 1 THEN [e EXCEPT !.num_bytes = end] ELSE e
Grows(e, end) == IF end > e.num_bytes THEN [e EXCEPT !.num_bytes = end] ELSE e
WritesNoSize(w, i, end) == [w EXCEPT !.inode[i] = Grows(@, end)]
WritesSize(w, i, end) ==
    IF end > w.inode[i].num_bytes THEN InodeSync([w EXCEPT !.inode[i] = Grows(@, end)], i)
    ELSE w
InodeWrite(w, i, off, data) ==
    LET end == off + Len(data)
        Round(v, k) ==
            LET x == InodeMap(v, TRUE, i, k)
            IN  Sync([x EXCEPT !.mem[x.addr] = Patched(@, k, off, data)], TRUE, x.addr)
    IN  IF end > INODE_MAX_BLOCKS * BSIZE THEN Panics(w, "file too big")
        ELSE WritesSize(FoldLeft(Round, w, BlocksOf(off, end)), i, end)

\* inode_clear, the indirect block itself last.
NonZero(s) == SelectSeq(s, LAMBDA b : b # 0)
WithIndirect(e, words) == Append(words, e.indirect)
InodeClear(w, i) ==
    LET e == w.inode[i]
        direct == [k \in 1..NDIRECT |-> e.addrs[k - 1]]
        words == [k \in 1..NINDIRECT |-> w.mem[e.indirect][k - 1][1]]
        all == IF e.indirect = 0 THEN direct ELSE direct \o WithIndirect(e, words)
        y == FoldLeft(Free, w, NonZero(all))
    IN  InodeSync([y EXCEPT !.inode[i].addrs = ZeroInode.addrs, !.inode[i].indirect = 0,
                            !.inode[i].num_bytes = 0], i)

\* inode_put of the last reference: an inode without links is freed on disk.
InodePut(w, i) ==
    LET y == InodeSync([InodeClear(w, i) EXCEPT !.inode[i].type = "free"], i)
    IN  IF w.inode[i].num_links = 0 THEN [y EXCEPT !.inode[i] = NotLoaded] ELSE w

\* inode_alloc: the search runs over one inode too many, which is always free, and
\* inode_get refuses it.
FreeInums(m) == {i \in 1..NINODES : Dinode(m, i).type = "free"}
InodeAlloc(w, i, type) ==
    IF i = NINODES THEN Panics(w, "no inode")
    ELSE Get(Sync([w EXCEPT !.mem[IBLOCK(i)][i % IPB] = [ZeroInode EXCEPT !.type = type]],
                  TRUE, IBLOCK(i)), i)

-----------------------------------------------------------------------------
(* Directories.                                                             *)

Entries(m, e, name) ==
    {k \in 0..e.num_bytes - 1 : LET u == UnitAt(m, e, k) IN u[1] # 0 /\ u[2] = name}
Unused(m, e) == {k \in 0..e.num_bytes - 1 : UnitAt(m, e, k)[1] = 0}
Hit(w, d, name) == Entries(w.mem, w.inode[d], name)

\* inode_lookup reads up to the entry it finds.
InodeLookup(w, d, name) ==
    InodeRead(w, d, 0, IF Hit(w, d, name) = {} THEN w.inode[d].num_bytes
                       ELSE Min(Hit(w, d, name)) + 1)

\* inode_insert: into the first unused entry, or at the end.
FirstUnused(m, e) == Min(Unused(m, e) \cup {e.num_bytes})
InodeInsert(w, d, name, i) ==
    LET x == InodeLookup(w, d, name)
    IN  IF Hit(w, d, name) # {} THEN x
        ELSE InodeWrite(x, d, FirstUnused(x.mem, x.inode[d]), <<DirEntry(i, name)>>)

-----------------------------------------------------------------------------
(* Operations.                                                              *)

\* begin_op and what is done in the operation; w is the state it leaves.
MayBegin(t) == panic = "no" /\ op[t].state = "none" /\ ops < MaxOps
Runs(t, w, short) ==
    /\ disk' = w.disk /\ mem' = w.mem /\ inode' = w.inode /\ logged' = w.logged
    /\ panic' = w.panic
    /\ op' = [op EXCEPT ![t] = [state |-> "running", rm |-> w.rm, short |-> short]]
    /\ ops' = ops + 1 /\ UNCHANGED crashes
Begun(i) == Get(World(OP_MAX_NUM_BLOCKS), i)
Is(i, type) == Dinode(mem, i).type = type

\* create, with directory d locked.
Linked(w, d, i, type) ==
    LET x == InodeSync([w EXCEPT !.inode[i].num_links = 1], i)
        up == InodeSync([x EXCEPT !.inode[d].num_links = @ + 1], d)
    IN  IF type = "dir" THEN InodeInsert(InodeInsert(up, i, ".", i), i, "..", d) ELSE x
Create(t, d, type, name) ==
    LET w == InodeLookup(Begun(d), d, name)
        i == Min(FreeInums(w.mem))
        a == InodeAlloc(w, i, type)
    IN  /\ MayBegin(t) /\ Is(d, "dir")
        /\ Runs(t, IF Hit(w, d, name) # {} THEN w
                   ELSE IF a.panic # "no" THEN a
                   ELSE InodeInsert(Linked(a, d, i, type), d, name, i), FALSE)

\* filewrite: the limit mx of one operation does not limit what inodes.write is
\* passed; a count above it is a "short filewrite" when the operation has ended.
\* What is written tells how much was.
\* (The mutant has a limit that is too large.)
MxAll == (OP_MAX_NUM_BLOCKS - 1) * BSIZE
Mx == ((OP_MAX_NUM_BLOCKS - 1 - 1 - 2) \div 2) * BSIZE
Write(t, i, off, n) ==
    /\ MayBegin(t) /\ Is(i, "file") /\ off <= Dinode(mem, i).num_bytes
    /\ Runs(t, InodeWrite(Begun(i), i, off, [k \in 1..n |-> Unit(n)]), n > Mx)

\* inodes.clear, and the removal of a file as the tests do it.
Clear(t, i) == MayBegin(t) /\ Is(i, "file") /\ Runs(t, InodeClear(Begun(i), i), FALSE)
RemoveFile(t, d, name) ==
    LET w == Begun(d)
        k == Min(Hit(w, d, name))
        i == UnitAt(mem, w.inode[d], k)[1]
        x == Get(InodeWrite(w, d, k, <<Zero>>), i)
    IN  /\ MayBegin(t) /\ Is(d, "dir") /\ Hit(w, d, name) # {} /\ Is(i, "file")
        /\ Runs(t, InodePut(InodeSync([x EXCEPT !.inode[i].num_links = 0], i), i), FALSE)

\* fileread, and reading a directory; neither is part of an operation.
Read(i) ==
    LET w == Get(World(0), i)
        x == InodeRead(w, i, 0, w.inode[i].num_bytes)
    IN  /\ panic = "no" /\ ~Is(i, "free")
        /\ disk' = x.disk /\ mem' = x.mem /\ inode' = x.inode /\ panic' = x.panic
        /\ UNCHANGED <<logged, op, ops, crashes>>

\* The last reference to an inode with links is put.
Forget(i) ==
    /\ panic = "no" /\ i # ROOT_INODE_NO /\ inode[i] # NotLoaded
    /\ inode' = [inode EXCEPT ![i] = NotLoaded]
    /\ UNCHANGED <<disk, mem, logged, op, panic, ops, crashes>>

\* end_op: the last operation commits what all of them have logged.
EndOp(t) ==
    LET running == {u \in Threads : op[u].state = "running"} IN
    /\ panic = "no" /\ t \in running
    /\ \/ /\ running # {t}
          /\ op' = [op EXCEPT ![t].state = "ended"]
          /\ UNCHANGED <<disk, logged, panic>>
       \/ /\ running = {t}
          /\ disk' = [b \in Blocks |-> IF b \in logged THEN mem[b] ELSE disk[b]]
          /\ logged' = {}
          /\ op' = [u \in Threads |-> NoOp]
          /\ panic' = IF \E u \in Threads : op[u].short THEN "short filewrite" ELSE "no"
    /\ UNCHANGED <<mem, inode, ops, crashes>>

\* The power fails; the kernel boots again and has the root in memory.
Crash ==
    /\ crashes < MaxCrashes /\ crashes' = crashes + 1
    /\ mem' = disk /\ inode' = Loaded(disk) /\ logged' = {}
    /\ op' = [t \in Threads |-> NoOp] /\ panic' = "no"
    /\ UNCHANGED <<disk, ops>>

Next ==
    \/ \E t \in Threads, i \in Inums :
          \/ \E type \in {"dir", "file"}, name \in Names : Create(t, i, type, name)
          \/ \E off \in 0..INODE_MAX_BLOCKS * BSIZE, n \in WriteSizes : Write(t, i, off, n)
          \/ Clear(t, i)
          \/ \E name \in Names : RemoveFile(t, i, name)
    \/ \E i \in Inums : Read(i) \/ Forget(i)
    \/ \E t \in Threads : EndOp(t)
    \/ Crash

Spec == Init /\ [][Next]_vars

-----------------------------------------------------------------------------
(* Properties.                                                              *)

\* The inodes on a disk m, and the block that address p of inode i refers to; the
\* last address is the indirect block.
Allocated(m) == {i \in Inums : Dinode(m, i).type # "free"}
Addresses == 0..INODE_MAX_BLOCKS
Refers(m, i, p) ==
    LET e == Dinode(m, i) IN IF p = INODE_MAX_BLOCKS THEN e.indirect ELSE AddrOf(m, e, p)
Owners(m, b) == {x \in Allocated(m) \X Addresses : Refers(m, x[1], x[2]) = b}

\* On the disk at any moment, and in the cache, a block is marked in the bitmap
\* exactly if it is one of the fixed blocks or belongs to a file, and no block
\* belongs to two: cache_alloc, cache_free, inode_map, inode_clear and mkfs agree,
\* whenever the power fails.
OwnedOnce(m) ==
    \A b \in Blocks \ {0} :
        Cardinality(Owners(m, b)) = IF b \in Used(m) /\ b >= nmeta THEN 1 ELSE 0
BlocksOwnedOnce ==
    /\ OwnedOnce(disk) /\ 0..nmeta - 1 \subseteq Used(disk)
    /\ panic = "no" => OwnedOnce(mem)

\* The size of a file on the disk and its blocks agree: a block for every position
\* below num_bytes and none above, so that a read never allocates.
SizeBacked ==
    \A i \in Allocated(disk) : \A k \in 0..INODE_MAX_BLOCKS - 1 :
        LET e == Dinode(disk, i) IN (k * BSIZE < e.num_bytes) = (AddrOf(disk, e, k) # 0)

\* An operation logs at most OP_MAX_NUM_BLOCKS blocks, create of a directory and
\* the longest write that filewrite means to allow (mx) included; cache_sync panics
\* only in a write that is longer.
OpFits ==
    /\ panic = "exceeded" => \E t \in Threads : op[t].short
    /\ panic # "freeing free block"

\* Files are sequences and directories are maps, and each operation happens as a
\* whole or not at all, whenever the power fails and however operations share a
\* commit; what end_op has returned from is there after a restart.
FileOf(m, e) ==
    [type |-> e.type,
     data |-> IF e.type = "file" THEN [k \in 1..e.num_bytes |-> UnitAt(m, e, k - 1)[1]]
              ELSE <<>>,
     names |-> [n \in Names |->
                  IF e.type # "dir" \/ Entries(m, e, n) = {} THEN 0
                  ELSE UnitAt(m, e, Min(Entries(m, e, n)))[1]]]
Durable == [i \in Inums |-> FileOf(disk, Dinode(disk, i))]
Live == [i \in Inums |->
           FileOf(mem, IF inode[i] = NotLoaded THEN Dinode(mem, i) ELSE inode[i])]
Abs == INSTANCE AtomicFiles
         WITH live <- IF panic = "no" THEN Live ELSE Durable, durable <- Durable
FilesAtomic == Abs!Spec
=============================================================================
