--------------------------------- MODULE Log ---------------------------------
(***************************************************************************)
(* The write-ahead log of the block cache (src/src/fs/cache.c): begin_op,  *)
(* sync, end_op with its group commit, and recovery at boot.               *)
(*                                                                         *)
(* The block cache itself is seen through its interface: mem[b] is what    *)
(* cache_acquire(b) returns, that is the cached content when b is cached   *)
(* and the content on disk otherwise.  Module BlockCache models how blocks *)
(* are cached and evicted.  log.lock makes the body of each operation one  *)
(* step; every block written to the device is a step of its own, so that   *)
(* power can be lost between any two of them.                              *)
(***************************************************************************)
EXTENDS Integers, Sequences, FiniteSets

CONSTANTS
    Threads,            \* the threads that run operations
    Blocks,             \* numbers of the blocks outside the log area
    DirectBlocks,       \* the blocks written with a NULL context
    Values,             \* block contents
    InitValue,          \* the content of every block made by mkfs
    NumLogBlocks,       \* sblock->num_log_blocks, the header included
    LOG_MAX_SIZE,       \* entries of a log header
    OP_MAX_NUM_BLOCKS,  \* blocks that one operation may log
    MaxCrashes          \* bound: how often power is lost

ASSUME LogAssumption ==
    /\ IsFiniteSet(Threads)
    /\ DirectBlocks \subseteq Blocks
    /\ InitValue \in Values
    /\ NumLogBlocks \in Nat \ {0}
    /\ LOG_MAX_SIZE \in Nat
    /\ OP_MAX_NUM_BLOCKS \in Nat \ {0}
    /\ MaxCrashes \in Nat

VARIABLES
    disk,         \* the home location of every block, on the device
    logDisk,      \* the log blocks on the device, after the header
    headerDisk,   \* the log header on the device: the logged block numbers
    mem,          \* the content a thread that acquires the block sees
    pinned,       \* Block.pinned
    header,       \* the in-memory header: block_no[0 .. num_blocks - 1]
    outstanding,  \* log.outstanding
    committing,   \* log.committing
    mu,           \* log.mu: slots reserved by the running operations
    rm,           \* OpContext.rm of each thread
    pc,           \* where each thread is
    tail,         \* the loop index of write_log and install_trans
    sys,          \* what the machine does: boot phases, up, or panicked
    panic,        \* why it panicked
    crashes

diskVars == <<disk, logDisk, headerDisk>>
resVars == <<outstanding, committing, mu, rm>>
vars == <<disk, logDisk, headerDisk, mem, pinned, header, outstanding,
          committing, mu, rm, pc, tail, sys, panic, crashes>>

\* log.mx
mx == IF NumLogBlocks - 1 < LOG_MAX_SIZE THEN NumLogBlocks - 1 ELSE LOG_MAX_SIZE

-----------------------------------------------------------------------------
(* Boot and recovery.                                                       *)

Init ==
    /\ disk = [b \in Blocks |-> InitValue]
    /\ logDisk = [i \in 1..mx |-> InitValue]
    /\ headerDisk = <<>>
    /\ mem = disk
    /\ pinned = [b \in Blocks |-> FALSE]
    /\ header = <<>>
    /\ outstanding = 0 /\ committing = FALSE /\ mu = 0
    /\ rm = [t \in Threads |-> 0]
    /\ pc = [t \in Threads |-> "idle"]
    /\ tail = 0
    /\ sys = "read_header"
    /\ panic = "none"
    /\ crashes = 0

\* Power is lost and the machine boots: what was in memory is gone.
Crash ==
    /\ crashes < MaxCrashes
    /\ crashes' = crashes + 1
    /\ mem' = disk
    /\ pinned' = [b \in Blocks |-> FALSE]
    /\ header' = <<>>
    /\ outstanding' = 0 /\ committing' = FALSE /\ mu' = 0
    /\ rm' = [t \in Threads |-> 0]
    /\ pc' = [t \in Threads |-> "idle"]
    /\ tail' = 0
    /\ sys' = "read_header"
    /\ panic' = "none"
    /\ UNCHANGED diskVars

\* recover_from_log reads the header.
ReadHeader ==
    /\ sys = "read_header"
    /\ header' = headerDisk
    /\ tail' = 0
    /\ sys' = IF headerDisk = <<>> THEN "clear_header" ELSE "install"
    /\ UNCHANGED <<diskVars, mem, pinned, resVars, pc, panic, crashes>>

\* The loops of write_log and install_trans end after this round.
LastRound == tail + 1 = Len(header)

\* One round of the loop of install_trans: log block tail goes home.
CopyHome ==
    LET b == header[tail + 1] IN
    /\ disk' = [disk EXCEPT ![b] = logDisk[tail + 1]]
    /\ mem' = [mem EXCEPT ![b] = logDisk[tail + 1]]
    /\ tail' = tail + 1
    /\ UNCHANGED <<logDisk, headerDisk>>

\* install_trans(1): the blocks are also unpinned.
RecoverInstall ==
    /\ sys = "install"
    /\ CopyHome
    /\ pinned' = [pinned EXCEPT ![header[tail + 1]] = FALSE]
    /\ sys' = IF LastRound THEN "clear_header" ELSE "install"
    /\ UNCHANGED <<header, resVars, pc, panic, crashes>>

\* header.num_blocks = 0; write_header().
EmptyHeader ==
    /\ header' = <<>>
    /\ headerDisk' = <<>>
    /\ UNCHANGED <<disk, logDisk, mem, pinned>>

\* recover_from_log empties the header, and the file system is ready.
RecoverClear ==
    /\ sys = "clear_header"
    /\ EmptyHeader
    /\ sys' = "up"
    /\ UNCHANGED <<resVars, pc, tail, panic, crashes>>

-----------------------------------------------------------------------------
(* Atomic operations.                                                       *)

\* The conditions under which begin_op goes to sleep.  (The mutant
\* forgets that a commit is under way.)
MustWaitNotCommitting == Len(header) + mu + OP_MAX_NUM_BLOCKS > mx
MustWait ==
    \/ committing
    \/ Len(header) + mu + OP_MAX_NUM_BLOCKS > mx

\* One round of the loop of begin_op; "begin" is a thread that was woken up.
BeginOp(t) ==
    /\ sys = "up"
    /\ pc[t] \in {"idle", "begin"}
    /\ IF MustWait
         THEN /\ pc' = [pc EXCEPT ![t] = "begin_sleep"]
              /\ UNCHANGED resVars
         ELSE /\ outstanding' = outstanding + 1
              /\ mu' = mu + OP_MAX_NUM_BLOCKS
              /\ rm' = [rm EXCEPT ![t] = OP_MAX_NUM_BLOCKS]
              /\ pc' = [pc EXCEPT ![t] = "running"]
              /\ UNCHANGED committing
    /\ UNCHANGED <<diskVars, mem, pinned, header, tail, sys, panic, crashes>>

\* The search of sync through the header.
Logged(b) == \E i \in DOMAIN header : header[i] = b

\* What sync finds, in the order of its tests.
SyncCase(t, b) ==
    IF Len(header) >= mx THEN "too big a transaction"
    ELSE IF outstanding < 1 THEN "log_write outside of trans"
    ELSE IF Logged(b) THEN "absorbed"
    ELSE IF rm[t] > 0 THEN "appended"
    ELSE "OP_MAX_BLOCK exceeded"

\* Whether sync pins the block: when it adds it to the header.
SyncPins(t, b) == SyncCase(t, b) \in {"appended", "OP_MAX_BLOCK exceeded"}

\* A thread acquires block b, changes it, calls sync with its context and
\* releases the block.  Holding the block makes this one step for others.
Sync(t, b, v) ==
    LET case == SyncCase(t, b) IN
    /\ sys = "up"
    /\ pc[t] = "running"
    /\ mem' = [mem EXCEPT ![b] = v]
    /\ header' = IF case \in {"appended", "OP_MAX_BLOCK exceeded"}
                   THEN Append(header, b) ELSE header
    /\ pinned' = IF SyncPins(t, b)
                   THEN [pinned EXCEPT ![b] = TRUE] ELSE pinned
    /\ rm' = IF case = "appended" THEN [rm EXCEPT ![t] = @ - 1] ELSE rm
    /\ mu' = IF case = "appended" THEN mu - 1 ELSE mu
    /\ IF case \in {"absorbed", "appended"}
         THEN UNCHANGED <<sys, panic>>
         ELSE sys' = "panicked" /\ panic' = case
    /\ UNCHANGED <<diskVars, outstanding, committing, pc, tail, crashes>>

\* sync with a NULL context: device_write at once.
SyncDirect(b, v) ==
    /\ sys = "up"
    /\ mem' = [mem EXCEPT ![b] = v]
    /\ disk' = [disk EXCEPT ![b] = v]
    /\ UNCHANGED <<logDisk, headerDisk, pinned, header, resVars, pc, tail, sys,
                   panic, crashes>>

\* wakeup on &log and on &log.outstanding, over the positions p of the threads.
\* (The mutant forgets the wakeup.)
WakeNobody(p) == p
WakeBeginners(p) ==
    [t \in Threads |-> IF p[t] = "begin_sleep" THEN "begin" ELSE p[t]]
WakeEnders(p) ==
    [t \in Threads |-> IF p[t] = "end_sleep" THEN "end" ELSE p[t]]

\* The slots end_op gives back: those the operation did not use.  (The mutant
\* gives back the whole reservation.)
GivesBackAll(t) == OP_MAX_NUM_BLOCKS
GivesBack(t) == rm[t]

\* end_op up to the release of log.lock.  The last operation commits.
EndOp(t) ==
    /\ sys = "up"
    /\ pc[t] = "running"
    /\ outstanding' = outstanding - 1
    /\ mu' = mu - GivesBack(t)
    /\ rm' = [rm EXCEPT ![t] = 0]
    /\ IF committing
         THEN /\ sys' = "panicked" /\ panic' = "log committing"
              /\ UNCHANGED <<committing, pc>>
         ELSE /\ committing' = (outstanding' = 0)
              /\ pc' = IF outstanding' = 0
                         THEN [pc EXCEPT ![t] = "commit"]
                         ELSE WakeBeginners([pc EXCEPT ![t] = "end_sleep"])
              /\ UNCHANGED <<sys, panic>>
    /\ UNCHANGED <<diskVars, mem, pinned, header, tail, crashes>>

\* end_op returns to a thread that slept until its operation was committed.
EndOpReturn(t) ==
    /\ sys = "up"
    /\ pc[t] = "end"
    /\ pc' = [pc EXCEPT ![t] = "idle"]
    /\ UNCHANGED <<diskVars, mem, pinned, header, resVars, tail, sys, panic,
                   crashes>>

-----------------------------------------------------------------------------
(* commit(), run by the thread whose end_op was the last.                   *)

Goto(t, label) == pc' = [pc EXCEPT ![t] = label]

\* commit does nothing when no block was logged.  (The mutant writes the
\* header before the log blocks.)
CommitHeaderFirst(t) ==
    /\ sys = "up"
    /\ pc[t] = "commit"
    /\ Goto(t, IF header = <<>> THEN "finish" ELSE "write_header")
    /\ tail' = 0
    /\ UNCHANGED <<diskVars, mem, pinned, header, resVars, sys, panic, crashes>>
Commit(t) ==
    /\ sys = "up"
    /\ pc[t] = "commit"
    /\ Goto(t, IF header = <<>> THEN "finish" ELSE "write_log")
    /\ tail' = 0
    /\ UNCHANGED <<diskVars, mem, pinned, header, resVars, sys, panic, crashes>>

\* One round of write_log: a logged block is copied to log block tail.
WriteLog(t) ==
    /\ sys = "up"
    /\ pc[t] = "write_log"
    /\ logDisk' = [logDisk EXCEPT ![tail + 1] = mem[header[tail + 1]]]
    /\ tail' = tail + 1
    /\ Goto(t, IF LastRound THEN "write_header" ELSE "write_log")
    /\ UNCHANGED <<disk, headerDisk, mem, pinned, header, resVars, sys, panic,
                   crashes>>

\* write_header(): the point at which the operations are committed.
WriteHeader(t) ==
    /\ sys = "up"
    /\ pc[t] = "write_header"
    /\ headerDisk' = header
    /\ tail' = 0
    /\ Goto(t, "install")
    /\ UNCHANGED <<disk, logDisk, mem, pinned, header, resVars, sys, panic,
                   crashes>>

\* install_trans(0): the blocks stay pinned.
InstallTrans(t) ==
    /\ sys = "up"
    /\ pc[t] = "install"
    /\ CopyHome
    /\ Goto(t, IF LastRound THEN "clear_header" ELSE "install")
    /\ UNCHANGED <<pinned, header, resVars, sys, panic, crashes>>

\* header.num_blocks = 0; write_header().
ClearHeader(t) ==
    /\ sys = "up"
    /\ pc[t] = "clear_header"
    /\ EmptyHeader
    /\ Goto(t, "finish")
    /\ UNCHANGED <<resVars, tail, sys, panic, crashes>>

\* The end of end_op: everyone who waits for the log is woken up.
FinishCommit(t) ==
    /\ sys = "up"
    /\ pc[t] = "finish"
    /\ committing' = FALSE
    /\ pc' = WakeBeginners(WakeEnders([pc EXCEPT ![t] = "idle"]))
    /\ UNCHANGED <<diskVars, mem, pinned, header, outstanding, mu, rm, tail, sys,
                   panic, crashes>>

-----------------------------------------------------------------------------
CommitStep(t) ==
    \/ Commit(t) \/ WriteLog(t) \/ WriteHeader(t)
    \/ InstallTrans(t) \/ ClearHeader(t) \/ FinishCommit(t)

Recover == ReadHeader \/ RecoverInstall \/ RecoverClear

Syncs(t, b) == \E v \in Values : Sync(t, b, v)

NonSync ==
    \/ \E t \in Threads :
          BeginOp(t) \/ EndOp(t) \/ EndOpReturn(t) \/ CommitStep(t)
    \/ \E b \in DirectBlocks, v \in Values : SyncDirect(b, v)
    \/ Recover
    \/ Crash

Next ==
    \/ \E t \in Threads, b \in Blocks \ DirectBlocks : Syncs(t, b)
    \/ NonSync

Spec == Init /\ [][Next]_vars

\* A thread inside begin_op, end_op or commit is runnable, and the scheduler
\* runs every runnable process; an operation of the file system is a finite
\* piece of code that reaches its end_op; booting runs to its end.  Starting
\* an operation, modifying a block and losing power are not obligations.
Fairness ==
    /\ \A t \in Threads :
          /\ WF_vars(pc[t] = "begin" /\ BeginOp(t))
          /\ WF_vars(EndOp(t))
          /\ WF_vars(EndOpReturn(t))
          /\ WF_vars(CommitStep(t))
    /\ WF_vars(Recover)

FairSpec == Spec /\ Fairness

-----------------------------------------------------------------------------
(* Properties.                                                              *)

Labels == {"idle", "begin", "begin_sleep", "running", "end_sleep", "end",
           "commit", "write_log", "write_header", "install", "clear_header",
           "finish"}
Panics == {"none", "too big a transaction", "log_write outside of trans",
           "OP_MAX_BLOCK exceeded", "log committing"}

\* The variables of cache.c have their types; the number of logged blocks and
\* the reservation stay within the log.
TypeOK ==
    /\ disk \in [Blocks -> Values] /\ mem \in [Blocks -> Values]
    /\ logDisk \in [1..mx -> Values]
    /\ headerDisk \in Seq(Blocks) /\ Len(headerDisk) <= mx
    /\ header \in Seq(Blocks) /\ Len(header) <= mx
    /\ pinned \in [Blocks -> BOOLEAN]
    /\ outstanding \in Nat /\ committing \in BOOLEAN
    /\ mu \in 0..mx
    /\ rm \in [Threads -> 0..OP_MAX_NUM_BLOCKS]
    /\ pc \in [Threads -> Labels]
    /\ tail \in 0..mx
    /\ sys \in {"read_header", "install", "clear_header", "up", "panicked"}
    /\ panic \in Panics
    /\ crashes \in 0..MaxCrashes

Running == {t \in Threads : pc[t] = "running"}

\* The slots of the log that are reserved and not yet used, as pairs.
Reserved == {x \in Threads \X (1..OP_MAX_NUM_BLOCKS) : x[2] <= rm[x[1]]}

\* The accounting of begin_op, sync and end_op is exact whatever operations
\* overlap: log.outstanding counts the running operations, log.mu is the sum
\* of what each may still log, and there is always room for all of it.
ReservationExact ==
    sys # "panicked" =>
        /\ outstanding = Cardinality(Running)
        /\ mu = Cardinality(Reserved)
        /\ Len(header) + mu <= mx

\* A block that is not pinned has the same content in memory and on disk, so
\* that cache_acquire may evict it ("if a block is pinned, it should not be
\* evicted", cache.h:25).
UnpinnedClean ==
    sys # "panicked" => \A b \in Blocks : ~pinned[b] => mem[b] = disk[b]

\* When no operation runs and none is being committed, every modification is
\* checkpointed: memory and disk agree and the log on disk is empty.
Checkpointed ==
    (sys = "up" /\ outstanding = 0 /\ ~committing) =>
        mem = disk /\ header = <<>> /\ headerDisk = <<>>

\* The panics of sync ("log_write outside of trans") and of end_op ("log
\* committing") that guard the protocol itself never happen.
NoProtocolPanic ==
    panic \notin {"log_write outside of trans", "log committing"}

\* Refinement mapping.  What a crash and the recovery after it leave on disk:
\* the logged blocks when the header on disk says so.
Recovered ==
    [b \in Blocks |->
        IF \E i \in DOMAIN headerDisk : headerDisk[i] = b
          THEN logDisk[CHOOSE i \in DOMAIN headerDisk : headerDisk[i] = b]
          ELSE disk[b]]
Visible == IF sys \in {"up", "panicked"} THEN mem ELSE Recovered

\* The committing thread has passed write_header.
AfterCommitPoint ==
    \E t \in Threads : pc[t] \in {"install", "clear_header", "finish"}
OpState ==
    [t \in Threads |->
        CASE pc[t] \in {"idle", "begin", "begin_sleep"} -> "idle"
          [] pc[t] = "running" -> "running"
          [] pc[t] \in {"commit", "write_log", "write_header"} -> "committed"
          [] pc[t] \in {"end", "install", "clear_header", "finish"} ->
                "checkpointed"
          [] pc[t] = "end_sleep" ->
                IF AfterCommitPoint THEN "checkpointed" ELSE "committed"]
Abs == INSTANCE AtomicOps
         WITH stable <- Recovered, volatile <- Visible, op <- OpState

\* Operations are atomic and durable across crashes at any point: the code of
\* begin_op, sync, end_op, commit and recover_from_log implements AtomicOps.
AtomicDurable == Abs!Spec

\* A thread that called end_op gets out of it ("it returns when all associated
\* blocks are persisted to disk"), unless the kernel panics or other threads
\* begin operations for ever, so that the group never closes.
EndOpReturns ==
    \/ \A t \in Threads :
          pc[t] = "end_sleep" ~> (pc[t] = "idle" \/ sys = "panicked")
    \/ []<><<\E t \in Threads : BeginOp(t) /\ pc'[t] = "running">>_vars

\* No wakeup is missed: a thread asleep in begin_op still has to wait, whatever other
\* operations gave back since, and a thread asleep in begin_op or end_op has somebody
\* who will wake it up, an operation that runs or a commit (in a log that has room
\* for one operation).
SleepersAwaited ==
    sys = "up" =>
        \A t \in Threads :
            /\ pc[t] = "begin_sleep" => MustWait
            /\ pc[t] = "end_sleep" \/ (pc[t] = "begin_sleep" /\ OP_MAX_NUM_BLOCKS <= mx)
                  => committing \/ \E u \in Threads : pc[u] = "running"
=============================================================================
