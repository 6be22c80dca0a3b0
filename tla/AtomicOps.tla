------------------------------ MODULE AtomicOps ------------------------------
(***************************************************************************)
(* What the block cache promises about atomic operations                   *)
(* (src/src/fs/cache.h, "NOTES FOR ATOMIC OPERATIONS").  An operation is   *)
(* running, then committed, then checkpointed.  There are two contents of  *)
(* the disk: `volatile' is what a thread that acquires a block sees, and   *)
(* `stable' is what is there after a crash and the recovery that follows.  *)
(***************************************************************************)
CONSTANTS
    Threads,        \* the threads that run operations
    Blocks,         \* block numbers
    DirectBlocks,   \* the blocks written with a NULL context
    Values,         \* block contents
    InitValue       \* the content of every block of a fresh file system

VARIABLES stable, volatile, op

absVars == <<stable, volatile, op>>

Init ==
    /\ stable = [b \in Blocks |-> InitValue]
    /\ volatile = stable
    /\ op = [t \in Threads |-> "idle"]

\* begin_op: creates a new running atomic operation.
Begin(t) ==
    /\ op[t] = "idle"
    /\ op' = [op EXCEPT ![t] = "running"]
    /\ UNCHANGED <<stable, volatile>>

\* A modification of a block, handed to sync with the operation's context.
Write(t, b, v) ==
    /\ op[t] = "running"
    /\ volatile' = [volatile EXCEPT ![b] = v]
    /\ UNCHANGED <<stable, op>>

\* sync with a NULL context: immediately writes block content back to disk.
WriteDirect(b, v) ==
    /\ volatile' = [volatile EXCEPT ![b] = v]
    /\ stable' = [stable EXCEPT ![b] = v]
    /\ UNCHANGED op

\* end_op is called: no more modifications.
End(t) ==
    /\ op[t] = "running"
    /\ op' = [op EXCEPT ![t] = "committed"]
    /\ UNCHANGED <<stable, volatile>>

\* All operations since the last checkpoint reach the disk together, and only
\* when none of them is still running.
Checkpoint ==
    /\ \A t \in Threads : op[t] # "running"
    /\ \E t \in Threads : op[t] = "committed"
    /\ stable' = volatile
    /\ op' = [t \in Threads |->
                IF op[t] = "committed" THEN "checkpointed" ELSE op[t]]
    /\ UNCHANGED volatile

\* end_op returns when all associated blocks are persisted to disk.
Return(t) ==
    /\ op[t] = "checkpointed"
    /\ op' = [op EXCEPT ![t] = "idle"]
    /\ UNCHANGED <<stable, volatile>>

\* Power is lost: memory goes, the stable content is what remains.
Crash ==
    /\ volatile' = stable
    /\ op' = [t \in Threads |-> "idle"]
    /\ UNCHANGED stable

Next ==
    \/ \E t \in Threads :
          \/ Begin(t) \/ End(t) \/ Return(t)
          \/ \E b \in Blocks \ DirectBlocks, v \in Values : Write(t, b, v)
    \/ \E b \in DirectBlocks, v \in Values : WriteDirect(b, v)
    \/ Checkpoint
    \/ Crash

Spec == Init /\ [][Next]_absVars
=============================================================================
