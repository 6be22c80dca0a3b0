---------------------------- MODULE AtomicDevice ----------------------------
(***************************************************************************)
(* What the block device promises to its callers                           *)
(* (src/src/fs/block_device.h, and the comment before sdrw in sd.c): a     *)
(* call reads or writes one block, and takes effect at one moment between  *)
(* the call and its return.                                                *)
(***************************************************************************)
CONSTANTS Threads, BlockNos, Values, InitValue

VARIABLES
    blocks,   \* content of the device
    call      \* the call of each thread

absVars == <<blocks, call>>

NoCall == [state |-> "idle"]
Request == [write : BOOLEAN, bno : BlockNos, data : Values]

Init ==
    /\ blocks = [n \in BlockNos |-> InitValue]
    /\ call = [t \in Threads |-> NoCall]

Call(t, r) ==
    /\ call[t] = NoCall
    /\ call' = [call EXCEPT ![t] = [state |-> "called", req |-> r]]
    /\ UNCHANGED blocks

\* The call takes effect.  A read fixes the data that it returns.
Effect(t) ==
    /\ call[t].state = "called"
    /\ LET r == call[t].req IN
       IF r.write
         THEN /\ blocks' = [blocks EXCEPT ![r.bno] = r.data]
              /\ call' = [call EXCEPT ![t] = [state |-> "done", data |-> r.data]]
         ELSE /\ call' = [call EXCEPT ![t] =
                            [state |-> "done", data |-> blocks[r.bno]]]
              /\ UNCHANGED blocks

Return(t) ==
    /\ call[t].state = "done"
    /\ call' = [call EXCEPT ![t] = NoCall]
    /\ UNCHANGED blocks

Next ==
    \E t \in Threads :
        \/ \E r \in Request : Call(t, r)
        \/ Effect(t)
        \/ Return(t)

Spec == Init /\ [][Next]_absVars
=============================================================================
