------------------------------ MODULE SdDriver ------------------------------
(***************************************************************************)
(* The SD card driver (src/src/driver/sd.c: sdrw, sd_start, sd_intr), its  *)
(* request queue (buf.c) and the block device on top of it                 *)
(* (src/src/fs/block_device.c).                                            *)
(*                                                                         *)
(* The buf of a request lives on the kernel stack of the thread that calls *)
(* sd_read or sd_write, so a request is named by its thread and buf[t] is  *)
(* meaningful only while t is inside the call.  qlock is explicit: sdrw    *)
(* and sd_intr are cut into the steps between which the device, and the    *)
(* threads that do not need qlock, can run.                                *)
(***************************************************************************)
EXTENDS Integers, Sequences

CONSTANTS
    Threads,
    BlockNos,
    Values,
    InitValue,
    Handlers,      \* the processors that run sd_intr
    MaxErrors      \* bound: how many transfers fail with an error interrupt

ASSUME SdAssumption ==
    /\ "free" \notin Threads \cup Handlers /\ Threads \cap Handlers = {}
    /\ InitValue \in Values /\ BlockNos # {}
    /\ MaxErrors \in Nat

VARIABLES
    disk,      \* content of the card
    queue,     \* sdque, front first
    buf,       \* the struct buf of each thread
    pc,        \* where each thread is in sdrw
    qlock,     \* "free", or who holds it
    ipc,       \* where each processor is in sd_intr
    emmc,      \* the controller: what it transfers, and its interrupt register
    errors,    \* transfers that failed
    panicked

vars == <<disk, queue, buf, pc, qlock, ipc, emmc, errors, panicked>>

\* The flags of a buf: 0 to read, B_DIRTY to write, B_VALID when done.
Flags == {"read", "dirty", "valid"}
Bufs == [flags : Flags, blockno : BlockNos, data : Values]
NoTransfer == [state |-> "idle"]

Init ==
    /\ disk = [n \in BlockNos |-> InitValue]
    /\ queue = <<>>
    /\ buf \in [Threads -> [flags : {"valid"}, blockno : {CHOOSE n \in BlockNos : TRUE},
                            data : {InitValue}]]
    /\ pc = [t \in Threads |-> "idle"]
    /\ qlock = "free"
    /\ ipc = [h \in Handlers |-> "idle"]
    /\ emmc = NoTransfer
    /\ errors = 0
    /\ panicked = FALSE

-----------------------------------------------------------------------------
(* The controller (external): it carries out the command it was given and  *)
(* raises an interrupt.                                                    *)

\* The transfer succeeds: INT_DATA_DONE after a write, INT_READ_RDY when the
\* data of a read is in the controller.
DeviceDone ==
    /\ emmc.state = "busy"
    /\ emmc' = IF emmc.write
                 THEN [emmc EXCEPT !.state = "DATA_DONE"]
                 ELSE [emmc EXCEPT !.state = "READ_RDY", !.data = disk[emmc.bno]]
    /\ disk' = IF emmc.write THEN [disk EXCEPT ![emmc.bno] = emmc.data] ELSE disk
    /\ UNCHANGED <<queue, buf, pc, qlock, ipc, errors, panicked>>

\* The transfer fails: an error bit is set in the interrupt register.
DeviceError ==
    /\ emmc.state = "busy"
    /\ errors < MaxErrors
    /\ errors' = errors + 1
    /\ emmc' = [emmc EXCEPT !.state = "ERROR"]
    /\ UNCHANGED <<disk, queue, buf, pc, qlock, ipc, panicked>>

-----------------------------------------------------------------------------
(* Requests.                                                               *)

\* sd_start: the command for the buf at the front of the queue.  Its assertion
\* ("emmc interrupt flag should be empty") panics when it does not hold.
Command(b) == [state |-> "busy", write |-> b.flags = "dirty",
               bno |-> b.blockno, data |-> b.data]
SdStart(q) ==
    /\ emmc' = Command(buf[Head(q)])
    /\ panicked' = (emmc # NoTransfer)

\* sd_read and sd_write fill in a buf and call sdrw, which takes qlock and
\* pushes the buf.  The data of a read is what the stack held.  (The mutant
\* starts the card whatever the queue holds.)
StartsAlways(q) == TRUE
MustStart(q) == q = <<>>
Sdrw(t, flags, n, v) ==
    /\ pc[t] = "idle" /\ qlock = "free" /\ ~panicked
    /\ qlock' = t
    /\ buf' = [buf EXCEPT ![t] = [flags |-> flags, blockno |-> n, data |-> v]]
    /\ queue' = Append(queue, t)
    /\ pc' = [pc EXCEPT ![t] = IF MustStart(queue) THEN "start" ELSE "check"]
    /\ UNCHANGED <<disk, ipc, emmc, errors, panicked>>

\* sdrw starts the card when the queue was empty.
SdrwStarts(t) ==
    /\ pc[t] = "start" /\ ~panicked
    /\ SdStart(queue)
    /\ pc' = [pc EXCEPT ![t] = "check"]
    /\ UNCHANGED <<disk, queue, buf, qlock, ipc, errors>>

\* The loop of sdrw: return when the flags are B_VALID, else sleep; both give
\* up qlock.  A write has B_DIRTY and B_VALID from the start: the mutant returns
\* when B_VALID is one of the flags.
DoneIfValidSet(b) == b.flags \in {"valid", "dirty"}
Done(b) == b.flags = "valid"
SdrwLoop(t) ==
    /\ pc[t] = "check" /\ ~panicked
    /\ qlock' = "free"
    /\ pc' = [pc EXCEPT ![t] = IF Done(buf[t]) THEN "copy" ELSE "sleep"]
    /\ UNCHANGED <<disk, queue, buf, ipc, emmc, errors, panicked>>

\* A thread that was woken up takes qlock again, inside sleep.
SdrwWoken(t) ==
    /\ pc[t] = "woken" /\ qlock = "free" /\ ~panicked
    /\ qlock' = t
    /\ pc' = [pc EXCEPT ![t] = "check"]
    /\ UNCHANGED <<disk, queue, buf, ipc, emmc, errors, panicked>>

\* sd_read copies the data to its caller and returns.
SdReturn(t) ==
    /\ pc[t] = "copy" /\ ~panicked
    /\ pc' = [pc EXCEPT ![t] = "idle"]
    /\ UNCHANGED <<disk, queue, buf, qlock, ipc, emmc, errors, panicked>>

-----------------------------------------------------------------------------
(* sd_intr.                                                                *)

Interrupting == emmc.state \in {"DATA_DONE", "READ_RDY", "ERROR"}

\* interrupt_global_handler finds the card in IRQ_PENDING and calls sd_intr.
\* The interrupt is routed to CPU 0.  But the handler tests for it after the
\* clock handler, which yields: the interrupted process may go on from there on
\* another processor while CPU 0 takes the interrupt again.
IntrPending(h) ==
    /\ Interrupting /\ ipc[h] = "idle" /\ ~panicked
    /\ ipc' = [ipc EXCEPT ![h] = "spin"]
    /\ UNCHANGED <<disk, queue, buf, pc, qlock, emmc, errors, panicked>>

\* sd_intr takes qlock.  It does nothing, and leaves the interrupt pending,
\* when the queue is empty.
IntrEnter(h) ==
    /\ ipc[h] = "spin" /\ qlock = "free" /\ ~panicked
    /\ IF queue = <<>>
         THEN ipc' = [ipc EXCEPT ![h] = "idle"] /\ UNCHANGED qlock
         ELSE ipc' = [ipc EXCEPT ![h] = "complete"] /\ qlock' = h
    /\ UNCHANGED <<disk, queue, buf, pc, emmc, errors, panicked>>

\* The interrupt must be the one the front of the queue waits for.
ExpectedInterrupt(b) == IF b.flags = "dirty" THEN "DATA_DONE" ELSE "READ_RDY"

\* sd_intr clears the interrupt register, completes the request at the front of
\* the queue and wakes up its thread.  (The mutant leaves the data in the
\* controller.)
ReceivedNothing(t) == buf[t].data
Received(t) == IF emmc.write THEN buf[t].data ELSE emmc.data
Wakeup(t) == IF pc[t] = "sleep" THEN [pc EXCEPT ![t] = "woken"] ELSE pc
IntrComplete(h) ==
    LET t == Head(queue) IN
    /\ ipc[h] = "complete" /\ ~panicked
    /\ emmc' = IF Interrupting THEN NoTransfer ELSE emmc
    /\ IF emmc.state = ExpectedInterrupt(buf[t])
         THEN /\ buf' = [buf EXCEPT ![t] = [flags |-> "valid", blockno |-> buf[t].blockno,
                                            data |-> Received(t)]]
              /\ pc' = Wakeup(t)
              /\ ipc' = [ipc EXCEPT ![h] = "pop"]
              /\ UNCHANGED panicked
         ELSE /\ panicked' = TRUE
              /\ UNCHANGED <<buf, pc, ipc>>
    /\ UNCHANGED <<disk, queue, qlock, errors>>

\* The request is popped and, if there is another one, it is started; then
\* qlock is given up.  (The mutant does not start the next request.)
NeverMore(q) == FALSE
More(q) == q # <<>>
IntrNext(h) ==
    /\ ipc[h] = "pop" /\ ~panicked
    /\ queue' = Tail(queue)
    /\ IF More(queue') THEN SdStart(queue') ELSE UNCHANGED <<emmc, panicked>>
    /\ qlock' = "free"
    /\ ipc' = [ipc EXCEPT ![h] = "idle"]
    /\ UNCHANGED <<disk, buf, pc, errors>>

-----------------------------------------------------------------------------
Step(t) == SdrwStarts(t) \/ SdrwLoop(t) \/ SdReturn(t)
Intr(h) == IntrPending(h) \/ IntrEnter(h) \/ IntrComplete(h) \/ IntrNext(h)

Next ==
    \/ \E t \in Threads :
          \/ \E f \in {"read", "dirty"}, n \in BlockNos, v \in Values :
                Sdrw(t, f, n, v)
          \/ Step(t)
          \/ SdrwWoken(t)
    \/ DeviceDone
    \/ DeviceError
    \/ \E h \in Handlers : Intr(h)

Spec == Init /\ [][Next]_vars

\* The controller answers, threads that can run do, and the interrupt is taken
\* once qlock stays free: CPU 0 returns to user mode, where interrupts are on.
FairSpec ==
    /\ Spec
    /\ WF_vars(DeviceDone) /\ \A h \in Handlers : WF_vars(Intr(h))
    /\ \A t \in Threads : WF_vars(Step(t)) /\ WF_vars(SdrwWoken(t))

\* A thread that waits for qlock is not overtaken for ever by the others.  The
\* test-and-set lock does not promise it; timing makes it so.
LockFair == \A t \in Threads : SF_vars(SdrwWoken(t))

-----------------------------------------------------------------------------
InSdrw(t) == pc[t] \in {"start", "check", "sleep", "woken"}

\* A queued buf is on the stack of a thread that is still inside sdrw: neither
\* sd_intr nor a push follows a pointer into a frame that has returned.  No buf
\* is queued twice, and one that has left the queue is complete.
QueueAlive ==
    /\ \A i \in DOMAIN queue : InSdrw(queue[i])
    /\ \A i, j \in DOMAIN queue : queue[i] = queue[j] => i = j
    /\ \A t \in Threads :
          InSdrw(t) /\ buf[t].flags # "valid" => \E i \in DOMAIN queue : queue[i] = t

\* The panics of sd_start ("emmc interrupt flag should be empty") and of sd_intr
\* (an interrupt that is not the expected one) fire only after a device error.
PanicsOnlyOnError == panicked => errors > 0

\* The abstract call of a thread: it takes effect when the device completes it.
Completed(t) ==
    \/ Done(buf[t])
    \/ queue # <<>> /\ t = Head(queue) /\ emmc.state \in {"DATA_DONE", "READ_RDY"}
CallState(t) ==
    CASE pc[t] = "idle" -> [state |-> "idle"]
      [] pc[t] # "idle" /\ Completed(t) ->
           [state |-> "done", data |-> IF Done(buf[t]) THEN buf[t].data ELSE emmc.data]
      [] OTHER ->
           [state |-> "called",
            req |-> [write |-> buf[t].flags = "dirty", bno |-> buf[t].blockno,
                     data |-> buf[t].data]]

Calls == [t \in Threads |-> CallState(t)]
Abs == INSTANCE AtomicDevice WITH blocks <- disk, call <- Calls

\* Every sd_read and sd_write takes effect at one moment between its call and its
\* return, whatever the queue, the interrupts and the other threads do: a read
\* returns what the block held then.
AtomicCalls == Abs!Spec

\* Every call of sdrw returns, unless the driver panics on a device error and
\* provided qlock is fair: the interrupt of one request starts the next, and the
\* wakeup of sd_intr is not lost, whether it comes before or after the thread sleeps.
CallReturns ==
    LockFair => \A t \in Threads : (pc[t] # "idle") ~> (pc[t] = "idle" \/ panicked)
=============================================================================
