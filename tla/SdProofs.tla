------------------------------ MODULE SdProofs ------------------------------
(***************************************************************************)
(* Proofs about the SD driver.  About its queue, for any number of threads *)
(* and processors: no request is lost or outlives its caller, and the card *)
(* works on the front of the queue.  About the bring-up of the card, for   *)
(* every controller, every card and any number of tries: sdInit takes no   *)
(* answer for another command's, and what it leaves agrees with the card.  *)
(***************************************************************************)
EXTENDS SdDriver, SdCard, TLAPS

Transfers ==
    [state : {"busy", "DATA_DONE", "READ_RDY", "ERROR"}, write : BOOLEAN,
     bno : BlockNos, data : Values]

\* The types of the variables of the driver and of the controller.
Types ==
    /\ disk \in [BlockNos -> Values]
    /\ queue \in Seq(Threads)
    /\ buf \in [Threads -> Bufs]
    /\ pc \in [Threads -> {"idle", "start", "check", "sleep", "woken", "copy"}]
    /\ qlock \in Threads \cup Handlers \cup {"free"}
    /\ ipc \in [Handlers -> {"idle", "spin", "complete", "pop"}]
    /\ emmc = NoTransfer \/ emmc \in Transfers
    /\ errors \in Nat
    /\ panicked \in BOOLEAN

\* Who is inside the critical sections of sdrw and sd_intr holds qlock.
LockHeld ==
    /\ \A t \in Threads : pc[t] \in {"start", "check"} <=> qlock = t
    /\ \A h \in Handlers : ipc[h] \in {"complete", "pop"} <=> qlock = h

Popping == \E h \in Handlers : ipc[h] = "pop"

\* The queue: its threads are in sdrw, each once; the only complete request in it
\* is the one that sd_intr is about to pop; the one to be started is alone.
QueueInv ==
    /\ QueueAlive
    /\ \A i \in 1..Len(queue) : buf[queue[i]].flags = "valid" <=> i = 1 /\ Popping
    /\ \A t \in Threads : pc[t] = "start" => Len(queue) = 1 /\ queue[1] = t
    /\ \A h \in Handlers : ipc[h] \in {"complete", "pop"} => Len(queue) > 0
    /\ \A t \in Threads : pc[t] = "idle" \/ pc[t] = "copy" => buf[t].flags = "valid"

\* The card works on the front of the queue, unless that is still to be started or
\* complete.
CardInv ==
    /\ emmc # NoTransfer =>
         /\ Len(queue) > 0 /\ ~Popping /\ pc[queue[1]] # "start"
         /\ emmc.write = (buf[queue[1]].flags = "dirty")
         /\ emmc.bno = buf[queue[1]].blockno
         /\ emmc.write => emmc.data = buf[queue[1]].data /\ emmc.state # "READ_RDY"
         /\ ~emmc.write => emmc.state # "DATA_DONE"
    /\ ~panicked /\ emmc = NoTransfer /\ Len(queue) > 0 =>
         pc[queue[1]] = "start" \/ Popping

SdInv == Types /\ LockHeld /\ QueueInv /\ CardInv

\* A record with a transfer differs from NoTransfer.
LEMMA TransferState ==
  ASSUME Types
  PROVE  emmc = NoTransfer <=> emmc.state = "idle"
  BY DEF Types, NoTransfer, Transfers

\* Before the first call.
LEMMA InitInv == Init => SdInv
<1> SUFFICES ASSUME Init PROVE SdInv
  OBVIOUS
<1>1. (CHOOSE n \in BlockNos : TRUE) \in BlockNos
  BY SdAssumption
<1>2. \A t \in Threads : buf[t] \in Bufs /\ buf[t].flags = "valid"
  BY Zenon, <1>1, SdAssumption DEF Init, Bufs, Flags
<1>3. queue \in Seq(Threads) /\ Len(queue) = 0 /\ DOMAIN queue = {}
  BY DEF Init
<1>4. Types
  BY Zenon, <1>2, <1>3, SdAssumption DEF Init, Types
<1>5. LockHeld
  BY SdAssumption DEF Init, LockHeld
<1>6. QueueInv
  BY <1>2, <1>3 DEF Init, QueueInv, QueueAlive, InSdrw
<1>7. CardInv
  BY <1>3 DEF Init, CardInv
<1> QED
  BY <1>4, <1>5, <1>6, <1>7 DEF SdInv

\* With qlock free nobody is in a critical section.
LEMMA FreeLock ==
  ASSUME SdInv, qlock = "free"
  PROVE  ~Popping /\ (\A t \in Threads : pc[t] \notin {"start", "check"})
         /\ (\A h \in Handlers : ipc[h] \notin {"complete", "pop"})
  BY SdAssumption DEF SdInv, LockHeld, Popping

\* With qlock taken by a thread nobody else is in a critical section.
LEMMA ThreadLock ==
  ASSUME SdInv, NEW t \in Threads, pc[t] \in {"start", "check"}
  PROVE  /\ ~Popping /\ qlock = t
         /\ \A u \in Threads : pc[u] \in {"start", "check"} => u = t
         /\ \A h \in Handlers : ipc[h] \notin {"complete", "pop"}
  BY SdAssumption DEF SdInv, LockHeld, Popping

\* With qlock taken by sd_intr nobody else is in a critical section.
LEMMA HandlerLock ==
  ASSUME SdInv, NEW h \in Handlers, ipc[h] \in {"complete", "pop"}
  PROVE  /\ qlock = h /\ Len(queue) > 0
         /\ \A t \in Threads : pc[t] \notin {"start", "check"}
         /\ \A g \in Handlers : ipc[g] \in {"complete", "pop"} => g = h
  BY SdAssumption DEF SdInv, LockHeld, QueueInv

\* sdrw pushes a buf.
LEMMA SdrwInv ==
  ASSUME SdInv, NEW t \in Threads, NEW f \in {"read", "dirty"}, NEW n \in BlockNos,
         NEW v \in Values, Sdrw(t, f, n, v)
  PROVE  SdInv'
<1>1. Types /\ LockHeld /\ QueueInv /\ CardInv
  BY DEF SdInv
<1>2. /\ ~Popping /\ (\A u \in Threads : pc[u] \notin {"start", "check"})
      /\ (\A h \in Handlers : ipc[h] \notin {"complete", "pop"})
  BY FreeLock DEF Sdrw
<1>3. /\ disk' = disk /\ ipc' = ipc /\ emmc' = emmc /\ errors' = errors
      /\ panicked' = panicked /\ qlock' = t /\ qlock = "free" /\ pc[t] = "idle"
      /\ queue' = Append(queue, t)
      /\ buf' = [buf EXCEPT ![t] = [flags |-> f, blockno |-> n, data |-> v]]
      /\ pc' = [pc EXCEPT ![t] = IF MustStart(queue) THEN "start" ELSE "check"]
  BY DEF Sdrw
<1>4. /\ queue \in Seq(Threads) /\ queue' \in Seq(Threads) /\ Len(queue) \in Nat
      /\ Len(queue') = Len(queue) + 1 /\ queue'[Len(queue) + 1] = t
      /\ \A i \in 1..Len(queue) : queue'[i] = queue[i] /\ queue[i] \in Threads
  BY <1>1, <1>3 DEF Types
<1>5. \A i \in 1..Len(queue) : queue[i] # t
  BY <1>1, <1>3, <1>4 DEF QueueInv, QueueAlive, InSdrw
<1>6. /\ \A u \in Threads : u # t => buf'[u] = buf[u] /\ pc'[u] = pc[u]
      /\ buf'[t].flags = f /\ buf'[t] \in Bufs
      /\ pc'[t] = IF MustStart(queue) THEN "start" ELSE "check"
  BY <1>1, <1>3 DEF Types, Bufs, Flags
<1>7. Popping' = FALSE
  BY <1>2, <1>3 DEF Popping
<1>8. Types'
  BY <1>1, <1>3, <1>4, <1>6 DEF Types
<1>9. LockHeld'
  BY <1>1, <1>2, <1>3, <1>6, SdAssumption DEF LockHeld
<1>10. QueueInv'
  <2>1. QueueAlive'
    <3>1. \A i \in DOMAIN queue' : pc'[queue'[i]] \in {"start", "check", "sleep", "woken"}
      BY <1>1, <1>4, <1>5, <1>6 DEF QueueInv, QueueAlive, InSdrw
    <3>2. \A i, j \in DOMAIN queue' : queue'[i] = queue'[j] => i = j
      BY <1>1, <1>4, <1>5 DEF QueueInv, QueueAlive
    <3>3. ASSUME NEW u \in Threads, InSdrw(u)', buf'[u].flags # "valid"
          PROVE  \E i \in DOMAIN queue' : queue'[i] = u
      BY <1>1, <1>4, <1>6, <3>3 DEF QueueInv, QueueAlive, InSdrw
    <3> QED
      BY <3>1, <3>2, <3>3 DEF QueueAlive, InSdrw
  <2>2. \A i \in 1..Len(queue') : buf'[queue'[i]].flags # "valid"
    BY <1>1, <1>2, <1>4, <1>5, <1>6 DEF QueueInv
  <2>3. \A u \in Threads : pc'[u] = "start" => Len(queue') = 1 /\ queue'[1] = u
    BY <1>2, <1>4, <1>6 DEF MustStart
  <2>4. \A u \in Threads : pc'[u] = "idle" \/ pc'[u] = "copy" => buf'[u].flags = "valid"
    BY <1>1, <1>6 DEF QueueInv
  <2> QED
    BY <1>2, <1>3, <1>7, <2>1, <2>2, <2>3, <2>4 DEF QueueInv
<1>11. CardInv'
  <2>1. CASE Len(queue) = 0
    <3>1. pc'[t] = "start" /\ queue'[1] = t /\ emmc = NoTransfer
      BY <1>1, <1>4, <1>6, <2>1 DEF MustStart, CardInv
    <3> QED
      BY <1>3, <3>1 DEF CardInv
  <2>2. CASE Len(queue) > 0
    <3>1. /\ queue'[1] = queue[1] /\ queue[1] \in Threads /\ queue[1] # t
          /\ Len(queue') > 0
      BY <1>4, <1>5, <2>2
    <3>2. buf'[queue[1]] = buf[queue[1]] /\ pc'[queue[1]] = pc[queue[1]]
      BY <1>6, <3>1
    <3> QED
      BY <1>1, <1>2, <1>3, <1>7, <2>2, <3>1, <3>2 DEF CardInv
  <2> QED
    BY <1>4, <2>1, <2>2
<1> QED
  BY <1>8, <1>9, <1>10, <1>11 DEF SdInv

\* sdrw starts the card: it is alone in the queue, and the card is idle.
LEMMA StartsInv ==
  ASSUME SdInv, NEW t \in Threads, SdrwStarts(t)
  PROVE  SdInv' /\ panicked' = FALSE /\ emmc = NoTransfer /\ Len(queue) = 1 /\ queue[1] = t
<1>1. Types /\ LockHeld /\ QueueInv /\ CardInv
  BY DEF SdInv
<1>2. pc[t] = "start" /\ ~panicked
  BY DEF SdrwStarts
<1>3. /\ ~Popping /\ qlock = t /\ \A h \in Handlers : ipc[h] \notin {"complete", "pop"}
  BY <1>2, ThreadLock
<1>4. Len(queue) = 1 /\ queue[1] = t /\ Head(queue) = t /\ queue \in Seq(Threads)
  BY <1>1, <1>2 DEF QueueInv, Types
<1>5. emmc = NoTransfer
  BY <1>1, <1>2, <1>4 DEF CardInv
<1>6. /\ disk' = disk /\ queue' = queue /\ buf' = buf /\ qlock' = qlock /\ ipc' = ipc
      /\ errors' = errors /\ pc' = [pc EXCEPT ![t] = "check"]
      /\ emmc' = Command(buf[t]) /\ panicked' = FALSE
  BY Zenon, <1>4, <1>5 DEF SdrwStarts, SdStart
<1>7. buf[t] \in Bufs /\ buf[t].flags # "valid" /\ Popping' = Popping
  BY <1>1, <1>3, <1>4, <1>6 DEF Types, QueueInv, Popping
<1>8. /\ emmc' \in Transfers /\ emmc'.state = "busy" /\ emmc'.write = (buf[t].flags = "dirty")
      /\ emmc'.bno = buf[t].blockno /\ emmc'.data = buf[t].data
  BY <1>6, <1>7 DEF Command, Transfers, Bufs
<1>9. /\ pc'[t] = "check"
      /\ pc' \in [Threads -> {"idle", "start", "check", "sleep", "woken", "copy"}]
      /\ \A u \in Threads : u # t => pc'[u] = pc[u]
  BY <1>1, <1>6 DEF Types
<1>10. Types'
  BY Zenon, <1>1, <1>6, <1>8, <1>9 DEF Types
<1>11. LockHeld'
  BY <1>1, <1>2, <1>6, <1>9 DEF LockHeld
<1>12. QueueInv'
  <2>1. QueueAlive'
    BY <1>1, <1>2, <1>4, <1>6, <1>9 DEF QueueInv, QueueAlive, InSdrw
  <2> QED
    BY Zenon, <1>1, <1>4, <1>6, <1>7, <1>9, <2>1 DEF QueueInv
<1>13. CardInv'
  <2>1. emmc' # NoTransfer
    BY <1>8 DEF NoTransfer
  <2>2. Popping' = FALSE
    BY <1>3, <1>7
  <2>3. /\ Len(queue') > 0 /\ queue'[1] = t /\ pc'[t] # "start" /\ buf'[t] = buf[t]
    <3>1. queue' = queue /\ buf' = buf
      BY <1>6
    <3>2. Len(queue) > 0
      BY <1>4
    <3>3. Len(queue') > 0
      BY <3>1, <3>2
    <3> QED
      BY <1>4, <1>9, <3>1, <3>3
  <2> QED
    BY <1>8, <2>1, <2>2, <2>3 DEF CardInv
<1> QED
  BY <1>4, <1>5, <1>6, <1>10, <1>11, <1>12, <1>13 DEF SdInv

\* sdrw leaves its loop or goes to sleep.
LEMMA LoopInv ==
  ASSUME SdInv, NEW t \in Threads, SdrwLoop(t)
  PROVE  SdInv'
<1>1. Types /\ LockHeld /\ QueueInv /\ CardInv
  BY DEF SdInv
<1>2. pc[t] = "check"
  BY DEF SdrwLoop
<1>3. /\ ~Popping /\ qlock = t
      /\ \A u \in Threads : pc[u] \in {"start", "check"} => u = t
      /\ \A h \in Handlers : ipc[h] \notin {"complete", "pop"}
  BY <1>2, ThreadLock
<1>4. /\ disk' = disk /\ queue' = queue /\ buf' = buf /\ ipc' = ipc /\ emmc' = emmc
      /\ errors' = errors /\ panicked' = panicked /\ qlock' = "free"
      /\ pc' = [pc EXCEPT ![t] = IF Done(buf[t]) THEN "copy" ELSE "sleep"]
  BY DEF SdrwLoop
<1>5. /\ pc'[t] = IF Done(buf[t]) THEN "copy" ELSE "sleep"
      /\ pc' \in [Threads -> {"idle", "start", "check", "sleep", "woken", "copy"}]
      /\ \A u \in Threads : u # t => pc'[u] = pc[u]
  BY <1>1, <1>4 DEF Types
<1>6. Popping' = Popping
  BY <1>4 DEF Popping
<1>7. queue \in Seq(Threads) /\ Len(queue) \in Nat /\ DOMAIN queue = 1..Len(queue)
  BY <1>1 DEF Types
<1>8. \A i \in 1..Len(queue) : queue[i] \in Threads /\ buf[queue[i]].flags # "valid"
  BY <1>1, <1>3, <1>7 DEF QueueInv
<1>9. Types'
  BY <1>1, <1>4, <1>5 DEF Types
<1>10. LockHeld'
  BY <1>1, <1>3, <1>4, <1>5, SdAssumption DEF LockHeld
<1>11. QueueInv'
  <2>1. QueueAlive'
    BY <1>1, <1>2, <1>4, <1>5, <1>7, <1>8 DEF QueueInv, QueueAlive, InSdrw, Done
  <2> QED
    BY <1>1, <1>4, <1>5, <1>6, <2>1 DEF QueueInv, Done
<1>12. CardInv'
  <2>1. Len(queue) > 0 => /\ queue[1] \in Threads
                          /\ pc'[queue[1]] = "start" <=> pc[queue[1]] = "start"
    BY <1>2, <1>5, <1>7, <1>8
  <2> QED
    BY <1>1, <1>4, <1>6, <2>1 DEF CardInv
<1> QED
  BY <1>9, <1>10, <1>11, <1>12 DEF SdInv

\* A thread takes qlock again inside sleep.
LEMMA WokenInv ==
  ASSUME SdInv, NEW t \in Threads, SdrwWoken(t)
  PROVE  SdInv'
<1>1. Types /\ LockHeld /\ QueueInv /\ CardInv
  BY DEF SdInv
<1>2. /\ ~Popping /\ (\A u \in Threads : pc[u] \notin {"start", "check"})
      /\ (\A h \in Handlers : ipc[h] \notin {"complete", "pop"})
  BY FreeLock DEF SdrwWoken
<1>4. /\ disk' = disk /\ queue' = queue /\ buf' = buf /\ ipc' = ipc /\ emmc' = emmc
      /\ errors' = errors /\ panicked' = panicked /\ qlock' = t
      /\ pc[t] = "woken" /\ pc' = [pc EXCEPT ![t] = "check"]
  BY DEF SdrwWoken
<1>5. /\ pc'[t] = "check"
      /\ pc' \in [Threads -> {"idle", "start", "check", "sleep", "woken", "copy"}]
      /\ \A u \in Threads : u # t => pc'[u] = pc[u]
  BY <1>1, <1>4 DEF Types
<1>6. Popping' = Popping
  BY <1>4 DEF Popping
<1>7. queue \in Seq(Threads) /\ \A i \in 1..Len(queue) : queue[i] \in Threads
  BY <1>1 DEF Types
<1>9. Types'
  BY <1>1, <1>4, <1>5 DEF Types
<1>10. LockHeld'
  BY <1>1, <1>2, <1>4, <1>5, SdAssumption DEF LockHeld
<1>11. QueueInv'
  <2>1. QueueAlive'
    BY <1>1, <1>4, <1>5, <1>7 DEF QueueInv, QueueAlive, InSdrw
  <2> QED
    BY <1>1, <1>4, <1>5, <1>6, <2>1, Zenon DEF QueueInv
<1>12. CardInv'
  <2>1. Len(queue) > 0 => /\ queue[1] \in Threads
                          /\ pc'[queue[1]] = "start" <=> pc[queue[1]] = "start"
    BY <1>4, <1>5, <1>7
  <2> QED
    BY <1>1, <1>4, <1>6, <2>1 DEF CardInv
<1> QED
  BY <1>9, <1>10, <1>11, <1>12 DEF SdInv

\* sd_read and sd_write return.
LEMMA ReturnInv ==
  ASSUME SdInv, NEW t \in Threads, SdReturn(t)
  PROVE  SdInv'
<1>1. Types /\ LockHeld /\ QueueInv /\ CardInv
  BY DEF SdInv
<1>4. /\ disk' = disk /\ queue' = queue /\ buf' = buf /\ ipc' = ipc /\ emmc' = emmc
      /\ errors' = errors /\ panicked' = panicked /\ qlock' = qlock
      /\ pc[t] = "copy" /\ pc' = [pc EXCEPT ![t] = "idle"]
  BY DEF SdReturn
<1>5. /\ pc'[t] = "idle"
      /\ pc' \in [Threads -> {"idle", "start", "check", "sleep", "woken", "copy"}]
      /\ \A u \in Threads : u # t => pc'[u] = pc[u]
  BY <1>1, <1>4 DEF Types
<1>6. Popping' = Popping
  BY <1>4 DEF Popping
<1>7. queue \in Seq(Threads) /\ \A i \in 1..Len(queue) : queue[i] \in Threads
  BY <1>1 DEF Types
<1>9. Types'
  BY <1>1, <1>4, <1>5 DEF Types
<1>10. LockHeld'
  BY <1>1, <1>4, <1>5 DEF LockHeld
<1>11. QueueInv'
  <2>1. QueueAlive'
    BY <1>1, <1>4, <1>5, <1>7 DEF QueueInv, QueueAlive, InSdrw
  <2> QED
    BY <1>1, <1>4, <1>5, <1>6, <2>1, Zenon DEF QueueInv
<1>12. CardInv'
  <2>1. Len(queue) > 0 => /\ queue[1] \in Threads
                          /\ pc'[queue[1]] = "start" <=> pc[queue[1]] = "start"
    BY <1>4, <1>5, <1>7
  <2> QED
    BY <1>1, <1>4, <1>6, <2>1 DEF CardInv
<1> QED
  BY <1>9, <1>10, <1>11, <1>12 DEF SdInv

\* The controller finishes a transfer, or fails.
LEMMA DeviceInv ==
  ASSUME SdInv, DeviceDone \/ DeviceError
  PROVE  SdInv'
<1>1. Types /\ LockHeld /\ QueueInv /\ CardInv
  BY DEF SdInv
<1>2. /\ queue' = queue /\ buf' = buf /\ pc' = pc /\ qlock' = qlock /\ ipc' = ipc
      /\ panicked' = panicked /\ emmc.state = "busy"
  BY DEF DeviceDone, DeviceError
<1>3. emmc # NoTransfer /\ emmc \in Transfers
  BY <1>1, <1>2, TransferState DEF Types
<1>4. disk' \in [BlockNos -> Values] /\ errors' \in Nat
  BY <1>1, <1>3 DEF Types, Transfers, DeviceDone, DeviceError
<1>5. /\ emmc' \in Transfers /\ emmc'.write = emmc.write /\ emmc'.bno = emmc.bno
      /\ emmc.write => emmc'.data = emmc.data /\ emmc'.state # "READ_RDY"
      /\ ~emmc.write => emmc'.state # "DATA_DONE"
  <2>1. CASE DeviceError
    BY <1>3, <2>1 DEF DeviceError, Transfers
  <2>2. CASE DeviceDone /\ emmc.write
    BY Zenon, <1>3, <2>2 DEF DeviceDone, Transfers
  <2>3. CASE DeviceDone /\ ~emmc.write
    BY Zenon, <1>1, <1>3, <2>3 DEF DeviceDone, Transfers, Types
  <2> QED
    BY <2>1, <2>2, <2>3
<1>6. Popping' = Popping
  BY <1>2 DEF Popping
<1>7. emmc' # NoTransfer
  BY <1>5 DEF NoTransfer, Transfers
<1>9. Types'
  BY <1>1, <1>2, <1>4, <1>5 DEF Types
<1>10. LockHeld'
  BY <1>1, <1>2 DEF LockHeld
<1>11. QueueInv'
  BY <1>1, <1>2, <1>6, Zenon DEF QueueInv, QueueAlive, InSdrw
<1>12. CardInv'
  BY <1>1, <1>2, <1>3, <1>5, <1>6, <1>7 DEF CardInv
<1> QED
  BY <1>9, <1>10, <1>11, <1>12 DEF SdInv

\* The interrupt is taken, and sd_intr gets qlock or finds no request.
LEMMA EnterInv ==
  ASSUME SdInv, NEW h \in Handlers, IntrPending(h) \/ IntrEnter(h)
  PROVE  SdInv'
<1>1. Types /\ LockHeld /\ QueueInv /\ CardInv
  BY DEF SdInv
<1>2. /\ disk' = disk /\ queue' = queue /\ buf' = buf /\ pc' = pc /\ emmc' = emmc
      /\ errors' = errors /\ panicked' = panicked
  BY DEF IntrPending, IntrEnter
<1>3. PICK x \in {"idle", "spin", "complete"} :
         /\ ipc' = [ipc EXCEPT ![h] = x] /\ ipc[h] \in {"idle", "spin"}
         /\ IF x = "complete" THEN qlock = "free" /\ qlock' = h /\ queue # <<>>
                              ELSE qlock' = qlock
  BY DEF IntrPending, IntrEnter
<1>4. /\ ipc' \in [Handlers -> {"idle", "spin", "complete", "pop"}] /\ ipc'[h] = x
      /\ \A g \in Handlers : g # h => ipc'[g] = ipc[g]
  BY <1>1, <1>3 DEF Types
<1>5. Popping' = Popping
  BY <1>3, <1>4 DEF Popping
<1>6. x = "complete" => Len(queue) > 0
  BY <1>1, <1>3 DEF Types
<1>9. Types'
  BY <1>1, <1>2, <1>3, <1>4 DEF Types
<1>10. LockHeld'
  <2>1. CASE x = "complete"
    BY <1>2, <1>3, <1>4, <2>1, FreeLock, SdAssumption DEF LockHeld
  <2>2. CASE x # "complete"
    BY <1>1, <1>2, <1>3, <1>4, <2>2 DEF LockHeld
  <2> QED
    BY <2>1, <2>2
<1>11. QueueInv'
  <2>1. QueueAlive'
    BY <1>1, <1>2, Zenon DEF QueueInv, QueueAlive, InSdrw
  <2> QED
    BY <1>1, <1>2, <1>4, <1>5, <1>6, <2>1 DEF QueueInv
<1>12. CardInv'
  BY <1>1, <1>2, <1>5 DEF CardInv
<1> QED
  BY <1>9, <1>10, <1>11, <1>12 DEF SdInv

\* The request at the front of the queue while sd_intr has qlock.
LEMMA FrontInv ==
  ASSUME SdInv, NEW h \in Handlers, ipc[h] \in {"complete", "pop"}
  PROVE  /\ queue \in Seq(Threads) /\ Len(queue) \in Nat /\ Len(queue) > 0
         /\ Head(queue) = queue[1] /\ queue[1] \in Threads
         /\ DOMAIN queue = 1..Len(queue) /\ 1 \in 1..Len(queue)
         /\ pc[queue[1]] \in {"sleep", "woken"}
         /\ \A i \in 1..Len(queue) : queue[i] \in Threads /\ (queue[i] = queue[1] => i = 1)
<1>1. Types /\ QueueInv
  BY DEF SdInv
<1>2. Len(queue) > 0 /\ \A t \in Threads : pc[t] \notin {"start", "check"}
  BY HandlerLock
<1>3. /\ queue \in Seq(Threads) /\ Len(queue) \in Nat /\ Head(queue) = queue[1]
      /\ DOMAIN queue = 1..Len(queue) /\ 1 \in 1..Len(queue)
      /\ \A i \in 1..Len(queue) : queue[i] \in Threads
  BY <1>1, <1>2 DEF Types
<1> QED
  BY <1>1, <1>2, <1>3 DEF QueueInv, QueueAlive, InSdrw

\* sd_intr completes the request at the front of the queue.
LEMMA CompleteInv ==
  ASSUME SdInv, NEW h \in Handlers, IntrComplete(h)
  PROVE  SdInv'
<1> DEFINE t == queue[1]
<1>1. Types /\ LockHeld /\ QueueInv /\ CardInv
  BY DEF SdInv
<1>2. ipc[h] = "complete" /\ ~panicked
  BY DEF IntrComplete
<1>3. /\ queue \in Seq(Threads) /\ Len(queue) \in Nat /\ Len(queue) > 0
      /\ Head(queue) = t /\ t \in Threads /\ DOMAIN queue = 1..Len(queue)
      /\ 1 \in 1..Len(queue) /\ pc[t] \in {"sleep", "woken"}
      /\ \A i \in 1..Len(queue) : queue[i] \in Threads /\ (queue[i] = t => i = 1)
  BY <1>2, FrontInv
<1>4. /\ disk' = disk /\ queue' = queue /\ qlock' = qlock /\ errors' = errors
      /\ emmc' = IF Interrupting THEN NoTransfer ELSE emmc
  BY DEF IntrComplete
<1>5. ~Popping
  BY <1>2, HandlerLock DEF Popping
<1>6. CASE emmc.state # ExpectedInterrupt(buf[t])
  <2>1. panicked' = TRUE /\ buf' = buf /\ pc' = pc /\ ipc' = ipc
    BY <1>3, <1>6 DEF IntrComplete
  <2>2. Popping' = Popping
    BY <2>1 DEF Popping
  <2>3. Types'
    BY <1>1, <1>4, <2>1 DEF Types
  <2>4. LockHeld'
    BY <1>1, <1>4, <2>1 DEF LockHeld
  <2>5. QueueInv'
    BY <1>1, <1>4, <2>1, <2>2, Zenon DEF QueueInv, QueueAlive, InSdrw
  <2>6. CardInv'
    BY <1>1, <1>4, <2>1, <2>2 DEF CardInv
  <2> QED
    BY <2>3, <2>4, <2>5, <2>6 DEF SdInv
<1>7. CASE emmc.state = ExpectedInterrupt(buf[t])
  <2>1. /\ panicked' = panicked /\ pc' = Wakeup(t) /\ ipc' = [ipc EXCEPT ![h] = "pop"]
        /\ buf' = [buf EXCEPT ![t] = [flags |-> "valid", blockno |-> buf[t].blockno,
                                      data |-> Received(t)]]
    BY <1>3, <1>7 DEF IntrComplete
  <2>2. emmc' = NoTransfer
    BY <1>4, <1>7 DEF ExpectedInterrupt, Interrupting
  <2>3. Received(t) \in Values
    <3>1. emmc \in Transfers
      BY <1>1, <1>7, TransferState DEF Types, ExpectedInterrupt
    <3> QED
      BY <1>1, <1>3, <3>1 DEF Received, Transfers, Types, Bufs
  <2>4. /\ buf'[t] \in Bufs /\ buf'[t].flags = "valid"
        /\ \A u \in Threads : u # t => buf'[u] = buf[u]
        /\ buf' \in [Threads -> Bufs]
    <3> DEFINE b == [flags |-> "valid", blockno |-> buf[t].blockno, data |-> Received(t)]
    <3>1. buf \in [Threads -> Bufs] /\ buf[t] \in Bufs
      BY <1>1, <1>3 DEF Types
    <3>2. b \in Bufs /\ b.flags = "valid"
      BY <2>3, <3>1 DEF Bufs, Flags
    <3>3. buf' = [buf EXCEPT ![t] = b]
      BY <2>1
    <3> HIDE DEF b
    <3> QED
      BY <1>3, <3>1, <3>2, <3>3
  <2>5. /\ pc' \in [Threads -> {"idle", "start", "check", "sleep", "woken", "copy"}]
        /\ pc'[t] = "woken" /\ \A u \in Threads : u # t => pc'[u] = pc[u]
    BY <1>1, <1>3, <2>1 DEF Types, Wakeup
  <2>6. /\ ipc' \in [Handlers -> {"idle", "spin", "complete", "pop"}] /\ ipc'[h] = "pop"
        /\ \A g \in Handlers : g # h => ipc'[g] = ipc[g]
    BY <1>1, <2>1 DEF Types
  <2>7. Popping' = TRUE
    BY <2>6, Zenon DEF Popping
  <2>8. Types'
    BY <1>1, <1>4, <2>1, <2>2, <2>4, <2>5, <2>6, Zenon DEF Types
  <2>9. LockHeld'
    BY <1>1, <1>2, <1>3, <1>4, <2>5, <2>6 DEF LockHeld
  <2>10. QueueInv'
    <3>1. QueueAlive'
      BY <1>1, <1>3, <1>4, <2>4, <2>5 DEF QueueInv, QueueAlive, InSdrw
    <3>2. \A i \in 1..Len(queue) : buf'[queue[i]].flags = "valid" <=> i = 1
      BY <1>1, <1>3, <1>5, <2>4 DEF QueueInv
    <3>3. \A u \in Threads : pc'[u] = "start" => Len(queue) = 1 /\ queue[1] = u
      BY <1>1, <2>5, Zenon DEF QueueInv
    <3>4. \A u \in Threads : pc'[u] = "idle" \/ pc'[u] = "copy" => buf'[u].flags = "valid"
      BY <1>1, <2>4, <2>5 DEF QueueInv
    <3> QED
      BY <1>3, <1>4, <2>7, <3>1, <3>2, <3>3, <3>4, Zenon DEF QueueInv
  <2>11. CardInv'
    BY <2>2, <2>7 DEF CardInv
  <2> QED
    BY <2>8, <2>9, <2>10, <2>11 DEF SdInv
<1> QED
  BY <1>6, <1>7

\* sd_intr pops the request and starts the next one.
LEMMA NextInv ==
  ASSUME SdInv, NEW h \in Handlers, IntrNext(h)
  PROVE  SdInv' /\ panicked' = FALSE /\ emmc = NoTransfer
<1>1. Types /\ LockHeld /\ QueueInv /\ CardInv
  BY DEF SdInv
<1>2. ipc[h] = "pop" /\ ~panicked
  BY DEF IntrNext
<1>3. /\ queue \in Seq(Threads) /\ Len(queue) \in Nat /\ Len(queue) > 0
      /\ DOMAIN queue = 1..Len(queue)
      /\ \A i \in 1..Len(queue) : queue[i] \in Threads /\ (queue[i] = queue[1] => i = 1)
  BY <1>2, FrontInv
<1>4. /\ qlock = h /\ (\A u \in Threads : pc[u] \notin {"start", "check"})
      /\ \A g \in Handlers : ipc[g] \in {"complete", "pop"} => g = h
  BY <1>2, HandlerLock
<1>5. Popping /\ emmc = NoTransfer
  BY <1>1, <1>2 DEF Popping, CardInv
<1>6. /\ disk' = disk /\ buf' = buf /\ pc' = pc /\ errors' = errors /\ qlock' = "free"
      /\ queue' = Tail(queue) /\ ipc' = [ipc EXCEPT ![h] = "idle"]
      /\ panicked' = FALSE
      /\ emmc' = IF queue' # <<>> THEN Command(buf[Head(queue')]) ELSE NoTransfer
  <2>1. panicked = FALSE
    BY <1>1, <1>2 DEF Types
  <2>2. CASE queue' # <<>>
    BY Zenon, <1>5, <2>2 DEF IntrNext, SdStart, More
  <2>3. CASE queue' = <<>>
    BY <1>5, <2>1, <2>3 DEF IntrNext, More
  <2> QED
    BY Zenon, <2>2, <2>3
<1>7. /\ queue' \in Seq(Threads) /\ Len(queue') = Len(queue) - 1 /\ Len(queue') \in Nat
      /\ DOMAIN queue' = 1..Len(queue')
      /\ \A i \in 1..Len(queue') : queue'[i] = queue[i + 1] /\ i + 1 \in 1..Len(queue)
  BY <1>3, <1>6
<1>8. /\ ipc' \in [Handlers -> {"idle", "spin", "complete", "pop"}] /\ ipc'[h] = "idle"
      /\ \A g \in Handlers : g # h => ipc'[g] = ipc[g]
  BY <1>1, <1>6 DEF Types
<1>9. Popping' = FALSE
  BY <1>4, <1>8, Zenon DEF Popping
<1>10. \A i \in 1..Len(queue') :
          /\ queue'[i] \in Threads /\ buf[queue'[i]].flags # "valid"
          /\ pc[queue'[i]] \in {"sleep", "woken"}
  <2> SUFFICES ASSUME NEW i \in 1..Len(queue')
      PROVE  /\ queue'[i] \in Threads /\ buf[queue'[i]].flags # "valid"
             /\ pc[queue'[i]] \in {"sleep", "woken"}
    BY Zenon
  <2>1. i + 1 \in 1..Len(queue) /\ i + 1 # 1 /\ queue'[i] = queue[i + 1]
    BY <1>7
  <2>2. PICK k \in 1..Len(queue) : k # 1 /\ queue'[i] = queue[k]
    BY Zenon, <2>1
  <2>3. queue[k] \in Threads /\ pc[queue[k]] \in {"start", "check", "sleep", "woken"}
    BY <1>1, <1>3, Zenon DEF QueueInv, QueueAlive, InSdrw
  <2>4. buf[queue[k]].flags # "valid"
    BY <1>1, <2>2, Zenon DEF QueueInv
  <2> QED
    BY <1>4, <2>2, <2>3, <2>4
<1>11. (emmc' = NoTransfer \/ emmc' \in Transfers) /\ CardInv'
  <2>1. CASE Len(queue') = 0
    <3>1. emmc' = NoTransfer
      BY <1>6, <1>7, <2>1
    <3> QED
      BY <2>1, <3>1 DEF CardInv
  <2>2. CASE Len(queue') > 0
    <3>1. PICK u \in Threads : u = queue'[1]
      BY <1>7, <1>10, <2>2
    <3>2. /\ queue' # <<>> /\ Head(queue') = u /\ buf[u].flags # "valid"
          /\ pc[u] # "start" /\ buf[u] \in Bufs
      <4>1. buf[u] \in Bufs
        BY <1>1 DEF Types
      <4>2. 1 \in 1..Len(queue') /\ queue' # <<>> /\ Head(queue') = u
        BY <1>7, <2>2, <3>1
      <4> QED
        BY <1>10, <3>1, <4>1, <4>2
    <3>3. /\ emmc' \in Transfers /\ emmc'.state = "busy" /\ emmc'.bno = buf[u].blockno
          /\ emmc'.write = (buf[u].flags = "dirty") /\ emmc'.data = buf[u].data
      BY <1>6, <3>2 DEF Command, Transfers, Bufs
    <3>4. emmc' # NoTransfer
      BY <3>3 DEF NoTransfer
    <3> QED
      BY <1>6, <1>9, <2>2, <3>1, <3>2, <3>3, <3>4 DEF CardInv
  <2> QED
    BY <1>7, <2>1, <2>2
<1>12. Types'
  BY Zenon, <1>1, <1>6, <1>7, <1>8, <1>11 DEF Types
<1>13. LockHeld'
  BY <1>1, <1>4, <1>6, <1>8, SdAssumption, Zenon DEF LockHeld
<1>14. QueueInv'
  <2>1. QueueAlive'
    <3>1. \A i \in DOMAIN queue' : pc'[queue'[i]] \in {"start", "check", "sleep", "woken"}
      BY <1>6, <1>7, <1>10
    <3>2. ASSUME NEW i \in DOMAIN queue', NEW j \in DOMAIN queue', queue'[i] = queue'[j]
          PROVE  i = j
      <4>1. i \in 1..Len(queue') /\ j \in 1..Len(queue')
        BY <1>7
      <4>2. /\ i + 1 \in DOMAIN queue /\ j + 1 \in DOMAIN queue
            /\ queue[i + 1] = queue[j + 1]
        BY <1>3, <1>7, <3>2, <4>1
      <4>3. i + 1 = j + 1
        BY <1>1, <4>2 DEF QueueInv, QueueAlive
      <4> QED
        BY <1>7, <4>1, <4>3
    <3>3. ASSUME NEW u \in Threads, InSdrw(u)', buf'[u].flags # "valid"
          PROVE  \E i \in DOMAIN queue' : queue'[i] = u
      <4>1. PICK i \in 1..Len(queue) : queue[i] = u
        BY <1>1, <1>3, <1>6, <3>3, Zenon DEF QueueInv, QueueAlive, InSdrw
      <4>2. i # 1
        BY <1>1, <1>5, <1>6, <3>3, <4>1 DEF QueueInv
      <4>3. i - 1 \in 1..Len(queue') /\ i - 1 + 1 = i
        BY <1>3, <1>7, <4>2
      <4> QED
        BY Zenon, <1>7, <4>1, <4>3
    <3> QED
      BY <3>1, <3>2, <3>3 DEF QueueAlive, InSdrw
  <2>2. \A i \in 1..Len(queue') : buf'[queue'[i]].flags # "valid"
    BY <1>6, <1>10
  <2>3. \A u \in Threads : pc'[u] # "start"
    BY <1>4, <1>6
  <2>4. \A g \in Handlers : ipc'[g] \notin {"complete", "pop"}
    BY <1>4, <1>8
  <2>5. \A u \in Threads : pc'[u] = "idle" \/ pc'[u] = "copy" => buf'[u].flags = "valid"
    BY <1>1, <1>6 DEF QueueInv
  <2> QED
    BY <1>9, <2>1, <2>2, <2>3, <2>4, <2>5 DEF QueueInv
<1> QED
  BY <1>5, <1>6, <1>11, <1>12, <1>13, <1>14 DEF SdInv

\* Every step of the driver and of the card keeps the invariant.
LEMMA SdInvStep == SdInv /\ [Next]_vars => SdInv'
<1> SUFFICES ASSUME SdInv PROVE [Next]_vars => SdInv'
  BY Zenon
<1>1. CASE UNCHANGED vars
  <2>1. /\ disk' = disk /\ queue' = queue /\ buf' = buf /\ pc' = pc /\ qlock' = qlock
        /\ ipc' = ipc /\ emmc' = emmc /\ errors' = errors /\ panicked' = panicked
    BY <1>1 DEF vars
  <2> QED
    BY <2>1 DEF SdInv, Types, LockHeld, QueueInv, QueueAlive, InSdrw, CardInv, Popping
<1>2. CASE Next
  BY Zenon, <1>2, SdrwInv, StartsInv, LoopInv, WokenInv, ReturnInv, DeviceInv, EnterInv,
     CompleteInv, NextInv
  DEF Next, Step, Intr
<1> QED
  BY <1>1, <1>2

\* The inductive invariant of the driver.
THEOREM SdInvariant == Spec => []SdInv
  BY InitInv, SdInvStep, PTL DEF Spec

\* No request outlives the call of sdrw that made it, is queued twice or is forgotten,
\* for any number of threads and processors.
THEOREM SdQueueAlive == Spec => []QueueAlive
<1>1. SdInv => QueueAlive
  BY Zenon DEF SdInv, QueueInv
<1> QED
  BY <1>1, SdInvariant, PTL
-----------------------------------------------------------------------------
(* The panics.                                                              *)

\* The interrupt is handled on one processor.
OneHandler == \A g, h \in Handlers : g = h

\* An error has been counted, and sd_intr runs only while its interrupt is there.
PanicInv ==
    /\ PanicsOnlyOnError
    /\ emmc.state = "ERROR" => errors > 0
    /\ ~panicked => \A h \in Handlers : ipc[h] \in {"spin", "complete"} => Interrupting

\* Every step keeps it, when no second processor can take the interrupt away.
LEMMA PanicStep ==
  ASSUME OneHandler
  PROVE  SdInv /\ PanicInv /\ [Next]_vars => PanicInv'
<1> SUFFICES ASSUME SdInv, PanicInv PROVE [Next]_vars => PanicInv'
  OBVIOUS
<1>1. Types /\ QueueInv /\ CardInv
  BY DEF SdInv
<1>2. ASSUME emmc' = emmc, errors' = errors, panicked' = panicked, ipc' = ipc
      PROVE  PanicInv'
  BY <1>2 DEF PanicInv, PanicsOnlyOnError, Interrupting
<1>3. ASSUME NEW t \in Threads, NEW f \in {"read", "dirty"}, NEW n \in BlockNos,
             NEW v \in Values, Sdrw(t, f, n, v)
      PROVE  PanicInv'
  BY <1>2, <1>3 DEF Sdrw
<1>4. ASSUME NEW t \in Threads, SdrwLoop(t) \/ SdReturn(t) \/ SdrwWoken(t) PROVE PanicInv'
  BY <1>2, <1>4 DEF SdrwLoop, SdReturn, SdrwWoken
<1>5. ASSUME NEW t \in Threads, SdrwStarts(t) PROVE PanicInv'
  <2>1. panicked' = FALSE /\ emmc = NoTransfer
    BY Zenon, <1>5, StartsInv
  <2>2. ipc' = ipc /\ emmc'.state = "busy"
    BY <1>5 DEF SdrwStarts, SdStart, Command
  <2>3. \A h \in Handlers : ipc[h] \notin {"spin", "complete"}
    BY <1>5, <2>1 DEF PanicInv, Interrupting, NoTransfer, SdrwStarts
  <2> QED
    BY <2>1, <2>2, <2>3 DEF PanicInv, PanicsOnlyOnError
<1>6. CASE DeviceDone
  <2>1. /\ emmc'.state \in {"DATA_DONE", "READ_RDY"} /\ errors' = errors
        /\ panicked' = panicked /\ ipc' = ipc
    <3>1. emmc \in Transfers
      BY <1>1, <1>6, TransferState DEF Types, DeviceDone
    <3> QED
      BY <1>6, <3>1 DEF DeviceDone, Transfers
  <2> QED
    BY <2>1 DEF PanicInv, PanicsOnlyOnError, Interrupting
<1>7. CASE DeviceError
  <2>1. errors' > 0
    BY <1>1, <1>7 DEF DeviceError, Types
  <2>2. emmc'.state = "ERROR"
    <3>1. emmc \in Transfers
      BY <1>1, <1>7, TransferState DEF Types, DeviceError
    <3> QED
      BY <1>7, <3>1 DEF DeviceError, Transfers
  <2> QED
    BY <2>1, <2>2 DEF PanicInv, PanicsOnlyOnError, Interrupting
<1>8. ASSUME NEW h \in Handlers, IntrPending(h) \/ IntrEnter(h) PROVE PanicInv'
  <2>1. emmc' = emmc /\ errors' = errors /\ panicked' = panicked /\ Interrupting
    BY <1>8 DEF IntrPending, IntrEnter, PanicInv
  <2> QED
    BY <2>1 DEF PanicInv, PanicsOnlyOnError, Interrupting
<1>9. ASSUME NEW h \in Handlers, IntrComplete(h) PROVE PanicInv'
  <2>1. ipc[h] = "complete" /\ Interrupting /\ ~panicked
    BY <1>9 DEF IntrComplete, PanicInv
  <2>2. emmc' = NoTransfer /\ emmc'.state = "idle" /\ errors' = errors
    BY <1>9, <2>1 DEF IntrComplete, NoTransfer
  <2>3. Head(queue) = queue[1] /\ emmc # NoTransfer
    BY <2>1, FrontInv DEF Interrupting, NoTransfer
  <2>4. CASE emmc.state = ExpectedInterrupt(buf[queue[1]])
    <3>1. panicked' = panicked /\ ipc' = [ipc EXCEPT ![h] = "pop"]
      BY <1>9, <2>3, <2>4 DEF IntrComplete
    <3>2. \A g \in Handlers : ipc'[g] = "pop"
      BY <1>1, <3>1 DEF Types, OneHandler
    <3> QED
      BY <2>1, <2>2, <3>1, <3>2 DEF PanicInv, PanicsOnlyOnError
  <2>5. CASE emmc.state # ExpectedInterrupt(buf[queue[1]])
    <3>1. emmc.state = "ERROR"
      BY Zenon, <1>1, <2>1, <2>3, <2>5 DEF CardInv, ExpectedInterrupt, Interrupting
    <3>2. errors > 0
      BY <3>1 DEF PanicInv
    <3>3. panicked' = TRUE
      BY <1>9, <2>3, <2>5 DEF IntrComplete
    <3> QED
      BY <2>2, <3>2, <3>3 DEF PanicInv, PanicsOnlyOnError
  <2> QED
    BY <2>4, <2>5
<1>10. ASSUME NEW h \in Handlers, IntrNext(h) PROVE PanicInv'
  <2>1. panicked' = FALSE /\ emmc = NoTransfer
    BY Zenon, <1>10, NextInv
  <2>2. ipc' = [ipc EXCEPT ![h] = "idle"] /\ (emmc' = emmc \/ emmc'.state = "busy")
    BY <1>10 DEF IntrNext, SdStart, Command
  <2>3. \A g \in Handlers : ipc'[g] = "idle"
    BY <1>1, <2>2 DEF Types, OneHandler
  <2>4. emmc'.state # "ERROR"
    BY <2>1, <2>2 DEF NoTransfer
  <2> QED
    BY <2>1, <2>3, <2>4 DEF PanicInv, PanicsOnlyOnError
<1>11. CASE UNCHANGED vars
  BY <1>2, <1>11 DEF vars
<1> QED
  BY <1>3, <1>4, <1>5, <1>6, <1>7, <1>8, <1>9, <1>10, <1>11 DEF Next, Step, Intr

\* When one processor handles the interrupt, sd_start and sd_intr panic only after a
\* device error, for any number of threads.
THEOREM SdPanicsOnlyOnError ==
  ASSUME OneHandler
  PROVE  Spec => []PanicsOnlyOnError
<1>1. Init => PanicInv
  BY DEF Init, PanicInv, PanicsOnlyOnError, NoTransfer
<1>2. PanicInv => PanicsOnlyOnError
  BY DEF PanicInv
<1> QED
  BY <1>1, <1>2, PanicStep, SdInvariant, PTL DEF Spec

-----------------------------------------------------------------------------
(* The driver implements AtomicDevice, under the refinement mapping of      *)
(* module SdDriver.                                                         *)

\* The card has carried out the request of t.
Carried(t) ==
    queue # <<>> /\ t = Head(queue) /\ emmc.state \in {"DATA_DONE", "READ_RDY"}

\* The abstract call of each thread.
LEMMA CallValues ==
  ASSUME NEW t \in Threads
  PROVE  /\ pc[t] = "idle" => Calls[t] = [state |-> "idle"]
         /\ pc[t] # "idle" /\ buf[t].flags = "valid" =>
               Calls[t] = [state |-> "done", data |-> buf[t].data]
         /\ pc[t] # "idle" /\ buf[t].flags # "valid" /\ Carried(t) =>
               Calls[t] = [state |-> "done", data |-> emmc.data]
         /\ pc[t] # "idle" /\ buf[t].flags # "valid" /\ ~Carried(t) =>
               Calls[t] = [state |-> "called",
                           req |-> [write |-> buf[t].flags = "dirty",
                                    bno |-> buf[t].blockno, data |-> buf[t].data]]
  BY DEF Calls, CallState, Completed, Done, Carried

\* The same for the state after a step.
LEMMA CallValuesAfter ==
  ASSUME NEW t \in Threads
  PROVE  /\ pc'[t] = "idle" => Calls'[t] = [state |-> "idle"]
         /\ pc'[t] # "idle" /\ buf'[t].flags = "valid" =>
               Calls'[t] = [state |-> "done", data |-> buf'[t].data]
         /\ pc'[t] # "idle" /\ buf'[t].flags # "valid" /\ Carried(t)' =>
               Calls'[t] = [state |-> "done", data |-> emmc'.data]
         /\ pc'[t] # "idle" /\ buf'[t].flags # "valid" /\ ~Carried(t)' =>
               Calls'[t] = [state |-> "called",
                            req |-> [write |-> buf'[t].flags = "dirty",
                                     bno |-> buf'[t].blockno, data |-> buf'[t].data]]
  BY Zenon DEF Calls, CallState, Completed, Done, Carried

\* What keeps the call of one thread.
LEMMA CallKept ==
  ASSUME NEW t \in Threads,
         pc[t] = "idle" <=> pc'[t] = "idle",
         pc[t] # "idle" =>
           \/ /\ buf'[t] = buf[t]
              /\ buf[t].flags = "valid" \/ (~Carried(t) /\ ~Carried(t)')
           \/ buf'[t] = buf[t] /\ Carried(t) /\ Carried(t)' /\ emmc'.data = emmc.data
           \/ /\ buf[t].flags # "valid" /\ Carried(t)
              /\ buf'[t].flags = "valid" /\ buf'[t].data = emmc.data
  PROVE  Calls'[t] = Calls[t]
<1>1. CASE pc[t] = "idle"
  BY Zenon, <1>1, CallValues, CallValuesAfter
<1>2. CASE pc[t] # "idle" /\ buf'[t] = buf[t] /\ buf[t].flags = "valid"
  <2>1. Calls[t] = [state |-> "done", data |-> buf[t].data]
    BY Zenon, <1>2, CallValues
  <2>2. Calls'[t] = [state |-> "done", data |-> buf'[t].data]
    BY Zenon, <1>2, CallValuesAfter
  <2> QED
    BY <1>2, <2>1, <2>2
<1>3. CASE /\ pc[t] # "idle" /\ buf'[t] = buf[t] /\ buf[t].flags # "valid"
           /\ ~Carried(t) /\ ~Carried(t)'
  <2>1. Calls[t] = [state |-> "called", req |-> [write |-> buf[t].flags = "dirty",
                                     bno |-> buf[t].blockno, data |-> buf[t].data]]
    BY Zenon, <1>3, CallValues
  <2>2. Calls'[t] = [state |-> "called", req |-> [write |-> buf'[t].flags = "dirty",
                                     bno |-> buf'[t].blockno, data |-> buf'[t].data]]
    BY Zenon, <1>3, CallValuesAfter
  <2> QED
    BY <1>3, <2>1, <2>2
<1>4. CASE /\ pc[t] # "idle" /\ buf'[t] = buf[t] /\ buf[t].flags # "valid"
           /\ Carried(t) /\ Carried(t)' /\ emmc'.data = emmc.data
  <2>1. Calls[t] = [state |-> "done", data |-> emmc.data]
    BY Zenon, <1>4, CallValues
  <2>2. Calls'[t] = [state |-> "done", data |-> emmc'.data]
    BY Zenon, <1>4, CallValuesAfter
  <2> QED
    BY <1>4, <2>1, <2>2
<1>5. CASE /\ pc[t] # "idle" /\ buf[t].flags # "valid" /\ Carried(t)
           /\ buf'[t].flags = "valid" /\ buf'[t].data = emmc.data
  <2>1. Calls[t] = [state |-> "done", data |-> emmc.data]
    BY Zenon, <1>5, CallValues
  <2>2. Calls'[t] = [state |-> "done", data |-> buf'[t].data]
    BY Zenon, <1>5, CallValuesAfter
  <2> QED
    BY <1>5, <2>1, <2>2
<1> QED
  BY <1>1, <1>2, <1>3, <1>4, <1>5

\* Calls is a function on the threads.
LEMMA CallsByThread ==
  /\ (\A t \in Threads : Calls'[t] = Calls[t]) => Calls' = Calls
  /\ \A t \in Threads : \A x :
        (\A u \in Threads : Calls'[u] = IF u = t THEN x ELSE Calls[u])
            => Calls' = [Calls EXCEPT ![t] = x]
<1>1. Calls = [u \in Threads |-> Calls[u]] /\ Calls' = [u \in Threads |-> Calls'[u]]
  BY DEF Calls
<1> QED
  BY <1>1

\* Only the request at the front of a queue that the card works on is carried out.
LEMMA CarriedFront ==
  ASSUME SdInv, NEW t \in Threads, Carried(t)
  PROVE  /\ Len(queue) > 0 /\ t = queue[1] /\ emmc # NoTransfer /\ emmc \in Transfers
         /\ buf[t].flags # "valid" /\ InSdrw(t)
<1>1. Types /\ QueueInv /\ CardInv
  BY DEF SdInv
<1>2. queue \in Seq(Threads) /\ queue # <<>> /\ emmc.state \in {"DATA_DONE", "READ_RDY"}
  BY <1>1 DEF Types, Carried
<1>3. Len(queue) > 0 /\ t = queue[1] /\ 1 \in 1..Len(queue) /\ 1 \in DOMAIN queue
  BY <1>2 DEF Carried
<1>4. emmc # NoTransfer /\ emmc \in Transfers
  BY <1>1, <1>2, TransferState DEF Types
<1>5. ~Popping
  BY <1>1, <1>4, Zenon DEF CardInv
<1> QED
  BY <1>1, <1>3, <1>4, <1>5 DEF QueueInv, QueueAlive

\* sdrw begins a call.
LEMMA SdrwImplements ==
  ASSUME SdInv, NEW t \in Threads, NEW f \in {"read", "dirty"}, NEW n \in BlockNos,
         NEW v \in Values, Sdrw(t, f, n, v)
  PROVE  Abs!Next
<1> DEFINE q == [write |-> f = "dirty", bno |-> n, data |-> v]
           b == [flags |-> f, blockno |-> n, data |-> v]
<1>1. Types /\ QueueInv /\ CardInv
  BY Zenon DEF SdInv
<1>2. /\ disk' = disk /\ emmc' = emmc /\ queue' = Append(queue, t) /\ pc[t] = "idle"
      /\ buf' = [buf EXCEPT ![t] = b]
      /\ pc' = [pc EXCEPT ![t] = IF MustStart(queue) THEN "start" ELSE "check"]
  BY Zenon DEF Sdrw
<1>3. /\ \A u \in Threads : u # t => buf'[u] = buf[u] /\ pc'[u] = pc[u]
      /\ buf'[t] = b /\ pc'[t] # "idle"
  BY <1>1, <1>2 DEF Types
<1>4. \A u \in Threads : Carried(u)' <=> Carried(u)
  <2>1. queue \in Seq(Threads) /\ queue' # <<>>
    BY <1>1, <1>2 DEF Types
  <2>2. CASE queue = <<>>
    <3>1. emmc.state = "idle"
      BY <1>1, <2>2 DEF CardInv, NoTransfer
    <3> QED
      BY <1>2, <3>1, Zenon DEF Carried
  <2>3. CASE queue # <<>>
    <3>1. Head(queue') = Head(queue)
      BY <1>2, <2>1, <2>3
    <3> QED
      BY <1>2, <2>1, <2>3, <3>1, Zenon DEF Carried
  <2> QED
    BY <2>2, <2>3
<1>5. ~Carried(t)
  BY <1>2, CarriedFront DEF InSdrw
<1>6. b.flags # "valid" /\ b.flags = f /\ b.blockno = n /\ b.data = v
  OBVIOUS
<1> HIDE DEF b
<1>7. Calls[t] = [state |-> "idle"]
  BY Zenon, <1>2, CallValues
<1>8. Calls'[t] = [state |-> "called", req |-> q]
  BY Zenon, <1>3, <1>4, <1>5, <1>6, CallValuesAfter
<1>9. ASSUME NEW u \in Threads, u # t PROVE Calls'[u] = Calls[u]
  BY <1>2, <1>3, <1>4, <1>9, CallKept, Zenon
<1>10. Calls' = [Calls EXCEPT ![t] = [state |-> "called", req |-> q]]
  BY <1>8, <1>9, CallsByThread
<1>11. q \in Abs!Request
  BY Zenon DEF Abs!Request
<1>12. Abs!Call(t, q)
  BY <1>2, <1>7, <1>10, Zenon DEF Abs!Call, Abs!NoCall
<1> QED
  BY <1>11, <1>12 DEF Abs!Next

\* A call returns.
LEMMA ReturnImplements ==
  ASSUME SdInv, NEW t \in Threads, SdReturn(t)
  PROVE  Abs!Next
<1>1. Types /\ QueueInv
  BY DEF SdInv
<1>2. /\ disk' = disk /\ emmc' = emmc /\ queue' = queue /\ pc[t] = "copy" /\ buf' = buf
      /\ pc' = [pc EXCEPT ![t] = "idle"]
  BY DEF SdReturn
<1>3. (\A u \in Threads : u # t => pc'[u] = pc[u]) /\ pc'[t] = "idle"
  BY <1>1, <1>2 DEF Types
<1>4. \A u \in Threads : Carried(u)' <=> Carried(u)
  BY <1>2 DEF Carried
<1>5. Calls[t] = [state |-> "done", data |-> buf[t].data]
  <2>1. buf[t].flags = "valid"
    BY <1>1, <1>2 DEF QueueInv
  <2> QED
    BY Zenon, <1>2, <2>1, CallValues
<1>6. Calls'[t] = [state |-> "idle"]
  BY Zenon, <1>3, CallValuesAfter
<1>7. ASSUME NEW u \in Threads, u # t PROVE Calls'[u] = Calls[u]
  BY <1>2, <1>3, <1>4, <1>7, CallKept, Zenon
<1>8. Calls' = [Calls EXCEPT ![t] = [state |-> "idle"]]
  BY <1>6, <1>7, CallsByThread, Zenon
<1>9. Abs!Return(t)
  BY <1>2, <1>5, <1>8 DEF Abs!Return, Abs!NoCall
<1> QED
  BY <1>9 DEF Abs!Next

\* The card carries out the request at the front of the queue.
LEMMA DoneImplements ==
  ASSUME SdInv, DeviceDone
  PROVE  Abs!Next
<1>1. Types /\ QueueInv /\ CardInv
  BY DEF SdInv
<1>2. queue' = queue /\ buf' = buf /\ pc' = pc /\ emmc.state = "busy"
  BY DEF DeviceDone
<1>3. emmc # NoTransfer /\ emmc \in Transfers
  BY <1>1, <1>2, TransferState, Zenon DEF Types
<1>0. PICK t \in Threads : t = queue[1]
  BY <1>1, <1>3 DEF CardInv, Types
<1>4. /\ Len(queue) > 0 /\ ~Popping
      /\ emmc.write = (buf[t].flags = "dirty") /\ emmc.bno = buf[t].blockno
      /\ emmc.write => emmc.data = buf[t].data
  BY <1>0, <1>1, <1>3 DEF CardInv
<1>5. queue \in Seq(Threads) /\ queue # <<>> /\ Head(queue) = t /\ t \in Threads
  BY <1>0, <1>1, <1>4 DEF Types
<1>6. pc[t] # "idle" /\ buf[t].flags # "valid" /\ buf[t] \in Bufs
  BY <1>0, <1>1, <1>4, <1>5 DEF QueueInv, QueueAlive, InSdrw, Types
<1>7. \A u \in Threads : ~Carried(u)
  BY <1>2 DEF Carried
<1>8. /\ emmc'.state \in {"DATA_DONE", "READ_RDY"}
      /\ emmc'.data = IF emmc.write THEN emmc.data ELSE disk[emmc.bno]
  BY <1>3 DEF DeviceDone, Transfers
<1>9. Carried(t)' /\ \A u \in Threads : u # t => ~Carried(u)'
  BY <1>2, <1>5, <1>8 DEF Carried
<1> DEFINE q == [write |-> buf[t].flags = "dirty", bno |-> buf[t].blockno, data |-> buf[t].data]
           d == IF emmc.write THEN emmc.data ELSE disk[emmc.bno]
<1>10. Calls[t] = [state |-> "called", req |-> q]
  BY Zenon, <1>5, <1>6, <1>7, CallValues
<1>11. Calls'[t] = [state |-> "done", data |-> d]
  <2>1. pc'[t] # "idle" /\ buf'[t].flags # "valid"
    BY <1>2, <1>6
  <2>2. Calls'[t] = [state |-> "done", data |-> emmc'.data]
    BY Zenon, <1>5, <1>9, <2>1, CallValuesAfter
  <2> QED
    BY <1>8, <2>2
<1>12. ASSUME NEW u \in Threads, u # t PROVE Calls'[u] = Calls[u]
  BY <1>2, <1>7, <1>9, <1>12, CallKept, Zenon
<1>13. Calls' = [Calls EXCEPT ![t] = [state |-> "done", data |-> d]]
  BY <1>5, <1>11, <1>12, CallsByThread
<1>14. Calls[t].state = "called" /\ Calls[t].req = q
  BY <1>10
<1>15. /\ q.write = emmc.write /\ q.bno = emmc.bno /\ q.data = buf[t].data
  BY <1>4
<1>16. disk' = IF emmc.write THEN [disk EXCEPT ![emmc.bno] = emmc.data] ELSE disk
  BY DEF DeviceDone
<1> HIDE DEF q
<1>17. Abs!Effect(t)
  <2>1. CASE emmc.write
    BY Zenon, <1>4, <1>13, <1>14, <1>15, <1>16, <2>1 DEF Abs!Effect
  <2>2. CASE ~emmc.write
    BY <1>13, <1>14, <1>15, <1>16, <2>2 DEF Abs!Effect
  <2> QED
    BY <2>1, <2>2
<1> QED
  BY <1>5, <1>17 DEF Abs!Next

\* The other steps leave the calls and the blocks alone.
LEMMA OthersImplement ==
  ASSUME SdInv, NEW t \in Threads, SdrwStarts(t) \/ SdrwLoop(t) \/ SdrwWoken(t)
  PROVE  disk' = disk /\ Calls' = Calls
<1>1. Types
  BY DEF SdInv
<1>2. disk' = disk /\ queue' = queue /\ buf' = buf
  BY DEF SdrwStarts, SdrwLoop, SdrwWoken
<1>3. \A u \in Threads : pc[u] = "idle" <=> pc'[u] = "idle"
  BY <1>1 DEF Types, SdrwStarts, SdrwLoop, SdrwWoken
<1>4. \/ emmc' = emmc
      \/ \A u \in Threads : ~Carried(u) /\ ~Carried(u)'
  <2>1. CASE SdrwStarts(t)
    <3>1. emmc = NoTransfer
      BY Zenon, <2>1, StartsInv
    <3>2. emmc.state = "idle" /\ emmc'.state = "busy"
      BY <2>1, <3>1 DEF SdrwStarts, SdStart, Command, NoTransfer
    <3> QED
      BY <3>2 DEF Carried
  <2>2. CASE ~SdrwStarts(t)
    BY <2>2, Zenon DEF SdrwLoop, SdrwWoken
  <2> QED
    BY <2>1, <2>2
<1>5. ASSUME NEW u \in Threads PROVE Calls'[u] = Calls[u]
  <2>1. emmc' = emmc => (Carried(u)' <=> Carried(u))
    BY <1>2 DEF Carried
  <2> QED
    BY <1>2, <1>3, <1>4, <2>1, CallKept
<1> QED
  BY <1>2, <1>5, CallsByThread
\* A device error, and the beginning of sd_intr.
LEMMA QuietImplements ==
  ASSUME SdInv, DeviceError \/ \E h \in Handlers : IntrPending(h) \/ IntrEnter(h)
  PROVE  disk' = disk /\ Calls' = Calls
<1>1. disk' = disk /\ queue' = queue /\ buf' = buf /\ pc' = pc
  BY DEF DeviceError, IntrPending, IntrEnter
<1>2. ASSUME NEW u \in Threads PROVE Calls'[u] = Calls[u]
  <2>1. CASE DeviceError
    <3>1. emmc \in Transfers /\ emmc.state = "busy"
      BY <2>1, TransferState DEF DeviceError, SdInv, Types
    <3>2. emmc'.state = "ERROR"
      BY <2>1, <3>1 DEF DeviceError, Transfers
    <3>3. ~Carried(u) /\ ~Carried(u)'
      BY <3>1, <3>2 DEF Carried
    <3> QED
      BY <1>1, <3>3, CallKept
  <2>2. CASE ~DeviceError
    <3>1. emmc' = emmc
      BY <2>2 DEF IntrPending, IntrEnter
    <3>2. Carried(u)' <=> Carried(u)
      BY <1>1, <3>1, Zenon DEF Carried
    <3> QED
      BY <1>1, <3>1, <3>2, CallKept
  <2> QED
    BY <2>1, <2>2, Zenon
<1> QED
  BY <1>1, <1>2, CallsByThread

\* sd_intr hands over what the card has done, or panics.
LEMMA CompleteImplements ==
  ASSUME SdInv, NEW h \in Handlers, IntrComplete(h)
  PROVE  disk' = disk /\ Calls' = Calls
<1> DEFINE t == queue[1]
<1>1. Types /\ QueueInv /\ CardInv
  BY DEF SdInv
<1>2. /\ disk' = disk /\ queue' = queue
      /\ emmc' = IF Interrupting THEN NoTransfer ELSE emmc
  BY Zenon DEF IntrComplete
<1>3. /\ queue \in Seq(Threads) /\ Len(queue) > 0 /\ Head(queue) = t /\ t \in Threads
      /\ pc[t] \in {"sleep", "woken"} /\ queue # <<>>
  BY FrontInv DEF IntrComplete
<1>4. CASE emmc.state # ExpectedInterrupt(buf[t])
  <2>1. buf' = buf /\ pc' = pc
    BY <1>3, <1>4 DEF IntrComplete
  <2>2. emmc.state \notin {"DATA_DONE", "READ_RDY"}
    <3>1. CASE emmc = NoTransfer
      BY <3>1 DEF NoTransfer
    <3>2. CASE emmc # NoTransfer
      BY Zenon, <1>1, <1>4, <3>2 DEF CardInv, ExpectedInterrupt
    <3> QED
      BY <3>1, <3>2
  <2>3. emmc'.state \notin {"DATA_DONE", "READ_RDY"}
    BY <1>2, <2>2, Zenon DEF NoTransfer
  <2>4. ASSUME NEW u \in Threads PROVE Calls'[u] = Calls[u]
    <3>1. ~Carried(u) /\ ~Carried(u)'
      BY <2>2, <2>3, Zenon DEF Carried
    <3> QED
      BY <2>1, <3>1, CallKept
  <2> QED
    BY <1>2, <2>4, CallsByThread, Zenon
<1>5. CASE emmc.state = ExpectedInterrupt(buf[t])
  <2>1. /\ pc' = Wakeup(t)
        /\ buf' = [buf EXCEPT ![t] = [flags |-> "valid", blockno |-> buf[t].blockno,
                                      data |-> Received(t)]]
    BY <1>3, <1>5 DEF IntrComplete
  <2>2. emmc.state \in {"DATA_DONE", "READ_RDY"}
    BY <1>5 DEF ExpectedInterrupt
  <2>3. emmc'.state = "idle"
    BY <1>2, <2>2 DEF Interrupting, NoTransfer
  <2>4. \A u \in Threads : ~Carried(u)' /\ (Carried(u) <=> u = t)
    BY <1>3, <2>2, <2>3, Zenon DEF Carried
  <2>5. buf[t].flags # "valid" /\ emmc # NoTransfer
    BY <1>3, <2>4, CarriedFront, Zenon
  <2>6. Received(t) = emmc.data
    BY <1>1, <2>5, Zenon DEF Received, CardInv
  <2>7. /\ buf'[t].flags = "valid" /\ buf'[t].data = emmc.data
        /\ \A u \in Threads : u # t => buf'[u] = buf[u]
    BY <1>1, <1>3, <2>1, <2>6, Zenon DEF Types
  <2>8. \A u \in Threads : pc[u] = "idle" <=> pc'[u] = "idle"
    BY <1>1, <1>3, <2>1, Zenon DEF Types, Wakeup
  <2>9. ASSUME NEW u \in Threads PROVE Calls'[u] = Calls[u]
    <3>1. CASE u = t
      BY <2>4, <2>5, <2>7, <2>8, <3>1, CallKept, Zenon
    <3>2. CASE u # t
      BY <2>4, <2>7, <2>8, <3>2, CallKept
    <3> QED
      BY <3>1, <3>2, Zenon
  <2> QED
    BY <1>2, <2>9, CallsByThread
<1> QED
  BY <1>4, <1>5

\* sd_intr goes on to the next request.
LEMMA NextImplements ==
  ASSUME SdInv, NEW h \in Handlers, IntrNext(h)
  PROVE  disk' = disk /\ Calls' = Calls
<1>1. disk' = disk /\ buf' = buf /\ pc' = pc
  BY DEF IntrNext
<1>2. emmc.state = "idle"
  <2>1. emmc = NoTransfer
    BY Zenon, NextInv
  <2> QED
    BY <2>1 DEF NoTransfer
<1>3. emmc' = emmc \/ emmc'.state = "busy"
  BY DEF IntrNext, SdStart, Command
<1>4. ASSUME NEW u \in Threads PROVE Calls'[u] = Calls[u]
  <2>1. ~Carried(u) /\ ~Carried(u)'
    BY <1>2, <1>3 DEF Carried
  <2> QED
    BY <1>1, <2>1, CallKept
<1> QED
  BY <1>1, <1>4, CallsByThread

\* The driver implements the atomic block device, for any number of threads, blocks,
\* values and processors: every sd_read and sd_write takes effect at one moment.
THEOREM SdAtomicCalls == Spec => AtomicCalls
<1>1. Init => Abs!Init
  <2> SUFFICES ASSUME Init PROVE Abs!Init
    OBVIOUS
  <2>1. \A t \in Threads : Calls[t] = [state |-> "idle"]
    BY Zenon, CallValues DEF Init
  <2>2. Calls = [t \in Threads |-> [state |-> "idle"]]
    BY <2>1 DEF Calls
  <2> QED
    BY <2>2 DEF Init, Abs!Init, Abs!NoCall
<1>2. SdInv /\ [Next]_vars => [Abs!Next]_<<disk, Calls>>
  <2> SUFFICES ASSUME SdInv PROVE [Next]_vars => [Abs!Next]_<<disk, Calls>>
    OBVIOUS
  <2>1. CASE UNCHANGED vars
    <3>1. disk' = disk /\ buf' = buf /\ pc' = pc /\ queue' = queue /\ emmc' = emmc
      BY <2>1, Zenon DEF vars
    <3>2. ASSUME NEW u \in Threads PROVE Calls'[u] = Calls[u]
      <4>1. Carried(u)' <=> Carried(u)
        BY <3>1, Zenon DEF Carried
      <4> QED
        BY <3>1, <4>1, CallKept
    <3> QED
      BY <3>1, <3>2, CallsByThread
  <2>2. CASE Next
    BY <2>2, SdrwImplements, ReturnImplements, DoneImplements, OthersImplement,
       QuietImplements, CompleteImplements, NextImplements
    DEF Next, Step, Intr
  <2> QED
    BY <2>1, <2>2
<1> QED
  BY <1>1, <1>2, SdInvariant, PTL DEF Spec, AtomicCalls, Abs!Spec, Abs!absVars

-----------------------------------------------------------------------------
(* The bring-up of the card: the inductive invariant.                       *)

Commands ==
    {"GO_IDLE_STATE", "APP_CMD", "SEND_IF_COND", "OP_COND_HC", "OP_COND_SC", "ALL_SEND_CID",
     "SEND_REL_ADDR", "SEND_CSD", "CARD_SELECT", "SEND_SCR", "SET_BUS_WIDTH",
     "SET_BLOCKLEN", "READ_SINGLE"}
Answers == [app : BOOLEAN, err : BOOLEAN, complete : BOOLEAN, ccs : BOOLEAN, bus4 : BOOLEAN]
SdType == [type : {"none", "1", "2_HC", "2_SC"}, rca : BOOLEAN, ocr : Answers,
           app : BOOLEAN, bus4 : BOOLEAN, init : BOOLEAN]
Interrupts == {"CMD_DONE", "CMD_TIMEOUT", "ERROR", "READ_RDY", "DATA_DONE"}
Clocks ==
    {0} \cup {Frequency(Divider(v, f)) : v \in HostVersions, f \in {FREQ_SETUP, FREQ_NORMAL}}
HostType == [ver : HostVersions, clock : Clocks, width : {1, 4}, inhibit : BOOLEAN,
             int : SUBSET Interrupts, pending : Commands \cup {"none"}, answer : Answers,
             fresh : BOOLEAN, data : {"none", "coming", "ready", "read"}]
CardType == [v2 : BOOLEAN, hc : BOOLEAN, bus4 : BOOLEAN, busy : Int,
             state : {"idle", "ready", "ident", "stby", "tran"}, app : BOOLEAN,
             cond : BOOLEAN, width : {1, 4}]
BootTypes == sd \in SdType /\ host \in HostType /\ card \in CardType

\* The stages of sdInit up to the one where the card gets ready, those after it,
\* and what follows sdInit.
Early == {"start", "reset", "setup", "idle", "ifcond", "opcond"}
Named == {"voltage", "cid", "rca", "csd", "format", "clock", "select"}
Tran == {"waitdata", "scr", "readscr", "width", "dwidth", "blocklen", "finish"}
Main == Named \cup Tran
Rest == {"assert", "mbr", "mbrwait", "mbrdone", "up", "panic"}

\* The state of the card when a stage begins, and when its command is answered.
Before(p) ==
    IF p \in {"voltage", "cid"} THEN "ready"
    ELSE IF p = "rca" THEN "ident"
    ELSE IF p \in {"csd", "format", "clock", "select"} THEN "stby" ELSE "tran"
After(p) == IF p = "cid" THEN "ident" ELSE IF p \in {"rca", "csd"} THEN "stby" ELSE "tran"

\* The driver has one command out, and INT_CMD_DONE is that command's.
AnswerFresh == "CMD_DONE" \in host.int => host.fresh /\ host.pending = "none"
OneCommand ==
    /\ AnswerFresh
    /\ step \in {"call", "appsent", "apped", "sent"}
    /\ step # "call" => Sending
    /\ step \in {"appsent", "apped"} => NeedsApp(CommandAt)
    /\ step = "sent" => host.pending \in {CommandAt, "none"}
    /\ step = "appsent" => host.pending \in {"APP_CMD", "none"}

\* What the answer to ACMD41 says of a card that is ready.
Settled(a) == a.ccs = card.hc /\ (old => ~card.hc)

\* The answer has come to the command of a stage.
Came == step = "sent" /\ "CMD_DONE" \in host.int
\* The command of a stage has not been sent, or not been looked at.
Ahead == step # "sent" \/ host.pending # "none"

EarlyInv ==
    stage \in Early =>
      /\ ~sd.init /\ card.width = 1 /\ host.width = 1 /\ host.pending # "SET_BUS_WIDTH"
      /\ stage \in {"idle", "ifcond", "opcond"} => ~sd.ocr.complete
      /\ stage = "opcond" /\ Came /\ host.answer.complete =>
           card.state = "ready" /\ Settled(host.answer)

\* Until the answer to its command comes, a stage finds the card as it should be.
StateInv ==
    /\ step \in {"call", "apped"} => host.pending = "none"
    /\ Ahead => card.state = Before(stage)
    /\ Came => card.state = After(stage)
WidthInv ==
    /\ stage \in Main \ {"blocklen", "finish"} => host.width = 1
    /\ stage \in Main \ {"width", "dwidth", "blocklen", "finish"} => card.width = 1
    /\ stage = "width" => (Ahead => card.width = 1) /\ (Came /\ host.answer.app => card.width = 4)
    /\ stage = "dwidth" => card.width = 4
    /\ stage \in {"blocklen", "finish"} => host.width = card.width
NormalFrequency == Frequency(Divider(host.ver, FREQ_NORMAL))
\* No data is under way.
NoData == host.data \in {"read", "none"} /\ "READ_RDY" \notin host.int
MainInv ==
    stage \in Main =>
      /\ ~sd.init /\ StateInv /\ WidthInv
      /\ IF stage = "voltage" THEN Settled(sd.ocr) ELSE (sd.type = "2_HC") = card.hc
      /\ stage \notin {"voltage", "cid", "rca"} => sd.rca
      /\ stage \in Tran \cup {"select"} => host.clock = NormalFrequency
      /\ stage \in {"width", "dwidth", "blocklen", "finish"} => NoData

\* What sdInit leaves when it succeeds stays, and the read of the MBR is the only
\* command that follows.
RestInv ==
    sd.init =>
      /\ stage \in Rest
      /\ card.state = "tran" /\ host.width = card.width
      /\ host.clock = NormalFrequency /\ (sd.type = "2_HC") = card.hc
      /\ host.pending \in {"none", "READ_SINGLE"}
      /\ stage # "panic" /\ step = "call" => host.pending = "none"
      /\ stage = "assert" \/ (stage = "mbr" /\ step = "call") => NoData
      /\ stage = "mbr" /\ host.pending # "none" => NoData
      /\ stage \in {"mbr", "mbrwait"} => ("READ_RDY" \in host.int => host.data = "ready")
      /\ stage \in {"mbrdone", "up"} => dropped \/ mbr = "good"

BootInv ==
    /\ BootTypes /\ stage \in Early \cup Main \cup Rest
    /\ OneCommand /\ EarlyInv /\ MainInv /\ RestInv
-----------------------------------------------------------------------------
(* Facts about the operators.                                               *)

\* The divider for the normal speed: the clock runs, and not faster than that.
LEMMA NormalSpeed ==
  ASSUME NEW v \in 0..2
  PROVE  /\ Frequency(Divider(v, FREQ_NORMAL)) \in Int
         /\ 0 < Frequency(Divider(v, FREQ_NORMAL))
         /\ Frequency(Divider(v, FREQ_NORMAL)) <= FREQ_NORMAL
<1>1. BaseClock \div FREQ_NORMAL = 1 /\ Fls(1 - 1) = 0
  BY DEF BaseClock, FREQ_NORMAL, Fls
<1>2. 2^0 = 1
  OBVIOUS
<1>3. Divider(v, FREQ_NORMAL) = 2
  BY <1>1, <1>2 DEF Divider, HOST_SPEC_V2
<1> QED
  BY <1>3 DEF Frequency, BaseClock, FREQ_NORMAL

\* The commands of the stages.
Stages == {"idle", "ifcond", "opcond", "cid", "rca", "csd", "select", "scr", "width",
           "blocklen", "mbr"}
\* The command that each stage of sdInit and of sd_init sends.
LEMMA CommandIs ==
  /\ stage = "idle" => CommandAt = "GO_IDLE_STATE"
  /\ stage = "ifcond" => CommandAt = "SEND_IF_COND"
  /\ stage = "opcond" => CommandAt = IF old THEN "OP_COND_SC" ELSE "OP_COND_HC"
  /\ stage = "cid" => CommandAt = "ALL_SEND_CID"
  /\ stage = "rca" => CommandAt = "SEND_REL_ADDR"
  /\ stage = "csd" => CommandAt = "SEND_CSD"
  /\ stage = "select" => CommandAt = "CARD_SELECT"
  /\ stage = "scr" => CommandAt = "SEND_SCR"
  /\ stage = "width" => CommandAt = "SET_BUS_WIDTH"
  /\ stage = "blocklen" => CommandAt = "SET_BLOCKLEN"
  /\ stage = "mbr" => CommandAt = "READ_SINGLE"
  BY Zenon DEF CommandAt
\* The stages that send a command.
LEMMA SendingIs == Sending <=> stage \in Stages
  BY DEF Sending, CommandAt, Stages
\* A stage that sends a command sends one of its own, never CMD55.
LEMMA CommandTyped == stage \in Stages => CommandAt \in Commands \ {"APP_CMD"}
  BY DEF CommandAt, Stages, Commands
-----------------------------------------------------------------------------
(* What assignments to the registers, to sdCard and to the card change.     *)

HostAre(g, ver, clock, width, inhibit, int, pending, answer, fresh, data) ==
    /\ g \in HostType
    /\ g.ver = ver /\ g.clock = clock /\ g.width = width /\ g.inhibit = inhibit
    /\ g.int = int /\ g.pending = pending /\ g.answer = answer /\ g.fresh = fresh
    /\ g.data = data

\* The interrupts,
LEMMA HostInt ==
  ASSUME NEW h \in HostType, NEW i \in SUBSET Interrupts
  PROVE  HostAre([h EXCEPT !.int = i], h.ver, h.clock, h.width, h.inhibit, i, h.pending,
                 h.answer, h.fresh, h.data)
  BY Zenon DEF HostAre, HostType

\* with the state of the data,
LEMMA HostIntData ==
  ASSUME NEW h \in HostType, NEW i \in SUBSET Interrupts,
         NEW d \in {"none", "coming", "ready", "read"}
  PROVE  HostAre([h EXCEPT !.int = i, !.data = d], h.ver, h.clock, h.width, h.inhibit, i,
                 h.pending, h.answer, h.fresh, d)
  BY Zenon DEF HostAre, HostType

\* the command,
LEMMA HostIssue ==
  ASSUME NEW h \in HostType, NEW c \in Commands
  PROVE  HostAre([h EXCEPT !.int = {}, !.pending = c, !.inhibit = TRUE, !.fresh = FALSE],
                 h.ver, h.clock, h.width, TRUE, {}, c, h.answer, FALSE, h.data)
<1>1. {} \in SUBSET Interrupts
  OBVIOUS
<1> QED
  BY Zenon, <1>1 DEF HostAre, HostType

\* its answer,
LEMMA HostAnswer ==
  ASSUME NEW h \in HostType, NEW i \in SUBSET Interrupts, NEW a \in Answers,
         NEW d \in {"none", "coming", "ready", "read"}
  PROVE  HostAre([h EXCEPT !.int = i, !.pending = "none", !.inhibit = FALSE, !.answer = a,
                           !.fresh = TRUE, !.data = d],
                 h.ver, h.clock, h.width, FALSE, i, "none", a, TRUE, d)
  BY Zenon DEF HostAre, HostType

\* its end without an answer,
LEMMA HostGivesUp ==
  ASSUME NEW h \in HostType, NEW i \in SUBSET Interrupts, NEW b \in BOOLEAN
  PROVE  HostAre([h EXCEPT !.int = i, !.pending = "none", !.inhibit = b],
                 h.ver, h.clock, h.width, b, i, "none", h.answer, h.fresh, h.data)
  BY Zenon DEF HostAre, HostType

\* the clock,
LEMMA HostClock ==
  ASSUME NEW h \in HostType, NEW c \in Clocks
  PROVE  HostAre([h EXCEPT !.clock = c], h.ver, c, h.width, h.inhibit, h.int, h.pending,
                 h.answer, h.fresh, h.data)
  BY Zenon DEF HostAre, HostType

\* the width of the bus,
LEMMA HostWidth ==
  ASSUME NEW h \in HostType, NEW w \in {1, 4}
  PROVE  HostAre([h EXCEPT !.width = w], h.ver, h.clock, w, h.inhibit, h.int, h.pending,
                 h.answer, h.fresh, h.data)
  BY Zenon DEF HostAre, HostType

\* and the reset of the controller.
LEMMA HostReset ==
  ASSUME NEW h \in HostType
  PROVE  HostAre([h EXCEPT !.clock = 0, !.width = 1, !.inhibit = FALSE, !.int = {},
                           !.pending = "none", !.data = "none"],
                 h.ver, 0, 1, FALSE, {}, "none", h.answer, h.fresh, "none")
<1>1. {} \in SUBSET Interrupts /\ 0 \in Clocks
  BY DEF Clocks
<1> QED
  BY Zenon, <1>1 DEF HostAre, HostType

SdAre(g, type, rca, ocr, app, bus4, init) ==
    /\ g \in SdType
    /\ g.type = type /\ g.rca = rca /\ g.ocr = ocr /\ g.app = app /\ g.bus4 = bus4
    /\ g.init = init

\* sdCard: the results of commands,
LEMMA SdTaken ==
  ASSUME NEW s \in SdType, NEW a \in Answers, NEW b \in BOOLEAN
  PROVE  /\ SdAre([s EXCEPT !.app = b], s.type, s.rca, s.ocr, b, s.bus4, s.init)
         /\ SdAre([s EXCEPT !.ocr = a, !.app = b], s.type, s.rca, a, b, s.bus4, s.init)
         /\ SdAre([s EXCEPT !.rca = TRUE, !.app = b], s.type, TRUE, s.ocr, b, s.bus4, s.init)
  BY Zenon DEF SdAre, SdType

\* and its other parts.
LEMMA SdParts ==
  ASSUME NEW s \in SdType, NEW t \in {"none", "1", "2_HC", "2_SC"}, NEW b \in BOOLEAN
  PROVE  /\ SdAre([s EXCEPT !.type = t], t, s.rca, s.ocr, s.app, s.bus4, s.init)
         /\ SdAre([s EXCEPT !.bus4 = b], s.type, s.rca, s.ocr, s.app, b, s.init)
         /\ SdAre([s EXCEPT !.init = b], s.type, s.rca, s.ocr, s.app, s.bus4, b)
  BY Zenon DEF SdAre, SdType
\* What sdInit clears when it starts over.
LEMMA SdReset ==
  ASSUME NEW s \in SdType
  PROVE  SdAre([s EXCEPT !.rca = FALSE, !.ocr = NoAnswer, !.app = FALSE, !.type = "none"],
               "none", FALSE, NoAnswer, FALSE, s.bus4, s.init)
<1>1. NoAnswer \in Answers
  BY DEF NoAnswer, Answers
<1> QED
  BY Zenon, <1>1 DEF SdAre, SdType

-----------------------------------------------------------------------------
(* Steps of sdInit between commands.                                        *)

LEMMA StagesApart ==
  /\ Early \cap Main = {} /\ Early \cap Rest = {} /\ Main \cap Rest = {}
  /\ "assert" \in Rest /\ "panic" \in Rest
  BY DEF Early, Main, Named, Tran, Rest

\* When sdInit has failed nothing more is said of the card.
LEMMA Unsettled ==
  ASSUME BootTypes', stage' \in Rest, sd'.init = FALSE, OneCommand'
  PROVE  BootInv'
  BY StagesApart DEF BootInv, EarlyInv, MainInv, RestInv

\* sdInit returning an error keeps the invariant: the card is not used again.
LEMMA FailsInv ==
  ASSUME SdInitFails, BootTypes', sd'.init = FALSE, AnswerFresh'
  PROVE  BootInv'
<1>1. stage' = "assert" /\ step' = "call"
  BY DEF SdInitFails, GoTo
<1>2. OneCommand'
  BY <1>1 DEF OneCommand
<1> QED
  BY Zenon, <1>1, <1>2, Unsettled, StagesApart

\* Inside sdInit sdCard.init is not set.
LEMMA NotYet == BootInv /\ stage \notin Rest => sd.init = FALSE
  BY DEF BootInv, RestInv, BootTypes, SdType

\* The driver starts with the invariant.
LEMMA BootInitInv == BootInit => BootInv
<1> SUFFICES ASSUME BootInit PROVE BootInv
  OBVIOUS
<1>1. BootTypes
  <2>1. NoAnswer \in Answers
    BY DEF NoAnswer, Answers
  <2>2. sd \in SdType
    BY <2>1 DEF BootInit, SdType
  <2>3. host \in HostType
    <3>1. host \in [ver : HostVersions, clock : {0}, width : {1}, inhibit : {FALSE}, int : {{}},
                    pending : {"none"}, answer : {NoAnswer}, fresh : {FALSE}, data : {"none"}]
      BY Zenon DEF BootInit
    <3>2. host.ver \in HostVersions
      BY <3>1
    <3>3. host = [ver |-> host.ver, clock |-> 0, width |-> 1, inhibit |-> FALSE, int |-> {},
                  pending |-> "none", answer |-> NoAnswer, fresh |-> FALSE, data |-> "none"]
      BY Zenon, <3>1
    <3>4. {} \in SUBSET Interrupts /\ 0 \in Clocks
      BY DEF Clocks
    <3>5. \A v \in HostVersions :
             [ver |-> v, clock |-> 0, width |-> 1, inhibit |-> FALSE, int |-> {},
              pending |-> "none", answer |-> NoAnswer, fresh |-> FALSE, data |-> "none"]
                \in HostType
      BY <2>1, <3>4 DEF HostType
    <3> QED
      BY Zenon, <3>2, <3>3, <3>5
  <2>4. card \in CardType
    <3>1. card \in [v2 : BOOLEAN, hc : BOOLEAN, bus4 : BOOLEAN, busy : 0..MaxBusy,
                    state : {"idle"}, app : {FALSE}, cond : {FALSE}, width : {1}]
      BY Zenon DEF BootInit
    <3>2. card.v2 \in BOOLEAN /\ card.hc \in BOOLEAN /\ card.bus4 \in BOOLEAN
      BY <3>1
    <3>3. card.busy \in Int
      BY <3>1, SdCardAssumption
    <3>4. card = [v2 |-> card.v2, hc |-> card.hc, bus4 |-> card.bus4, busy |-> card.busy,
                  state |-> "idle", app |-> FALSE, cond |-> FALSE, width |-> 1]
      BY Zenon, <3>1
    <3>5. \A v \in BOOLEAN, h \in BOOLEAN, w \in BOOLEAN, b \in Int :
             [v2 |-> v, hc |-> h, bus4 |-> w, busy |-> b, state |-> "idle", app |-> FALSE,
              cond |-> FALSE, width |-> 1] \in CardType
      BY DEF CardType
    <3> QED
      BY Zenon, <3>2, <3>3, <3>4, <3>5
  <2> QED
    BY <2>2, <2>3, <2>4 DEF BootTypes
<1>2. OneCommand
  BY DEF BootInit, OneCommand, AnswerFresh
<1>3. EarlyInv
  BY DEF BootInit, EarlyInv, Came
<1> QED
  BY <1>1, <1>2, <1>3 DEF BootInit, BootInv, MainInv, RestInv, Early, Main, Named, Tran

\* The start of sdInit keeps the invariant.
LEMMA StartInv == BootInv /\ Start => BootInv'
<1> SUFFICES ASSUME BootInv, Start PROVE BootInv'
  OBVIOUS
<1>1. BootTypes'
  BY DEF BootInv, BootTypes, Start
<1>2. OneCommand'
  BY DEF BootInv, OneCommand, AnswerFresh, Start, GoTo
<1>3. EarlyInv'
  BY DEF BootInv, EarlyInv, Start, GoTo, Early
<1> QED
  BY <1>1, <1>2, <1>3, NotYet, StagesApart
     DEF BootInv, MainInv, RestInv, Start, GoTo, Early, Main, Named, Tran, Rest

\* sdResetCard keeps the invariant: its reset of the controller,
LEMMA ResetInv == BootInv /\ Reset => BootInv'
<1> SUFFICES ASSUME BootInv, Reset PROVE BootInv'
  OBVIOUS
<1>1. BootTypes /\ sd.init = FALSE /\ stage = "reset" /\ stage \in Early
  BY NotYet, StagesApart DEF BootInv, Reset, Early, Rest
<1>2. HostAre(host', host.ver, 0, 1, FALSE, {}, "none", host.answer, host.fresh, "none")
  BY Zenon, <1>1, HostReset DEF BootTypes, Reset
<1>3. BootTypes' /\ sd'.init = FALSE /\ AnswerFresh'
  BY <1>1, <1>2 DEF BootTypes, Reset, HostAre, AnswerFresh
<1>4. CASE SdInitFails
  BY Zenon, <1>3, <1>4, FailsInv
<1>5. CASE GoTo("setup") /\ UNCHANGED <<old, tries>>
  <2>1. stage' = "setup" /\ step' = "call"
    BY <1>5 DEF GoTo
  <2>2. OneCommand'
    BY <1>3, <2>1 DEF OneCommand
  <2>3. EarlyInv'
    BY <1>1, <1>2, <1>3, <2>1 DEF BootInv, EarlyInv, Early, Reset, HostAre
  <2> QED
    BY <1>3, <2>1, <2>2, <2>3 DEF BootInv, MainInv, RestInv, Early, Main, Named, Tran
<1> QED
  BY Zenon, <1>4, <1>5 DEF Reset

\* sdSetClock keeps the registers typed, and sets the frequency asked for.
LEMMA ClockSet ==
  ASSUME BootInv, NEW f \in {FREQ_SETUP, FREQ_NORMAL}, NEW n, SetClock(f, n)
  PROVE  \/ SdInitFails /\ host' \in HostType /\ AnswerFresh'
         \/ /\ GoTo(n) /\ UNCHANGED <<old, tries>> /\ host.data = "none"
            /\ HostAre(host', host.ver, Frequency(Divider(host.ver, f)), host.width,
                       host.inhibit, host.int, host.pending, host.answer, host.fresh,
                       host.data)
<1>1. host \in HostType /\ AnswerFresh
  BY DEF BootInv, BootTypes, OneCommand
<1>2. 0 \in Clocks /\ Frequency(Divider(host.ver, f)) \in Clocks
  BY <1>1 DEF Clocks, HostType
<1>3. HostAre([host EXCEPT !.clock = 0], host.ver, 0, host.width, host.inhibit, host.int,
              host.pending, host.answer, host.fresh, host.data)
  BY Zenon, <1>1, <1>2, HostClock
<1>4. HostAre([host EXCEPT !.clock = Frequency(Divider(host.ver, f))], host.ver,
              Frequency(Divider(host.ver, f)), host.width, host.inhibit, host.int,
              host.pending, host.answer, host.fresh, host.data)
  BY Zenon, <1>1, <1>2, HostClock
<1>5. CASE host' \in {host, [host EXCEPT !.clock = 0]} /\ SdInitFails
  <2>1. host' \in HostType /\ host'.int = host.int /\ host'.fresh = host.fresh
          /\ host'.pending = host.pending
    BY Zenon, <1>1, <1>3, <1>5 DEF HostAre
  <2> QED
    BY <1>1, <1>5, <2>1 DEF AnswerFresh
<1> QED
  BY Zenon, <1>4, <1>5 DEF SetClock

\* its clock,
LEMMA SetupClockInv == BootInv /\ SetupClock => BootInv'
<1> SUFFICES ASSUME BootInv, SetupClock PROVE BootInv'
  OBVIOUS
<1>1. BootTypes /\ sd.init = FALSE /\ stage = "setup" /\ stage \in Early /\ AnswerFresh
  BY NotYet, StagesApart DEF BootInv, SetupClock, Early, Rest, OneCommand
<1>2. SetClock(FREQ_SETUP, "idle")
  BY DEF SetupClock
<1>3. CASE SdInitFails /\ host' \in HostType /\ AnswerFresh'
  <2>1. stage' = "assert"
    BY <1>3 DEF SdInitFails, GoTo
  <2>2. BootTypes' /\ sd'.init = FALSE
    BY <1>1, <1>3, <2>1 DEF BootTypes, SetupClock
  <2> QED
    BY Zenon, <1>3, <2>2, FailsInv
<1>4. CASE /\ GoTo("idle") /\ UNCHANGED <<old, tries>>
           /\ HostAre(host', host.ver, Frequency(Divider(host.ver, FREQ_SETUP)), host.width,
                      host.inhibit, host.int, host.pending, host.answer, host.fresh,
                      host.data)
  <2>1. stage' = "idle" /\ step' = "call" /\ card' = card
    BY <1>4 DEF GoTo, SetupClock
  <2>2. SdAre(sd', "none", FALSE, NoAnswer, FALSE, sd.bus4, sd.init)
    BY Zenon, <1>1, <2>1, SdReset DEF BootTypes, SetupClock
  <2>3. BootTypes' /\ sd'.init = FALSE /\ AnswerFresh' /\ ~sd'.ocr.complete
    BY <1>1, <1>4, <2>1, <2>2 DEF BootTypes, SdAre, HostAre, AnswerFresh, NoAnswer
  <2>4. OneCommand'
    BY <2>1, <2>3 DEF OneCommand
  <2>5. EarlyInv'
    BY <1>1, <1>4, <2>1, <2>3 DEF BootInv, EarlyInv, Early, HostAre
  <2> QED
    BY <2>1, <2>3, <2>4, <2>5 DEF BootInv, MainInv, RestInv, Early, Main, Named, Tran
<1> QED
  BY Zenon, <1>2, <1>3, <1>4, ClockSet

\* What the start of a stage of Main needs.
Reached(n) ==
    /\ stage' = n /\ step' = "call" /\ sd'.init = FALSE /\ BootTypes' /\ AnswerFresh'
    /\ host'.pending = "none" /\ card'.state = Before(n)
    /\ IF n = "voltage" THEN Settled(sd.ocr)' ELSE (sd'.type = "2_HC") = card'.hc
    /\ n \notin {"voltage", "cid", "rca"} => sd'.rca
    /\ n \in Tran \cup {"select"} => host'.clock = NormalFrequency'
    /\ n \in {"width", "dwidth", "blocklen", "finish"} => NoData'
    /\ n \notin {"blocklen", "finish"} => host'.width = 1
    /\ n \notin {"dwidth", "blocklen", "finish"} => card'.width = 1
    /\ n = "dwidth" => card'.width = 4
    /\ n \in {"blocklen", "finish"} => host'.width = card'.width
\* A stage after the one where the card gets ready that begins with what is
\* said of it begins with the invariant.
LEMMA ReachedInv ==
  ASSUME NEW n \in Main, Reached(n)
  PROVE  BootInv'
<1>1. BootTypes' /\ stage' = n /\ step' = "call" /\ sd'.init = FALSE
  BY DEF Reached
<1>2. OneCommand'
  BY <1>1 DEF OneCommand, Reached
<1>3. StateInv' /\ WidthInv'
  BY <1>1 DEF Reached, StateInv, WidthInv, Ahead, Came
<1>4. MainInv'
  BY <1>1, <1>3 DEF Reached, MainInv
<1> QED
  BY <1>1, <1>2, <1>4, StagesApart DEF BootInv, EarlyInv, RestInv

\* The checks of the voltage and of the format keep the invariant.
LEMMA VoltageInv == BootInv /\ Voltage => BootInv'
<1> SUFFICES ASSUME BootInv, Voltage PROVE BootInv'
  OBVIOUS
<1>1. BootTypes /\ sd.init = FALSE /\ stage = "voltage" /\ stage \in Main /\ AnswerFresh
  BY NotYet, StagesApart DEF BootInv, Voltage, Main, Named, Rest, OneCommand
<1>2. AnswerFresh' /\ card' = card /\ host' = host
  BY <1>1 DEF AnswerFresh, Voltage
<1>3. CASE SdInitFails /\ UNCHANGED sd
  <2>1. BootTypes' /\ sd'.init = FALSE
    BY <1>1, <1>2, <1>3 DEF BootTypes
  <2> QED
    BY Zenon, <1>2, <1>3, <2>1, FailsInv
<1>4. ASSUME NEW t \in {"1", "2_HC", "2_SC"}, sd' = [sd EXCEPT !.type = t],
             t = (IF old THEN "1" ELSE IF sd.ocr.ccs THEN "2_HC" ELSE "2_SC"), GoTo("cid")
      PROVE  BootInv'
  <2>1. stage' = "cid" /\ step' = "call"
    BY <1>4 DEF GoTo
  <2>2. SdAre(sd', t, sd.rca, sd.ocr, sd.app, sd.bus4, sd.init)
    BY Zenon, <1>1, <1>4, SdParts DEF BootTypes
  <2>3. BootTypes' /\ sd'.init = FALSE
    BY <1>1, <1>2, <2>2 DEF BootTypes, SdAre
  <2>4. StateInv /\ WidthInv /\ step = "call"
    BY <1>1 DEF BootInv, MainInv, OneCommand, Sending, CommandAt
  <2>5. (sd'.type = "2_HC") = card'.hc
    BY <1>1, <1>2, <1>4, <2>2
       DEF BootInv, MainInv, Settled, SdAre, BootTypes, CardType, SdType, Answers
  <2>6. Reached("cid")
    BY <1>2, <1>1, <2>1, <2>3, <2>4, <2>5
       DEF Reached, StateInv, WidthInv, Ahead, Before, Tran
  <2> QED
    BY <2>6, ReachedInv DEF Main, Named
<1> QED
  BY Zenon, <1>3, <1>4 DEF Voltage

\* At a stage that sends no command: what the invariant says.
LEMMA Between ==
  ASSUME BootInv, stage \in {"format", "clock", "waitdata", "readscr", "dwidth", "finish"}
  PROVE  /\ BootTypes /\ sd.init = FALSE /\ stage \in Main /\ AnswerFresh
         /\ host.pending = "none" /\ card.state = Before(stage) /\ WidthInv /\ sd.rca
         /\ (sd.type = "2_HC") = card.hc
         /\ stage \in Tran => host.clock = NormalFrequency
<1>1. BootTypes /\ sd.init = FALSE /\ stage \in Main /\ AnswerFresh
  BY NotYet, StagesApart DEF BootInv, Main, Named, Tran, Rest, OneCommand
<1>2. step = "call"
  BY DEF BootInv, OneCommand, Sending, CommandAt
<1> QED
  BY <1>1, <1>2 DEF BootInv, MainInv, StateInv, Ahead

\* The choice of the format of a block address keeps the invariant.
LEMMA FormatInv == BootInv /\ Format => BootInv'
<1> SUFFICES ASSUME BootInv, Format PROVE BootInv'
  OBVIOUS
<1>1. stage = "format" /\ UNCHANGED <<sd, host, card>>
  BY DEF Format
<1>2. BootTypes' /\ sd'.init = FALSE /\ AnswerFresh'
  BY Zenon, <1>1, Between DEF BootTypes, AnswerFresh
<1>3. CASE SdInitFails
  BY Zenon, <1>2, <1>3, FailsInv
<1>4. CASE GoTo("clock")
  <2>1. Reached("clock")
    BY <1>1, <1>2, <1>4, Between DEF Reached, GoTo, WidthInv, Before, Tran, Main, Named
  <2> QED
    BY <2>1, ReachedInv DEF Main, Named
<1> QED
  BY Zenon, <1>3, <1>4 DEF Format

\* The clock at its normal speed,
LEMMA NormalClockInv == BootInv /\ NormalClock => BootInv'
<1> SUFFICES ASSUME BootInv, NormalClock PROVE BootInv'
  OBVIOUS
<1>1. stage = "clock" /\ UNCHANGED <<sd, card>> /\ SetClock(FREQ_NORMAL, "select")
  BY DEF NormalClock
<1>2. CASE SdInitFails /\ host' \in HostType /\ AnswerFresh'
  <2>1. BootTypes' /\ sd'.init = FALSE
    BY Zenon, <1>1, <1>2, Between DEF BootTypes
  <2> QED
    BY Zenon, <1>2, <2>1, FailsInv
<1>3. CASE /\ GoTo("select")
           /\ HostAre(host', host.ver, Frequency(Divider(host.ver, FREQ_NORMAL)), host.width,
                      host.inhibit, host.int, host.pending, host.answer, host.fresh,
                      host.data)
  <2>1. BootTypes' /\ AnswerFresh' /\ host'.clock = NormalFrequency'
    BY <1>1, <1>3, Between DEF BootTypes, AnswerFresh, HostAre, NormalFrequency
  <2>2. Reached("select")
    BY Zenon, <1>1, <1>3, <2>1, Between
       DEF Reached, GoTo, WidthInv, Before, Tran, Main, Named, HostAre
  <2> QED
    BY <2>2, ReachedInv DEF Main, Named
<1> QED
  BY Zenon, <1>1, <1>2, <1>3, ClockSet

\* the wait for the data lines,
LEMMA WaitDataInv == BootInv /\ WaitData => BootInv'
<1> SUFFICES ASSUME BootInv, WaitData PROVE BootInv'
  OBVIOUS
<1>1. stage = "waitdata" /\ UNCHANGED <<sd, host, card>>
  BY DEF WaitData
<1>2. BootTypes' /\ sd'.init = FALSE /\ AnswerFresh' /\ NormalFrequency' = NormalFrequency
  BY Zenon, <1>1, Between DEF BootTypes, AnswerFresh, NormalFrequency
<1>3. CASE SdInitFails
  BY Zenon, <1>2, <1>3, FailsInv
<1>4. CASE GoTo("scr")
  <2>1. Reached("scr")
    BY <1>1, <1>2, <1>4, Between DEF Reached, GoTo, WidthInv, Before, Tran, Main, Named
  <2> QED
    BY <2>1, ReachedInv DEF Main, Tran
<1> QED
  BY Zenon, <1>3, <1>4 DEF WaitData

\* the width of the bus,
LEMMA SetWidthInv == BootInv /\ SetWidth => BootInv'
<1> SUFFICES ASSUME BootInv, SetWidth PROVE BootInv'
  OBVIOUS
<1>1. stage = "dwidth" /\ stage' = "blocklen" /\ step' = "call" /\ UNCHANGED <<sd, card>>
  BY DEF SetWidth, GoTo
<1>2. HostAre(host', host.ver, host.clock, 4, host.inhibit, host.int, host.pending,
              host.answer, host.fresh, host.data)
  BY Zenon, Between, <1>1, HostWidth DEF BootTypes, SetWidth
<1>3. /\ BootTypes' /\ sd'.init = FALSE /\ AnswerFresh' /\ NormalFrequency' = NormalFrequency
      /\ NoData'
  BY Zenon, <1>1, <1>2, Between
     DEF BootTypes, AnswerFresh, NormalFrequency, HostAre, NoData, BootInv, MainInv
<1>4. Reached("blocklen")
  BY <1>1, <1>2, <1>3, Between DEF Reached, WidthInv, Before, Tran, Main, Named, HostAre
<1> QED
  BY <1>4, ReachedInv DEF Main, Tran

\* The interrupts a wait leaves were there before.
LEMMA LeftIn ==
  ASSUME NEW m, NEW r
  PROVE  /\ Left(m, r) \subseteq host.int
         /\ r = "OK" => m \notin Left(m, r)
         /\ r # "OK" => Left(m, r) = {}
  BY DEF Left

\* the read of the SCR,
LEMMA ReadScrInv == BootInv /\ ReadScr => BootInv'
<1> SUFFICES ASSUME BootInv, ReadScr PROVE BootInv'
  OBVIOUS
<1>1. stage = "readscr" /\ card' = card
  BY DEF ReadScr
<1>2. /\ BootTypes /\ sd.init = FALSE /\ AnswerFresh /\ host.pending = "none" /\ WidthInv
      /\ card.state = "tran" /\ sd.rca /\ (sd.type = "2_HC") = card.hc
      /\ host.clock = NormalFrequency /\ host \in HostType
  BY Zenon, <1>1, Between DEF Before, Tran, BootTypes
<1>3. PICK r \in Results("READ_RDY") :
         \/ /\ r = "OK"
            /\ host' = [host EXCEPT !.int = Left("READ_RDY", r), !.data = "read"]
            /\ sd' = [sd EXCEPT !.bus4 = card.bus4]
            /\ GoTo(IF card.bus4 THEN "width" ELSE "blocklen") /\ UNCHANGED <<old, tries>>
         \/ /\ host' = [host EXCEPT !.int = Left("READ_RDY", r)] /\ SdInitFails /\ UNCHANGED sd
  BY Zenon DEF ReadScr
<1>4. PICK i \in SUBSET Interrupts : i = Left("READ_RDY", r)
  BY <1>2, LeftIn DEF HostType
<1>5. i \subseteq host.int /\ (r = "OK" => "READ_RDY" \notin i)
  BY <1>4, LeftIn
<1>6. CASE host' = [host EXCEPT !.int = i] /\ SdInitFails /\ UNCHANGED sd
  <2>1. HostAre(host', host.ver, host.clock, host.width, host.inhibit, i, host.pending,
                host.answer, host.fresh, host.data)
    BY Zenon, <1>2, <1>6, HostInt
  <2>2. BootTypes' /\ sd'.init = FALSE /\ AnswerFresh'
    BY <1>1, <1>2, <1>5, <1>6, <2>1 DEF BootTypes, AnswerFresh, HostAre
  <2> QED
    BY Zenon, <1>6, <2>2, FailsInv
<1>7. CASE /\ r = "OK" /\ host' = [host EXCEPT !.int = i, !.data = "read"]
           /\ sd' = [sd EXCEPT !.bus4 = card.bus4]
           /\ GoTo(IF card.bus4 THEN "width" ELSE "blocklen")
  <2>1. HostAre(host', host.ver, host.clock, host.width, host.inhibit, i, host.pending,
                host.answer, host.fresh, "read")
    BY Zenon, <1>2, <1>7, HostIntData
  <2>2. SdAre(sd', sd.type, sd.rca, sd.ocr, sd.app, card.bus4, sd.init)
    <3>1. card.bus4 \in BOOLEAN /\ sd \in SdType
      BY <1>2 DEF BootTypes, CardType
    <3> QED
      BY Zenon, <1>7, <3>1, SdParts
  <2>3. BootTypes' /\ sd'.init = FALSE
    BY Zenon, <1>1, <1>2, <2>1, <2>2 DEF BootTypes, HostAre, SdAre
  <2>4. AnswerFresh' /\ NoData' /\ host'.clock = NormalFrequency'
    BY <1>2, <1>5, <1>7, <2>1 DEF AnswerFresh, NoData, NormalFrequency, HostAre
  <2>5. PICK n \in {"width", "blocklen"} : GoTo(n)
    BY <1>7
  <2>6. Reached(n)
    BY <1>1, <1>2, <2>1, <2>2, <2>3, <2>4, <2>5
       DEF Reached, GoTo, WidthInv, Before, Tran, Main, HostAre, SdAre
  <2> QED
    BY <2>6, ReachedInv DEF Main, Tran
<1> QED
  BY Zenon, <1>3, <1>4, <1>6, <1>7

\* and the end of sdInit keep the invariant.
LEMMA FinishInv == BootInv /\ Finish => BootInv'
<1> SUFFICES ASSUME BootInv, Finish PROVE BootInv'
  OBVIOUS
<1>1. stage = "finish" /\ stage' = "assert" /\ step' = "call" /\ UNCHANGED <<host, card>>
  BY DEF Finish, GoTo
<1>2. /\ BootTypes /\ AnswerFresh /\ host.pending = "none" /\ WidthInv /\ NoData
      /\ card.state = "tran" /\ (sd.type = "2_HC") = card.hc /\ host.clock = NormalFrequency
  BY Zenon, <1>1, Between DEF Before, Tran, BootInv, MainInv
<1>3. SdAre(sd', sd.type, sd.rca, sd.ocr, sd.app, sd.bus4, TRUE)
  BY Zenon, <1>2, SdParts DEF BootTypes, Finish
<1>4. BootTypes' /\ AnswerFresh' /\ NoData' /\ host'.clock = NormalFrequency'
  BY <1>1, <1>2, <1>3 DEF BootTypes, SdAre, AnswerFresh, NoData, NormalFrequency
<1>5. OneCommand'
  BY <1>1, <1>4 DEF OneCommand
<1>6. RestInv'
  BY <1>1, <1>2, <1>3, <1>4 DEF RestInv, Rest, WidthInv, SdAre
<1> QED
  BY <1>1, <1>4, <1>5, <1>6, StagesApart DEF BootInv, EarlyInv, MainInv

-----------------------------------------------------------------------------
(* sd_init after sdInit.                                                    *)

\* What the invariant says there.
LEMMA Resting ==
  ASSUME BootInv, stage \in Rest
  PROVE  BootTypes /\ host \in HostType /\ AnswerFresh /\ OneCommand /\ (sd.init => RestInv)
  BY DEF BootInv, BootTypes, OneCommand

\* Steps there keep the invariant once they keep what is said of a card whose
\* initialisation succeeded.
LEMMA RestKept ==
  ASSUME BootTypes', stage' \in Rest, OneCommand', sd'.init => RestInv'
  PROVE  BootInv'
  BY StagesApart DEF BootInv, EarlyInv, MainInv, RestInv

\* The assertion of sd_start,
LEMMA StartMbrInv == BootInv /\ StartMbr => BootInv'
<1> SUFFICES ASSUME BootInv, StartMbr PROVE BootInv'
  OBVIOUS
<1>1. stage = "assert" /\ step' = "call" /\ UNCHANGED <<sd, host, card, mbr, dropped>>
  BY DEF StartMbr, GoTo
<1>2. stage' \in {"mbr", "panic"}
  BY DEF StartMbr, GoTo
<1>3. BootTypes' /\ AnswerFresh' /\ step = "call"
  BY <1>1, Resting DEF BootTypes, AnswerFresh, Rest, OneCommand, Sending, CommandAt
<1>4. OneCommand'
  BY <1>1, <1>3 DEF OneCommand
<1>5. sd'.init => RestInv'
  BY <1>1, <1>2, <1>3 DEF BootInv, RestInv, Rest, NoData, NormalFrequency
<1> QED
  BY <1>2, <1>3, <1>4, <1>5, RestKept DEF Rest

\* the wait for the MBR,
LEMMA MbrWaitInv == BootInv /\ MbrWait => BootInv'
<1> SUFFICES ASSUME BootInv, MbrWait PROVE BootInv'
  OBVIOUS
<1>1. stage = "mbrwait" /\ stage' = "mbrdone" /\ step' = "call" /\ UNCHANGED <<sd, card>>
  BY DEF MbrWait, GoTo
<1>2. BootTypes /\ host \in HostType /\ AnswerFresh /\ OneCommand /\ (sd.init => RestInv)
  BY <1>1, Resting DEF Rest
<1>3. PICK r \in Results(MbrMask) :
         /\ host' = [host EXCEPT !.int = Left(MbrMask, r),
                                 !.data = IF @ = "ready" THEN "read" ELSE @]
         /\ dropped' = (r # "OK")
         /\ mbr' = IF host.data = "ready" THEN "good" ELSE "garbage"
  BY Zenon DEF MbrWait
<1>4. PICK i \in SUBSET Interrupts, d \in {"none", "coming", "ready", "read"} :
         /\ i = Left(MbrMask, r) /\ i \subseteq host.int
         /\ d = IF host.data = "ready" THEN "read" ELSE host.data
  BY <1>2, LeftIn DEF HostType
<1>5. HostAre(host', host.ver, host.clock, host.width, host.inhibit, i, host.pending,
              host.answer, host.fresh, d)
  BY Zenon, <1>2, <1>3, <1>4, HostIntData
<1>6. r = "OK" => "READ_RDY" \in host.int
  BY DEF Results, MbrMask
<1>7. BootTypes' /\ AnswerFresh'
  BY <1>1, <1>2, <1>4, <1>5 DEF BootTypes, AnswerFresh, HostAre
<1>8. OneCommand'
  BY <1>1, <1>7 DEF OneCommand
<1>9. step = "call"
  BY <1>1, <1>2 DEF OneCommand, Sending, CommandAt
<1>10. sd.init => dropped' \/ mbr' = "good"
  BY Zenon, <1>1, <1>2, <1>3, <1>6 DEF RestInv
<1>11. sd'.init => RestInv'
  BY <1>1, <1>2, <1>5, <1>9, <1>10 DEF RestInv, Rest, HostAre, NormalFrequency
<1> QED
  BY <1>1, <1>7, <1>8, <1>11, RestKept DEF Rest

\* and for the end of its transfer keep the invariant.
LEMMA MbrDoneInv == BootInv /\ MbrDone => BootInv'
<1> SUFFICES ASSUME BootInv, MbrDone PROVE BootInv'
  OBVIOUS
<1>1. stage = "mbrdone" /\ stage' = "up" /\ step' = "call" /\ UNCHANGED <<sd, card, mbr, dropped>>
  BY DEF MbrDone, GoTo
<1>2. BootTypes /\ host \in HostType /\ AnswerFresh /\ OneCommand /\ (sd.init => RestInv)
  BY <1>1, Resting DEF Rest
<1>3. PICK r : host' = [host EXCEPT !.int = Left("DATA_DONE", r)]
  BY Zenon DEF MbrDone
<1>4. PICK i \in SUBSET Interrupts : i = Left("DATA_DONE", r) /\ i \subseteq host.int
  BY <1>2, LeftIn DEF HostType
<1>5. HostAre(host', host.ver, host.clock, host.width, host.inhibit, i, host.pending,
              host.answer, host.fresh, host.data)
  BY Zenon, <1>2, <1>3, <1>4, HostInt
<1>6. BootTypes' /\ AnswerFresh'
  BY <1>1, <1>2, <1>4, <1>5 DEF BootTypes, AnswerFresh, HostAre
<1>7. OneCommand'
  BY <1>1, <1>6 DEF OneCommand
<1>8. step = "call"
  BY <1>1, <1>2 DEF OneCommand, Sending, CommandAt
<1>9. sd'.init => RestInv'
  BY <1>1, <1>2, <1>5, <1>8 DEF RestInv, Rest, HostAre, NormalFrequency
<1> QED
  BY <1>1, <1>6, <1>7, <1>9, RestKept DEF Rest

-----------------------------------------------------------------------------
(* The card and the controller.                                             *)

\* The stage stays, and so do the command and what has been seen of it.
LEMMA SameStage ==
  ASSUME UNCHANGED <<stage, step, old>>
  PROVE  CommandAt' = CommandAt /\ (Sending' <=> Sending)
  BY DEF CommandAt, Sending

\* Data that arrives, and the end of its transfer.
DataMoves(i, d) ==
    /\ HostAre(host', host.ver, host.clock, host.width, host.inhibit, i, host.pending,
               host.answer, host.fresh, d)
    /\ UNCHANGED <<stage, step, old, tries, sd, card, mbr, dropped>>
    /\ "CMD_DONE" \in i <=> "CMD_DONE" \in host.int
    /\ "READ_RDY" \in i => "READ_RDY" \in host.int \/ d = "ready"
    /\ NoData => host.data = "read" /\ d = "none"
    /\ host.data = "ready" => d = "ready"

\* Such a move of the data keeps the invariant.
LEMMA DataMovesInv ==
  ASSUME BootInv, NEW i, NEW d, DataMoves(i, d)
  PROVE  BootInv'
<1>1. /\ BootTypes' /\ stage' = stage /\ step' = step /\ sd' = sd /\ card' = card /\ old' = old
      /\ mbr' = mbr /\ dropped' = dropped
  BY DEF BootInv, BootTypes, DataMoves, HostAre
<1>2. /\ host'.ver = host.ver /\ host'.clock = host.clock /\ host'.width = host.width
      /\ host'.pending = host.pending /\ host'.answer = host.answer
      /\ host'.fresh = host.fresh /\ ("CMD_DONE" \in host'.int <=> "CMD_DONE" \in host.int)
      /\ NormalFrequency' = NormalFrequency
  BY DEF DataMoves, HostAre, NormalFrequency
<1>3. (Came' <=> Came) /\ (Ahead' <=> Ahead) /\ (NoData => NoData')
      /\ (("READ_RDY" \in host.int => host.data = "ready") =>
            ("READ_RDY" \in host'.int => host'.data = "ready"))
  BY <1>1, <1>2 DEF Came, Ahead, DataMoves, NoData, HostAre
<1>4. OneCommand'
  BY <1>1, <1>2, SameStage DEF BootInv, OneCommand, AnswerFresh
<1>5. EarlyInv'
  BY <1>1, <1>2, <1>3 DEF BootInv, EarlyInv, Settled
<1>6. stage \in Main => StateInv' /\ WidthInv'
  BY <1>1, <1>2, <1>3 DEF BootInv, MainInv, StateInv, WidthInv
<1>7. MainInv'
  BY <1>1, <1>2, <1>3, <1>6 DEF BootInv, MainInv, Settled
<1>8. RestInv'
  BY <1>1, <1>2, <1>3 DEF BootInv, RestInv
<1> QED
  BY <1>1, <1>4, <1>5, <1>7, <1>8 DEF BootInv

\* The data of ACMD51 or of CMD17 arriving in the buffer keeps the invariant.
LEMMA DataArrivesInv == BootInv /\ DataArrives => BootInv'
<1> SUFFICES ASSUME BootInv, DataArrives PROVE BootInv'
  OBVIOUS
<1>1. host \in HostType /\ host.int \in SUBSET Interrupts
  BY DEF BootInv, BootTypes, HostType
<1>2. CASE host' = [host EXCEPT !.int = @ \cup {"READ_RDY"}, !.data = "ready"]
  <2>1. PICK i \in SUBSET Interrupts : i = host.int \cup {"READ_RDY"}
    BY Zenon, <1>1 DEF Interrupts
  <2>2. HostAre(host', host.ver, host.clock, host.width, host.inhibit, i, host.pending,
                host.answer, host.fresh, "ready")
    BY Zenon, <1>1, <1>2, <2>1, HostIntData
  <2>3. DataMoves(i, "ready")
    BY <2>1, <2>2 DEF DataArrives, DataMoves, NoData
  <2> QED
    BY Zenon, <2>3, DataMovesInv
<1>3. CASE host' = [host EXCEPT !.int = @ \cup {"ERROR"}, !.data = "none"]
  <2>1. PICK i \in SUBSET Interrupts : i = host.int \cup {"ERROR"}
    BY Zenon, <1>1 DEF Interrupts
  <2>2. HostAre(host', host.ver, host.clock, host.width, host.inhibit, i, host.pending,
                host.answer, host.fresh, "none")
    BY Zenon, <1>1, <1>3, <2>1, HostIntData
  <2>3. DataMoves(i, "none")
    BY <2>1, <2>2 DEF DataArrives, DataMoves, NoData
  <2> QED
    BY Zenon, <2>3, DataMovesInv
<1> QED
  BY Zenon, <1>2, <1>3 DEF DataArrives

\* The end of a data transfer keeps the invariant.
LEMMA DataEndsInv == BootInv /\ DataEnds => BootInv'
<1> SUFFICES ASSUME BootInv, DataEnds PROVE BootInv'
  OBVIOUS
<1>1. host \in HostType /\ host.int \in SUBSET Interrupts
  BY DEF BootInv, BootTypes, HostType
<1>2. PICK i \in SUBSET Interrupts : i = host.int \cup {"DATA_DONE"}
  BY Zenon, <1>1 DEF Interrupts
<1>3. HostAre(host', host.ver, host.clock, host.width, host.inhibit, i, host.pending,
              host.answer, host.fresh, "none")
  BY Zenon, <1>1, <1>2, HostIntData DEF DataEnds
<1>4. DataMoves(i, "none")
  BY <1>2, <1>3 DEF DataEnds, DataMoves, NoData
<1> QED
  BY Zenon, <1>4, DataMovesInv

-----------------------------------------------------------------------------
(* Sending a command.                                                       *)

LEMMA IssueInv ==
  ASSUME BootInv, NEW c \in Commands, Issue(c), Sending, step \in {"call", "apped"},
         UNCHANGED <<stage, old, sd, card, mbr, dropped>>,
         \/ step' = "appsent" /\ c = "APP_CMD" /\ NeedsApp(CommandAt)
         \/ step' = "sent" /\ c = CommandAt,
         step = "apped" => NeedsApp(CommandAt)
  PROVE  BootInv'
<1>1. host \in HostType
  BY DEF BootInv, BootTypes
<1>2. HostAre(host', host.ver, host.clock, host.width, TRUE, {}, c, host.answer, FALSE, host.data)
  BY Zenon, <1>1, HostIssue DEF Issue
<1>3. BootTypes'
  BY <1>2 DEF BootInv, BootTypes, HostAre
<1>4. CommandAt' = CommandAt /\ (Sending' <=> Sending)
  BY DEF CommandAt, Sending
<1>5. OneCommand'
  BY <1>2, <1>4 DEF BootInv, OneCommand, AnswerFresh, HostAre
<1>6. host'.int = {} /\ Ahead' /\ ~Came' /\ (NoData => NoData')
  BY <1>2 DEF HostAre, Ahead, Came, NoData, Commands
<1>7. EarlyInv'
  BY <1>2, <1>6, SendingIs, CommandIs DEF BootInv, EarlyInv, HostAre, Early, Stages
<1>8. stage \in Main => StateInv' /\ WidthInv'
  BY <1>2, <1>6 DEF BootInv, MainInv, StateInv, WidthInv, Ahead, HostAre
<1>9. MainInv'
  BY <1>2, <1>6, <1>8 DEF BootInv, MainInv, Settled, HostAre, NormalFrequency
<1>10. sd.init => stage = "mbr" /\ CommandAt = "READ_SINGLE" /\ step = "call"
  BY CommandIs, SendingIs DEF BootInv, RestInv, Rest, Stages, NeedsApp
<1>11. RestInv'
  BY <1>2, <1>6, <1>10 DEF BootInv, RestInv, Rest, HostAre, NormalFrequency, NeedsApp
<1> QED
  BY <1>3, <1>5, <1>7, <1>9, <1>11 DEF BootInv

\* APP_CMD,
LEMMA SendAppInv == BootInv /\ SendApp => BootInv'
<1> SUFFICES ASSUME BootInv, SendApp PROVE BootInv'
  OBVIOUS
<1>1. "APP_CMD" \in Commands
  BY DEF Commands
<1> QED
  BY <1>1, IssueInv DEF SendApp

\* and the command of a stage are sent in order.
LEMMA SendInv == BootInv /\ Send => BootInv'
<1> SUFFICES ASSUME BootInv, Send PROVE BootInv'
  OBVIOUS
<1>1. CommandAt \in Commands
  BY CommandTyped, SendingIs DEF Send
<1> QED
  BY <1>1, IssueInv DEF Send

\* A wait is over, and what it saw is cleared.
Looked(i) ==
    /\ HostAre(host', host.ver, host.clock, host.width, host.inhibit, i, host.pending,
               host.answer, host.fresh, host.data)
    /\ i \subseteq host.int /\ UNCHANGED <<card, mbr, dropped>>
    /\ sd' \in SdType /\ sd'.type = sd.type /\ sd'.init = sd.init
\* What a look at an interrupt that is then cleared keeps.
LEMMA LookedTyped ==
  ASSUME BootInv, NEW i, Looked(i)
  PROVE  /\ BootTypes' /\ AnswerFresh' /\ NormalFrequency' = NormalFrequency
         /\ NoData => NoData'
  BY DEF BootInv, BootTypes, OneCommand, AnswerFresh, Looked, HostAre,
         NormalFrequency, NoData

\* The end of a command that failed keeps the invariant.
LEMMA AfterFailure ==
  ASSUME BootInv, NEW i, Looked(i), NEW r, r # "OK", AfterCommand(r), Sending,
         sd'.ocr = sd.ocr \/ (stage = "opcond" /\ r # "TIMEOUT")
  PROVE  BootInv'
<1>1. BootTypes' /\ AnswerFresh' /\ NormalFrequency' = NormalFrequency
  BY LookedTyped
<1>2. CASE SdInitFails /\ stage \notin Rest
  BY Zenon, <1>1, <1>2, FailsInv, NotYet DEF Looked
<1>3. CASE stage = "mbr"
  <2>1. stage' = "panic" /\ step' = "call"
    BY <1>3 DEF AfterCommand, GoTo
  <2>2. OneCommand'
    BY <1>1, <2>1 DEF OneCommand
  <2>3. sd'.init => RestInv'
    BY <1>1, <1>3, <2>1 DEF BootInv, RestInv, Rest, Looked, HostAre
  <2> QED
    BY <1>1, <2>1, <2>2, <2>3, RestKept DEF Rest
<1>4. CASE stage' \in {"reset", "opcond"} /\ step' = "call" /\ stage \in {"ifcond", "opcond"}
           /\ sd'.ocr = sd.ocr
  <2>1. OneCommand'
    BY <1>1, <1>4 DEF OneCommand
  <2>2. EarlyInv'
    BY <1>4 DEF BootInv, EarlyInv, Early, Looked, HostAre, Came
  <2>3. sd'.init = FALSE
    BY <1>4, NotYet DEF Rest, Looked
  <2> QED
    BY <1>1, <1>4, <2>1, <2>2, <2>3
       DEF BootInv, MainInv, RestInv, Early, Main, Named, Tran
<1>5. CASE stage = "ifcond"
  BY <1>2, <1>4, <1>5 DEF AfterCommand, AfterIfCond, GoTo, Rest
<1>6. CASE stage = "opcond"
  <2>1. r = "TIMEOUT" => ~OpCondReady(sd')
    BY <1>6 DEF BootInv, EarlyInv, Early, OpCondReady
  <2> QED
    BY <1>2, <1>4, <1>6, <2>1 DEF AfterCommand, AfterOpCond, GoTo, Rest
<1>7. CASE stage \notin {"ifcond", "opcond", "mbr"}
  BY <1>2, <1>7, SendingIs DEF AfterCommand, Stages, Rest
<1> QED
  BY <1>3, <1>5, <1>6, <1>7

\* The state after the wait for APP_CMD, or without one.
LEMMA AppedInv ==
  ASSUME BootInv, NEW i, Looked(i), UNCHANGED <<stage, old>>, Sending, NeedsApp(CommandAt),
         step \in {"call", "appsent"}, step' = "apped", sd'.ocr = sd.ocr,
         sd'.rca = sd.rca, sd.rca => host.pending = "none"
  PROVE  BootInv'
<1>1. BootTypes' /\ AnswerFresh' /\ NormalFrequency' = NormalFrequency /\ (NoData => NoData')
  BY LookedTyped
<1>2. stage \in {"opcond", "scr", "width"} /\ sd.init = FALSE
  BY SendingIs, CommandIs, NotYet DEF Stages, NeedsApp, Rest
<1>3. CommandAt' = CommandAt /\ (Sending' <=> Sending)
  BY DEF CommandAt, Sending
<1>4. OneCommand'
  BY <1>1, <1>3 DEF OneCommand
<1>5. EarlyInv'
  BY <1>2 DEF BootInv, EarlyInv, Came, Looked, HostAre
<1>6. stage \in Main => StateInv' /\ WidthInv'
  BY <1>2 DEF BootInv, MainInv, StateInv, WidthInv, Ahead, Came, Looked, HostAre, Main,
              Named, Tran
<1>7. MainInv'
  BY <1>1, <1>2, <1>6 DEF BootInv, MainInv, Looked, HostAre
<1>8. RestInv' /\ stage' \in Early \cup Main \cup Rest
  BY <1>2 DEF BootInv, RestInv, Looked
<1> QED
  BY <1>1, <1>4, <1>5, <1>7, <1>8 DEF BootInv

\* A command line that stays busy keeps the invariant,
LEMMA BusyInv == BootInv /\ Busy => BootInv'
<1> SUFFICES ASSUME BootInv, Busy PROVE BootInv'
  OBVIOUS
<1>1. Looked(host.int)
  BY DEF BootInv, BootTypes, Busy, Looked, HostAre
<1>2. sd' = sd /\ Sending /\ "BUSY" # "OK"
  BY DEF Busy
<1>3. CASE AfterCommand("BUSY")
  BY <1>1, <1>2, <1>3, AfterFailure
<1>4. CASE /\ NeedsApp(CommandAt) /\ step = "call" /\ ~sd.rca
           /\ step' = "apped" /\ UNCHANGED <<stage, old, tries>>
  BY <1>1, <1>2, <1>4, AppedInv
<1> QED
  BY Zenon, <1>3, <1>4 DEF Busy

\* A wait for CMD_DONE.
LEMMA Waits ==
  ASSUME BootInv, NEW r \in Results("CMD_DONE"),
         host' = [host EXCEPT !.int = Left("CMD_DONE", r)],
         UNCHANGED <<card, mbr, dropped>>, sd' \in SdType, sd'.type = sd.type,
         sd'.init = sd.init
  PROVE  /\ \E i : Looked(i)
         /\ r = "OK" => "CMD_DONE" \in host.int /\ host.pending = "none"
         /\ r \in {"OK", "TIMEOUT", "ERROR"}
<1>1. host \in HostType /\ AnswerFresh
  BY DEF BootInv, BootTypes, OneCommand
<1>2. PICK i \in SUBSET Interrupts : i = Left("CMD_DONE", r) /\ i \subseteq host.int
  BY <1>1, LeftIn DEF HostType
<1>3. HostAre(host', host.ver, host.clock, host.width, host.inhibit, i, host.pending,
              host.answer, host.fresh, host.data)
  BY Zenon, <1>1, <1>2, HostInt
<1>4. Looked(i)
  BY Zenon, <1>2, <1>3 DEF Looked
<1> QED
  BY <1>1, <1>4 DEF Results, AnswerFresh

\* What an answer leaves in sdCard.
LEMMA TakenIs ==
  ASSUME BootInv, NEW c \in Commands
  PROVE  /\ Taken(c, host.answer) \in SdType
         /\ Taken(c, host.answer).type = sd.type /\ Taken(c, host.answer).init = sd.init
         /\ c \notin {"OP_COND_HC", "OP_COND_SC"} => Taken(c, host.answer).ocr = sd.ocr
         /\ c \in {"OP_COND_HC", "OP_COND_SC"} => Taken(c, host.answer).ocr = host.answer
         /\ c # "SEND_REL_ADDR" => Taken(c, host.answer).rca = sd.rca
         /\ c = "SEND_REL_ADDR" => Taken(c, host.answer).rca
         /\ c = "SET_BUS_WIDTH" => Taken(c, host.answer).app = host.answer.app
<1>1. PICK a \in Answers, b \in BOOLEAN : a = host.answer /\ b = a.app /\ sd \in SdType
  BY DEF BootInv, BootTypes, HostType, Answers
<1>2. /\ SdAre([sd EXCEPT !.app = b], sd.type, sd.rca, sd.ocr, b, sd.bus4, sd.init)
      /\ SdAre([sd EXCEPT !.app = FALSE], sd.type, sd.rca, sd.ocr, FALSE, sd.bus4, sd.init)
      /\ SdAre([sd EXCEPT !.ocr = a, !.app = FALSE], sd.type, sd.rca, a, FALSE, sd.bus4, sd.init)
      /\ SdAre([sd EXCEPT !.rca = TRUE, !.app = b], sd.type, TRUE, sd.ocr, b, sd.bus4, sd.init)
  BY Zenon, <1>1, SdTaken
<1>3. CASE c = "GO_IDLE_STATE"
  <2>1. Taken(c, a) = sd
    BY <1>3 DEF Taken
  <2> QED
    BY <1>1, <1>3, <2>1
<1>4. CASE c \in {"OP_COND_HC", "OP_COND_SC"}
  <2>1. Taken(c, a) = [sd EXCEPT !.ocr = a, !.app = FALSE]
    BY <1>4 DEF Taken
  <2> QED
    BY Zenon, <1>1, <1>2, <1>4, <2>1 DEF SdAre
<1>5. CASE c \in {"ALL_SEND_CID", "SEND_CSD", "SEND_IF_COND"}
  <2>1. Taken(c, a) = [sd EXCEPT !.app = FALSE]
    BY <1>5 DEF Taken
  <2> QED
    BY Zenon, <1>1, <1>2, <1>5, <2>1 DEF SdAre
<1>6. CASE c = "SEND_REL_ADDR"
  <2>1. Taken(c, a) = [sd EXCEPT !.rca = TRUE, !.app = b]
    BY <1>1, <1>6 DEF Taken
  <2> QED
    BY Zenon, <1>1, <1>2, <1>6, <2>1 DEF SdAre
<1>7. CASE c \in {"APP_CMD", "CARD_SELECT", "SEND_SCR", "SET_BUS_WIDTH", "SET_BLOCKLEN",
                  "READ_SINGLE"}
  <2>1. Taken(c, a) = [sd EXCEPT !.app = b]
    BY <1>1, <1>7 DEF Taken
  <2> QED
    BY Zenon, <1>1, <1>2, <1>7, <2>1 DEF SdAre
<1> QED
  BY Zenon, <1>3, <1>4, <1>5, <1>6, <1>7 DEF Commands

\* the answer to APP_CMD,
LEMMA AppDoneInv == BootInv /\ AppDone => BootInv'
<1> SUFFICES ASSUME BootInv, AppDone PROVE BootInv'
  OBVIOUS
<1>1. step = "appsent" /\ Sending /\ NeedsApp(CommandAt) /\ UNCHANGED <<card, mbr, dropped>>
  BY DEF AppDone, BootInv, OneCommand
<1>2. PICK r, b :
         /\ r \in Results("CMD_DONE")
         /\ host' = [host EXCEPT !.int = Left("CMD_DONE", r)]
         /\ sd' = IF r = "OK" /\ sd.rca THEN Taken("APP_CMD", host.answer) ELSE sd
         /\ b = (IF r # "OK" THEN r ELSE IF host.answer.err THEN "STATUS"
                 ELSE IF ~host.answer.app THEN "ERROR" ELSE "OK")
         /\ IF ~sd.rca \/ b = "OK" THEN step' = "apped" /\ UNCHANGED <<stage, old, tries>>
            ELSE AfterCommand(b)
  BY Zenon DEF AppDone
<1>3. /\ sd' \in SdType /\ sd'.type = sd.type /\ sd'.init = sd.init /\ sd'.ocr = sd.ocr
      /\ sd'.rca = sd.rca
  <2>1. "APP_CMD" \in Commands /\ sd \in SdType
    BY DEF Commands, BootInv, BootTypes
  <2> QED
    BY <1>2, <2>1, TakenIs
<1>4. PICK i : Looked(i)
  BY Zenon, <1>1, <1>2, <1>3, Waits
<1>5. r = "OK" => host.pending = "none"
  BY Zenon, <1>1, <1>2, <1>3, Waits
<1>6. CASE step' = "apped" /\ UNCHANGED <<stage, old, tries>> /\ (~sd.rca \/ b = "OK")
  <2>1. sd.rca => host.pending = "none"
    BY <1>2, <1>5, <1>6
  <2>2. UNCHANGED <<stage, old>> /\ step \in {"call", "appsent"} /\ step' = "apped"
    BY <1>1, <1>6
  <2> QED
    BY Zenon, <1>1, <1>3, <1>4, <2>1, <2>2, AppedInv
<1>7. CASE AfterCommand(b) /\ b # "OK"
  BY Zenon, <1>1, <1>3, <1>4, <1>7, AfterFailure
<1> QED
  BY Zenon, <1>2, <1>6, <1>7

\* The end of a command that went well, in the stages of Main: the answer has
\* come, so the card is in the state the next stage needs.
LEMMA AfterMain ==
  ASSUME BootInv, NEW i, Looked(i), stage \in Main, Came, AfterCommand("OK"), Sending,
         sd'.rca = sd.rca \/ sd'.rca, stage = "rca" => sd'.rca,
         stage = "width" => host.answer.app
  PROVE  BootInv'
<1>1. BootTypes' /\ AnswerFresh' /\ NormalFrequency' = NormalFrequency /\ (NoData => NoData')
  BY LookedTyped
<1>2. stage \in {"cid", "rca", "csd", "select", "scr", "width", "blocklen"}
  BY SendingIs DEF Stages, Main, Named, Tran
<1>3. PICK n : n = NextStage /\ stage' = n /\ step' = "call"
  BY <1>2 DEF AfterCommand, GoTo
<1>4. /\ stage = "cid" => n = "rca"
      /\ stage = "rca" => n = "csd"
      /\ stage = "csd" => n = "format"
      /\ stage = "select" => n = "waitdata"
      /\ stage = "scr" => n = "readscr"
      /\ stage = "width" => n = "dwidth"
      /\ stage = "blocklen" => n = "finish"
  BY Zenon, <1>3 DEF NextStage
<1>5. sd'.init = FALSE /\ host.pending = "none"
  BY <1>2, NotYet DEF Rest, Looked, BootInv, OneCommand, AnswerFresh, Came
<1>6. /\ card.state = After(stage) /\ WidthInv /\ (sd.type = "2_HC") = card.hc
      /\ stage \notin {"cid", "rca"} => sd.rca
      /\ stage \in Tran \cup {"select"} => host.clock = NormalFrequency
      /\ stage \in {"width", "blocklen"} => NoData
  BY <1>2 DEF BootInv, MainInv, StateInv
<1>7. card.state = Before(n) /\ n \in Main \ {"voltage", "cid", "select"}
  BY <1>2, <1>4, <1>6 DEF Before, After, Main, Named, Tran
<1>8. /\ n # "rca" => sd'.rca
      /\ n \in Tran => host'.clock = NormalFrequency'
      /\ n \in {"width", "dwidth", "blocklen", "finish"} => NoData'
  BY <1>1, <1>2, <1>4, <1>6 DEF Tran, Looked, HostAre
<1>9. /\ n # "finish" => host.width = 1
      /\ n \notin {"dwidth", "finish"} => card.width = 1
      /\ n = "dwidth" => card.width = 4
      /\ n = "finish" => host.width = card.width
      /\ n \notin {"width", "blocklen"}
  BY <1>2, <1>4, <1>6 DEF WidthInv, Main, Named, Tran, Came
<1>10. /\ host'.pending = host.pending /\ host'.width = host.width /\ card' = card
       /\ sd'.type = sd.type
  BY DEF Looked, HostAre
<1>11. Reached(n)
  BY <1>1, <1>3, <1>5, <1>6, <1>7, <1>8, <1>9, <1>10 DEF Reached
<1> QED
  BY <1>7, <1>11, ReachedInv

\* The same up to ACMD41: it goes on when the card is ready and has told what it is.
LEMMA AfterEarly ==
  ASSUME BootInv, NEW i, Looked(i), stage \in {"idle", "ifcond", "opcond"}, Came,
         AfterCommand("OK"), UNCHANGED <<old>> \/ stage # "opcond",
         sd'.ocr = IF stage = "opcond" THEN host.answer ELSE sd.ocr
  PROVE  BootInv'
<1>1. BootTypes' /\ AnswerFresh'
  BY LookedTyped
<1>2. sd'.init = FALSE /\ host.pending = "none"
  BY NotYet DEF Rest, Looked, BootInv, OneCommand, AnswerFresh, Came
<1>3. /\ card.width = 1 /\ host.width = 1 /\ ~sd.ocr.complete
      /\ stage = "opcond" /\ host.answer.complete => card.state = "ready" /\ Settled(host.answer)
  BY DEF BootInv, EarlyInv, Early
<1>4. CASE SdInitFails
  BY Zenon, <1>1, <1>2, <1>4, FailsInv
<1>5. CASE stage' \in {"ifcond", "opcond"} /\ step' = "call" /\ ~sd'.ocr.complete
  <2>1. OneCommand'
    BY <1>1, <1>5 DEF OneCommand
  <2>2. EarlyInv'
    BY <1>2, <1>3, <1>5 DEF EarlyInv, Looked, HostAre, Came, Early
  <2> QED
    BY <1>1, <1>2, <1>5, <2>1, <2>2
       DEF BootInv, MainInv, RestInv, Early, Main, Named, Tran
<1>6. CASE stage = "opcond" /\ GoTo("voltage") /\ OpCondReady(sd')
  <2>1. card.state = "ready" /\ Settled(sd.ocr)'
    <3>1. host.answer.complete /\ sd'.ocr = host.answer /\ old' = old /\ card' = card
      BY <1>6 DEF OpCondReady, Looked
    <3> QED
      BY <1>3, <1>6, <3>1 DEF Settled
  <2>2. Reached("voltage")
    BY <1>1, <1>2, <1>3, <1>6, <2>1 DEF Reached, GoTo, Before, Looked, HostAre, Tran
  <2> QED
    BY <2>2, ReachedInv DEF Main, Named
<1>7. CASE stage = "idle"
  <2>1. NextStage \in {"ifcond", "opcond"}
    BY <1>7 DEF NextStage
  <2> QED
    BY <1>3, <1>5, <1>7, <2>1 DEF AfterCommand, GoTo
<1>8. CASE stage = "ifcond"
  BY <1>3, <1>5, <1>8 DEF AfterCommand, AfterIfCond, GoTo
<1>9. CASE stage = "opcond"
  BY <1>4, <1>5, <1>6, <1>9 DEF AfterCommand, AfterOpCond, GoTo, OpCondReady
<1> QED
  BY <1>7, <1>8, <1>9

\* The same for the read of the MBR.
LEMMA AfterMbr ==
  ASSUME BootInv, NEW i, Looked(i), stage = "mbr", Came, AfterCommand("OK")
  PROVE  BootInv'
<1>1. BootTypes' /\ AnswerFresh' /\ NormalFrequency' = NormalFrequency
  BY LookedTyped
<1>2. stage' = "mbrwait" /\ step' = "call"
  BY DEF AfterCommand, NextStage, GoTo
<1>3. OneCommand'
  BY <1>1, <1>2 DEF OneCommand
<1>4. host.pending = "none"
  BY DEF BootInv, OneCommand, AnswerFresh, Came
<1>5. sd'.init => RestInv'
  BY <1>1, <1>2, <1>4 DEF BootInv, RestInv, Rest, Looked, HostAre
<1> QED
  BY <1>1, <1>2, <1>3, <1>5, RestKept DEF Rest

\* and the answer to a command keep the invariant.
LEMMA CommandDoneInv == BootInv /\ CommandDone => BootInv'
<1> SUFFICES ASSUME BootInv, CommandDone PROVE BootInv'
  OBVIOUS
<1>1. step = "sent" /\ Sending /\ UNCHANGED <<card, mbr, dropped>> /\ CommandAt \in Commands
  BY SendingIs, CommandTyped DEF CommandDone, BootInv, OneCommand
<1>2. PICK r, taken, got, res :
         /\ r \in Results("CMD_DONE")
         /\ taken = IF r = "OK" THEN Taken(CommandAt, host.answer) ELSE sd
         /\ got = IF r = "OK" THEN Result(CommandAt, host.answer) ELSE r
         /\ res = IF got = "OK" /\ NeedsApp(CommandAt) /\ taken.rca /\ ~taken.app
                    THEN "APP_CMD" ELSE got
         /\ host' = [host EXCEPT !.int = Left("CMD_DONE", r)]
         /\ sd' = taken /\ AfterCommand(res)
  BY Zenon DEF CommandDone
<1>3. sd' \in SdType /\ sd'.type = sd.type /\ sd'.init = sd.init
  BY <1>1, <1>2, TakenIs DEF BootInv, BootTypes
<1>4. PICK i : Looked(i)
  BY Zenon, <1>1, <1>2, <1>3, Waits
<1>5. r = "OK" => "CMD_DONE" \in host.int
  BY Zenon, <1>1, <1>2, <1>3, Waits
<1>6. CASE res # "OK"
  <2>1. sd'.ocr = sd.ocr \/ (stage = "opcond" /\ res # "TIMEOUT")
    <3>1. CASE r # "OK"
      BY <1>2, <3>1
    <3>2. CASE r = "OK"
      <4>1. CASE CommandAt \in {"OP_COND_HC", "OP_COND_SC"}
        <5>1. stage = "opcond"
          BY <1>1, <4>1, SendingIs, CommandIs DEF Stages
        <5>2. res # "TIMEOUT"
          BY <1>2, <3>2 DEF Result
        <5> QED
          BY <5>1, <5>2
      <4>2. CASE CommandAt \notin {"OP_COND_HC", "OP_COND_SC"}
        BY <1>1, <1>2, <3>2, <4>2, TakenIs
      <4> QED
        BY <4>1, <4>2
    <3> QED
      BY <3>1, <3>2
  <2> QED
    BY Zenon, <1>1, <1>2, <1>4, <1>6, <2>1, AfterFailure
<1>7. CASE res = "OK"
  <2>1. r = "OK" /\ taken = Taken(CommandAt, host.answer) /\ AfterCommand("OK") /\ Came
    BY <1>1, <1>2, <1>5, <1>7 DEF Came
  <2>2. CASE stage \in Main
    <3>1. stage = "rca" <=> CommandAt = "SEND_REL_ADDR"
      BY <1>1, <2>2, SendingIs, CommandIs DEF Stages
    <3>2. (sd'.rca = sd.rca \/ sd'.rca) /\ (stage = "rca" => sd'.rca)
      BY <1>1, <1>2, <2>1, <3>1, TakenIs
    <3>3. stage = "width" => host.answer.app
      <4> SUFFICES ASSUME stage = "width" PROVE host.answer.app
        OBVIOUS
      <4>1. CommandAt = "SET_BUS_WIDTH" /\ NeedsApp(CommandAt)
        BY CommandIs DEF NeedsApp
      <4>2. sd.rca
        BY DEF BootInv, MainInv, Main, Tran
      <4>3. taken.rca = sd.rca /\ taken.app = host.answer.app
        BY <1>1, <2>1, <4>1, TakenIs
      <4> QED
        BY Zenon, <1>2, <1>7, <4>1, <4>2, <4>3
    <3> QED
      BY Zenon, <1>1, <1>4, <2>1, <2>2, <3>2, <3>3, AfterMain
  <2>3. CASE stage \in {"idle", "ifcond", "opcond"}
    <3>1. CommandAt \in {"OP_COND_HC", "OP_COND_SC"} <=> stage = "opcond"
      BY <2>3, CommandIs
    <3>2. sd'.ocr = IF stage = "opcond" THEN host.answer ELSE sd.ocr
      BY <1>1, <1>2, <2>1, <3>1, TakenIs
    <3>3. UNCHANGED <<old>> \/ stage # "opcond"
      BY <2>1 DEF AfterCommand, AfterOpCond, SdInitFails
    <3> QED
      BY Zenon, <1>4, <2>1, <2>3, <3>2, <3>3, AfterEarly
  <2>4. CASE stage = "mbr"
    BY Zenon, <1>4, <2>1, <2>4, AfterMbr
  <2> QED
    BY <1>1, <2>2, <2>3, <2>4, SendingIs DEF Stages, Main, Named, Tran
<1> QED
  BY <1>6, <1>7

\* A command that is carried out, or lost: what it can change in the card.
CardMoves ==
    /\ card' \in CardType /\ card'.hc = card.hc
    /\ host.pending \in {"APP_CMD", "READ_SINGLE"} => card'.state = card.state
    /\ host.pending # "SET_BUS_WIDTH" => card'.width \in {1, card.width}
    /\ host.pending \notin {"SET_BUS_WIDTH", "GO_IDLE_STATE"} => card'.width = card.width

\* While a command is out no answer has come, and what command it is.
LEMMA Pending ==
  ASSUME BootInv, host.pending # "none"
  PROVE  /\ "CMD_DONE" \notin host.int /\ BootTypes
         /\ stage \in Main => step \in {"appsent", "sent"}
         /\ step = "sent" => host.pending = CommandAt
         /\ step = "appsent" => host.pending = "APP_CMD"
         /\ stage \in Main /\ step = "appsent" => stage \in {"scr", "width"}
         /\ sd.init => host.pending = "READ_SINGLE" /\ stage \in {"mbr", "panic"}
<1>1. OneCommand /\ BootTypes
  BY DEF BootInv
<1>2. "CMD_DONE" \notin host.int
  BY <1>1 DEF OneCommand, AnswerFresh
<1>3. stage \in Main => step \in {"appsent", "sent"}
  BY <1>1 DEF BootInv, MainInv, StateInv, OneCommand
<1>4. stage \in Main /\ step = "appsent" => stage \in {"scr", "width"}
  BY <1>1, SendingIs, CommandIs DEF OneCommand, Stages, Main, Named, Tran, NeedsApp
<1>5. sd.init => host.pending = "READ_SINGLE" /\ stage \in {"mbr", "panic"}
  BY <1>1, SendingIs DEF BootInv, RestInv, Rest, OneCommand, Stages
<1> QED
  BY <1>1, <1>2, <1>3, <1>4, <1>5 DEF OneCommand

\* A command without an answer keeps the invariant:
LEMMA GivesUpInv ==
  ASSUME BootInv, host.pending # "none", CardMoves, NEW b, NEW i,
         HostAre(host', host.ver, host.clock, host.width, b, i, "none", host.answer,
                 host.fresh, host.data),
         "CMD_DONE" \in i => "CMD_DONE" \in host.int,
         "READ_RDY" \in i => "READ_RDY" \in host.int,
         UNCHANGED <<stage, step, old, tries, sd, mbr, dropped>>
  PROVE  BootInv'
<1>1. /\ host'.clock = host.clock /\ host'.width = host.width /\ host'.pending = "none"
      /\ host'.data = host.data /\ NormalFrequency' = NormalFrequency
      /\ "CMD_DONE" \notin host'.int /\ ("READ_RDY" \in host'.int => "READ_RDY" \in host.int)
  BY Pending DEF HostAre, NormalFrequency
<1>2. BootTypes' /\ ~Came' /\ (Ahead' <=> step # "sent") /\ (NoData => NoData')
  BY <1>1, Pending DEF BootTypes, HostAre, CardMoves, Came, Ahead, NoData
<1>3. OneCommand'
  BY <1>1, SameStage DEF BootInv, OneCommand, AnswerFresh
<1>4. EarlyInv'
  BY <1>1, <1>2 DEF BootInv, EarlyInv, CardMoves
<1>5. ASSUME stage \in Main
      PROVE  StateInv' /\ WidthInv' /\ (step # "sent" => card'.state = card.state)
  <2>1. /\ step = "sent" => host.pending \notin {"GO_IDLE_STATE", "APP_CMD"}
        /\ step = "sent" /\ stage # "width" => host.pending # "SET_BUS_WIDTH"
    BY <1>5, Pending, SendingIs, CommandIs
       DEF BootInv, OneCommand, Stages, Main, Named, Tran
  <2>2. /\ stage # "width" \/ step # "sent" => card'.width = card.width
        /\ step # "sent" => card'.state = card.state /\ stage \in {"scr", "width"}
        /\ stage \in Stages
    BY <1>5, <2>1, Pending, SendingIs DEF CardMoves, BootInv, OneCommand
  <2>3. StateInv'
    BY <1>1, <1>2, <1>5, <2>2 DEF BootInv, MainInv, StateInv, Ahead
  <2>4. WidthInv'
    BY <1>1, <1>2, <1>5, <2>2 DEF BootInv, MainInv, WidthInv, Ahead, Stages
  <2> QED
    BY <2>2, <2>3, <2>4
<1>6. MainInv'
  BY <1>1, <1>2, <1>5, SendingIs, Pending
     DEF BootInv, MainInv, OneCommand, Stages, CardMoves
<1>7. RestInv'
  BY <1>1, <1>2, Pending DEF BootInv, RestInv, CardMoves
<1> QED
  BY <1>2, <1>3, <1>4, <1>6, <1>7 DEF BootInv

\* and so does one with an answer, that says what the card has become.
AnswerTells(a) ==
    /\ a.complete => /\ host.pending \in {"OP_COND_HC", "OP_COND_SC"} /\ card'.state = "ready"
                     /\ a.ccs = card.hc /\ (card.hc => host.pending = "OP_COND_HC")
    /\ host.pending = "ALL_SEND_CID" => card'.state = "ident"
    /\ host.pending = "SEND_REL_ADDR" => card'.state = "stby"
    /\ host.pending = "CARD_SELECT" => card'.state = "tran"
    /\ host.pending \in {"SEND_CSD", "SEND_SCR", "SET_BUS_WIDTH", "SET_BLOCKLEN"} =>
         card'.state = card.state
    /\ host.pending = "SET_BUS_WIDTH" /\ a.app => card'.width = 4
\* A command that the card answers keeps the invariant, when the answer tells
\* the state the card has moved to.
LEMMA AnsweredInv ==
  ASSUME BootInv, host.pending # "none", CardMoves, NEW a, AnswerTells(a), NEW i, NEW d,
         HostAre(host', host.ver, host.clock, host.width, FALSE, i, "none", a, TRUE, d),
         "READ_RDY" \in i => "READ_RDY" \in host.int,
         host.pending \notin {"SEND_SCR", "READ_SINGLE"} => d = host.data,
         UNCHANGED <<stage, step, old, tries, sd, mbr, dropped>>
  PROVE  BootInv'
<1>1. /\ host'.clock = host.clock /\ host'.width = host.width /\ host'.pending = "none"
      /\ host'.data = d /\ NormalFrequency' = NormalFrequency /\ host'.answer = a
      /\ host'.fresh /\ ("READ_RDY" \in host'.int => "READ_RDY" \in host.int)
  BY DEF HostAre, NormalFrequency
<1>2. /\ BootTypes' /\ (Came' => step = "sent") /\ (Ahead' <=> step # "sent")
      /\ host.pending \notin {"SEND_SCR", "READ_SINGLE"} /\ NoData => NoData'
  BY <1>1, Pending DEF BootTypes, HostAre, CardMoves, Came, Ahead, NoData
<1>3. OneCommand'
  BY <1>1, SameStage DEF BootInv, OneCommand, AnswerFresh
<1>4. EarlyInv'
  <2>1. CASE stage = "opcond" /\ Came' /\ a.complete
    <3>1. card'.state = "ready" /\ Settled(host.answer)'
      BY <1>1, <1>2, <2>1, Pending, CommandIs DEF AnswerTells, Settled, CardMoves
    <3> QED
      BY <1>1, <2>1, <3>1 DEF BootInv, EarlyInv, CardMoves
  <2>2. CASE ~(stage = "opcond" /\ Came' /\ a.complete)
    BY <1>1, <2>2 DEF BootInv, EarlyInv, CardMoves
  <2> QED
    BY <2>1, <2>2
<1>5. ASSUME stage \in Main
      PROVE  /\ StateInv' /\ WidthInv'
             /\ stage \in {"width", "blocklen"} =>
                  host.pending \notin {"SEND_SCR", "READ_SINGLE"}
             /\ stage \in Stages \cap Main
  <2>1. /\ step \in {"appsent", "sent"} /\ stage \in Stages
        /\ step = "sent" => host.pending = CommandAt
        /\ step = "appsent" => host.pending = "APP_CMD" /\ stage \in {"scr", "width"}
    BY <1>5, Pending, SendingIs DEF BootInv, OneCommand
  <2>2. stage \in {"cid", "rca", "csd", "select", "scr", "width", "blocklen"}
    BY <1>5, <2>1 DEF Stages, Main, Named, Tran
  <2>3. /\ step = "sent" => card'.state = After(stage)
        /\ step = "appsent" => card'.state = Before(stage)
    <3>1. card.state = Before(stage)
      BY <1>5 DEF BootInv, MainInv, StateInv, Ahead
    <3> QED
      BY <2>1, <2>2, <3>1, CommandIs DEF AnswerTells, CardMoves, Before, After
  <2>4. StateInv'
    BY <1>1, <1>2, <2>1, <2>3 DEF StateInv
  <2>5. /\ stage # "width" \/ step # "sent" => card'.width = card.width
        /\ stage = "width" /\ step = "sent" /\ a.app => card'.width = 4
    BY <2>1, <2>2, CommandIs DEF AnswerTells, CardMoves
  <2>6. WidthInv'
    BY <1>1, <1>2, <1>5, <2>2, <2>5 DEF BootInv, MainInv, WidthInv, Ahead
  <2>7. stage \in {"width", "blocklen"} => host.pending \notin {"SEND_SCR", "READ_SINGLE"}
    BY <2>1, CommandIs
  <2> QED
    BY <1>5, <2>1, <2>4, <2>6, <2>7
<1>6. MainInv'
  BY <1>1, <1>2, <1>5 DEF BootInv, MainInv, Stages, CardMoves
<1>7. RestInv'
  BY <1>1, <1>2, Pending DEF BootInv, RestInv, CardMoves, NoData
<1> QED
  BY <1>2, <1>3, <1>4, <1>6, <1>7 DEF BootInv

\* What a command does to a card: only some of them change its state or its width.
CardAre(g, c, busy, state, app, cond, width) ==
    /\ g \in CardType /\ g.hc = c.hc /\ g.busy = busy /\ g.state = state /\ g.app = app
    /\ g.cond = cond /\ g.width = width
\* What each command does to the card.
LEMMA ExecutedIs ==
  ASSUME NEW c \in CardType, NEW m \in Commands, NEW e, e = Executed(c, m)
  PROVE  /\ e \in CardType /\ e.hc = c.hc
         /\ m \notin {"GO_IDLE_STATE", "OP_COND_HC", "OP_COND_SC", "ALL_SEND_CID",
                      "SEND_REL_ADDR", "CARD_SELECT"} => e.state = c.state
         /\ m \in {"OP_COND_HC", "OP_COND_SC"} /\ Powers(c, m) => e.state = "ready"
         /\ m = "ALL_SEND_CID" => e.state = "ident"
         /\ m = "SEND_REL_ADDR" => e.state = "stby"
         /\ m = "CARD_SELECT" => e.state = "tran"
         /\ m = "GO_IDLE_STATE" => e.width = 1
         /\ m \notin {"GO_IDLE_STATE", "SET_BUS_WIDTH"} => e.width = c.width
         /\ m = "SET_BUS_WIDTH" /\ c.app => e.width = 4
<1>1. PICK d : d = [c EXCEPT !.app = (m = "APP_CMD")]
  BY Zenon
<1>2. d \in CardType /\ d.hc = c.hc /\ d.state = c.state /\ d.width = c.width /\ d.busy = c.busy
  <2>1. (m = "APP_CMD") \in BOOLEAN
    OBVIOUS
  <2>2. CardAre(d, c, c.busy, c.state, (m = "APP_CMD"), c.cond, c.width)
    BY Zenon, <1>1, <2>1 DEF CardAre, CardType
  <2> QED
    BY Zenon, <2>2 DEF CardAre
<1>3. CASE m = "GO_IDLE_STATE"
  <2>1. e = [d EXCEPT !.state = "idle", !.cond = FALSE, !.width = 1]
    BY <1>1, <1>3 DEF Executed
  <2>2. CardAre(e, d, d.busy, "idle", d.app, FALSE, 1)
    BY Zenon, <1>2, <2>1 DEF CardAre, CardType
  <2> QED
    BY Zenon, <1>2, <1>3, <2>2 DEF CardAre
<1>4. CASE m = "SEND_IF_COND"
  <2>1. e = [d EXCEPT !.cond = TRUE]
    BY <1>1, <1>4 DEF Executed
  <2>2. CardAre(e, d, d.busy, d.state, d.app, TRUE, d.width)
    BY Zenon, <1>2, <2>1 DEF CardAre, CardType
  <2> QED
    BY Zenon, <1>2, <1>4, <2>2 DEF CardAre
<1>5. CASE m \in {"OP_COND_HC", "OP_COND_SC"}
  <2>1. PICK b, s : b = (IF d.busy > 0 THEN d.busy - 1 ELSE 0)
                    /\ s = (IF Powers(c, m) THEN "ready" ELSE "idle")
    OBVIOUS
  <2>2. b \in Int /\ s \in {"idle", "ready", "ident", "stby", "tran"}
    BY <1>2, <2>1 DEF CardType
  <2>3. e = [d EXCEPT !.busy = b, !.state = s]
    BY <1>1, <1>5, <2>1 DEF Executed
  <2>4. CardAre(e, d, b, s, d.app, d.cond, d.width)
    BY Zenon, <1>2, <2>2, <2>3 DEF CardAre, CardType
  <2> QED
    BY Zenon, <1>2, <1>5, <2>1, <2>4 DEF CardAre
<1>6. ASSUME NEW s \in {"ident", "stby", "tran"}, e = [d EXCEPT !.state = s]
      PROVE  e \in CardType /\ e.hc = c.hc /\ e.state = s /\ e.width = c.width
  BY Zenon, <1>2, <1>6 DEF CardType
<1>7. CASE m \in {"ALL_SEND_CID", "SEND_REL_ADDR", "CARD_SELECT"}
  <2>1. CASE m = "ALL_SEND_CID"
    <3>1. e = [d EXCEPT !.state = "ident"]
      BY <1>1, <2>1 DEF Executed
    <3> QED
      BY Zenon, <1>6, <2>1, <3>1
  <2>2. CASE m = "SEND_REL_ADDR"
    <3>1. e = [d EXCEPT !.state = "stby"]
      BY <1>1, <2>2 DEF Executed
    <3> QED
      BY Zenon, <1>6, <2>2, <3>1
  <2>3. CASE m = "CARD_SELECT"
    <3>1. e = [d EXCEPT !.state = "tran"]
      BY <1>1, <2>3 DEF Executed
    <3> QED
      BY Zenon, <1>6, <2>3, <3>1
  <2> QED
    BY Zenon, <1>7, <2>1, <2>2, <2>3
<1>8. CASE m = "SET_BUS_WIDTH" /\ c.app
  <2>1. e = [d EXCEPT !.width = 4]
    BY <1>1, <1>8 DEF Executed
  <2>2. e \in CardType /\ e.hc = d.hc /\ e.state = d.state /\ e.width = 4
    BY Zenon, <1>2, <2>1 DEF CardType
  <2> QED
    BY Zenon, <1>2, <1>8, <2>2
<1>9. CASE /\ m \in {"APP_CMD", "SEND_CSD", "SEND_SCR", "SET_BUS_WIDTH", "SET_BLOCKLEN",
                     "READ_SINGLE"}
           /\ ~(m = "SET_BUS_WIDTH" /\ c.app)
  <2>1. e = d
    BY <1>1, <1>9 DEF Executed
  <2> QED
    BY Zenon, <1>2, <1>9, <2>1
<1> QED
  BY Zenon, <1>3, <1>4, <1>5, <1>7, <1>8, <1>9 DEF Commands

\* The outcomes of a command, in the registers.
LEMMA AnsweredHost ==
  ASSUME BootInv, NEW a \in Answers, Answered({"CMD_DONE"}, a), host.pending # "none",
         CardMoves, AnswerTells(a),
         UNCHANGED <<stage, step, old, tries, sd, mbr, dropped>>
  PROVE  BootInv'
<1>1. host \in HostType
  BY DEF BootInv, BootTypes
<1>2. PICK i \in SUBSET Interrupts : i = host.int \cup {"CMD_DONE"}
  BY Zenon, <1>1 DEF HostType, Interrupts
<1>3. PICK d \in {"none", "coming", "ready", "read"} :
         d = IF host.pending \in {"SEND_SCR", "READ_SINGLE"} THEN "coming" ELSE host.data
  BY <1>1 DEF HostType
<1>4. host' = [host EXCEPT !.int = i, !.pending = "none", !.inhibit = FALSE, !.answer = a,
                           !.fresh = TRUE, !.data = d]
  BY Zenon, <1>2, <1>3 DEF Answered
<1>5. HostAre(host', host.ver, host.clock, host.width, FALSE, i, "none", a, TRUE, d)
  BY Zenon, <1>1, <1>4, HostAnswer
<1>6. /\ "READ_RDY" \in i => "READ_RDY" \in host.int
      /\ host.pending \notin {"SEND_SCR", "READ_SINGLE"} => d = host.data
  BY <1>2, <1>3
<1> QED
  BY Zenon, <1>5, <1>6, AnsweredInv

\* A command the controller gives up on keeps the invariant.
LEMMA GivesUpHost ==
  ASSUME BootInv, NEW w \in SUBSET {"CMD_TIMEOUT", "ERROR"}, GivesUp(w),
         host.pending # "none", CardMoves,
         UNCHANGED <<stage, step, old, tries, sd, mbr, dropped>>
  PROVE  BootInv'
<1>1. host \in HostType
  BY DEF BootInv, BootTypes
<1>2. PICK i \in SUBSET Interrupts : i = host.int \cup w
  BY Zenon, <1>1 DEF HostType, Interrupts
<1>3. PICK b \in BOOLEAN : host' = [host EXCEPT !.int = i, !.pending = "none", !.inhibit = b]
  BY Zenon, <1>2 DEF GivesUp
<1>4. HostAre(host', host.ver, host.clock, host.width, b, i, "none", host.answer, host.fresh,
              host.data)
  BY Zenon, <1>1, <1>3, HostGivesUp
<1>5. /\ "CMD_DONE" \in i => "CMD_DONE" \in host.int
      /\ "READ_RDY" \in i => "READ_RDY" \in host.int
  BY <1>2
<1> QED
  BY Zenon, <1>4, <1>5, GivesUpInv

\* A card that carries a command out keeps the invariant,
LEMMA CardAnswersInv == BootInv /\ CardAnswers => BootInv'
<1> SUFFICES ASSUME BootInv, CardAnswers PROVE BootInv'
  OBVIOUS
<1>1. /\ host.pending # "none" /\ card' = Executed(card, host.pending)
      /\ UNCHANGED <<stage, step, old, tries, sd, mbr, dropped>>
  BY DEF CardAnswers
<1>2. PICK m \in Commands : m = host.pending
  BY <1>1 DEF BootInv, BootTypes, HostType
<1>3. card \in CardType /\ card.hc \in BOOLEAN /\ card.app \in BOOLEAN /\ card.bus4 \in BOOLEAN
  BY DEF BootInv, BootTypes, CardType
<1>4. /\ card' \in CardType /\ card'.hc = card.hc
      /\ m \notin {"GO_IDLE_STATE", "OP_COND_HC", "OP_COND_SC", "ALL_SEND_CID",
                   "SEND_REL_ADDR", "CARD_SELECT"} => card'.state = card.state
      /\ m \in {"OP_COND_HC", "OP_COND_SC"} /\ Powers(card, m) => card'.state = "ready"
      /\ m = "ALL_SEND_CID" => card'.state = "ident"
      /\ m = "SEND_REL_ADDR" => card'.state = "stby"
      /\ m = "CARD_SELECT" => card'.state = "tran"
      /\ m = "GO_IDLE_STATE" => card'.width = 1
      /\ m \notin {"GO_IDLE_STATE", "SET_BUS_WIDTH"} => card'.width = card.width
      /\ m = "SET_BUS_WIDTH" /\ card.app => card'.width = 4
  <2>1. card' = Executed(card, m)
    BY <1>1, <1>2
  <2> QED
    BY <1>3, <2>1, ExecutedIs
<1>5. CardMoves
  BY <1>2, <1>4 DEF CardMoves
<1>6. PICK a : a = Answer(card, m)
  BY Zenon
<1>7. /\ a \in Answers /\ a.app = (card.app \/ m = "APP_CMD")
      /\ a.complete = (m \in {"OP_COND_HC", "OP_COND_SC"} /\ Powers(card, m))
      /\ a.ccs = (card.hc /\ Powers(card, m))
  BY <1>3, <1>6 DEF Answer, Answers
<1>8. Powers(card, m) /\ card.hc => m = "OP_COND_HC"
  BY DEF Powers
<1>9. AnswerTells(a)
  BY Zenon, <1>2, <1>3, <1>4, <1>7, <1>8 DEF AnswerTells
<1>10. [a EXCEPT !.err = TRUE] \in Answers /\ AnswerTells([a EXCEPT !.err = TRUE])
  <2>1. PICK e : e = [a EXCEPT !.err = TRUE]
    BY Zenon
  <2>2. e \in Answers /\ e.app = a.app /\ e.complete = a.complete /\ e.ccs = a.ccs
    BY Zenon, <1>7, <2>1 DEF Answers
  <2>3. AnswerTells(e)
    BY Zenon, <1>9, <2>2 DEF AnswerTells
  <2> QED
    BY Zenon, <2>1, <2>2, <2>3
<1>11. CASE Answered({"CMD_DONE"}, a)
  BY Zenon, <1>1, <1>5, <1>7, <1>9, <1>11, AnsweredHost
<1>12. CASE Answered({"CMD_DONE"}, [a EXCEPT !.err = TRUE])
  BY Zenon, <1>1, <1>5, <1>10, <1>12, AnsweredHost
<1>13. ASSUME NEW w \in SUBSET {"CMD_TIMEOUT", "ERROR"}, GivesUp(w) PROVE BootInv'
  BY Zenon, <1>1, <1>5, <1>13, GivesUpHost
<1>14. {"CMD_TIMEOUT", "ERROR"} \in SUBSET {"CMD_TIMEOUT", "ERROR"}
       /\ {"ERROR"} \in SUBSET {"CMD_TIMEOUT", "ERROR"}
  OBVIOUS
<1> QED
  BY Zenon, <1>2, <1>6, <1>11, <1>12, <1>13, <1>14 DEF CardAnswers

\* and so does one that does not.
LEMMA CardSilentInv == BootInv /\ CardSilent => BootInv'
<1> SUFFICES ASSUME BootInv, CardSilent PROVE BootInv'
  OBVIOUS
<1>1. /\ host.pending # "none" /\ card' = [card EXCEPT !.app = FALSE]
      /\ UNCHANGED <<stage, step, old, tries, sd, mbr, dropped>>
  BY DEF CardSilent
<1>2. card \in CardType
  BY DEF BootInv, BootTypes
<1>3. card' \in CardType /\ card'.hc = card.hc /\ card'.state = card.state
        /\ card'.width = card.width
  BY Zenon, <1>1, <1>2 DEF CardType
<1>4. CardMoves
  BY <1>3 DEF CardMoves
<1>5. CASE Answered({"CMD_DONE"}, NoAnswer) /\ host.pending \in {"GO_IDLE_STATE", "APP_CMD"}
  <2>1. NoAnswer \in Answers /\ NoAnswer.complete = FALSE
    BY DEF NoAnswer, Answers
  <2>2. AnswerTells(NoAnswer)
    BY <1>5, <2>1 DEF AnswerTells
  <2> QED
    BY Zenon, <1>1, <1>4, <1>5, <2>1, <2>2, AnsweredHost
<1>6. CASE GivesUp({"CMD_TIMEOUT", "ERROR"})
  <2>1. {"CMD_TIMEOUT", "ERROR"} \in SUBSET {"CMD_TIMEOUT", "ERROR"}
    OBVIOUS
  <2> QED
    BY Zenon, <1>1, <1>4, <1>6, <2>1, GivesUpHost
<1> QED
  BY Zenon, <1>5, <1>6 DEF CardSilent

-----------------------------------------------------------------------------
(* The theorems.                                                            *)

LEMMA BootNextInv == BootInv /\ [BootNext]_bootVars => BootInv'
<1> SUFFICES ASSUME BootInv, [BootNext]_bootVars PROVE BootInv'
  OBVIOUS
<1>1. CASE UNCHANGED bootVars
  <2>1. /\ stage' = stage /\ step' = step /\ old' = old /\ sd' = sd /\ host' = host
        /\ card' = card /\ mbr' = mbr /\ dropped' = dropped
    BY <1>1 DEF bootVars
  <2>2. BootTypes' /\ OneCommand' /\ EarlyInv' /\ NormalFrequency' = NormalFrequency
    BY <2>1, SameStage
       DEF BootInv, BootTypes, OneCommand, AnswerFresh, EarlyInv, Came, Settled, NormalFrequency
  <2>3. MainInv'
    BY <2>1, <2>2
       DEF BootInv, MainInv, StateInv, WidthInv, Came, Ahead, Settled, NoData
  <2>4. RestInv'
    BY <2>1, <2>2 DEF BootInv, RestInv, NoData
  <2> QED
    BY <2>1, <2>2, <2>3, <2>4 DEF BootInv
<1>2. CASE Driver
  BY Zenon, <1>2, StartInv, ResetInv, SetupClockInv, VoltageInv, FormatInv,
     NormalClockInv,
     BusyInv, SendAppInv, SendInv, AppDoneInv, CommandDoneInv, WaitDataInv, ReadScrInv,
     SetWidthInv, FinishInv, StartMbrInv, MbrWaitInv, MbrDoneInv DEF Driver
<1> QED
  BY Zenon, <1>1, <1>2, CardAnswersInv, CardSilentInv, DataArrivesInv,
     DataEndsInv DEF BootNext

\* The bring-up of the card keeps its inductive invariant, for every host
\* controller, every card and every number of tries.
THEOREM BootInvariant == BootSpec => []BootInv
<1> QED
  BY BootInitInv, BootNextInv, PTL DEF BootSpec

\* An answer is never taken for another command's (AnswersOwn): INT_CMD_DONE is
\* cleared when a command is issued, and only the command that is out sets it.
THEOREM CardAnswersOwn == BootSpec => []AnswersOwn
<1>1. BootInv => AnswersOwn
  BY DEF BootInv, OneCommand, AnswerFresh, AnswersOwn
<1> QED
  BY <1>1, BootInvariant, PTL

\* When sdInit succeeds the two sides agree (InitAgrees), whatever was lost, late
\* or retried on the way: each stage leaves the card as the next one needs it.
THEOREM CardInitAgrees == BootSpec => []InitAgrees
<1>1. BootInv => InitAgrees
  <2> SUFFICES ASSUME BootInv, sd.init PROVE InitAgrees
    BY DEF InitAgrees
  <2>1. /\ card.state = "tran" /\ host.width = card.width
        /\ host.clock = NormalFrequency /\ (sd.type = "2_HC") = card.hc
    BY DEF BootInv, RestInv
  <2>2. host.ver \in 0..2
    BY Zenon, SdCardAssumption DEF BootInv, BootTypes, HostType
  <2>3. 0 < NormalFrequency /\ NormalFrequency <= FREQ_NORMAL
    BY Zenon, <2>2, NormalSpeed DEF NormalFrequency
  <2> QED
    BY Zenon, <2>1, <2>3 DEF InitAgrees
<1> QED
  BY <1>1, BootInvariant, PTL

\* The MBR is the card's unless sdInit or a wait failed (MbrTrusted): the data that
\* INT_READ_RDY announces is that of this read, not of the SCR before it.
THEOREM CardMbrTrusted == BootSpec => []MbrTrusted
<1>1. BootInv => MbrTrusted
  BY DEF BootInv, RestInv, MbrTrusted
<1> QED
  BY <1>1, BootInvariant, PTL
=============================================================================
