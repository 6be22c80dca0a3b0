----------------------------- MODULE LogProofs -----------------------------
(***************************************************************************)
(* Proofs about the log of cache.c, for any number of threads, blocks and  *)
(* log blocks.  LogInvariant is inductive; the other invariants follow.    *)
(* At the end: no wakeup is missed, and the log implements AtomicOps.      *)
(***************************************************************************)
EXTENDS LogInv, FiniteSetTheorems, TLAPS

\* log.mx is a natural number.
LEMMA MxNat == mx \in Nat
  BY LogAssumption DEF mx

\* The empty header.
LEMMA EmptyLog == <<>> \in Seq(Blocks) /\ Len(<<>>) = 0 /\ DOMAIN <<>> = {}
  OBVIOUS

\* The labels of begin_op, end_op and commit are labels.
LEMMA LabelTypes ==
    /\ "idle" \in Labels /\ "begin" \in Labels /\ "begin_sleep" \in Labels
    /\ "running" \in Labels /\ "end_sleep" \in Labels /\ "end" \in Labels
    /\ "commit" \in Labels /\ "write_log" \in Labels
    /\ "write_header" \in Labels /\ "install" \in Labels
    /\ "clear_header" \in Labels /\ "finish" \in Labels
  BY DEF Labels

\* The panics of cache.c are panics.
LEMMA PanicTypes ==
    /\ "none" \in Panics /\ "too big a transaction" \in Panics
    /\ "log_write outside of trans" \in Panics
    /\ "OP_MAX_BLOCK exceeded" \in Panics /\ "log committing" \in Panics
  BY DEF Panics

\* The slots reserved when the contexts have the counts r.
Slots(r) == {x \in Threads \X (1..OP_MAX_NUM_BLOCKS) : x[2] <= r[x[1]]}
Reservations == [Threads -> 0..OP_MAX_NUM_BLOCKS]

\* Finitely many slots are reserved.
LEMMA SlotsFinite ==
  ASSUME NEW r \in Reservations
  PROVE  IsFiniteSet(Slots(r)) /\ Cardinality(Slots(r)) \in Nat
<1>1. IsFiniteSet(1..OP_MAX_NUM_BLOCKS)
  BY FS_Interval, LogAssumption
<1>2. IsFiniteSet(Threads \X (1..OP_MAX_NUM_BLOCKS))
  BY <1>1, FS_Product, LogAssumption
<1>3. Slots(r) \subseteq Threads \X (1..OP_MAX_NUM_BLOCKS)
  BY DEF Slots
<1> QED
  BY <1>2, <1>3, FS_Subset, FS_CardinalityType

\* A thread that may still log n blocks has n slots.
LEMMA SlotsOfThread ==
  ASSUME NEW t \in Threads, NEW n \in 0..OP_MAX_NUM_BLOCKS
  PROVE  IsFiniteSet({t} \X (1..n)) /\ Cardinality({t} \X (1..n)) = n
<1>1. IsFiniteSet(1..n) /\ Cardinality(1..n) = n
  BY FS_Interval, LogAssumption
<1>2. IsFiniteSet({t}) /\ Cardinality({t}) = 1
  BY Zenon, FS_Singleton
<1> QED
  BY <1>1, <1>2, FS_Product

\* The slots are those of one thread and those of the others.
LEMMA SlotsSplit ==
  ASSUME NEW r \in Reservations, NEW t \in Threads
  PROVE  LET others == {x \in Slots(r) : x[1] # t} IN
         /\ Cardinality(others) \in Nat
         /\ Cardinality(Slots(r)) = Cardinality(others) + r[t]
<1> DEFINE others == {x \in Slots(r) : x[1] # t}
<1> r[t] \in 0..OP_MAX_NUM_BLOCKS /\ r[t] \in Nat
  BY LogAssumption DEF Reservations
<1>1. IsFiniteSet(others) /\ Cardinality(others) \in Nat
  BY SlotsFinite, FS_Subset, FS_CardinalityType
<1>2. Slots(r) = others \cup ({t} \X (1..r[t]))
  <2>1. ASSUME NEW x \in Slots(r) PROVE x \in others \cup ({t} \X (1..r[t]))
    BY <2>1 DEF Slots, Reservations
  <2>2. ASSUME NEW x \in {t} \X (1..r[t]) PROVE x \in Slots(r)
    BY <2>2, LogAssumption DEF Slots, Reservations
  <2> QED
    BY <2>1, <2>2
<1>3. others \cap ({t} \X (1..r[t])) = {}
  OBVIOUS
<1> DEFINE own == {t} \X (1..r[t])
<1>4. IsFiniteSet(own) /\ Cardinality(own) = r[t]
  BY SlotsOfThread
<1>5. Cardinality(others \cap own) = 0
  BY <1>3, FS_EmptySet
<1> HIDE DEF others, own
<1>6. Cardinality(others \cup own)
        = Cardinality(others) + Cardinality(own) - Cardinality(others \cap own)
  BY <1>1, <1>4, FS_Union
<1>7. Cardinality(others \cup own) = Cardinality(others) + r[t]
  BY <1>1, <1>4, <1>5, <1>6
<1> QED
  BY Zenon, <1>1, <1>2, <1>7 DEF others, own

\* Changing OpContext.rm of one thread changes the number of slots by as much.
LEMMA SlotsUpdate ==
  ASSUME NEW r \in Reservations, NEW t \in Threads,
         NEW n \in 0..OP_MAX_NUM_BLOCKS
  PROVE  /\ Cardinality(Slots(r)) >= r[t]
         /\ Cardinality(Slots([r EXCEPT ![t] = n]))
               = Cardinality(Slots(r)) - r[t] + n
<1> DEFINE s == [r EXCEPT ![t] = n]
<1>1. s \in Reservations /\ s[t] = n
  BY DEF Reservations
<1>2. {x \in Slots(r) : x[1] # t} = {x \in Slots(s) : x[1] # t}
  BY DEF Slots, Reservations
<1>3. r[t] \in Nat /\ n \in Nat
  BY LogAssumption DEF Reservations
<1> HIDE DEF s
<1>4. PICK k \in Nat : /\ Cardinality(Slots(r)) = k + r[t]
                      /\ Cardinality(Slots(s)) = k + s[t]
  BY Zenon, <1>1, <1>2, SlotsSplit
<1>5. Cardinality(Slots(s)) = Cardinality(Slots(r)) - r[t] + n
  BY <1>1, <1>3, <1>4
<1>6. Cardinality(Slots(r)) >= r[t]
  BY <1>3, <1>4
<1> QED
  BY <1>5, <1>6 DEF s

\* end_op is the last one exactly when log.outstanding was 1.
LEMMA LastOperation ==
  ASSUME LogInvariant, sys # "panicked", NEW t \in Threads, pc[t] = "running"
  PROVE  /\ outstanding - 1 \in Nat
         /\ (outstanding - 1 = 0) <=> \A u \in Threads \ {t} : pc[u] # "running"
         /\ outstanding - 1 = Cardinality(Running \ {t})
<1>1. IsFiniteSet(Running) /\ outstanding = Cardinality(Running)
  BY FS_Subset, LogAssumption DEF Running, LogInvariant, ReservationExact
<1>2. t \in Running
  BY DEF Running
<1>3. /\ IsFiniteSet(Running \ {t})
      /\ Cardinality(Running \ {t}) = outstanding - 1
  BY <1>1, <1>2, FS_RemoveElement
<1>4. outstanding - 1 \in Nat
  BY <1>3, FS_CardinalityType
<1>5. (Cardinality(Running \ {t}) = 0) <=> Running \ {t} = {}
  BY <1>3, FS_EmptySet, Zenon
<1> QED
  BY <1>3, <1>4, <1>5 DEF Running

\* log.mu covers what each running operation may still log.
LEMMA Reservation ==
  ASSUME LogInvariant, sys # "panicked", NEW t \in Threads
  PROVE  /\ rm \in Reservations /\ rm[t] \in Nat
         /\ mu = Cardinality(Slots(rm)) /\ mu >= rm[t]
<1>1. rm \in Reservations /\ rm[t] \in 0..OP_MAX_NUM_BLOCKS
  BY DEF LogInvariant, TypeOK, Reservations
<1>2. mu = Cardinality(Slots(rm))
  BY DEF LogInvariant, ReservationExact, Reserved, Slots
<1>3. Cardinality(Slots(rm)) >= rm[t]
  BY Zenon, <1>1, SlotsUpdate
<1> QED
  BY <1>1, <1>2, <1>3, LogAssumption

\* What end_op does: its panic is not reached.
LEMMA EndOpEffect ==
  ASSUME LogInvariant, NEW t \in Threads, EndOp(t)
  PROVE  /\ ~committing /\ sys = "up" /\ sys # "panicked" /\ pc[t] = "running"
         /\ UNCHANGED <<diskVars, mem, pinned, header, tail, sys, panic, crashes>>
         /\ outstanding' = outstanding - 1
         /\ mu' = mu - rm[t]
         /\ rm' = [rm EXCEPT ![t] = 0]
         /\ committing' = (outstanding' = 0)
         /\ pc' = IF outstanding' = 0
                    THEN [pc EXCEPT ![t] = "commit"]
                    ELSE WakeBeginners([pc EXCEPT ![t] = "end_sleep"])
  BY Zenon DEF EndOp, LogInvariant, CommitInv, GivesBack

-----------------------------------------------------------------------------
(* The types.                                                               *)

\* Every step of cache.c preserves the types.
LEMMA TypeStep == LogInvariant /\ [Next]_vars => TypeOK'
<1> SUFFICES ASSUME LogInvariant, [Next]_vars PROVE TypeOK'
  OBVIOUS
<1> TypeOK
  BY DEF LogInvariant
<1>1. CASE ReadHeader
  <2>1. tail' \in 0..mx
    BY <1>1, MxNat DEF ReadHeader
  <2> QED
    BY <1>1, <2>1 DEF ReadHeader, TypeOK, diskVars, resVars
<1>2. CASE RecoverInstall
  <2>1. tail + 1 \in DOMAIN header /\ tail + 1 \in 1..mx
    BY <1>2, MxNat DEF TypeOK, LogInvariant, BootInv, RecoverInstall
  <2>2. header[tail + 1] \in Blocks /\ logDisk[tail + 1] \in Values
    BY <2>1 DEF TypeOK
  <2>3. disk' \in [Blocks -> Values] /\ mem' \in [Blocks -> Values]
    BY <1>2, <2>2 DEF RecoverInstall, CopyHome, TypeOK
  <2>4. pinned' \in [Blocks -> BOOLEAN] /\ tail' \in 0..mx
    BY <1>2, <2>1, <2>2, MxNat DEF RecoverInstall, CopyHome, TypeOK
  <2> QED
    BY <1>2, <2>3, <2>4 DEF RecoverInstall, CopyHome, TypeOK, resVars
<1>3. CASE RecoverClear
  BY <1>3, EmptyLog, MxNat DEF RecoverClear, EmptyHeader, TypeOK, resVars
<1>4. CASE Crash
  <2>1. pc' \in [Threads -> Labels] /\ rm' \in [Threads -> 0..OP_MAX_NUM_BLOCKS]
    BY <1>4, LabelTypes, LogAssumption DEF Crash
  <2>2. tail' \in 0..mx /\ mu' \in 0..mx /\ crashes' \in 0..MaxCrashes
    BY <1>4, MxNat, LogAssumption DEF Crash, TypeOK
  <2>3. header' \in Seq(Blocks) /\ Len(header') <= mx
    BY <1>4, EmptyLog, MxNat DEF Crash
  <2>4. panic' \in Panics /\ outstanding' \in Nat
    BY Zenon, <1>4, PanicTypes DEF Crash
  <2>5. mem' \in [Blocks -> Values] /\ pinned' \in [Blocks -> BOOLEAN]
    BY <1>4 DEF Crash, TypeOK
  <2> QED
    BY Zenon, <1>4, <2>1, <2>2, <2>3, <2>4, <2>5 DEF Crash, TypeOK, diskVars
<1>5. ASSUME NEW b \in DirectBlocks, NEW v \in Values, SyncDirect(b, v)
      PROVE  TypeOK'
  <2>1. disk' \in [Blocks -> Values] /\ mem' \in [Blocks -> Values]
    BY <1>5, LogAssumption DEF SyncDirect, TypeOK
  <2> QED
    BY <1>5, <2>1 DEF SyncDirect, TypeOK, resVars
<1>6. ASSUME NEW t \in Threads, NEW b \in Blocks \ DirectBlocks, NEW v \in Values,
             Sync(t, b, v)
      PROVE  TypeOK'
  <2>1. mem' \in [Blocks -> Values] /\ pinned' \in [Blocks -> BOOLEAN]
    BY Zenon, <1>6 DEF Sync, TypeOK
  <2>2. SyncCase(t, b) \in Panics \cup {"absorbed", "appended"}
    BY Zenon, PanicTypes DEF SyncCase
  <2>3. sys' \in {"up", "panicked"} /\ panic' \in Panics
    BY Zenon, <1>6, <2>2 DEF Sync, TypeOK
  <2>4. header' \in Seq(Blocks) /\ Len(header') <= mx
    <3>1. CASE SyncCase(t, b) \in {"appended", "OP_MAX_BLOCK exceeded"}
      <4>1. Len(header) < mx
        BY <3>1, MxNat DEF SyncCase, TypeOK
      <4>2. header' = Append(header, b)
        BY Zenon, <1>6, <3>1 DEF Sync
      <4> QED
        BY <4>1, <4>2, MxNat DEF TypeOK
    <3>2. CASE SyncCase(t, b) \notin {"appended", "OP_MAX_BLOCK exceeded"}
      BY Zenon, <1>6, <3>2 DEF Sync, TypeOK
    <3> QED
      BY Zenon, <3>1, <3>2
  <2>5. rm' \in [Threads -> 0..OP_MAX_NUM_BLOCKS] /\ mu' \in 0..mx
    <3>1. CASE SyncCase(t, b) = "appended"
      <4>1. rm[t] > 0 /\ rm[t] \in 0..OP_MAX_NUM_BLOCKS
        BY <3>1 DEF SyncCase, TypeOK
      <4>2. sys # "panicked"
        BY Zenon, <1>6 DEF Sync
      <4>3. mu >= rm[t]
        BY <4>2, Reservation
      <4>4. rm' = [rm EXCEPT ![t] = rm[t] - 1] /\ mu' = mu - 1
        BY <1>6, <3>1 DEF Sync
      <4> QED
        BY <4>1, <4>3, <4>4, MxNat, LogAssumption DEF TypeOK
    <3>2. CASE SyncCase(t, b) # "appended"
      BY Zenon, <1>6, <3>2 DEF Sync, TypeOK
    <3> QED
      BY <3>1, <3>2
  <2> QED
    BY Zenon, <1>6, <2>1, <2>3, <2>4, <2>5 DEF Sync, TypeOK, diskVars
<1>7. ASSUME NEW t \in Threads, BeginOp(t) PROVE TypeOK'
  <2>1. pc' \in [Threads -> Labels]
    BY Zenon, <1>7, LabelTypes DEF BeginOp, TypeOK
  <2>2. outstanding' \in Nat /\ committing' \in BOOLEAN
    BY <1>7 DEF BeginOp, TypeOK, resVars
  <2>3. rm' \in [Threads -> 0..OP_MAX_NUM_BLOCKS]
    BY <1>7, LogAssumption DEF BeginOp, TypeOK, resVars
  <2>4. mu' \in 0..mx
    <3>1. CASE MustWait
      BY <1>7, <3>1 DEF BeginOp, TypeOK, resVars
    <3>2. CASE ~MustWait
      <4>1. mu' = mu + OP_MAX_NUM_BLOCKS
        BY <1>7, <3>2 DEF BeginOp
      <4>2. Len(header) + mu + OP_MAX_NUM_BLOCKS <= mx /\ Len(header) \in Nat
        BY <3>2, MxNat, LogAssumption DEF MustWait, TypeOK
      <4> QED
        BY <4>1, <4>2, MxNat, LogAssumption DEF TypeOK
    <3> QED
      BY <3>1, <3>2
  <2> QED
    BY <1>7, <2>1, <2>2, <2>3, <2>4 DEF BeginOp, TypeOK, diskVars
<1>8. ASSUME NEW t \in Threads, EndOp(t) PROVE TypeOK'
  <2>1. outstanding' \in Nat /\ mu' \in 0..mx
    <3>1. outstanding' = outstanding - 1 /\ mu' = mu - rm[t]
      BY Zenon, <1>8, EndOpEffect
    <3>2. sys # "panicked" /\ pc[t] = "running"
      BY Zenon, <1>8, EndOpEffect
    <3>3. outstanding - 1 \in Nat
      BY Zenon, <3>2, LastOperation
    <3>4. rm[t] \in Nat /\ mu >= rm[t]
      BY <3>2, Reservation
    <3> QED
      BY <3>1, <3>3, <3>4, MxNat DEF TypeOK
  <2>2. rm' \in [Threads -> 0..OP_MAX_NUM_BLOCKS]
    <3>1. rm' = [rm EXCEPT ![t] = 0]
      BY Zenon, <1>8, EndOpEffect
    <3> QED
      BY <3>1, LogAssumption DEF TypeOK
  <2>3. pc' \in [Threads -> Labels]
    BY Zenon, <1>8, EndOpEffect, LabelTypes DEF WakeBeginners, TypeOK
  <2>4. committing' \in BOOLEAN
    BY <1>8, EndOpEffect, Zenon
  <2> QED
    BY Zenon, <1>8, EndOpEffect, <2>1, <2>2, <2>3, <2>4 DEF TypeOK, diskVars
<1>9. ASSUME NEW t \in Threads, EndOpReturn(t) PROVE TypeOK'
  <2>1. pc' \in [Threads -> Labels]
    BY <1>9, LabelTypes DEF EndOpReturn, TypeOK
  <2> QED
    BY <1>9, <2>1 DEF EndOpReturn, TypeOK, diskVars, resVars
<1>10. ASSUME NEW t \in Threads, Commit(t) PROVE TypeOK'
  <2>1. pc' \in [Threads -> Labels]
    BY <1>10, LabelTypes DEF Commit, Goto, TypeOK
  <2>2. tail' \in 0..mx
    BY <1>10, MxNat DEF Commit
  <2> QED
    BY <1>10, <2>1, <2>2 DEF Commit, TypeOK, diskVars, resVars
<1>11. ASSUME NEW t \in Threads, WriteLog(t) PROVE TypeOK'
  <2>1. tail + 1 \in DOMAIN header /\ tail + 1 \in 1..mx
    BY <1>11, MxNat DEF WriteLog, LogInvariant, CommitInv, TypeOK
  <2>2. mem[header[tail + 1]] \in Values
    BY <2>1 DEF TypeOK
  <2>3. logDisk' \in [1..mx -> Values] /\ tail' \in 0..mx
    BY <1>11, <2>1, <2>2, MxNat DEF WriteLog, TypeOK
  <2>4. pc' \in [Threads -> Labels]
    BY <1>11, LabelTypes DEF WriteLog, Goto, TypeOK
  <2> QED
    BY <1>11, <2>3, <2>4 DEF WriteLog, TypeOK, resVars
<1>12. ASSUME NEW t \in Threads, WriteHeader(t) PROVE TypeOK'
  <2>1. pc' \in [Threads -> Labels]
    BY <1>12, LabelTypes DEF WriteHeader, Goto, TypeOK
  <2>2. tail' \in 0..mx
    BY <1>12, MxNat DEF WriteHeader
  <2> QED
    BY <1>12, <2>1, <2>2 DEF WriteHeader, TypeOK, resVars
<1>13. ASSUME NEW t \in Threads, InstallTrans(t) PROVE TypeOK'
  <2>1. tail + 1 \in DOMAIN header /\ tail + 1 \in 1..mx
    BY <1>13, MxNat DEF InstallTrans, LogInvariant, CommitInv, TypeOK
  <2>2. header[tail + 1] \in Blocks /\ logDisk[tail + 1] \in Values
    BY <2>1, SMTT(90) DEF TypeOK
  <2>3. disk' \in [Blocks -> Values] /\ mem' \in [Blocks -> Values]
    BY <1>13, <2>2 DEF InstallTrans, CopyHome, TypeOK
  <2>4. pc' \in [Threads -> Labels] /\ tail' \in 0..mx
    BY <1>13, <2>1, LabelTypes, MxNat DEF InstallTrans, CopyHome, Goto, TypeOK
  <2> QED
    BY <1>13, <2>3, <2>4 DEF InstallTrans, CopyHome, TypeOK, resVars
<1>14. ASSUME NEW t \in Threads, ClearHeader(t) PROVE TypeOK'
  <2>1. pc' \in [Threads -> Labels]
    BY <1>14, LabelTypes DEF ClearHeader, Goto, TypeOK
  <2> QED
    BY <1>14, <2>1, EmptyLog, MxNat DEF ClearHeader, EmptyHeader, TypeOK, resVars
<1>15. ASSUME NEW t \in Threads, FinishCommit(t) PROVE TypeOK'
  <2>1. pc' \in [Threads -> Labels]
    BY <1>15, LabelTypes DEF FinishCommit, WakeBeginners, WakeEnders, TypeOK
  <2> QED
    BY Zenon, <1>15, <2>1 DEF FinishCommit, TypeOK, diskVars
<1>16. CASE UNCHANGED vars
  BY <1>16 DEF vars, TypeOK
<1> QED
  BY <1>1, <1>2, <1>3, <1>4, <1>5, <1>6, <1>7, <1>8, <1>9, <1>10, <1>11, <1>12,
     <1>13, <1>14, <1>15, <1>16
     DEF Next, NonSync, Syncs, CommitStep, Recover

-----------------------------------------------------------------------------
(* The phases of the boot and of a commit.                                  *)

\* Every step preserves BootInv.
LEMMA BootStep == LogInvariant /\ [Next]_vars => BootInv'
<1> SUFFICES ASSUME LogInvariant, [Next]_vars PROVE BootInv'
  OBVIOUS
<1>0. TypeOK /\ BootInv /\ CommitInv /\ HeaderInv
  BY DEF LogInvariant
<1>1. CASE ReadHeader
  BY <1>0, <1>1, MxNat, EmptyLog DEF ReadHeader, TypeOK, BootInv, CommitInv,
       diskVars, resVars, BootPhases, CommitLabels, HeaderInv
<1>2. CASE RecoverInstall
  BY <1>0, <1>2, MxNat, EmptyLog DEF RecoverInstall, CopyHome, LastRound,
       TypeOK, BootInv, CommitInv, diskVars, resVars, BootPhases, CommitLabels,
       HeaderInv
<1>3. CASE RecoverClear
  BY <1>0, <1>3, MxNat, EmptyLog DEF RecoverClear, EmptyHeader, TypeOK, BootInv,
       CommitInv, diskVars, resVars, BootPhases, CommitLabels, HeaderInv
<1>4. CASE Crash
  BY <1>0, <1>4, MxNat, EmptyLog DEF Crash, TypeOK, BootInv, CommitInv,
       diskVars, resVars, BootPhases, CommitLabels, HeaderInv
<1>5. ASSUME NEW b \in DirectBlocks, NEW v \in Values, SyncDirect(b, v)
      PROVE  BootInv'
  BY <1>0, <1>5, MxNat, EmptyLog DEF SyncDirect, TypeOK, BootInv, CommitInv,
       diskVars, resVars, BootPhases, CommitLabels, HeaderInv
<1>6. ASSUME NEW t \in Threads, NEW b \in Blocks \ DirectBlocks, NEW v \in Values,
             Sync(t, b, v)
      PROVE  BootInv'
  BY Zenon, <1>0, <1>6, MxNat, EmptyLog DEF Sync, SyncCase, TypeOK, BootInv, CommitInv,
       diskVars, resVars, BootPhases, CommitLabels, HeaderInv
<1>7. ASSUME NEW t \in Threads, BeginOp(t) PROVE BootInv'
  BY <1>0, <1>7, MxNat, EmptyLog DEF BeginOp, MustWait, TypeOK, BootInv,
       CommitInv, diskVars, resVars, BootPhases, CommitLabels, HeaderInv
<1>8. ASSUME NEW t \in Threads, EndOp(t) PROVE BootInv'
  BY Zenon, <1>0, <1>8, MxNat, EmptyLog DEF EndOp, GivesBack, WakeBeginners, TypeOK,
       BootInv, CommitInv, diskVars, resVars, BootPhases, CommitLabels,
       HeaderInv
<1>9. ASSUME NEW t \in Threads, EndOpReturn(t) PROVE BootInv'
  BY <1>0, <1>9, MxNat, EmptyLog DEF EndOpReturn, TypeOK, BootInv, CommitInv,
       diskVars, resVars, BootPhases, CommitLabels, HeaderInv
<1>10. ASSUME NEW t \in Threads, Commit(t) PROVE BootInv'
  BY <1>0, <1>10, MxNat, EmptyLog DEF Commit, Goto, TypeOK, BootInv, CommitInv,
       diskVars, resVars, BootPhases, CommitLabels, HeaderInv
<1>11. ASSUME NEW t \in Threads, WriteLog(t) PROVE BootInv'
  BY <1>0, <1>11, MxNat, EmptyLog DEF WriteLog, LastRound, Goto, TypeOK,
       BootInv, CommitInv, diskVars, resVars, BootPhases, CommitLabels,
       HeaderInv
<1>12. ASSUME NEW t \in Threads, WriteHeader(t) PROVE BootInv'
  BY <1>0, <1>12, MxNat, EmptyLog DEF WriteHeader, Goto, TypeOK, BootInv,
       CommitInv, diskVars, resVars, BootPhases, CommitLabels, HeaderInv
<1>13. ASSUME NEW t \in Threads, InstallTrans(t) PROVE BootInv'
  BY <1>0, <1>13, MxNat, EmptyLog DEF InstallTrans, CopyHome, LastRound, Goto,
       TypeOK, BootInv, CommitInv, diskVars, resVars, BootPhases, CommitLabels,
       HeaderInv
<1>14. ASSUME NEW t \in Threads, ClearHeader(t) PROVE BootInv'
  BY <1>0, <1>14, MxNat, EmptyLog DEF ClearHeader, EmptyHeader, Goto, TypeOK,
       BootInv, CommitInv, diskVars, resVars, BootPhases, CommitLabels,
       HeaderInv
<1>15. ASSUME NEW t \in Threads, FinishCommit(t) PROVE BootInv'
  BY <1>0, <1>15, MxNat, EmptyLog DEF FinishCommit, WakeBeginners, WakeEnders,
       TypeOK, BootInv, CommitInv, diskVars, resVars, BootPhases, CommitLabels,
       HeaderInv
<1>16. CASE UNCHANGED vars
  BY <1>0, <1>16 DEF vars, TypeOK, BootInv, CommitInv, diskVars, resVars,
       BootPhases, CommitLabels, HeaderInv
<1> QED
  BY <1>1, <1>2, <1>3, <1>4, <1>5, <1>6, <1>7, <1>8, <1>9, <1>10, <1>11, <1>12,
     <1>13, <1>14, <1>15, <1>16
     DEF Next, NonSync, Syncs, CommitStep, Recover

\* Every step preserves CommitInv: commit() runs alone.
LEMMA CommitsStep == LogInvariant /\ [Next]_vars => CommitInv'
<1> SUFFICES ASSUME LogInvariant, [Next]_vars PROVE CommitInv'
  OBVIOUS
<1>0. TypeOK /\ BootInv /\ CommitInv
  BY DEF LogInvariant
<1>1. CASE ReadHeader
  BY <1>0, <1>1, MxNat, EmptyLog DEF ReadHeader, TypeOK, BootInv, CommitInv,
       diskVars, resVars, BootPhases, CommitLabels
<1>2. CASE RecoverInstall
  BY <1>0, <1>2, MxNat, EmptyLog DEF RecoverInstall, CopyHome, LastRound,
       TypeOK, BootInv, CommitInv, diskVars, resVars, BootPhases, CommitLabels
<1>3. CASE RecoverClear
  BY <1>0, <1>3, MxNat, EmptyLog DEF RecoverClear, EmptyHeader, TypeOK, BootInv,
       CommitInv, diskVars, resVars, BootPhases, CommitLabels
<1>4. CASE Crash
  BY Zenon, <1>0, <1>4, MxNat, EmptyLog DEF Crash, TypeOK, BootInv, CommitInv,
       diskVars, resVars, BootPhases, CommitLabels
<1>5. ASSUME NEW b \in DirectBlocks, NEW v \in Values, SyncDirect(b, v)
      PROVE  CommitInv'
  BY <1>0, <1>5, MxNat, EmptyLog DEF SyncDirect, TypeOK, BootInv, CommitInv,
       diskVars, resVars, BootPhases, CommitLabels
<1>6. ASSUME NEW t \in Threads, NEW b \in Blocks \ DirectBlocks, NEW v \in Values,
             Sync(t, b, v)
      PROVE  CommitInv'
  BY Zenon, <1>0, <1>6, MxNat, EmptyLog DEF Sync, SyncCase, TypeOK, BootInv, CommitInv,
       diskVars, resVars, BootPhases, CommitLabels
<1>7. ASSUME NEW t \in Threads, BeginOp(t) PROVE CommitInv'
  <2> USE <1>0, MxNat, EmptyLog DEF TypeOK, BootInv, CommitInv, diskVars,
       resVars, BootPhases, CommitLabels
  <2>1. CASE MustWait
    BY <1>7, <2>1, ZenonT(90) DEF BeginOp
  <2>2. CASE ~MustWait
    <3>1. ~committing
      BY <2>2 DEF MustWait
    <3>2. pc' = [pc EXCEPT ![t] = "running"] /\ committing' = committing
      BY Zenon, <1>7, <2>2 DEF BeginOp
    <3> QED
      BY <1>7, <2>2, <3>1, <3>2 DEF BeginOp
  <2> QED
    BY Zenon, <2>1, <2>2
<1>8. ASSUME NEW t \in Threads, EndOp(t) PROVE CommitInv'
  <2> USE <1>0, MxNat, EmptyLog DEF TypeOK, BootInv, CommitInv, diskVars,
       resVars, BootPhases, CommitLabels
  <2>1. sys # "panicked" /\ ~committing /\ pc[t] = "running"
    BY Zenon, <1>8, EndOpEffect
  <2>2. CASE outstanding' = 0
    <3>1. \A u \in Threads \ {t} : pc[u] # "running"
      BY Zenon, <1>8, <2>1, <2>2, EndOpEffect, LastOperation
    <3>2. pc' = [pc EXCEPT ![t] = "commit"] /\ committing' = TRUE
      BY Zenon, <1>8, <2>2, EndOpEffect
    <3>3. rm' = [rm EXCEPT ![t] = 0] /\ header' = header /\ tail' = tail
      BY Zenon, <1>8, EndOpEffect
    <3> QED
      BY <2>1, <3>1, <3>2, <3>3
  <2>3. CASE outstanding' # 0
    <3>1. /\ pc' = WakeBeginners([pc EXCEPT ![t] = "end_sleep"])
          /\ ~committing'
      BY Zenon, <1>8, <2>3, EndOpEffect
    <3> QED
      BY <1>8, <2>1, <3>1, EndOpEffect, ZenonT(90) DEF WakeBeginners
  <2> QED
    BY Zenon, <2>2, <2>3
<1>9. ASSUME NEW t \in Threads, EndOpReturn(t) PROVE CommitInv'
  BY <1>0, <1>9, MxNat, EmptyLog DEF EndOpReturn, TypeOK, BootInv, CommitInv,
       diskVars, resVars, BootPhases, CommitLabels
<1>10. ASSUME NEW t \in Threads, Commit(t) PROVE CommitInv'
  BY <1>0, <1>10, MxNat, EmptyLog DEF Commit, Goto, TypeOK, BootInv, CommitInv,
       diskVars, resVars, BootPhases, CommitLabels
<1>11. ASSUME NEW t \in Threads, WriteLog(t) PROVE CommitInv'
  <2>a. pc[t] = "write_log" /\ tail < Len(header)
    BY <1>0, <1>11 DEF WriteLog, CommitInv
  <2>b. header \in Seq(Blocks) /\ tail \in Nat
    BY <1>0, MxNat DEF TypeOK
  <2>1. tail + 1 <= Len(header) /\ Len(header) \in Nat
    BY ONLY <2>a, <2>b
  <2> USE <1>0, MxNat, EmptyLog DEF TypeOK, BootInv, CommitInv, diskVars,
       resVars, BootPhases, CommitLabels
  <2>2. pc' = [pc EXCEPT ![t] = IF LastRound THEN "write_header" ELSE "write_log"]
    BY <1>11 DEF WriteLog, Goto
  <2> QED
    BY <1>11, <2>1, <2>2 DEF WriteLog, LastRound
<1>12. ASSUME NEW t \in Threads, WriteHeader(t) PROVE CommitInv'
  BY <1>0, <1>12, MxNat, EmptyLog DEF WriteHeader, Goto, TypeOK, BootInv,
       CommitInv, diskVars, resVars, BootPhases, CommitLabels
<1>13. ASSUME NEW t \in Threads, InstallTrans(t) PROVE CommitInv'
  BY <1>0, <1>13, MxNat, EmptyLog DEF InstallTrans, CopyHome, LastRound, Goto,
       TypeOK, BootInv, CommitInv, diskVars, resVars, BootPhases, CommitLabels
<1>14. ASSUME NEW t \in Threads, ClearHeader(t) PROVE CommitInv'
  BY <1>0, <1>14, MxNat, EmptyLog DEF ClearHeader, EmptyHeader, Goto, TypeOK,
       BootInv, CommitInv, diskVars, resVars, BootPhases, CommitLabels
<1>15. ASSUME NEW t \in Threads, FinishCommit(t) PROVE CommitInv'
  <2> USE <1>0, MxNat, EmptyLog DEF TypeOK, BootInv, CommitInv, diskVars,
       resVars, BootPhases, CommitLabels
  <2>1. \A u \in Threads : u # t => pc[u] \notin CommitLabels
    BY <1>15 DEF FinishCommit
  <2>2. /\ pc' = WakeBeginners(WakeEnders([pc EXCEPT ![t] = "idle"]))
        /\ committing' = FALSE /\ rm' = rm
    BY <1>15 DEF FinishCommit
  <2>3. \A u \in Threads : pc'[u] \notin CommitLabels
    BY <2>1, <2>2 DEF WakeBeginners, WakeEnders
  <2>4. \A u \in Threads : pc'[u] = "running" <=> pc[u] = "running"
    BY <1>15, <2>2 DEF FinishCommit, WakeBeginners, WakeEnders
  <2> QED
    BY Zenon, <2>2, <2>3, <2>4
<1>16. CASE UNCHANGED vars
  BY <1>0, <1>16 DEF vars, TypeOK, BootInv, CommitInv, diskVars, resVars,
       BootPhases, CommitLabels
<1> QED
  BY <1>1, <1>2, <1>3, <1>4, <1>5, <1>6, <1>7, <1>8, <1>9, <1>10, <1>11, <1>12,
     <1>13, <1>14, <1>15, <1>16
     DEF Next, NonSync, Syncs, CommitStep, Recover

-----------------------------------------------------------------------------
(* What the log holds.                                                      *)

\* Appending a block that is not logged to the header.
LEMMA AppendLog ==
  ASSUME NEW h \in Seq(Blocks), NEW b \in Blocks
  PROVE  /\ \A c : In(c, Append(h, b)) <=> In(c, h) \/ c = b
         /\ (NoRepeats(h) /\ ~In(b, h)) => NoRepeats(Append(h, b))
<1>1. DOMAIN Append(h, b) = DOMAIN h \cup {Len(h) + 1}
  OBVIOUS
<1>2. \A i \in DOMAIN h : Append(h, b)[i] = h[i] /\ i # Len(h) + 1
  OBVIOUS
<1>3. Append(h, b)[Len(h) + 1] = b
  OBVIOUS
<1> QED
  BY <1>1, <1>2, <1>3, Zenon DEF In, NoRepeats

\* What cache_sync does: it appends, absorbs or panics, never during a commit.
LEMMA SyncEffect ==
  ASSUME LogInvariant, NEW t \in Threads, NEW b \in Blocks \ DirectBlocks,
         NEW v \in Values, Sync(t, b, v)
  PROVE  /\ sys = "up" /\ pc[t] = "running" /\ ~committing
         /\ \A u \in Threads : pc[u] \notin CommitLabels
         /\ mem' = [mem EXCEPT ![b] = v]
         /\ UNCHANGED <<diskVars, outstanding, committing, pc, tail, crashes>>
         /\ panic' \notin {"log_write outside of trans", "log committing"}
         /\ \/ /\ ~In(b, header) /\ header' = Append(header, b)
               /\ pinned' = [pinned EXCEPT ![b] = TRUE]
               /\ rm[t] > 0 /\ rm' = [rm EXCEPT ![t] = rm[t] - 1]
               /\ mu' = mu - 1 /\ sys' = "up"
            \/ /\ In(b, header) /\ UNCHANGED <<header, pinned, rm, mu, sys>>
            \/ /\ sys' = "panicked" /\ UNCHANGED <<rm, mu>>
               /\ \/ header' = header
                  \/ ~In(b, header) /\ header' = Append(header, b)
<1>1. sys = "up" /\ pc[t] = "running" /\ sys # "panicked"
  BY Zenon DEF Sync
<1>2. ~committing /\ \A u \in Threads : pc[u] \notin CommitLabels
  BY <1>1 DEF LogInvariant, CommitInv
<1>3. outstanding >= 1
  <2>1. outstanding - 1 \in Nat
    BY Zenon, <1>1, LastOperation
  <2> QED
    BY <2>1 DEF LogInvariant, TypeOK
<1>4. SyncCase(t, b) # "log_write outside of trans"
  BY <1>3 DEF SyncCase, LogInvariant, TypeOK
<1>5. Logged(b) <=> In(b, header)
  BY DEF Logged, In
<1>6. panic' \notin {"log_write outside of trans", "log committing"}
  <2>1. SyncCase(t, b) # "log committing"
    BY DEF SyncCase
  <2> QED
    BY Zenon, <1>4, <2>1 DEF Sync, LogInvariant, NoProtocolPanic
<1>7. CASE SyncCase(t, b) = "appended"
  BY Zenon, <1>1, <1>2, <1>5, <1>6, <1>7 DEF Sync, SyncPins, SyncCase
<1>8. CASE SyncCase(t, b) = "absorbed"
  BY Zenon, <1>1, <1>2, <1>5, <1>6, <1>8 DEF Sync, SyncPins, SyncCase
<1>9. CASE SyncCase(t, b) = "OP_MAX_BLOCK exceeded"
  BY Zenon, <1>1, <1>2, <1>5, <1>6, <1>9 DEF Sync, SyncCase
<1>10. CASE SyncCase(t, b) = "too big a transaction"
  BY Zenon, <1>1, <1>2, <1>6, <1>10 DEF Sync
<1> QED
  BY Zenon, <1>4, <1>7, <1>8, <1>9, <1>10 DEF SyncCase

\* Every step preserves HeaderInv.
LEMMA HeaderStep == LogInvariant /\ [Next]_vars => HeaderInv'
<1> SUFFICES ASSUME LogInvariant, [Next]_vars PROVE HeaderInv'
  OBVIOUS
<1>0. TypeOK /\ BootInv /\ CommitInv /\ HeaderInv
  BY DEF LogInvariant
<1>1. CASE ReadHeader
  BY <1>0, <1>1, EmptyLog DEF ReadHeader, TypeOK, BootInv, CommitInv, HeaderInv,
       diskVars, resVars, BootPhases, CommitLabels
<1>2. CASE RecoverInstall
  BY <1>0, <1>2, EmptyLog DEF RecoverInstall, CopyHome, LastRound, TypeOK,
       BootInv, CommitInv, HeaderInv, diskVars, resVars, BootPhases,
       CommitLabels
<1>3. CASE RecoverClear
  <2> USE <1>0, EmptyLog DEF TypeOK, BootInv, CommitInv, HeaderInv, diskVars,
       resVars, BootPhases, CommitLabels
  <2>1. NoRepeats(<<>>) /\ \A b \in DirectBlocks : ~In(b, <<>>)
    BY DEF NoRepeats, In
  <2> QED
    BY <1>3, <2>1 DEF RecoverClear, EmptyHeader
<1>4. CASE Crash
  <2> USE <1>0, EmptyLog DEF TypeOK, BootInv, CommitInv, HeaderInv, diskVars,
       resVars, BootPhases, CommitLabels
  <2>1. /\ UNCHANGED headerDisk /\ header' = <<>> /\ sys' = "read_header"
        /\ \A t \in Threads : pc'[t] = "idle"
    BY <1>4 DEF Crash
  <2>2. NoRepeats(<<>>) /\ \A b \in DirectBlocks : ~In(b, <<>>)
    BY DEF NoRepeats, In
  <2> QED
    BY <2>1, <2>2
<1>5. ASSUME NEW b \in DirectBlocks, NEW v \in Values, SyncDirect(b, v)
      PROVE  HeaderInv'
  BY <1>0, <1>5, EmptyLog DEF SyncDirect, TypeOK, BootInv, CommitInv, HeaderInv,
       diskVars, resVars, BootPhases, CommitLabels
<1>6. ASSUME NEW t \in Threads, NEW b \in Blocks \ DirectBlocks, NEW v \in Values,
             Sync(t, b, v)
      PROVE  HeaderInv'
  <2> USE <1>0, EmptyLog DEF TypeOK, BootInv, CommitInv, HeaderInv, diskVars,
       resVars, BootPhases, CommitLabels
  <2>1. /\ UNCHANGED <<headerDisk, pc, committing>> /\ pc[t] = "running"
        /\ \A u \in Threads : pc[u] \notin CommitLabels
        /\ sys = "up" /\ sys' \in {"up", "panicked"}
    BY Zenon, <1>6, SyncEffect
  <2>2. header' = header \/ (~In(b, header) /\ header' = Append(header, b))
    BY Zenon, <1>6, SyncEffect
  <2>3. NoRepeats(header') /\ \A c \in DirectBlocks : ~In(c, header')
    <3>1. header \in Seq(Blocks) /\ NoRepeats(header)
      OBVIOUS
    <3>2. /\ \A c : In(c, Append(header, b)) <=> In(c, header) \/ c = b
          /\ ~In(b, header) => NoRepeats(Append(header, b))
      BY <3>1, AppendLog
    <3> QED
      BY Zenon, <2>2, <3>2
  <2>4. headerDisk = <<>>
    BY <2>1
  <2> QED
    BY <2>1, <2>3, <2>4
<1>7. ASSUME NEW t \in Threads, BeginOp(t) PROVE HeaderInv'
  <2> USE <1>0, EmptyLog DEF TypeOK, BootInv, CommitInv, HeaderInv, diskVars,
       resVars, BootPhases, CommitLabels
  <2>1. UNCHANGED <<header, headerDisk, sys>> /\ sys = "up"
    BY <1>7 DEF BeginOp
  <2>2. CASE MustWait
    <3>1. pc' = [pc EXCEPT ![t] = "begin_sleep"] /\ committing' = committing
      BY Zenon, <1>7, <2>2 DEF BeginOp
    <3>2. pc[t] # "running" /\ pc[t] \notin CommitLabels
      BY <1>7 DEF BeginOp
    <3> QED
      BY <2>1, <3>1, <3>2
  <2>3. CASE ~MustWait
    <3>1. pc' = [pc EXCEPT ![t] = "running"]
      BY <1>7, <2>3 DEF BeginOp
    <3>2. pc[t] \notin CommitLabels
      BY <1>7 DEF BeginOp
    <3> QED
      BY <2>1, <3>1, <3>2
  <2> QED
    BY <2>2, <2>3
<1>8. ASSUME NEW t \in Threads, EndOp(t) PROVE HeaderInv'
  <2> USE <1>0, EmptyLog DEF TypeOK, BootInv, CommitInv, HeaderInv, diskVars,
       resVars, BootPhases, CommitLabels
  <2>1. /\ UNCHANGED <<header, headerDisk, sys>> /\ sys = "up" /\ sys # "panicked"
        /\ ~committing /\ pc[t] = "running"
    BY Zenon, <1>8, EndOpEffect
  <2>2. headerDisk = <<>>
    BY <2>1
  <2>3. CASE outstanding' = 0
    <3>1. pc' = [pc EXCEPT ![t] = "commit"] /\ committing' = TRUE
      BY Zenon, <1>8, <2>3, EndOpEffect
    <3> QED
      BY <2>1, <2>2, <3>1
  <2>4. CASE outstanding' # 0
    <3>1. pc' = WakeBeginners([pc EXCEPT ![t] = "end_sleep"])
      BY Zenon, <1>8, <2>4, EndOpEffect
    <3>2. PICK u \in Threads \ {t} : pc[u] = "running"
      BY Zenon, <1>8, <2>1, <2>4, EndOpEffect, LastOperation
    <3>3. pc'[u] = "running"
      BY <3>1, <3>2 DEF WakeBeginners
    <3>4. \A w \in Threads : pc'[w] \notin CommitLabels
      BY <2>1, <3>1 DEF WakeBeginners
    <3> QED
      BY <2>1, <2>2, <3>3, <3>4
  <2> QED
    BY <2>3, <2>4
<1>9. ASSUME NEW t \in Threads, EndOpReturn(t) PROVE HeaderInv'
  BY <1>0, <1>9, EmptyLog DEF EndOpReturn, TypeOK, BootInv, CommitInv,
       HeaderInv, diskVars, resVars, BootPhases, CommitLabels
<1>10. ASSUME NEW t \in Threads, Commit(t) PROVE HeaderInv'
  BY <1>0, <1>10, EmptyLog DEF Commit, Goto, TypeOK, BootInv, CommitInv,
       HeaderInv, diskVars, resVars, BootPhases, CommitLabels
<1>11. ASSUME NEW t \in Threads, WriteLog(t) PROVE HeaderInv'
  BY <1>0, <1>11, EmptyLog DEF WriteLog, LastRound, Goto, TypeOK, BootInv,
       CommitInv, HeaderInv, diskVars, resVars, BootPhases, CommitLabels
<1>12. ASSUME NEW t \in Threads, WriteHeader(t) PROVE HeaderInv'
  BY <1>0, <1>12, EmptyLog DEF WriteHeader, Goto, TypeOK, BootInv, CommitInv,
       HeaderInv, diskVars, resVars, BootPhases, CommitLabels
<1>13. ASSUME NEW t \in Threads, InstallTrans(t) PROVE HeaderInv'
  BY <1>0, <1>13, EmptyLog DEF InstallTrans, CopyHome, LastRound, Goto, TypeOK,
       BootInv, CommitInv, HeaderInv, diskVars, resVars, BootPhases,
       CommitLabels
<1>14. ASSUME NEW t \in Threads, ClearHeader(t) PROVE HeaderInv'
  <2> USE <1>0, EmptyLog DEF TypeOK, BootInv, CommitInv, HeaderInv, diskVars,
       resVars, BootPhases, CommitLabels
  <2>1. NoRepeats(<<>>) /\ \A b \in DirectBlocks : ~In(b, <<>>)
    BY DEF NoRepeats, In
  <2> QED
    BY <1>14, <2>1 DEF ClearHeader, EmptyHeader, Goto
<1>15. ASSUME NEW t \in Threads, FinishCommit(t) PROVE HeaderInv'
  BY <1>0, <1>15, EmptyLog DEF FinishCommit, WakeBeginners, WakeEnders, TypeOK,
       BootInv, CommitInv, HeaderInv, diskVars, resVars, BootPhases,
       CommitLabels
<1>16. CASE UNCHANGED vars
  BY <1>0, <1>16 DEF vars, TypeOK, BootInv, CommitInv, HeaderInv, diskVars,
       resVars, BootPhases, CommitLabels
<1> QED
  BY <1>1, <1>2, <1>3, <1>4, <1>5, <1>6, <1>7, <1>8, <1>9, <1>10, <1>11, <1>12,
     <1>13, <1>14, <1>15, <1>16
     DEF Next, NonSync, Syncs, CommitStep, Recover

-----------------------------------------------------------------------------
(* Memory, the log blocks and the disk.                                     *)

\* Steps that only move threads to labels at which DataInv says nothing of them.
LEMMA DataFrame ==
  ASSUME DataInv, sys = "up", sys' \in {"up", "panicked"},
         UNCHANGED <<mem, disk, logDisk, header, pinned, tail>>,
         \A u \in Threads : pc'[u] \in CommitLabels => pc'[u] \in {pc[u], "commit", "finish"}
  PROVE  DataInv'
<1>1. /\ mem' = mem /\ disk' = disk /\ logDisk' = logDisk
      /\ header' = header /\ pinned' = pinned /\ tail' = tail
  OBVIOUS
<1>2. \A b \in Blocks : IF In(b, header') THEN pinned'[b] ELSE mem'[b] = disk'[b]
  <2>1. \A b \in Blocks : IF In(b, header) THEN pinned[b] ELSE mem[b] = disk[b]
    BY DEF DataInv
  <2> QED
    BY ONLY <1>1, <2>1
<1>3. ASSUME NEW u \in Threads
      PROVE  /\ pc'[u] = "write_log" => \A i \in 1..tail' : logDisk'[i] = mem'[header'[i]]
             /\ pc'[u] \in {"write_header", "install", "clear_header"} =>
                   \A i \in DOMAIN header' : logDisk'[i] = mem'[header'[i]]
             /\ pc'[u] = "install" => \A i \in 1..tail' : disk'[header'[i]] = mem'[header'[i]]
             /\ pc'[u] = "clear_header" => mem' = disk'
  <2>1. pc'[u] \in {"write_log", "write_header", "install", "clear_header"} => pc'[u] = pc[u]
    BY DEF CommitLabels
  <2>2. /\ pc[u] = "write_log" => \A i \in 1..tail : logDisk[i] = mem[header[i]]
        /\ pc[u] \in {"write_header", "install", "clear_header"} =>
              \A i \in DOMAIN header : logDisk[i] = mem[header[i]]
        /\ pc[u] = "install" => \A i \in 1..tail : disk[header[i]] = mem[header[i]]
        /\ pc[u] = "clear_header" => mem = disk
    BY DEF DataInv
  <2>3. pc'[u] = "write_log" => \A i \in 1..tail' : logDisk'[i] = mem'[header'[i]]
    BY ONLY <1>1, <2>1, <2>2
  <2>4. pc'[u] \in {"write_header", "install", "clear_header"} =>
          \A i \in DOMAIN header' : logDisk'[i] = mem'[header'[i]]
    BY ONLY <1>1, <2>1, <2>2
  <2>5. pc'[u] = "install" => \A i \in 1..tail' : disk'[header'[i]] = mem'[header'[i]]
    BY ONLY <1>1, <2>1, <2>2
  <2>6. pc'[u] = "clear_header" => mem' = disk'
    BY ONLY <1>1, <2>1, <2>2
  <2> QED
    BY ONLY <2>3, <2>4, <2>5, <2>6
<1>4. sys' # "install" /\ sys' # "clear_header"
  OBVIOUS
<1> QED
  BY ONLY <1>2, <1>3, <1>4 DEF DataInv

\* Steps of a committing thread t, or of the boot, in terms of where t arrives.
LEMMA DataCommitting ==
  ASSUME NEW t \in Threads, sys' = "up",
         \A u \in Threads \ {t} : pc'[u] \notin CommitLabels,
         \A b \in Blocks : IF In(b, header') THEN pinned'[b] ELSE mem'[b] = disk'[b],
         pc'[t] = "write_log" => \A i \in 1..tail' : logDisk'[i] = mem'[header'[i]],
         pc'[t] \in {"write_header", "install", "clear_header"} =>
            \A i \in DOMAIN header' : logDisk'[i] = mem'[header'[i]],
         pc'[t] = "install" => \A i \in 1..tail' : disk'[header'[i]] = mem'[header'[i]],
         pc'[t] = "clear_header" => mem' = disk'
  PROVE  DataInv'
<1>1. \A u \in Threads : u = t \/
        pc'[u] \notin {"write_log", "write_header", "install", "clear_header"}
  BY DEF CommitLabels
<1> QED
  BY <1>1 DEF DataInv

\* Steps after which no thread commits.
LEMMA DataBooting ==
  ASSUME \A t \in Threads : pc'[t] \notin CommitLabels,
         sys' = "up" => \A b \in Blocks : IF In(b, header') THEN pinned'[b] ELSE mem'[b] = disk'[b],
         sys' = "install" => \A i \in 1..tail' : disk'[header'[i]] = logDisk'[i],
         sys' = "clear_header" => \A i \in DOMAIN header' : disk'[header'[i]] = logDisk'[i]
  PROVE  DataInv'
<1>1. \A t \in Threads : pc'[t] \notin {"write_log", "write_header", "install", "clear_header"}
  BY DEF CommitLabels
<1> QED
  BY <1>1 DEF DataInv

\* Every step preserves DataInv.
LEMMA DataStep == LogInvariant /\ [Next]_vars => DataInv'
<1> SUFFICES ASSUME LogInvariant, [Next]_vars PROVE DataInv'
  OBVIOUS
<1>0. TypeOK /\ BootInv /\ CommitInv /\ HeaderInv /\ DataInv
  BY DEF LogInvariant
<1>a. /\ tail \in Nat /\ Len(header) \in Nat /\ DOMAIN header = 1..Len(header)
      /\ Len(header) <= mx /\ \A i \in DOMAIN header : header[i] \in Blocks
  BY <1>0, MxNat DEF TypeOK
<1>b. /\ mem \in [Blocks -> Values] /\ disk \in [Blocks -> Values]
      /\ logDisk \in [1..mx -> Values] /\ DOMAIN pc = Threads
  BY <1>0 DEF TypeOK
<1>c. sys \in BootPhases => \A t \in Threads : pc[t] \notin CommitLabels
  BY <1>0 DEF BootInv, CommitLabels
<1>d. ASSUME NEW t \in Threads, pc[t] \in CommitLabels
      PROVE  \A u \in Threads \ {t} : pc[u] \notin CommitLabels
  BY <1>0, <1>d DEF CommitInv
<1>e. sys = "up" => \A b \in Blocks : IF In(b, header) THEN pinned[b] ELSE mem[b] = disk[b]
  BY <1>0 DEF DataInv
<1>1. CASE ReadHeader
  <2>1. /\ sys \in BootPhases /\ pc' = pc /\ tail' = 0
        /\ sys' \in {"install", "clear_header"} /\ (sys' = "clear_header" => header' = <<>>)
    BY <1>1 DEF ReadHeader, BootPhases
  <2>2. \A t \in Threads : pc'[t] \notin CommitLabels
    BY <1>c, <2>1
  <2>3. 1..tail' = {} /\ (sys' = "clear_header" => DOMAIN header' = {})
    BY <2>1, EmptyLog
  <2> QED
    BY <2>1, <2>2, <2>3, DataBooting
<1>2. CASE RecoverInstall
  <2>1. /\ sys = "install" /\ tail < Len(header)
        /\ disk' = [disk EXCEPT ![header[tail + 1]] = logDisk[tail + 1]]
        /\ tail' = tail + 1 /\ UNCHANGED <<logDisk, header, pc>>
        /\ sys' = IF LastRound THEN "clear_header" ELSE "install"
    BY <1>0, <1>2 DEF RecoverInstall, CopyHome, BootInv
  <2>2. \A i \in 1..tail' : i = tail + 1 \/ i \in 1..tail
    BY <1>a, <2>1
  <2>3. /\ tail + 1 \in DOMAIN header
        /\ \A i \in 1..tail : i \in DOMAIN header /\ i # tail + 1
    BY <1>a, <2>1
  <2>4. \A i \in 1..tail : disk[header[i]] = logDisk[i]
    BY <1>0, <2>1 DEF DataInv
  <2>5. \A i \in 1..tail : header[i] # header[tail + 1]
    BY <1>0, <2>3, Zenon DEF HeaderInv, NoRepeats
  <2>6. \A i \in 1..tail' : disk'[header[i]] = logDisk[i]
    BY <1>a, <1>b, <2>1, <2>2, <2>3, <2>4, <2>5
  <2>7. LastRound => DOMAIN header = 1..tail'
    BY Zenon, <1>a, <2>1 DEF LastRound
  <2>8. \A t \in Threads : pc'[t] \notin CommitLabels
    BY <1>c, <2>1 DEF BootPhases
  <2> QED
    BY <2>1, <2>6, <2>7, <2>8, DataBooting
<1>3. CASE RecoverClear
  <2>1. /\ sys \in BootPhases /\ sys' = "up" /\ header' = <<>>
        /\ UNCHANGED <<pc, mem, disk>>
    BY <1>3 DEF RecoverClear, EmptyHeader, BootPhases
  <2>2. mem' = disk'
    BY <1>0, <2>1 DEF BootInv
  <2>3. \A b : ~In(b, header')
    BY <2>1, EmptyLog DEF In
  <2>4. \A t \in Threads : pc'[t] \notin CommitLabels
    BY <1>c, <2>1
  <2> QED
    BY <2>1, <2>2, <2>3, <2>4, DataBooting
<1>4. CASE Crash
  <2>1. sys' = "read_header" /\ \A t \in Threads : pc'[t] \notin CommitLabels
    BY <1>4 DEF Crash, CommitLabels
  <2> QED
    BY <2>1, DataBooting
<1>5. ASSUME NEW b \in DirectBlocks, NEW v \in Values, SyncDirect(b, v)
      PROVE  DataInv'
  <2>1. /\ mem' = [mem EXCEPT ![b] = v] /\ disk' = [disk EXCEPT ![b] = v]
        /\ UNCHANGED <<logDisk, header, pinned, pc, tail, sys>> /\ sys = "up"
    BY <1>5 DEF SyncDirect
  <2>2. \A i \in DOMAIN header : header[i] # b
    BY <1>0 DEF HeaderInv, In
  <2>3. \A i \in DOMAIN header : /\ mem'[header[i]] = mem[header[i]]
                                 /\ disk'[header[i]] = disk[header[i]]
    BY <1>a, <1>b, <2>1, <2>2
  <2>4. \A c \in Blocks : mem[c] = disk[c] => mem'[c] = disk'[c]
    BY <1>b, <2>1
  <2>5. mem = disk => mem' = disk'
    BY <2>1
  <2>6. \A t \in Threads : pc[t] \in {"write_log", "install"} => 1..tail \subseteq DOMAIN header
    <3>1. tail < Len(header) => 1..tail \subseteq DOMAIN header
      BY <1>a
    <3> QED
      BY <1>0, <3>1 DEF CommitInv
  <2>7. CASE \A t \in Threads : pc[t] \notin CommitLabels
    BY <1>e, <2>1, <2>4, <2>7, DataBooting
  <2>8. ASSUME NEW t \in Threads, pc[t] \in CommitLabels PROVE DataInv'
    <3>1. \A u \in Threads \ {t} : pc'[u] \notin CommitLabels
      BY <1>d, <2>1, <2>8
    <3>2. \A c \in Blocks : IF In(c, header') THEN pinned'[c] ELSE mem'[c] = disk'[c]
      BY <1>e, <2>1, <2>4 DEF In
    <3>a. /\ pc[t] = "write_log" => \A i \in 1..tail : logDisk[i] = mem[header[i]]
          /\ pc[t] = "install" => \A i \in 1..tail : disk[header[i]] = mem[header[i]]
      BY <1>0 DEF DataInv
    <3>b. pc[t] \in {"write_log", "install"} =>
            \A i \in 1..tail : /\ mem'[header[i]] = mem[header[i]]
                               /\ disk'[header[i]] = disk[header[i]]
      BY ONLY <2>3, <2>6, t \in Threads
    <3>3. pc'[t] = "write_log" => \A i \in 1..tail' : logDisk'[i] = mem'[header'[i]]
      BY ONLY <2>1, <3>a, <3>b
    <3>4. pc'[t] \in {"write_header", "install", "clear_header"} =>
            \A i \in DOMAIN header' : logDisk'[i] = mem'[header'[i]]
      BY <1>0, <2>1, <2>3 DEF DataInv
    <3>5. pc'[t] = "install" => \A i \in 1..tail' : disk'[header'[i]] = mem'[header'[i]]
      BY ONLY <2>1, <3>a, <3>b
    <3>6. pc'[t] = "clear_header" => mem' = disk'
      BY <1>0, <2>1, <2>5 DEF DataInv
    <3> QED
      BY Zenon, <2>1, <3>1, <3>2, <3>3, <3>4, <3>5, <3>6, DataCommitting
  <2> QED
    BY <2>7, <2>8
<1>6. ASSUME NEW t \in Threads, NEW b \in Blocks \ DirectBlocks, NEW v \in Values,
             Sync(t, b, v)
      PROVE  DataInv'
  <2>1. /\ UNCHANGED <<disk, pc>> /\ mem' = [mem EXCEPT ![b] = v]
        /\ \A u \in Threads : pc[u] \notin CommitLabels
        /\ sys = "up" /\ sys' \in {"up", "panicked"}
    BY Zenon, <1>6, SyncEffect DEF diskVars
  <2>2. \/ /\ header' = Append(header, b)
           /\ pinned' = [pinned EXCEPT ![b] = TRUE]
        \/ In(b, header) /\ UNCHANGED <<header, pinned>>
        \/ sys' = "panicked"
    BY Zenon, <1>6, SyncEffect
  <2>3. \A c : In(c, Append(header, b)) <=> In(c, header) \/ c = b
    BY <1>0, AppendLog DEF TypeOK
  <2>4. ASSUME sys' = "up", NEW c \in Blocks
        PROVE  IF In(c, header') THEN pinned'[c] ELSE mem'[c] = disk'[c]
    <3>1. IF In(c, header) THEN pinned[c] ELSE mem[c] = disk[c]
      BY <1>0, <2>1 DEF DataInv
    <3>2. c # b => mem'[c] = mem[c]
      BY <2>1
    <3>3. CASE /\ header' = Append(header, b)
               /\ pinned' = [pinned EXCEPT ![b] = TRUE]
      <4>1. pinned' \in [Blocks -> BOOLEAN] /\ pinned'[b] = TRUE
            /\ (c # b => pinned'[c] = pinned[c])
        BY Zenon, <1>0, <3>3 DEF TypeOK
      <4> QED
        BY <2>1, <2>3, <3>1, <3>2, <3>3, <4>1
    <3>4. CASE In(b, header) /\ UNCHANGED <<header, pinned>>
      BY <2>1, <3>1, <3>2, <3>4
    <3> QED
      BY <2>2, <2>4, <3>3, <3>4
  <2>5. \A u \in Threads : pc'[u] \notin CommitLabels
    BY <2>1
  <2> QED
    BY <2>1, <2>4, <2>5, DataBooting
<1>7. ASSUME NEW t \in Threads, BeginOp(t) PROVE DataInv'
  <2>1. UNCHANGED <<mem, disk, logDisk, header, pinned, tail, sys>> /\ sys = "up"
    BY <1>7 DEF BeginOp, diskVars
  <2>2. \E l \in {"running", "begin_sleep"} : pc' = [pc EXCEPT ![t] = l]
    BY <1>7 DEF BeginOp
  <2>3. \A u \in Threads : pc'[u] \in CommitLabels => pc'[u] = pc[u]
    BY <1>b, <2>2 DEF CommitLabels
  <2> QED
    BY <1>0, <2>1, <2>3, DataFrame
<1>8. ASSUME NEW t \in Threads, EndOp(t) PROVE DataInv'
  <2>1. /\ UNCHANGED <<mem, disk, logDisk, header, pinned, tail>> /\ sys = "up"
        /\ sys' \in {"up", "panicked"}
    BY Zenon, <1>8 DEF EndOp, diskVars
  <2>2. \A u \in Threads : pc'[u] \in CommitLabels => pc'[u] \in {pc[u], "commit"}
    BY <1>b, <1>8, EndOpEffect DEF WakeBeginners, CommitLabels
  <2> QED
    BY <1>0, <2>1, <2>2, DataFrame
<1>9. ASSUME NEW t \in Threads, EndOpReturn(t) PROVE DataInv'
  <2>1. UNCHANGED <<mem, disk, logDisk, header, pinned, tail, sys>> /\ sys = "up"
    BY <1>9 DEF EndOpReturn, diskVars
  <2>2. \A u \in Threads : pc'[u] \in CommitLabels => pc'[u] = pc[u]
    BY <1>b, <1>9 DEF EndOpReturn, CommitLabels
  <2> QED
    BY <1>0, <2>1, <2>2, DataFrame
<1>10. ASSUME NEW t \in Threads, Commit(t) PROVE DataInv'
  <2>1. /\ UNCHANGED <<mem, disk, logDisk, header, pinned, sys>> /\ sys = "up"
        /\ tail' = 0 /\ pc[t] \in CommitLabels
    BY <1>10 DEF Commit, diskVars, CommitLabels
  <2>2. \E l \in {"finish", "write_log"} : pc' = [pc EXCEPT ![t] = l]
    BY Zenon, <1>10 DEF Commit, Goto
  <2>3. pc'[t] \in {"finish", "write_log"} /\ \A u \in Threads \ {t} : pc'[u] = pc[u]
    BY <1>b, <2>2
  <2>4. \A u \in Threads \ {t} : pc'[u] \notin CommitLabels
    BY Zenon, <1>d, <2>1, <2>3
  <2>5. 1..tail' = {}
    BY <2>1
  <2>6. \A b \in Blocks : IF In(b, header') THEN pinned'[b] ELSE mem'[b] = disk'[b]
    BY Zenon, <1>e, <2>1 DEF In
  <2> QED
    BY Zenon, <2>1, <2>3, <2>4, <2>5, <2>6, DataCommitting
<1>11. ASSUME NEW t \in Threads, WriteLog(t) PROVE DataInv'
  <2>1. /\ logDisk' = [logDisk EXCEPT ![tail + 1] = mem[header[tail + 1]]]
        /\ tail' = tail + 1 /\ UNCHANGED <<disk, mem, header, pinned, sys>>
        /\ sys = "up" /\ pc[t] = "write_log"
    BY Zenon, <1>11 DEF WriteLog
  <2>2. tail < Len(header) /\ \A i \in 1..tail : logDisk[i] = mem[header[i]]
    BY Zenon, <1>0, <2>1 DEF CommitInv, DataInv
  <2>3. \A i \in 1..tail' : i \in 1..mx /\ (i = tail + 1 \/ (i \in 1..tail /\ i # tail + 1))
    BY <1>a, <2>1, <2>2, MxNat
  <2>4. \A i \in 1..tail' : logDisk'[i] = mem'[header'[i]]
    BY Zenon, <1>b, <2>1, <2>2, <2>3
  <2>5. LastRound => DOMAIN header' = 1..tail'
    BY Zenon, <1>a, <2>1 DEF LastRound
  <2>6. pc' = [pc EXCEPT ![t] = IF LastRound THEN "write_header" ELSE "write_log"]
    BY Zenon, <1>11 DEF WriteLog, Goto
  <2>7. /\ pc'[t] \in {"write_log", "write_header"} /\ (pc'[t] = "write_header" => LastRound)
        /\ \A u \in Threads \ {t} : pc'[u] = pc[u]
    BY Zenon, <1>b, <2>6
  <2>8. \A u \in Threads \ {t} : pc'[u] \notin CommitLabels
    BY Zenon, <1>d, <2>1, <2>7 DEF CommitLabels
  <2>9. \A b \in Blocks : IF In(b, header') THEN pinned'[b] ELSE mem'[b] = disk'[b]
    BY Zenon, <1>e, <2>1 DEF In
  <2> QED
    BY Zenon, <2>1, <2>4, <2>5, <2>7, <2>8, <2>9, DataCommitting
<1>12. ASSUME NEW t \in Threads, WriteHeader(t) PROVE DataInv'
  <2>1. /\ UNCHANGED <<mem, disk, logDisk, header, pinned, sys>> /\ sys = "up"
        /\ tail' = 0 /\ pc[t] = "write_header" /\ pc' = [pc EXCEPT ![t] = "install"]
    BY Zenon, <1>12 DEF WriteHeader, Goto
  <2>2. pc'[t] = "install" /\ \A u \in Threads \ {t} : pc'[u] = pc[u]
    BY Zenon, <1>b, <2>1
  <2>3. \A u \in Threads \ {t} : pc'[u] \notin CommitLabels
    BY Zenon, <1>d, <2>1, <2>2 DEF CommitLabels
  <2>4. \A i \in DOMAIN header' : logDisk'[i] = mem'[header'[i]]
    BY Zenon, <1>0, <2>1 DEF DataInv
  <2>5. 1..tail' = {}
    BY <2>1
  <2>6. \A b \in Blocks : IF In(b, header') THEN pinned'[b] ELSE mem'[b] = disk'[b]
    BY Zenon, <1>e, <2>1 DEF In
  <2> QED
    BY Zenon, <2>1, <2>2, <2>3, <2>4, <2>5, <2>6, DataCommitting
<1>13. ASSUME NEW t \in Threads, InstallTrans(t) PROVE DataInv'
  <2> DEFINE h == header[tail + 1]
  <2>1. /\ disk' = [disk EXCEPT ![h] = logDisk[tail + 1]]
        /\ mem' = [mem EXCEPT ![h] = logDisk[tail + 1]] /\ tail' = tail + 1
        /\ UNCHANGED <<logDisk, header, pinned, sys>> /\ sys = "up" /\ pc[t] = "install"
    BY Zenon, <1>13 DEF InstallTrans, CopyHome
  <2>2. /\ tail < Len(header) /\ \A i \in DOMAIN header : logDisk[i] = mem[header[i]]
        /\ \A i \in 1..tail : disk[header[i]] = mem[header[i]]
    BY Zenon, <1>0, <2>1 DEF CommitInv, DataInv
  <2>3. tail + 1 \in DOMAIN header
    BY <1>a, <2>2
  <2>4. h \in Blocks /\ logDisk[tail + 1] = mem[h]
    BY Zenon, <1>a, <2>2, <2>3
  <2> HIDE DEF h
  <2>5. mem' = mem /\ disk' = [disk EXCEPT ![h] = mem[h]]
    BY Zenon, <1>b, <2>1, <2>4
  <2>6. disk'[h] = mem[h] /\ \A c \in Blocks : disk[c] = mem[c] => disk'[c] = mem[c]
    BY Zenon, <1>b, <2>4, <2>5
  <2>7. \A i \in 1..tail' : i \in DOMAIN header /\ (i = tail + 1 \/ i \in 1..tail)
    BY <1>a, <2>1, <2>2
  <2>8. \A i \in 1..tail' : disk'[header[i]] = mem[header[i]]
    BY Zenon, <1>a, <2>2, <2>6, <2>7 DEF h
  <2>9. LastRound => DOMAIN header = 1..tail'
    BY Zenon, <1>a, <2>1 DEF LastRound
  <2>10. \A c \in Blocks : ~In(c, header) => disk'[c] = mem[c]
    BY Zenon, <1>e, <2>1, <2>6
  <2>11. LastRound => mem' = disk'
    <3>1. LastRound => \A c \in Blocks : disk'[c] = mem[c]
      BY Zenon, <2>8, <2>9, <2>10 DEF In
    <3>2. disk' \in [Blocks -> Values]
      BY Zenon, <1>b, <2>4, <2>5
    <3> QED
      BY Zenon, <1>b, <2>5, <3>1, <3>2
  <2>12. pc' = [pc EXCEPT ![t] = IF LastRound THEN "clear_header" ELSE "install"]
    BY Zenon, <1>13 DEF InstallTrans, Goto
  <2>13. /\ pc'[t] \in {"clear_header", "install"} /\ (pc'[t] = "clear_header" => LastRound)
         /\ \A u \in Threads \ {t} : pc'[u] = pc[u]
    BY Zenon, <1>b, <2>12
  <2>14. \A u \in Threads \ {t} : pc'[u] \notin CommitLabels
    BY Zenon, <1>d, <2>1, <2>13 DEF CommitLabels
  <2>15. \A c \in Blocks : IF In(c, header') THEN pinned'[c] ELSE mem'[c] = disk'[c]
    BY Zenon, <1>e, <2>1, <2>5, <2>10 DEF In
  <2>16. /\ \A i \in DOMAIN header' : logDisk'[i] = mem'[header'[i]]
         /\ \A i \in 1..tail' : disk'[header'[i]] = mem'[header'[i]]
    BY Zenon, <2>1, <2>2, <2>5, <2>8
  <2> QED
    BY Zenon, <2>1, <2>11, <2>13, <2>14, <2>15, <2>16, DataCommitting
<1>14. ASSUME NEW t \in Threads, ClearHeader(t) PROVE DataInv'
  <2>1. /\ UNCHANGED <<mem, disk, sys>> /\ header' = <<>> /\ sys = "up"
        /\ pc[t] = "clear_header" /\ pc' = [pc EXCEPT ![t] = "finish"]
    BY Zenon, <1>14 DEF ClearHeader, EmptyHeader, Goto
  <2>2. pc'[t] = "finish" /\ \A u \in Threads \ {t} : pc'[u] = pc[u]
    BY Zenon, <1>b, <2>1
  <2>3. \A u \in Threads \ {t} : pc'[u] \notin CommitLabels
    BY Zenon, <1>d, <2>1, <2>2 DEF CommitLabels
  <2>4. mem' = disk' /\ \A b : ~In(b, header')
    BY Zenon, <1>0, <2>1, EmptyLog DEF DataInv, In
  <2> QED
    BY Zenon, <2>1, <2>2, <2>3, <2>4, DataCommitting
<1>15. ASSUME NEW t \in Threads, FinishCommit(t) PROVE DataInv'
  <2>1. UNCHANGED <<mem, disk, logDisk, header, pinned, tail, sys>> /\ sys = "up"
    BY Zenon, <1>15 DEF FinishCommit, diskVars
  <2>2. \A u \in Threads : pc'[u] \in CommitLabels => pc'[u] = pc[u]
    BY Zenon, <1>b, <1>15 DEF FinishCommit, WakeBeginners, WakeEnders, CommitLabels
  <2> QED
    BY Zenon, <1>0, <2>1, <2>2, DataFrame
<1>16. CASE UNCHANGED vars
  BY Zenon, <1>0, <1>16 DEF vars, DataInv, In
<1> QED
  BY Zenon, <1>1, <1>2, <1>3, <1>4, <1>5, <1>6, <1>7, <1>8, <1>9, <1>10, <1>11, <1>12,
     <1>13, <1>14, <1>15, <1>16
     DEF Next, NonSync, Syncs, CommitStep, Recover

-----------------------------------------------------------------------------
(* The reservation of log space, and the panics.                            *)

\* When nothing runs, nothing is reserved.
LEMMA NothingReserved ==
  ASSUME NEW p, NEW r, \A t \in Threads : p[t] = "idle" /\ r[t] = 0
  PROVE  /\ Cardinality({t \in Threads : p[t] = "running"}) = 0
         /\ Cardinality(Slots(r)) = 0
<1>1. {t \in Threads : p[t] = "running"} = {} /\ Slots(r) = {}
  BY DEF Slots
<1> QED
  BY Zenon, <1>1, FS_EmptySet

\* Steps that touch neither the operations nor the header keep the accounting.
LEMMA ReservationUnchanged ==
  ASSUME LogInvariant, sys # "panicked", UNCHANGED <<outstanding, mu, rm>>,
         header' \in Seq(Blocks), Len(header') <= Len(header),
         \A t \in Threads : pc'[t] = "running" <=> pc[t] = "running"
  PROVE  ReservationExact'
<1>1. Running' = Running /\ Reserved' = Reserved
  BY Zenon DEF Running, Reserved
<1>2. Len(header') + mu <= mx
  BY MxNat DEF LogInvariant, TypeOK, ReservationExact
<1> QED
  BY Zenon, <1>1, <1>2 DEF LogInvariant, ReservationExact

\* Every step preserves the accounting of begin_op, sync and end_op.
LEMMA ReservationStep == LogInvariant /\ [Next]_vars => ReservationExact'
<1> SUFFICES ASSUME LogInvariant, [Next]_vars PROVE ReservationExact'
  OBVIOUS
<1>0. TypeOK' /\ TypeOK /\ BootInv /\ CommitInv /\ BootInv'
  BY Zenon, TypeStep, BootStep DEF LogInvariant
<1>a. /\ header \in Seq(Blocks) /\ Len(header) \in Nat /\ Len(header) <= mx
      /\ header' \in Seq(Blocks) /\ Len(header') \in Nat /\ Len(header') <= mx
  BY <1>0 DEF TypeOK
<1>b. mu \in 0..mx /\ mx \in Nat /\ rm \in [Threads -> 0..OP_MAX_NUM_BLOCKS]
  BY Zenon, <1>0, MxNat DEF TypeOK
<1>c. sys # "panicked" => Len(header) + mu <= mx
  BY Zenon DEF LogInvariant, ReservationExact
<1>1. CASE sys' \in BootPhases
  <2>1. /\ outstanding' = 0 /\ mu' = 0
        /\ \A t \in Threads : pc'[t] = "idle" /\ rm'[t] = 0
    BY Zenon, <1>0, <1>1 DEF BootInv, BootPhases
  <2>2. Running' = {t \in Threads : pc'[t] = "running"} /\ Reserved' = Slots(rm')
    BY Zenon DEF Running, Reserved, Slots
  <2>3. Len(header') + mu' <= mx
    BY ONLY <1>a, <1>b, <2>1
  <2> QED
    BY Zenon, <2>1, <2>2, <2>3, NothingReserved DEF ReservationExact
<1>2. CASE RecoverClear
  <2>1. /\ outstanding' = 0 /\ mu' = 0
        /\ \A t \in Threads : pc'[t] = "idle" /\ rm'[t] = 0
    BY Zenon, <1>0, <1>2 DEF BootInv, BootPhases, RecoverClear, resVars
  <2>2. Running' = {t \in Threads : pc'[t] = "running"} /\ Reserved' = Slots(rm')
    BY Zenon DEF Running, Reserved, Slots
  <2>3. Len(header') + mu' <= mx
    BY ONLY <1>a, <1>b, <2>1
  <2> QED
    BY Zenon, <2>1, <2>2, <2>3, NothingReserved DEF ReservationExact
<1>3. CASE ReadHeader \/ RecoverInstall \/ Crash
  BY Zenon, <1>1, <1>3 DEF ReadHeader, RecoverInstall, Crash, BootPhases
<1>4. ASSUME NEW b \in DirectBlocks, NEW v \in Values, SyncDirect(b, v)
      PROVE  ReservationExact'
  <2>1. sys # "panicked" /\ UNCHANGED <<outstanding, mu, rm, header, pc>>
    BY Zenon, <1>4 DEF SyncDirect, resVars
  <2> QED
    BY <1>a, <2>1, ReservationUnchanged
<1>5. ASSUME NEW t \in Threads, NEW b \in Blocks \ DirectBlocks, NEW v \in Values,
             Sync(t, b, v), sys' # "panicked"
      PROVE  ReservationExact'
  <2>1. sys # "panicked" /\ UNCHANGED <<outstanding, pc>>
    BY Zenon, <1>5, SyncEffect
  <2>2. CASE UNCHANGED <<header, rm, mu>>
    BY <1>a, <2>1, <2>2, ReservationUnchanged
  <2>3. CASE /\ header' = Append(header, b) /\ rm[t] > 0
             /\ rm' = [rm EXCEPT ![t] = rm[t] - 1] /\ mu' = mu - 1
    <3>1. /\ rm \in Reservations /\ rm[t] \in Nat
          /\ mu = Cardinality(Slots(rm)) /\ Cardinality(Slots(rm)) \in Nat
      BY Zenon, <2>1, Reservation, SlotsFinite
    <3>2. rm[t] - 1 \in 0..OP_MAX_NUM_BLOCKS
      BY <1>b, <2>3, LogAssumption
    <3>3. Cardinality(Slots(rm')) = Cardinality(Slots(rm)) - rm[t] + (rm[t] - 1)
      BY Zenon, <2>3, <3>1, <3>2, SlotsUpdate
    <3>4. mu' = Cardinality(Reserved')
      BY <2>3, <3>1, <3>3 DEF Reserved, Slots
    <3>5. Len(header') = Len(header) + 1
      BY ONLY <1>a, <2>3
    <3>6. Len(header') + mu' <= mx
      BY ONLY <1>a, <1>b, <1>c, <2>1, <2>3, <3>5
    <3>7. outstanding' = Cardinality(Running')
      BY Zenon, <2>1 DEF LogInvariant, ReservationExact, Running
    <3> QED
      BY Zenon, <3>4, <3>6, <3>7 DEF ReservationExact
  <2> QED
    BY Zenon, <1>5, <2>2, <2>3, SyncEffect
<1>6. ASSUME NEW t \in Threads, BeginOp(t) PROVE ReservationExact'
  <2>1. sys # "panicked" /\ header' = header /\ pc[t] \in {"idle", "begin"}
    BY Zenon, <1>6 DEF BeginOp
  <2>2. CASE MustWait
    <3>1. \A u \in Threads : pc'[u] = "running" <=> pc[u] = "running"
      BY Zenon, <1>6, <2>1, <2>2, <1>0 DEF BeginOp, TypeOK
    <3>2. UNCHANGED <<outstanding, mu, rm>>
      BY Zenon, <1>6, <2>2 DEF BeginOp, resVars
    <3> QED
      BY <1>a, <2>1, <3>1, <3>2, ReservationUnchanged
  <2>3. CASE ~MustWait
    <3>1. /\ outstanding' = outstanding + 1 /\ mu' = mu + OP_MAX_NUM_BLOCKS
          /\ rm' = [rm EXCEPT ![t] = OP_MAX_NUM_BLOCKS]
          /\ pc' = [pc EXCEPT ![t] = "running"]
      BY Zenon, <1>6, <2>3 DEF BeginOp
    <3>2. IsFiniteSet(Running) /\ outstanding = Cardinality(Running)
      BY Zenon, <2>1, FS_Subset, LogAssumption
         DEF Running, LogInvariant, ReservationExact
    <3>3. Running' = Running \cup {t} /\ t \notin Running
      BY Zenon, <1>0, <2>1, <3>1 DEF Running, TypeOK
    <3>4. outstanding' = Cardinality(Running')
      BY Zenon, <3>1, <3>2, <3>3, FS_AddElement
    <3>5. /\ rm \in Reservations /\ mu = Cardinality(Slots(rm))
          /\ Cardinality(Slots(rm)) \in Nat
      BY Zenon, <2>1, Reservation, SlotsFinite
    <3>6. rm[t] = 0
      BY Zenon, <1>0, <2>1 DEF CommitInv
    <3>7. /\ OP_MAX_NUM_BLOCKS \in 0..OP_MAX_NUM_BLOCKS
          /\ OP_MAX_NUM_BLOCKS \in Nat
      BY LogAssumption
    <3>8. Cardinality(Slots(rm')) = Cardinality(Slots(rm)) - rm[t] + OP_MAX_NUM_BLOCKS
      BY Zenon, <3>1, <3>5, <3>7, SlotsUpdate
    <3>9. mu' = Cardinality(Reserved')
      <4>1. Reserved' = Slots(rm')
        BY Zenon DEF Reserved, Slots
      <4> QED
        BY ONLY <3>1, <3>5, <3>6, <3>7, <3>8, <4>1
    <3>10. Len(header') + mu' <= mx
      <4>1. ~(Len(header) + mu + OP_MAX_NUM_BLOCKS > mx)
        BY Zenon, <2>3 DEF MustWait
      <4> QED
        BY ONLY <1>a, <1>b, <2>1, <3>1, <3>7, <4>1
    <3> QED
      BY Zenon, <3>4, <3>9, <3>10 DEF ReservationExact
  <2> QED
    BY Zenon, <2>2, <2>3
<1>7. ASSUME NEW t \in Threads, EndOp(t) PROVE ReservationExact'
  <2>1. /\ sys # "panicked" /\ pc[t] = "running" /\ header' = header
        /\ outstanding' = outstanding - 1 /\ mu' = mu - rm[t]
        /\ rm' = [rm EXCEPT ![t] = 0]
    BY Zenon, <1>7, EndOpEffect
  <2>2. Running' = Running \ {t}
    <3>1. pc \in [Threads -> Labels] /\ \A u \in Threads : pc[u] = "running" => u \in Running
      BY Zenon, <1>0 DEF TypeOK, Running
    <3> QED
      BY <1>7, <3>1, EndOpEffect, SMTT(60) DEF Running, WakeBeginners
  <2>3. outstanding' = Cardinality(Running')
    BY Zenon, <2>1, <2>2, LastOperation
  <2>4. /\ rm \in Reservations /\ rm[t] \in Nat /\ mu >= rm[t]
        /\ mu = Cardinality(Slots(rm)) /\ Cardinality(Slots(rm)) \in Nat
    BY Zenon, <2>1, Reservation, SlotsFinite
  <2>5. 0 \in 0..OP_MAX_NUM_BLOCKS
    BY LogAssumption
  <2>6. Cardinality(Slots(rm')) = Cardinality(Slots(rm)) - rm[t] + 0
    BY Zenon, <2>1, <2>4, <2>5, SlotsUpdate
  <2>7. mu' = Cardinality(Reserved')
    BY <2>1, <2>4, <2>6 DEF Reserved, Slots
  <2>8. Len(header') + mu' <= mx
    BY ONLY <1>a, <1>b, <1>c, <2>1, <2>4
  <2> QED
    BY Zenon, <2>3, <2>7, <2>8 DEF ReservationExact
<1>8. ASSUME NEW t \in Threads,
             EndOpReturn(t) \/ CommitStep(t)
      PROVE  ReservationExact'
  <2>1. sys # "panicked" /\ UNCHANGED <<outstanding, mu, rm>>
    BY Zenon, <1>8 DEF EndOpReturn, CommitStep, Commit, WriteLog, WriteHeader,
                InstallTrans, ClearHeader, FinishCommit, resVars
  <2>2. header' = header \/ header' = <<>>
    BY Zenon, <1>8 DEF EndOpReturn, CommitStep, Commit, WriteLog, WriteHeader,
                InstallTrans, ClearHeader, EmptyHeader, FinishCommit
  <2>3. header' \in Seq(Blocks) /\ Len(header') <= Len(header)
    BY <1>a, <2>2, EmptyLog
  <2>4. pc[t] # "running" /\ pc'[t] # "running"
    BY Zenon, <1>0, <1>8 DEF EndOpReturn, CommitStep, Commit, WriteLog, WriteHeader,
                InstallTrans, ClearHeader, FinishCommit, Goto, TypeOK,
                WakeBeginners, WakeEnders
  <2>5. \A u \in Threads \ {t} : pc'[u] = "running" <=> pc[u] = "running"
    BY Zenon, <1>0, <1>8 DEF EndOpReturn, CommitStep, Commit, WriteLog, WriteHeader,
                InstallTrans, ClearHeader, FinishCommit, Goto, TypeOK,
                WakeBeginners, WakeEnders
  <2> QED
    BY Zenon, <2>1, <2>3, <2>4, <2>5, ReservationUnchanged
<1>9. CASE UNCHANGED vars
  BY Zenon, <1>9 DEF vars, LogInvariant, ReservationExact, Running, Reserved
<1>10. CASE sys' = "panicked"
  BY Zenon, <1>10 DEF ReservationExact
<1> QED
  BY Zenon, <1>2, <1>3, <1>4, <1>5, <1>6, <1>7, <1>8, <1>9, <1>10
     DEF Next, NonSync, Syncs, Recover

\* No step reaches a panic of the protocol.
LEMMA PanicStep == LogInvariant /\ [Next]_vars => NoProtocolPanic'
<1> SUFFICES ASSUME LogInvariant, [Next]_vars PROVE NoProtocolPanic'
  OBVIOUS
<1>1. ASSUME NEW t \in Threads, NEW b \in Blocks \ DirectBlocks, NEW v \in Values,
             Sync(t, b, v)
      PROVE  NoProtocolPanic'
  BY Zenon, <1>1, SyncEffect DEF NoProtocolPanic
<1>2. ASSUME NEW t \in Threads, EndOp(t) PROVE NoProtocolPanic'
  BY Zenon, <1>2, EndOpEffect DEF NoProtocolPanic, LogInvariant
<1>3. CASE panic' = panic \/ panic' = "none"
  BY Zenon, <1>3 DEF NoProtocolPanic, LogInvariant
<1>4. ASSUME NEW t \in Threads, BeginOp(t) \/ EndOpReturn(t) \/ CommitStep(t)
      PROVE  panic' = panic
  BY Zenon, <1>4 DEF BeginOp, EndOpReturn, CommitStep, Commit, WriteLog, WriteHeader,
              InstallTrans, ClearHeader, FinishCommit
<1>5. ASSUME Recover \/ Crash PROVE panic' = panic \/ panic' = "none"
  BY Zenon, <1>5 DEF Recover, ReadHeader, RecoverInstall, RecoverClear, Crash
<1>6. ASSUME NEW b \in DirectBlocks, NEW v \in Values, SyncDirect(b, v)
      PROVE  panic' = panic
  BY Zenon, <1>6 DEF SyncDirect
<1>7. ASSUME UNCHANGED vars PROVE panic' = panic
  BY Zenon, <1>7 DEF vars
<1> QED
  BY Zenon, <1>1, <1>2, <1>3, <1>4, <1>5, <1>6, <1>7 DEF Next, NonSync, Syncs

-----------------------------------------------------------------------------
(* The theorems.                                                            *)

\* The state at boot satisfies the invariant.
LEMMA LogInit == Init => LogInvariant
<1> SUFFICES ASSUME Init PROVE LogInvariant
  OBVIOUS
<1>1. TypeOK
  <2>1. /\ disk \in [Blocks -> Values] /\ mem \in [Blocks -> Values]
        /\ logDisk \in [1..mx -> Values] /\ pinned \in [Blocks -> BOOLEAN]
    BY Zenon, LogAssumption DEF Init
  <2>2. /\ headerDisk \in Seq(Blocks) /\ Len(headerDisk) <= mx
        /\ header \in Seq(Blocks) /\ Len(header) <= mx
    BY EmptyLog, MxNat DEF Init
  <2>3. 0 \in 0..mx /\ 0 \in 0..MaxCrashes /\ 0 \in 0..OP_MAX_NUM_BLOCKS
    BY MxNat, LogAssumption
  <2>4. /\ outstanding \in Nat /\ committing \in BOOLEAN /\ mu \in 0..mx
        /\ tail \in 0..mx /\ crashes \in 0..MaxCrashes
    BY Zenon, <2>3 DEF Init
  <2>5. rm \in [Threads -> 0..OP_MAX_NUM_BLOCKS] /\ pc \in [Threads -> Labels]
    BY <2>3, LabelTypes, Zenon DEF Init
  <2>6. panic \in Panics
    BY PanicTypes, Zenon DEF Init
  <2> QED
    BY Zenon, <2>1, <2>2, <2>4, <2>5, <2>6 DEF Init, TypeOK
<1>2. BootInv /\ CommitInv /\ NoProtocolPanic
  BY Zenon DEF Init, BootInv, CommitInv, NoProtocolPanic, BootPhases, CommitLabels
<1>3. HeaderInv /\ DataInv
  BY Zenon, EmptyLog DEF Init, HeaderInv, DataInv, NoRepeats, In
<1>4. ReservationExact
  <2>1. Running = {t \in Threads : pc[t] = "running"} /\ Reserved = Slots(rm)
    BY Zenon DEF Running, Reserved, Slots
  <2>2. \A t \in Threads : pc[t] = "idle" /\ rm[t] = 0
    BY Zenon DEF Init
  <2>3. outstanding = 0 /\ mu = 0 /\ Len(header) + mu <= mx
    BY EmptyLog, MxNat DEF Init
  <2> QED
    BY Zenon, <2>1, <2>2, <2>3, NothingReserved DEF ReservationExact
<1> QED
  BY Zenon, <1>1, <1>2, <1>3, <1>4 DEF LogInvariant

\* LogInvariant holds in every reachable state.
THEOREM LogInvariantHolds == Spec => []LogInvariant
<1>1. LogInvariant /\ [Next]_vars => LogInvariant'
  BY Zenon, TypeStep, BootStep, CommitsStep, HeaderStep, DataStep, ReservationStep,
     PanicStep
     DEF LogInvariant
<1> QED
  BY LogInit, <1>1, PTL DEF Spec

\* The log header, the reservation and every other variable of cache.c keep their
\* types and bounds, whatever the size of the log, of the operations and of the
\* set of threads.
THEOREM TypeCorrect == Spec => []TypeOK
<1>1. LogInvariant => TypeOK
  BY Zenon DEF LogInvariant
<1> QED
  BY LogInvariantHolds, <1>1, PTL

\* log.outstanding and log.mu of begin_op, sync and end_op count exactly what the
\* running operations hold, and the log has room for all of it.
THEOREM Accounting == Spec => []ReservationExact
<1>1. LogInvariant => ReservationExact
  BY Zenon DEF LogInvariant
<1> QED
  BY LogInvariantHolds, <1>1, PTL

\* The panics "log_write outside of trans" (sync) and "log committing" (end_op)
\* cannot be reached.
THEOREM ProtocolNeverPanics == Spec => []NoProtocolPanic
<1>1. LogInvariant => NoProtocolPanic
  BY Zenon DEF LogInvariant
<1> QED
  BY LogInvariantHolds, <1>1, PTL

\* A block that cache_acquire may evict, because sync has not pinned it, is the
\* same in memory and on disk.
THEOREM EvictionSafe == Spec => []UnpinnedClean
<1>1. LogInvariant => UnpinnedClean
  <2> SUFFICES ASSUME LogInvariant, sys # "panicked", NEW b \in Blocks, ~pinned[b]
               PROVE  mem[b] = disk[b]
    BY Zenon DEF UnpinnedClean
  <2>1. CASE sys = "up"
    BY Zenon, <2>1 DEF LogInvariant, DataInv
  <2>2. CASE sys \in BootPhases
    BY Zenon, <2>2 DEF LogInvariant, BootInv
  <2> QED
    BY Zenon, <2>1, <2>2 DEF LogInvariant, TypeOK, BootPhases
<1> QED
  BY LogInvariantHolds, <1>1, PTL

\* When no operation runs and end_op has finished its commit, memory and disk
\* agree and the log is empty, in memory and on disk.
THEOREM QuiescentCheckpointed == Spec => []Checkpointed
<1>1. LogInvariant => Checkpointed
  <2> SUFFICES ASSUME LogInvariant, sys = "up", outstanding = 0, ~committing
               PROVE  mem = disk /\ header = <<>> /\ headerDisk = <<>>
    BY Zenon DEF Checkpointed
  <2>1. \A t \in Threads : pc[t] # "running"
    <3>1. IsFiniteSet(Running) /\ Cardinality(Running) = 0
      BY Zenon, FS_Subset, LogAssumption DEF Running, LogInvariant, ReservationExact
    <3>2. Running = {}
      BY Zenon, <3>1, FS_EmptySet
    <3> QED
      BY Zenon, <3>2 DEF Running
  <2>2. header = <<>>
    BY Zenon, <2>1 DEF LogInvariant, HeaderInv
  <2>3. headerDisk = <<>>
    BY Zenon DEF LogInvariant, HeaderInv, CommitInv, CommitLabels
  <2>4. \A b \in Blocks : mem[b] = disk[b]
    BY Zenon, <2>2, EmptyLog DEF LogInvariant, DataInv, In
  <2> QED
    BY <2>2, <2>3, <2>4 DEF LogInvariant, TypeOK
<1> QED
  BY LogInvariantHolds, <1>1, PTL

-----------------------------------------------------------------------------
(* The log implements AtomicOps.                                             *)

\* What recovery makes of the disk d, the log blocks l and the header h.
Rec(d, l, h) ==
    [b \in Blocks |-> IF \E i \in DOMAIN h : h[i] = b
                        THEN l[CHOOSE i \in DOMAIN h : h[i] = b] ELSE d[b]]

\* The abstract state of an operation at label p, given AfterCommitPoint.
OpAt(p, after) ==
    CASE p \in {"idle", "begin", "begin_sleep"} -> "idle"
      [] p = "running" -> "running"
      [] p \in {"commit", "write_log", "write_header"} -> "committed"
      [] p \in {"end", "install", "clear_header", "finish"} -> "checkpointed"
      [] p = "end_sleep" -> IF after THEN "checkpointed" ELSE "committed"

\* Recovered, before and after a step.
LEMMA RecoveredIsRec ==
    /\ Recovered = Rec(disk, logDisk, headerDisk)
    /\ Recovered' = Rec(disk', logDisk', headerDisk')
  BY Zenon DEF Recovered, Rec

\* OpState, before and after a step.
LEMMA OpStateIsOpAt ==
    /\ OpState = [t \in Threads |-> OpAt(pc[t], AfterCommitPoint)]
    /\ OpState' = [t \in Threads |-> OpAt(pc'[t], AfterCommitPoint')]
  BY Zenon DEF OpState, OpAt

\* The abstract state at each label.
LEMMA OpAtValues ==
  ASSUME NEW a
  PROVE  /\ OpAt("idle", a) = "idle" /\ OpAt("begin", a) = "idle"
         /\ OpAt("begin_sleep", a) = "idle" /\ OpAt("running", a) = "running"
         /\ OpAt("commit", a) = "committed" /\ OpAt("write_log", a) = "committed"
         /\ OpAt("write_header", a) = "committed"
         /\ OpAt("end", a) = "checkpointed" /\ OpAt("install", a) = "checkpointed"
         /\ OpAt("clear_header", a) = "checkpointed"
         /\ OpAt("finish", a) = "checkpointed"
         /\ OpAt("end_sleep", a) = IF a THEN "checkpointed" ELSE "committed"
  BY Zenon DEF OpAt

\* The labels outside an operation, but for the wait for a commit.
LEMMA OpAtRest ==
  ASSUME NEW q \in {"idle", "begin", "begin_sleep", "end"}, NEW a, NEW c
  PROVE  OpAt(q, a) \in {"idle", "checkpointed"} /\ OpAt(q, c) = OpAt(q, a)
  BY Zenon DEF OpAt

\* What recovery leaves in a logged block, and in any other.
LEMMA RecAt ==
  ASSUME NEW d, NEW l, NEW h, NoRepeats(h)
  PROVE  /\ \A i \in DOMAIN h : h[i] \in Blocks => Rec(d, l, h)[h[i]] = l[i]
         /\ \A b \in Blocks : ~In(b, h) => Rec(d, l, h)[b] = d[b]
<1>1. ASSUME NEW i \in DOMAIN h PROVE (CHOOSE j \in DOMAIN h : h[j] = h[i]) = i
  BY Zenon, <1>1 DEF NoRepeats
<1> QED
  BY Zenon, <1>1 DEF Rec, In

\* Recovery with an empty header changes nothing.
LEMMA RecEmpty ==
  ASSUME NEW d \in [Blocks -> Values], NEW l
  PROVE  Rec(d, l, <<>>) = d
  BY Zenon, EmptyLog DEF Rec

\* The log is complete for the blocks m: it has the logged ones, the disk the others.
Complete(d, l, h, m) ==
    /\ h \in Seq(Blocks) /\ NoRepeats(h) /\ m \in [Blocks -> Values]
    /\ \A i \in DOMAIN h : l[i] = m[h[i]]
    /\ \A b \in Blocks : ~In(b, h) => d[b] = m[b]

\* Recovery of a complete log: every logged block comes from the log.
LEMMA RecComplete ==
  ASSUME NEW d, NEW l, NEW h, NEW m, Complete(d, l, h, m)
  PROVE  Rec(d, l, h) = m
<1> USE DEF Complete
<1>1. \A b \in Blocks : Rec(d, l, h)[b] = m[b]
  <2> SUFFICES ASSUME NEW b \in Blocks PROVE Rec(d, l, h)[b] = m[b]
    BY Zenon
  <2>1. CASE ~In(b, h)
    BY <2>1, RecAt
  <2>2. CASE In(b, h)
    <3>1. PICK i \in DOMAIN h : h[i] = b
      BY Zenon, <2>2 DEF In
    <3> QED
      BY <3>1, RecAt
  <2> QED
    BY Zenon, <2>1, <2>2
<1> QED
  BY Zenon, <1>1 DEF Rec

-----------------------------------------------------------------------------
(* Steps that the abstract specification does not see.                      *)

\* Threads that do not move keep their abstract state.
LEMMA SameOps ==
  ASSUME UNCHANGED pc
  PROVE  UNCHANGED OpState
  BY DEF OpState, AfterCommitPoint

\* While a thread commits, it decides whether the commit point has passed.
LEMMA Committer ==
  ASSUME LogInvariant, NEW t \in Threads, pc[t] \in CommitLabels
  PROVE  /\ AfterCommitPoint <=> pc[t] \in {"install", "clear_header", "finish"}
         /\ \A u \in Threads \ {t} : pc[u] \notin CommitLabels /\ pc[u] # "running"
         /\ committing
<1>1. CommitInv /\ TypeOK
  BY Zenon DEF LogInvariant
<1>2. committing
  BY Zenon, <1>1 DEF CommitInv, TypeOK
<1>3. \A u \in Threads \ {t} : pc[u] \notin CommitLabels /\ pc[u] # "running"
  BY Zenon, <1>1, <1>2 DEF CommitInv
<1>4. AfterCommitPoint <=> pc[t] \in {"install", "clear_header", "finish"}
  BY Zenon, <1>3 DEF AfterCommitPoint, CommitLabels
<1> QED
  BY Zenon, <1>2, <1>3, <1>4

\* A step of the committer within its side of the commit point.
LEMMA SameSide ==
  ASSUME LogInvariant, NEW t \in Threads, NEW p,
         pc' = [pc EXCEPT ![t] = p],
         \/ /\ pc[t] \in {"commit", "write_log", "write_header"}
            /\ p \in {"commit", "write_log", "write_header"}
         \/ /\ pc[t] \in {"install", "clear_header", "finish"}
            /\ p \in {"install", "clear_header", "finish"}
  PROVE  UNCHANGED OpState
<1>1. pc \in [Threads -> Labels]
  BY Zenon DEF LogInvariant, TypeOK
<1>2. \A u \in Threads \ {t} : pc[u] \notin CommitLabels /\ pc'[u] = pc[u]
  BY Zenon, <1>1, Committer DEF CommitLabels
<1>3. pc'[t] = p
  BY Zenon, <1>1
<1>4. AfterCommitPoint' = AfterCommitPoint
  BY Zenon, <1>2, <1>3 DEF AfterCommitPoint, CommitLabels
<1>5. OpAt(p, AfterCommitPoint) = OpAt(pc[t], AfterCommitPoint)
  BY OpAtValues
<1>6. \A u \in Threads : OpAt(pc'[u], AfterCommitPoint') = OpAt(pc[u], AfterCommitPoint)
  BY Zenon, <1>2, <1>3, <1>4, <1>5
<1> QED
  BY Zenon, <1>6, OpStateIsOpAt

\* recover_from_log is invisible: it changes neither what is stable nor what is seen.
LEMMA BootStutters ==
  ASSUME LogInvariant, Recover
  PROVE  UNCHANGED <<Recovered, Visible, OpState>>
<1>0. BootInv /\ HeaderInv /\ DataInv /\ TypeOK
  BY Zenon DEF LogInvariant
<1>1. UNCHANGED OpState
  BY Zenon, SameOps DEF Recover, ReadHeader, RecoverInstall, RecoverClear
<1>2. CASE ReadHeader
  <2>1. UNCHANGED <<disk, logDisk, headerDisk>>
    BY Zenon, <1>2 DEF ReadHeader, diskVars
  <2>2. Recovered' = Recovered
    BY Zenon, <2>1 DEF Recovered
  <2>3. sys \notin {"up", "panicked"} /\ sys' \notin {"up", "panicked"}
    BY Zenon, <1>2 DEF ReadHeader
  <2> QED
    BY Zenon, <1>1, <2>2, <2>3 DEF Visible
<1>3. CASE RecoverInstall
  <2>1. /\ header = headerDisk /\ tail + 1 \in DOMAIN headerDisk
        /\ UNCHANGED <<logDisk, headerDisk>>
        /\ disk' = [disk EXCEPT ![headerDisk[tail + 1]] = logDisk[tail + 1]]
    BY <1>0, <1>3 DEF RecoverInstall, CopyHome, BootInv, TypeOK
  <2>2. \A b \in Blocks : (~\E i \in DOMAIN headerDisk : headerDisk[i] = b)
                           => disk'[b] = disk[b]
    BY Zenon, <1>0, <2>1 DEF TypeOK
  <2>3. Recovered' = Recovered
    BY Zenon, <2>1, <2>2 DEF Recovered
  <2>4. sys \notin {"up", "panicked"} /\ sys' \notin {"up", "panicked"}
    BY Zenon, <1>3 DEF RecoverInstall
  <2> QED
    BY Zenon, <1>1, <2>3, <2>4 DEF Visible
<1>4. CASE RecoverClear
  <2>1. /\ sys = "clear_header" /\ sys' = "up" /\ headerDisk' = <<>>
        /\ UNCHANGED <<disk, logDisk, mem>>
    BY Zenon, <1>4 DEF RecoverClear, EmptyHeader
  <2>2. mem = disk /\ headerDisk = header
    BY Zenon, <1>0, <2>1 DEF BootInv, BootPhases
  <2>3. \A i \in DOMAIN headerDisk : logDisk[i] = disk[headerDisk[i]]
    BY Zenon, <1>0, <2>1, <2>2 DEF DataInv
  <2>4. headerDisk \in Seq(Blocks) /\ disk \in [Blocks -> Values] /\ NoRepeats(headerDisk)
    BY Zenon, <1>0 DEF TypeOK, HeaderInv
  <2>5. Recovered = disk
    <3>1. Complete(disk, logDisk, headerDisk, disk)
      BY Zenon, <2>3, <2>4 DEF Complete
    <3> QED
      BY Zenon, <3>1, RecComplete, RecoveredIsRec
  <2>6. Recovered' = disk
    BY Zenon, <2>1, <2>4, RecEmpty, RecoveredIsRec
  <2> QED
    BY Zenon, <1>1, <2>1, <2>2, <2>5, <2>6 DEF Visible
<1> QED
  BY Zenon, <1>2, <1>3, <1>4 DEF Recover

\* write_log is invisible: the header on disk is still empty.
LEMMA WriteLogStutters ==
  ASSUME LogInvariant, NEW t \in Threads, WriteLog(t)
  PROVE  UNCHANGED <<Recovered, Visible, OpState>>
<1>1. /\ pc[t] = "write_log" /\ UNCHANGED <<disk, headerDisk, mem, sys>> /\ sys = "up"
      /\ pc' = [pc EXCEPT ![t] = IF LastRound THEN "write_header" ELSE "write_log"]
  BY Zenon DEF WriteLog, Goto
<1>2. UNCHANGED OpState
  BY Zenon, <1>1, SameSide
<1>3. headerDisk = <<>>
  BY Zenon, <1>1, Committer DEF LogInvariant, HeaderInv, CommitLabels
<1>4. Recovered = disk /\ Recovered' = disk
  BY Zenon, <1>1, <1>3, RecEmpty, RecoveredIsRec DEF LogInvariant, TypeOK
<1> QED
  BY Zenon, <1>1, <1>2, <1>4 DEF Visible

\* install_trans and the emptying of the header are invisible.
LEMMA InstallStutters ==
  ASSUME LogInvariant, NEW t \in Threads, InstallTrans(t) \/ ClearHeader(t)
  PROVE  UNCHANGED <<Recovered, Visible, OpState>>
<1>0. BootInv /\ HeaderInv /\ DataInv /\ TypeOK /\ CommitInv
  BY Zenon DEF LogInvariant
<1>1. /\ pc[t] \in {"install", "clear_header"} /\ sys = "up" /\ sys' = "up"
      /\ UNCHANGED logDisk /\ headerDisk = header
  BY Zenon, <1>0 DEF InstallTrans, CopyHome, ClearHeader, EmptyHeader, HeaderInv
<1>2. UNCHANGED OpState
  <2>1. \E p \in {"install", "clear_header", "finish"} : pc' = [pc EXCEPT ![t] = p]
    BY Zenon DEF InstallTrans, ClearHeader, Goto
  <2> QED
    BY Zenon, <1>1, <2>1, SameSide
<1>3. /\ header \in Seq(Blocks) /\ mem \in [Blocks -> Values] /\ NoRepeats(header)
      /\ disk \in [Blocks -> Values]
      /\ \A i \in DOMAIN header : logDisk[i] = mem[header[i]]
      /\ \A b \in Blocks : ~In(b, header) => disk[b] = mem[b]
  BY Zenon, <1>0, <1>1 DEF TypeOK, HeaderInv, DataInv
<1>4. Recovered = mem
  <2>1. Complete(disk, logDisk, header, mem)
    BY Zenon, <1>3 DEF Complete
  <2> QED
    BY Zenon, <1>1, <2>1, RecComplete, RecoveredIsRec
<1>5. CASE InstallTrans(t)
  <2>1. tail + 1 \in DOMAIN header
    BY <1>0, <1>5 DEF InstallTrans, CommitInv, TypeOK
  <2>2. /\ UNCHANGED headerDisk
        /\ disk' = [disk EXCEPT ![header[tail + 1]] = logDisk[tail + 1]]
        /\ mem' = [mem EXCEPT ![header[tail + 1]] = logDisk[tail + 1]]
    BY Zenon, <1>5 DEF InstallTrans, CopyHome
  <2>3. mem' = mem
    BY Zenon, <1>3, <2>1, <2>2
  <2>4. \A b \in Blocks : ~In(b, header) => disk'[b] = mem[b]
    BY Zenon, <1>3, <2>1, <2>2 DEF In
  <2>5. Rec(disk', logDisk, header) = mem
    <3>1. Complete(disk', logDisk, header, mem)
      BY Zenon, <1>3, <2>4 DEF Complete
    <3> QED
      BY Zenon, <3>1, RecComplete
  <2>6. Recovered' = mem
    BY Zenon, <1>1, <2>2, <2>5, RecoveredIsRec
  <2> QED
    BY Zenon, <1>1, <1>2, <1>4, <2>3, <2>6 DEF Visible
<1>6. CASE ClearHeader(t)
  <2>1. headerDisk' = <<>> /\ UNCHANGED <<disk, mem>> /\ mem = disk
    BY Zenon, <1>0, <1>6 DEF ClearHeader, EmptyHeader, DataInv
  <2>2. Recovered' = mem
    BY Zenon, <1>3, <2>1, RecEmpty, RecoveredIsRec
  <2> QED
    BY Zenon, <1>1, <1>2, <1>4, <2>1, <2>2 DEF Visible
<1> QED
  BY Zenon, <1>5, <1>6

-----------------------------------------------------------------------------
(* Steps of the abstract specification.                                     *)

\* The abstract checkpoint: everyone who is committed becomes checkpointed.
LEMMA CheckpointStep ==
  ASSUME LogInvariant, NEW t \in Threads, NEW p \in {"install", "finish"},
         pc[t] \in {"commit", "write_header"}, pc' = [pc EXCEPT ![t] = p],
         Recovered' = Visible, Visible' = Visible
  PROVE  Abs!Checkpoint
<1>1. pc \in [Threads -> Labels]
  BY Zenon DEF LogInvariant, TypeOK
<1>2. /\ \A u \in Threads \ {t} : /\ pc[u] \notin CommitLabels /\ pc[u] # "running"
                                  /\ pc'[u] = pc[u]
      /\ ~AfterCommitPoint
  BY Zenon, <1>1, Committer DEF CommitLabels
<1>3. AfterCommitPoint' /\ pc'[t] = p
  BY Zenon, <1>1 DEF AfterCommitPoint
<1>4. OpState[t] = "committed" /\ OpState'[t] = "checkpointed"
  <2>1. /\ OpState[t] = OpAt(pc[t], AfterCommitPoint)
        /\ OpState'[t] = OpAt(pc'[t], AfterCommitPoint')
    BY ONLY OpStateIsOpAt, t \in Threads
  <2>2. /\ OpAt(pc[t], AfterCommitPoint) = "committed"
        /\ OpAt(pc'[t], AfterCommitPoint') = "checkpointed"
    BY ONLY Zenon, <1>3, OpAtValues, pc[t] \in {"commit", "write_header"},
       p \in {"install", "finish"}
  <2> QED
    BY ONLY <2>1, <2>2
<1>5. ASSUME NEW u \in Threads \ {t}
      PROVE  /\ OpState[u] # "running"
             /\ OpState'[u] = IF OpState[u] = "committed" THEN "checkpointed"
                                                         ELSE OpState[u]
  <2>1. pc[u] \in {"idle", "begin", "begin_sleep", "end_sleep", "end"}
    BY Zenon, <1>1, <1>2 DEF Labels, CommitLabels
  <2>2. /\ OpState[u] = OpAt(pc[u], AfterCommitPoint)
        /\ OpState'[u] = OpAt(pc[u], AfterCommitPoint')
    BY Zenon, <1>2, OpStateIsOpAt
  <2>3. AfterCommitPoint = FALSE /\ AfterCommitPoint' = TRUE
    BY Zenon, <1>2, <1>3 DEF AfterCommitPoint
  <2>4. /\ OpAt("end_sleep", FALSE) = "committed"
        /\ OpAt("end_sleep", TRUE) = "checkpointed"
    BY Zenon DEF OpAt
  <2>5. CASE pc[u] = "end_sleep"
    BY Zenon, <2>2, <2>3, <2>4, <2>5
  <2>6. CASE pc[u] # "end_sleep"
    <3>1. pc[u] \in {"idle", "begin", "begin_sleep", "end"}
      BY Zenon, <2>1, <2>6
    <3>2. /\ OpAt(pc[u], AfterCommitPoint) \in {"idle", "checkpointed"}
          /\ OpAt(pc[u], AfterCommitPoint') = OpAt(pc[u], AfterCommitPoint)
      BY ONLY <3>1, OpAtRest
    <3>3. OpState[u] \in {"idle", "checkpointed"} /\ OpState'[u] = OpState[u]
      BY Zenon, <2>2, <3>2
    <3> QED
      BY Zenon, <3>3
  <2> QED
    BY Zenon, <2>5, <2>6
<1>6. OpState' = [u \in Threads |-> IF OpState[u] = "committed" THEN "checkpointed"
                                                             ELSE OpState[u]]
  BY Zenon, <1>4, <1>5, OpStateIsOpAt
<1> QED
  BY Zenon, <1>4, <1>5, <1>6 DEF Abs!Checkpoint

\* write_header, or a commit of nothing, is the abstract checkpoint.
LEMMA CommitPoint ==
  ASSUME LogInvariant, NEW t \in Threads, Commit(t) \/ WriteHeader(t)
  PROVE  Abs!Checkpoint \/ UNCHANGED <<Recovered, Visible, OpState>>
<1>0. HeaderInv /\ DataInv /\ TypeOK
  BY Zenon DEF LogInvariant
<1>1. /\ pc[t] \in {"commit", "write_header"} /\ sys = "up"
      /\ UNCHANGED <<disk, logDisk, mem, sys>> /\ Visible = mem /\ Visible' = mem
  BY Zenon DEF Commit, WriteHeader, diskVars, Visible
<1>2. headerDisk = <<>>
  BY Zenon, <1>0, <1>1, Committer DEF HeaderInv, CommitLabels
<1>3. Recovered = disk
  BY Zenon, <1>0, <1>2, RecEmpty, RecoveredIsRec DEF TypeOK
<1>4. CASE Commit(t) /\ header = <<>>
  <2>1. pc' = [pc EXCEPT ![t] = "finish"] /\ UNCHANGED headerDisk
    BY Zenon, <1>4 DEF Commit, Goto, diskVars
  <2>2. mem = disk
    <3>1. \A b \in Blocks : mem[b] = disk[b]
      BY Zenon, <1>0, <1>1, <1>4, EmptyLog DEF DataInv, In
    <3> QED
      BY <1>0, <3>1 DEF TypeOK
  <2>3. Recovered' = mem
    BY Zenon, <1>0, <1>1, <1>2, <2>1, <2>2, RecEmpty, RecoveredIsRec DEF TypeOK
  <2> QED
    BY Zenon, <1>1, <2>1, <2>3, CheckpointStep
<1>5. CASE Commit(t) /\ header # <<>>
  <2>1. /\ pc[t] = "commit" /\ pc' = [pc EXCEPT ![t] = "write_log"]
        /\ UNCHANGED headerDisk
    BY Zenon, <1>5 DEF Commit, Goto, diskVars
  <2>2. UNCHANGED OpState
    BY Zenon, <2>1, SameSide
  <2>3. Recovered' = Recovered
    BY Zenon, <1>1, <2>1 DEF Recovered
  <2> QED
    BY Zenon, <1>1, <2>2, <2>3
<1>6. CASE WriteHeader(t)
  <2>1. /\ pc[t] = "write_header" /\ pc' = [pc EXCEPT ![t] = "install"]
        /\ headerDisk' = header
    BY Zenon, <1>6 DEF WriteHeader, Goto
  <2>2. /\ header \in Seq(Blocks) /\ mem \in [Blocks -> Values] /\ NoRepeats(header)
        /\ \A i \in DOMAIN header : logDisk[i] = mem[header[i]]
        /\ \A b \in Blocks : ~In(b, header) => disk[b] = mem[b]
    BY Zenon, <1>0, <1>1, <2>1 DEF TypeOK, HeaderInv, DataInv
  <2>3. Rec(disk, logDisk, header) = mem
    <3>1. Complete(disk, logDisk, header, mem)
      BY Zenon, <2>2 DEF Complete
    <3> QED
      BY Zenon, <3>1, RecComplete
  <2>4. Recovered' = mem
    BY Zenon, <1>1, <2>1, <2>3, RecoveredIsRec
  <2> QED
    BY Zenon, <1>1, <2>1, <2>4, CheckpointStep
<1> QED
  BY Zenon, <1>4, <1>5, <1>6

\* begin_op begins the abstract operation, or goes to sleep.
LEMMA BeginSteps ==
  ASSUME LogInvariant, NEW t \in Threads, BeginOp(t)
  PROVE  Abs!Begin(t) \/ UNCHANGED <<Recovered, Visible, OpState>>
<1>1. pc \in [Threads -> Labels]
  BY Zenon DEF LogInvariant, TypeOK
<1>2. /\ UNCHANGED <<disk, logDisk, headerDisk, mem, sys>>
      /\ pc[t] \in {"idle", "begin"}
  BY Zenon DEF BeginOp, diskVars
<1>3. UNCHANGED <<Recovered, Visible>>
  BY Zenon, <1>2 DEF Recovered, Visible
<1>4. \E p \in {"begin_sleep", "running"} : pc' = [pc EXCEPT ![t] = p]
  BY Zenon DEF BeginOp
<1>5. PICK p \in {"begin_sleep", "running"} : pc' = [pc EXCEPT ![t] = p]
  BY Zenon, <1>4
<1>6. pc'[t] = p /\ \A u \in Threads \ {t} : pc'[u] = pc[u]
  BY Zenon, <1>1, <1>5
<1>7. AfterCommitPoint' = AfterCommitPoint
  BY Zenon, <1>2, <1>6 DEF AfterCommitPoint
<1>8. \A u \in Threads \ {t} : OpState'[u] = OpState[u]
  BY Zenon, <1>6, <1>7, OpStateIsOpAt
<1>9. OpState[t] = "idle" /\ OpState'[t] = OpAt(p, AfterCommitPoint)
  BY Zenon, <1>2, <1>6, <1>7, OpStateIsOpAt, OpAtValues
<1>10. CASE p = "begin_sleep"
  <2>1. OpState' = OpState
    BY <1>8, <1>9, <1>10, OpStateIsOpAt, OpAtValues
  <2> QED
    BY Zenon, <1>3, <2>1
<1>11. CASE p = "running"
  <2>1. OpState' = [OpState EXCEPT ![t] = "running"]
    BY Zenon, <1>8, <1>9, <1>11, OpStateIsOpAt, OpAtValues
  <2> QED
    BY Zenon, <1>3, <1>9, <2>1 DEF Abs!Begin
<1> QED
  BY Zenon, <1>10, <1>11

\* end_op ends the abstract operation.
LEMMA EndSteps ==
  ASSUME LogInvariant, NEW t \in Threads, EndOp(t)
  PROVE  Abs!End(t)
<1>1. pc \in [Threads -> Labels]
  BY Zenon DEF LogInvariant, TypeOK
<1>2. /\ UNCHANGED <<disk, logDisk, headerDisk, mem, sys>>
      /\ pc[t] = "running" /\ ~committing
      /\ \/ pc' = [pc EXCEPT ![t] = "commit"]
         \/ pc' = WakeBeginners([pc EXCEPT ![t] = "end_sleep"])
  BY Zenon, EndOpEffect DEF diskVars
<1>3. UNCHANGED <<Recovered, Visible>>
  BY Zenon, <1>2 DEF Recovered, Visible
<1>4. /\ pc'[t] \in {"commit", "end_sleep"}
      /\ \A u \in Threads \ {t} :
            pc'[u] = pc[u] \/ (pc[u] = "begin_sleep" /\ pc'[u] = "begin")
  BY Zenon, <1>1, <1>2 DEF WakeBeginners
<1>5. \A u \in Threads : pc[u] \notin CommitLabels
  BY Zenon, <1>2 DEF LogInvariant, CommitInv
<1>6. AfterCommitPoint = FALSE /\ AfterCommitPoint' = FALSE
  BY Zenon, <1>4, <1>5 DEF AfterCommitPoint, CommitLabels
<1>7. \A u \in Threads \ {t} : OpState'[u] = OpState[u]
  BY <1>4, <1>6, OpStateIsOpAt, OpAtValues, ZenonT(90)
<1>8. OpState[t] = "running" /\ OpState'[t] = "committed"
  <2>1. OpAt("end_sleep", FALSE) = "committed" /\ OpAt("commit", FALSE) = "committed"
    BY Zenon DEF OpAt
  <2> QED
    BY Zenon, <1>2, <1>4, <1>6, <2>1, OpStateIsOpAt, OpAtValues
<1>9. OpState' = [OpState EXCEPT ![t] = "committed"]
  BY Zenon, <1>7, <1>8, OpStateIsOpAt
<1> QED
  BY Zenon, <1>3, <1>8, <1>9 DEF Abs!End

\* Getting out of end_op is the abstract return.
LEMMA ReturnSteps ==
  ASSUME LogInvariant, NEW t \in Threads, EndOpReturn(t) \/ FinishCommit(t)
  PROVE  Abs!Return(t)
<1>1. pc \in [Threads -> Labels]
  BY Zenon DEF LogInvariant, TypeOK
<1>2. UNCHANGED <<disk, logDisk, headerDisk, mem, sys>>
  BY Zenon DEF EndOpReturn, FinishCommit, diskVars
<1>3. UNCHANGED <<Recovered, Visible>>
  BY Zenon, <1>2 DEF Recovered, Visible
<1>4. pc[t] \in {"end", "finish"} /\ pc'[t] = "idle"
  BY Zenon, <1>1 DEF EndOpReturn, FinishCommit, WakeBeginners, WakeEnders
<1>5. OpState[t] = "checkpointed" /\ OpState'[t] = "idle"
  BY Zenon, <1>4, OpStateIsOpAt, OpAtValues
<1>6. ASSUME NEW u \in Threads \ {t} PROVE OpState'[u] = OpState[u]
  <2>1. CASE EndOpReturn(t)
    <3>1. \A w \in Threads \ {t} : pc'[w] = pc[w]
      BY Zenon, <1>1, <2>1 DEF EndOpReturn
    <3>2. AfterCommitPoint' = AfterCommitPoint
      BY Zenon, <1>4, <2>1, <3>1 DEF AfterCommitPoint, EndOpReturn
    <3> QED
      BY Zenon, <3>1, <3>2, OpStateIsOpAt
  <2>2. CASE FinishCommit(t)
    <3>1. pc[t] = "finish"
      BY Zenon, <2>2 DEF FinishCommit
    <3>2. AfterCommitPoint = TRUE
      BY Zenon, <3>1 DEF AfterCommitPoint
    <3>3. pc'[u] = IF pc[u] = "end_sleep" THEN "end"
                   ELSE IF pc[u] = "begin_sleep" THEN "begin" ELSE pc[u]
      BY Zenon, <1>1, <2>2 DEF FinishCommit, WakeBeginners, WakeEnders
    <3>4. pc[u] \notin CommitLabels
      BY Zenon, <3>1, Committer DEF CommitLabels
    <3>5. pc[u] \in {"idle", "begin", "begin_sleep", "running", "end_sleep", "end"}
      BY Zenon, <1>1, <3>4 DEF Labels, CommitLabels
    <3>6. OpAt("end_sleep", TRUE) = "checkpointed"
      BY Zenon DEF OpAt
    <3>7. OpState[u] = OpAt(pc[u], TRUE) /\ OpState'[u] = OpAt(pc'[u], AfterCommitPoint')
      BY Zenon, <3>2, OpStateIsOpAt
    <3>8. CASE pc[u] = "end_sleep"
      BY Zenon, <3>3, <3>6, <3>7, <3>8, OpAtValues
    <3>9. CASE pc[u] # "end_sleep"
      <4>1. pc'[u] # "end_sleep"
        BY Zenon, <3>3, <3>5, <3>9
      <4>2. OpState'[u] = OpAt(pc'[u], TRUE)
        BY <3>7, <4>1 DEF OpAt
      <4> QED
        BY <3>3, <3>5, <3>7, <3>9, <4>2, OpAtValues, ZenonT(90)
    <3> QED
      BY Zenon, <3>8, <3>9
  <2> QED
    BY Zenon, <2>1, <2>2
<1>7. OpState' = [OpState EXCEPT ![t] = "idle"]
  BY Zenon, <1>5, <1>6, OpStateIsOpAt
<1> QED
  BY Zenon, <1>3, <1>5, <1>7 DEF Abs!Return

\* cache_sync with a context is the abstract write, even when it panics.
LEMMA WriteSteps ==
  ASSUME LogInvariant, NEW t \in Threads, NEW b \in Blocks \ DirectBlocks,
         NEW v \in Values, Sync(t, b, v)
  PROVE  Abs!Write(t, b, v)
<1>1. /\ UNCHANGED <<disk, logDisk, headerDisk, pc>> /\ pc[t] = "running"
      /\ mem' = [mem EXCEPT ![b] = v] /\ sys = "up" /\ sys' \in {"up", "panicked"}
  BY Zenon, SyncEffect DEF diskVars
<1>2. UNCHANGED Recovered
  BY Zenon, <1>1 DEF Recovered
<1>3. UNCHANGED OpState
  BY Zenon, <1>1, SameOps
<1>4. OpState[t] = "running"
  BY Zenon, <1>1, OpStateIsOpAt, OpAtValues
<1>5. Visible' = [Visible EXCEPT ![b] = v]
  BY Zenon, <1>1 DEF Visible
<1> QED
  BY Zenon, <1>2, <1>3, <1>4, <1>5 DEF Abs!Write

\* cache_sync without a context writes both contents.
LEMMA DirectSteps ==
  ASSUME LogInvariant, NEW b \in DirectBlocks, NEW v \in Values, SyncDirect(b, v)
  PROVE  Abs!WriteDirect(b, v)
<1>0. TypeOK /\ HeaderInv /\ b \in Blocks
  BY Zenon, LogAssumption DEF LogInvariant
<1>1. /\ UNCHANGED <<logDisk, headerDisk, pc, sys>> /\ sys = "up"
      /\ mem' = [mem EXCEPT ![b] = v] /\ disk' = [disk EXCEPT ![b] = v]
  BY Zenon DEF SyncDirect
<1>2. UNCHANGED OpState
  BY Zenon, <1>1, SameOps
<1>3. Visible' = [Visible EXCEPT ![b] = v]
  BY Zenon, <1>1 DEF Visible
<1>4. ~In(b, headerDisk)
  BY Zenon, <1>0 DEF HeaderInv
<1>5. Recovered' = [Recovered EXCEPT ![b] = v]
  BY Zenon, <1>0, <1>1, <1>4 DEF Recovered, In, TypeOK
<1> QED
  BY Zenon, <1>2, <1>3, <1>5 DEF Abs!WriteDirect

\* Losing power is the abstract crash.
LEMMA CrashSteps ==
  ASSUME LogInvariant, Crash
  PROVE  Abs!Crash
<1>1. UNCHANGED Recovered
  BY Zenon DEF Crash, diskVars, Recovered
<1>2. Visible' = Recovered
  BY Zenon, <1>1 DEF Crash, Visible
<1>3. \A t \in Threads : pc'[t] = "idle"
  BY Zenon DEF Crash
<1>4. OpState' = [t \in Threads |-> "idle"]
  BY Zenon, <1>3, OpStateIsOpAt, OpAtValues
<1> QED
  BY Zenon, <1>1, <1>2, <1>4 DEF Abs!Crash

-----------------------------------------------------------------------------
\* The state at boot maps to an initial state of AtomicOps.
LEMMA RefinesInit == Init => Abs!Init
<1> SUFFICES ASSUME Init PROVE Abs!Init
  OBVIOUS
<1>1. Recovered = disk
  BY Zenon, RecEmpty, RecoveredIsRec, LogAssumption DEF Init
<1>2. Visible = Recovered
  BY Zenon DEF Init, Visible
<1>3. OpState = [t \in Threads |-> "idle"]
  BY Zenon, OpStateIsOpAt, OpAtValues DEF Init
<1> QED
  BY Zenon, <1>1, <1>2, <1>3 DEF Abs!Init, Init

\* Every step maps to a step of AtomicOps or to a stutter.
LEMMA RefinesNext ==
    LogInvariant /\ [Next]_vars => [Abs!Next]_<<Recovered, Visible, OpState>>
<1> SUFFICES ASSUME LogInvariant, [Next]_vars
             PROVE  [Abs!Next]_<<Recovered, Visible, OpState>>
  OBVIOUS
<1>1. ASSUME NEW t \in Threads, NEW b \in Blocks \ DirectBlocks, NEW v \in Values,
             Sync(t, b, v)
      PROVE  Abs!Next
  BY Zenon, <1>1, WriteSteps DEF Abs!Next
<1>2. ASSUME NEW t \in Threads, BeginOp(t)
      PROVE  Abs!Next \/ UNCHANGED <<Recovered, Visible, OpState>>
  BY Zenon, <1>2, BeginSteps DEF Abs!Next
<1>3. ASSUME NEW t \in Threads, EndOp(t) PROVE Abs!Next
  BY Zenon, <1>3, EndSteps DEF Abs!Next
<1>4. ASSUME NEW t \in Threads, EndOpReturn(t) \/ FinishCommit(t) PROVE Abs!Next
  BY Zenon, <1>4, ReturnSteps DEF Abs!Next
<1>5. ASSUME NEW t \in Threads, Commit(t) \/ WriteHeader(t)
      PROVE  Abs!Next \/ UNCHANGED <<Recovered, Visible, OpState>>
  BY Zenon, <1>5, CommitPoint DEF Abs!Next
<1>6. ASSUME NEW t \in Threads, WriteLog(t) \/ InstallTrans(t) \/ ClearHeader(t)
      PROVE  UNCHANGED <<Recovered, Visible, OpState>>
  BY Zenon, <1>6, WriteLogStutters, InstallStutters
<1>7. ASSUME NEW b \in DirectBlocks, NEW v \in Values, SyncDirect(b, v)
      PROVE  Abs!Next
  BY Zenon, <1>7, DirectSteps DEF Abs!Next
<1>8. ASSUME Recover PROVE UNCHANGED <<Recovered, Visible, OpState>>
  BY Zenon, <1>8, BootStutters
<1>9. ASSUME Crash PROVE Abs!Next
  BY Zenon, <1>9, CrashSteps DEF Abs!Next
<1>10. ASSUME UNCHANGED vars PROVE UNCHANGED <<Recovered, Visible, OpState>>
  BY <1>10 DEF vars, Recovered, Visible, OpState, AfterCommitPoint
<1> QED
  BY Zenon, <1>1, <1>2, <1>3, <1>4, <1>5, <1>6, <1>7, <1>8, <1>9, <1>10
     DEF Next, NonSync, Syncs, CommitStep

\* The log implements AtomicOps: whatever interleaving of begin_op, sync and
\* end_op the threads run and wherever power is lost, operations become durable
\* together, only after all of them have ended, and entirely or not at all.
THEOREM LogImplementsAtomicOps == Spec => AtomicDurable
  BY LogInvariantHolds, RefinesInit, RefinesNext, PTL
     DEF Spec, AtomicDurable, Abs!Spec, Abs!absVars

-----------------------------------------------------------------------------
(* Who sleeps in begin_op or end_op.                                        *)

Asleep == {"begin_sleep", "end_sleep"}

\* While the file system is up and nobody runs an operation or commits, the log is
\* empty and nothing is reserved, so that begin_op does not wait for space.
LEMMA RoomWhenQuiet ==
  ASSUME LogInvariant, sys = "up", ~committing, \A u \in Threads : pc[u] # "running",
         OP_MAX_NUM_BLOCKS <= mx
  PROVE  ~MustWait
<1>1. Len(header) = 0
  BY Zenon, EmptyLog DEF LogInvariant, HeaderInv
<1>2. mu = 0
  <2>1. \A t \in Threads : rm[t] = 0
    BY Zenon DEF LogInvariant, CommitInv
  <2>2. Reserved = {}
    BY <2>1 DEF Reserved
  <2> QED
    BY Zenon, <2>2, FS_EmptySet DEF LogInvariant, ReservationExact
<1> QED
  BY <1>1, <1>2, MxNat, LogAssumption DEF MustWait

\* A thread asleep in begin_op must wait, one asleep in end_op waits for somebody.
SleepInv ==
    sys = "up" =>
        \A t \in Threads :
            /\ pc[t] = "begin_sleep" => MustWait
            /\ pc[t] = "end_sleep" => committing \/ \E u \in Threads : pc[u] = "running"

\* Every step keeps sleepers waiting for something: whatever makes MustWait false
\* wakes up begin_op, and the last end_op starts the commit that wakes up the others.
LEMMA SleepStep == LogInvariant /\ SleepInv /\ [Next]_vars => SleepInv'
<1> SUFFICES ASSUME LogInvariant, SleepInv, [Next]_vars, sys' = "up", NEW t \in Threads
             PROVE  /\ pc'[t] = "begin_sleep" => MustWait'
                    /\ pc'[t] = "end_sleep" => committing' \/ \E u \in Threads : pc'[u] = "running"
  BY Zenon DEF SleepInv
<1>0. TypeOK /\ BootInv /\ CommitInv /\ HeaderInv
  BY Zenon DEF LogInvariant
<1>t. /\ pc \in [Threads -> Labels] /\ header \in Seq(Blocks) /\ Len(header) \in Nat
      /\ mu \in Nat /\ mx \in Nat /\ OP_MAX_NUM_BLOCKS \in Nat
  BY <1>0, MxNat, LogAssumption DEF TypeOK
<1>s. sys = "up" =>
        /\ pc[t] = "begin_sleep" => MustWait
        /\ pc[t] = "end_sleep" => committing \/ \E u \in Threads : pc[u] = "running"
  BY Zenon DEF SleepInv
<1>1. CASE Recover
  <2>1. sys \in BootPhases /\ pc' = pc
    BY Zenon, <1>1 DEF Recover, ReadHeader, RecoverInstall, RecoverClear, BootPhases
  <2> QED
    BY Zenon, <1>0, <2>1 DEF BootInv
<1>2. CASE Crash
  BY Zenon, <1>2 DEF Crash
<1>3. ASSUME NEW b \in DirectBlocks, NEW v \in Values, SyncDirect(b, v)
      PROVE  sys = "up" /\ UNCHANGED <<header, mu, committing, pc>>
  BY Zenon, <1>3 DEF SyncDirect, resVars
<1>4. CASE sys = "up" /\ UNCHANGED <<header, mu, committing, pc>>
  BY Zenon, <1>s, <1>4 DEF MustWait
<1>5. CASE UNCHANGED vars
  BY Zenon, <1>4, <1>5 DEF vars
<1>6. ASSUME NEW o \in Threads, NEW b \in Blocks \ DirectBlocks, NEW v \in Values, Sync(o, b, v)
      PROVE  /\ pc'[t] = "begin_sleep" => MustWait'
             /\ pc'[t] = "end_sleep" => committing' \/ \E u \in Threads : pc'[u] = "running"
  <2>1. sys = "up" /\ UNCHANGED <<committing, pc>>
    BY Zenon, <1>6 DEF Sync
  <2>2. \/ header' = header /\ mu' = mu
        \/ header' = Append(header, b) /\ mu' = mu - 1
    BY Zenon, <1>6 DEF Sync
  <2>3. Len(header') + mu' = Len(header) + mu
    BY <1>t, <2>2
  <2> QED
    BY Zenon, <1>s, <2>1, <2>3 DEF MustWait
<1>7. ASSUME NEW o \in Threads, BeginOp(o)
      PROVE  /\ pc'[t] = "begin_sleep" => MustWait'
             /\ pc'[t] = "end_sleep" => committing' \/ \E u \in Threads : pc'[u] = "running"
  <2>1. sys = "up" /\ header' = header
    BY Zenon, <1>7 DEF BeginOp
  <2>2. CASE MustWait
    <3>1. UNCHANGED <<committing, mu>> /\ pc' = [pc EXCEPT ![o] = "begin_sleep"]
          /\ pc[o] \in {"idle", "begin"}
      BY Zenon, <1>7, <2>2 DEF BeginOp, resVars
    <3>2. MustWait'
      BY Zenon, <2>1, <2>2, <3>1 DEF MustWait
    <3>3. pc'[t] = "end_sleep" => committing' \/ \E u \in Threads : pc'[u] = "running"
      BY Zenon, <1>s, <1>t, <2>1, <3>1
    <3> QED
      BY Zenon, <3>2, <3>3
  <2>3. CASE ~MustWait
    <3>1. /\ mu' = mu + OP_MAX_NUM_BLOCKS /\ committing' = committing
          /\ pc' = [pc EXCEPT ![o] = "running"]
      BY Zenon, <1>7, <2>3 DEF BeginOp
    <3>2. pc'[o] = "running"
      BY Zenon, <1>t, <3>1
    <3>3. MustWait => MustWait'
      BY <1>t, <2>1, <3>1 DEF MustWait
    <3>4. pc'[t] = "begin_sleep" => pc[t] = "begin_sleep"
      BY Zenon, <1>t, <3>1
    <3> QED
      BY Zenon, <1>s, <2>1, <3>2, <3>3, <3>4
  <2> QED
    BY Zenon, <2>2, <2>3
<1>8. ASSUME NEW o \in Threads, EndOp(o)
      PROVE  /\ pc'[t] = "begin_sleep" => MustWait'
             /\ pc'[t] = "end_sleep" => committing' \/ \E u \in Threads : pc'[u] = "running"
  <2>1. /\ sys = "up" /\ pc[o] = "running" /\ ~committing
    BY Zenon, <1>0, <1>8 DEF EndOp, CommitInv
  <2>2. CASE outstanding - 1 = 0
    <3>1. committing' = TRUE
      BY Zenon, <1>8, <2>1, <2>2 DEF EndOp
    <3> QED
      BY Zenon, <3>1 DEF MustWait
  <2>3. CASE outstanding - 1 # 0
    <3>1. pc' = WakeBeginners([pc EXCEPT ![o] = "end_sleep"])
      BY Zenon, <1>8, <2>1, <2>3 DEF EndOp
    <3>2. PICK u \in Threads \ {o} : pc[u] = "running"
      BY Zenon, <2>1, <2>3, LastOperation
    <3>3. pc'[u] = "running"
      BY Zenon, <1>t, <3>1, <3>2 DEF WakeBeginners
    <3>4. pc'[t] # "begin_sleep"
      BY Zenon, <1>t, <3>1 DEF WakeBeginners
    <3> QED
      BY Zenon, <3>3, <3>4
  <2> QED
    BY Zenon, <2>2, <2>3
<1>9. ASSUME NEW o \in Threads, EndOpReturn(o)
      PROVE  /\ pc'[t] = "begin_sleep" => MustWait'
             /\ pc'[t] = "end_sleep" => committing' \/ \E u \in Threads : pc'[u] = "running"
  <2>1. /\ sys = "up" /\ pc[o] = "end" /\ pc' = [pc EXCEPT ![o] = "idle"]
        /\ UNCHANGED <<header, mu, committing>>
    BY Zenon, <1>9 DEF EndOpReturn, resVars
  <2>2. MustWait' = MustWait
    BY Zenon, <2>1 DEF MustWait
  <2> QED
    BY Zenon, <1>s, <1>t, <2>1, <2>2
<1>10. ASSUME NEW o \in Threads, FinishCommit(o)
      PROVE  pc'[t] \notin Asleep
  <2>1. pc' = WakeBeginners(WakeEnders([pc EXCEPT ![o] = "idle"]))
    BY Zenon, <1>10 DEF FinishCommit
  <2> QED
    BY Zenon, <1>t, <2>1 DEF WakeBeginners, WakeEnders, Asleep
<1>11. ASSUME NEW o \in Threads, CommitStep(o), ~FinishCommit(o)
      PROVE  committing'
  <2>1. pc[o] \in CommitLabels /\ committing' = committing
    BY Zenon, <1>11 DEF CommitStep, Commit, WriteLog, WriteHeader, InstallTrans,
           ClearHeader,
                 CommitLabels, resVars
  <2> QED
    BY Zenon, <1>0, <2>1 DEF CommitInv
<1>12. CASE committing'
  BY Zenon, <1>12 DEF MustWait
<1>13. CASE pc'[t] \notin Asleep
  BY Zenon, <1>13 DEF Asleep
<1> QED
  BY Zenon, <1>1, <1>2, <1>3, <1>4, <1>5, <1>6, <1>7, <1>8, <1>9, <1>10, <1>11,
     <1>12, <1>13
     DEF Next, NonSync, Syncs

\* A thread asleep in begin_op or end_op always waits for an operation that runs or
\* for a commit, each of which wakes it up: no wakeup of cache.c is missed.
THEOREM NoSleeperMissed == Spec => []SleepersAwaited
<1>1. Init => SleepInv
  BY Zenon DEF Init, SleepInv
<1>2. LogInvariant /\ SleepInv => SleepersAwaited
  <2> SUFFICES ASSUME LogInvariant, SleepInv, sys = "up", NEW t \in Threads,
                      pc[t] = "begin_sleep", OP_MAX_NUM_BLOCKS <= mx
               PROVE  committing \/ \E u \in Threads : pc[u] = "running"
    BY Zenon DEF SleepersAwaited, SleepInv
  <2>1. MustWait
    BY Zenon DEF SleepInv
  <2> QED
    BY Zenon, <2>1, RoomWhenQuiet
<1> QED
  BY <1>1, <1>2, SleepStep, LogInvariantHolds, PTL DEF Spec
=============================================================================
