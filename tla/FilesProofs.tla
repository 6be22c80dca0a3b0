---------------------------- MODULE FilesProofs ----------------------------
(***************************************************************************)
(* Proofs about descriptors, open files, in-memory inodes and operations,  *)
(* for any number of processes, descriptors, files, inodes and names, any  *)
(* paths and any number of system calls: the reference counts of inodes    *)
(* and of files and the count of outstanding operations are exact.         *)
(***************************************************************************)
EXTENDS FilesTable, FilesTree, FiniteSetTheorems

-----------------------------------------------------------------------------
(* Counting.                                                                *)

In(x, S) == IF x \in S THEN 1 ELSE 0

\* Two sets that differ at most in x.
LEMMA CountStep ==
  ASSUME NEW S, NEW T, NEW x, IsFiniteSet(S), \A y : y # x => (y \in S <=> y \in T)
  PROVE  /\ IsFiniteSet(T) /\ Cardinality(S) \in Nat /\ Cardinality(T) \in Nat
         /\ Cardinality(T) = Cardinality(S) + In(x, T) - In(x, S)
<1>1. Cardinality(S) \in Nat
  BY FS_CardinalityType
<1>2. CASE (x \in S) <=> (x \in T)
  <2>1. \A y : y \in S <=> y \in T
    BY Zenon, <1>2
  <2>2. S = T
    BY Zenon, <2>1
  <2> QED
    BY <1>1, <2>2 DEF In
<1>3. CASE x \in S /\ x \notin T
  <2>1. T = S \ {x}
    BY Zenon, <1>3
  <2>2. IsFiniteSet(T) /\ Cardinality(T) = Cardinality(S) - 1
    BY <1>3, <2>1, FS_RemoveElement
  <2> QED
    BY <1>1, <1>3, <2>2, FS_CardinalityType DEF In
<1>4. CASE x \notin S /\ x \in T
  <2>1. T = S \cup {x}
    BY Zenon, <1>4
  <2>2. IsFiniteSet(T) /\ Cardinality(T) = Cardinality(S) + 1
    BY <1>4, <2>1, FS_AddElement
  <2> QED
    BY <1>1, <1>4, <2>2, FS_CardinalityType DEF In
<1> QED
  BY Zenon, <1>2, <1>3, <1>4

\* The sets that the counts count are finite.
LEMMA Finite ==
  /\ IsFiniteSet(Procs) /\ IsFiniteSet(Files) /\ IsFiniteSet(Fds) /\ IsFiniteSet(Inums)
  /\ IsFiniteSet(Procs \X Fds)
<1>1. IsFiniteSet(Procs) /\ NFILE \in Nat /\ NOFILE \in Nat /\ NumInodes - 1 \in Nat
  BY FilesAssumption
<1>2. IsFiniteSet(Files) /\ IsFiniteSet(Fds)
  BY <1>1, FS_Interval DEF Files, Fds
<1>3. IsFiniteSet(Inums)
  BY <1>1, FS_Interval DEF Inums
<1> QED
  BY <1>1, <1>2, <1>3, FS_Product

\* The other processes stay where they are.
LEMMA OthersOK ==
  ASSUME Types, ProcessesOK, NEW p \in Procs, OthersKeep(p), Grows,
         PlaceOK(p)', ExitOK(p)', CwdOK(p)', LookOK(p)'
  PROVE  ProcessesOK'
<1> SUFFICES ASSUME NEW q \in Procs, q # p
    PROVE  PlaceOK(q)' /\ ExitOK(q)' /\ CwdOK(q)' /\ LookOK(q)'
  BY Zenon DEF ProcessesOK
<1>1. pc'[q] = pc[q] /\ loc'[q] = loc[q] /\ ofile'[q] = ofile[q] /\ cwd'[q] = cwd[q]
  BY Zenon DEF OthersKeep
<1>2. PlaceOK(q) /\ ExitOK(q) /\ CwdOK(q) /\ LookOK(q)
  BY Zenon DEF ProcessesOK
<1>3. Place(q)' = Place(q)
  BY Zenon, <1>1 DEF Place
<1>4. PlaceOK(q)'
  BY Zenon, <1>1, <1>2, <1>3 DEF PlaceOK
<1>5. ExitOK(q)'
  BY Zenon, <1>1, <1>2, <1>3 DEF ExitOK
<1>6. CwdOK(q)'
  BY Zenon, <1>1, <1>2, <1>3 DEF CwdOK
<1>7. LookOK(q)'
  <2>1. CASE pc[q] \in {"create", "exists", "new"}
    <3>1. loc[q].ip # None /\ loc[q].rest # <<>>
      BY <1>2, <2>1 DEF PlaceOK, LocalsOK, PlaceAt, Waits, HasIp
    <3>2. loc[q].ip \in Inums /\ Head(loc[q].rest) \in AllNames
      BY <3>1 DEF Types, Locals
    <3> QED
      BY Zenon, <1>1, <1>2, <3>2 DEF LookOK, LookAt, Grows
  <2>2. CASE pc[q] \notin {"create", "exists", "new"}
    BY Zenon, <1>1, <2>2 DEF LookOK, LookAt
  <2> QED
    BY Zenon, <2>1, <2>2
<1> QED
  BY Zenon, <1>4, <1>5, <1>6, <1>7

\* A count of descriptors is a natural number.
LEMMA RefsNatural ==
  ASSUME RefExact
  PROVE  \A f \in Files : file[f].ref \in Nat
<1> SUFFICES ASSUME NEW f \in Files PROVE file[f].ref \in Nat
  OBVIOUS
<1>1. Descriptors(f) \subseteq Procs \X Fds /\ BeingClosed(f) \subseteq Procs
  BY Zenon DEF Descriptors, BeingClosed
<1>2. IsFiniteSet(Descriptors(f)) /\ IsFiniteSet(BeingClosed(f))
  BY Zenon, <1>1, Finite, FS_Subset
<1>3. Cardinality(Descriptors(f)) \in Nat /\ Cardinality(BeingClosed(f)) \in Nat
  BY Zenon, <1>2, FS_CardinalityType
<1>4. file[f].ref = Cardinality(Descriptors(f)) + Cardinality(BeingClosed(f))
  BY Zenon DEF RefExact
<1> QED
  BY <1>3, <1>4

\* The holders of an inode, told by these.
HoldersAt ==
    \A i \in Inums :
        /\ CwdHolders(i) = {p \in Procs : CwdAt(p) = i}
        /\ FileHolders(i) = {f \in Files : FileAt(f) = i}

\* The files that refer to an inode are the open ones whose ip is that inode.
LEMMA HoldersTold == FileInv /\ RefExact => HoldersAt
<1> SUFFICES ASSUME FileInv, RefExact, NEW i \in Inums
    PROVE  /\ CwdHolders(i) = {p \in Procs : CwdAt(p) = i}
           /\ FileHolders(i) = {f \in Files : FileAt(f) = i}
  BY Zenon DEF HoldersAt
<1>1. i # None
  BY Zenon, NoneIsNone
<1>2. \A f \in Files : file[f].type = "INODE" => file[f].ref > 0
  <2>1. ASSUME NEW f \in Files, file[f].type = "INODE" PROVE file[f].ref # 0
    BY <2>1 DEF FileInv
  <2>2. \A f \in Files : file[f].ref \in Nat
    BY Zenon, RefsNatural
  <2> QED
    BY <2>1, <2>2
<1>3. \A p \in Procs : CwdAt(p) = i <=>
                        cwd[p] = i /\ loc[p].then \notin {"set_cwd", "exited"}
  BY Zenon, <1>1 DEF CwdAt
<1>4. \A f \in Files : FileAt(f) = i <=>
                        file[f].ref > 0 /\ file[f].type = "INODE" /\ file[f].ip = i
  BY Zenon, <1>1, <1>2 DEF FileAt
<1>5. CwdHolders(i) = {p \in Procs : CwdAt(p) = i}
  BY Zenon, <1>3 DEF CwdHolders
<1>6. FileHolders(i) = {f \in Files : FileAt(f) = i}
  BY Zenon, <1>4 DEF FileHolders
<1> QED
  BY Zenon, <1>5, <1>6

\* The same of the state after a step.
LEMMA HoldersToldAfter == FileInv' /\ RefExact' => HoldersAt'
  BY HoldersTold, PTL

\* A step whose change of rc is what it adds to and removes from the holders of
\* each inode (RcMoves) keeps the counts of references exact.
LEMMA RcStep ==
  ASSUME RcExact, FileInv, RefExact, FileInv', RefExact', NEW p \in Procs, NEW f,
         RcMoves(p, f)
  PROVE  RcExact'
<1> SUFFICES ASSUME NEW i \in Inums PROVE rc'[i] = Holders(i)' + lostRefs'[i]
  BY Zenon DEF RcExact
<1>1. HoldersAt /\ HoldersAt'
  BY Zenon, HoldersTold, HoldersToldAfter
<1> DEFINE C == CwdHolders(i)
           D == CwdHolders(i)'
           F == FileHolders(i)
           G == FileHolders(i)'
           K == CallHolders(i)
           L == CallHolders(i)'
<1>2. /\ C = {q \in Procs : CwdAt(q) = i} /\ D = {q \in Procs : CwdAt(q)' = i}
      /\ F = {g \in Files : FileAt(g) = i} /\ G = {g \in Files : FileAt(g)' = i}
      /\ K = {q \in Procs : loc[q].ip = i} /\ L = {q \in Procs : loc'[q].ip = i}
  BY Zenon, <1>1 DEF HoldersAt, CallHolders
<1>3. rc[i] = Holders(i) + lostRefs[i]
  BY Zenon DEF RcExact
<1> HIDE DEF C, D, F, G, K, L
<1>4. IsFiniteSet(C) /\ IsFiniteSet(F) /\ IsFiniteSet(K)
  <2>1. C \subseteq Procs /\ F \subseteq Files /\ K \subseteq Procs
    BY Zenon, <1>2
  <2> QED
    BY Zenon, <2>1, Finite, FS_Subset
<1>5. /\ Cardinality(C) \in Nat /\ Cardinality(D) \in Nat
      /\ Cardinality(D) = Cardinality(C) + Is(CwdAt(p)', i) - Is(CwdAt(p), i)
  <2>1. \A y : y # p => (y \in C <=> y \in D)
    BY Zenon, <1>2 DEF RcMoves
  <2>2. (p \in C <=> CwdAt(p) = i) /\ (p \in D <=> CwdAt(p)' = i)
    BY Zenon, <1>2
  <2>3. /\ Cardinality(C) \in Nat /\ Cardinality(D) \in Nat
        /\ Cardinality(D) = Cardinality(C) + In(p, D) - In(p, C)
    BY <1>4, <2>1, CountStep
  <2> QED
    BY <2>2, <2>3 DEF In, Is
<1>6. /\ Cardinality(K) \in Nat /\ Cardinality(L) \in Nat
      /\ Cardinality(L) = Cardinality(K) + Is(loc'[p].ip, i) - Is(loc[p].ip, i)
  <2>1. \A y : y # p => (y \in K <=> y \in L)
    BY Zenon, <1>2 DEF RcMoves
  <2>2. (p \in K <=> loc[p].ip = i) /\ (p \in L <=> loc'[p].ip = i)
    BY Zenon, <1>2
  <2>3. /\ Cardinality(K) \in Nat /\ Cardinality(L) \in Nat
        /\ Cardinality(L) = Cardinality(K) + In(p, L) - In(p, K)
    BY <1>4, <2>1, CountStep
  <2> QED
    BY <2>2, <2>3 DEF In, Is
<1>7. /\ Cardinality(F) \in Nat /\ Cardinality(G) \in Nat
      /\ Cardinality(G) = Cardinality(F) + Is(FileAt(f)', i) - Is(FileAt(f), i)
  <2>1. \A y : y # f => (y \in F <=> y \in G)
    BY Zenon, <1>2 DEF RcMoves
  <2>2. (f \in F <=> FileAt(f) = i) /\ (f \in G <=> FileAt(f)' = i)
    BY Zenon, <1>2, NoneIsNone DEF FileAt
  <2>3. /\ Cardinality(F) \in Nat /\ Cardinality(G) \in Nat
        /\ Cardinality(G) = Cardinality(F) + In(f, G) - In(f, F)
    BY <1>4, <2>1, CountStep
  <2> QED
    BY <2>2, <2>3 DEF In, Is
<1>8. PICK r : r = IF i = ROOT_INODE_NO THEN 1 ELSE 0
  OBVIOUS
<1>9. /\ Holders(i) = Cardinality(C) + Cardinality(F) + Cardinality(K) + r
      /\ Holders(i)' = Cardinality(D) + Cardinality(G) + Cardinality(L) + r
  BY Zenon, <1>8 DEF Holders, C, D, F, G, K, L
<1>10. r \in Int /\ \A a, b : Is(a, b) \in Int
  BY <1>8 DEF Is
<1>11. /\ rc[i] \in Int /\ lostRefs[i] \in Int /\ lostRefs'[i] \in Int
       /\ rc'[i] = rc[i] + Is(CwdAt(p)', i) - Is(CwdAt(p), i)
                    + Is(loc'[p].ip, i) - Is(loc[p].ip, i)
                    + Is(FileAt(f)', i) - Is(FileAt(f), i)
                    + lostRefs'[i] - lostRefs[i]
  BY Zenon DEF RcMoves
<1> QED
  BY <1>3, <1>5, <1>6, <1>7, <1>9, <1>10, <1>11

\* The same of the state after a step.
LEMMA DescriptorsToldAfter ==
  \A f : Descriptors(f)' =
            {x \in Procs \X Fds : ofile'[x[1]][x[2]] = f /\ x[2] # Excused(x[1])'}
<1> SUFFICES ASSUME NEW f, NEW p \in Procs, NEW fd \in Fds
    PROVE  ~(loc'[p].call = "exit" /\ loc'[p].fd = fd /\ pc'[p] # "fileclose")
             <=> fd # Excused(p)'
  BY DEF Descriptors
<1>1. fd # None
  BY Zenon, NoneIsNone
<1> QED
  BY Zenon, <1>1 DEF Excused

\* outstanding stays exact when it moves as process p enters or leaves an operation.
LEMMA OpsStep ==
  ASSUME OpsExact, NEW p \in Procs,
         \A q \in Procs \ {p} : pc'[q] \in Outside <=> pc[q] \in Outside,
         outstanding \in Int, lostOps \in Int, lostOps' \in Int,
         outstanding' = outstanding + Busy(pc'[p]) - Busy(pc[p])
                          + lostOps' - lostOps
  PROVE  OpsExact'
<1> DEFINE S == InOp
           T == InOp'
<1>1. /\ S = {q \in Procs : pc[q] \notin Outside}
      /\ T = {q \in Procs : pc'[q] \notin Outside}
  BY Zenon DEF InOp, Outside
<1>2. outstanding = Cardinality(S) + lostOps
  BY Zenon DEF OpsExact
<1>3. OpsExact' <=> outstanding' = Cardinality(T) + lostOps'
  BY Zenon DEF OpsExact
<1> HIDE DEF S, T
<1>4. IsFiniteSet(S)
  <2>1. S \subseteq Procs
    BY Zenon, <1>1
  <2> QED
    BY Zenon, <2>1, Finite, FS_Subset
<1>5. \A y : y # p => (y \in S <=> y \in T)
  BY Zenon, <1>1
<1>6. (p \in S <=> pc[p] \notin Outside) /\ (p \in T <=> pc'[p] \notin Outside)
  BY Zenon, <1>1
<1>7. /\ Cardinality(S) \in Nat /\ Cardinality(T) \in Nat
      /\ Cardinality(T) = Cardinality(S) + In(p, T) - In(p, S)
  BY <1>4, <1>5, CountStep
<1>8. /\ In(p, S) = Busy(pc[p])
      /\ In(p, T) = Busy(pc'[p])
  BY Zenon, <1>6 DEF In, Busy
<1>9. \A l : Busy(l) \in Int
  BY DEF Busy
<1> QED
  BY <1>2, <1>3, <1>7, <1>8, <1>9

\* A step that changes no file, no descriptor and nobody's use of one keeps what
\* is said of the file table.
LEMMA QuietKeeps ==
  ASSUME FileInv, PendInv, RefExact, Quiet
  PROVE  FileInv' /\ PendInv' /\ RefExact'
<1>1. file' = file /\ ofile' = ofile
  BY Zenon DEF Quiet
<1>2. \A q \in Procs : Excused(q)' = Excused(q)
  BY Zenon DEF Quiet, QuietFor
<1>3. ASSUME NEW f PROVE Descriptors(f)' = Descriptors(f)
  BY Zenon, <1>1, <1>2, DescriptorsTold, DescriptorsToldAfter
<1>4. ASSUME NEW f PROVE BeingClosed(f)' = BeingClosed(f)
  <2>1. \A q \in Procs : pc'[q] = "fileclose" /\ loc'[q].call = "close" /\ loc'[q].f = f
                        <=> pc[q] = "fileclose" /\ loc[q].call = "close" /\ loc[q].f = f
    BY Zenon DEF Quiet, QuietFor
  <2> QED
    BY Zenon, <2>1 DEF BeingClosed
<1>5. RefExact'
  BY Zenon, <1>1, <1>3, <1>4 DEF RefExact
<1>6. FileInv'
  BY Zenon, <1>1 DEF FileInv
<1>7. PendInv'
  <2>1. ASSUME NEW q \in Procs, Place(q)' = "install"
        PROVE  Place(q) = "install" /\ loc'[q].f = loc[q].f
    BY Zenon, <2>1 DEF Quiet, QuietFor
  <2> QED
    BY Zenon, <1>1, <1>3, <1>4, <2>1 DEF PendInv
<1> QED
  BY Zenon, <1>5, <1>6, <1>7

\* A step of p that changes no file keeps the counts of references.
LEMMA RefersKeep ==
  ASSUME FilesInv, Types', FileInv', RefExact', NEW p \in Procs, OthersKeep(p), file' = file,
         RefersRight(p)
  PROVE  RcExact'
<1>1. \A q \in Procs \ {p} : CwdAt(q)' = CwdAt(q) /\ loc'[q].ip = loc[q].ip
  BY Zenon DEF OthersKeep, CwdAt
<1>2. \A g \in Files \ {None} : FileAt(g)' = FileAt(g)
  BY Zenon DEF FileAt
<1>3. /\ \A i \in Inums : rc[i] \in Int /\ lostRefs[i] \in Int /\ lostRefs'[i] \in Int
  BY DEF FilesInv, Types
<1>4. ASSUME NEW i \in Inums
      PROVE  rc'[i] = rc[i] + Is(CwdAt(p)', i) - Is(CwdAt(p), i)
                       + Is(loc'[p].ip, i) - Is(loc[p].ip, i)
                       + Is(FileAt(None)', i)
                       - Is(FileAt(None), i)
                       + lostRefs'[i] - lostRefs[i]
  <2>1. Is(FileAt(None)', i) = 0 /\ Is(FileAt(None), i) = 0
    BY Zenon, NoneIsNone DEF Is, FileAt
  <2>2. PICK n : n = rc[i] + Is(CwdAt(p)', i) - Is(CwdAt(p), i)
                       + Is(loc'[p].ip, i) - Is(loc[p].ip, i)
    BY Zenon
  <2>3. n \in Int
    BY <1>3, <2>2 DEF Is
  <2>4. rc'[i] = n + lostRefs'[i] - lostRefs[i]
    BY Zenon, <2>2 DEF RefersRight
  <2>5. n + lostRefs'[i] - lostRefs[i] = n + 0 - 0 + lostRefs'[i] - lostRefs[i]
    BY <1>3, <2>3
  <2> QED
    BY Zenon, <2>1, <2>2, <2>4, <2>5
<1>5. RcExact /\ FileInv /\ RefExact
  BY Zenon DEF FilesInv
<1>6. RcMoves(p, None)
  BY Zenon, <1>1, <1>2, <1>3, <1>4 DEF RcMoves
<1> QED
  BY Zenon, <1>5, <1>6, RcStep

\* A step of p that opens and closes nothing, together.
LEMMA QuietInv ==
  ASSUME FilesInv, Types', NEW p \in Procs, OthersKeep(p), Quiet,
         PlaceOK(p)', ExitOK(p)', CwdOK(p)', LookOK(p)', DiskInv', Grows,
         RefersRight(p), OpsRight(p)
  PROVE  FilesInv'
<1>1. ProcessesOK'
  BY Zenon, OthersOK DEF FilesInv
<1>2. FileInv' /\ PendInv' /\ RefExact'
  BY Zenon, QuietKeeps DEF FilesInv
<1>3. RcExact'
  <2>1. file' = file
    BY Zenon DEF Quiet
  <2> QED
    BY Zenon, <1>2, <2>1, RefersKeep
<1>4. OpsExact'
  <2>1. \A q \in Procs \ {p} : pc'[q] \in Outside <=> pc[q] \in Outside
    BY Zenon DEF OthersKeep
  <2>2. outstanding \in Int /\ lostOps \in Int /\ lostOps' \in Int
    BY DEF FilesInv, Types
  <2> QED
    BY <2>1, <2>2, OpsStep DEF FilesInv, OpsRight
<1> QED
  BY Zenon, <1>1, <1>2, <1>3, <1>4 DEF FilesInv

\* end_op() keeps the invariant.
LEMMA EndOpInv ==
  ASSUME FilesInv, NEW p \in Procs, EndOp(p)
  PROVE  FilesInv'
<1>1. Types /\ \A q \in Procs : PlaceOK(q) /\ ExitOK(q) /\ CwdOK(q) /\ LookOK(q)
  BY Zenon DEF FilesInv, ProcessesOK
<1>2. /\ pc[p] = "end_op" /\ outstanding' = outstanding - 1
      /\ pc' = IF outstanding = 1
                 THEN [q \in Procs |-> IF q = p \/ pc[q] = "ending" THEN loc[q].then ELSE pc[q]]
                 ELSE [pc EXCEPT ![p] = "ending"]
      /\ UNCHANGED <<dinode, rc, ilock, file, ofile, cwd, loc, lostRefs, lostOps>>
  BY DEF EndOp, At, history
<1>3. ASSUME NEW q \in Procs
      PROVE  /\ \/ q = p /\ pc'[q] \in {"ending", loc[q].then}
                \/ q # p /\ pc[q] = "ending" /\ pc'[q] = loc[q].then
                \/ q # p /\ pc'[q] = pc[q]
             /\ pc'[q] \in Labels
  <2>1. loc[q].then \in Labels /\ pc[q] \in Labels /\ "ending" \in Labels
    BY <1>1 DEF Types, Locals, Labels
  <2>2. CASE outstanding = 1
    BY <1>2, <2>1, <2>2
  <2>3. CASE outstanding # 1
    BY <1>1, <1>2, <2>1, <2>3 DEF Types
  <2> QED
    BY Zenon, <2>2, <2>3
<1>4. Types'
  <2>1. DOMAIN pc' = Procs /\ pc' = [q \in DOMAIN pc' |-> pc'[q]]
    BY Zenon, <1>1, <1>2 DEF Types
  <2>2. pc' \in [Procs -> Labels]
    BY Zenon, <1>3, <2>1
  <2> QED
    BY <1>1, <1>2, <2>2, FilesAssumption DEF Types
<1>5. \A q \in Procs : PlaceOK(q)' /\ ExitOK(q)' /\ CwdOK(q)' /\ LookOK(q)' /\ QuietFor(q)
  <2>1. ASSUME NEW q \in Procs
        PROVE  \/ pc[q] = "end_op" /\ pc'[q] = "ending"
               \/ pc[q] \in {"end_op", "ending"} /\ pc'[q] = loc[q].then
               \/ pc'[q] = pc[q]
    BY Zenon, <1>2, <1>3
  <2> QED
    BY Zenon, <1>1, <1>2, <2>1, PlaceKept
<1>6. FileInv' /\ PendInv' /\ RefExact'
  <2>1. Quiet
    BY Zenon, <1>2, <1>5 DEF Quiet
  <2> QED
    BY Zenon, <2>1, QuietKeeps DEF FilesInv
<1>7. RcExact'
  BY Zenon, <1>2 DEF FilesInv, RcExact, Holders, CwdHolders, FileHolders, CallHolders
<1>8. OpsExact'
  <2>1. ASSUME NEW q \in Procs PROVE pc[q] \in {"end_op", "ending"} => loc[q].then \in Outside
    BY <1>1 DEF PlaceOK, LocalsOK, Outside
  <2>2. \A q \in Procs \ {p} : pc'[q] \in Outside <=> pc[q] \in Outside
    <3>1. "ending" \in Outside
      BY DEF Outside
    <3> QED
      BY Zenon, <1>3, <2>1, <3>1
  <2>3. pc[p] \notin Outside /\ pc'[p] \in Outside
    BY <1>2, <1>3, <2>1 DEF Outside
  <2>4. /\ outstanding \in Int /\ lostOps \in Int /\ lostOps' \in Int
        /\ outstanding' = outstanding + Busy(pc'[p]) - Busy(pc[p])
                            + lostOps' - lostOps
    BY <1>1, <1>2, <2>3 DEF Busy, Types
  <2>5. OpsExact
    BY Zenon DEF FilesInv
  <2> QED
    BY Zenon, <2>2, <2>4, <2>5, OpsStep
<1>9. DiskInv'
  BY Zenon, <1>2, DiskSame
<1> QED
  BY Zenon, <1>4, <1>5, <1>6, <1>7, <1>8, <1>9 DEF FilesInv, ProcessesOK

\* A panic, or what is undefined, changes nothing that the invariant is about.
LEMMA StopInv ==
  ASSUME FilesInv,
         UNCHANGED <<dinode, rc, ilock, file, ofile, cwd, outstanding, pc, loc, lostRefs,
                     lostOps>>
  PROVE  FilesInv'
<1>1. \A p \in Procs : Place(p)' = Place(p)
  BY Zenon DEF Place
<1>2. Types' /\ FileInv' /\ DiskInv'
  BY Zenon DEF FilesInv, Types, FileInv, DiskInv
<1>3. ProcessesOK'
  BY Zenon, <1>1 DEF FilesInv, ProcessesOK, PlaceOK, ExitOK, CwdOK, LookOK
<1>4. (\A f : Descriptors(f)' = Descriptors(f)) /\ (\A f : BeingClosed(f)' = BeingClosed(f))
  BY Zenon DEF Descriptors, BeingClosed
<1>5. PendInv' /\ RefExact'
  BY Zenon, <1>1, <1>4 DEF FilesInv, PendInv, RefExact
<1>6. RcExact'
  BY Zenon DEF FilesInv, RcExact, Holders, CwdHolders, FileHolders, CallHolders
<1>7. OpsExact'
  BY Zenon DEF FilesInv, OpsExact, InOp
<1> QED
  BY Zenon, <1>2, <1>3, <1>5, <1>6, <1>7 DEF FilesInv

\* A set of natural numbers has a least element.
LEMMA LeastNumber ==
  ASSUME NEW S \in SUBSET Nat, S # {}
  PROVE  \E x \in S : \A y \in S : x <= y
<1> DEFINE T == {0..x : x \in S}
<1>1. T \subseteq FiniteSubsetsOf(Nat)
  <2> SUFFICES ASSUME NEW x \in S PROVE 0..x \in FiniteSubsetsOf(Nat)
    BY Zenon
  <2>1. IsFiniteSet(0..x)
    BY FS_Interval
  <2> QED
    BY <2>1 DEF FiniteSubsetsOf
<1>2. PICK u \in T : \A v \in T : ~ (<<v, u>> \in StrictSubsetOrdering(Nat))
  <2>1. T # {}
    BY Zenon
  <2> HIDE DEF T
  <2> QED
    BY <1>1, <2>1, FS_StrictSubsetOrderingWellFounded, WFMin, Zenon
<1>3. PICK x \in S : u = 0..x
  BY Zenon
<1>4. \A y \in S : x <= y
  <2> SUFFICES ASSUME NEW y \in S, y < x PROVE FALSE
    OBVIOUS
  <2> DEFINE a == 0..y  b == 0..x
  <2>1. a \in SUBSET Nat /\ b \in SUBSET Nat /\ a \subseteq b /\ a # b
    <3>1. x \in 0..x /\ x \notin 0..y
      OBVIOUS
    <3> QED
      BY <3>1
  <2>2. a \in T
    BY Zenon
  <2> HIDE DEF a, T
  <2>3. <<a, b>> \in StrictSubsetOrdering(Nat)
    <3> HIDE DEF b
    <3> QED
      BY <2>1, Zenon DEF StrictSubsetOrdering
  <2> QED
    BY <1>2, <1>3, <2>2, <2>3, Zenon
<1> QED
  BY <1>4, Zenon

\* The least of a set of numbers is one of them.
LEMMA LeastMin ==
  ASSUME NEW S \in SUBSET Nat, S # {}
  PROVE  Min(S) \in S
<1>1. \E x \in S : \A y \in S : x <= y
  BY Zenon, LeastNumber
<1> QED
  BY Zenon, <1>1 DEF Min

\* A step of p whose change of ref is what it adds to and removes from the
\* descriptors and closings of each file keeps ref exact.
LEMMA RefStep ==
  ASSUME RefExact, NEW p \in Procs, NEW d, OthersKeep(p), RefMoves(p, d)
  PROVE  RefExact'
<1> SUFFICES ASSUME NEW g \in Files
    PROVE  file'[g].ref = Cardinality(Descriptors(g))' + Cardinality(BeingClosed(g))'
  BY Zenon DEF RefExact
<1> DEFINE S == Descriptors(g)
           T == Descriptors(g)'
           B == BeingClosed(g)
           C == BeingClosed(g)'
           x == <<p, d>>
<1>1. ASSUME NEW q \in Procs, q # p, NEW e
      PROVE  RefAt(q, e)' = RefAt(q, e) /\ ClosesAt(q)' = ClosesAt(q)
  <2>1. pc'[q] = pc[q] /\ loc'[q] = loc[q] /\ ofile'[q] = ofile[q]
    BY Zenon, <1>1 DEF OthersKeep
  <2> QED
    BY Zenon, <2>1 DEF RefAt, ClosesAt, Excused
<1>2. /\ \A q \in Procs, e \in Fds : <<q, e>> \in S <=> RefAt(q, e) = g
      /\ \A q \in Procs, e \in Fds : <<q, e>> \in T <=> RefAt(q, e)' = g
      /\ \A q \in Procs : (q \in B <=> ClosesAt(q) = g) /\ (q \in C <=> ClosesAt(q)' = g)
  BY Zenon, RefsTold, RefsToldAfter
<1>3. /\ \A y \in S : \E q \in Procs, e \in Fds : y = <<q, e>>
      /\ \A y \in T : \E q \in Procs, e \in Fds : y = <<q, e>>
      /\ B \subseteq Procs /\ C \subseteq Procs
  BY Zenon, DescriptorsPairs, DescriptorsPairsAfter
<1>4. file[g].ref = Cardinality(S) + Cardinality(B)
  BY Zenon DEF RefExact
<1>5. IsFiniteSet(S) /\ IsFiniteSet(B)
  <2>1. S \subseteq Procs \X Fds
    BY Zenon DEF Descriptors
  <2> QED
    BY Zenon, <1>3, <2>1, Finite, FS_Subset
<1> HIDE DEF S, T, B, C
<1>6. \A y : y # x => (y \in S <=> y \in T)
  <2>1. ASSUME NEW q \in Procs, NEW e \in Fds, <<q, e>> # x
        PROVE  <<q, e>> \in S <=> <<q, e>> \in T
    <3>1. CASE q # p
      BY Zenon, <1>1, <1>2, <3>1
    <3>2. CASE q = p
      <4>1. e # d
        BY Zenon, <2>1, <3>2
      <4>2. RefAt(p, e)' = RefAt(p, e)
        BY Zenon, <4>1 DEF RefMoves
      <4> QED
        BY Zenon, <1>2, <3>2, <4>2
    <3> QED
      BY Zenon, <3>1, <3>2
  <2> QED
    BY ZenonT(30), <1>3, <2>1
<1>7. \A y : y # p => (y \in B <=> y \in C)
  BY Zenon, <1>1, <1>2, <1>3
<1>8. In(x, S) = Is(RefAt(p, d), g) /\ In(x, T) = Is(RefAt(p, d)', g)
  <2>1. CASE d \in Fds
    BY Zenon, <1>2, <2>1 DEF In, Is
  <2>2. CASE d \notin Fds
    <3>1. RefAt(p, d) = None /\ RefAt(p, d)' = None /\ g # None
      BY <2>2, NoneIsNone DEF RefAt
    <3>2. x \notin S /\ x \notin T
      BY <1>3, <2>2
    <3> QED
      BY Zenon, <3>1, <3>2 DEF In, Is
  <2> QED
    BY Zenon, <2>1, <2>2
<1>9. In(p, B) = Is(ClosesAt(p), g) /\ In(p, C) = Is(ClosesAt(p)', g)
  BY Zenon, <1>2 DEF In, Is
<1>10. /\ Cardinality(S) \in Nat /\ Cardinality(T) \in Nat
       /\ Cardinality(T) = Cardinality(S) + In(x, T) - In(x, S)
  BY Zenon, <1>5, <1>6, CountStep
<1>11. /\ Cardinality(B) \in Nat /\ Cardinality(C) \in Nat
       /\ Cardinality(C) = Cardinality(B) + In(p, C) - In(p, B)
  BY Zenon, <1>5, <1>7, CountStep
<1>12. file'[g].ref = file[g].ref + In(x, T) - In(x, S) + In(p, C) - In(p, B)
  BY Zenon, <1>8, <1>9 DEF RefMoves
<1>13. \A y, Y : In(y, Y) \in Int
  BY DEF In
<1>14. file'[g].ref = Cardinality(T) + Cardinality(C)
  BY <1>4, <1>10, <1>11, <1>12, <1>13
<1> QED
  BY Zenon, <1>14 DEF T, C

\* A file that open() has reserved and not filled in is used by that open() alone.
LEMMA PendingUse ==
  ASSUME PendInv, RefExact, NEW q \in Procs, Place(q) = "install"
  PROVE  /\ loc[q].f \in Files /\ file[loc[q].f].type = "NONE"
         /\ file[loc[q].f].ref # 0 /\ UsesFile(q, loc[q].f)
         /\ \A u \in Procs : ClosesAt(u) # loc[q].f
         /\ \A u \in Procs : UsesFile(u, loc[q].f) => u = q
<1> DEFINE f == loc[q].f
<1>1. /\ f \in Files /\ file[f].type = "NONE" /\ BeingClosed(f) = {}
      /\ Descriptors(f) # {} /\ \A x \in Descriptors(f) : x[1] = q
  BY Zenon DEF PendInv
<1> HIDE DEF f
<1>2. /\ \A u \in Procs, e \in Fds : <<u, e>> \in Descriptors(f) <=> RefAt(u, e) = f
      /\ \A u \in Procs : u \in BeingClosed(f) <=> ClosesAt(u) = f
  BY Zenon, <1>1, RefsTold
<1>3. \A u \in Procs : ClosesAt(u) # f
  BY Zenon, <1>1, <1>2
<1>4. ASSUME NEW u \in Procs, UsesFile(u, f) PROVE u = q
  <2>1. PICK e \in Fds : <<u, e>> \in Descriptors(f)
    BY Zenon, <1>2, <1>3, <1>4 DEF UsesFile
  <2>2. <<u, e>>[1] = q
    BY Zenon, <1>1, <2>1
  <2> QED
    BY <2>2
<1>5. UsesFile(q, f)
  <2>1. PICK x : x \in Descriptors(f)
    BY Zenon, <1>1
  <2>2. PICK u \in Procs, e \in Fds : x = <<u, e>>
    BY Zenon, <2>1, DescriptorsPairs
  <2>3. UsesFile(u, f)
    BY ZenonT(30), <1>2, <2>1, <2>2 DEF UsesFile
  <2> QED
    BY Zenon, <1>4, <2>3
<1>6. file[f].ref # 0
  <2>1. Descriptors(f) \subseteq Procs \X Fds /\ BeingClosed(f) \subseteq Procs
    BY Zenon DEF Descriptors, BeingClosed
  <2>2. IsFiniteSet(Descriptors(f)) /\ IsFiniteSet(BeingClosed(f))
    BY Zenon, <2>1, Finite, FS_Subset
  <2>3. Cardinality(Descriptors(f)) \in Nat /\ Cardinality(BeingClosed(f)) \in Nat
        /\ Cardinality(Descriptors(f)) # 0
    BY Zenon, <1>1, <2>2, FS_CardinalityType, FS_EmptySet
  <2>4. file[f].ref = Cardinality(Descriptors(f)) + Cardinality(BeingClosed(f))
    BY Zenon, <1>1 DEF RefExact
  <2> QED
    BY <2>3, <2>4
<1> QED
  BY Zenon, <1>1, <1>3, <1>4, <1>5, <1>6 DEF f

\* A step of p that uses no file another open() has reserved keeps the
\* reservations.
LEMMA PendKeep ==
  ASSUME PendInv, RefExact, NEW p \in Procs, OthersKeep(p), Brings(p), PendFor(p)'
  PROVE  PendInv'
<1> SUFFICES ASSUME NEW q \in Procs, q # p, Place(q)' = "install" PROVE PendFor(q)'
  BY Zenon DEF PendInv, PendFor
<1>0. PICK f : f = loc[q].f
  OBVIOUS
<1>1. Place(q) = "install" /\ loc'[q].f = f
  BY Zenon, <1>0 DEF OthersKeep, Place
<1>2. /\ f \in Files /\ file[f].type = "NONE" /\ file[f].ref # 0 /\ UsesFile(q, f)
      /\ \A u \in Procs : ClosesAt(u) # f
      /\ \A u \in Procs : UsesFile(u, f) => u = q
  BY Zenon, <1>0, <1>1, PendingUse
<1>3. ~UsesFile(p, f)' /\ file'[f].type = "NONE"
  BY Zenon, <1>1, <1>2 DEF Brings
<1>4. ASSUME NEW u \in Procs, u # p, NEW e
      PROVE  RefAt(u, e)' = RefAt(u, e) /\ ClosesAt(u)' = ClosesAt(u)
  <2>1. pc'[u] = pc[u] /\ loc'[u] = loc[u] /\ ofile'[u] = ofile[u]
    BY Zenon, <1>4 DEF OthersKeep
  <2> QED
    BY Zenon, <2>1 DEF RefAt, ClosesAt, Excused
<1>5. /\ \A u \in Procs, e \in Fds : <<u, e>> \in Descriptors(f)' <=> RefAt(u, e)' = f
      /\ \A u \in Procs : u \in BeingClosed(f)' <=> ClosesAt(u)' = f
  BY Zenon, <1>2, RefsToldAfter
<1>6. /\ \A y \in Descriptors(f)' : \E u \in Procs, e \in Fds : y = <<u, e>>
      /\ BeingClosed(f)' \subseteq Procs
  BY Zenon, DescriptorsPairsAfter
<1>7. BeingClosed(f)' = {}
  <2>1. ASSUME NEW u \in Procs PROVE ClosesAt(u)' # f
    BY Zenon, <1>2, <1>3, <1>4 DEF UsesFile
  <2> QED
    BY Zenon, <1>5, <1>6, <2>1
<1>8. ASSUME NEW u \in Procs, NEW e \in Fds, RefAt(u, e)' = f PROVE u = q
  <2>1. u # p
    BY Zenon, <1>3, <1>8 DEF UsesFile
  <2>2. RefAt(u, e) = f
    BY Zenon, <1>4, <1>8, <2>1
  <2> QED
    BY Zenon, <1>2, <2>2 DEF UsesFile
<1>9. \A x \in Descriptors(f)' : x[1] = q
  <2> SUFFICES ASSUME NEW x \in Descriptors(f)' PROVE x[1] = q
    OBVIOUS
  <2>1. PICK u \in Procs, e \in Fds : x = <<u, e>>
    BY Zenon, <1>6
  <2>2. u = q
    BY Zenon, <1>5, <1>8, <2>1
  <2> QED
    BY <2>1, <2>2
<1>10. Descriptors(f)' # {}
  <2>1. PICK e \in Fds : RefAt(q, e) = f
    BY Zenon, <1>2 DEF UsesFile
  <2>2. RefAt(q, e)' = f
    BY Zenon, <1>4, <2>1
  <2> QED
    BY Zenon, <1>5, <2>2
<1> QED
  BY Zenon, <1>1, <1>2, <1>3, <1>7, <1>9, <1>10 DEF PendFor

\* A file without a count is used by no process.
LEMMA UnusedFree ==
  ASSUME RefExact, NEW f \in Files, file[f].ref = 0
  PROVE  \A u \in Procs : ~UsesFile(u, f)
<1>1. Descriptors(f) \subseteq Procs \X Fds /\ BeingClosed(f) \subseteq Procs
  BY Zenon DEF Descriptors, BeingClosed
<1>2. IsFiniteSet(Descriptors(f)) /\ IsFiniteSet(BeingClosed(f))
  BY Zenon, <1>1, Finite, FS_Subset
<1>3. Cardinality(Descriptors(f)) \in Nat /\ Cardinality(BeingClosed(f)) \in Nat
  BY Zenon, <1>2, FS_CardinalityType
<1>4. file[f].ref = Cardinality(Descriptors(f)) + Cardinality(BeingClosed(f))
  BY Zenon DEF RefExact
<1>5. Cardinality(Descriptors(f)) = 0 /\ Cardinality(BeingClosed(f)) = 0
  BY <1>3, <1>4
<1>6. Descriptors(f) = {} /\ BeingClosed(f) = {}
  BY Zenon, <1>2, <1>5, FS_EmptySet
<1> QED
  BY Zenon, <1>6, RefsTold DEF UsesFile

\* The descriptors of a process for a file can be counted.
LEMMA FdsOfCount ==
  \A p, g : IsFiniteSet(FdsOf(p, g)) /\ Cardinality(FdsOf(p, g)) \in Nat
<1> TAKE p, g
<1>1. FdsOf(p, g) \subseteq Fds
  BY Zenon DEF FdsOf
<1>2. IsFiniteSet(FdsOf(p, g))
  BY Zenon, <1>1, Finite, FS_Subset
<1> QED
  BY Zenon, <1>2, FS_CardinalityType

\* fork() adds to ref what the child's copies of the descriptors add, so ref stays
\* exact.
LEMMA ShareRefs ==
  ASSUME RefExact, NEW p \in Procs, NEW q \in Procs, OthersKeep(q), Shares(p, q)
  PROVE  RefExact'
<1> SUFFICES ASSUME NEW g \in Files
    PROVE  file'[g].ref = Cardinality(Descriptors(g))' + Cardinality(BeingClosed(g))'
  BY Zenon DEF RefExact
<1> DEFINE T == FdsOf(p, g)
           C == Descriptors(g)
           D == Descriptors(g)'
           B == BeingClosed(g)
           E == BeingClosed(g)'
           N == {<<q, e>> : e \in T}
<1>1. /\ \A u \in Procs, e \in Fds : <<u, e>> \in C <=> RefAt(u, e) = g
      /\ \A u \in Procs : u \in B <=> ClosesAt(u) = g
      /\ \A u \in Procs, e \in Fds : <<u, e>> \in D <=> RefAt(u, e)' = g
      /\ \A u \in Procs : u \in E <=> ClosesAt(u)' = g
  BY Zenon, RefsTold, RefsToldAfter
<1>2. /\ \A x \in C : \E u \in Procs, e \in Fds : x = <<u, e>>
      /\ \A x \in D : \E u \in Procs, e \in Fds : x = <<u, e>>
      /\ B \subseteq Procs /\ E \subseteq Procs
  BY Zenon, DescriptorsPairs, DescriptorsPairsAfter
<1>3. file[g].ref = Cardinality(C) + Cardinality(B)
  BY Zenon DEF RefExact
<1>4. C \subseteq Procs \X Fds
  BY Zenon DEF Descriptors
<1> HIDE DEF C, D, B, E
<1>5. ASSUME NEW u \in Procs, u # q, NEW e
      PROVE  RefAt(u, e)' = RefAt(u, e) /\ ClosesAt(u)' = ClosesAt(u)
  <2>1. pc'[u] = pc[u] /\ loc'[u] = loc[u] /\ ofile'[u] = ofile[u]
    BY Zenon, <1>5 DEF OthersKeep
  <2> QED
    BY Zenon, <2>1 DEF RefAt, ClosesAt, Excused
<1>6. g # None
  BY Zenon, NoneIsNone
<1>7. E = B
  <2>1. \A u \in Procs : u \in E <=> u \in B
    BY Zenon, <1>1, <1>5, <1>6 DEF Shares
  <2> QED
    BY Zenon, <1>2, <2>1
<1>8. D = C \cup N /\ C \cap N = {}
  <2>1. ASSUME NEW e \in Fds
        PROVE  <<q, e>> \notin C /\ (<<q, e>> \in D <=> e \in T)
    BY Zenon, <1>1, <1>6 DEF Shares, FdsOf
  <2>2. ASSUME NEW u \in Procs, u # q, NEW e \in Fds
        PROVE  <<u, e>> \in D <=> <<u, e>> \in C
    BY Zenon, <1>1, <1>5, <2>2
  <2>3. T \subseteq Fds
    BY Zenon DEF FdsOf
  <2>4. C \cap N = {}
    BY Zenon, <2>1, <2>3
  <2>5. N \subseteq D
    BY Zenon, <2>1, <2>3
  <2>6. C \subseteq D
    <3> SUFFICES ASSUME NEW x \in C PROVE x \in D
      BY Zenon
    <3>1. PICK u \in Procs, e \in Fds : x = <<u, e>>
      BY Zenon, <1>2
    <3> QED
      BY Zenon, <2>1, <2>2, <3>1
  <2>7. D \subseteq C \cup N
    <3> SUFFICES ASSUME NEW x \in D PROVE x \in C \cup N
      BY Zenon
    <3>1. PICK u \in Procs, e \in Fds : x = <<u, e>>
      BY Zenon, <1>2
    <3> QED
      BY Zenon, <2>1, <2>2, <3>1
  <2> QED
    BY Zenon, <2>4, <2>5, <2>6, <2>7
<1>9. IsFiniteSet(N) /\ Cardinality(N) = Cardinality(T) /\ Cardinality(T) \in Nat
  <2>1. IsFiniteSet(T) /\ Cardinality(T) \in Nat
    BY Zenon, FdsOfCount
  <2>2. IsFiniteSet({q}) /\ Cardinality({q}) = 1
    BY Zenon, FS_Singleton
  <2>3. N = {q} \X T
    BY DEF N
  <2> HIDE DEF T, N
  <2>4. IsFiniteSet({q} \X T) /\ Cardinality({q} \X T) = Cardinality({q}) * Cardinality(T)
    BY Zenon, <2>1, <2>2, FS_Product
  <2>5. Cardinality({q} \X T) = 1 * Cardinality(T)
    BY Zenon, <2>2, <2>4
  <2> QED
    BY SMTT(30), <2>1, <2>3, <2>4, <2>5
<1>10. IsFiniteSet(C) /\ Cardinality(C) \in Nat
  BY Zenon, <1>4, Finite, FS_Subset, FS_CardinalityType
<1>11. IsFiniteSet(B) /\ Cardinality(B) \in Nat
  BY ZenonT(30), <1>2, Finite, FS_Subset, FS_CardinalityType
<1> HIDE DEF N, T
<1>12. Cardinality(D) = Cardinality(C) + Cardinality(N)
  <2>1. Cardinality(C \cup N) = Cardinality(C) + Cardinality(N) - Cardinality(C \cap N)
    BY Zenon, <1>9, <1>10, FS_Union
  <2>2. Cardinality(C \cap N) = 0 /\ Cardinality(D) = Cardinality(C \cup N)
    BY Zenon, <1>8, FS_EmptySet
  <2>3. Cardinality(N) \in Nat
    BY Zenon, <1>9
  <2> QED
    BY SMTT(30), <1>10, <2>1, <2>2, <2>3
<1>13. file'[g].ref = file[g].ref + Cardinality(T)
  BY Zenon DEF Shares, T
<1>14. file'[g].ref = Cardinality(D) + Cardinality(E)
  BY SMTT(30), <1>3, <1>7, <1>9, <1>10, <1>11, <1>12, <1>13
<1> QED
  BY Zenon, <1>14 DEF D, E

\* A step that leaves the counts of files exact and shows what it has to of the rest
\* keeps the invariant.
LEMMA CountedInv ==
  ASSUME FilesInv, NEW p \in Procs, Placed(p), FileInv', Brings(p), PendFor(p)', RefExact',
         NEW f, RcMoves(p, f)
  PROVE  FilesInv'
<1>1. Types /\ ProcessesOK /\ PendInv /\ RefExact /\ RcExact /\ OpsExact /\ FileInv
  BY Zenon DEF FilesInv
<1>2. /\ Types' /\ OthersKeep(p) /\ DiskInv' /\ Grows /\ OpsRight(p)
      /\ PlaceOK(p)' /\ ExitOK(p)' /\ CwdOK(p)' /\ LookOK(p)'
  BY Zenon DEF Placed
<1>3. ProcessesOK'
  BY Zenon, <1>1, <1>2, OthersOK
<1>4. PendInv'
  BY Zenon, <1>1, <1>2, PendKeep
<1>5. RcExact'
  BY Zenon, <1>1, <1>2, RcStep
<1>6. OpsExact'
  <2>1. \A q \in Procs \ {p} : pc'[q] \in Outside <=> pc[q] \in Outside
    BY Zenon, <1>2 DEF OthersKeep
  <2>2. outstanding \in Int /\ lostOps \in Int /\ lostOps' \in Int
    BY <1>1, <1>2 DEF Types
  <2> QED
    BY Zenon, <1>1, <1>2, <2>1, <2>2, OpsStep DEF OpsRight
<1> QED
  BY Zenon, <1>2, <1>3, <1>4, <1>5, <1>6 DEF FilesInv

\* A step that moves one descriptor or one close keeps the invariant,
LEMMA FiledInv ==
  ASSUME FilesInv, NEW p \in Procs, Filed(p)
  PROVE  FilesInv'
<1>1. PICK d : RefMoves(p, d)
  BY Zenon DEF Filed
<1>2. PICK f : RcMoves(p, f)
  BY Zenon DEF Filed
<1>3. Placed(p) /\ FileInv' /\ Brings(p) /\ PendFor(p)' /\ Types' /\ OthersKeep(p)
  BY Zenon DEF Filed, Placed
<1>4. RefExact'
  BY Zenon, <1>1, <1>3, RefStep DEF FilesInv
<1> QED
  BY Zenon, <1>2, <1>3, <1>4, CountedInv

\* and so does fork, which moves all descriptors of the child.
LEMMA ForkedInv ==
  ASSUME FilesInv, NEW p \in Procs, NEW q \in Procs, Forked(p, q)
  PROVE  FilesInv'
<1>1. /\ Placed(q) /\ FileInv' /\ Brings(q) /\ PendFor(q)' /\ Types' /\ OthersKeep(q)
      /\ Shares(p, q) /\ RcMoves(q, None)
  BY Zenon DEF Forked, Placed
<1>2. Types /\ RefExact
  BY Zenon DEF FilesInv
<1>3. RefExact'
  BY Zenon, <1>1, <1>2, ShareRefs
<1> QED
  BY Zenon, <1>1, <1>3, CountedInv

\* What counting tells of a state that satisfies the invariant.
LEMMA CountingHolds == FilesInv => Counting
<1> SUFFICES ASSUME FilesInv PROVE Counting
  OBVIOUS
<1>1. PendInv /\ RefExact
  BY Zenon DEF FilesInv
<1>2. \A f \in Files : file[f].ref \in Nat
  BY Zenon, <1>1, RefsNatural
<1>3. \A f \in Files : file[f].ref = 0 => \A u \in Procs : ~UsesFile(u, f)
  BY Zenon, <1>1, UnusedFree
<1>4. ASSUME NEW q \in Procs, Place(q) = "install"
      PROVE  /\ loc[q].f \in Files /\ file[loc[q].f].type = "NONE"
             /\ file[loc[q].f].ref # 0 /\ UsesFile(q, loc[q].f)
             /\ \A u \in Procs : ClosesAt(u) # loc[q].f
             /\ \A u \in Procs : UsesFile(u, loc[q].f) => u = q
  BY Zenon, <1>1, <1>4, PendingUse
<1>5. \A S \in SUBSET Nat : S # {} => Min(S) \in S
  BY Zenon, LeastMin
<1>6. \A q \in Procs, f \in Files : Cardinality(FdsOf(q, f)) \in Nat
  BY Zenon, FdsOfCount
<1>7. Cardinality({}) = 0 /\ \A x : Cardinality({x}) = 1
  BY Zenon, FS_EmptySet, FS_Singleton
<1>8. ASSUME NEW S \in SUBSET Inums
      PROVE  /\ Cardinality(S) \in Nat
             /\ \A x \in Inums \ S : Cardinality(S \cup {x}) = Cardinality(S) + 1
  <2>1. IsFiniteSet(S)
    BY Zenon, Finite, FS_Subset
  <2>2. \A x \in Inums \ S : Cardinality(S \cup {x}) = Cardinality(S) + 1
    BY <2>1, FS_AddElement
  <2> QED
    BY Zenon, <2>1, <2>2, FS_CardinalityType
<1> QED
  BY Zenon, <1>2, <1>3, <1>4, <1>5, <1>6, <1>7, <1>8 DEF Counting

\* A step that shows what it has to keeps the invariant.
LEMMA ShownInv ==
  ASSUME FilesInv, NEW p \in Procs, Shown(p)
  PROVE  FilesInv'
<1>1. CASE Stopped
  BY Zenon, <1>1, StopInv DEF Stopped
<1>2. CASE Kept(p)
  BY Zenon, <1>2, QuietInv DEF Kept, Placed
<1>3. CASE Filed(p)
  BY Zenon, <1>3, FiledInv
<1> QED
  BY Zenon, <1>1, <1>2, <1>3 DEF Shown

\* Every step of a system call is one as Shown has it, but for end_op, which wakes
\* the others,
LEMMA StepsShown ==
  ASSUME FilesInv, Counting, NEW p \in Procs, Step(p)
  PROVE  Shown(p) \/ EndOp(p)
  BY Zenon, BeginOpShown, NamexShown, WalkShown, CreateLookupShown, CreateExistsShown,
     CreateCheckShown, CreateNewShown, FinishShown, OpenLockShown, OpenShown, InstallShown,
     StatShown, ChdirShown, SetCwdShown, ExecShown, WriteShown, FileCloseShown, PutFileShown,
     ExitLoopShown, ExitPutCwdShown, ExitedShown DEF Step

\* and so does every call, or it forks.
LEMMA CallsShown ==
  ASSUME FilesInv, Counting, NEW p \in Procs, Call(p)
  PROVE  Shown(p) \/ \E q \in Procs : Forked(p, q)
  BY Zenon, ForkShown, EnterPathShown, EnterWriteShown, DupShown, CloseShown,
     EnterExitShown DEF Call

-----------------------------------------------------------------------------
(* The theorems.                                                            *)

\* The kernel starts with the invariant: nothing is open, and the one reference
\* to an inode is the one init_inodes holds.
LEMMA FilesInit == Init => FilesInv
<1> SUFFICES ASSUME Init PROVE FilesInv
  OBVIOUS
<1>1. NoLocals \in Locals /\ NoLocals.ip = None /\ NoLocals.call = "none"
      /\ NoLocals.then = "user"
  <2>1. NoLocals.ip = None /\ NoLocals.call = "none" /\ NoLocals.then = "user"
    BY SMTT(30) DEF NoLocals
  <2> QED
    BY ZenonT(30), <2>1, NoLocalsTyped
<1>2. /\ \A p \in Procs : pc[p] = IF p = initproc THEN "user" ELSE "unused"
      /\ \A p \in Procs : loc[p] = NoLocals /\ cwd[p] = None
      /\ \A p \in Procs : \A e \in Fds : ofile[p][e] = None
      /\ \A f \in Files : file[f] = [ref |-> 0, type |-> "NONE", ip |-> None]
  BY SMTT(30) DEF Init
<1>3. \A p \in Procs : Place(p) = pc[p]
  BY <1>2 DEF Place, PlaceAt, Waits
<1>4. FreeInode \in DInode /\ Directory(ROOT_INODE_NO, ROOT_INODE_NO) \in DInode
      /\ Directory(ROOT_INODE_NO, ROOT_INODE_NO).type = "dir"
      /\ Directory(ROOT_INODE_NO, ROOT_INODE_NO).num_links = 1
      /\ FreeInode.type = "free"
  BY RootIsAnInode DEF FreeInode, Directory, DInode
<1>5. Types
  <2>1. dinode \in [Inums -> DInode]
    BY ZenonT(30), <1>4 DEF Init
  <2>2. rc \in [Inums -> Int] /\ lostRefs \in [Inums -> Nat]
    BY SMTT(30) DEF Init
  <2>3. file \in [Files -> File]
    BY SMTT(30) DEF Init, File
  <2>4. pc \in [Procs -> Labels] /\ loc \in [Procs -> Locals]
    BY SMTT(30), <1>1 DEF Init, Labels
  <2>5. /\ ilock \in [Inums -> Procs \cup {None}]
        /\ ofile \in [Procs -> [Fds -> Files \cup {None}]]
        /\ cwd \in [Procs -> Inums \cup {None}]
    BY SMTT(30) DEF Init
  <2>6. outstanding \in Int /\ outstanding <= MaxOps /\ lostOps \in Nat
    BY FilesAssumption DEF Init
  <2> QED
    BY ZenonT(30), <2>1, <2>2, <2>3, <2>4, <2>5, <2>6 DEF Types
<1>6. ProcessesOK
  <2> SUFFICES ASSUME NEW p \in Procs PROVE PlaceOK(p) /\ ExitOK(p) /\ CwdOK(p) /\ LookOK(p)
    BY ZenonT(30) DEF ProcessesOK
  <2>1. PlaceOK(p)
    BY ZenonT(30), <1>1, <1>2 DEF PlaceOK, LocalsOK, PlaceAt, Waits, HasIp
  <2>2. ExitOK(p) /\ CwdOK(p) /\ LookOK(p)
    BY ZenonT(30), <1>1, <1>2, <1>3 DEF ExitOK, CwdOK, LookOK, LookAt
  <2> QED
    BY Zenon, <2>1, <2>2
<1>7. DiskInv
  <2> SUFFICES ASSUME NEW i \in Inums
      PROVE  /\ dinode[i].type # "free" => dinode[i].num_links > 0
             /\ dinode[i].type = "free" => dinode[i] = FreeInode
    BY Zenon DEF DiskInv
  <2>1. dinode[i] = IF i = ROOT_INODE_NO THEN Directory(ROOT_INODE_NO, ROOT_INODE_NO)
                                          ELSE FreeInode
    BY ZenonT(30) DEF Init
  <2> QED
    BY SMTT(30), <1>4, <2>1
<1>8. FileInv /\ PendInv
  BY SMTT(30), <1>2, <1>3 DEF FileInv, PendInv
<1>9. Cardinality({}) = 0
  BY FS_EmptySet
<1>10. RefExact
  <2> SUFFICES ASSUME NEW f \in Files
      PROVE  file[f].ref = Cardinality(Descriptors(f)) + Cardinality(BeingClosed(f))
    BY ZenonT(30) DEF RefExact
  <2>1. Descriptors(f) = {} /\ BeingClosed(f) = {} /\ file[f].ref = 0
    BY SMTT(30), <1>2, NoneIsNone DEF Descriptors, BeingClosed
  <2> QED
    BY <1>9, <2>1
<1>11. RcExact
  <2> SUFFICES ASSUME NEW i \in Inums PROVE rc[i] = Holders(i) + lostRefs[i]
    BY ZenonT(30) DEF RcExact
  <2>1. CwdHolders(i) = {} /\ FileHolders(i) = {} /\ CallHolders(i) = {}
    BY SMTT(30), <1>1, <1>2, NoneIsNone DEF CwdHolders, FileHolders, CallHolders
  <2>2. rc[i] = (IF i = ROOT_INODE_NO THEN 1 ELSE 0) /\ lostRefs[i] = 0
    BY DEF Init
  <2> QED
    BY <1>9, <2>1, <2>2 DEF Holders
<1>12. OpsExact
  <2>1. InOp = {}
    BY Zenon, <1>2 DEF InOp
  <2> QED
    BY SMTT(30), <1>9, <2>1 DEF OpsExact, Init
<1> QED
  BY ZenonT(30), <1>5, <1>6, <1>7, <1>8, <1>10, <1>11, <1>12 DEF FilesInv

\* Every step of the kernel keeps the invariant.
LEMMA FilesNext == FilesInv /\ [Next]_vars => FilesInv'
<1> SUFFICES ASSUME FilesInv, [Next]_vars PROVE FilesInv'
  OBVIOUS
<1>1. CASE UNCHANGED vars
  <2>1. UNCHANGED <<dinode, rc, ilock, file, ofile, cwd, outstanding, pc, loc, lostRefs,
                    lostOps>>
    BY Zenon, <1>1 DEF vars
  <2> QED
    BY Zenon, <2>1, StopInv
<1>2. CASE SpawnCwd
  BY Zenon, <1>2, SpawnCwdShown, ShownInv, FilesAssumption
<1>3. ASSUME NEW p \in Procs, Step(p) PROVE FilesInv'
  BY Zenon, <1>3, CountingHolds, StepsShown, ShownInv, EndOpInv
<1>4. ASSUME NEW p \in Procs, Call(p) PROVE FilesInv'
  BY Zenon, <1>4, CountingHolds, CallsShown, ShownInv, ForkedInv
<1> QED
  BY Zenon, <1>1, <1>2, <1>3, <1>4 DEF Next

\* The inductive invariant holds in every reachable state, over every
\* interleaving of the system calls of sysfile.c, fork, exit and execve.
THEOREM FilesInvariant == Spec => []FilesInv
<1>1. Init => FilesInv
  BY FilesInit
<1>2. FilesInv /\ [Next]_vars => FilesInv'
  BY FilesNext
<1> QED
  BY <1>1, <1>2, PTL DEF Spec

\* The reference count of every in-memory inode (Inode.rc of inode.c) is the
\* number of working directories, open files and system calls in progress that
\* refer to it, and of the references that were lost.
THEOREM FilesRcExact == Spec => []RcExact
  BY FilesInvariant, PTL DEF FilesInv

\* The reference count of every open file (file.c) is the number of its
\* descriptors and of the closes of it that are still in progress.
THEOREM FilesRefExact == Spec => []RefExact
  BY FilesInvariant, PTL DEF FilesInv

\* log.outstanding is the number of system calls between begin_op and end_op, and
\* of the operations that execve never ends.
THEOREM FilesOpsExact == Spec => []OpsExact
  BY FilesInvariant, PTL DEF FilesInv

\* The counts are natural numbers: no put and no close finds a count of zero, and
\* an operation begins only when the log has room for it.
LEMMA CountsNatural == FilesInv => TypeOK
<1> SUFFICES ASSUME FilesInv PROVE TypeOK
  OBVIOUS
<1>1. Types /\ RcExact /\ RefExact /\ OpsExact
  BY Zenon DEF FilesInv
<1>2. rc \in [Inums -> Nat]
  <2>1. ASSUME NEW i \in Inums PROVE rc[i] \in Nat
    <3>1. CwdHolders(i) \subseteq Procs /\ FileHolders(i) \subseteq Files
          /\ CallHolders(i) \subseteq Procs
      BY Zenon DEF CwdHolders, FileHolders, CallHolders
    <3>2. IsFiniteSet(CwdHolders(i)) /\ IsFiniteSet(FileHolders(i)) /\ IsFiniteSet(CallHolders(i))
      BY Zenon, <3>1, Finite, FS_Subset
    <3>3. /\ Cardinality(CwdHolders(i)) \in Nat /\ Cardinality(FileHolders(i)) \in Nat
          /\ Cardinality(CallHolders(i)) \in Nat
      BY Zenon, <3>2, FS_CardinalityType
    <3>4. Holders(i) \in Nat
      BY <3>3 DEF Holders
    <3>5. lostRefs[i] \in Nat /\ rc[i] = Holders(i) + lostRefs[i]
      BY Zenon, <1>1 DEF Types, RcExact
    <3> QED
      BY <3>4, <3>5
  <2>2. rc \in [Inums -> Int]
    BY Zenon, <1>1 DEF Types
  <2> QED
    BY Zenon, <2>1, <2>2
<1>3. outstanding \in 0..MaxOps
  <2>1. InOp \subseteq Procs
    BY Zenon DEF InOp
  <2>2. Cardinality(InOp) \in Nat
    BY Zenon, <2>1, Finite, FS_Subset, FS_CardinalityType
  <2>3. outstanding \in Int /\ outstanding <= MaxOps /\ lostOps \in Nat
        /\ outstanding = Cardinality(InOp) + lostOps
    BY Zenon, <1>1 DEF Types, OpsExact
  <2> QED
    BY <2>2, <2>3, FilesAssumption
<1>4. ASSUME NEW f \in Files PROVE file[f].ref \in Nat /\ file[f].ip \in Inums \cup {None}
  <2>1. file[f].ref \in Nat /\ file[f] \in File
    BY Zenon, <1>1, RefsNatural DEF Types
  <2> QED
    BY <2>1 DEF File
<1>5. ASSUME NEW i \in Inums PROVE dinode[i].type \in {"free", "dir", "file", "dev"}
  BY <1>1 DEF Types, DInode
<1> QED
  BY ZenonT(30), <1>1, <1>2, <1>3, <1>4, <1>5 DEF TypeOK, Types

\* No reference count becomes negative, and outstanding stays between zero and
\* the number of operations that the log has room for.
THEOREM FilesTypeOK == Spec => []TypeOK
  BY FilesInvariant, CountsNatural, PTL

\* What stops the kernel in an undefined state.
LEMMA StopsUndefined ==
  ASSUME NEW p \in Procs, Step(p) \/ Call(p), sys' = "undefined"
  PROVE  sys = "up" /\ cwd' = cwd /\ cwd[p] = None /\ pc[p] # "unused"
<1>1. CASE Namex(p)
  BY SMTT(30), <1>1, RootIsAnInode, NoneIsNone DEF Namex, At, NoStop
<1>2. CASE Chdir(p)
  BY SMTT(30), <1>2 DEF Chdir, At, NoStop
<1>3. CASE \E q \in Procs : Fork(p, q)
  BY <1>3 DEF Fork, At, NoStop
<1>4. CASE BeginOp(p) \/ EndOp(p) \/ Walk(p)
  BY Zenon, <1>4 DEF BeginOp, EndOp, Walk, At
<1>5. CASE CreateLookup(p) \/ CreateExists(p) \/ CreateCheck(p) \/ CreateNew(p) \/ Finish(p)
  BY Zenon, <1>5 DEF CreateLookup, CreateExists, CreateCheck, CreateNew, Finish,
         At, NoStop
<1>6. CASE OpenLock(p) \/ Open(p) \/ Install(p) \/ Stat(p) \/ SetCwd(p) \/ Exec(p)
  BY Zenon, <1>6 DEF OpenLock, Open, Install, Stat, SetCwd, Exec, At, NoStop
<1>7. CASE \/ Write(p) \/ FileClose(p) \/ PutFile(p) \/ ExitLoop(p) \/ ExitPutCwd(p)
           \/ Exited(p)
  BY Zenon, <1>7 DEF Write, FileClose, PutFile, ExitLoop, ExitPutCwd, Exited, At, NoStop
<1>8. CASE \/ \E c \in PathCalls, path \in Paths : EnterPath(p, c, path)
           \/ \E fd \in Fds : EnterWrite(p, fd) \/ Dup(p, fd) \/ Close(p, fd)
           \/ EnterExit(p)
  BY Zenon, <1>8 DEF EnterPath, EnterWrite, Dup, Close, EnterExit, At
<1> QED
  BY ZenonT(30), <1>1, <1>2, <1>3, <1>4, <1>5, <1>6, <1>7, <1>8 DEF Step, Call

\* Only the first process can run without a working directory, and only until
\* spawn_init_process has given it one: namex, chdir and fork never find cwd
\* unset in any other process.
THEOREM FilesUndefinedOnlyAtBoot == Spec => []UndefinedOnlyAtBoot
<1>1. Init => UndefinedOnlyAtBoot
  BY DEF Init, UndefinedOnlyAtBoot
<1>2. FilesInv /\ UndefinedOnlyAtBoot /\ [Next]_vars => UndefinedOnlyAtBoot'
  <2> SUFFICES ASSUME FilesInv, UndefinedOnlyAtBoot, [Next]_vars, sys' = "undefined"
      PROVE  cwd'[initproc] = None
    BY Zenon DEF UndefinedOnlyAtBoot
  <2>1. CASE UNCHANGED vars
    BY Zenon, <2>1 DEF vars, UndefinedOnlyAtBoot
  <2>2. CASE SpawnCwd
    BY Zenon, <2>2 DEF SpawnCwd
  <2>3. ASSUME NEW p \in Procs, Step(p) \/ Call(p) PROVE cwd'[initproc] = None
    <3>1. cwd' = cwd /\ cwd[p] = None /\ pc[p] # "unused"
      BY Zenon, <2>3, StopsUndefined
    <3>2. PlaceOK(p) /\ CwdOK(p)
      BY ZenonT(30) DEF FilesInv, ProcessesOK
    <3>3. Place(p) # "unused"
      BY <3>1, <3>2 DEF Place, PlaceOK, LocalsOK, PlaceAt, Waits
    <3>4. p = initproc
      BY Zenon, <3>1, <3>2, <3>3 DEF CwdOK
    <3> QED
      BY Zenon, <3>1, <3>4
  <2> QED
    BY Zenon, <2>1, <2>2, <2>3 DEF Next
<1> QED
  BY <1>1, <1>2, FilesInvariant, PTL DEF Spec

-----------------------------------------------------------------------------
(* The theorem.                                                             *)

LEMMA TreeInit == Init => TreeInv
<1> SUFFICES ASSUME Init PROVE TreeInv
  OBVIOUS
<1> DEFINE R == ROOT_INODE_NO
<1>0. R \in Inums /\ R # None
  BY Zenon, RootIsAnInode, NoneIsNone
<1>1. dinode[R] = Directory(R, R) /\ \A i \in Inums \ {R} : dinode[i] = FreeInode
  BY <1>0 DEF Init
<1> HIDE DEF R
<1>2. /\ Directory(R, R).type = "dir" /\ Directory(R, R).num_links = 1
      /\ Directory(R, R).entries["."] = R /\ Directory(R, R).entries[".."] = R
      /\ \A n \in Names : Directory(R, R).entries[n] = None
      /\ FreeInode.type = "free" /\ \A n \in AllNames : FreeInode.entries[n] = None
  BY FilesAssumption DEF Directory, FreeInode, AllNames
<1>3. "dir" # "free" /\ \A n \in AllNames : n \in Names \/ n = "." \/ n = ".."
  BY DEF AllNames
<1>4. Allocated = {R}
  <2>1. \A i : i \in Allocated <=> i = R
    BY Zenon, <1>0, <1>1, <1>2, <1>3 DEF Allocated
  <2> QED
    BY Zenon, <2>1
<1>5. R \in Refs /\ None \in Refs
  BY Zenon, <1>4 DEF Refs
<1>6. UseInv
  <2>1. /\ \A p \in Procs : loc[p].ip = None /\ cwd[p] = None
        /\ \A f \in Files : file[f].ip = None
    BY DEF Init, NoLocals
  <2> QED
    BY Zenon, <1>5, <2>1 DEF UseInv
<1>7. EntriesInv
  <2>1. ASSUME NEW i \in Inums, NEW n \in AllNames PROVE dinode[i].entries[n] \in Refs
    <3>1. CASE i = R
      BY Zenon, <1>1, <1>2, <1>3, <1>5, <3>1
    <3>2. CASE i # R
      BY Zenon, <1>1, <1>2, <1>5, <3>2
    <3> QED
      BY Zenon, <3>1, <3>2
  <2>2. ASSUME NEW i \in Inums, dinode[i].type = "dir"
        PROVE  dinode[i].entries["."] # None /\ dinode[i].entries[".."] # None
    BY Zenon, <1>0, <1>1, <1>2, <1>3, <2>2
  <2> QED
    BY Zenon, <1>1, <1>2, <2>1, <2>2 DEF EntriesInv, R
<1>8. LockInv
  <2>1. \A p \in Procs : pc[p] \in {"user", "unused"}
    BY DEF Init
  <2> QED
    BY <2>1 DEF LockInv, Locking
<1>9. TreeIntact
  <2>1. ASSUME NEW i \in Inums PROVE NamesOf(i) = {}
    <3>1. \A x \in Allocated \X Names : x[1] = R /\ x[2] \in Names
      BY <1>4
    <3>2. i # None
      BY Zenon, NoneIsNone
    <3> QED
      BY Zenon, <1>1, <1>2, <3>1, <3>2 DEF NamesOf
  <2>2. Subdirs(R) = {}
    BY Zenon, <1>4 DEF Subdirs, R
  <2>3. Cardinality(Subdirs(R)) = 0
    BY Zenon, <2>2, FS_EmptySet
  <2>4. \A d \in Allocated :
          dinode[d].num_links = 1 + IF dinode[d].type = "dir" THEN Cardinality(Subdirs(d)) ELSE 0
    <3>1. dinode[R].num_links = 1 + IF dinode[R].type = "dir" THEN Cardinality(Subdirs(R)) ELSE 0
      BY <1>1, <1>2, <2>3
    <3> QED
      BY Zenon, <1>4, <3>1
  <2> QED
    BY Zenon, <1>4, <2>1, <2>4 DEF TreeIntact, R
<1> QED
  BY Zenon, <1>6, <1>7, <1>8, <1>9 DEF TreeInv

\* Every step keeps the invariant.
LEMMA TreeNext == FilesInv /\ TreeInv /\ [Next]_vars => TreeInv'
<1> SUFFICES ASSUME FilesInv, TreeInv, [Next]_vars PROVE TreeInv'
  OBVIOUS
<1>1. CASE UNCHANGED vars
  <2>1. initproc \in Procs /\ UNCHANGED <<dinode, ilock, file, cwd, pc, loc>>
    BY Zenon, <1>1, FilesAssumption DEF vars
  <2> QED
    BY Zenon, <2>1, StopTree
<1>2. CASE SpawnCwd
  BY Zenon, <1>2, SpawnCwdTree
<1>3. ASSUME NEW p \in Procs, Step(p) PROVE TreeInv'
  BY Zenon, <1>3, CountingHolds, BeginOpTree, EndOpTree, NamexTree, WalkTree,
     CreateLookupTree,
     CreateExistsTree, CreateCheckTree, CreateNewTree, FinishTree, OpenLockTree, OpenTree,
     InstallTree, StatTree, ChdirTree, SetCwdTree, ExecTree, WriteTree, FileCloseTree,
     PutFileTree, ExitLoopTree, ExitPutCwdTree DEF Step
<1>4. ASSUME NEW p \in Procs, Call(p) PROVE TreeInv'
  BY Zenon, <1>4, CallTree, ForkTree
<1> QED
  BY Zenon, <1>1, <1>2, <1>3, <1>4 DEF Next

\* The directories form a tree whatever system calls run at the same time: every
\* inode that create allocated has one name, every name leads to an allocated
\* inode, ".." to the directory that has the name, and the link count of a
\* directory is one more than the number of its subdirectories.
THEOREM FilesTreeIntact == Spec => []TreeIntact
<1>1. Init => TreeInv
  BY TreeInit
<1>2. FilesInv /\ TreeInv /\ [Next]_vars => TreeInv'
  BY TreeNext
<1>3. TreeInv => TreeIntact
  BY DEF TreeInv
<1> QED
  BY <1>1, <1>2, <1>3, FilesInvariant, PTL DEF Spec
=============================================================================
