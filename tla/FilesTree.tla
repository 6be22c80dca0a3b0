----------------------------- MODULE FilesTree -----------------------------
(***************************************************************************)
(* Proof that the directories form a tree (TreeIntact of Files), for any   *)
(* number of processes, inodes and names, any paths and any number of      *)
(* system calls: whatever is created at the same time, the lock of the     *)
(* parent directory keeps a name from being given twice.  And what exit    *)
(* shows for the invariant of FilesSteps.                                  *)
(***************************************************************************)
EXTENDS FilesSteps

-----------------------------------------------------------------------------
(* The inductive invariant.                                                 *)

\* What refers to an inode refers to an allocated one.
Refs == Allocated \cup {None}

UseInv ==
    /\ \A p \in Procs : loc[p].ip \in Refs /\ cwd[p] \in Refs
    /\ \A f \in Files : file[f].ip \in Refs

\* Names lead to allocated inodes, and every directory has "." and "..".
EntriesInv ==
    /\ dinode[ROOT_INODE_NO].type = "dir"
    /\ \A i \in Inums : \A n \in AllNames : dinode[i].entries[n] \in Refs
    /\ \A i \in Inums : dinode[i].type = "dir" =>
          dinode[i].entries["."] # None /\ dinode[i].entries[".."] # None

\* Between two steps an inode stays locked at these places; and while create has
\* the directory locked, the name it did not find is not given.
Locking == {"exists", "new", "opened", "made"}

LockInv ==
    \A p \in Procs :
        /\ pc[p] \in Locking => ilock[loc[p].ip] = p
        /\ pc[p] = "new" => dinode[Dp(p)].entries[NameOf(p)] = None

TreeInv == UseInv /\ EntriesInv /\ LockInv /\ TreeIntact

-----------------------------------------------------------------------------
(* Steps that leave the disk alone.                                         *)

\* Other processes than p keep their places, if they hold a lock there.
Own(p) ==
    \A q \in Procs \ {p} :
        /\ pc'[q] \in Locking => pc'[q] = pc[q]
        /\ loc'[q] = loc[q] /\ cwd'[q] = cwd[q]

\* p takes free locks and releases its own; what it refers to is known.
LocksOwn(p) ==
    /\ \A i \in Inums : ilock'[i] = ilock[i] \/ ilock[i] \in {None, p}
    /\ pc'[p] \in Locking => ilock'[loc'[p].ip] = p
    /\ pc'[p] = "new" => dinode[loc'[p].ip].entries[Head(loc'[p].rest)] = None

Uses(p) ==
    /\ loc'[p].ip \in Refs /\ cwd'[p] \in Refs
    /\ \A f \in Files : file'[f].ip \in Refs

\* The place of a process that holds a lock has an inode.
LEMMA LockedInum ==
  ASSUME FilesInv
  PROVE  \A q \in Procs : pc[q] \in Locking => loc[q].ip \in Inums
<1> SUFFICES ASSUME NEW q \in Procs, pc[q] \in Locking PROVE loc[q].ip \in Inums
  OBVIOUS
<1>1. PlaceOK(q) /\ loc[q] \in Locals
  BY Zenon DEF FilesInv, ProcessesOK, Types
<1>2. loc[q].ip # None
  BY <1>1 DEF PlaceOK, LocalsOK, PlaceAt, Waits, HasIp, Locking
<1> QED
  BY <1>1, <1>2 DEF Locals

\* A step of p that leaves the disk alone, takes only free locks and refers only to
\* allocated inodes keeps the invariant.
LEMMA KeepsTree ==
  ASSUME FilesInv, TreeInv, NEW p \in Procs, Own(p), dinode' = dinode, LocksOwn(p), Uses(p)
  PROVE  TreeInv'
<1>1. Refs' = Refs /\ Allocated' = Allocated
  BY Zenon DEF Refs, Allocated
<1>2. TreeIntact'
  <2>1. \A i : NamesOf(i)' = NamesOf(i) /\ Subdirs(i)' = Subdirs(i)
    BY Zenon, <1>1 DEF NamesOf, Subdirs
  <2> QED
    BY Zenon, <1>1, <2>1 DEF TreeInv, TreeIntact
<1>3. EntriesInv'
  BY Zenon, <1>1 DEF TreeInv, EntriesInv
<1>4. UseInv'
  <2>1. ASSUME NEW q \in Procs PROVE loc'[q].ip \in Refs /\ cwd'[q] \in Refs
    BY Zenon DEF TreeInv, UseInv, Own, Uses
  <2> QED
    BY Zenon, <1>1, <2>1 DEF UseInv, Uses
<1>5. LockInv'
  <2> SUFFICES ASSUME NEW q \in Procs, pc'[q] \in Locking
      PROVE  /\ ilock'[loc'[q].ip] = q
             /\ pc'[q] = "new" => dinode'[loc'[q].ip].entries[Head(loc'[q].rest)] = None
    BY DEF LockInv, Dp, NameOf, Locking
  <2>1. CASE q = p
    BY Zenon, <2>1 DEF LocksOwn
  <2>2. CASE q # p
    <3>1. pc'[q] = pc[q] /\ loc'[q] = loc[q]
      BY Zenon, <2>2 DEF Own
    <3>2. loc[q].ip \in Inums
      BY Zenon, <3>1, LockedInum
    <3>3. ilock[loc[q].ip] = q /\ q # None
      BY Zenon, <3>1, NoneIsNone DEF TreeInv, LockInv
    <3>4. ilock'[loc[q].ip] = q
      BY Zenon, <2>2, <3>2, <3>3 DEF LocksOwn
    <3>5. pc'[q] = "new" => dinode[loc[q].ip].entries[Head(loc[q].rest)] = None
      BY Zenon, <3>1 DEF TreeInv, LockInv, Dp, NameOf
    <3> QED
      BY Zenon, <3>1, <3>4, <3>5
  <2> QED
    BY Zenon, <2>1, <2>2
<1> QED
  BY Zenon, <1>2, <1>3, <1>4, <1>5 DEF TreeInv

\* A step of p that takes and releases no lock.
Plain(p) ==
    /\ UNCHANGED <<dinode, ilock>> /\ pc'[p] \notin Locking
    /\ \A f \in Files : file'[f].ip \in {file[f].ip, loc[p].ip}
    /\ cwd'[p] \in Refs /\ loc'[p].ip \in Refs

\* A plain step keeps the invariant.
LEMMA PlainTree ==
  ASSUME FilesInv, TreeInv, NEW p \in Procs, Own(p), Plain(p)
  PROVE  TreeInv'
<1>1. LocksOwn(p)
  BY DEF Plain, LocksOwn, Locking
<1>2. Uses(p)
  <2>1. ASSUME NEW f \in Files PROVE file'[f].ip \in Refs
    BY Zenon DEF Plain, TreeInv, UseInv
  <2> QED
    BY Zenon, <2>1 DEF Plain, Uses
<1> QED
  BY Zenon, <1>1, <1>2, KeepsTree DEF Plain

\* What a process refers to is known, and so is None.
LEMMA RefsKnown ==
  ASSUME TreeInv
  PROVE  /\ None \in Refs /\ ROOT_INODE_NO \in Refs
         /\ \A q \in Procs : loc[q].ip \in Refs /\ cwd[q] \in Refs
         /\ \A f \in Files : file[f].ip \in Refs
         /\ \A i \in Inums : \A n \in AllNames : dinode[i].entries[n] \in Refs
<1>1. ROOT_INODE_NO \in Allocated
  BY RootIsAnInode DEF TreeInv, EntriesInv, Allocated
<1> QED
  BY Zenon, <1>1 DEF TreeInv, UseInv, EntriesInv, Refs

\* A step of p to label l and locals r that leaves locks, directories and files alone.
LEMMA MoveTree ==
  ASSUME FilesInv, TreeInv, NEW p \in Procs, NEW l, NEW r, l \notin Locking, r.ip \in Refs,
         pc' = [pc EXCEPT ![p] = l], loc' = [loc EXCEPT ![p] = r],
         UNCHANGED <<dinode, ilock, file, cwd>>
  PROVE  TreeInv'
<1>1. pc \in [Procs -> Labels] /\ loc \in [Procs -> Locals]
  BY Zenon DEF FilesInv, Types
<1>2. /\ pc'[p] = l /\ loc'[p] = r
      /\ \A q \in Procs \ {p} : pc'[q] = pc[q] /\ loc'[q] = loc[q]
  BY <1>1
<1>3. Own(p)
  BY Zenon, <1>2 DEF Own
<1>4. Plain(p)
  BY Zenon, <1>2, RefsKnown DEF Plain
<1> QED
  BY Zenon, <1>3, <1>4, PlainTree

\* A system call starts.
LEMMA CallTree ==
  ASSUME FilesInv, TreeInv, NEW p \in Procs, Call(p), ~\E q \in Procs : Fork(p, q)
  PROVE  TreeInv'
<1>0. /\ "begin_op" \notin Locking /\ "fileclose" \notin Locking /\ "exit" \notin Locking
      /\ None \in Refs
  BY RefsKnown DEF Locking
<1>1. ASSUME NEW c \in PathCalls, NEW path \in Paths, EnterPath(p, c, path) PROVE TreeInv'
  <2> DEFINE r == [NoLocals EXCEPT !.call = c, !.abs = path.abs, !.rest = path.elems,
                                   !.then = "namex"]
  <2>1. r.ip = None
    BY DEF NoLocals
  <2>2. /\ pc' = [pc EXCEPT ![p] = "begin_op"] /\ loc' = [loc EXCEPT ![p] = r]
        /\ UNCHANGED <<dinode, ilock, file, cwd>>
    BY Zenon, <1>1 DEF EnterPath, Goto
  <2> QED
    BY Zenon, <1>0, <2>1, <2>2, MoveTree
<1>2. ASSUME NEW fd \in Fds, EnterWrite(p, fd) PROVE TreeInv'
  <2> DEFINE r == [NoLocals EXCEPT !.call = "write", !.f = ofile[p][fd], !.then = "write"]
  <2>1. r.ip = None
    BY DEF NoLocals
  <2>2. /\ pc' = [pc EXCEPT ![p] = "begin_op"] /\ loc' = [loc EXCEPT ![p] = r]
        /\ UNCHANGED <<dinode, ilock, file, cwd>>
    BY Zenon, <1>2 DEF EnterWrite, Goto
  <2> QED
    BY Zenon, <1>0, <2>1, <2>2, MoveTree
<1>3. ASSUME NEW fd \in Fds, Close(p, fd) PROVE TreeInv'
  <2> DEFINE r == [NoLocals EXCEPT !.call = "close", !.f = ofile[p][fd]]
  <2>1. r.ip = None
    BY DEF NoLocals
  <2>2. /\ pc' = [pc EXCEPT ![p] = "fileclose"] /\ loc' = [loc EXCEPT ![p] = r]
        /\ UNCHANGED <<dinode, ilock, file, cwd>>
    BY Zenon, <1>3 DEF Close, Goto
  <2> QED
    BY Zenon, <1>0, <2>1, <2>2, MoveTree
<1>4. CASE EnterExit(p)
  <2> DEFINE r == [NoLocals EXCEPT !.call = "exit"]
  <2>1. r.ip = None
    BY DEF NoLocals
  <2>2. /\ pc' = [pc EXCEPT ![p] = "exit"] /\ loc' = [loc EXCEPT ![p] = r]
        /\ UNCHANGED <<dinode, ilock, file, cwd>>
    BY Zenon, <1>4 DEF EnterExit, Goto
  <2> QED
    BY Zenon, <1>0, <2>1, <2>2, MoveTree
<1>5. ASSUME NEW fd \in Fds, Dup(p, fd) PROVE TreeInv'
  <2>1. /\ pc[p] = "user" /\ UNCHANGED <<dinode, ilock, cwd, pc, loc>>
        /\ file' = Filedup(ofile[p][fd])
    BY Zenon, <1>5 DEF Dup, At
  <2>2. \A f \in Files : file'[f].ip = file[f].ip
    BY <2>1 DEF Filedup, FilesInv, Types, File
  <2>3. Own(p)
    BY Zenon, <2>1 DEF Own
  <2>4. "user" \notin Locking
    BY DEF Locking
  <2>5. Plain(p)
    BY Zenon, <2>1, <2>2, <2>4, RefsKnown DEF Plain
  <2> QED
    BY Zenon, <2>3, <2>5, PlainTree
<1> QED
  BY Zenon, <1>1, <1>2, <1>3, <1>4, <1>5 DEF Call

\* Nothing happens to the disk, to locks, files and processes.
LEMMA StopTree ==
  ASSUME FilesInv, TreeInv, NEW p \in Procs, UNCHANGED <<dinode, ilock, file, cwd, pc, loc>>
  PROVE  TreeInv'
<1>1. Own(p)
  BY Zenon DEF Own
<1>2. LocksOwn(p)
  BY Zenon DEF LocksOwn, TreeInv, LockInv, Dp, NameOf
<1>3. Uses(p)
  BY Zenon DEF Uses, TreeInv, UseInv
<1> QED
  BY Zenon, <1>1, <1>2, <1>3, KeepsTree

\* p moves on and leaves locks, directories and files alone.
Stays(p) == \A q \in Procs \ {p} : pc'[q] = pc[q] /\ loc'[q] = loc[q]

\* A step that changes no lock, no file and no working directory keeps it.
LEMMA QuietTree ==
  ASSUME FilesInv, TreeInv, NEW p \in Procs, Stays(p), pc'[p] \notin Locking,
         loc'[p].ip \in Refs, UNCHANGED <<dinode, ilock, file, cwd>>
  PROVE  TreeInv'
<1>1. Own(p)
  BY Zenon DEF Own, Stays
<1>2. Plain(p)
  BY Zenon, RefsKnown DEF Plain
<1> QED
  BY Zenon, <1>1, <1>2, PlainTree

\* What a step that sets the label and the locals of p leaves as it is.
LEMMA GotoStays ==
  ASSUME FilesInv, NEW p \in Procs, NEW l, Goto(p, l)
  PROVE  pc'[p] = l /\ \A q \in Procs \ {p} : pc'[q] = pc[q]
  BY DEF Goto, FilesInv, Types

\* begin_op() keeps the invariant,
LEMMA BeginOpTree ==
  ASSUME FilesInv, TreeInv, NEW p \in Procs, BeginOp(p)
  PROVE  TreeInv'
<1>1. /\ pc[p] = "begin_op" /\ Goto(p, loc[p].then)
      /\ UNCHANGED <<dinode, ilock, file, cwd, loc>>
  BY Zenon DEF BeginOp, At
<1>2. PlaceOK(p)
  BY Zenon DEF FilesInv, ProcessesOK
<1>3. loc[p].then \notin Locking
  BY <1>1, <1>2 DEF PlaceOK, LocalsOK, Locking
<1>4. Stays(p) /\ pc'[p] = loc[p].then
  BY Zenon, <1>1, GotoStays DEF Stays
<1> QED
  BY Zenon, <1>1, <1>3, <1>4, QuietTree, RefsKnown

\* end_op(),
LEMMA EndOpTree ==
  ASSUME FilesInv, TreeInv, NEW p \in Procs, EndOp(p)
  PROVE  TreeInv'
<1>1. pc[p] = "end_op" /\ UNCHANGED <<dinode, ilock, file, cwd, loc>>
  BY Zenon DEF EndOp, At
<1>2. \A q \in Procs : PlaceOK(q)
  BY Zenon DEF FilesInv, ProcessesOK
<1>3. \A q \in Procs : pc[q] \in {"end_op", "ending"} => loc[q].then \notin Locking
  BY <1>2 DEF PlaceOK, LocalsOK, Locking
<1>4. \A q \in Procs :
        \/ pc'[q] = pc[q] /\ q # p
        \/ pc'[q] = loc[q].then /\ pc[q] \in {"end_op", "ending"}
        \/ pc'[q] = "ending"
  BY <1>1 DEF EndOp, FilesInv, Types
<1>5. "ending" \notin Locking
  BY DEF Locking
<1>6. Own(p)
  BY Zenon, <1>1, <1>3, <1>4, <1>5 DEF Own
<1>7. pc'[p] \notin Locking
  BY Zenon, <1>3, <1>4, <1>5
<1>8. Plain(p)
  BY Zenon, <1>1, <1>7, RefsKnown DEF Plain
<1> QED
  BY Zenon, <1>6, <1>8, PlainTree

\* the start of namex(),
LEMMA NamexTree ==
  ASSUME FilesInv, TreeInv, NEW p \in Procs, Namex(p)
  PROVE  TreeInv'
<1> DEFINE i == IF loc[p].abs THEN ROOT_INODE_NO ELSE cwd[p]
<1>1. UNCHANGED <<dinode, ilock, file, cwd>>
  BY Zenon DEF Namex
<1>2. CASE i = None
  BY Zenon, <1>1, <1>2, StopTree DEF Namex
<1>3. CASE i # None
  <2>1. loc' = [loc EXCEPT ![p].ip = i] /\ Goto(p, "walk")
    BY Zenon, <1>3 DEF Namex
  <2>2. loc'[p].ip = i /\ \A q \in Procs \ {p} : loc'[q] = loc[q]
    BY <2>1 DEF FilesInv, Types, Locals
  <2>3. i \in Refs
    BY Zenon, RefsKnown
  <2>4. "walk" \notin Locking
    BY DEF Locking
  <2>5. Stays(p) /\ pc'[p] = "walk"
    BY Zenon, <2>1, <2>2, GotoStays DEF Stays
  <2> QED
    BY Zenon, <1>1, <2>2, <2>3, <2>4, <2>5, QuietTree
<1> QED
  BY Zenon, <1>2, <1>3

\* namex returns 0.
LEMMA NotFoundTree ==
  ASSUME FilesInv, TreeInv, NEW p \in Procs, NotFound(p), UNCHANGED <<dinode, ilock, file, cwd>>
  PROVE  TreeInv'
<1>1. /\ loc'[p].ip = None /\ \A q \in Procs \ {p} : loc'[q] = loc[q]
      /\ Goto(p, "user") \/ Goto(p, "end_op")
  BY DEF NotFound, NoLocals, FilesInv, Types, Locals
<1>2. "user" \notin Locking /\ "end_op" \notin Locking
  BY DEF Locking
<1>3. Stays(p) /\ pc'[p] \notin Locking
  BY Zenon, <1>1, <1>2, GotoStays DEF Stays
<1> QED
  BY Zenon, <1>1, <1>3, QuietTree, RefsKnown

\* its walk from directory to directory,
LEMMA WalkTree ==
  ASSUME FilesInv, TreeInv, NEW p \in Procs, Walk(p)
  PROVE  TreeInv'
<1> DEFINE i == loc[p].ip
<1>1. pc[p] = "walk" /\ UNCHANGED <<ilock, file, cwd>>
  BY Zenon DEF Walk, At
<1>2. i \in Inums /\ loc[p] \in Locals /\ PlaceOK(p)
  <2>1. PlaceOK(p) /\ loc[p] \in Locals
    BY Zenon DEF FilesInv, ProcessesOK, Types
  <2>2. loc[p].ip # None
    BY <1>1, <2>1 DEF PlaceOK, LocalsOK, PlaceAt, Waits, HasIp
  <2> QED
    BY <2>1, <2>2 DEF Locals
<1>3. \A r : PutDisk(r, i) = dinode
  BY Zenon, <1>2, PutDiskSame
<1>4. dinode' = dinode
  BY Zenon, <1>3 DEF Walk, WalkEnd, WalkElement
<1>5. CASE NotFound(p)
  BY Zenon, <1>1, <1>4, <1>5, NotFoundTree
<1>6. CASE Goto(p, loc[p].call) /\ loc' = loc /\ ~WantsParent(loc[p].call)
  <2>1. loc[p].call \in PathCalls
    BY <1>1, <1>2 DEF PlaceOK, LocalsOK, PlaceAt, Waits
  <2>2. loc[p].call \notin Locking
    BY <2>1 DEF PathCalls, Locking
  <2>3. Stays(p) /\ pc'[p] = loc[p].call
    BY Zenon, <1>6, GotoStays DEF Stays
  <2> QED
    BY Zenon, <1>1, <1>4, <1>6, <2>2, <2>3, QuietTree, RefsKnown
<1>7. CASE Goto(p, "create") /\ loc' = loc
  <2>1. "create" \notin Locking
    BY DEF Locking
  <2>2. Stays(p) /\ pc'[p] = "create"
    BY Zenon, <1>7, GotoStays DEF Stays
  <2> QED
    BY Zenon, <1>1, <1>4, <1>7, <2>1, <2>2, QuietTree, RefsKnown
<1>8. ASSUME NEW nx, nx = dinode[i].entries[Head(loc[p].rest)], loc[p].rest # <<>>, pc' = pc,
             loc' = [loc EXCEPT ![p].ip = nx, ![p].rest = Tail(@)]
      PROVE  TreeInv'
  <2>1. Head(loc[p].rest) \in AllNames
    BY <1>2, <1>8 DEF Locals
  <2>2. nx \in Refs
    BY Zenon, <1>2, <1>8, <2>1, RefsKnown
  <2>3. loc'[p].ip = nx /\ \A q \in Procs \ {p} : loc'[q] = loc[q]
    BY <1>8 DEF FilesInv, Types, Locals
  <2>4. Stays(p) /\ pc'[p] = "walk"
    BY Zenon, <1>1, <1>8, <2>3 DEF Stays
  <2>5. "walk" \notin Locking
    BY DEF Locking
  <2> QED
    BY Zenon, <1>1, <1>4, <2>2, <2>3, <2>4, <2>5, QuietTree
<1> QED
  BY Zenon, <1>5, <1>6, <1>7, <1>8 DEF Walk, WalkEnd, WalkElement

\* The end of a system call that puts an inode.
LEMMA PutAndEndKeeps ==
  ASSUME FilesInv, NEW p \in Procs, NEW i \in Inums, NEW then, PutAndEnd(p, i, then)
  PROVE  /\ dinode' = dinode /\ Stays(p) /\ pc'[p] = "end_op" /\ "end_op" \notin Locking
         /\ loc'[p].ip \in {loc[p].ip, None}
<1>1. dinode' = dinode
  BY Zenon, PutDiskSame DEF PutAndEnd
<1>2. loc'[p].ip \in {loc[p].ip, None} /\ \A q \in Procs \ {p} : loc'[q] = loc[q]
  BY DEF PutAndEnd, FilesInv, Types, Locals
<1>3. pc'[p] = "end_op" /\ \A q \in Procs \ {p} : pc'[q] = pc[q]
  BY Zenon, GotoStays DEF PutAndEnd
<1>4. "end_op" \notin Locking
  BY DEF Locking
<1> QED
  BY Zenon, <1>1, <1>2, <1>3, <1>4 DEF Stays

\* an inode_put before end_op(),
LEMMA PutAndEndTree ==
  ASSUME FilesInv, TreeInv, NEW p \in Procs, NEW i \in Inums, NEW then,
         PutAndEnd(p, i, then), UNCHANGED <<ilock, file, cwd>>
  PROVE  TreeInv'
<1>1. /\ dinode' = dinode /\ Stays(p) /\ pc'[p] = "end_op" /\ "end_op" \notin Locking
      /\ loc'[p].ip \in {loc[p].ip, None}
  BY Zenon, PutAndEndKeeps
<1>2. loc'[p].ip \in Refs
  BY Zenon, <1>1, RefsKnown
<1> QED
  BY Zenon, <1>1, <1>2, QuietTree

\* fstatat, execve, and the put of fileclose.
LEMMA StatTree ==
  ASSUME FilesInv, TreeInv, NEW p \in Procs, Stat(p)
  PROVE  TreeInv'
<1>1. loc[p].ip \in Inums
  BY AtPlace DEF Stat, At
<1> QED
  BY Zenon, <1>1, PutAndEndTree DEF Stat

\* execve's lookup,
LEMMA ExecTree ==
  ASSUME FilesInv, TreeInv, NEW p \in Procs, Exec(p)
  PROVE  TreeInv'
<1>1. loc[p].ip \in Inums /\ UNCHANGED <<ilock, file, cwd>>
  BY AtPlace DEF Exec, At
<1>2. CASE PutAndEnd(p, loc[p].ip, "user")
  BY Zenon, <1>1, <1>2, PutAndEndTree
<1>3. CASE /\ dinode' = PutDisk(rc, loc[p].ip)
           /\ loc' = [loc EXCEPT ![p] = NoLocals] /\ Goto(p, "user")
  <2>1. dinode' = dinode
    BY Zenon, <1>1, <1>3, PutDiskSame
  <2>2. "user" \notin Locking
    BY DEF Locking
  <2>3. NoLocals.ip \in Refs
    BY RefsKnown DEF NoLocals
  <2> QED
    BY Zenon, <1>1, <1>3, <2>1, <2>2, <2>3, MoveTree DEF Goto
<1>4. CASE UNCHANGED <<rc, dinode, loc, pc, lostOps>>
  BY Zenon, <1>1, <1>4, StopTree
<1> QED
  BY Zenon, <1>2, <1>3, <1>4 DEF Exec

\* fileclose()'s inode_put,
LEMMA PutFileTree ==
  ASSUME FilesInv, TreeInv, NEW p \in Procs, PutFile(p)
  PROVE  TreeInv'
<1>1. pc[p] = "put_file" /\ PlaceOK(p) /\ loc[p] \in Locals
  BY Zenon DEF PutFile, At, FilesInv, ProcessesOK, Types
<1>2. loc[p].ip \in Inums
  BY <1>1 DEF PlaceOK, LocalsOK, PlaceAt, Waits, HasIp, Locals
<1> QED
  BY Zenon, <1>2, PutAndEndTree DEF PutFile

\* chdir and exit put the working directory.
LEMMA ChdirTree ==
  ASSUME FilesInv, TreeInv, NEW p \in Procs, Chdir(p)
  PROVE  TreeInv'
<1>1. loc[p].ip \in Inums /\ UNCHANGED <<ilock, file, cwd>>
  BY AtPlace DEF Chdir, At
<1>2. CASE PutAndEnd(p, loc[p].ip, "user")
  BY Zenon, <1>1, <1>2, PutAndEndTree
<1>3. CASE cwd[p] # None /\ PutAndEnd(p, Leaves(p), "set_cwd")
  <2>1. Leaves(p) \in Inums
    BY <1>3 DEF Leaves, FilesInv, Types
  <2> QED
    BY Zenon, <1>1, <1>3, <2>1, PutAndEndTree
<1>4. CASE UNCHANGED <<rc, dinode, loc, pc>>
  BY Zenon, <1>1, <1>4, StopTree
<1> QED
  BY Zenon, <1>2, <1>3, <1>4 DEF Chdir

\* exit()'s,
LEMMA ExitPutCwdTree ==
  ASSUME FilesInv, TreeInv, NEW p \in Procs, ExitPutCwd(p)
  PROVE  TreeInv'
<1>1. /\ pc[p] = "put_cwd" /\ ExitOK(p) /\ CwdOK(p) /\ cwd[p] \in Inums \cup {None}
  BY Zenon DEF ExitPutCwd, At, FilesInv, ProcessesOK, Types
<1>2. cwd[p] \in Inums
  BY <1>1 DEF ExitOK, CwdOK, Place, PlaceAt, Waits
<1> QED
  BY Zenon, <1>2, PutAndEndTree DEF ExitPutCwd

\* The working directory changes.
LEMMA CwdTree ==
  ASSUME FilesInv, TreeInv, NEW p \in Procs, NEW l, l \notin Locking, NEW c \in Refs,
         cwd' = [cwd EXCEPT ![p] = c], loc' = [loc EXCEPT ![p] = NoLocals], Goto(p, l),
         UNCHANGED <<dinode, ilock, file>>
  PROVE  TreeInv'
<1>1. /\ cwd'[p] = c /\ loc'[p] = NoLocals
      /\ \A q \in Procs \ {p} : cwd'[q] = cwd[q] /\ loc'[q] = loc[q]
  BY DEF FilesInv, Types
<1>2. pc'[p] = l /\ \A q \in Procs \ {p} : pc'[q] = pc[q]
  BY Zenon, GotoStays
<1>3. NoLocals.ip \in Refs
  BY RefsKnown DEF NoLocals
<1>4. Own(p)
  BY Zenon, <1>1, <1>2 DEF Own
<1>5. Plain(p)
  BY Zenon, <1>1, <1>2, <1>3 DEF Plain
<1> QED
  BY Zenon, <1>4, <1>5, PlainTree

\* the end of chdir() and of exit(),
LEMMA SetCwdTree ==
  ASSUME FilesInv, TreeInv, NEW p \in Procs, SetCwd(p) \/ Exited(p)
  PROVE  TreeInv'
<1>1. "user" \notin Locking /\ "unused" \notin Locking
  BY DEF Locking
<1>2. loc[p].ip \in Refs /\ None \in Refs
  BY Zenon, RefsKnown
<1> QED
  BY Zenon, <1>1, <1>2, CwdTree DEF SetCwd, Exited

\* the first process's working directory,
LEMMA SpawnCwdTree ==
  ASSUME FilesInv, TreeInv, SpawnCwd
  PROVE  TreeInv'
<1>1. /\ initproc \in Procs /\ UNCHANGED <<dinode, ilock, file, pc, loc>>
      /\ cwd' = [cwd EXCEPT ![initproc] = ROOT_INODE_NO]
  BY Zenon, FilesAssumption DEF SpawnCwd
<1>2. cwd'[initproc] = ROOT_INODE_NO /\ \A q \in Procs \ {initproc} : cwd'[q] = cwd[q]
  BY <1>1 DEF FilesInv, Types
<1>3. Own(initproc)
  BY Zenon, <1>1, <1>2 DEF Own
<1>4. LocksOwn(initproc)
  BY Zenon, <1>1 DEF LocksOwn, TreeInv, LockInv, Dp, NameOf
<1>5. Uses(initproc)
  BY Zenon, <1>1, <1>2, RefsKnown DEF Uses
<1> QED
  BY Zenon, <1>1, <1>3, <1>4, <1>5, KeepsTree

\* write(),
LEMMA WriteTree ==
  ASSUME FilesInv, TreeInv, NEW p \in Procs, Write(p)
  PROVE  TreeInv'
<1>1. UNCHANGED <<dinode, ilock, file, cwd>>
  BY Zenon DEF Write
<1>2. CASE Goto(p, "end_op") /\ loc' = [loc EXCEPT ![p].then = "user"]
  <2>1. loc'[p].ip = loc[p].ip /\ \A q \in Procs \ {p} : loc'[q] = loc[q]
    BY <1>2 DEF FilesInv, Types, Locals
  <2>2. Stays(p) /\ pc'[p] = "end_op"
    BY Zenon, <1>2, <2>1, GotoStays DEF Stays
  <2>3. "end_op" \notin Locking
    BY DEF Locking
  <2> QED
    BY Zenon, <1>1, <2>1, <2>2, <2>3, QuietTree, RefsKnown
<1>3. CASE UNCHANGED <<pc, loc>>
  BY Zenon, <1>1, <1>3, StopTree
<1> QED
  BY Zenon, <1>2, <1>3 DEF Write

\* exit()'s loop,
LEMMA ExitLoopTree ==
  ASSUME FilesInv, TreeInv, NEW p \in Procs, ExitLoop(p)
  PROVE  TreeInv'
<1>1. /\ UNCHANGED <<dinode, ilock, file, cwd>>
      /\ Goto(p, "fileclose") \/ Goto(p, "begin_op")
  BY Zenon DEF ExitLoop
<1>2. loc'[p].ip = loc[p].ip /\ \A q \in Procs \ {p} : loc'[q] = loc[q]
  <2>1. \E d, e : \/ loc' = [loc EXCEPT ![p].fd = d, ![p].f = e]
                  \/ loc' = [loc EXCEPT ![p].fd = d, ![p].then = e]
    BY Zenon DEF ExitLoop
  <2>2. loc \in [Procs -> Locals]
    BY Zenon DEF FilesInv, Types
  <2> QED
    BY <2>1, <2>2 DEF Locals
<1>3. "fileclose" \notin Locking /\ "begin_op" \notin Locking
  BY DEF Locking
<1>4. Stays(p) /\ pc'[p] \notin Locking
  BY Zenon, <1>1, <1>2, <1>3, GotoStays DEF Stays
<1> QED
  BY Zenon, <1>1, <1>2, <1>4, QuietTree, RefsKnown

\* A step of p that changes files and no lock.
LEMMA FileTree ==
  ASSUME FilesInv, TreeInv, NEW p \in Procs, Stays(p), pc'[p] \notin Locking,
         loc'[p].ip \in Refs, UNCHANGED <<dinode, ilock, cwd>>,
         \A f \in Files : file'[f].ip \in {file[f].ip, loc[p].ip}
  PROVE  TreeInv'
<1>1. Own(p)
  BY Zenon DEF Own, Stays
<1>2. Plain(p)
  BY Zenon, RefsKnown DEF Plain
<1> QED
  BY Zenon, <1>1, <1>2, PlainTree

\* fileclose(),
LEMMA FileCloseTree ==
  ASSUME FilesInv, TreeInv, NEW p \in Procs, FileClose(p)
  PROVE  TreeInv'
<1> DEFINE f == loc[p].f
<1>1. UNCHANGED <<dinode, ilock, cwd>> /\ pc[p] = "fileclose"
  BY Zenon DEF FileClose, At
<1>2. f \in Files
  <2>1. ExitOK(p)
    BY Zenon DEF FilesInv, ProcessesOK
  <2> QED
    BY <1>1, <2>1 DEF ExitOK, Place, PlaceAt, Waits
<1>3. \A g \in Files : file'[g].ip = file[g].ip
  <2>1. \E a, b : file' = [file EXCEPT ![f].ref = a, ![f].type = b]
    BY Zenon DEF FileClose
  <2>2. file \in [Files -> File]
    BY Zenon DEF FilesInv, Types
  <2> QED
    BY <2>1, <2>2 DEF File
<1>4. /\ loc'[p].ip \in {loc[p].ip, file[f].ip} /\ \A q \in Procs \ {p} : loc'[q] = loc[q]
      /\ Goto(p, "begin_op") \/ Goto(p, "exit") \/ Goto(p, "user")
  <2>1. CASE loc' = [loc EXCEPT ![p].ip = file[f].ip, ![p].then = "put_file"]
             /\ Goto(p, "begin_op")
    BY <2>1 DEF FilesInv, Types, Locals
  <2>2. CASE loc' = loc /\ (Goto(p, "exit") \/ Goto(p, "user"))
    BY Zenon, <2>2
  <2> QED
    BY Zenon, <2>1, <2>2 DEF FileClose
<1>5. "begin_op" \notin Locking /\ "exit" \notin Locking /\ "user" \notin Locking
  BY DEF Locking
<1>6. Stays(p) /\ pc'[p] \notin Locking
  BY Zenon, <1>4, <1>5, GotoStays DEF Stays
<1>7. loc'[p].ip \in Refs
  BY Zenon, <1>2, <1>4, RefsKnown
<1> QED
  BY Zenon, <1>1, <1>3, <1>6, <1>7, FileTree

\* the end of open(),
LEMMA InstallTree ==
  ASSUME FilesInv, TreeInv, NEW p \in Procs, Install(p)
  PROVE  TreeInv'
<1>1. /\ UNCHANGED <<dinode, ilock, cwd>> /\ Goto(p, "user")
      /\ loc' = [loc EXCEPT ![p] = NoLocals]
  BY Zenon DEF Install
<1>2. loc'[p].ip = None /\ \A q \in Procs \ {p} : loc'[q] = loc[q]
  BY <1>1 DEF FilesInv, Types, NoLocals
<1>3. \A f \in Files : file'[f].ip \in {file[f].ip, loc[p].ip}
  <2>1. file \in [Files -> File]
    BY Zenon DEF FilesInv, Types
  <2> QED
    BY <2>1 DEF Install, File
<1>4. "user" \notin Locking
  BY DEF Locking
<1>5. Stays(p) /\ pc'[p] = "user"
  BY Zenon, <1>1, <1>2, GotoStays DEF Stays
<1> QED
  BY Zenon, <1>1, <1>2, <1>3, <1>4, <1>5, FileTree, RefsKnown

\* and fork() keep it.
LEMMA ForkTree ==
  ASSUME FilesInv, TreeInv, NEW p \in Procs, NEW q \in Procs, Fork(p, q)
  PROVE  TreeInv'
<1>1. UNCHANGED <<dinode, ilock>>
  BY Zenon DEF Fork
<1>2. CASE UNCHANGED <<file, ofile, cwd, rc, pc, loc>>
  BY Zenon, <1>1, <1>2, StopTree
<1>3. CASE /\ file' = SharesFiles(p) /\ cwd' = [cwd EXCEPT ![q] = ChildCwd(p)]
           /\ pc' = [pc EXCEPT ![q] = "user"] /\ loc' = [loc EXCEPT ![q] = NoLocals]
  <2>1. /\ cwd'[q] = cwd[p] /\ loc'[q].ip = None /\ pc'[q] = "user"
        /\ \A s \in Procs \ {q} : cwd'[s] = cwd[s] /\ loc'[s] = loc[s] /\ pc'[s] = pc[s]
    BY <1>3 DEF ChildCwd, FilesInv, Types, NoLocals
  <2>2. \A f \in Files : file'[f].ip = file[f].ip
    BY <1>3 DEF SharesFiles, FilesInv, Types, File
  <2>3. "user" \notin Locking
    BY DEF Locking
  <2>4. Own(q)
    BY Zenon, <2>1 DEF Own
  <2>5. Plain(q)
    BY Zenon, <1>1, <2>1, <2>2, <2>3, RefsKnown DEF Plain
  <2> QED
    BY Zenon, <2>4, <2>5, PlainTree
<1> QED
  BY Zenon, <1>2, <1>3 DEF Fork

-----------------------------------------------------------------------------
(* Steps that take or release a lock.                                       *)

LEMMA LockTree ==
  ASSUME FilesInv, TreeInv, NEW p \in Procs, Stays(p), LocksOwn(p), loc'[p].ip \in Refs,
         UNCHANGED <<dinode, cwd>>, \A f \in Files : file'[f].ip = file[f].ip
  PROVE  TreeInv'
<1>1. Own(p)
  BY Zenon DEF Own, Stays
<1>2. Uses(p)
  BY Zenon, RefsKnown DEF Uses
<1> QED
  BY Zenon, <1>1, <1>2, KeepsTree

\* p takes the free lock of the inode it works with.
LEMMA TakeTree ==
  ASSUME FilesInv, TreeInv, NEW p \in Procs, loc[p].ip \in Inums, Unlocked(loc[p].ip),
         ilock' = [ilock EXCEPT ![loc[p].ip] = p], NEW l, Goto(p, l),
         l = "new" => dinode[Dp(p)].entries[NameOf(p)] = None,
         UNCHANGED <<dinode, file, cwd, loc>>
  PROVE  TreeInv'
<1>1. pc'[p] = l /\ Stays(p)
  BY Zenon, GotoStays DEF Stays
<1>2. ilock'[loc[p].ip] = p /\ \A i \in Inums \ {loc[p].ip} : ilock'[i] = ilock[i]
  BY DEF FilesInv, Types
<1>3. LocksOwn(p)
  BY Zenon, <1>1, <1>2 DEF LocksOwn, Unlocked, Dp, NameOf
<1> QED
  BY Zenon, <1>1, <1>3, LockTree, RefsKnown

\* create() looks the name up with the directory locked,
LEMMA CreateLookupTree ==
  ASSUME FilesInv, TreeInv, NEW p \in Procs, CreateLookup(p)
  PROVE  TreeInv'
<1> DEFINE l == IF dinode[Dp(p)].entries[NameOf(p)] # None THEN "exists" ELSE "new"
<1>1. loc[p].ip \in Inums
  BY AtPlace DEF CreateLookup, At
<1>2. /\ Unlocked(loc[p].ip) /\ ilock' = [ilock EXCEPT ![loc[p].ip] = p] /\ Goto(p, l)
      /\ UNCHANGED <<dinode, file, cwd, loc>>
  BY Zenon DEF CreateLookup, LookLocked, Dp
<1>3. l = "new" => dinode[Dp(p)].entries[NameOf(p)] = None
  OBVIOUS
<1> HIDE DEF l
<1> QED
  BY Zenon, <1>1, <1>2, <1>3, TakeTree

\* an open of what exists locks its inode,
LEMMA OpenLockTree ==
  ASSUME FilesInv, TreeInv, NEW p \in Procs, OpenLock(p)
  PROVE  TreeInv'
<1>1. loc[p].ip \in Inums
  BY AtPlace DEF OpenLock, At
<1>2. "opened" # "new"
  OBVIOUS
<1> QED
  BY Zenon, <1>1, <1>2, TakeTree DEF OpenLock

\* create() locks the inode it found and tests its type,
LEMMA CreateCheckTree ==
  ASSUME FilesInv, TreeInv, NEW p \in Procs, CreateCheck(p)
  PROVE  TreeInv'
<1>1. loc[p].ip \in Inums /\ Unlocked(loc[p].ip) /\ UNCHANGED <<dinode, file, cwd>>
  BY AtPlace DEF CreateCheck, At
<1>2. CASE ilock' = [ilock EXCEPT ![loc[p].ip] = p] /\ Goto(p, "opened") /\ loc' = loc
  <2>1. "opened" # "new"
    OBVIOUS
  <2> QED
    BY Zenon, <1>1, <1>2, <2>1, TakeTree
<1>3. CASE /\ loc' = [loc EXCEPT ![p].then = "user", ![p].ip = None]
           /\ Goto(p, "end_op") /\ ilock' = ilock
  <2>1. loc'[p].ip = None /\ \A q \in Procs \ {p} : loc'[q] = loc[q]
    BY <1>3 DEF FilesInv, Types, Locals
  <2>2. Stays(p) /\ pc'[p] = "end_op"
    BY Zenon, <1>3, <2>1, GotoStays DEF Stays
  <2>3. "end_op" \notin Locking
    BY DEF Locking
  <2> QED
    BY Zenon, <1>1, <1>3, <2>1, <2>2, <2>3, QuietTree, RefsKnown
<1> QED
  BY Zenon, <1>2, <1>3 DEF CreateCheck

\* p releases the lock that it holds at its place.
LEMMA FreeTree ==
  ASSUME FilesInv, TreeInv, NEW p \in Procs, pc[p] \in Locking,
         ilock' = [ilock EXCEPT ![loc[p].ip] = None], pc'[p] \notin Locking, Stays(p),
         loc'[p].ip \in Refs, UNCHANGED <<dinode, cwd>>,
         \A f \in Files : file'[f].ip = file[f].ip
  PROVE  TreeInv'
<1>1. ilock[loc[p].ip] = p
  BY Zenon DEF TreeInv, LockInv
<1>2. \A i \in Inums : ilock'[i] = ilock[i] \/ i = loc[p].ip
  BY DEF FilesInv, Types
<1>3. LocksOwn(p)
  BY Zenon, <1>1, <1>2 DEF LocksOwn, Locking
<1> QED
  BY Zenon, <1>3, LockTree

\* and gives the directory up,
LEMMA CreateExistsTree ==
  ASSUME FilesInv, TreeInv, NEW p \in Procs, CreateExists(p)
  PROVE  TreeInv'
<1> DEFINE ip == dinode[Dp(p)].entries[NameOf(p)]
<1>1. pc[p] = "exists" /\ "exists" \in Locking /\ "check" \notin Locking
  BY DEF CreateExists, At, Locking
<1>2. Dp(p) \in Inums /\ NameOf(p) \in AllNames
  BY <1>1, AtPlace DEF Dp
<1>3. /\ ilock' = [ilock EXCEPT ![loc[p].ip] = None] /\ UNCHANGED <<file, cwd>>
      /\ loc' = [loc EXCEPT ![p].ip = ip] /\ Goto(p, "check")
      /\ dinode' = PutDisk(Get(rc, ip), Dp(p))
  BY Zenon DEF CreateExists, Dp
<1>4. dinode' = dinode
  BY Zenon, <1>2, <1>3, PutDiskSame
<1>5. loc'[p].ip = ip /\ \A q \in Procs \ {p} : loc'[q] = loc[q]
  BY <1>3 DEF FilesInv, Types, Locals
<1>6. ip \in Refs
  BY Zenon, <1>2, RefsKnown
<1>7. Stays(p) /\ pc'[p] = "check"
  BY Zenon, <1>3, <1>5, GotoStays DEF Stays
<1> QED
  BY Zenon, <1>1, <1>3, <1>4, <1>5, <1>6, <1>7, FreeTree

\* mkdirat, mknodat and chdir unlock what they looked up,
LEMMA FinishTree ==
  ASSUME FilesInv, TreeInv, NEW p \in Procs, Finish(p)
  PROVE  TreeInv'
<1>1. pc[p] = "made" /\ "made" \in Locking
  BY DEF Finish, At, Locking
<1>2. loc[p].ip \in Inums
  BY <1>1, AtPlace
<1>3. /\ dinode' = dinode /\ Stays(p) /\ pc'[p] = "end_op" /\ "end_op" \notin Locking
      /\ loc'[p].ip \in {loc[p].ip, None}
  BY Zenon, <1>2, PutAndEndKeeps DEF Finish
<1>4. loc'[p].ip \in Refs
  BY Zenon, <1>3, RefsKnown
<1> QED
  BY Zenon, <1>1, <1>3, <1>4, FreeTree DEF Finish

\* and so does open(): all of them keep the invariant.
LEMMA OpenTree ==
  ASSUME FilesInv, TreeInv, NEW p \in Procs, Open(p)
  PROVE  TreeInv'
<1>1. pc[p] = "opened" /\ "opened" \in Locking /\ "end_op" \notin Locking
  BY DEF Open, At, Locking
<1>2. loc[p].ip \in Inums
  BY <1>1, AtPlace
<1>3. ilock' = [ilock EXCEPT ![loc[p].ip] = None] /\ cwd' = cwd
  BY Zenon DEF Open, Unlock
<1>4. /\ dinode' = dinode /\ Stays(p) /\ pc'[p] = "end_op"
      /\ loc'[p].ip \in {loc[p].ip, None} /\ \A f \in Files : file'[f].ip = file[f].ip
  <2>1. CASE PutAndEnd(p, loc[p].ip, "user") /\ file' = file
    BY Zenon, <1>2, <2>1, PutAndEndKeeps
  <2>2. ASSUME NEW g, file' = [file EXCEPT ![g].ref = 1], dinode' = dinode,
               loc' = [loc EXCEPT ![p].f = g, ![p].then = "install"], Goto(p, "end_op")
        PROVE  /\ dinode' = dinode /\ Stays(p) /\ pc'[p] = "end_op"
               /\ loc'[p].ip \in {loc[p].ip, None} /\ \A f \in Files : file'[f].ip = file[f].ip
    <3>1. \A f \in Files : file'[f].ip = file[f].ip
      BY <2>2 DEF FilesInv, Types, File
    <3>2. loc'[p].ip = loc[p].ip /\ \A q \in Procs \ {p} : loc'[q] = loc[q]
      BY <2>2 DEF FilesInv, Types, Locals
    <3> QED
      BY Zenon, <2>2, <3>1, <3>2, GotoStays DEF Stays
  <2> QED
    BY Zenon, <2>1, <2>2 DEF Open, OpenFails
<1>5. loc'[p].ip \in Refs
  BY Zenon, <1>4, RefsKnown
<1> QED
  BY Zenon, <1>1, <1>3, <1>4, <1>5, FreeTree

-----------------------------------------------------------------------------
(* The step that adds to the tree: create makes inode i and names it n in   *)
(* the directory dp.                                                        *)

Grown(c, n, i, dp) ==
    /\ dinode'[i].type # "free" /\ dinode'[i].num_links = 1
    /\ dinode'[i].type = "dir" <=> c = "mkdir"
    /\ \A m \in Names : dinode'[i].entries[m] = None
    /\ c = "mkdir" => dinode'[i].entries["."] = i /\ dinode'[i].entries[".."] = dp
    /\ c # "mkdir" => dinode'[i].entries["."] = None /\ dinode'[i].entries[".."] = None
    /\ dinode'[dp].type = "dir"
    /\ dinode'[dp].num_links = dinode[dp].num_links + Is(c, "mkdir")
    /\ dinode'[dp].entries[n] = i
    /\ \A m \in AllNames \ {n} : dinode'[dp].entries[m] = dinode[dp].entries[m]
    /\ \A j \in Inums \ {i, dp} : dinode'[j] = dinode[j]

\* What create writes.
LEMMA CreateGrows ==
  ASSUME FilesInv, NEW i \in Inums, NEW dp \in Inums, NEW n \in AllNames, NEW c,
         WantsParent(c), i # dp, dinode[dp].type = "dir", Creates(dinode', c, n, i, dp)
  PROVE  Grown(c, n, i, dp)
<1>1. Types /\ dinode[dp] \in DInode
  BY Zenon DEF FilesInv, Types
<1>2. TwoChanged(dinode', dinode, i, dp, Made(c, i, dp), Linked(dinode[dp], c, n, i))
  BY Zenon, <1>1, CreatedDisk
<1>3. dinode'[i] = Made(c, i, dp) /\ dinode'[dp] = Linked(dinode[dp], c, n, i)
  BY Zenon, <1>2 DEF TwoChanged
<1>4. /\ Made(c, i, dp).num_links = 1 /\ Made(c, i, dp).type = TypeOf(c)
      /\ TypeOf(c) \in Kinds /\ (TypeOf(c) = "dir" <=> c = "mkdir")
  BY MadeTyped
<1>5. /\ dinode'[i].type # "free" /\ dinode'[i].num_links = 1
      /\ dinode'[i].type = "dir" <=> c = "mkdir"
  BY <1>3, <1>4 DEF Kinds
<1>6. /\ c = "mkdir" => dinode'[i].entries = Directory(i, dp).entries
      /\ c # "mkdir" => dinode'[i].entries = FreeInode.entries
  <2>1. c = "mkdir" => Made(c, i, dp).entries = Directory(i, dp).entries
    BY MadeTyped
  <2>2. c # "mkdir" => Made(c, i, dp).entries = FreeInode.entries
    BY MadeTyped
  <2> QED
    BY Zenon, <1>3, <2>1, <2>2
<1>7. /\ \A m \in Names : Directory(i, dp).entries[m] = None
      /\ Directory(i, dp).entries["."] = i /\ Directory(i, dp).entries[".."] = dp
  BY FilesAssumption DEF Directory, AllNames
<1>8. \A m \in AllNames : FreeInode.entries[m] = None
  BY DEF FreeInode
<1>9. /\ \A m \in Names : m \in AllNames
      /\ "." \in AllNames /\ ".." \in AllNames
  BY DEF AllNames
<1>10. /\ Linked(dinode[dp], c, n, i).type = dinode[dp].type
       /\ Linked(dinode[dp], c, n, i).num_links = dinode[dp].num_links + Is(c, "mkdir")
       /\ Linked(dinode[dp], c, n, i).entries = [dinode[dp].entries EXCEPT ![n] = i]
  <2>1. PICK d \in DInode : d = dinode[dp]
    BY Zenon, <1>1
  <2>2. /\ Linked(d, c, n, i).type = d.type
        /\ Linked(d, c, n, i).num_links = d.num_links + Is(c, "mkdir")
        /\ Linked(d, c, n, i).entries = [d.entries EXCEPT ![n] = i]
    BY LinkedTyped
  <2> QED
    BY Zenon, <2>1, <2>2
<1>11. dinode[dp].entries \in [AllNames -> Inums \cup {None}]
  BY <1>1 DEF DInode
<1>12. /\ dinode'[dp].entries[n] = i
       /\ \A m \in AllNames \ {n} : dinode'[dp].entries[m] = dinode[dp].entries[m]
  BY <1>3, <1>10, <1>11
<1>13. \A j \in Inums \ {i, dp} : dinode'[j] = dinode[j]
  BY Zenon, <1>2 DEF TwoChanged
<1>14. dinode'[dp].type = "dir" /\ dinode'[dp].num_links = dinode[dp].num_links + Is(c, "mkdir")
  BY Zenon, <1>3, <1>10
<1> QED
  BY Zenon, <1>5, <1>6, <1>7, <1>8, <1>9, <1>12, <1>13, <1>14 DEF Grown

\* The place where create makes a new name.
Creating(n, i, dp) ==
    /\ i \in Inums /\ dp \in Inums /\ n \in Names /\ i # dp /\ i # ROOT_INODE_NO
    /\ dinode[i].type = "free" /\ dinode[dp].type = "dir" /\ dinode[dp].entries[n] = None
    /\ dinode[dp].num_links \in Nat

\* The allocated inodes, and the names of all the others.
LEMMA GrownAllocated ==
  ASSUME FilesInv, TreeInv, NEW c, NEW n, NEW i, NEW dp, Creating(n, i, dp), Grown(c, n, i, dp)
  PROVE  Allocated' = Allocated \cup {i} /\ i \notin Allocated /\ dp \in Allocated
<1>1. /\ i \in Inums /\ dp \in Inums /\ dinode[i].type = "free" /\ dinode[dp].type = "dir"
      /\ dinode'[i].type # "free" /\ dinode'[dp].type = "dir"
      /\ \A j \in Inums \ {i, dp} : dinode'[j] = dinode[j]
  BY Zenon DEF Creating, Grown
<1>2. "dir" # "free"
  OBVIOUS
<1>3. \A j \in Inums : dinode'[j].type # "free" <=> (dinode[j].type # "free" \/ j = i)
  BY Zenon, <1>1, <1>2
<1>4. \A j : j \in Allocated' <=> j \in Allocated \cup {i}
  BY Zenon, <1>1, <1>3 DEF Allocated
<1> QED
  BY Zenon, <1>1, <1>2, <1>4 DEF Allocated

\* The new inode has exactly the name it was created by; the others keep theirs.
LEMMA GrownNames ==
  ASSUME FilesInv, TreeInv, NEW c, NEW n, NEW i, NEW dp, Creating(n, i, dp), Grown(c, n, i, dp)
  PROVE  /\ \A j \in Inums \ {i} : NamesOf(j)' = NamesOf(j)
         /\ NamesOf(i)' = {<<dp, n>>}
<1>1. Allocated' = Allocated \cup {i} /\ i \notin Allocated /\ dp \in Allocated
  BY Zenon, GrownAllocated
<1>2. /\ i \in Inums /\ dp \in Inums /\ n \in Names /\ dinode[dp].entries[n] = None
      /\ \A m \in Names : dinode'[i].entries[m] = None
      /\ dinode'[dp].entries[n] = i
      /\ \A m \in AllNames \ {n} : dinode'[dp].entries[m] = dinode[dp].entries[m]
      /\ \A j \in Inums \ {i, dp} : dinode'[j] = dinode[j]
  BY Zenon DEF Creating, Grown
<1>3. \A m \in Names : m \in AllNames
  BY DEF AllNames
<1>4. NamesOf(i) = {}
  BY Zenon, <1>1, <1>2 DEF TreeInv, TreeIntact
<1>5. Allocated \subseteq Inums
  BY Zenon DEF Allocated
<1>6. ASSUME NEW j \in Inums \ {i} PROVE NamesOf(j)' = NamesOf(j)
  <2>1. j # None
    BY Zenon, NoneIsNone
  <2>2. ASSUME NEW a \in Allocated', NEW m \in Names
        PROVE  dinode'[a].entries[m] = j <=> a \in Allocated /\ dinode[a].entries[m] = j
    <3>1. CASE a = i
      BY Zenon, <1>1, <1>2, <2>1, <2>2, <3>1
    <3>2. CASE a = dp
      BY Zenon, <1>1, <1>2, <1>3, <1>6, <2>1, <2>2, <3>2
    <3>3. CASE a \notin {i, dp}
      BY Zenon, <1>1, <1>2, <1>5, <2>2, <3>3
    <3> QED
      BY Zenon, <3>1, <3>2, <3>3
  <2>3. \A x : /\ x \in Allocated' \X Names => x[1] \in Allocated' /\ x[2] \in Names
             /\ x \in Allocated \X Names <=> x \in Allocated' \X Names /\ x[1] \in Allocated
    BY <1>1
  <2>4. \A x : x \in NamesOf(j)' <=> x \in NamesOf(j)
    BY Zenon, <2>2, <2>3 DEF NamesOf
  <2> QED
    BY Zenon, <2>4
<1>7. NamesOf(i)' = {<<dp, n>>}
  <2>1. i # None
    BY Zenon, <1>2, NoneIsNone
  <2>2. ASSUME NEW a \in Allocated, NEW m \in Names PROVE dinode[a].entries[m] # i
    <3>1. <<a, m>> \in Allocated \X Names /\ <<a, m>>[1] = a /\ <<a, m>>[2] = m
      BY <2>2
    <3> QED
      BY Zenon, <1>4, <3>1 DEF NamesOf
  <2>3. ASSUME NEW a \in Allocated', NEW m \in Names
        PROVE  dinode'[a].entries[m] = i <=> a = dp /\ m = n
    <3>1. CASE a = i
      BY Zenon, <1>1, <1>2, <2>1, <2>3, <3>1
    <3>2. CASE a = dp
      BY Zenon, <1>1, <1>2, <1>3, <2>2, <2>3, <3>2
    <3>3. CASE a \notin {i, dp}
      <4>1. a \in Allocated /\ a # dp
        BY Zenon, <1>1, <2>3, <3>3
      <4>2. dinode'[a].entries[m] = dinode[a].entries[m]
        BY Zenon, <1>2, <1>5, <2>3, <3>3, <4>1
      <4> QED
        BY Zenon, <2>2, <2>3, <4>1, <4>2
    <3> QED
      BY Zenon, <3>1, <3>2, <3>3
  <2>4. dp \in Allocated' /\ n \in Names
    BY Zenon, <1>1, <1>2
  <2>5. \A x : x \in NamesOf(i)' <=> x = <<dp, n>>
    BY <2>3, <2>4 DEF NamesOf
  <2> QED
    BY Zenon, <2>5
<1> QED
  BY Zenon, <1>6, <1>7

\* A new directory is a subdirectory of its parent; nothing else changes.
LEMMA GrownSubdirs ==
  ASSUME FilesInv, TreeInv, NEW c, NEW n, NEW i, NEW dp, Creating(n, i, dp), Grown(c, n, i, dp)
  PROVE  /\ \A d \in Inums \ {i, dp} : Subdirs(d)' = Subdirs(d)
         /\ Subdirs(dp)' = IF c = "mkdir" THEN Subdirs(dp) \cup {i} ELSE Subdirs(dp)
         /\ Subdirs(i)' = {} /\ i \notin Subdirs(dp)
<1>1. Allocated' = Allocated \cup {i} /\ i \notin Allocated /\ dp \in Allocated
  BY Zenon, GrownAllocated
<1>2. /\ i \in Inums /\ dp \in Inums /\ n \in Names /\ i # dp /\ i # ROOT_INODE_NO
      /\ dinode[dp].type = "dir"
      /\ dinode'[i].type = "dir" <=> c = "mkdir"
      /\ c = "mkdir" => dinode'[i].entries[".."] = dp
      /\ dinode'[dp].type = "dir"
      /\ \A m \in AllNames \ {n} : dinode'[dp].entries[m] = dinode[dp].entries[m]
      /\ \A j \in Inums \ {i, dp} : dinode'[j] = dinode[j]
  BY Zenon DEF Creating, Grown
<1>3. ".." \in AllNames \ {n}
  BY <1>2, FilesAssumption DEF AllNames
<1>4. \A j \in Allocated : dinode'[j].type = dinode[j].type
                           /\ dinode'[j].entries[".."] = dinode[j].entries[".."]
  BY Zenon, <1>1, <1>2, <1>3 DEF Allocated
<1>5. \A j \in Allocated : dinode[j].entries[".."] # i
  <2>1. i # None
    BY Zenon, <1>2, NoneIsNone
  <2> QED
    BY Zenon, <1>1, <1>3, <2>1, RefsKnown DEF Refs, Allocated
<1>6. ASSUME NEW d \in Inums
      PROVE  \A j : j \in Subdirs(d)' <=> \/ j \in Subdirs(d)
                                          \/ j = i /\ c = "mkdir" /\ d = dp
  BY Zenon, <1>1, <1>2, <1>4 DEF Subdirs
<1>7. \A d \in Inums \ {i, dp} : Subdirs(d)' = Subdirs(d)
  BY Zenon, <1>6
<1>8. Subdirs(dp)' = IF c = "mkdir" THEN Subdirs(dp) \cup {i} ELSE Subdirs(dp)
  <2>1. CASE c = "mkdir"
    <3>1. \A j : j \in Subdirs(dp)' <=> j \in Subdirs(dp) \cup {i}
      BY Zenon, <1>2, <1>6, <2>1
    <3> QED
      BY Zenon, <2>1, <3>1
  <2>2. CASE c # "mkdir"
    <3>1. \A j : j \in Subdirs(dp)' <=> j \in Subdirs(dp)
      BY Zenon, <1>2, <1>6, <2>2
    <3> QED
      BY Zenon, <2>2, <3>1
  <2> QED
    BY Zenon, <2>1, <2>2
<1>9. Subdirs(i)' = {}
  <2>1. Subdirs(i) = {}
    BY Zenon, <1>5 DEF Subdirs
  <2> QED
    BY Zenon, <1>2, <1>6, <2>1
<1>10. i \notin Subdirs(dp)
  BY Zenon, <1>1 DEF Subdirs
<1> QED
  BY Zenon, <1>7, <1>8, <1>9, <1>10

\* What counting tells of sets of inodes.
LEMMA Cardinals ==
  Counting =>
    /\ Cardinality({}) = 0 /\ \A x : Cardinality({x}) = 1
    /\ \A S \in SUBSET Inums :
          /\ Cardinality(S) \in Nat
          /\ \A x \in Inums \ S : Cardinality(S \cup {x}) = Cardinality(S) + 1
  BY Zenon DEF Counting

\* A creation keeps the directories a tree,
LEMMA GrownTree ==
  ASSUME FilesInv, Counting, TreeInv, NEW c, NEW n, NEW i, NEW dp, Creating(n, i, dp),
         Grown(c, n, i, dp)
  PROVE  TreeIntact'
<1>1. Allocated' = Allocated \cup {i} /\ i \notin Allocated /\ dp \in Allocated
  BY Zenon, GrownAllocated
<1>2. /\ i \in Inums /\ dp \in Inums /\ n \in Names /\ i # dp /\ i # ROOT_INODE_NO
      /\ dinode[dp].type = "dir" /\ dinode[dp].num_links \in Nat
      /\ dinode'[i].type = "dir" <=> c = "mkdir"
      /\ dinode'[i].num_links = 1
      /\ c = "mkdir" => dinode'[i].entries[".."] = dp
      /\ dinode'[dp].type = "dir"
      /\ dinode'[dp].num_links = dinode[dp].num_links + Is(c, "mkdir")
      /\ \A m \in AllNames \ {n} : dinode'[dp].entries[m] = dinode[dp].entries[m]
      /\ \A j \in Inums \ {i, dp} : dinode'[j] = dinode[j]
  BY Zenon DEF Creating, Grown
<1>3. ".." \in AllNames \ {n}
  BY <1>2, FilesAssumption DEF AllNames
<1>4. TreeIntact /\ Allocated \subseteq Inums
  BY Zenon DEF TreeInv, Allocated
<1>5. /\ \A j \in Inums \ {i} : NamesOf(j)' = NamesOf(j)
      /\ NamesOf(i)' = {<<dp, n>>}
  BY Zenon, GrownNames
<1>6. ASSUME NEW j \in Allocated' \ {ROOT_INODE_NO}
      PROVE  /\ Cardinality(NamesOf(j)') = 1
             /\ dinode'[j].type = "dir" =>
                   \A x \in NamesOf(j)' : dinode'[j].entries[".."] = x[1]
  <2>1. CASE j = i
    <3>1. Cardinality(NamesOf(j)') = 1
      BY Zenon, <1>5, <2>1, Cardinals
    <3>2. \A x \in {<<dp, n>>} : x[1] = dp
      OBVIOUS
    <3>3. \A x \in NamesOf(j)' : x[1] = dp
      BY Zenon, <1>5, <2>1, <3>2
    <3> QED
      BY Zenon, <1>2, <2>1, <3>1, <3>3
  <2>2. CASE j # i
    <3>1. j \in Allocated \ {ROOT_INODE_NO} /\ j \in Inums /\ NamesOf(j)' = NamesOf(j)
      BY Zenon, <1>1, <1>4, <1>5, <1>6, <2>2
    <3>2. dinode'[j].type = dinode[j].type /\ dinode'[j].entries[".."] = dinode[j].entries[".."]
      BY Zenon, <1>2, <1>3, <2>2, <3>1
    <3> QED
      BY Zenon, <1>4, <3>1, <3>2 DEF TreeIntact
  <2> QED
    BY Zenon, <2>1, <2>2
<1>7. \A j \in Inums \ Allocated' : NamesOf(j)' = {}
  BY Zenon, <1>1, <1>4, <1>5 DEF TreeIntact
<1>8. ASSUME NEW d \in Allocated'
      PROVE  dinode'[d].num_links
               = 1 + IF dinode'[d].type = "dir" THEN Cardinality(Subdirs(d)') ELSE 0
  <2>0. /\ \A j \in Inums \ {i, dp} : Subdirs(j)' = Subdirs(j)
        /\ Subdirs(dp)' = IF c = "mkdir" THEN Subdirs(dp) \cup {i} ELSE Subdirs(dp)
        /\ Subdirs(i)' = {} /\ i \notin Subdirs(dp)
    BY Zenon, GrownSubdirs
  <2>1. CASE d = i
    <3>1. PICK k : k = Cardinality(Subdirs(d)')
      OBVIOUS
    <3>2. k = 0
      BY Zenon, <2>0, <2>1, <3>1, Cardinals
    <3>3. dinode'[d].num_links = 1
      BY Zenon, <1>2, <2>1
    <3>4. dinode'[d].num_links = 1 + IF dinode'[d].type = "dir" THEN k ELSE 0
      BY <3>2, <3>3
    <3> QED
      BY Zenon, <3>1, <3>4
  <2>2. CASE d = dp
    <3>1. dinode[dp].num_links = 1 + Cardinality(Subdirs(dp))
      BY Zenon, <1>1, <1>2, <1>4 DEF TreeIntact
    <3>2. Subdirs(dp) \in SUBSET Inums /\ i \in Inums \ Subdirs(dp)
      BY Zenon, <1>2, <1>4, <2>0 DEF Subdirs
    <3>3. Cardinality(Subdirs(dp)) \in Nat
      BY Zenon, <3>2, Cardinals
    <3>4. Cardinality(Subdirs(dp)') = Cardinality(Subdirs(dp)) + Is(c, "mkdir")
      <4>1. CASE c = "mkdir"
        <5>1. Cardinality(Subdirs(dp) \cup {i}) = Cardinality(Subdirs(dp)) + 1
          BY Zenon, <3>2, Cardinals
        <5> QED
          BY Zenon, <2>0, <4>1, <5>1 DEF Is
      <4>2. CASE c # "mkdir"
        <5>1. Subdirs(dp)' = Subdirs(dp)
          BY Zenon, <2>0, <4>2
        <5> QED
          BY <3>3, <4>2, <5>1 DEF Is
      <4> QED
        BY Zenon, <4>1, <4>2
    <3>5. PICK k, m \in Nat : k = Cardinality(Subdirs(dp)) /\ m = Is(c, "mkdir")
      BY Zenon, <3>3 DEF Is
    <3>6. dinode'[dp].num_links = 1 + k + m /\ Cardinality(Subdirs(dp)') = k + m
      BY <1>2, <3>1, <3>4, <3>5
    <3> QED
      BY <1>2, <2>2, <3>5, <3>6
  <2>3. CASE d \notin {i, dp}
    <3>1. d \in Allocated /\ d \in Inums \ {i, dp}
      BY Zenon, <1>1, <1>4, <1>8, <2>3
    <3>2. dinode'[d] = dinode[d] /\ Subdirs(d)' = Subdirs(d)
      BY Zenon, <1>2, <2>0, <3>1
    <3> QED
      BY Zenon, <1>4, <3>1, <3>2 DEF TreeIntact
  <2> QED
    BY Zenon, <2>1, <2>2, <2>3
<1> QED
  BY Zenon, <1>6, <1>7, <1>8 DEF TreeIntact

\* and leaves every name with an allocated inode.
LEMMA GrownEntries ==
  ASSUME FilesInv, TreeInv, NEW c, NEW n, NEW i, NEW dp, Creating(n, i, dp), Grown(c, n, i, dp)
  PROVE  EntriesInv' /\ Refs \subseteq Refs' /\ i \in Refs'
<1>1. Allocated' = Allocated \cup {i} /\ i \notin Allocated /\ dp \in Allocated
  BY Zenon, GrownAllocated
<1>2. /\ i \in Inums /\ dp \in Inums /\ n \in Names /\ i # dp /\ i # ROOT_INODE_NO
      /\ dinode'[i].type = "dir" <=> c = "mkdir"
      /\ \A m \in Names : dinode'[i].entries[m] = None
      /\ c = "mkdir" => dinode'[i].entries["."] = i /\ dinode'[i].entries[".."] = dp
      /\ c # "mkdir" => dinode'[i].entries["."] = None /\ dinode'[i].entries[".."] = None
      /\ dinode'[dp].type = "dir" /\ dinode'[dp].entries[n] = i
      /\ \A m \in AllNames \ {n} : dinode'[dp].entries[m] = dinode[dp].entries[m]
      /\ \A j \in Inums \ {i, dp} : dinode'[j] = dinode[j]
      /\ dinode[dp].type = "dir"
  BY Zenon DEF Creating, Grown
<1>3. Refs \subseteq Refs' /\ i \in Refs' /\ dp \in Refs' /\ None \in Refs'
  BY Zenon, <1>1 DEF Refs
<1>4. ROOT_INODE_NO \in Inums /\ EntriesInv /\ i # None /\ dp # None
  BY Zenon, <1>2, RootIsAnInode, NoneIsNone DEF TreeInv
<1>5. dinode'[ROOT_INODE_NO].type = "dir"
  BY Zenon, <1>2, <1>4 DEF EntriesInv
<1>6. ASSUME NEW j \in Inums, NEW m \in AllNames PROVE dinode'[j].entries[m] \in Refs'
  <2>1. CASE j = i
    <3>1. m \in Names \/ m = "." \/ m = ".."
      BY DEF AllNames
    <3> QED
      BY Zenon, <1>2, <1>3, <2>1, <3>1
  <2>2. CASE j = dp
    BY Zenon, <1>2, <1>3, <1>4, <2>2 DEF EntriesInv
  <2>3. CASE j \notin {i, dp}
    BY Zenon, <1>2, <1>3, <1>4, <2>3 DEF EntriesInv
  <2> QED
    BY Zenon, <2>1, <2>2, <2>3
<1>7. ASSUME NEW j \in Inums, dinode'[j].type = "dir"
      PROVE  dinode'[j].entries["."] # None /\ dinode'[j].entries[".."] # None
  <2>1. CASE j = i
    BY Zenon, <1>2, <1>4, <1>7, <2>1
  <2>2. CASE j = dp
    <3>1. "." \in AllNames \ {n} /\ ".." \in AllNames \ {n}
      BY <1>2, FilesAssumption DEF AllNames
    <3> QED
      BY Zenon, <1>2, <1>4, <2>2, <3>1 DEF EntriesInv
  <2>3. CASE j \notin {i, dp}
    BY Zenon, <1>2, <1>4, <1>7, <2>3 DEF EntriesInv
  <2> QED
    BY Zenon, <2>1, <2>2, <2>3
<1> QED
  BY Zenon, <1>3, <1>5, <1>6, <1>7 DEF EntriesInv

\* create makes the inode: the directory was locked since the name was not found
\* in it, and nobody else works with the inode that was free.
LEMMA CreateNewTree ==
  ASSUME FilesInv, Counting, TreeInv, NEW p \in Procs, CreateNew(p)
  PROVE  TreeInv'
<1>1. pc[p] = "new" /\ "new" \in Locking
  BY DEF CreateNew, At, Locking
<1>2. Dp(p) \in Inums /\ NameOf(p) \in AllNames /\ WantsParent(loc[p].call)
  BY <1>1, AtPlace DEF Dp
<1>3. CASE Min(FreeInums) = NumInodes
  BY Zenon, <1>3, StopTree DEF CreateNew
<1>4. CASE Min(FreeInums) # NumInodes
  <2>1. PICK i, dp, n, c : i = Min(FreeInums) /\ dp = Dp(p) /\ n = NameOf(p) /\ c = loc[p].call
    OBVIOUS
  <2>2. /\ Creates(dinode', c, n, i, dp) /\ ilock' = [ilock EXCEPT ![i] = p, ![dp] = None]
        /\ loc' = [loc EXCEPT ![p].ip = i] /\ Goto(p, IF c = "creat" THEN "opened" ELSE "made")
        /\ UNCHANGED <<file, cwd>>
    BY Zenon, <1>4, <2>1 DEF CreateNew, Creates
  <2>3. i \in Inums /\ dinode[i].type = "free"
    <3>1. FreeInums \in SUBSET Nat /\ FreeInums # {}
      BY FilesAssumption DEF FreeInums, Inums
    <3>2. i \in FreeInums
      BY Zenon, <2>1, <3>1, MinIn
    <3> QED
      BY Zenon, <1>4, <2>1, <3>2 DEF FreeInums
  <2>4. dp \in Inums /\ n \in AllNames /\ WantsParent(c) /\ dinode[dp].type = "dir"
    <3>1. LookOK(p)
      BY Zenon DEF FilesInv, ProcessesOK
    <3>2. dinode[Dp(p)].type = "dir"
      BY <1>1, <3>1 DEF LookOK, LookAt, Dp
    <3> QED
      BY Zenon, <1>2, <2>1, <3>2
  <2>5. ilock[dp] = p /\ dinode[dp].entries[n] = None
    BY Zenon, <1>1, <2>1 DEF TreeInv, LockInv, Dp
  <2>6. i # dp /\ i # ROOT_INODE_NO
    <3>1. dinode[ROOT_INODE_NO].type = "dir"
      BY Zenon DEF TreeInv, EntriesInv
    <3>2. "dir" # "free"
      OBVIOUS
    <3> QED
      BY Zenon, <2>3, <2>4, <3>1, <3>2
  <2>7. n \in Names
    <3>1. n \in Names \/ n = "." \/ n = ".."
      BY <2>4 DEF AllNames
    <3> QED
      BY Zenon, <2>4, <2>5, <3>1 DEF TreeInv, EntriesInv
  <2>8. dinode[dp].num_links \in Nat
    <3>1. dinode[dp] \in DInode
      BY Zenon, <2>4 DEF FilesInv, Types
    <3> QED
      BY <3>1 DEF DInode
  <2>9. Creating(n, i, dp) /\ Grown(c, n, i, dp)
    BY Zenon, <2>2, <2>3, <2>4, <2>5, <2>6, <2>7, <2>8, CreateGrows DEF Creating
  <2>10. TreeIntact' /\ EntriesInv' /\ Refs \subseteq Refs' /\ i \in Refs'
    BY Zenon, <2>9, GrownTree, GrownEntries
  <2>11. /\ loc'[p].ip = i /\ \A q \in Procs \ {p} : loc'[q] = loc[q]
         /\ ilock'[i] = p /\ \A j \in Inums \ {i, dp} : ilock'[j] = ilock[j]
    BY <2>2, <2>3, <2>4, <2>6 DEF FilesInv, Types, Locals
  <2>12. /\ pc'[p] \in {"opened", "made"} /\ \A q \in Procs \ {p} : pc'[q] = pc[q]
         /\ "new" \notin {"opened", "made"}
    BY Zenon, <2>2, GotoStays
  <2>13. UseInv'
    <3>1. ASSUME NEW q \in Procs PROVE loc'[q].ip \in Refs' /\ cwd'[q] \in Refs'
      BY Zenon, <2>2, <2>10, <2>11, RefsKnown
    <3>2. ASSUME NEW f \in Files PROVE file'[f].ip \in Refs'
      BY Zenon, <2>2, <2>10, RefsKnown
    <3> QED
      BY Zenon, <3>1, <3>2 DEF UseInv
  <2>14. LockInv'
    <3> SUFFICES ASSUME NEW q \in Procs
        PROVE  /\ pc'[q] \in Locking => ilock'[loc'[q].ip] = q
               /\ pc'[q] = "new" => dinode'[loc'[q].ip].entries[Head(loc'[q].rest)] = None
      BY Zenon DEF LockInv, Dp, NameOf
    <3>1. CASE q = p
      BY Zenon, <2>11, <2>12, <3>1
    <3>2. CASE q # p /\ pc[q] \in Locking
      <4>1. loc[q].ip \in Inums /\ ilock[loc[q].ip] = q
        BY Zenon, <3>2, LockedInum DEF TreeInv, LockInv
      <4>2. loc[q].ip \in Allocated
        BY Zenon, <4>1, RefsKnown, NoneIsNone DEF Refs
      <4>3. loc[q].ip # i /\ loc[q].ip # dp
        BY Zenon, <2>3, <2>5, <3>2, <4>1, <4>2 DEF Allocated
      <4>4. ilock'[loc[q].ip] = q /\ dinode'[loc[q].ip] = dinode[loc[q].ip]
        BY Zenon, <2>9, <2>11, <4>1, <4>3 DEF Grown
      <4>5. pc'[q] = pc[q] /\ loc'[q] = loc[q]
        BY Zenon, <2>11, <2>12, <3>2
      <4>6. pc[q] = "new" => dinode[loc[q].ip].entries[Head(loc[q].rest)] = None
        BY Zenon DEF TreeInv, LockInv, Dp, NameOf
      <4> QED
        BY Zenon, <4>4, <4>5, <4>6
    <3>3. CASE q # p /\ pc[q] \notin Locking
      BY Zenon, <1>1, <2>12, <3>3
    <3> QED
      BY Zenon, <3>1, <3>2, <3>3
  <2> QED
    BY Zenon, <2>10, <2>13, <2>14 DEF TreeInv
<1> QED
  BY Zenon, <1>3, <1>4

-----------------------------------------------------------------------------
(* What the steps of exit that leave the file table alone show for the      *)
(* invariant of FilesSteps.                                                 *)

\* To set the call leaves the other local variables alone.
LEMMA SetCall ==
  ASSUME NEW r \in Locals, NEW c \in PathCalls \cup {"none", "write", "close", "exit"}
  PROVE  Are([r EXCEPT !.call = c], c, r.rest, r.ip, r.f, r.fd, r.then)
  BY ZenonT(30) DEF Locals, Are

\* A call of exit() takes a step as Shown has it.
LEMMA EnterExitShown ==
  ASSUME FilesInv, NEW p \in Procs, EnterExit(p)
  PROVE  Shown(p)
<1> DEFINE r == [NoLocals EXCEPT !.call = "exit"]
<1>1. /\ pc[p] = "user" /\ p # initproc
      /\ loc' = [loc EXCEPT ![p] = r] /\ pc' = [pc EXCEPT ![p] = "exit"]
      /\ UNCHANGED <<dinode, rc, ilock, file, ofile, cwd, outstanding, lostRefs, lostOps>>
  BY DEF EnterExit, At, Goto, history
<1>2. Types /\ PlaceOK(p) /\ ExitOK(p) /\ CwdOK(p)
  BY Zenon DEF FilesInv, ProcessesOK
<1>3. /\ loc[p].ip = None /\ loc[p].then \notin {"set_cwd", "exited"}
      /\ loc[p].call # "exit" /\ cwd[p] # None /\ cwd[p] \in Inums \cup {None}
  BY <1>1, <1>2 DEF PlaceOK, LocalsOK, ExitOK, CwdOK, Place, PlaceAt, Waits, HasIp,
         Types
<1>4. /\ r.ip = None /\ r.call = "exit" /\ r.then = "user" /\ r.fd = None /\ r \in Locals
      /\ "exit" \in Labels
  <2>1. /\ NoLocals.ip = None /\ NoLocals.then = "user" /\ NoLocals.fd = None
        /\ "exit" \in PathCalls \cup {"none", "write", "close", "exit"} /\ "exit" \in Labels
    BY DEF NoLocals, Labels
  <2> QED
    BY Zenon, <2>1, NoLocalsTyped, SetCall DEF Are
<1> HIDE DEF r
<1>5. Moved(p, "exit", r, cwd[p])
  <2>1. cwd' = [cwd EXCEPT ![p] = cwd[p]]
    BY <1>1, <1>2 DEF Types
  <2> QED
    BY Zenon, <1>1, <1>2, <2>1 DEF Moved, Types
<1>6. Steady
  BY Zenon, <1>1, <1>2 DEF Steady, StillTyped, Types
<1>7. /\ pc'[p] = "exit" /\ loc'[p] = r /\ cwd'[p] = cwd[p] /\ Place(p)' = "exit"
  <2>1. pc'[p] = "exit" /\ loc'[p] = r /\ cwd'[p] = cwd[p]
    BY <1>1, <1>2 DEF Types
  <2> QED
    BY <2>1 DEF Place, PlaceAt, Waits
<1>8. LocalsOK("exit", r)
  BY ZenonT(30), <1>4 DEF LocalsOK, PlaceAt, Waits, HasIp
<1>9. ExitOK(p)' /\ CwdOK(p)'
  BY ZenonT(30), <1>1, <1>3, <1>4, <1>7 DEF ExitOK, CwdOK
<1>10. QuietFor(p)
  BY ZenonT(30), <1>1, <1>3, <1>4, <1>7 DEF QuietFor, Excused
<1>11. RefersRight(p)
  <2>1. CwdAt(p)' = cwd[p] /\ CwdAt(p) = cwd[p]
    BY ZenonT(30), <1>3, <1>4, <1>7 DEF CwdAt
  <2> QED
    BY ZenonT(30), <1>1, <1>2, <1>3, <1>4, <1>7, <2>1, RefersSame
<1>12. OpsRight(p)
  BY ZenonT(30), <1>1, <1>2, <1>7, OpsSame DEF Busy, Outside
<1> QED
  BY Zenon, <1>3, <1>4, <1>5, <1>6, <1>8, <1>9, <1>10, <1>11, <1>12, SteadyShown

\* The inode of a file that exit or close has closed is put.
LEMMA PutFileShown ==
  ASSUME FilesInv, NEW p \in Procs, PutFile(p)
  PROVE  Shown(p)
<1>1. pc[p] = "put_file" /\ UNCHANGED <<ilock, file, ofile, cwd, outstanding, lostRefs, lostOps>>
  BY DEF PutFile, At, history
<1>2. Types /\ PlaceOK(p) /\ ExitOK(p) /\ CwdOK(p)
  BY Zenon DEF FilesInv, ProcessesOK
<1>3. CASE loc[p].call # "exit"
  <2>1. ilock' \in [Inums -> Procs \cup {None}]
    BY Zenon, <1>1, <1>2 DEF Types
  <2>2. PutAndEnd(p, loc[p].ip, "user")
    BY ZenonT(30), <1>3 DEF PutFile
  <2> QED
    BY Zenon, <1>1, <1>3, <2>1, <2>2, PutInodeShown
<1>4. CASE loc[p].call = "exit"
  <2> DEFINE r == [loc[p] EXCEPT !.then = "exit", !.ip = None]
  <2>1. /\ loc[p].ip \in Inums /\ loc[p].then \notin {"set_cwd", "exited"}
        /\ p # initproc /\ cwd[p] # None /\ cwd[p] \in Inums \cup {None} /\ loc[p] \in Locals
    BY Zenon, <1>1, <1>2, <1>4
       DEF PlaceOK, LocalsOK, CwdOK, Place, PlaceAt, Waits, HasIp, Types, Locals
  <2>2. /\ pc' = [pc EXCEPT ![p] = "end_op"] /\ loc' = [loc EXCEPT ![p] = r]
        /\ rc' = Put(rc, loc[p].ip) /\ dinode' = PutDisk(rc, loc[p].ip)
    BY Zenon, <1>4 DEF PutFile, PutAndEnd, Goto
  <2>3. dinode' = dinode
    BY Zenon, <2>1, <2>2, PutDiskSame
  <2>4. "exit" \in Labels /\ "end_op" \in Labels /\ None \in Inums \cup {None}
    BY DEF Labels
  <2>5. Are(r, loc[p].call, loc[p].rest, None, loc[p].f, loc[p].fd, "exit")
    BY Zenon, <2>1, <2>4, SetThenIp
  <2> HIDE DEF r
  <2>6. /\ r \in Locals /\ r.call = "exit" /\ r.ip = None /\ r.then = "exit"
        /\ r.fd = loc[p].fd
    BY ZenonT(30), <1>4, <2>5 DEF Are
  <2>7. rc' \in [Inums -> Int] /\ \A j \in Inums : rc'[j] = rc[j] - Is(loc[p].ip, j)
    BY <1>2, <2>1, <2>2, GetTyped
  <2>8. Moved(p, "end_op", r, cwd[p])
    <3>1. cwd' = [cwd EXCEPT ![p] = cwd[p]]
      BY <1>1, <1>2 DEF Types
    <3> QED
      BY Zenon, <1>1, <1>2, <2>2, <3>1 DEF Moved, Types
  <2>9. Steady
    BY Zenon, <1>1, <1>2, <2>3, <2>7 DEF Steady, StillTyped, Types
  <2>10. pc'[p] = "end_op" /\ loc'[p] = r /\ cwd'[p] = cwd[p] /\ Place(p)' = "exit"
    <3>1. pc'[p] = "end_op" /\ loc'[p] = r
      BY ZenonT(30), <1>2, <2>2 DEF Types
    <3> QED
      BY ZenonT(30), <1>1, <2>6, <3>1 DEF Place, PlaceAt, Waits
  <2>11. LocalsOK("end_op", r)
    BY ZenonT(30), <2>6 DEF LocalsOK, PlaceAt, Waits, HasIp
  <2>12. ExitOK(p)' /\ CwdOK(p)'
    BY ZenonT(30), <2>1, <2>6, <2>10 DEF ExitOK, CwdOK
  <2>13. QuietFor(p)
    BY ZenonT(30), <1>1, <1>4, <2>6, <2>10 DEF QuietFor, Excused
  <2>14. RefersRight(p)
    <3>1. CwdAt(p)' = cwd[p] /\ CwdAt(p) = cwd[p]
      BY ZenonT(30), <2>1, <2>6, <2>10 DEF CwdAt
    <3> QED
      BY ZenonT(30), <1>1, <1>2, <2>6, <2>7, <2>10, <3>1, RefersDrop
  <2>15. OpsRight(p)
    BY ZenonT(30), <1>1, <1>2, <2>10, OpsSame DEF Busy, Outside
  <2> QED
    BY ZenonT(30), <2>1, <2>4, <2>6, <2>8, <2>9, <2>11, <2>12, <2>13, <2>14, <2>15,
       SteadyShown
<1> QED
  BY ZenonT(30), <1>3, <1>4

\* exit puts the working directory.
LEMMA ExitPutCwdShown ==
  ASSUME FilesInv, NEW p \in Procs, ExitPutCwd(p)
  PROVE  Shown(p)
<1> DEFINE r == [loc[p] EXCEPT !.then = "exited", !.ip = None]
<1>1. pc[p] = "put_cwd" /\ UNCHANGED <<ilock, file, ofile, cwd, outstanding, lostRefs, lostOps>>
  BY ZenonT(30) DEF ExitPutCwd, At, history
<1>2. Types /\ PlaceOK(p) /\ ExitOK(p) /\ CwdOK(p)
  BY Zenon DEF FilesInv, ProcessesOK
<1>3. Place(p) = "put_cwd" /\ loc[p].call = "exit" /\ loc[p].fd = None
      /\ \A fd \in Fds : ofile[p][fd] = None
  BY ZenonT(30), <1>1, <1>2 DEF ExitOK, Place, PlaceAt, Waits
<1>4. /\ loc[p].ip = None /\ loc[p].then \notin {"set_cwd", "exited"}
      /\ p # initproc /\ cwd[p] \in Inums /\ loc[p] \in Locals
  BY Zenon, <1>1, <1>2, <1>3
     DEF PlaceOK, LocalsOK, CwdOK, Place, PlaceAt, Waits, HasIp, Types, Locals
<1>5. /\ pc' = [pc EXCEPT ![p] = "end_op"] /\ loc' = [loc EXCEPT ![p] = r]
      /\ rc' = Put(rc, cwd[p]) /\ dinode' = PutDisk(rc, cwd[p])
  BY Zenon DEF ExitPutCwd, PutAndEnd, Goto
<1>6. dinode' = dinode
  BY Zenon, <1>4, <1>5, PutDiskSame
<1>7. "exited" \in Labels /\ "end_op" \in Labels /\ None \in Inums \cup {None}
  BY DEF Labels
<1>8. Are(r, loc[p].call, loc[p].rest, None, loc[p].f, loc[p].fd, "exited")
  BY Zenon, <1>4, <1>7, SetThenIp
<1> HIDE DEF r
<1>9. r \in Locals /\ r.call = "exit" /\ r.ip = None /\ r.then = "exited" /\ r.fd = None
  BY ZenonT(30), <1>3, <1>8 DEF Are
<1>10. rc' \in [Inums -> Int] /\ \A j \in Inums : rc'[j] = rc[j] - Is(cwd[p], j)
  BY ZenonT(30), <1>2, <1>4, <1>5, GetTyped
<1>11. Moved(p, "end_op", r, cwd[p])
  <2>1. cwd' = [cwd EXCEPT ![p] = cwd[p]]
    BY <1>1, <1>2 DEF Types
  <2> QED
    BY ZenonT(30), <1>1, <1>2, <1>5, <2>1 DEF Moved, Types
<1>12. Steady
  BY ZenonT(30), <1>1, <1>2, <1>6, <1>10 DEF Steady, StillTyped, Types
<1>13. pc'[p] = "end_op" /\ loc'[p] = r /\ cwd'[p] = cwd[p] /\ Place(p)' = "exited"
  <2>1. pc'[p] = "end_op" /\ loc'[p] = r
    BY ZenonT(30), <1>2, <1>5 DEF Types
  <2> QED
    BY ZenonT(30), <1>1, <1>9, <2>1 DEF Place, PlaceAt, Waits
<1>14. LocalsOK("end_op", r)
  BY ZenonT(30), <1>9 DEF LocalsOK, PlaceAt, Waits, HasIp
<1>15. ExitOK(p)' /\ CwdOK(p)'
  BY ZenonT(30), <1>1, <1>3, <1>4, <1>9, <1>13, NoneIsNone DEF ExitOK, CwdOK
<1>16. QuietFor(p)
  BY ZenonT(30), <1>1, <1>3, <1>9, <1>13 DEF QuietFor, Excused
<1>17. RefersRight(p)
  <2>1. CwdAt(p)' = None /\ CwdAt(p) = cwd[p]
    BY <1>4, <1>9, <1>13 DEF CwdAt
  <2> QED
    BY ZenonT(30), <1>1, <1>2, <1>4, <1>9, <1>10, <1>13, <2>1, RefersDrop
<1>18. OpsRight(p)
  BY ZenonT(30), <1>1, <1>2, <1>13, OpsSame DEF Busy, Outside
<1> QED
  BY Zenon, <1>4, <1>7, <1>9, <1>11, <1>12, <1>14, <1>15, <1>16, <1>17, <1>18,
     SteadyShown

\* The end of exit() takes a step as Shown has it.
LEMMA ExitedShown ==
  ASSUME FilesInv, NEW p \in Procs, Exited(p)
  PROVE  Shown(p)
<1>1. /\ pc[p] = "exited" /\ cwd' = [cwd EXCEPT ![p] = None]
      /\ loc' = [loc EXCEPT ![p] = NoLocals] /\ pc' = [pc EXCEPT ![p] = "unused"]
      /\ UNCHANGED <<dinode, rc, ilock, file, ofile, outstanding, lostRefs, lostOps>>
  BY ZenonT(30) DEF Exited, At, Goto, history
<1>2. Types /\ PlaceOK(p) /\ ExitOK(p) /\ CwdOK(p)
  BY Zenon DEF FilesInv, ProcessesOK
<1>3. /\ Place(p) = "exited" /\ loc[p].call = "exit" /\ loc[p].fd = None
      /\ \A fd \in Fds : ofile[p][fd] = None
  BY ZenonT(30), <1>1, <1>2 DEF ExitOK, Place, PlaceAt, Waits
<1>4. loc[p].ip = None /\ loc[p].then = "exited" /\ p # initproc
  BY Zenon, <1>1, <1>2, <1>3 DEF PlaceOK, LocalsOK, CwdOK, Place, PlaceAt, Waits, HasIp
<1>5. /\ NoLocals.ip = None /\ NoLocals.call = "none" /\ NoLocals.then = "user"
      /\ "unused" \in Labels /\ None \in Inums \cup {None}
  BY DEF Labels, NoLocals
<1>6. Moved(p, "unused", NoLocals, None)
  BY Zenon, <1>1, <1>2 DEF Moved, Types
<1>7. Steady
  BY ZenonT(30), <1>1, <1>2 DEF Steady, StillTyped, Types
<1>8. pc'[p] = "unused" /\ loc'[p] = NoLocals /\ cwd'[p] = None /\ Place(p)' = "unused"
  <2>1. pc'[p] = "unused" /\ loc'[p] = NoLocals /\ cwd'[p] = None
    BY ZenonT(30), <1>1, <1>2 DEF Types
  <2> QED
    BY ZenonT(30), <2>1 DEF Place, PlaceAt, Waits
<1>9. LocalsOK("unused", NoLocals)
  BY ZenonT(30), <1>5 DEF LocalsOK, PlaceAt, Waits, HasIp
<1>10. ExitOK(p)' /\ CwdOK(p)'
  BY ZenonT(30), <1>1, <1>3, <1>4, <1>5, <1>8 DEF ExitOK, CwdOK
<1>11. QuietFor(p)
  BY ZenonT(30), <1>1, <1>3, <1>5, <1>8 DEF QuietFor, Excused
<1>12. RefersRight(p)
  <2>1. CwdAt(p)' = None /\ CwdAt(p) = None
    BY <1>4, <1>5, <1>8 DEF CwdAt
  <2> QED
    BY ZenonT(30), <1>1, <1>2, <1>4, <1>5, <1>8, <2>1, RefersSame
<1>13. OpsRight(p)
  BY ZenonT(30), <1>1, <1>2, <1>8, OpsSame DEF Busy, Outside
<1> QED
  BY ZenonT(30), <1>5, <1>6, <1>7, <1>9, <1>10, <1>11, <1>12, <1>13, NoLocalsTyped,
     SteadyShown
=============================================================================
