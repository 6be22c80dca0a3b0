---------------------------- MODULE FilesSteps ----------------------------
(***************************************************************************)
(* The inductive invariant of the file layer, and what each step of a      *)
(* process shows for it: that everybody's place in the code stays as the   *)
(* invariant says, and how the step moves references to inodes, references *)
(* to files and operations.  FilesProofs counts them.                      *)
(***************************************************************************)
EXTENDS Files, TLAPS

-----------------------------------------------------------------------------
(* The inductive invariant.                                                 *)

DInode == [type: {"free", "dir", "file", "dev"}, num_links: Nat,
           entries: [AllNames -> Inums \cup {None}]]

File == [ref: Int, type: {"NONE", "INODE"}, ip: Inums \cup {None}]

Locals == [call: PathCalls \cup {"none", "write", "close", "exit"}, abs: BOOLEAN,
           rest: Seq(AllNames), ip: Inums \cup {None}, f: Files \cup {None},
           fd: Fds \cup {None}, then: Labels]

\* The variables have their types; that the counts are natural numbers follows
\* from what they count.
Types ==
    /\ dinode \in [Inums -> DInode]
    /\ rc \in [Inums -> Int] /\ lostRefs \in [Inums -> Nat]
    /\ ilock \in [Inums -> Procs \cup {None}]
    /\ file \in [Files -> File]
    /\ ofile \in [Procs -> [Fds -> Files \cup {None}]]
    /\ cwd \in [Procs -> Inums \cup {None}]
    /\ pc \in [Procs -> Labels]
    /\ loc \in [Procs -> Locals]
    /\ outstanding \in Int /\ outstanding <= MaxOps /\ lostOps \in Nat

\* Where a process is, when its waits in begin_op and end_op are left out.
Waits == {"begin_op", "end_op", "ending"}

PlaceAt(l, r) == IF l \in Waits THEN r.then ELSE l

Place(p) == PlaceAt(pc[p], loc[p])

\* What the locals r of a process are when its label is l.
HasIp == {"walk", "create", "exists", "new", "check", "opened", "made", "open", "stat",
          "chdir", "exec", "install", "set_cwd", "put_file"}

LocalsOK(l, r) ==
    /\ l \notin {"creat", "mkdir", "mknod"}
    /\ l = "begin_op" => r.then \in {"namex", "write", "put_file", "put_cwd"}
    /\ l \in {"end_op", "ending"} => r.then \in {"user", "install", "set_cwd", "exit", "exited"}
    /\ r.ip # None <=> PlaceAt(l, r) \in HasIp
    /\ r.then = "set_cwd" <=> PlaceAt(l, r) = "set_cwd"
    /\ r.then = "exited" <=> PlaceAt(l, r) = "exited"
    /\ PlaceAt(l, r) \in {"namex", "walk", "create", "exists", "new"} => r.call \in PathCalls
    /\ PlaceAt(l, r) \in {"create", "exists", "new"} => WantsParent(r.call) /\ r.rest # <<>>

PlaceOK(p) == LocalsOK(pc[p], loc[p])

\* What a process that closes files or exits has left to close.
ExitOK(p) ==
    /\ Place(p) \in {"exit", "put_cwd", "exited"} => loc[p].call = "exit"
    /\ loc[p].call = "exit" =>
          Place(p) \in {"exit", "put_cwd", "exited", "fileclose", "put_file"}
    /\ Place(p) = "fileclose" =>
          /\ loc[p].call \in {"exit", "close"} /\ loc[p].f \in Files
          /\ loc[p].call = "exit" => loc[p].fd \in Fds /\ ofile[p][loc[p].fd] = loc[p].f
    /\ Place(p) \in {"put_cwd", "exited"} => loc[p].fd = None
    /\ Place(p) \in {"put_cwd", "exited", "unused"} => \A fd \in Fds : ofile[p][fd] = None

\* Which processes have a working directory.
CwdOK(p) ==
    /\ Place(p) = "unused" => cwd[p] = None /\ p # initproc
    /\ p # initproc /\ Place(p) # "unused" => cwd[p] # None
    /\ loc[p].call = "exit" => p # initproc
    /\ Place(p) = "set_cwd" => cwd[p] # None

\* create works in a directory d, and the name it found taken stays taken.
LookAt(d, l, r) ==
    /\ l \in {"create", "exists", "new"} => d[r.ip].type = "dir"
    /\ l = "exists" => d[r.ip].entries[Head(r.rest)] # None

LookOK(p) == LookAt(dinode, pc[p], loc[p])

ProcessesOK == \A p \in Procs : PlaceOK(p) /\ ExitOK(p) /\ CwdOK(p) /\ LookOK(p)

\* An inode has links unless it is free.
DiskInv ==
    \A i \in Inums :
        /\ dinode[i].type # "free" => dinode[i].num_links > 0
        /\ dinode[i].type = "free" => dinode[i] = FreeInode

\* A file has an inode only while it is referred to.
FileInv ==
    \A f \in Files :
        /\ file[f].ref = 0 => file[f].type = "NONE"
        /\ file[f].type = "INODE" => file[f].ip # None

\* A file that is still to get its inode has no other descriptors than those of
\* the process that opens it.
PendInv ==
    \A p \in Procs : Place(p) = "install" =>
        /\ loc[p].f \in Files /\ file[loc[p].f].type = "NONE"
        /\ BeingClosed(loc[p].f) = {} /\ Descriptors(loc[p].f) # {}
        /\ \A x \in Descriptors(loc[p].f) : x[1] = p

FilesInv ==
    /\ Types /\ ProcessesOK /\ DiskInv /\ FileInv /\ PendInv
    /\ RefExact /\ RcExact /\ OpsExact

Is(a, b) == IF a = b THEN 1 ELSE 0

-----------------------------------------------------------------------------
(* What a step of process p has to show.                                    *)

OthersKeep(p) ==
    \A q \in Procs \ {p} :
        pc'[q] = pc[q] /\ loc'[q] = loc[q] /\ ofile'[q] = ofile[q] /\ cwd'[q] = cwd[q]

\* Directories stay directories and keep their names.
Grows ==
    \A i \in Inums : dinode[i].type = "dir" =>
        /\ dinode'[i].type = "dir"
        /\ \A n \in AllNames : dinode[i].entries[n] # None => dinode'[i].entries[n] # None

\* The inodes that a working directory and an open file refer to.
CwdAt(p) == IF loc[p].then \in {"set_cwd", "exited"} THEN None ELSE cwd[p]

FileAt(f) == IF f \in Files /\ file[f].type = "INODE" THEN file[f].ip ELSE None

\* A step in which only process p and file f change what they refer to: the
\* count moves as they do.
RcMoves(p, f) ==
    /\ \A q \in Procs \ {p} : CwdAt(q)' = CwdAt(q) /\ loc'[q].ip = loc[q].ip
    /\ \A g \in Files \ {f} : FileAt(g)' = FileAt(g)
    /\ \A i \in Inums : rc[i] \in Int /\ lostRefs[i] \in Int /\ lostRefs'[i] \in Int
    /\ \A i \in Inums :
          rc'[i] = rc[i] + Is(CwdAt(p)', i) - Is(CwdAt(p), i)
                     + Is(loc'[p].ip, i) - Is(loc[p].ip, i)
                     + Is(FileAt(f)', i) - Is(FileAt(f), i)
                     + lostRefs'[i] - lostRefs[i]

\* The descriptor that exit has closed and not yet cleared.
Excused(p) == IF loc[p].call = "exit" /\ pc[p] # "fileclose" THEN loc[p].fd ELSE None

\* The operations that p has in progress.
Outside == {"unused", "user", "begin_op", "ending", "install", "set_cwd", "fileclose",
            "exit", "exited"}

Busy(l) == IF l \in Outside THEN 0 ELSE 1

\* A step that opens and closes nothing.
QuietFor(p) ==
    /\ Excused(p)' = Excused(p) /\ (pc'[p] = "fileclose" <=> pc[p] = "fileclose")
    /\ pc[p] = "fileclose" => loc'[p] = loc[p]
    /\ Place(p)' = "install" => Place(p) = "install" /\ loc'[p].f = loc[p].f

Quiet == file' = file /\ ofile' = ofile /\ \A p \in Procs : QuietFor(p)

\* The counts move as p does.
RefersRight(p) ==
    \A i \in Inums :
        rc'[i] = rc[i] + Is(CwdAt(p)', i) - Is(CwdAt(p), i)
                   + Is(loc'[p].ip, i) - Is(loc[p].ip, i) + lostRefs'[i] - lostRefs[i]

OpsRight(p) ==
    outstanding' = outstanding + Busy(pc'[p]) - Busy(pc[p])
                     + lostOps' - lostOps

-----------------------------------------------------------------------------
(* Steps that open and close files.                                         *)

\* The file that a descriptor, and a close in progress, of a process count for.
RefAt(p, d) == IF d \in Fds /\ d # Excused(p) THEN ofile[p][d] ELSE None

ClosesAt(p) == IF pc[p] = "fileclose" /\ loc[p].call = "close" THEN loc[p].f ELSE None

\* A step in which only descriptor d and the close of process p change what they
\* refer to: the counts of the files move as they do.
RefMoves(p, d) ==
    /\ \A e \in Fds \ {d} : RefAt(p, e)' = RefAt(p, e)
    /\ \A g \in Files :
          file'[g].ref = file[g].ref + Is(RefAt(p, d)', g) - Is(RefAt(p, d), g)
                           + Is(ClosesAt(p)', g) - Is(ClosesAt(p), g)

\* A file that is still to get its inode is used by the process that opens it and
\* by no other.
UsesFile(p, f) == ClosesAt(p) = f \/ \E e \in Fds : RefAt(p, e) = f

PendFor(p) ==
    Place(p) = "install" =>
        /\ loc[p].f \in Files /\ file[loc[p].f].type = "NONE"
        /\ BeingClosed(loc[p].f) = {} /\ Descriptors(loc[p].f) # {}
        /\ \A x \in Descriptors(loc[p].f) : x[1] = p

\* A step of p that starts to use, or gives another type to, only files that are
\* free or that it or a process that opens nothing uses.
Brings(p) ==
    \A f \in Files :
        UsesFile(p, f)' \/ file'[f].type # file[f].type =>
            \/ file[f].ref = 0
            \/ \E u \in Procs : (u = p \/ Place(u) # "install") /\ UsesFile(u, f)

\* fork: every descriptor of p is one of q as well.
FdsOf(p, g) == {fd \in Fds : ofile[p][fd] = g}

Shares(p, q) ==
    /\ \A e \in Fds : RefAt(q, e) = None /\ RefAt(q, e)' = ofile[p][e]
    /\ ClosesAt(q) = None /\ ClosesAt(q)' = None
    /\ \A g \in Files : file'[g].ref = file[g].ref + Cardinality(FdsOf(p, g))

\* What counting tells the steps of a state with exact counts: no count is
\* negative, a file without references is used by nobody, a file that open has
\* taken and not yet set up is used by that open alone; descriptors and subsets of
\* the inodes can be counted one by one; and Min returns an element.
Counting ==
    /\ \A f \in Files : file[f].ref \in Nat
    /\ \A f \in Files : file[f].ref = 0 => \A u \in Procs : ~UsesFile(u, f)
    /\ \A q \in Procs :
          Place(q) = "install" =>
            /\ loc[q].f \in Files /\ file[loc[q].f].type = "NONE"
            /\ file[loc[q].f].ref # 0 /\ UsesFile(q, loc[q].f)
            /\ \A u \in Procs : ClosesAt(u) # loc[q].f
            /\ \A u \in Procs : UsesFile(u, loc[q].f) => u = q
    /\ \A q \in Procs, f \in Files : Cardinality(FdsOf(q, f)) \in Nat
    /\ Cardinality({}) = 0 /\ \A x : Cardinality({x}) = 1
    /\ \A S \in SUBSET Inums :
          /\ Cardinality(S) \in Nat
          /\ \A x \in Inums \ S : Cardinality(S \cup {x}) = Cardinality(S) + 1
    /\ \A S \in SUBSET Nat : S # {} => Min(S) \in S

\* What is shown of each step.  The system stops; or process p takes a step that
\* leaves the file table and everybody's use of it alone; or one that does not.
Stopped ==
    UNCHANGED <<dinode, rc, ilock, file, ofile, cwd, outstanding, pc, loc, lostRefs, lostOps>>
Placed(p) ==
    /\ Types' /\ OthersKeep(p)
    /\ PlaceOK(p)' /\ ExitOK(p)' /\ CwdOK(p)' /\ LookOK(p)' /\ DiskInv' /\ Grows
    /\ OpsRight(p)
Kept(p) == Placed(p) /\ Quiet /\ RefersRight(p)
Filed(p) ==
    /\ Placed(p) /\ FileInv' /\ Brings(p) /\ PendFor(p)'
    /\ (\E d : RefMoves(p, d)) /\ (\E f : RcMoves(p, f))
Shown(p) == Stopped \/ Kept(p) \/ Filed(p)

\* fork gives its child q a place, and a share of every file of p.
Forked(p, q) ==
    /\ Placed(q) /\ FileInv' /\ Brings(q) /\ PendFor(q)'
    /\ Shares(p, q) /\ RcMoves(q, None)

\* None is no member of anything.
LEMMA NoneIsNone ==
  None \notin Inums /\ None \notin Files /\ None \notin Fds /\ None \notin Procs
  BY FilesAssumption DEF None, Inums, Files, Fds

\* The root directory is one of the inodes.
LEMMA RootIsAnInode == ROOT_INODE_NO \in Inums
  BY FilesAssumption DEF ROOT_INODE_NO, Inums

\* No reference count of a file is negative.
LEMMA RefsNat == Counting => \A f \in Files : file[f].ref \in Nat
  BY Zenon DEF Counting

\* The descriptors of a file are the entries of ofile that refer to it, but for
\* the one exit() has just closed and not yet cleared.
LEMMA DescriptorsTold ==
  \A f : Descriptors(f) = {x \in Procs \X Fds : ofile[x[1]][x[2]] = f /\ x[2] # Excused(x[1])}
<1> SUFFICES ASSUME NEW f, NEW p \in Procs, NEW fd \in Fds
    PROVE  ~(loc[p].call = "exit" /\ loc[p].fd = fd /\ pc[p] # "fileclose")
             <=> fd # Excused(p)
  BY DEF Descriptors
<1>1. fd # None
  BY Zenon, NoneIsNone
<1> QED
  BY Zenon, <1>1 DEF Excused

\* A process that a step leaves alone.
LEMMA QuietOthers ==
  ASSUME NEW p \in Procs, OthersKeep(p), NEW q \in Procs, q # p
  PROVE  QuietFor(q)
<1>1. pc'[q] = pc[q] /\ loc'[q] = loc[q]
  BY Zenon DEF OthersKeep
<1> QED
  BY Zenon, <1>1 DEF QuietFor, Excused, Place

\* The system stops, because what the code does next is undefined.
LEMMA StopShown ==
  ASSUME NEW p,
         UNCHANGED <<dinode, rc, ilock, file, ofile, cwd, outstanding, pc, loc, lostRefs,
                     lostOps>>
  PROVE  Shown(p)
  BY Zenon DEF Shown, Stopped

\* A step that leaves the file table and everybody's use of it alone.
LEMMA QuietShown ==
  ASSUME Types', NEW p \in Procs, OthersKeep(p), Quiet,
         PlaceOK(p)', ExitOK(p)', CwdOK(p)', LookOK(p)', DiskInv', Grows,
         RefersRight(p), OpsRight(p)
  PROVE  Shown(p)
  BY Zenon DEF Shown, Kept, Placed

\* A step of a system call other than close and exit.
LEMMA CallShown ==
  ASSUME FilesInv, Types', NEW p \in Procs, OthersKeep(p),
         file' = file, ofile' = ofile, cwd' = cwd,
         loc[p].call # "exit", loc'[p].call # "exit", pc[p] # "fileclose",
         Place(p) # "unused",
         Place(p)' \notin {"exit", "put_cwd", "exited", "fileclose", "unused", "install"},
         Place(p)' = "set_cwd" => cwd[p] # None,
         PlaceOK(p)', LookOK(p)', DiskInv', Grows, RefersRight(p), OpsRight(p)
  PROVE  Shown(p)
<1>1. ExitOK(p)'
  BY DEF ExitOK
<1>2. CwdOK(p)'
  <2>1. CwdOK(p)
    BY Zenon DEF FilesInv, ProcessesOK
  <2> QED
    BY <2>1 DEF CwdOK
<1>3. Quiet
  <2>1. Excused(p)' = Excused(p)
    BY Zenon DEF Excused
  <2>2. pc'[p] # "fileclose"
    BY DEF Place, PlaceAt, Waits
  <2>3. QuietFor(p)
    BY <2>1, <2>2 DEF QuietFor
  <2> QED
    BY Zenon, <2>3, QuietOthers DEF Quiet
<1> QED
  BY Zenon, <1>1, <1>2, <1>3, QuietShown

-----------------------------------------------------------------------------
(* The operations of the log and the paths.                                 *)

\* inode_put never frees an inode: no call takes the last link away.
LEMMA PutDiskSame ==
  ASSUME FilesInv, NEW r, NEW i \in Inums
  PROVE  PutDisk(r, i) = dinode
<1>1. CASE PutsLast(r, i)
  <2>1. dinode[i] = FreeInode
    BY <1>1 DEF PutsLast, FilesInv, DiskInv
  <2>2. [dinode EXCEPT ![i] = FreeInode] = dinode
    BY <2>1 DEF FilesInv, Types
  <2> QED
    BY <1>1, <2>2 DEF PutDisk
<1>2. CASE ~PutsLast(r, i)
  BY <1>2 DEF PutDisk
<1> QED
  BY <1>1, <1>2

\* A process that starts to wait or stops waiting for the log stays at its place.
LEMMA PlaceKept ==
  ASSUME NEW p \in Procs, dinode' = dinode, loc' = loc, ofile' = ofile, cwd' = cwd,
         PlaceOK(p), ExitOK(p), CwdOK(p), LookOK(p),
         \/ pc[p] = "begin_op" /\ pc'[p] = loc[p].then
         \/ pc[p] = "end_op" /\ pc'[p] = "ending"
         \/ pc[p] \in {"end_op", "ending"} /\ pc'[p] = loc[p].then
         \/ pc'[p] = pc[p]
  PROVE  PlaceOK(p)' /\ ExitOK(p)' /\ CwdOK(p)' /\ LookOK(p)' /\ QuietFor(p)
<1>1. Place(p)' = Place(p)
  BY DEF PlaceOK, LocalsOK, Place, PlaceAt, Waits
<1>2. PlaceOK(p)'
  BY <1>1 DEF PlaceOK, LocalsOK, Place, PlaceAt, Waits
<1>3. ExitOK(p)'
  BY Zenon, <1>1 DEF ExitOK
<1>4. CwdOK(p)'
  BY Zenon, <1>1 DEF CwdOK
<1>5. pc'[p] = "fileclose" <=> pc[p] = "fileclose"
  BY DEF PlaceOK, LocalsOK
<1>6. Excused(p)' = Excused(p)
  BY Zenon, <1>5 DEF Excused
<1>7. LookOK(p)'
  BY DEF LookOK, LookAt, PlaceOK, LocalsOK
<1> QED
  BY Zenon, <1>1, <1>2, <1>3, <1>4, <1>5, <1>6, <1>7 DEF QuietFor

\* A step that leaves the disk alone.
LEMMA DiskSame ==
  ASSUME FilesInv, dinode' = dinode
  PROVE  DiskInv' /\ Grows
  BY Zenon DEF FilesInv, DiskInv, Grows

\* begin_op() takes a step as Shown has it.
LEMMA BeginOpShown ==
  ASSUME FilesInv, NEW p \in Procs, BeginOp(p)
  PROVE  Shown(p)
<1>1. Types /\ PlaceOK(p) /\ ExitOK(p) /\ CwdOK(p) /\ LookOK(p)
  BY Zenon DEF FilesInv, ProcessesOK
<1>2. /\ pc[p] = "begin_op" /\ pc' = [pc EXCEPT ![p] = loc[p].then]
      /\ outstanding' = outstanding + 1 /\ outstanding < MaxOps
      /\ UNCHANGED <<dinode, rc, ilock, file, ofile, cwd, loc, lostRefs, lostOps>>
  BY DEF BeginOp, At, Goto, history
<1>3. pc'[p] = loc[p].then /\ \A q \in Procs \ {p} : pc'[q] = pc[q]
  BY <1>1, <1>2 DEF Types
<1>4. Types'
  BY <1>1, <1>2, FilesAssumption DEF Types, Locals
<1>5. OthersKeep(p)
  BY Zenon, <1>2, <1>3 DEF OthersKeep
<1>6. PlaceOK(p)' /\ ExitOK(p)' /\ CwdOK(p)' /\ LookOK(p)' /\ QuietFor(p)
  BY Zenon, <1>1, <1>2, <1>3, PlaceKept
<1>7. Quiet
  BY Zenon, <1>2, <1>5, <1>6, QuietOthers DEF Quiet
<1>8. RefersRight(p)
  BY <1>1, <1>2 DEF RefersRight, CwdAt, Is, Types
<1>9. OpsRight(p)
  <2>1. pc'[p] \notin Outside /\ pc[p] \in Outside
    BY <1>1, <1>2, <1>3 DEF PlaceOK, LocalsOK, Outside
  <2> QED
    BY <1>1, <1>2, <2>1 DEF OpsRight, Busy, Types
<1>10. DiskInv' /\ Grows
  BY Zenon, <1>2, DiskSame
<1> QED
  BY Zenon, <1>4, <1>5, <1>6, <1>7, <1>8, <1>9, <1>10, QuietShown

\* A process gets the label l and the locals r.
LEMMA LocalStep ==
  ASSUME Types, NEW p \in Procs, NEW l \in Labels, NEW r \in Locals,
         pc' = [pc EXCEPT ![p] = l], loc' = [loc EXCEPT ![p] = r]
  PROVE  /\ pc' \in [Procs -> Labels] /\ loc' \in [Procs -> Locals]
         /\ pc'[p] = l /\ loc'[p] = r
         /\ \A q \in Procs \ {p} : pc'[q] = pc[q] /\ loc'[q] = loc[q]
  BY DEF Types

\* The empty locals are well typed.
LEMMA NoLocalsTyped == NoLocals \in Locals
  BY DEF NoLocals, Locals, Labels

\* A step of a system call other than close and exit, to label l and locals r.
Moves(p, l, r) ==
    /\ pc' = [pc EXCEPT ![p] = l] /\ loc' = [loc EXCEPT ![p] = r]
    /\ UNCHANGED <<file, ofile, cwd, outstanding>>

StillTyped ==
    /\ dinode' \in [Inums -> DInode] /\ rc' \in [Inums -> Int] /\ lostOps' \in Nat
    /\ ilock' \in [Inums -> Procs \cup {None}] /\ lostRefs' \in [Inums -> Nat]

Calling(p) ==
    pc[p] \notin Waits \cup {"fileclose", "unused", "set_cwd", "exited"} /\ loc[p].call # "exit"

Calls(l, r) ==
    /\ LocalsOK(l, r) /\ r.call # "exit"
    /\ PlaceAt(l, r) \notin {"exit", "put_cwd", "exited", "fileclose", "unused", "install",
                            "set_cwd"}

Balanced(p, r) ==
    \A i \in Inums : rc'[i] = rc[i] + Is(r.ip, i) - Is(loc[p].ip, i)
                              + lostRefs'[i] - lostRefs[i]

DiskKept(l, r) == DiskInv' /\ Grows /\ LookAt(dinode', l, r)

OpsBalanced(p, l) == lostOps' = lostOps + Busy(pc[p]) - Busy(l)

\* A step inside a call that moves one process, keeps the counts balanced and
\* leaves the file table alone is one as Shown has it.
LEMMA StepShown ==
  ASSUME FilesInv, NEW p \in Procs, NEW l \in Labels, NEW r \in Locals,
         Moves(p, l, r), StillTyped, Calling(p), Calls(l, r), Balanced(p, r),
         OpsBalanced(p, l), DiskKept(l, r)
  PROVE  Shown(p)
<1> USE DEF Moves, StillTyped, Calling, Calls
<1>1. Types /\ PlaceOK(p)
  BY Zenon DEF FilesInv, ProcessesOK
<1>2. /\ pc' \in [Procs -> Labels] /\ loc' \in [Procs -> Locals]
      /\ pc'[p] = l /\ loc'[p] = r
      /\ \A q \in Procs \ {p} : pc'[q] = pc[q] /\ loc'[q] = loc[q]
  BY Zenon, <1>1, LocalStep
<1>3. Types'
  BY Zenon, <1>1, <1>2 DEF Types
<1>4. OthersKeep(p)
  BY Zenon, <1>2 DEF OthersKeep
<1>5. Place(p) = pc[p] /\ Place(p)' = PlaceAt(l, r) /\ PlaceOK(p)'
  BY Zenon, <1>2 DEF Place, PlaceAt, PlaceOK
<1>6. CwdAt(p)' = cwd[p] /\ CwdAt(p) = cwd[p]
  <2>1. loc[p].then \notin {"set_cwd", "exited"}
    BY Zenon, <1>1, <1>5 DEF PlaceOK, LocalsOK, Place
  <2>2. r.then \notin {"set_cwd", "exited"}
    BY Zenon DEF LocalsOK
  <2> QED
    BY Zenon, <1>2, <2>1, <2>2 DEF CwdAt
<1>7. RefersRight(p)
  BY <1>1, <1>2, <1>6 DEF RefersRight, Balanced, Is, Types
<1>8. OpsRight(p)
  BY <1>1, <1>2 DEF OpsRight, OpsBalanced, Busy, Types
<1>9. LookOK(p)' /\ DiskInv' /\ Grows
  BY Zenon, <1>2 DEF DiskKept, LookOK
<1> QED
  BY Zenon, <1>2, <1>3, <1>4, <1>5, <1>7, <1>8, <1>9, CallShown

\* A step that leaves the disk alone keeps the disk's part of the invariant when
\* the place reached agrees with the disk,
LEMMA DiskKeptSame ==
  ASSUME FilesInv, dinode' = dinode, NEW l, NEW r, LookAt(dinode, l, r)
  PROVE  DiskKept(l, r)
  BY Zenon, DiskSame DEF DiskKept

\* and at every place that says nothing of the disk.
LEMMA DiskKeptElse ==
  ASSUME FilesInv, dinode' = dinode, NEW l, NEW r, l \notin {"create", "exists", "new"}
  PROVE  DiskKept(l, r)
  BY DiskKeptSame DEF LookAt

\* Locals with some of them changed.
Are(s, c, rest, ip, f, fd, then) ==
    /\ s \in Locals /\ s.call = c /\ s.rest = rest /\ s.ip = ip /\ s.f = f /\ s.fd = fd
    /\ s.then = then

\* What assignments to the locals of a call change: ip,
LEMMA SetIp ==
  ASSUME NEW r \in Locals, NEW i \in Inums \cup {None}
  PROVE  Are([r EXCEPT !.ip = i], r.call, r.rest, i, r.f, r.fd, r.then)
  BY Zenon DEF Locals, Are

\* the place to go on at,
LEMMA SetThen ==
  ASSUME NEW r \in Locals, NEW l \in Labels
  PROVE  Are([r EXCEPT !.then = l], r.call, r.rest, r.ip, r.f, r.fd, l)
  BY Zenon DEF Locals, Are

\* both of them,
LEMMA SetThenIp ==
  ASSUME NEW r \in Locals, NEW l \in Labels, NEW i \in Inums \cup {None}
  PROVE  Are([r EXCEPT !.then = l, !.ip = i], r.call, r.rest, i, r.f, r.fd, l)
  BY Zenon DEF Locals, Are

\* both in the other order,
LEMMA SetIpThen ==
  ASSUME NEW r \in Locals, NEW i \in Inums \cup {None}, NEW l \in Labels
  PROVE  Are([r EXCEPT !.ip = i, !.then = l], r.call, r.rest, i, r.f, r.fd, l)
  BY Zenon DEF Locals, Are

\* the inode and the rest of the path,
LEMMA SetIpRest ==
  ASSUME NEW r \in Locals, NEW i \in Inums \cup {None}, NEW n \in Seq(AllNames)
  PROVE  Are([r EXCEPT !.ip = i, !.rest = n], r.call, n, i, r.f, r.fd, r.then)
  BY Zenon DEF Locals, Are

\* the file and the place to go on at,
LEMMA SetFThen ==
  ASSUME NEW r \in Locals, NEW g \in Files \cup {None}, NEW l \in Labels
  PROVE  Are([r EXCEPT !.f = g, !.then = l], r.call, r.rest, r.ip, g, r.fd, l)
  BY Zenon DEF Locals, Are

\* the descriptor and the file,
LEMMA SetFdF ==
  ASSUME NEW r \in Locals, NEW d \in Fds \cup {None}, NEW g \in Files \cup {None}
  PROVE  Are([r EXCEPT !.fd = d, !.f = g], r.call, r.rest, r.ip, g, d, r.then)
  BY Zenon DEF Locals, Are

\* the descriptor and the place to go on at.
LEMMA SetFdThen ==
  ASSUME NEW r \in Locals, NEW d \in Fds \cup {None}, NEW l \in Labels
  PROVE  Are([r EXCEPT !.fd = d, !.then = l], r.call, r.rest, r.ip, r.f, d, l)
  BY Zenon DEF Locals, Are

\* A system call with a path starts.
LEMMA EnterPathShown ==
  ASSUME FilesInv, NEW p \in Procs, NEW c \in PathCalls, NEW path \in Paths,
         EnterPath(p, c, path)
  PROVE  Shown(p)
<1> DEFINE r == [NoLocals EXCEPT !.call = c, !.abs = path.abs, !.rest = path.elems,
                                 !.then = "namex"]
<1>1. Types /\ PlaceOK(p) /\ ExitOK(p)
  BY Zenon DEF FilesInv, ProcessesOK
<1>2. /\ pc[p] = "user" /\ pc' = [pc EXCEPT ![p] = "begin_op"]
      /\ loc' = [loc EXCEPT ![p] = r]
      /\ UNCHANGED <<dinode, rc, ilock, file, ofile, cwd, outstanding, lostRefs, lostOps>>
  BY DEF EnterPath, At, Goto, history
<1>3. r \in Locals /\ "begin_op" \in Labels
  BY Zenon, FilesAssumption DEF NoLocals, Locals, Labels
<1>4. r.ip = None /\ r.call = c /\ r.then = "namex" /\ c # "exit"
  BY DEF NoLocals, PathCalls
<1> HIDE DEF r
<1>5. loc[p].ip = None /\ Calling(p)
  BY <1>1, <1>2 DEF PlaceOK, LocalsOK, ExitOK, HasIp, Place, PlaceAt, Waits, Calling
<1>6. Calls("begin_op", r)
  BY <1>4 DEF Calls, LocalsOK, PlaceAt, Waits, HasIp
<1>7. Balanced(p, r)
  BY <1>1, <1>2, <1>4, <1>5 DEF Balanced, Is, Types
<1>8. OpsBalanced(p, "begin_op")
  BY <1>1, <1>2 DEF OpsBalanced, Busy, Outside, Types
<1>9. Moves(p, "begin_op", r) /\ StillTyped
  BY Zenon, <1>1, <1>2 DEF Moves, StillTyped, Types
<1>10. DiskKept("begin_op", r)
  BY <1>2, DiskKeptElse
<1> QED
  BY Zenon, <1>3, <1>5, <1>6, <1>7, <1>8, <1>9, <1>10, StepShown

\* write starts.
LEMMA EnterWriteShown ==
  ASSUME FilesInv, NEW p \in Procs, NEW fd \in Fds, EnterWrite(p, fd)
  PROVE  Shown(p)
<1> DEFINE r == [NoLocals EXCEPT !.call = "write", !.f = ofile[p][fd], !.then = "write"]
<1>1. Types /\ PlaceOK(p) /\ ExitOK(p)
  BY Zenon DEF FilesInv, ProcessesOK
<1>2. /\ pc[p] = "user" /\ pc' = [pc EXCEPT ![p] = "begin_op"]
      /\ loc' = [loc EXCEPT ![p] = r]
      /\ UNCHANGED <<dinode, rc, ilock, file, ofile, cwd, outstanding, lostRefs, lostOps>>
  BY DEF EnterWrite, At, Goto, history
<1>3. r \in Locals /\ "begin_op" \in Labels
  <2>1. ofile[p][fd] \in Files \cup {None}
    BY <1>1 DEF Types
  <2> QED
    BY Zenon, <2>1, NoLocalsTyped DEF Locals, Labels
<1>4. r.ip = None /\ r.call = "write" /\ r.then = "write"
  BY DEF NoLocals
<1> HIDE DEF r
<1>5. loc[p].ip = None /\ Calling(p)
  BY <1>1, <1>2 DEF PlaceOK, LocalsOK, ExitOK, HasIp, Place, PlaceAt, Waits, Calling
<1>6. Calls("begin_op", r)
  BY <1>4 DEF Calls, LocalsOK, PlaceAt, Waits, HasIp
<1>7. Balanced(p, r)
  BY <1>1, <1>2, <1>4, <1>5 DEF Balanced, Is, Types
<1>8. OpsBalanced(p, "begin_op")
  BY <1>1, <1>2 DEF OpsBalanced, Busy, Outside, Types
<1>9. Moves(p, "begin_op", r) /\ StillTyped
  BY Zenon, <1>1, <1>2 DEF Moves, StillTyped, Types
<1>10. DiskKept("begin_op", r)
  BY <1>2, DiskKeptElse
<1> QED
  BY Zenon, <1>3, <1>5, <1>6, <1>7, <1>8, <1>9, <1>10, StepShown

\* write() takes a step as Shown has it.
LEMMA WriteShown ==
  ASSUME FilesInv, NEW p \in Procs, Write(p)
  PROVE  Shown(p)
<1> DEFINE r == [loc[p] EXCEPT !.then = "user"]
<1>1. Types /\ PlaceOK(p) /\ ExitOK(p)
  BY Zenon DEF FilesInv, ProcessesOK
<1>2. CASE sys' = "panicked" /\ UNCHANGED <<pc, loc>>
  BY Zenon, <1>2, StopShown DEF Write, history
<1>3. CASE Goto(p, "end_op") /\ loc' = [loc EXCEPT ![p].then = "user"]
  <2>1. /\ pc[p] = "write" /\ pc' = [pc EXCEPT ![p] = "end_op"]
        /\ loc' = [loc EXCEPT ![p] = r]
        /\ UNCHANGED <<dinode, rc, ilock, file, ofile, cwd, outstanding, lostRefs, lostOps>>
    BY <1>3 DEF Write, At, Goto, history
  <2>2. r \in Locals /\ "end_op" \in Labels /\ r.ip = loc[p].ip /\ r.call = loc[p].call
        /\ r.then = "user"
    <3>1. loc[p] \in Locals /\ "user" \in Labels /\ "end_op" \in Labels
      BY <1>1 DEF Types, Labels
    <3> QED
      BY Zenon, <3>1, SetThen DEF Are
  <2> HIDE DEF r
  <2>3. loc[p].ip = None /\ Calling(p)
    BY <1>1, <2>1 DEF PlaceOK, LocalsOK, ExitOK, HasIp, Place, PlaceAt, Waits, Calling
  <2>4. Calls("end_op", r)
    BY <2>2, <2>3 DEF Calls, Calling, LocalsOK, PlaceAt, Waits, HasIp
  <2>5. Balanced(p, r)
    BY <1>1, <2>1, <2>2 DEF Balanced, Is, Types
  <2>6. OpsBalanced(p, "end_op")
    BY <1>1, <2>1 DEF OpsBalanced, Busy, Outside, Types
  <2>7. Moves(p, "end_op", r) /\ StillTyped
    BY Zenon, <1>1, <2>1 DEF Moves, StillTyped, Types
  <2>8. DiskKept("end_op", r)
    BY <2>1, DiskKeptElse
  <2> QED
    BY Zenon, <2>2, <2>3, <2>4, <2>5, <2>6, <2>7, <2>8, StepShown
<1> QED
  BY Zenon, <1>2, <1>3 DEF Write

\* inode_get adds one, inode_put takes one away.
LEMMA GetPut ==
  ASSUME NEW r \in [Inums -> Int], NEW i \in Inums
  PROVE  /\ Get(r, i) \in [Inums -> Int] /\ Put(r, i) \in [Inums -> Int]
         /\ \A j \in Inums : Get(r, i)[j] = r[j] + Is(i, j) /\ Put(r, i)[j] = r[j] - Is(i, j)
  BY DEF Get, Put, Is

\* What inode_get and inode_put do to rc, inode by inode,
LEMMA GetTyped ==
  ASSUME Types, NEW i \in Inums
  PROVE  /\ Get(rc, i) \in [Inums -> Int] /\ Put(rc, i) \in [Inums -> Int]
         /\ \A j \in Inums : Get(rc, i)[j] = rc[j] + Is(i, j)
         /\ \A j \in Inums : Put(rc, i)[j] = rc[j] - Is(i, j)
<1>1. rc \in [Inums -> Int]
  BY Zenon DEF Types
<1> QED
  BY <1>1, GetPut

\* A step that begins or ends no operation is right about them.
LEMMA OpsSame ==
  ASSUME Types, NEW p \in Procs, Busy(pc'[p]) = Busy(pc[p]),
         outstanding' = outstanding, lostOps' = lostOps
  PROVE  OpsRight(p)
<1>1. outstanding \in Int /\ lostOps \in Int /\ Busy(pc[p]) \in Int
  BY DEF Types, Busy
<1>2. outstanding = outstanding + Busy(pc[p]) - Busy(pc[p]) + lostOps - lostOps
  BY <1>1
<1> QED
  BY Zenon, <1>2 DEF OpsRight

\* A step of p that keeps its references, or passes the one in ip to its working
\* directory, and leaves the counts alone is right about them;
LEMMA RefersSame ==
  ASSUME Types, NEW p \in Procs, rc' = rc, lostRefs' = lostRefs,
         \/ CwdAt(p)' = CwdAt(p) /\ loc'[p].ip = loc[p].ip
         \/ CwdAt(p)' = loc[p].ip /\ loc'[p].ip = CwdAt(p)
  PROVE  RefersRight(p)
<1> SUFFICES ASSUME NEW i \in Inums
    PROVE  rc[i] = rc[i] + Is(CwdAt(p)', i) - Is(CwdAt(p), i)
                     + Is(loc'[p].ip, i) - Is(loc[p].ip, i) + lostRefs[i] - lostRefs[i]
  BY Zenon DEF RefersRight
<1>1. rc[i] \in Int /\ lostRefs[i] \in Nat
  BY Zenon DEF Types
<1>2. \A x : Is(x, i) \in Int
  BY DEF Is
<1>3. ASSUME NEW x, NEW y
      PROVE  /\ rc[i] = rc[i] + Is(x, i) - Is(x, i) + Is(y, i) - Is(y, i)
                           + lostRefs[i] - lostRefs[i]
             /\ rc[i] = rc[i] + Is(x, i) - Is(y, i) + Is(y, i) - Is(x, i)
                           + lostRefs[i] - lostRefs[i]
  <2>1. Is(x, i) \in Int /\ Is(y, i) \in Int
    BY Zenon, <1>2
  <2> QED
    BY <1>1, <2>1
<1> QED
  BY Zenon, <1>3

\* and so is one that drops one of them and counts it.
LEMMA RefersDrop ==
  ASSUME Types, NEW p \in Procs, NEW x, \A i \in Inums : rc'[i] = rc[i] - Is(x, i),
         lostRefs' = lostRefs,
         \/ CwdAt(p) = x /\ CwdAt(p)' = None /\ loc'[p].ip = loc[p].ip
         \/ CwdAt(p)' = CwdAt(p) /\ loc[p].ip = x /\ loc'[p].ip = None
  PROVE  RefersRight(p)
<1> SUFFICES ASSUME NEW i \in Inums
    PROVE  rc[i] - Is(x, i) = rc[i] + Is(CwdAt(p)', i) - Is(CwdAt(p), i)
                     + Is(loc'[p].ip, i) - Is(loc[p].ip, i) + lostRefs[i] - lostRefs[i]
  BY Zenon DEF RefersRight
<1>1. rc[i] \in Int /\ lostRefs[i] \in Nat
  BY Zenon DEF Types
<1>2. Is(None, i) = 0 /\ Is(x, i) \in Int
  BY NoneIsNone DEF Is
<1>3. ASSUME NEW y
      PROVE  /\ rc[i] - Is(x, i) = rc[i] + Is(None, i) - Is(x, i) + Is(y, i) - Is(y, i)
                                      + lostRefs[i] - lostRefs[i]
             /\ rc[i] - Is(x, i) = rc[i] + Is(y, i) - Is(y, i) + Is(None, i) - Is(x, i)
                                      + lostRefs[i] - lostRefs[i]
  <2>1. Is(y, i) \in Int
    BY DEF Is
  <2> QED
    BY <1>1, <1>2, <2>1
<1> QED
  BY Zenon, <1>3

\* and what they do one after the other.
LEMMA PutGetTyped ==
  ASSUME Types, NEW i \in Inums, NEW k \in Inums
  PROVE  /\ Put(Get(rc, k), i) \in [Inums -> Int]
         /\ \A j \in Inums : Put(Get(rc, k), i)[j] = rc[j] + Is(k, j) - Is(i, j)
<1>1. PICK g \in [Inums -> Int] :
         g = Get(rc, k) /\ \A j \in Inums : g[j] = rc[j] + Is(k, j)
  BY GetTyped
<1>2. /\ Put(g, i) \in [Inums -> Int]
      /\ \A j \in Inums : Put(g, i)[j] = g[j] - Is(i, j)
  BY GetPut
<1>3. \A j \in Inums : Put(g, i)[j] = rc[j] + Is(k, j) - Is(i, j)
  BY <1>1, <1>2 DEF Is, Types
<1>4. Put(g, i) = Put(Get(rc, k), i)
  BY Zenon, <1>1
<1> QED
  BY Zenon, <1>2, <1>3, <1>4

\* The start of namex() takes a step as Shown has it.
LEMMA NamexShown ==
  ASSUME FilesInv, NEW p \in Procs, Namex(p)
  PROVE  Shown(p)
<1> DEFINE i == IF loc[p].abs THEN ROOT_INODE_NO ELSE cwd[p]
           r == [loc[p] EXCEPT !.ip = i]
<1>1. Types /\ PlaceOK(p) /\ ExitOK(p)
  BY Zenon DEF FilesInv, ProcessesOK
<1>2. CASE i = None
  BY Zenon, <1>2, StopShown DEF Namex, history
<1>3. CASE i # None
  <2>1. /\ pc[p] = "namex" /\ pc' = [pc EXCEPT ![p] = "walk"]
        /\ loc' = [loc EXCEPT ![p] = r] /\ rc' = Get(rc, i)
        /\ UNCHANGED <<dinode, ilock, file, ofile, cwd, outstanding, lostRefs, lostOps>>
    BY <1>3 DEF Namex, At, Goto, history
  <2>2. i \in Inums
    BY <1>1, <1>3, RootIsAnInode DEF Types
  <2> HIDE DEF i
  <2>3. r \in Locals /\ "walk" \in Labels /\ r.ip = i /\ r.call = loc[p].call
        /\ r.then = loc[p].then
    <3>1. loc[p] \in Locals /\ i \in Inums \cup {None} /\ "walk" \in Labels
      BY SMTT(30), <1>1, <2>2 DEF Types, Labels
    <3> QED
      BY Zenon, <3>1, SetIp DEF Are
  <2> HIDE DEF r
  <2>4. loc[p].ip = None /\ Calling(p)
    BY SMTT(30), <1>1, <2>1
       DEF PlaceOK, LocalsOK, ExitOK, HasIp, Place, PlaceAt, Waits, Calling
  <2>5. /\ loc[p].then \notin {"set_cwd", "exited"} /\ loc[p].call \in PathCalls
    BY <1>1, <2>1 DEF PlaceOK, LocalsOK, PlaceAt, Waits
  <2>6. Calls("walk", r)
    BY SMTT(30), <1>3, <2>3, <2>4, <2>5
       DEF Calls, Calling, LocalsOK, PlaceAt, Waits, HasIp
  <2>7. Balanced(p, r)
    <3>1. \A j \in Inums : rc'[j] = rc[j] + Is(i, j) /\ j # None
      BY <1>1, <2>1, <2>2, GetTyped, NoneIsNone
    <3> QED
      BY <1>1, <2>1, <2>3, <2>4, <3>1 DEF Balanced, Is, Types
  <2>8. OpsBalanced(p, "walk")
    BY <1>1, <2>1 DEF OpsBalanced, Busy, Outside, Types
  <2>9. Moves(p, "walk", r) /\ StillTyped
    BY Zenon, <1>1, <2>1, <2>2, GetTyped DEF Moves, StillTyped, Types
  <2>10. DiskKept("walk", r)
    BY <2>1, DiskKeptElse
  <2> QED
    BY Zenon, <2>3, <2>4, <2>6, <2>7, <2>8, <2>9, <2>10, StepShown
<1> QED
  BY Zenon, <1>2, <1>3

\* namex returns 0 to its caller.
LEMMA NotFoundShown ==
  ASSUME FilesInv, NEW p \in Procs, pc[p] = "walk", NotFound(p),
         UNCHANGED <<ilock, file, ofile, cwd, outstanding>>,
         dinode' = dinode, rc' \in [Inums -> Int], lostRefs' \in [Inums -> Nat],
         \A i \in Inums : rc'[i] = rc[i] - Is(loc[p].ip, i) + lostRefs'[i] - lostRefs[i]
  PROVE  Shown(p)
<1>1. Types /\ PlaceOK(p) /\ ExitOK(p)
  BY Zenon DEF FilesInv, ProcessesOK
<1>2. Calling(p)
  BY <1>1 DEF ExitOK, Place, PlaceAt, Waits, Calling
<1>3. ASSUME NEW r, r.ip = None PROVE Balanced(p, r)
  <2>1. \A i \in Inums : rc[i] \in Int /\ i # None
    BY <1>1, NoneIsNone DEF Types
  <2> QED
    BY <1>3, <2>1 DEF Balanced, Is
<1>4. CASE loc[p].call \in ForgetsOp
  <2>1. /\ pc' = [pc EXCEPT ![p] = "user"] /\ loc' = [loc EXCEPT ![p] = NoLocals]
        /\ lostOps' = lostOps + 1
    BY SMTT(30), <1>4 DEF NotFound, Goto, ForgetsOp
  <2>2. "user" \in Labels /\ NoLocals.ip = None
    BY SMTT(30) DEF Labels, NoLocals
  <2>3. Calls("user", NoLocals)
    BY DEF Calls, LocalsOK, PlaceAt, Waits, HasIp, NoLocals
  <2>4. OpsBalanced(p, "user")
    BY <1>1, <2>1 DEF OpsBalanced, Busy, Outside, Types
  <2>5. Moves(p, "user", NoLocals)
    BY Zenon, <2>1 DEF Moves
  <2>6. StillTyped
    BY <1>1, <2>1 DEF StillTyped, Types
  <2>7. Balanced(p, NoLocals)
    BY Zenon, <1>3, <2>2
  <2>8. DiskKept("user", NoLocals)
    BY DiskKeptElse
  <2> QED
    BY Zenon, <1>2, <2>2, <2>3, <2>4, <2>5, <2>6, <2>7, <2>8, NoLocalsTyped, StepShown
<1>5. CASE loc[p].call \notin ForgetsOp
  <2> DEFINE r == [loc[p] EXCEPT !.then = "user", !.ip = None]
  <2>1. /\ pc' = [pc EXCEPT ![p] = "end_op"] /\ loc' = [loc EXCEPT ![p] = r]
        /\ lostOps' = lostOps
    BY Zenon, <1>5 DEF NotFound, Goto
  <2>2. /\ loc[p] \in Locals /\ "user" \in Labels /\ "end_op" \in Labels
        /\ None \in Inums \cup {None}
    BY <1>1 DEF Types, Labels
  <2>3. Are(r, loc[p].call, loc[p].rest, None, loc[p].f, loc[p].fd, "user")
    BY Zenon, <2>2, SetThenIp
  <2> HIDE DEF r
  <2>4. Calls("end_op", r)
    BY <1>2, <2>3 DEF Are, Calls, Calling, LocalsOK, PlaceAt, Waits, HasIp
  <2>5. OpsBalanced(p, "end_op")
    BY <1>1, <2>1 DEF OpsBalanced, Busy, Outside, Types
  <2>6. Moves(p, "end_op", r)
    BY Zenon, <2>1 DEF Moves
  <2>7. StillTyped
    BY Zenon, <1>1, <2>1 DEF StillTyped, Types
  <2>8. Balanced(p, r)
    BY Zenon, <1>3, <2>3 DEF Are
  <2>9. r \in Locals
    BY Zenon, <2>3 DEF Are
  <2>10. DiskKept("end_op", r)
    BY DiskKeptElse
  <2> QED
    BY Zenon, <1>2, <2>2, <2>4, <2>5, <2>6, <2>7, <2>8, <2>9, <2>10, StepShown
<1> QED
  BY Zenon, <1>4, <1>5

\* The walk ends, at label l.
LEMMA WalkOnShown ==
  ASSUME FilesInv, NEW p \in Procs, pc[p] = "walk",
         NEW l \in {"create", "open", "chdir", "stat", "exec"},
         l = "create" => /\ WantsParent(loc[p].call) /\ loc[p].rest # <<>>
                         /\ dinode[loc[p].ip].type = "dir",
         pc' = [pc EXCEPT ![p] = l],
         UNCHANGED <<dinode, rc, ilock, file, ofile, cwd, outstanding, loc, lostRefs, lostOps>>
  PROVE  Shown(p)
<1>1. Types /\ PlaceOK(p) /\ ExitOK(p)
  BY Zenon DEF FilesInv, ProcessesOK
<1>2. Calling(p)
  BY SMTT(30), <1>1 DEF ExitOK, Place, PlaceAt, Waits, Calling
<1>3. /\ loc[p] \in Locals /\ loc[p].ip # None /\ loc[p].then \notin {"set_cwd", "exited"}
      /\ loc[p].call \in PathCalls
  BY SMTT(30), <1>1 DEF PlaceOK, LocalsOK, PlaceAt, Waits, HasIp, Types
<1>4. Calls(l, loc[p])
  BY SMTT(30), <1>2, <1>3 DEF Calls, Calling, LocalsOK, PlaceAt, Waits, HasIp
<1>5. Balanced(p, loc[p])
  BY <1>1 DEF Balanced, Is, Types
<1>6. OpsBalanced(p, l)
  BY <1>1 DEF OpsBalanced, Busy, Outside, Types
<1>7. loc' = [loc EXCEPT ![p] = loc[p]]
  BY <1>1 DEF Types
<1>8. Moves(p, l, loc[p]) /\ StillTyped
  BY Zenon, <1>1, <1>7 DEF Moves, StillTyped, Types
<1>9. l \in Labels
  BY DEF Labels, PathCalls
<1>10. DiskKept(l, loc[p])
  BY DiskKeptSame DEF LookAt
<1> QED
  BY Zenon, <1>2, <1>3, <1>4, <1>5, <1>6, <1>8, <1>9, <1>10, StepShown

\* One round of the loop of namex.
LEMMA WalkShown ==
  ASSUME FilesInv, NEW p \in Procs, Walk(p)
  PROVE  Shown(p)
<1> DEFINE i == loc[p].ip
<1>1. Types /\ PlaceOK(p)
  BY Zenon DEF FilesInv, ProcessesOK
<1>2. /\ pc[p] = "walk" /\ UNCHANGED <<ilock, file, ofile, cwd, outstanding>>
      /\ WalkEnd(p, i) \/ WalkElement(p, i)
  BY ZenonT(30) DEF Walk, At
<1>3. i \in Inums /\ loc[p] \in Locals /\ loc[p].call \in PathCalls
  BY <1>1, <1>2 DEF PlaceOK, LocalsOK, PlaceAt, Waits, HasIp, Types, Locals
<1>4. loc[p].then \notin {"set_cwd", "exited"}
  BY <1>1, <1>2 DEF PlaceOK, LocalsOK, PlaceAt, Waits
<1>5. CASE /\ rc' = Put(rc, i) /\ dinode' = PutDisk(rc, i) /\ NotFound(p)
           /\ lostRefs' = lostRefs
  <2>1. dinode' = dinode
    BY Zenon, <1>3, <1>5, PutDiskSame
  <2>2. rc' \in [Inums -> Int] /\ \A j \in Inums : rc'[j] = rc[j] - Is(i, j)
    BY <1>1, <1>3, <1>5, GetTyped
  <2>3. lostRefs' \in [Inums -> Nat]
    BY Zenon, <1>1, <1>5 DEF Types
  <2>4. \A j \in Inums : rc'[j] = rc[j] - Is(i, j) + lostRefs'[j] - lostRefs[j]
    BY <1>1, <1>5, <2>2 DEF Is, Types
  <2> QED
    BY Zenon, <1>2, <1>5, <2>1, <2>2, <2>3, <2>4, NotFoundShown
<1>6. CASE WalkEnd(p, i)
  <2>1. CASE WantsParent(loc[p].call)
    BY Zenon, <1>5, <1>6, <2>1 DEF WalkEnd
  <2>2. CASE ~WantsParent(loc[p].call)
    <3>1. /\ pc' = [pc EXCEPT ![p] = loc[p].call]
          /\ UNCHANGED <<dinode, rc, loc, lostRefs, lostOps>>
      BY <1>6, <2>2 DEF WalkEnd, Goto
    <3>2. PICK l \in {"create", "open", "chdir", "stat", "exec"} :
             l = loc[p].call /\ l # "create"
      BY <1>3, <2>2 DEF WantsParent, PathCalls
    <3> QED
      BY Zenon, <1>2, <3>1, <3>2, WalkOnShown
  <2> QED
    BY Zenon, <2>1, <2>2
<1>7. CASE WalkElement(p, i)
  <2> DEFINE nx == dinode[i].entries[Head(loc[p].rest)]
  <2>1. loc[p].rest # <<>>
    BY Zenon, <1>7 DEF WalkElement
  <2>2. CASE rc' = Put(rc, i) /\ dinode' = PutDisk(rc, i) /\ NotFound(p) /\ UNCHANGED lostRefs
    BY Zenon, <1>5, <2>2
  <2>3. CASE /\ dinode[i].type = "dir" /\ WantsParent(loc[p].call) /\ Goto(p, "create")
             /\ UNCHANGED <<rc, dinode, loc, history>>
    <3>1. /\ pc' = [pc EXCEPT ![p] = "create"]
          /\ UNCHANGED <<dinode, rc, loc, lostRefs, lostOps>>
      BY <2>3 DEF Goto, history
    <3> QED
      BY Zenon, <1>2, <2>1, <2>3, <3>1, WalkOnShown
  <2>4. CASE /\ lostRefs' = [lostRefs EXCEPT ![i] = @ + 1] /\ NotFound(p)
             /\ UNCHANGED <<rc, dinode>>
    <3>1. dinode' = dinode /\ rc' \in [Inums -> Int]
      BY Zenon, <1>1, <2>4 DEF Types
    <3>2. /\ lostRefs' \in [Inums -> Nat]
          /\ \A j \in Inums : rc'[j] = rc[j] - Is(i, j) + lostRefs'[j] - lostRefs[j]
      BY <1>1, <1>3, <2>4 DEF Is, Types
    <3> QED
      BY Zenon, <1>2, <2>4, <3>1, <3>2, NotFoundShown
  <2>5. CASE /\ nx # None /\ rc' = Leave(Get(rc, nx), i) /\ dinode' = PutDisk(Get(rc, nx), i)
             /\ loc' = [loc EXCEPT ![p].ip = nx, ![p].rest = Tail(@)]
             /\ UNCHANGED <<pc, history>>
    <3> DEFINE r == [loc[p] EXCEPT !.ip = nx, !.rest = Tail(loc[p].rest)]
    <3>1. nx \in Inums /\ Tail(loc[p].rest) \in Seq(AllNames)
      <4>1. loc[p].rest \in Seq(AllNames)
        BY <1>3 DEF Locals
      <4>2. Head(loc[p].rest) \in AllNames /\ Tail(loc[p].rest) \in Seq(AllNames)
        BY <2>1, <4>1
      <4>3. dinode[i].entries \in [AllNames -> Inums \cup {None}]
        BY <1>1, <1>3 DEF Types, DInode
      <4> QED
        BY Zenon, <2>5, <4>2, <4>3
    <3>2. dinode' = dinode
      BY Zenon, <1>3, <2>5, PutDiskSame
    <3> HIDE DEF nx
    <3>3. Are(r, loc[p].call, Tail(loc[p].rest), nx, loc[p].f, loc[p].fd, loc[p].then)
      BY Zenon, <1>3, <3>1, SetIpRest
    <3>4. loc' = [loc EXCEPT ![p] = r] /\ pc' = [pc EXCEPT ![p] = "walk"]
      BY Zenon, <1>1, <1>2, <2>5 DEF Types
    <3> HIDE DEF r
    <3>5. /\ rc' \in [Inums -> Int]
          /\ \A j \in Inums : rc'[j] = rc[j] + Is(nx, j) - Is(i, j)
      BY <1>1, <1>3, <2>5, <3>1, PutGetTyped DEF Leave
    <3>6. Balanced(p, r)
      BY <1>1, <2>5, <3>3, <3>5 DEF Balanced, Are, Is, Types, history
    <3>7. Calling(p)
      BY <1>2, <1>3 DEF Waits, Calling, PathCalls
    <3>8. Calls("walk", r)
      <4>1. nx # None /\ r.ip = nx /\ r.call = loc[p].call /\ r.then = loc[p].then
        BY Zenon, <2>5, <3>3 DEF Are
      <4> QED
        BY <1>3, <1>4, <4>1 DEF Calls, LocalsOK, PlaceAt, Waits, HasIp, PathCalls
    <3>9. OpsBalanced(p, "walk")
      BY <1>1, <1>2, <2>5 DEF OpsBalanced, Busy, Types, history
    <3>10. Moves(p, "walk", r) /\ StillTyped
      BY Zenon, <1>1, <1>2, <2>5, <3>2, <3>4, <3>5 DEF Moves, StillTyped, Types, history
    <3>11. r \in Locals /\ "walk" \in Labels
      BY <3>3 DEF Are, Labels
    <3>12. DiskKept("walk", r)
      BY <3>2, DiskKeptElse
    <3> QED
      BY Zenon, <3>6, <3>7, <3>8, <3>9, <3>10, <3>11, <3>12, StepShown
  <2> QED
    BY ZenonT(30), <1>7, <2>2, <2>3, <2>4, <2>5 DEF WalkElement, history
<1> QED
  BY Zenon, <1>2, <1>6, <1>7

\* A system call returns through end_op with its inode put.
LEMMA PutInodeShown ==
  ASSUME FilesInv, NEW p \in Procs, loc[p].call # "exit",
         pc[p] \in {"made", "opened", "stat", "chdir", "exec", "put_file"},
         PutAndEnd(p, loc[p].ip, "user"), ilock' \in [Inums -> Procs \cup {None}],
         UNCHANGED <<file, ofile, cwd, outstanding, lostRefs, lostOps>>
  PROVE  Shown(p)
<1> DEFINE r == [loc[p] EXCEPT !.then = "user", !.ip = None]
<1>1. Types /\ PlaceOK(p)
  BY Zenon DEF FilesInv, ProcessesOK
<1>2. /\ loc[p].ip \in Inums /\ loc[p] \in Locals /\ "user" \in Labels /\ "end_op" \in Labels
      /\ None \in Inums \cup {None}
  BY <1>1 DEF PlaceOK, LocalsOK, PlaceAt, Waits, HasIp, Types, Locals, Labels
<1>3. /\ pc' = [pc EXCEPT ![p] = "end_op"] /\ loc' = [loc EXCEPT ![p] = r]
      /\ rc' = Put(rc, loc[p].ip) /\ dinode' = PutDisk(rc, loc[p].ip)
  BY Zenon DEF PutAndEnd, Goto
<1>4. Are(r, loc[p].call, loc[p].rest, None, loc[p].f, loc[p].fd, "user")
  BY Zenon, <1>2, SetThenIp
<1> HIDE DEF r
<1>5. r \in Locals /\ r.call = loc[p].call /\ r.ip = None /\ r.then = "user"
  BY Zenon, <1>4 DEF Are
<1>6. /\ rc' \in [Inums -> Int] /\ dinode' = dinode
      /\ \A j \in Inums : rc'[j] = rc[j] - Is(loc[p].ip, j)
  <2>1. dinode' = dinode
    BY ZenonT(30), <1>2, <1>3, PutDiskSame
  <2> QED
    BY <1>1, <1>2, <1>3, <2>1, GetTyped
<1>7. Calling(p)
  BY DEF Calling, Waits
<1>8. Calls("end_op", r)
  BY <1>5 DEF Calls, LocalsOK, PlaceAt, Waits, HasIp
<1>9. Balanced(p, r)
  <2>1. \A j \in Inums : j # None /\ rc[j] \in Int /\ lostRefs[j] \in Int
    BY <1>1, NoneIsNone DEF Types
  <2> QED
    BY <1>5, <1>6, <2>1 DEF Balanced, Is
<1>10. OpsBalanced(p, "end_op")
  BY <1>1 DEF OpsBalanced, Busy, Outside, Types
<1>11. Moves(p, "end_op", r) /\ StillTyped
  BY Zenon, <1>1, <1>3, <1>6 DEF Moves, StillTyped, Types
<1>12. DiskKept("end_op", r)
  BY <1>6, DiskKeptElse
<1> QED
  BY Zenon, <1>2, <1>5, <1>7, <1>8, <1>9, <1>10, <1>11, <1>12, StepShown

\* What a process knows at its place, in one step.
LEMMA AtPlace ==
  ASSUME FilesInv, NEW p \in Procs,
         pc[p] \in {"create", "exists", "new", "check", "opened", "made", "open", "stat",
                    "chdir", "exec"}
  PROVE  /\ Types /\ loc[p].ip \in Inums /\ loc[p] \in Locals
         /\ loc[p].call # "exit" /\ loc[p].then \notin {"set_cwd", "exited"}
         /\ pc[p] \in {"create", "exists", "new"} =>
               WantsParent(loc[p].call) /\ loc[p].rest # <<>> /\ NameOf(p) \in AllNames
<1>1. Types /\ PlaceOK(p) /\ ExitOK(p)
  BY Zenon DEF FilesInv, ProcessesOK
<1>2. Place(p) = pc[p]
  BY DEF Place, PlaceAt, Waits
<1>3. loc[p].ip \in Inums
  BY <1>1, <1>2 DEF PlaceOK, LocalsOK, Place, HasIp, Types, Locals
<1>4. loc[p] \in Locals /\ loc[p].rest \in Seq(AllNames)
  BY ZenonT(30), <1>1 DEF Types, Locals
<1>5. loc[p].call # "exit" /\ loc[p].then \notin {"set_cwd", "exited"}
  BY <1>1, <1>2 DEF ExitOK, PlaceOK, LocalsOK, Place
<1>6. pc[p] \in {"create", "exists", "new"} => WantsParent(loc[p].call) /\ loc[p].rest # <<>>
  BY Zenon, <1>1, <1>2 DEF PlaceOK, LocalsOK, Place
<1>7. loc[p].rest # <<>> => NameOf(p) \in AllNames
  BY <1>4 DEF NameOf
<1> QED
  BY Zenon, <1>1, <1>3, <1>4, <1>5, <1>6, <1>7

-----------------------------------------------------------------------------
(* create, openat, fstatat, chdir and execve.                               *)

\* A step that only takes or frees the lock of an inode, at labels with an inode.
LEMMA LockStepShown ==
  ASSUME FilesInv, NEW p \in Procs, NEW l \in {"exists", "new", "opened"},
         pc[p] \in {"create", "check", "open"}, (l \in {"exists", "new"}) => pc[p] = "create",
         l = "exists" => dinode[Dp(p)].entries[NameOf(p)] # None,
         pc' = [pc EXCEPT ![p] = l], ilock' \in [Inums -> Procs \cup {None}],
         UNCHANGED <<dinode, rc, file, ofile, cwd, outstanding, loc, lostRefs, lostOps>>
  PROVE  Shown(p)
<1>1. /\ Types /\ loc[p].ip \in Inums /\ loc[p] \in Locals /\ loc[p].call # "exit"
      /\ loc[p].then \notin {"set_cwd", "exited"}
      /\ pc[p] = "create" => WantsParent(loc[p].call) /\ loc[p].rest # <<>>
  BY AtPlace
<1>2. l \in Labels /\ loc[p].ip # None
  BY <1>1, NoneIsNone DEF Labels
<1>3. Calling(p)
  BY <1>1 DEF Calling, Waits
<1>4. Calls(l, loc[p])
  BY ZenonT(30), <1>1, <1>2
     DEF Calls, LocalsOK, PlaceAt, Waits, HasIp, WantsParent, PathCalls
<1>5. Balanced(p, loc[p])
  BY <1>1 DEF Balanced, Is, Types
<1>6. OpsBalanced(p, l)
  BY <1>1 DEF OpsBalanced, Busy, Outside, Types
<1>7. loc' = [loc EXCEPT ![p] = loc[p]]
  BY <1>1 DEF Types
<1>8. Moves(p, l, loc[p]) /\ StillTyped
  BY Zenon, <1>1, <1>7 DEF Moves, StillTyped, Types
<1>9. DiskKept(l, loc[p])
  <2>1. LookOK(p)
    BY ZenonT(30) DEF FilesInv, ProcessesOK
  <2>2. LookAt(dinode, l, loc[p])
    BY Zenon, <2>1 DEF LookOK, LookAt, Dp, NameOf
  <2> QED
    BY Zenon, <2>2, DiskKeptSame
<1> QED
  BY ZenonT(30), <1>1, <1>2, <1>3, <1>4, <1>5, <1>6, <1>8, <1>9, StepShown

\* The lookup of create() takes a step as Shown has it.
LEMMA CreateLookupShown ==
  ASSUME FilesInv, NEW p \in Procs, CreateLookup(p)
  PROVE  Shown(p)
<1>1. pc[p] = "create"
  BY DEF CreateLookup, At
<1>2. Types /\ loc[p].ip \in Inums
  BY <1>1, AtPlace
<1>3. ilock' \in [Inums -> Procs \cup {None}]
  BY <1>2 DEF CreateLookup, LookLocked, Dp, Types
<1>4. PICK l \in {"exists", "new", "opened"} :
         /\ l # "opened" /\ pc' = [pc EXCEPT ![p] = l]
         /\ l = "exists" => dinode[Dp(p)].entries[NameOf(p)] # None
  BY Zenon DEF CreateLookup, Goto
<1>5. UNCHANGED <<dinode, rc, file, ofile, cwd, outstanding, loc, lostRefs, lostOps>>
  BY DEF CreateLookup, history
<1> QED
  BY Zenon, <1>1, <1>3, <1>4, <1>5, LockStepShown

\* The inode_lock of an open of what exists takes a step as Shown has it.
LEMMA OpenLockShown ==
  ASSUME FilesInv, NEW p \in Procs, OpenLock(p)
  PROVE  Shown(p)
<1>1. pc[p] = "open" /\ pc' = [pc EXCEPT ![p] = "opened"]
  BY DEF OpenLock, At, Goto
<1>2. Types /\ loc[p].ip \in Inums
  BY <1>1, AtPlace
<1>3. ilock' \in [Inums -> Procs \cup {None}]
  BY <1>2 DEF OpenLock, Types
<1>4. UNCHANGED <<dinode, rc, file, ofile, cwd, outstanding, loc, lostRefs, lostOps>>
  BY DEF OpenLock, history
<1> QED
  BY Zenon, <1>1, <1>3, <1>4, LockStepShown

\* The end of a create() that found the name takes a step as Shown has it.
LEMMA CreateExistsShown ==
  ASSUME FilesInv, NEW p \in Procs, CreateExists(p)
  PROVE  Shown(p)
<1> DEFINE ip == dinode[Dp(p)].entries[NameOf(p)]
           r == [loc[p] EXCEPT !.ip = ip]
<1>1. pc[p] = "exists" /\ pc' = [pc EXCEPT ![p] = "check"] /\ loc' = [loc EXCEPT ![p] = r]
  BY DEF CreateExists, At, Goto
<1>2. /\ Types /\ Dp(p) \in Inums /\ loc[p] \in Locals /\ loc[p].call # "exit"
      /\ loc[p].then \notin {"set_cwd", "exited"} /\ NameOf(p) \in AllNames
  BY <1>1, AtPlace DEF Dp
<1>3. ip \in Inums
  <2>1. LookOK(p)
    BY Zenon DEF FilesInv, ProcessesOK
  <2>2. dinode[Dp(p)].entries \in [AllNames -> Inums \cup {None}]
    BY ZenonT(30), <1>2 DEF Types, DInode
  <2>3. ip # None
    BY <1>1, <2>1 DEF LookOK, LookAt, Dp, NameOf
  <2> QED
    BY Zenon, <1>2, <2>2, <2>3
<1>4. dinode' = dinode
  BY Zenon, <1>2, PutDiskSame DEF CreateExists
<1>5. rc' = Put(Get(rc, ip), Dp(p)) /\ ilock' = [ilock EXCEPT ![Dp(p)] = None]
      /\ UNCHANGED <<file, ofile, cwd, outstanding, lostRefs, lostOps>>
  BY DEF CreateExists, history
<1> HIDE DEF ip
<1>6. Are(r, loc[p].call, loc[p].rest, ip, loc[p].f, loc[p].fd, loc[p].then)
  BY Zenon, <1>2, <1>3, SetIp
<1> HIDE DEF r
<1>7. r \in Locals /\ r.call = loc[p].call /\ r.ip = ip /\ r.then = loc[p].then
  BY ZenonT(30), <1>6 DEF Are
<1>8. rc' \in [Inums -> Int] /\ \A j \in Inums : rc'[j] = rc[j] + Is(ip, j) - Is(Dp(p), j)
  BY <1>2, <1>3, <1>5, PutGetTyped
<1>9. Calling(p) /\ ip # None /\ "check" \in Labels
  BY ZenonT(30), <1>1, <1>2, <1>3, NoneIsNone DEF Calling, Waits, Labels
<1>10. Calls("check", r)
  BY ZenonT(30), <1>2, <1>7, <1>9 DEF Calls, LocalsOK, PlaceAt, Waits, HasIp
<1>11. Balanced(p, r)
  BY <1>2, <1>5, <1>7, <1>8 DEF Balanced, Is, Types, Dp
<1>12. OpsBalanced(p, "check")
  BY <1>1, <1>2, <1>5 DEF OpsBalanced, Busy, Outside, Types
<1>13. Moves(p, "check", r) /\ StillTyped
  <2>1. ilock' \in [Inums -> Procs \cup {None}]
    BY <1>2, <1>5 DEF Types
  <2> QED
    BY ZenonT(30), <1>1, <1>2, <1>4, <1>5, <1>8, <2>1 DEF Moves, StillTyped, Types
<1>14. DiskKept("check", r)
  BY <1>4, DiskKeptElse
<1> QED
  BY ZenonT(30), <1>7, <1>9, <1>10, <1>11, <1>12, <1>13, <1>14, StepShown

\* The test of the type create() found takes a step as Shown has it.
LEMMA CreateCheckShown ==
  ASSUME FilesInv, NEW p \in Procs, CreateCheck(p)
  PROVE  Shown(p)
<1> DEFINE ip == loc[p].ip
           r == [loc[p] EXCEPT !.then = "user", !.ip = None]
<1>1. /\ pc[p] = "check"
      /\ UNCHANGED <<dinode, rc, file, ofile, cwd, outstanding, lostOps>>
  BY DEF CreateCheck, At
<1>2. Types /\ ip \in Inums /\ loc[p] \in Locals /\ loc[p].call # "exit"
  BY <1>1, AtPlace
<1>3. CASE /\ ilock' = [ilock EXCEPT ![ip] = p] /\ Goto(p, "opened")
           /\ UNCHANGED <<loc, lostRefs>>
  <2>1. ilock' \in [Inums -> Procs \cup {None}] /\ pc' = [pc EXCEPT ![p] = "opened"]
    BY <1>2, <1>3 DEF Types, Goto
  <2> QED
    BY Zenon, <1>1, <1>3, <2>1, LockStepShown
<1>4. CASE /\ lostRefs' = [lostRefs EXCEPT ![ip] = @ + 1]
           /\ loc' = [loc EXCEPT ![p].then = "user", ![p].ip = None]
           /\ Goto(p, "end_op") /\ UNCHANGED ilock
  <2>1. loc' = [loc EXCEPT ![p] = r] /\ pc' = [pc EXCEPT ![p] = "end_op"]
    BY Zenon, <1>4 DEF Goto
  <2>2. "user" \in Labels /\ "end_op" \in Labels /\ None \in Inums \cup {None}
    BY DEF Labels
  <2>3. Are(r, loc[p].call, loc[p].rest, None, loc[p].f, loc[p].fd, "user")
    BY Zenon, <1>2, <2>2, SetThenIp
  <2> HIDE DEF r
  <2>4. r \in Locals /\ r.call = loc[p].call /\ r.ip = None /\ r.then = "user"
    BY Zenon, <2>3 DEF Are
  <2>5. Calling(p)
    BY <1>1, <1>2 DEF Calling, Waits
  <2>6. Calls("end_op", r)
    BY <1>2, <2>4 DEF Calls, LocalsOK, PlaceAt, Waits, HasIp
  <2>7. Balanced(p, r)
    BY SMTT(30), <1>1, <1>2, <1>4, <2>4, NoneIsNone DEF Balanced, Is, Types
  <2>8. OpsBalanced(p, "end_op")
    BY <1>1, <1>2 DEF OpsBalanced, Busy, Outside, Types
  <2>9. Moves(p, "end_op", r) /\ StillTyped
    <3>1. lostRefs' \in [Inums -> Nat]
      BY <1>2, <1>4 DEF Types
    <3> QED
      BY Zenon, <1>1, <1>2, <1>4, <2>1, <3>1 DEF Moves, StillTyped, Types
  <2>10. DiskKept("end_op", r)
    BY <1>1, DiskKeptElse
  <2> QED
    BY Zenon, <2>2, <2>4, <2>5, <2>6, <2>7, <2>8, <2>9, <2>10, StepShown
<1> QED
  BY Zenon, <1>3, <1>4 DEF CreateCheck

\* Min returns an element of a set of numbers that is not empty.
LEMMA MinIn ==
  ASSUME Counting, NEW S \in SUBSET Nat, S # {}
  PROVE  Min(S) \in S
  BY Zenon DEF Counting

\* What create writes into the inode it allocates.
Kinds == {"file", "dir", "dev"}

Typed(d, t) == [d EXCEPT !.type = t, !.num_links = NewLinks]

AsTyped(m, t, e) == m \in DInode /\ m.num_links = 1 /\ m.type = t /\ m.entries = e

\* What create() writes in the new inode.
LEMMA MadeTyped ==
  ASSUME NEW c, WantsParent(c), NEW i \in Inums, NEW dp \in Inums
  PROVE  /\ Made(c, i, dp) \in DInode /\ Made(c, i, dp).num_links = 1
         /\ Made(c, i, dp).type = TypeOf(c) /\ TypeOf(c) \in Kinds
         /\ (TypeOf(c) = "dir" <=> c = "mkdir")
         /\ c = "mkdir" => Made(c, i, dp).entries = Directory(i, dp).entries
         /\ c # "mkdir" => Made(c, i, dp).entries = FreeInode.entries
<1>1. Directory(i, dp) \in DInode /\ FreeInode \in DInode
  BY DEF Directory, FreeInode, DInode
<1>2. TypeOf(c) \in Kinds /\ (TypeOf(c) = "dir" <=> c = "mkdir")
  BY DEF TypeOf, WantsParent, Kinds
<1>3. ASSUME NEW d \in DInode, NEW t \in Kinds PROVE AsTyped(Typed(d, t), t, d.entries)
  BY Zenon DEF DInode, NewLinks, AsTyped, Typed, Kinds
<1>4. CASE c = "mkdir"
  <2>1. Made(c, i, dp) = Typed(Directory(i, dp), TypeOf(c))
    BY Zenon, <1>4 DEF Made, Typed
  <2>2. AsTyped(Made(c, i, dp), TypeOf(c), Directory(i, dp).entries)
    BY Zenon, <1>1, <1>2, <1>3, <2>1
  <2> QED
    BY Zenon, <1>2, <1>4, <2>2 DEF AsTyped
<1>5. CASE c # "mkdir"
  <2>1. Made(c, i, dp) = Typed(FreeInode, TypeOf(c))
    BY Zenon, <1>5 DEF Made, Typed
  <2>2. AsTyped(Made(c, i, dp), TypeOf(c), FreeInode.entries)
    BY Zenon, <1>1, <1>2, <1>3, <2>1
  <2> QED
    BY Zenon, <1>2, <1>5, <2>2 DEF AsTyped
<1> QED
  BY Zenon, <1>4, <1>5

\* The disk after create: a new inode and a new name in the parent directory.
Linked(d, c, n, i) ==
    [d EXCEPT !.num_links = IF c = "mkdir" THEN @ + 1 ELSE @, !.entries[n] = i]

\* What create() writes in the parent directory.
LEMMA LinkedTyped ==
  ASSUME NEW d \in DInode, NEW c, NEW n \in AllNames, NEW i \in Inums
  PROVE  /\ Linked(d, c, n, i) \in DInode /\ Linked(d, c, n, i).type = d.type
         /\ Linked(d, c, n, i).num_links = d.num_links + Is(c, "mkdir")
         /\ Linked(d, c, n, i).entries = [d.entries EXCEPT ![n] = i]
<1>1. d.num_links \in Nat /\ d.entries \in [AllNames -> Inums \cup {None}]
  BY DEF DInode
<1>2. PICK k \in Nat : k = IF c = "mkdir" THEN d.num_links + 1 ELSE d.num_links
  BY <1>1
<1>3. PICK e \in [AllNames -> Inums \cup {None}] : e = [d.entries EXCEPT ![n] = i]
  BY Zenon, <1>1
<1>4. Linked(d, c, n, i) = [d EXCEPT !.num_links = k, !.entries = e]
  BY <1>2, <1>3 DEF Linked, DInode
<1>5. /\ Linked(d, c, n, i) \in DInode /\ Linked(d, c, n, i).type = d.type
      /\ Linked(d, c, n, i).num_links = k /\ Linked(d, c, n, i).entries = e
  BY Zenon, <1>4 DEF DInode
<1>6. k = d.num_links + Is(c, "mkdir")
  BY <1>1, <1>2 DEF Is
<1> QED
  BY Zenon, <1>3, <1>5, <1>6

TwoChanged(h, g, i, j, m, k) ==
    /\ h \in [Inums -> DInode] /\ h[i] = m /\ h[j] = k
    /\ \A x \in Inums \ {i, j} : h[x] = g[x]

\* A function changed at two places.
LEMMA ChangeTwo ==
  ASSUME NEW g \in [Inums -> DInode], NEW i \in Inums, NEW j \in Inums, i # j,
         NEW m \in DInode, NEW k \in DInode
  PROVE  TwoChanged([g EXCEPT ![i] = m, ![j] = k], g, i, j, m, k)
  BY DEF TwoChanged

Creates(d, c, n, i, dp) ==
    d = [dinode EXCEPT ![i] = Made(c, i, dp),
                       ![dp].num_links = IF c = "mkdir" THEN @ + 1 ELSE @,
                       ![dp].entries[n] = i]

\* The disk after create(): the new inode and its parent change, nothing else.
LEMMA CreatedDisk ==
  ASSUME Types, NEW i \in Inums, NEW dp \in Inums, i # dp, NEW n \in AllNames,
         NEW c, WantsParent(c), NEW d, Creates(d, c, n, i, dp)
  PROVE  TwoChanged(d, dinode, i, dp, Made(c, i, dp), Linked(dinode[dp], c, n, i))
<1>1. dinode \in [Inums -> DInode] /\ dinode[dp] \in DInode
  BY Zenon DEF Types
<1>2. Made(c, i, dp) \in DInode /\ Linked(dinode[dp], c, n, i) \in DInode
  BY Zenon, <1>1, MadeTyped, LinkedTyped
<1>3. d = [dinode EXCEPT ![i] = Made(c, i, dp), ![dp] = Linked(dinode[dp], c, n, i)]
  BY Zenon, <1>1 DEF Linked, Creates
<1> QED
  BY Zenon, <1>1, <1>2, <1>3, ChangeTwo

\* create keeps what the invariant says of the disk.
LEMMA CreateKeeps ==
  ASSUME FilesInv, NEW i \in Inums, NEW dp \in Inums, NEW n \in AllNames, NEW c,
         WantsParent(c), dinode[i].type = "free", dinode[dp].type = "dir",
         Creates(dinode', c, n, i, dp)
  PROVE  dinode' \in [Inums -> DInode] /\ DiskInv' /\ Grows
<1>1. Types /\ DiskInv /\ dinode[dp] \in DInode
  BY Zenon DEF FilesInv, Types
<1>2. i # dp
  OBVIOUS
<1>3. TwoChanged(dinode', dinode, i, dp, Made(c, i, dp), Linked(dinode[dp], c, n, i))
  BY Zenon, <1>1, <1>2, CreatedDisk
<1>4. dinode'[i].type \in Kinds /\ dinode'[i].num_links = 1
  <2>1. dinode'[i] = Made(c, i, dp)
    BY Zenon, <1>3 DEF TwoChanged
  <2>2. Made(c, i, dp).type \in Kinds /\ Made(c, i, dp).num_links = 1
    <3>1. Made(c, i, dp).type = TypeOf(c) /\ TypeOf(c) \in Kinds
      BY ZenonT(30), MadeTyped
    <3>2. Made(c, i, dp).num_links = 1
      BY MadeTyped
    <3> QED
      BY ZenonT(30), <3>1, <3>2
  <2> QED
    BY <2>1, <2>2
<1>5. /\ dinode'[dp].type = "dir" /\ dinode'[dp].num_links = dinode[dp].num_links + Is(c, "mkdir")
      /\ dinode'[dp].entries = [dinode[dp].entries EXCEPT ![n] = i]
  <2>1. dinode'[dp] = Linked(dinode[dp], c, n, i)
    BY ZenonT(30), <1>3 DEF TwoChanged
  <2>2. /\ Linked(dinode[dp], c, n, i).type = dinode[dp].type
        /\ Linked(dinode[dp], c, n, i).num_links = dinode[dp].num_links + Is(c, "mkdir")
        /\ Linked(dinode[dp], c, n, i).entries = [dinode[dp].entries EXCEPT ![n] = i]
    BY <1>1, LinkedTyped
  <2> QED
    BY Zenon, <2>1, <2>2
<1>6. \A j \in Inums \ {i, dp} : dinode'[j] = dinode[j]
  BY Zenon, <1>3 DEF TwoChanged
<1>7. /\ dinode[dp].num_links \in Nat /\ dinode[dp].num_links > 0
      /\ dinode[dp].entries \in [AllNames -> Inums \cup {None}]
  BY <1>1 DEF DInode, DiskInv
<1>8. DiskInv'
  <2> SUFFICES ASSUME NEW j \in Inums
      PROVE  /\ dinode'[j].type # "free" => dinode'[j].num_links > 0
             /\ dinode'[j].type = "free" => dinode'[j] = FreeInode
    BY Zenon DEF DiskInv
  <2>1. CASE j = i
    BY SMTT(30), <1>4, <2>1 DEF Kinds
  <2>2. CASE j = dp
    BY <1>5, <1>7, <2>2 DEF Is
  <2>3. CASE j \notin {i, dp}
    BY Zenon, <1>1, <1>6, <2>3 DEF DiskInv
  <2> QED
    BY Zenon, <2>1, <2>2, <2>3
<1>9. Grows
  <2> SUFFICES ASSUME NEW j \in Inums, dinode[j].type = "dir"
      PROVE  /\ dinode'[j].type = "dir"
             /\ \A m \in AllNames : dinode[j].entries[m] # None => dinode'[j].entries[m] # None
    BY Zenon DEF Grows
  <2>1. CASE j = dp
    <3>1. i # None
      BY ZenonT(30), NoneIsNone
    <3>2. \A m \in AllNames : dinode'[dp].entries[m] \in {i, dinode[dp].entries[m]}
      BY <1>5, <1>7
    <3> QED
      BY ZenonT(30), <1>5, <2>1, <3>1, <3>2
  <2>2. CASE j \notin {i, dp}
    BY Zenon, <1>6, <2>2
  <2>3. j # i
    OBVIOUS
  <2> QED
    BY Zenon, <2>1, <2>2, <2>3
<1> QED
  BY Zenon, <1>3, <1>8, <1>9 DEF TwoChanged

\* The part of create() that makes an inode takes a step as Shown has it.
LEMMA CreateNewShown ==
  ASSUME FilesInv, Counting, NEW p \in Procs, CreateNew(p)
  PROVE  Shown(p)
<1> DEFINE i == Min(FreeInums)
           dp == Dp(p)
           l == IF loc[p].call = "creat" THEN "opened" ELSE "made"
           r == [loc[p] EXCEPT !.ip = i]
<1>1. pc[p] = "new"
  BY DEF CreateNew, At
<1>2. /\ Types /\ dp \in Inums /\ loc[p] \in Locals /\ loc[p].call # "exit"
      /\ loc[p].then \notin {"set_cwd", "exited"} /\ NameOf(p) \in AllNames
      /\ WantsParent(loc[p].call)
  BY <1>1, AtPlace DEF Dp
<1>3. CASE i = NumInodes
  BY Zenon, <1>3, StopShown DEF CreateNew, history
<1>4. CASE i # NumInodes
  <2>1. i \in Inums /\ dinode[i].type = "free"
    <3>1. FreeInums \in SUBSET Nat /\ FreeInums # {}
      BY FilesAssumption DEF FreeInums, Inums
    <3>2. i \in FreeInums
      BY Zenon, <3>1, MinIn
    <3> QED
      BY Zenon, <1>4, <3>2 DEF FreeInums
  <2>2. dinode[dp].type = "dir"
    <3>1. LookOK(p)
      BY Zenon DEF FilesInv, ProcessesOK
    <3> QED
      BY <1>1, <3>1 DEF LookOK, LookAt, Dp
  <2>3. /\ Creates(dinode', loc[p].call, NameOf(p), i, dp)
        /\ rc' = Put(Get(rc, i), dp) /\ ilock' = [ilock EXCEPT ![i] = p, ![dp] = None]
        /\ loc' = [loc EXCEPT ![p] = r] /\ pc' = [pc EXCEPT ![p] = l]
        /\ UNCHANGED <<file, ofile, cwd, outstanding, lostRefs, lostOps>>
    BY Zenon, <1>4 DEF CreateNew, Creates, Goto, history
  <2> HIDE DEF i, dp
  <2>4. dinode' \in [Inums -> DInode] /\ DiskInv' /\ Grows
    BY Zenon, <1>2, <2>1, <2>2, <2>3, CreateKeeps
  <2>5. Are(r, loc[p].call, loc[p].rest, i, loc[p].f, loc[p].fd, loc[p].then)
    BY ZenonT(30), <1>2, <2>1, SetIp
  <2> HIDE DEF r
  <2>6. r \in Locals /\ r.call = loc[p].call /\ r.ip = i /\ r.then = loc[p].then
    BY Zenon, <2>5 DEF Are
  <2>7. rc' \in [Inums -> Int] /\ \A j \in Inums : rc'[j] = rc[j] + Is(i, j) - Is(dp, j)
    BY ZenonT(30), <1>2, <2>1, <2>3, PutGetTyped
  <2>8. Calling(p) /\ i # None /\ l \in Labels /\ l \in {"opened", "made"}
    BY ZenonT(30), <1>1, <1>2, <2>1, NoneIsNone DEF Calling, Waits, Labels
  <2> HIDE DEF l
  <2>9. Calls(l, r)
    BY ZenonT(30), <1>2, <2>6, <2>8 DEF Calls, LocalsOK, PlaceAt, Waits, HasIp
  <2>10. Balanced(p, r)
    BY SMTT(30), <1>2, <2>3, <2>6, <2>7 DEF Balanced, Is, Types, Dp, dp
  <2>11. OpsBalanced(p, l)
    BY <1>1, <1>2, <2>3, <2>8 DEF OpsBalanced, Busy, Outside, Types
  <2>12. Moves(p, l, r) /\ StillTyped
    <3>1. ilock' \in [Inums -> Procs \cup {None}]
      BY <1>2, <2>1, <2>3 DEF Types
    <3> QED
      BY Zenon, <1>1, <1>2, <2>3, <2>4, <2>7, <3>1 DEF Moves, StillTyped, Types
  <2>13. DiskKept(l, r)
    BY <2>4, <2>8 DEF DiskKept, LookAt
  <2> QED
    BY Zenon, <2>6, <2>8, <2>9, <2>10, <2>11, <2>12, <2>13, StepShown
<1> QED
  BY Zenon, <1>3, <1>4

\* The end of mkdirat, mknodat and chdir takes a step as Shown has it.
LEMMA FinishShown ==
  ASSUME FilesInv, NEW p \in Procs, Finish(p)
  PROVE  Shown(p)
<1>1. pc[p] = "made"
  BY DEF Finish, At
<1>2. Types /\ loc[p].ip \in Inums /\ loc[p].call # "exit"
  BY <1>1, AtPlace
<1>3. ilock' \in [Inums -> Procs \cup {None}]
  BY <1>2 DEF Finish, Types
<1> QED
  BY Zenon, <1>1, <1>2, <1>3, PutInodeShown DEF Finish, history

\* fstatat() takes a step as Shown has it.
LEMMA StatShown ==
  ASSUME FilesInv, NEW p \in Procs, Stat(p)
  PROVE  Shown(p)
<1>1. pc[p] = "stat"
  BY DEF Stat, At
<1>2. Types /\ loc[p].call # "exit"
  BY <1>1, AtPlace
<1>3. ilock' \in [Inums -> Procs \cup {None}]
  BY Zenon, <1>2 DEF Stat, Types
<1> QED
  BY ZenonT(30), <1>1, <1>2, <1>3, PutInodeShown DEF Stat, history

\* Without a free entry openat fails.
LEMMA OpenFailsShown ==
  ASSUME FilesInv, NEW p \in Procs, Open(p), OpenFails(p), UNCHANGED <<file, ofile>>
  PROVE  Shown(p)
<1>1. pc[p] = "opened"
  BY DEF Open, At
<1>2. Types /\ loc[p].ip \in Inums /\ loc[p].call # "exit"
  BY <1>1, AtPlace
<1>3. ilock' \in [Inums -> Procs \cup {None}]
  BY <1>2 DEF Open, Unlock, Types
<1> QED
  BY Zenon, <1>1, <1>2, <1>3, PutInodeShown DEF Open, OpenFails, history

\* A file that is broken returns from execve without end_op.
LEMMA ExecShown ==
  ASSUME FilesInv, NEW p \in Procs, Exec(p)
  PROVE  Shown(p)
<1>1. pc[p] = "exec" /\ UNCHANGED <<ilock, file, ofile, cwd, outstanding, lostRefs>>
  BY DEF Exec, At
<1>2. Types /\ loc[p].ip \in Inums /\ loc[p].call # "exit"
  BY <1>1, AtPlace
<1>3. ilock' \in [Inums -> Procs \cup {None}]
  BY Zenon, <1>1, <1>2 DEF Types
<1>4. CASE PutAndEnd(p, loc[p].ip, "user") /\ UNCHANGED lostOps
  BY Zenon, <1>1, <1>2, <1>3, <1>4, PutInodeShown
<1>5. CASE UNCHANGED <<rc, dinode, loc, pc, lostOps>>
  BY Zenon, <1>1, <1>5, StopShown
<1>6. CASE /\ rc' = Put(rc, loc[p].ip) /\ dinode' = PutDisk(rc, loc[p].ip)
           /\ loc' = [loc EXCEPT ![p] = NoLocals] /\ lostOps' = lostOps + 1
           /\ Goto(p, "user")
  <2>1. dinode' = dinode
    BY ZenonT(30), <1>2, <1>6, PutDiskSame
  <2>2. rc' \in [Inums -> Int] /\ \A j \in Inums : rc'[j] = rc[j] - Is(loc[p].ip, j)
    BY <1>2, <1>6, GetTyped
  <2>3. "user" \in Labels /\ NoLocals.ip = None
    BY DEF Labels, NoLocals
  <2>4. Calls("user", NoLocals)
    BY DEF Calls, LocalsOK, PlaceAt, Waits, HasIp, NoLocals
  <2>5. OpsBalanced(p, "user")
    BY <1>1, <1>2, <1>6 DEF OpsBalanced, Busy, Outside, Types
  <2>6. Moves(p, "user", NoLocals)
    BY Zenon, <1>1, <1>6 DEF Moves, Goto
  <2>7. StillTyped
    BY SMTT(30), <1>1, <1>2, <1>6, <2>1, <2>2 DEF StillTyped, Types
  <2>8. Balanced(p, NoLocals)
    <3>1. \A j \in Inums : j # None /\ rc[j] \in Int /\ lostRefs[j] \in Int
      BY <1>2, NoneIsNone DEF Types
    <3> QED
      BY SMTT(30), <1>1, <2>2, <2>3, <3>1 DEF Balanced, Is
  <2>9. DiskKept("user", NoLocals)
    BY <2>1, DiskKeptElse
  <2>10. Calling(p)
    BY <1>1, <1>2 DEF Calling, Waits
  <2> QED
    BY Zenon, <2>3, <2>4, <2>5, <2>6, <2>7, <2>8, <2>9, <2>10, NoLocalsTyped, StepShown
<1> QED
  BY Zenon, <1>4, <1>5, <1>6 DEF Exec

\* A step of p to label l, locals r and working directory w.
Moved(p, l, r, w) ==
    /\ pc' = [pc EXCEPT ![p] = l] /\ loc' = [loc EXCEPT ![p] = r]
    /\ cwd' = [cwd EXCEPT ![p] = w] /\ outstanding' = outstanding
    /\ file' \in [Files -> File] /\ ofile' \in [Procs -> [Fds -> Files \cup {None}]]
    /\ \A q \in Procs \ {p} : ofile'[q] = ofile[q]

AfterMove(p, l, r, w) ==
    /\ Types' /\ OthersKeep(p)
    /\ pc'[p] = l /\ loc'[p] = r /\ cwd'[p] = w /\ Place(p)' = PlaceAt(l, r)

\* What a step that moves p alone leaves: the others are where they were.
LEMMA MovedTyped ==
  ASSUME Types, NEW p \in Procs, NEW l \in Labels, NEW r \in Locals,
         NEW w \in Inums \cup {None}, Moved(p, l, r, w), StillTyped
  PROVE  AfterMove(p, l, r, w)
<1>1. /\ pc' \in [Procs -> Labels] /\ loc' \in [Procs -> Locals]
      /\ pc'[p] = l /\ loc'[p] = r
      /\ \A q \in Procs \ {p} : pc'[q] = pc[q] /\ loc'[q] = loc[q]
  BY Zenon, LocalStep DEF Moved
<1>2. /\ cwd' \in [Procs -> Inums \cup {None}] /\ cwd'[p] = w
      /\ \A q \in Procs \ {p} : cwd'[q] = cwd[q]
  BY DEF Moved, Types
<1>3. Types'
  BY Zenon, <1>1, <1>2 DEF Types, Moved, StillTyped
<1>4. OthersKeep(p)
  BY Zenon, <1>1, <1>2 DEF OthersKeep, Moved
<1> QED
  BY Zenon, <1>1, <1>2, <1>3, <1>4 DEF AfterMove, Place

\* A step of p that opens and closes nothing and leaves the disk alone.
Steady == file' = file /\ ofile' = ofile /\ dinode' = dinode /\ StillTyped

\* A step that moves one process, changes neither disk nor files and gives each
\* reference it drops or takes its count is one as Shown has it.
LEMMA SteadyShown ==
  ASSUME FilesInv, NEW p \in Procs, NEW l \in Labels, NEW r \in Locals,
         NEW w \in Inums \cup {None}, Moved(p, l, r, w), Steady,
         LocalsOK(l, r), l \notin {"create", "exists", "new"},
         ExitOK(p)', CwdOK(p)', QuietFor(p), RefersRight(p), OpsRight(p)
  PROVE  Shown(p)
<1>1. Types
  BY Zenon DEF FilesInv
<1>2. Types' /\ OthersKeep(p) /\ pc'[p] = l /\ loc'[p] = r
  BY ZenonT(30), <1>1, MovedTyped DEF AfterMove, Steady
<1>3. PlaceOK(p)' /\ LookOK(p)'
  BY <1>2 DEF PlaceOK, LookOK, LookAt
<1>4. Quiet
  BY Zenon, <1>2, QuietOthers DEF Quiet, Steady
<1>5. DiskInv' /\ Grows
  BY Zenon, DiskSame DEF Steady
<1> QED
  BY Zenon, <1>2, <1>3, <1>4, <1>5, QuietShown

\* chdir puts the old directory.
LEMMA ChdirShown ==
  ASSUME FilesInv, NEW p \in Procs, Chdir(p)
  PROVE  Shown(p)
<1>1. pc[p] = "chdir" /\ UNCHANGED <<ilock, file, ofile, cwd, outstanding, lostRefs, lostOps>>
  BY ZenonT(30) DEF Chdir, At, history
<1>2. /\ Types /\ loc[p].ip \in Inums /\ loc[p].call # "exit" /\ loc[p] \in Locals
      /\ loc[p].then \notin {"set_cwd", "exited"}
  BY <1>1, AtPlace
<1>3. ilock' \in [Inums -> Procs \cup {None}]
  BY Zenon, <1>1, <1>2 DEF Types
<1>4. CASE PutAndEnd(p, loc[p].ip, "user")
  BY Zenon, <1>1, <1>2, <1>3, <1>4, PutInodeShown
<1>5. CASE UNCHANGED <<rc, dinode, loc, pc>>
  BY ZenonT(30), <1>1, <1>5, StopShown
<1>6. CASE cwd[p] # None /\ PutAndEnd(p, Leaves(p), "set_cwd")
  <2> DEFINE r == [loc[p] EXCEPT !.then = "set_cwd", !.ip = loc[p].ip]
  <2>1. cwd[p] \in Inums /\ "set_cwd" \in Labels /\ "end_op" \in Labels
    BY <1>2, <1>6 DEF Types, Labels
  <2>2. /\ pc' = [pc EXCEPT ![p] = "end_op"] /\ loc' = [loc EXCEPT ![p] = r]
        /\ rc' = Put(rc, cwd[p]) /\ dinode' = PutDisk(rc, cwd[p])
    BY Zenon, <1>6 DEF PutAndEnd, Goto, Leaves
  <2>3. dinode' = dinode
    BY Zenon, <2>1, <2>2, PutDiskSame
  <2>4. Are(r, loc[p].call, loc[p].rest, loc[p].ip, loc[p].f, loc[p].fd, "set_cwd")
    BY Zenon, <1>2, <2>1, SetThenIp
  <2> HIDE DEF r
  <2>5. r \in Locals /\ r.call = loc[p].call /\ r.ip = loc[p].ip /\ r.then = "set_cwd"
    BY ZenonT(30), <2>4 DEF Are
  <2>6. rc' \in [Inums -> Int] /\ \A j \in Inums : rc'[j] = rc[j] - Is(cwd[p], j)
    BY <1>2, <2>1, <2>2, GetTyped
  <2>7. Moved(p, "end_op", r, cwd[p])
    <3>1. cwd' = [cwd EXCEPT ![p] = cwd[p]]
      BY <1>1, <1>2 DEF Types
    <3> QED
      BY Zenon, <1>1, <1>2, <2>2, <3>1 DEF Moved, Types
  <2>8. Steady
    BY Zenon, <1>1, <1>2, <2>3, <2>6 DEF Steady, StillTyped, Types
  <2>9. pc'[p] = "end_op" /\ loc'[p] = r /\ cwd'[p] = cwd[p] /\ Place(p)' = "set_cwd"
    <3>1. pc'[p] = "end_op" /\ loc'[p] = r
      BY ZenonT(30), <1>2, <2>2 DEF Types
    <3> QED
      BY ZenonT(30), <1>1, <2>5, <3>1 DEF Place, PlaceAt, Waits
  <2>10. LocalsOK("end_op", r)
    BY ZenonT(30), <1>2, <2>5, NoneIsNone DEF LocalsOK, PlaceAt, Waits, HasIp
  <2>11. ExitOK(p)' /\ CwdOK(p)'
    BY ZenonT(30), <1>2, <1>6, <2>5, <2>9 DEF ExitOK, CwdOK
  <2>12. QuietFor(p)
    BY ZenonT(30), <1>1, <1>2, <2>5, <2>9 DEF QuietFor, Excused
  <2>13. RefersRight(p)
    <3>1. CwdAt(p)' = None /\ CwdAt(p) = cwd[p]
      BY ZenonT(30), <1>2, <2>5, <2>9 DEF CwdAt
    <3> QED
      BY ZenonT(30), <1>1, <1>2, <2>5, <2>6, <2>9, <3>1, RefersDrop
  <2>14. OpsRight(p)
    BY ZenonT(30), <1>1, <1>2, <2>9, OpsSame DEF Busy, Outside
  <2> QED
    BY ZenonT(30), <2>1, <2>5, <2>7, <2>8, <2>10, <2>11, <2>12, <2>13, <2>14,
       SteadyShown
<1> QED
  BY ZenonT(30), <1>4, <1>5, <1>6 DEF Chdir

\* The end of chdir() takes a step as Shown has it.
LEMMA SetCwdShown ==
  ASSUME FilesInv, NEW p \in Procs, SetCwd(p)
  PROVE  Shown(p)
<1>1. /\ pc[p] = "set_cwd" /\ cwd' = [cwd EXCEPT ![p] = loc[p].ip]
      /\ loc' = [loc EXCEPT ![p] = NoLocals] /\ pc' = [pc EXCEPT ![p] = "user"]
      /\ UNCHANGED <<dinode, rc, ilock, file, ofile, outstanding, lostRefs, lostOps>>
  BY DEF SetCwd, At, Goto, history
<1>2. Types /\ PlaceOK(p) /\ ExitOK(p) /\ CwdOK(p)
  BY Zenon DEF FilesInv, ProcessesOK
<1>3. loc[p].ip \in Inums /\ loc[p].then = "set_cwd" /\ loc[p].call # "exit"
  BY <1>1, <1>2 DEF PlaceOK, LocalsOK, ExitOK, Place, PlaceAt, Waits, HasIp, Types,
         Locals
<1>4. "user" \in Labels /\ NoLocals.ip = None /\ NoLocals.call = "none"
      /\ NoLocals.then = "user"
  BY DEF Labels, NoLocals
<1>5. Moved(p, "user", NoLocals, loc[p].ip)
  BY Zenon, <1>1, <1>2 DEF Moved, Types
<1>6. Steady
  BY Zenon, <1>1, <1>2 DEF Steady, StillTyped, Types
<1>7. /\ pc'[p] = "user" /\ loc'[p] = NoLocals /\ cwd'[p] = loc[p].ip /\ Place(p)' = "user"
  <2>1. pc'[p] = "user" /\ loc'[p] = NoLocals /\ cwd'[p] = loc[p].ip
    BY <1>1, <1>2 DEF Types
  <2> QED
    BY <2>1 DEF Place, PlaceAt, Waits
<1>8. LocalsOK("user", NoLocals)
  BY ZenonT(30), <1>4 DEF LocalsOK, PlaceAt, Waits, HasIp
<1>9. ExitOK(p)' /\ CwdOK(p)'
  BY ZenonT(30), <1>3, <1>4, <1>7, NoneIsNone DEF ExitOK, CwdOK
<1>10. QuietFor(p)
  BY ZenonT(30), <1>1, <1>3, <1>4, <1>7 DEF QuietFor, Excused
<1>11. RefersRight(p)
  <2>1. CwdAt(p)' = loc[p].ip /\ CwdAt(p) = None
    BY ZenonT(30), <1>3, <1>4, <1>7 DEF CwdAt
  <2> QED
    BY ZenonT(30), <1>1, <1>2, <1>4, <1>7, <2>1, RefersSame
<1>12. OpsRight(p)
  BY ZenonT(30), <1>1, <1>2, <1>7, OpsSame DEF Busy, Outside
<1> QED
  BY ZenonT(30), <1>3, <1>4, <1>5, <1>6, <1>8, <1>9, <1>10, <1>11, <1>12,
     NoLocalsTyped, SteadyShown

\* The working directory of the first process.
LEMMA SpawnCwdShown ==
  ASSUME FilesInv, SpawnCwd
  PROVE  Shown(initproc)
<1> DEFINE p == initproc
<1>1. /\ cwd[p] = None /\ cwd' = [cwd EXCEPT ![p] = ROOT_INODE_NO]
      /\ rc' = Get(rc, ROOT_INODE_NO)
      /\ UNCHANGED <<dinode, ilock, file, ofile, outstanding, pc, loc, lostRefs, lostOps>>
  BY DEF SpawnCwd, history
<1>2. p \in Procs
  BY FilesAssumption
<1> HIDE DEF p
<1>3. Types /\ PlaceOK(p) /\ ExitOK(p) /\ CwdOK(p) /\ LookOK(p)
  BY Zenon, <1>2 DEF FilesInv, ProcessesOK
<1>4. /\ cwd' \in [Procs -> Inums \cup {None}] /\ cwd'[p] = ROOT_INODE_NO
      /\ \A q \in Procs \ {p} : cwd'[q] = cwd[q]
  BY ZenonT(30), <1>1, <1>2, <1>3, RootIsAnInode DEF Types
<1>5. rc' \in [Inums -> Int] /\ \A j \in Inums : rc'[j] = rc[j] + Is(ROOT_INODE_NO, j)
  BY Zenon, <1>1, <1>3, RootIsAnInode, GetTyped
<1>6. Types'
  BY Zenon, <1>1, <1>3, <1>4, <1>5 DEF Types
<1>7. OthersKeep(p)
  BY Zenon, <1>1, <1>4 DEF OthersKeep
<1>8. Place(p)' = Place(p)
  BY Zenon, <1>1 DEF Place
<1>9. PlaceOK(p)' /\ ExitOK(p)' /\ LookOK(p)'
  BY ZenonT(30), <1>1, <1>3, <1>8 DEF PlaceOK, ExitOK, LookOK
<1>10. CwdOK(p)'
  BY ZenonT(30), <1>1, <1>3, <1>4, <1>8, RootIsAnInode, NoneIsNone DEF CwdOK, p
<1>11. loc[p].then \notin {"set_cwd", "exited"}
  BY Zenon, <1>1, <1>3 DEF CwdOK, PlaceOK, LocalsOK, ExitOK, Place, p
<1>12. Quiet
  <2>1. QuietFor(p)
    BY ZenonT(30), <1>1, <1>8 DEF QuietFor, Excused
  <2> QED
    BY Zenon, <1>1, <1>2, <1>7, <2>1, QuietOthers DEF Quiet
<1>13. RefersRight(p)
  <2>1. CwdAt(p)' = ROOT_INODE_NO /\ CwdAt(p) = None
    BY Zenon, <1>1, <1>4, <1>11 DEF CwdAt
  <2>2. \A j \in Inums : j # None /\ rc[j] \in Int /\ lostRefs[j] \in Int
    BY <1>3, NoneIsNone DEF Types
  <2> QED
    BY <1>1, <1>5, <2>1, <2>2 DEF RefersRight, Is
<1>14. OpsRight(p)
  BY <1>1, <1>3 DEF OpsRight, Busy, Types
<1>15. DiskInv' /\ Grows
  BY Zenon, <1>1, DiskSame
<1>16. Shown(p)
  BY Zenon, <1>2, <1>6, <1>7, <1>9, <1>10, <1>12, <1>13, <1>14, <1>15, QuietShown
<1> QED
  BY Zenon, <1>16 DEF p
=============================================================================
