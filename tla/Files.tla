------------------------------- MODULE Files -------------------------------
(***************************************************************************)
(* Descriptors, open files and in-memory inodes: the file table            *)
(* (src/src/fs/file.c), the file system calls (core/sysfile.c), what       *)
(* execve, fork and exit do to files (core/exec.c, proc.c), and the inode  *)
(* tree under them (fs/inode.c: get, share, put, lookup, namex).           *)
(*                                                                         *)
(* A step runs from the acquire of a lock to the next place where the      *)
(* kernel may have to wait: for the lock of an inode, for room in the log, *)
(* or in end_op for the commit.  The log is seen through begin_op and      *)
(* end_op: a commit is one step of the process that ends the last          *)
(* operation (module Log).  The contents of files are left to module       *)
(* FileBlocks: what execve finds in a file is a choice.  An in-memory      *)
(* inode is known by its number; rc = 0 is an entry that inode_get may     *)
(* give to another inode.  A system call whose arguments are refused       *)
(* changes nothing and is not a step.                                      *)
(***************************************************************************)
EXTENDS Integers, Sequences, FiniteSets, FiniteSetsExt

CONSTANTS
    Procs,        \* slots of the process table
    initproc,     \* the first process
    NumInodes,    \* sblock->num_inodes
    Names,        \* names of files
    Paths,        \* the paths that are passed: [abs: BOOLEAN, elems: Seq(names)]
    NFILE,        \* entries of ftable
    NOFILE,       \* descriptors of a process
    MaxOps,       \* operations that the log has room for at a time
    MaxCalls      \* bound: how many system calls are made

ROOT_INODE_NO == 1
Inums == 1..NumInodes - 1
AllNames == Names \cup {".", ".."}
Files == 1..NFILE
Fds == 1..NOFILE
None == 0

ASSUME FilesAssumption ==
    /\ IsFiniteSet(Procs) /\ initproc \in Procs /\ None \notin Procs
    /\ NumInodes \in Nat /\ NumInodes >= 2
    /\ IsFiniteSet(Names) /\ Names \cap {".", ".."} = {}
    /\ \A path \in Paths : path.abs \in BOOLEAN /\ path.elems \in Seq(AllNames)
    /\ NFILE \in Nat /\ NOFILE \in Nat
    /\ MaxOps \in Nat \ {0} /\ MaxCalls \in Nat

VARIABLES
    dinode,       \* inodes on disk: type, num_links, and the entries of a directory
    rc,           \* Inode.rc of the in-memory inode with this number
    ilock,        \* the process that holds Inode.lock
    file,         \* ftable: ref, type and ip of each file
    ofile,        \* proc.ofile
    cwd,          \* proc.cwd
    outstanding,  \* log.outstanding
    pc,           \* where each process is
    loc,          \* the local variables of its system call
    sys,          \* "up", "panicked" or "undefined"
    lostRefs,     \* history: references that the code drops without a put
    lostOps,      \* history: operations that the code drops without an end_op
    calls

vars == <<dinode, rc, ilock, file, ofile, cwd, outstanding, pc, loc, sys,
          lostRefs, lostOps, calls>>
history == <<lostRefs, lostOps>>

FreeInode == [type |-> "free", num_links |-> 0, entries |-> [n \in AllNames |-> None]]
Directory(self, up) ==
    [type |-> "dir", num_links |-> 1,
     entries |-> [n \in AllNames |->
                    CASE n = "." -> self [] n = ".." -> up [] OTHER -> None]]
NoLocals == [call |-> "none", abs |-> FALSE, rest |-> <<>>, ip |-> None, f |-> None,
             fd |-> None, then |-> "user"]

\* After spawn_init_process has made initproc RUNNABLE; its working directory is
\* still to be set.  init_inodes holds a reference to the root.
Init ==
    /\ dinode = [i \in Inums |-> IF i = ROOT_INODE_NO
                                   THEN Directory(ROOT_INODE_NO, ROOT_INODE_NO)
                                   ELSE FreeInode]
    /\ rc = [i \in Inums |-> IF i = ROOT_INODE_NO THEN 1 ELSE 0]
    /\ ilock = [i \in Inums |-> None]
    /\ file = [f \in Files |-> [ref |-> 0, type |-> "NONE", ip |-> None]]
    /\ ofile = [p \in Procs |-> [fd \in Fds |-> None]]
    /\ cwd = [p \in Procs |-> None]
    /\ outstanding = 0
    /\ pc = [p \in Procs |-> IF p = initproc THEN "user" ELSE "unused"]
    /\ loc = [p \in Procs |-> NoLocals]
    /\ sys = "up"
    /\ lostRefs = [i \in Inums |-> 0] /\ lostOps = 0
    /\ calls = 0

-----------------------------------------------------------------------------
(* Steps and locals.                                                        *)

At(p, label) == sys = "up" /\ pc[p] = label
Goto(p, label) == pc' = [pc EXCEPT ![p] = label]
NoStop == UNCHANGED sys
Unlocked(i) == ilock[i] = None

\* inode_get of an inode that is in memory or not, and inode_share.
Get(r, i) == [r EXCEPT ![i] = @ + 1]

\* inode_put: the last reference to an inode without links frees it on disk.
PutsLast(r, i) == r[i] = 1 /\ dinode[i].num_links = 0
Put(r, i) == [r EXCEPT ![i] = @ - 1]
PutDisk(r, i) == IF PutsLast(r, i) THEN [dinode EXCEPT ![i] = FreeInode] ELSE dinode

\* The system call returns with its inode put, through end_op.
PutAndEnd(p, i, then) ==
    /\ rc' = Put(rc, i) /\ dinode' = PutDisk(rc, i)
    /\ loc' = [loc EXCEPT ![p].then = then, ![p].ip = IF then = "set_cwd" THEN @ ELSE None]
    /\ Goto(p, "end_op")

-----------------------------------------------------------------------------
(* Operations of the log.                                                   *)

\* begin_op waits while the log has no room.
BeginOp(p) ==
    /\ At(p, "begin_op") /\ outstanding < MaxOps
    /\ outstanding' = outstanding + 1
    /\ Goto(p, loc[p].then)
    /\ UNCHANGED <<dinode, rc, ilock, file, ofile, cwd, loc, sys, history, calls>>

\* end_op waits for the commit, which the process that ends the last operation
\* makes; it wakes up the others.
EndOp(p) ==
    /\ At(p, "end_op")
    /\ outstanding' = outstanding - 1
    /\ pc' = IF outstanding = 1
               THEN [q \in Procs |-> IF q = p \/ pc[q] = "ending" THEN loc[q].then ELSE pc[q]]
               ELSE [pc EXCEPT ![p] = "ending"]
    /\ UNCHANGED <<dinode, rc, ilock, file, ofile, cwd, loc, sys, history, calls>>

-----------------------------------------------------------------------------
(* Paths.                                                                   *)

PathCalls == {"open", "creat", "mkdir", "mknod", "chdir", "stat", "exec"}
WantsParent(c) == c \in {"creat", "mkdir", "mknod"}

\* A system call with a path, up to its begin_op.
EnterPath(p, c, path) ==
    /\ At(p, "user") /\ calls < MaxCalls /\ calls' = calls + 1
    /\ loc' = [loc EXCEPT ![p] = [NoLocals EXCEPT !.call = c, !.abs = path.abs,
                                    !.rest = path.elems, !.then = "namex"]]
    /\ Goto(p, "begin_op")
    /\ UNCHANGED <<dinode, rc, ilock, file, ofile, cwd, outstanding, sys, history>>

\* namex starts at the root or at the working directory.  The first process may
\* run before it has one: inode_share(0) is then undefined.
Namex(p) ==
    /\ At(p, "namex")
    /\ LET i == IF loc[p].abs THEN ROOT_INODE_NO ELSE cwd[p] IN
       IF i = None
         THEN sys' = "undefined" /\ UNCHANGED <<rc, loc, pc>>
         ELSE /\ rc' = Get(rc, i)
              /\ loc' = [loc EXCEPT ![p].ip = i]
              /\ Goto(p, "walk") /\ NoStop
    /\ UNCHANGED <<dinode, ilock, file, ofile, cwd, outstanding, history, calls>>

\* namex returns 0.  Every caller then ends its operation and returns -1, but
\* execve, which returns at once.  (The mutant makes stat forget as well.)
ForgetsOpOften == {"exec", "stat"}
ForgetsOp == {"exec"}
NotFound(p) ==
    IF loc[p].call \in ForgetsOp
      THEN /\ Goto(p, "user") /\ loc' = [loc EXCEPT ![p] = NoLocals]
           /\ lostOps' = IF loc[p].call = "exec" THEN lostOps + 1 ELSE lostOps
      ELSE /\ Goto(p, "end_op") /\ loc' = [loc EXCEPT ![p].then = "user", ![p].ip = None]
           /\ UNCHANGED lostOps

\* The round in which no element is left: namei returns the inode, nameiparent
\* has none to return.
WalkEnd(p, i) ==
    /\ loc[p].rest = <<>>
    /\ IF WantsParent(loc[p].call)
         THEN rc' = Put(rc, i) /\ dinode' = PutDisk(rc, i) /\ NotFound(p)
         ELSE Goto(p, loc[p].call) /\ UNCHANGED <<rc, dinode, loc, lostOps>>
    /\ UNCHANGED lostRefs

\* The next element is looked up in inode i, which is locked.  What is not a
\* directory is put; what does not hold the name is not; otherwise the walk goes
\* on.  (The mutant does not put the directory it leaves.)
LeaveUnput(r, i) == r
Leave(r, i) == Put(r, i)
WalkElement(p, i) ==
    LET nx == dinode[i].entries[Head(loc[p].rest)] IN
    /\ loc[p].rest # <<>> /\ Unlocked(i)
    /\ \/ /\ dinode[i].type # "dir"
          /\ rc' = Put(rc, i) /\ dinode' = PutDisk(rc, i)
          /\ NotFound(p)
          /\ UNCHANGED lostRefs
       \/ /\ dinode[i].type = "dir" /\ WantsParent(loc[p].call) /\ Len(loc[p].rest) = 1
          /\ Goto(p, "create")
          /\ UNCHANGED <<rc, dinode, loc, history>>
       \/ /\ dinode[i].type = "dir" /\ ~(WantsParent(loc[p].call) /\ Len(loc[p].rest) = 1)
          /\ nx = None
          /\ lostRefs' = [lostRefs EXCEPT ![i] = @ + 1]
          /\ NotFound(p)
          /\ UNCHANGED <<rc, dinode>>
       \/ /\ dinode[i].type = "dir" /\ ~(WantsParent(loc[p].call) /\ Len(loc[p].rest) = 1)
          /\ nx # None
          /\ rc' = Leave(Get(rc, nx), i) /\ dinode' = PutDisk(Get(rc, nx), i)
          /\ loc' = [loc EXCEPT ![p].ip = nx, ![p].rest = Tail(@)]
          /\ UNCHANGED <<pc, history>>

\* One round of the loop of namex.
Walk(p) ==
    /\ At(p, "walk")
    /\ WalkEnd(p, loc[p].ip) \/ WalkElement(p, loc[p].ip)
    /\ UNCHANGED <<ilock, file, ofile, cwd, outstanding, sys, calls>>

-----------------------------------------------------------------------------
(* create, with the parent directory in loc.ip and the name in loc.rest.    *)

Dp(p) == loc[p].ip
NameOf(p) == Head(loc[p].rest)

\* The directory is locked and searched.  (The mutant searches it unlocked.)
LookUnlocked(p) == UNCHANGED ilock
LookLocked(p) == Unlocked(Dp(p)) /\ ilock' = [ilock EXCEPT ![Dp(p)] = p]
CreateLookup(p) ==
    /\ At(p, "create") /\ LookLocked(p)
    /\ Goto(p, IF dinode[Dp(p)].entries[NameOf(p)] # None THEN "exists" ELSE "new")
    /\ UNCHANGED <<dinode, rc, file, ofile, cwd, outstanding, loc, sys, history, calls>>

\* The name is taken: the directory is unlocked and put.
CreateExists(p) ==
    LET ip == dinode[Dp(p)].entries[NameOf(p)] IN
    /\ At(p, "exists")
    /\ ilock' = [ilock EXCEPT ![Dp(p)] = None]
    /\ rc' = Put(Get(rc, ip), Dp(p)) /\ dinode' = PutDisk(Get(rc, ip), Dp(p))
    /\ loc' = [loc EXCEPT ![p].ip = ip]
    /\ Goto(p, "check")
    /\ UNCHANGED <<file, ofile, cwd, outstanding, sys, history, calls>>

\* Only a regular file may be created again.  For the others the arguments of
\* inodes.put are swapped: ctx is taken for the inode, and what is decremented is
\* a word of the caller's stack; the inode keeps its reference.
CreateCheck(p) ==
    LET ip == loc[p].ip IN
    /\ At(p, "check") /\ Unlocked(ip)
    /\ \/ /\ loc[p].call = "creat" /\ dinode[ip].type = "file"
          /\ ilock' = [ilock EXCEPT ![ip] = p]
          /\ Goto(p, "opened")
          /\ UNCHANGED <<loc, lostRefs>>
       \/ /\ ~(loc[p].call = "creat" /\ dinode[ip].type = "file")
          /\ lostRefs' = [lostRefs EXCEPT ![ip] = @ + 1]
          /\ loc' = [loc EXCEPT ![p].then = "user", ![p].ip = None]
          /\ Goto(p, "end_op")
          /\ UNCHANGED ilock
    /\ UNCHANGED <<dinode, rc, file, ofile, cwd, outstanding, sys, lostOps, calls>>

\* inode_alloc takes the first free inode.  Its search goes one past the last
\* inode, to an entry that mkfs left zero; inode_get then fails its assertion.
FreeInums == {i \in Inums : dinode[i].type = "free"} \cup {NumInodes}
NewLinks == 1
TypeOf(c) == CASE c = "creat" -> "file" [] c = "mkdir" -> "dir" [] c = "mknod" -> "dev"
Made(c, i, dp) ==
    [ (IF c = "mkdir" THEN Directory(i, dp) ELSE FreeInode)
      EXCEPT !.type = TypeOf(c), !.num_links = NewLinks ]
CreateNew(p) ==
    LET i == Min(FreeInums)
        dp == Dp(p)
    IN
    /\ At(p, "new")
    /\ IF i = NumInodes
         THEN sys' = "panicked" /\ UNCHANGED <<dinode, rc, ilock, loc, pc>>
         ELSE /\ dinode' = [dinode EXCEPT
                     ![i] = Made(loc[p].call, i, dp),
                     ![dp].num_links = IF loc[p].call = "mkdir" THEN @ + 1 ELSE @,
                     ![dp].entries[NameOf(p)] = i]
              /\ rc' = Put(Get(rc, i), dp)
              /\ ilock' = [ilock EXCEPT ![i] = p, ![dp] = None]
              /\ loc' = [loc EXCEPT ![p].ip = i]
              /\ Goto(p, IF loc[p].call = "creat" THEN "opened" ELSE "made")
              /\ NoStop
    /\ UNCHANGED <<file, ofile, cwd, outstanding, history, calls>>

\* sys_mkdirat and sys_mknodat put what create returned.
Finish(p) ==
    /\ At(p, "made")
    /\ ilock' = [ilock EXCEPT ![loc[p].ip] = None]
    /\ PutAndEnd(p, loc[p].ip, "user")
    /\ UNCHANGED <<file, ofile, cwd, outstanding, sys, history, calls>>

-----------------------------------------------------------------------------
(* openat, fstatat, chdir and execve, with the inode in loc.ip.             *)

OpenLock(p) ==
    /\ At(p, "open") /\ Unlocked(loc[p].ip)
    /\ ilock' = [ilock EXCEPT ![loc[p].ip] = p]
    /\ Goto(p, "opened")
    /\ UNCHANGED <<dinode, rc, file, ofile, cwd, outstanding, loc, sys, history, calls>>

\* filealloc and fdalloc take the first free entries.  Without one of them the
\* inode is put.  (The mutant does not unlock it.)
FreeFiles == {f \in Files : file[f].ref = 0}
FreeFds(p) == {fd \in Fds : ofile[p][fd] = None}
OpenFails(p) == PutAndEnd(p, loc[p].ip, "user")
UnlockForgotten(i) == ilock
Unlock(i) == [ilock EXCEPT ![i] = None]
Open(p) ==
    /\ At(p, "opened")
    /\ ilock' = Unlock(loc[p].ip)
    /\ \/ /\ FreeFiles = {} \/ FreeFds(p) = {}
          /\ OpenFails(p)
          /\ UNCHANGED <<file, ofile>>
       \/ /\ FreeFiles # {} /\ FreeFds(p) # {}
          /\ file' = [file EXCEPT ![Min(FreeFiles)].ref = 1]
          /\ ofile' = [ofile EXCEPT ![p][Min(FreeFds(p))] = Min(FreeFiles)]
          /\ loc' = [loc EXCEPT ![p].f = Min(FreeFiles), ![p].then = "install"]
          /\ Goto(p, "end_op")
          /\ UNCHANGED <<rc, dinode>>
    /\ UNCHANGED <<cwd, outstanding, sys, history, calls>>

\* After end_op the file gets its inode.
Install(p) ==
    /\ At(p, "install")
    /\ file' = [file EXCEPT ![loc[p].f].type = "INODE", ![loc[p].f].ip = loc[p].ip]
    /\ loc' = [loc EXCEPT ![p] = NoLocals]
    /\ Goto(p, "user")
    /\ UNCHANGED <<dinode, rc, ilock, ofile, cwd, outstanding, sys, history, calls>>

Stat(p) ==
    /\ At(p, "stat") /\ Unlocked(loc[p].ip)
    /\ PutAndEnd(p, loc[p].ip, "user")
    /\ UNCHANGED <<ilock, file, ofile, cwd, outstanding, sys, history, calls>>

\* chdir puts the old directory, ends the operation, and then takes the new one.
Leaves(p) == cwd[p]
Chdir(p) ==
    /\ At(p, "chdir") /\ Unlocked(loc[p].ip)
    /\ \/ /\ dinode[loc[p].ip].type # "dir"
          /\ PutAndEnd(p, loc[p].ip, "user")
          /\ NoStop
       \/ /\ dinode[loc[p].ip].type = "dir"
          /\ IF cwd[p] = None
               THEN sys' = "undefined" /\ UNCHANGED <<rc, dinode, loc, pc>>
               ELSE PutAndEnd(p, Leaves(p), "set_cwd") /\ NoStop
    /\ UNCHANGED <<ilock, file, ofile, cwd, outstanding, history, calls>>
SetCwd(p) ==
    /\ At(p, "set_cwd")
    /\ cwd' = [cwd EXCEPT ![p] = loc[p].ip]
    /\ loc' = [loc EXCEPT ![p] = NoLocals]
    /\ Goto(p, "user")
    /\ UNCHANGED <<dinode, rc, ilock, file, ofile, outstanding, sys, history, calls>>

\* execve reads the file.  It is a program; or it is too short or broken, which
\* returns through bad without end_op; or it starts with something else.
Exec(p) ==
    /\ At(p, "exec") /\ Unlocked(loc[p].ip)
    /\ \/ /\ dinode[loc[p].ip].type = "file"
          /\ PutAndEnd(p, loc[p].ip, "user")
          /\ UNCHANGED <<sys, lostOps>>
       \/ /\ rc' = Put(rc, loc[p].ip) /\ dinode' = PutDisk(rc, loc[p].ip)
          /\ loc' = [loc EXCEPT ![p] = NoLocals]
          /\ lostOps' = lostOps + 1
          /\ Goto(p, "user") /\ NoStop
       \/ /\ dinode[loc[p].ip].type # "dev"
          /\ sys' = "panicked"
          /\ UNCHANGED <<rc, dinode, loc, pc, lostOps>>
    /\ UNCHANGED <<ilock, file, ofile, cwd, outstanding, lostRefs, calls>>

-----------------------------------------------------------------------------
(* Calls on descriptors.                                                    *)

Opened(p) == {fd \in Fds : ofile[p][fd] # None}

\* filewrite: one operation, with the inode locked.  A count above the limit of
\* one operation ends in a panic.
EnterWrite(p, fd) ==
    /\ At(p, "user") /\ fd \in Opened(p) /\ calls < MaxCalls /\ calls' = calls + 1
    /\ loc' = [loc EXCEPT ![p] = [NoLocals EXCEPT !.call = "write", !.f = ofile[p][fd],
                                    !.then = "write"]]
    /\ Goto(p, "begin_op")
    /\ UNCHANGED <<dinode, rc, ilock, file, ofile, cwd, outstanding, sys, history>>
Write(p) ==
    /\ At(p, "write") /\ Unlocked(file[loc[p].f].ip)
    /\ \/ Goto(p, "end_op") /\ loc' = [loc EXCEPT ![p].then = "user"] /\ NoStop
       \/ sys' = "panicked" /\ UNCHANGED <<pc, loc>>
    /\ UNCHANGED <<dinode, rc, ilock, file, ofile, cwd, outstanding, history, calls>>

\* dup: fdalloc, then filedup.  (The mutant does not count.)
DupUncounted(f) == file
Filedup(f) == [file EXCEPT ![f].ref = @ + 1]
Dup(p, fd) ==
    /\ At(p, "user") /\ fd \in Opened(p) /\ FreeFds(p) # {}
    /\ calls < MaxCalls /\ calls' = calls + 1
    /\ ofile' = [ofile EXCEPT ![p][Min(FreeFds(p))] = ofile[p][fd]]
    /\ file' = Filedup(ofile[p][fd])
    /\ UNCHANGED <<dinode, rc, ilock, cwd, outstanding, pc, loc, sys, history>>

\* close clears the descriptor first; exit clears it after fileclose.
Close(p, fd) ==
    /\ At(p, "user") /\ fd \in Opened(p) /\ calls < MaxCalls /\ calls' = calls + 1
    /\ loc' = [loc EXCEPT ![p] = [NoLocals EXCEPT !.call = "close", !.f = ofile[p][fd]]]
    /\ ofile' = [ofile EXCEPT ![p][fd] = None]
    /\ Goto(p, "fileclose")
    /\ UNCHANGED <<dinode, rc, ilock, file, cwd, outstanding, sys, history>>

\* fileclose: the last reference gives the inode back, in an operation of its own.
IsLast(f) == file[f].ref = 1
FileClose(p) ==
    LET f == loc[p].f IN
    /\ At(p, "fileclose")
    /\ file' = [file EXCEPT ![f].ref = @ - 1,
                            ![f].type = IF IsLast(f) THEN "NONE" ELSE @]
    /\ IF IsLast(f) /\ file[f].type = "INODE"
         THEN /\ loc' = [loc EXCEPT ![p].ip = file[f].ip, ![p].then = "put_file"]
              /\ Goto(p, "begin_op")
         ELSE /\ Goto(p, IF loc[p].call = "exit" THEN "exit" ELSE "user")
              /\ UNCHANGED loc
    /\ UNCHANGED <<dinode, rc, ilock, ofile, cwd, outstanding, sys, history, calls>>
PutFile(p) ==
    /\ At(p, "put_file")
    /\ PutAndEnd(p, loc[p].ip, IF loc[p].call = "exit" THEN "exit" ELSE "user")
    /\ UNCHANGED <<ilock, file, ofile, cwd, outstanding, sys, history, calls>>

-----------------------------------------------------------------------------
(* Processes.                                                               *)

\* spawn_init_process sets the working directory of initproc, in an operation of
\* the process that runs forkret.
SpawnCwd ==
    /\ sys = "up" /\ cwd[initproc] = None /\ outstanding < MaxOps
    /\ cwd' = [cwd EXCEPT ![initproc] = ROOT_INODE_NO]
    /\ rc' = Get(rc, ROOT_INODE_NO)
    /\ UNCHANGED <<dinode, ilock, file, ofile, outstanding, pc, loc, sys, history, calls>>

\* fork: the child shares the files and the working directory.  (The mutant does
\* not share the directory.)
SharesFiles(p) ==
    [f \in Files |-> [file[f] EXCEPT !.ref = @ + Cardinality({fd \in Fds : ofile[p][fd] = f})]]
SharesCwd(p) == Get(rc, cwd[p])
ChildCwdUnset(p) == None
ChildCwd(p) == cwd[p]
Fork(p, q) ==
    /\ At(p, "user") /\ pc[q] = "unused" /\ calls < MaxCalls /\ calls' = calls + 1
    /\ IF cwd[p] = None
         THEN sys' = "undefined" /\ UNCHANGED <<file, ofile, cwd, rc, pc, loc>>
         ELSE /\ file' = SharesFiles(p)
              /\ ofile' = [ofile EXCEPT ![q] = ofile[p]]
              /\ rc' = SharesCwd(p)
              /\ cwd' = [cwd EXCEPT ![q] = ChildCwd(p)]
              /\ pc' = [pc EXCEPT ![q] = "user"]
              /\ loc' = [loc EXCEPT ![q] = NoLocals]
              /\ NoStop
    /\ UNCHANGED <<dinode, ilock, outstanding, history>>

\* exit closes the files one after the other, and clears each descriptor when
\* fileclose has returned.
EnterExit(p) ==
    /\ At(p, "user") /\ p # initproc /\ calls < MaxCalls /\ calls' = calls + 1
    /\ loc' = [loc EXCEPT ![p] = [NoLocals EXCEPT !.call = "exit"]]
    /\ Goto(p, "exit")
    /\ UNCHANGED <<dinode, rc, ilock, file, ofile, cwd, outstanding, sys, history>>
ExitLoop(p) ==
    LET left == Opened(p) \ {loc[p].fd} IN
    /\ At(p, "exit")
    /\ ofile' = [ofile EXCEPT ![p] = [fd \in Fds |-> IF fd \in left THEN @[fd] ELSE None]]
    /\ \/ /\ left # {}
          /\ loc' = [loc EXCEPT ![p].fd = Min(left), ![p].f = ofile[p][Min(left)]]
          /\ Goto(p, "fileclose")
       \/ /\ left = {}
          /\ loc' = [loc EXCEPT ![p].fd = None, ![p].then = "put_cwd"]
          /\ Goto(p, "begin_op")
    /\ UNCHANGED <<dinode, rc, ilock, file, cwd, outstanding, sys, history, calls>>
ExitPutCwd(p) ==
    /\ At(p, "put_cwd")
    /\ PutAndEnd(p, cwd[p], "exited")
    /\ UNCHANGED <<ilock, file, ofile, cwd, outstanding, sys, history, calls>>
Exited(p) ==
    /\ At(p, "exited")
    /\ cwd' = [cwd EXCEPT ![p] = None]
    /\ loc' = [loc EXCEPT ![p] = NoLocals]
    /\ Goto(p, "unused")
    /\ UNCHANGED <<dinode, rc, ilock, file, ofile, outstanding, sys, history, calls>>

-----------------------------------------------------------------------------
\* What a process in a system call does next; and the calls it may make.
Step(p) ==
    \/ BeginOp(p) \/ EndOp(p) \/ Namex(p) \/ Walk(p)
    \/ CreateLookup(p) \/ CreateExists(p) \/ CreateCheck(p) \/ CreateNew(p) \/ Finish(p)
    \/ OpenLock(p) \/ Open(p) \/ Install(p) \/ Stat(p) \/ Chdir(p) \/ SetCwd(p) \/ Exec(p)
    \/ Write(p) \/ FileClose(p) \/ PutFile(p) \/ ExitLoop(p) \/ ExitPutCwd(p) \/ Exited(p)

Call(p) ==
    \/ \E c \in PathCalls, path \in Paths : EnterPath(p, c, path)
    \/ \E fd \in Fds : EnterWrite(p, fd) \/ Dup(p, fd) \/ Close(p, fd)
    \/ \E q \in Procs : Fork(p, q)
    \/ EnterExit(p)

Next == SpawnCwd \/ \E p \in Procs : Step(p) \/ Call(p)

Spec == Init /\ [][Next]_vars

\* Every CPU goes on with the system call it runs, and the spawner with its own.
FairSpec == Spec /\ WF_vars(SpawnCwd) /\ \A p \in Procs : WF_vars(Step(p))

-----------------------------------------------------------------------------
(* Properties.                                                              *)

Labels == PathCalls \cup
    {"unused", "user", "begin_op", "end_op", "ending", "namex", "walk", "create", "exists",
     "new", "check", "opened", "made", "install", "set_cwd", "write", "fileclose",
     "put_file", "exit", "put_cwd", "exited"}

\* The variables have their types; a reference count is never negative.
TypeOK ==
    /\ \A i \in Inums : dinode[i].type \in {"free", "dir", "file", "dev"}
    /\ rc \in [Inums -> Nat] /\ lostRefs \in [Inums -> Nat]
    /\ ilock \in [Inums -> Procs \cup {None}]
    /\ \A f \in Files : file[f].ref \in Nat /\ file[f].ip \in Inums \cup {None}
    /\ ofile \in [Procs -> [Fds -> Files \cup {None}]]
    /\ cwd \in [Procs -> Inums \cup {None}]
    /\ pc \in [Procs -> Labels]
    /\ outstanding \in 0..MaxOps /\ lostOps \in Nat

\* Who refers to inode i: init_inodes to the root, processes by their working
\* directory (until chdir and exit have put it), open files, system calls.
CwdHolders(i) == {p \in Procs : cwd[p] = i /\ loc[p].then \notin {"set_cwd", "exited"}}
FileHolders(i) == {f \in Files : file[f].ref > 0 /\ file[f].type = "INODE" /\ file[f].ip = i}
CallHolders(i) == {p \in Procs : loc[p].ip = i}
Holders(i) ==
    Cardinality(CwdHolders(i)) + Cardinality(FileHolders(i)) + Cardinality(CallHolders(i))
    + (IF i = ROOT_INODE_NO THEN 1 ELSE 0)

\* Inode reference counts: get, share and put balance over every path of every
\* system call, its failures included, but for the two places that drop a
\* reference (namex on a missing name, create on a name that is taken).  So an
\* inode in use is never given to another inode number by inode_get.
RcExact == \A i \in Inums : rc[i] = Holders(i) + lostRefs[i]

\* File reference counts: ref is the number of descriptors, over dup, fork, close,
\* exit and failed opens of all processes.
Descriptors(f) ==
    {x \in Procs \X Fds :
        /\ ofile[x[1]][x[2]] = f
        /\ ~(loc[x[1]].call = "exit" /\ loc[x[1]].fd = x[2] /\ pc[x[1]] # "fileclose")}
BeingClosed(f) == {p \in Procs : pc[p] = "fileclose" /\ loc[p].call = "close" /\ loc[p].f = f}
RefExact ==
    \A f \in Files :
        file[f].ref = Cardinality(Descriptors(f)) + Cardinality(BeingClosed(f))

\* Operations: what begin_op counts, end_op takes back, on every path of every
\* system call but those of execve that return without end_op.
InOp == {p \in Procs : pc[p] \notin {"unused", "user", "begin_op", "ending", "install",
                                     "set_cwd", "fileclose", "exit", "exited"}}
OpsExact == outstanding = Cardinality(InOp) + lostOps

\* The directories form a tree, whatever is created at the same time: every
\* allocated inode but the root has one name, every name an allocated inode, ".."
\* leads back, and a directory has a link for each of its subdirectories.
Allocated == {i \in Inums : dinode[i].type # "free"}
NamesOf(i) == {x \in Allocated \X Names : dinode[x[1]].entries[x[2]] = i}
Subdirs(d) == {i \in Allocated \ {ROOT_INODE_NO} :
                 dinode[i].type = "dir" /\ dinode[i].entries[".."] = d}
TreeIntact ==
    /\ \A i \in Allocated \ {ROOT_INODE_NO} :
          /\ Cardinality(NamesOf(i)) = 1
          /\ dinode[i].type = "dir" =>
                \A x \in NamesOf(i) : dinode[i].entries[".."] = x[1]
    /\ \A i \in Inums \ Allocated : NamesOf(i) = {}
    /\ \A d \in Allocated :
          dinode[d].num_links = 1 + IF dinode[d].type = "dir" THEN Cardinality(Subdirs(d)) ELSE 0

\* No process but the first ever runs without a working directory, and the first
\* only until spawn_init_process has set it.
UndefinedOnlyAtBoot == sys = "undefined" => cwd[initproc] = None

\* Every system call returns, unless execve has dropped an operation before: the
\* lock of an inode is always released, and end_op is always woken up.
Returned(p) == pc[p] \in {"user", "unused"}
CallsReturn ==
    \A p \in Procs : ~Returned(p) ~> (Returned(p) \/ lostOps > 0 \/ sys # "up")

\* end_op "returns when all associated blocks are persisted to disk" (cache.h:85),
\* and with it every system call returns, whatever was called before.
EveryCallReturns == \A p \in Procs : ~Returned(p) ~> (Returned(p) \/ sys # "up")
=============================================================================
