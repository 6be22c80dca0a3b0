---------------------------- MODULE FilesTable ----------------------------
(***************************************************************************)
(* What the steps that open, share and close files show for the invariant  *)
(* of FilesSteps.                                                          *)
(***************************************************************************)
EXTENDS FilesSteps

\* Who refers to a file, told by RefAt and ClosesAt,
LEMMA RefsTold ==
  \A f \in Files :
     /\ \A q \in Procs, e \in Fds : <<q, e>> \in Descriptors(f) <=> RefAt(q, e) = f
     /\ \A q \in Procs : q \in BeingClosed(f) <=> ClosesAt(q) = f
<1> SUFFICES ASSUME NEW f \in Files
    PROVE  /\ \A q \in Procs, e \in Fds : <<q, e>> \in Descriptors(f) <=> RefAt(q, e) = f
           /\ \A q \in Procs : q \in BeingClosed(f) <=> ClosesAt(q) = f
  OBVIOUS
<1>1. f # None
  BY NoneIsNone
<1>2. ASSUME NEW q \in Procs, NEW e \in Fds
      PROVE  <<q, e>> \in Descriptors(f) <=> RefAt(q, e) = f
  <2>1. <<q, e>> \in Descriptors(f) <=> ofile[q][e] = f /\ e # Excused(q)
    BY DescriptorsTold
  <2> QED
    BY Zenon, <1>1, <2>1 DEF RefAt
<1>3. ASSUME NEW q \in Procs PROVE q \in BeingClosed(f) <=> ClosesAt(q) = f
  BY Zenon, <1>1 DEF BeingClosed, ClosesAt
<1> QED
  BY Zenon, <1>2, <1>3

\* and in the state after a step.
LEMMA RefsToldAfter ==
  (\A f \in Files :
     /\ \A q \in Procs, e \in Fds : <<q, e>> \in Descriptors(f) <=> RefAt(q, e) = f
     /\ \A q \in Procs : q \in BeingClosed(f) <=> ClosesAt(q) = f)'
  BY RefsTold, PTL

\* Descriptors are pairs of a process and a number,
LEMMA DescriptorsPairs ==
  \A f : /\ \A x \in Descriptors(f) : \E q \in Procs, e \in Fds : x = <<q, e>>
         /\ BeingClosed(f) \subseteq Procs
  BY DEF Descriptors, BeingClosed

\* and in the state after a step.
LEMMA DescriptorsPairsAfter ==
  (\A f : /\ \A x \in Descriptors(f) : \E q \in Procs, e \in Fds : x = <<q, e>>
          /\ BeingClosed(f) \subseteq Procs)'
  BY DescriptorsPairs, PTL

\* The file that an open has taken is used by that open alone.
LEMMA PendUses ==
  ASSUME Counting, NEW q \in Procs, Place(q) = "install"
  PROVE  /\ loc[q].f \in Files /\ file[loc[q].f].type = "NONE"
         /\ file[loc[q].f].ref # 0 /\ UsesFile(q, loc[q].f)
         /\ \A u \in Procs : ClosesAt(u) # loc[q].f
         /\ \A u \in Procs : UsesFile(u, loc[q].f) => u = q
  BY Zenon DEF Counting

\* A step that opens, shares or closes a file, or that moves a reference to an
\* inode between a file and a call.
LEMMA FileStepShown ==
  ASSUME FilesInv, NEW p \in Procs, NEW l \in Labels, NEW r \in Locals,
         NEW w \in Inums \cup {None}, Moved(p, l, r, w), StillTyped, dinode' = dinode,
         LocalsOK(l, r), l \notin {"create", "exists", "new"}, ExitOK(p)', CwdOK(p)',
         FileInv', Brings(p), PendFor(p)', NEW d, RefMoves(p, d), NEW f, RcMoves(p, f),
         OpsRight(p)
  PROVE  Shown(p)
<1>1. Types
  BY Zenon DEF FilesInv
<1>2. Types' /\ OthersKeep(p) /\ pc'[p] = l /\ loc'[p] = r
  BY ZenonT(30), <1>1, MovedTyped DEF AfterMove
<1>3. PlaceOK(p)' /\ LookOK(p)'
  BY Zenon, <1>2 DEF PlaceOK, LookOK, LookAt
<1>4. DiskInv' /\ Grows
  BY Zenon, DiskSame
<1>5. Placed(p)
  BY Zenon, <1>2, <1>3, <1>4 DEF Placed
<1> QED
  BY Zenon, <1>5 DEF Shown, Filed

\* A file without references is used by nobody.
LEMMA FreeUnused ==
  ASSUME Counting, NEW f \in Files, file[f].ref = 0
  PROVE  \A u \in Procs : ~UsesFile(u, f)
  BY Zenon DEF Counting

\* No process is given the file, or an inode, in a step that keeps them.
LEMMA RcMovesKeep ==
  ASSUME FilesInv, Types', NEW p \in Procs, OthersKeep(p), NEW f,
         \A g \in Files : FileAt(g)' = FileAt(g), RefersRight(p)
  PROVE  RcMoves(p, f)
<1>1. \A q \in Procs \ {p} : CwdAt(q)' = CwdAt(q) /\ loc'[q].ip = loc[q].ip
  BY ZenonT(30) DEF OthersKeep, CwdAt
<1>2. \A i \in Inums : rc[i] \in Int /\ lostRefs[i] \in Int /\ lostRefs'[i] \in Int
  BY DEF FilesInv, Types
<1>3. ASSUME NEW i \in Inums
      PROVE  rc'[i] = rc[i] + Is(CwdAt(p)', i) - Is(CwdAt(p), i)
                       + Is(loc'[p].ip, i) - Is(loc[p].ip, i)
                       + Is(FileAt(f)', i) - Is(FileAt(f), i)
                       + lostRefs'[i] - lostRefs[i]
  <2>1. FileAt(f)' = FileAt(f)
    BY ZenonT(30) DEF FileAt
  <2>2. PICK n : n = rc[i] + Is(CwdAt(p)', i) - Is(CwdAt(p), i)
                       + Is(loc'[p].ip, i) - Is(loc[p].ip, i)
    BY Zenon
  <2>3. PICK k : k = Is(FileAt(f), i)
    BY Zenon
  <2>4. n \in Int /\ k \in Int
    BY SMTT(30), <1>2, <2>2, <2>3 DEF Is
  <2>5. rc'[i] = n + lostRefs'[i] - lostRefs[i]
    BY Zenon, <2>2 DEF RefersRight
  <2>6. n + lostRefs'[i] - lostRefs[i] = n + k - k + lostRefs'[i] - lostRefs[i]
    BY <1>2, <2>4
  <2> QED
    BY Zenon, <2>1, <2>2, <2>3, <2>5, <2>6
<1> QED
  BY Zenon, <1>1, <1>2, <1>3 DEF RcMoves

\* The slots filealloc and fdalloc choose are free.
LEMMA FreeTaken ==
  ASSUME FilesInv, Counting, NEW p \in Procs, FreeFiles # {}, FreeFds(p) # {}
  PROVE  /\ Min(FreeFiles) \in Files /\ file[Min(FreeFiles)].ref = 0
         /\ Min(FreeFds(p)) \in Fds /\ ofile[p][Min(FreeFds(p))] = None
<1>1. FreeFiles \in SUBSET Nat /\ FreeFds(p) \in SUBSET Nat
  BY FilesAssumption DEF FreeFiles, FreeFds, Files, Fds
<1>2. Min(FreeFiles) \in FreeFiles /\ Min(FreeFds(p)) \in FreeFds(p)
  BY ZenonT(30), <1>1, MinIn
<1> QED
  BY Zenon, <1>2 DEF FreeFiles, FreeFds

\* The table of descriptors of p with one changed.
LEMMA SetDescriptor ==
  ASSUME Types, NEW p \in Procs, NEW d \in Fds, NEW f \in Files \cup {None},
         ofile' = [ofile EXCEPT ![p][d] = f]
  PROVE  /\ ofile' \in [Procs -> [Fds -> Files \cup {None}]]
         /\ ofile'[p][d] = f /\ \A e \in Fds \ {d} : ofile'[p][e] = ofile[p][e]
         /\ \A q \in Procs \ {p} : ofile'[q] = ofile[q]
  BY DEF Types

\* A file with some of its members changed.
FileIs(x, n, t, i) == x \in File /\ x.ref = n /\ x.type = t /\ x.ip = i

\* What assignments to a file change: its count,
LEMMA SetRef ==
  ASSUME NEW x \in File, NEW n \in Int
  PROVE  FileIs([x EXCEPT !.ref = n], n, x.type, x.ip)
  BY Zenon DEF File, FileIs

\* its count and its type,
LEMMA SetRefType ==
  ASSUME NEW x \in File, NEW n \in Int, NEW t \in {"NONE", "INODE"}
  PROVE  FileIs([x EXCEPT !.ref = n, !.type = t], n, t, x.ip)
  BY Zenon DEF File, FileIs

\* its type and its inode.
LEMMA SetTypeIp ==
  ASSUME NEW x \in File, NEW t \in {"NONE", "INODE"}, NEW i \in Inums \cup {None}
  PROVE  FileIs([x EXCEPT !.type = t, !.ip = i], x.ref, t, i)
  BY Zenon DEF File, FileIs

FileChanges(f, n, t, i) ==
    /\ file' \in [Files -> File] /\ FileIs(file'[f], n, t, i)
    /\ \A g \in Files \ {f} : file'[g] = file[g]

\* The file table after a change of one file.
LEMMA ChangeFile ==
  ASSUME Types, NEW f \in Files, NEW x, NEW n, NEW t, NEW i, FileIs(x, n, t, i),
         file' = [file EXCEPT ![f] = x]
  PROVE  FileChanges(f, n, t, i)
<1>1. file \in [Files -> File] /\ x \in File
  BY Zenon DEF Types, FileIs
<1>2. /\ file' \in [Files -> File] /\ file'[f] = x
      /\ \A g \in Files \ {f} : file'[g] = file[g]
  BY SMTT(30), <1>1
<1> QED
  BY Zenon, <1>2 DEF FileChanges

\* openat takes a file and a descriptor; the file has no inode yet.
Opens(p, f, d) ==
    /\ file' = [file EXCEPT ![f].ref = 1]
    /\ ofile' = [ofile EXCEPT ![p][d] = f]
    /\ loc' = [loc EXCEPT ![p].f = f, ![p].then = "install"]
    /\ Goto(p, "end_op") /\ UNCHANGED <<rc, dinode>>

\* An open() that finds a free file and a free descriptor takes a step as Shown has it,
LEMMA OpensShown ==
  ASSUME FilesInv, Counting, NEW p \in Procs, Open(p), NEW f \in Files, NEW d \in Fds,
         file[f].ref = 0, ofile[p][d] = None, Opens(p, f, d)
  PROVE  Shown(p)
<1>1. /\ pc[p] = "opened" /\ ilock' = Unlock(loc[p].ip)
      /\ UNCHANGED <<cwd, outstanding, lostRefs, lostOps>>
  BY SMTT(30) DEF Open, At, history
<1>2. /\ Types /\ loc[p].ip \in Inums /\ loc[p].call # "exit" /\ loc[p] \in Locals
      /\ loc[p].then \notin {"set_cwd", "exited"}
  BY Zenon, <1>1, AtPlace
<1>3. /\ ExitOK(p) /\ CwdOK(p) /\ FileInv /\ RefExact
  BY Zenon DEF FilesInv, ProcessesOK
<1>4. UNCHANGED <<rc, dinode>>
  BY ZenonT(30) DEF Opens
<1> DEFINE r == [loc[p] EXCEPT !.f = f, !.then = "install"]
<1>5. "install" \in Labels /\ "end_op" \in Labels /\ f \in Files \cup {None}
  BY DEF Labels
<1>6. Are(r, loc[p].call, loc[p].rest, loc[p].ip, f, loc[p].fd, "install")
  BY Zenon, <1>2, <1>5, SetFThen
<1>7. pc' = [pc EXCEPT ![p] = "end_op"] /\ loc' = [loc EXCEPT ![p] = r]
  BY Zenon DEF Goto, Opens
<1> HIDE DEF r
<1>8. r \in Locals /\ r.call = loc[p].call /\ r.ip = loc[p].ip /\ r.f = f /\ r.then = "install"
  BY Zenon, <1>6 DEF Are
<1>9. /\ ofile' \in [Procs -> [Fds -> Files \cup {None}]]
      /\ ofile'[p][d] = f /\ \A e \in Fds \ {d} : ofile'[p][e] = ofile[p][e]
      /\ \A q \in Procs \ {p} : ofile'[q] = ofile[q]
  BY Zenon, <1>2, <1>5, SetDescriptor DEF Opens
<1>10. FileChanges(f, 1, file[f].type, file[f].ip)
  <2>1. file[f] \in File
    BY Zenon, <1>2 DEF Types
  <2>2. FileIs([file[f] EXCEPT !.ref = 1], 1, file[f].type, file[f].ip)
    BY <2>1, SetRef
  <2> QED
    BY Zenon, <1>2, <2>2, ChangeFile DEF Opens
<1>11. /\ file' \in [Files -> File] /\ file'[f].ref = 1 /\ file'[f].type = file[f].type
       /\ file'[f].ip = file[f].ip /\ file[f].type = "NONE"
       /\ \A g \in Files \ {f} : file'[g] = file[g]
  BY Zenon, <1>3, <1>10 DEF FileInv, FileChanges, FileIs
<1>12. Moved(p, "end_op", r, cwd[p])
  <2>1. cwd' = [cwd EXCEPT ![p] = cwd[p]]
    BY <1>1, <1>2 DEF Types
  <2> QED
    BY ZenonT(30), <1>1, <1>7, <1>9, <1>11, <2>1 DEF Moved
<1>13. StillTyped
  <2>1. ilock' \in [Inums -> Procs \cup {None}]
    BY SMTT(30), <1>1, <1>2 DEF Unlock, Types
  <2> QED
    BY ZenonT(30), <1>1, <1>2, <1>4, <2>1 DEF StillTyped, Types
<1>14. cwd[p] \in Inums \cup {None}
  BY <1>2 DEF Types
<1>15. /\ Types' /\ OthersKeep(p) /\ pc'[p] = "end_op" /\ loc'[p] = r /\ cwd'[p] = cwd[p]
       /\ Place(p)' = "install"
  <2>1. PlaceAt("end_op", r) = "install"
    BY <1>8 DEF PlaceAt, Waits
  <2>2. AfterMove(p, "end_op", r, cwd[p])
    BY ZenonT(30), <1>2, <1>5, <1>8, <1>12, <1>13, <1>14, MovedTyped
  <2> QED
    BY Zenon, <2>1, <2>2 DEF AfterMove
<1>16. Excused(p) = None /\ Excused(p)' = None /\ ClosesAt(p) = None /\ ClosesAt(p)' = None
  BY SMTT(30), <1>1, <1>2, <1>8, <1>15 DEF Excused, ClosesAt
<1>17. /\ RefAt(p, d)' = f /\ RefAt(p, d) = None
       /\ \A e \in Fds \ {d} : RefAt(p, e)' = RefAt(p, e)
  BY ZenonT(30), <1>9, <1>16, NoneIsNone DEF RefAt
<1>18. RefMoves(p, d)
  <2> SUFFICES ASSUME NEW g \in Files
      PROVE  file'[g].ref = file[g].ref + Is(f, g) - Is(None, g) + Is(None, g) - Is(None, g)
    BY ZenonT(30), <1>16, <1>17 DEF RefMoves
  <2>1. g # None /\ file[g].ref \in Int
    BY <1>2, NoneIsNone DEF Types, File
  <2> QED
    BY <1>11, <2>1 DEF Is
<1>20. FileInv'
  <2>1. ASSUME NEW g \in Files, g # f PROVE file'[g] = file[g]
    BY ZenonT(30), <1>11, <2>1
  <2>2. file'[f].ref # 0 /\ file'[f].type = "NONE"
    BY <1>11
  <2> QED
    BY <1>3, <2>1, <2>2 DEF FileInv
<1>21. Brings(p)
  <2> SUFFICES ASSUME NEW g \in Files, UsesFile(p, g)' \/ file'[g].type # file[g].type, g # f
      PROVE  UsesFile(p, g)
    BY Zenon DEF Brings
  <2>1. UsesFile(p, g)'
    BY Zenon, <1>11
  <2>2. g # None
    BY NoneIsNone
  <2>3. PICK e \in Fds : RefAt(p, e)' = g
    BY Zenon, <1>16, <2>1, <2>2 DEF UsesFile
  <2>4. e # d
    BY Zenon, <1>17, <2>3
  <2> QED
    BY Zenon, <1>17, <2>3, <2>4 DEF UsesFile
<1>22. PendFor(p)'
  <2>1. \A u \in Procs : ~UsesFile(u, f)
    BY Zenon, <1>3, FreeUnused
  <2>2. ASSUME NEW u \in Procs, NEW e \in Fds, RefAt(u, e)' = f PROVE u = p
    <3> SUFFICES ASSUME u # p PROVE FALSE
      OBVIOUS
    <3>1. pc'[u] = pc[u] /\ loc'[u] = loc[u] /\ ofile'[u] = ofile[u]
      BY Zenon, <1>15 DEF OthersKeep
    <3>2. RefAt(u, e)' = RefAt(u, e)
      BY Zenon, <3>1 DEF RefAt, Excused
    <3> QED
      BY ZenonT(30), <2>1, <2>2, <3>2 DEF UsesFile
  <2>3. ASSUME NEW u \in Procs PROVE ClosesAt(u)' # f
    <3>1. CASE u = p
      BY Zenon, <1>16, <3>1, NoneIsNone
    <3>2. CASE u # p
      <4>1. pc'[u] = pc[u] /\ loc'[u] = loc[u]
        BY Zenon, <1>15, <3>2 DEF OthersKeep
      <4>2. ClosesAt(u)' = ClosesAt(u)
        BY Zenon, <4>1 DEF ClosesAt
      <4> QED
        BY Zenon, <2>1, <4>2 DEF UsesFile
    <3> QED
      BY Zenon, <3>1, <3>2
  <2>4. /\ \A u \in Procs, e \in Fds : <<u, e>> \in Descriptors(f)' <=> RefAt(u, e)' = f
        /\ \A u \in Procs : u \in BeingClosed(f)' <=> ClosesAt(u)' = f
    BY Zenon, RefsToldAfter
  <2>5. /\ \A y \in Descriptors(f)' : \E u \in Procs, e \in Fds : y = <<u, e>>
        /\ BeingClosed(f)' \subseteq Procs
    BY Zenon, DescriptorsPairsAfter
  <2>6. BeingClosed(f)' = {} /\ Descriptors(f)' # {}
    BY ZenonT(30), <1>17, <2>3, <2>4, <2>5
  <2>7. ASSUME NEW x \in Descriptors(f)' PROVE x[1] = p
    <3>1. PICK u \in Procs, e \in Fds : x = <<u, e>>
      BY Zenon, <2>5
    <3>2. u = p
      BY Zenon, <2>2, <2>4, <2>7, <3>1
    <3> QED
      BY <3>1, <3>2
  <2>8. loc'[p].f = f /\ f \in Files /\ file'[f].type = "NONE"
    BY Zenon, <1>8, <1>11, <1>15
  <2> QED
    BY Zenon, <2>6, <2>7, <2>8 DEF PendFor
<1>23. RcMoves(p, None)
  <2>1. \A g \in Files : FileAt(g)' = FileAt(g)
    BY Zenon, <1>11 DEF FileAt
  <2>2. CwdAt(p)' = cwd[p] /\ CwdAt(p) = cwd[p]
    BY SMTT(30), <1>2, <1>8, <1>15 DEF CwdAt
  <2>3. RefersRight(p)
    BY SMTT(30), <1>1, <1>2, <1>4, <1>8, <1>15, <2>2 DEF RefersRight, Is, Types
  <2> QED
    BY Zenon, <1>15, <2>1, <2>3, RcMovesKeep
<1>24. OpsRight(p)
  BY <1>1, <1>2, <1>15 DEF OpsRight, Busy, Outside, Types
<1>25. LocalsOK("end_op", r)
  BY ZenonT(30), <1>2, <1>8, NoneIsNone DEF LocalsOK, PlaceAt, Waits, HasIp
<1>26. ExitOK(p)' /\ CwdOK(p)'
  <2>1. Place(p) = "opened"
    BY Zenon, <1>1 DEF Place, PlaceAt, Waits
  <2> QED
    BY ZenonT(30), <1>2, <1>3, <1>8, <1>15, <2>1 DEF ExitOK, CwdOK
<1> QED
  BY ZenonT(30), <1>4, <1>5, <1>8, <1>12, <1>13, <1>14, <1>18, <1>20, <1>21, <1>22,
     <1>23, <1>24, <1>25,
     <1>26, FileStepShown

\* and so does every other outcome of open().
LEMMA OpenShown ==
  ASSUME FilesInv, Counting, NEW p \in Procs, Open(p)
  PROVE  Shown(p)
<1>1. CASE OpenFails(p) /\ UNCHANGED <<file, ofile>>
  BY Zenon, <1>1, OpenFailsShown
<1>2. CASE /\ FreeFiles # {} /\ FreeFds(p) # {}
           /\ Opens(p, Min(FreeFiles), Min(FreeFds(p)))
  BY Zenon, <1>2, FreeTaken, OpensShown
<1> QED
  BY Zenon, <1>1, <1>2 DEF Open, Opens

\* Processes use the same files as before.
LEMMA UsesSame ==
  ASSUME NEW p \in Procs, ClosesAt(p)' = ClosesAt(p),
         \A e \in Fds : RefAt(p, e)' = RefAt(p, e)
  PROVE  \A g : UsesFile(p, g)' => UsesFile(p, g)
  BY ZenonT(30) DEF UsesFile

\* The file that was opened gets its inode.
LEMMA InstallShown ==
  ASSUME FilesInv, Counting, NEW p \in Procs, Install(p)
  PROVE  Shown(p)
<1>1. /\ pc[p] = "install" /\ pc' = [pc EXCEPT ![p] = "user"]
      /\ loc' = [loc EXCEPT ![p] = NoLocals]
      /\ UNCHANGED <<dinode, rc, ilock, ofile, cwd, outstanding, lostRefs, lostOps>>
  BY Zenon DEF Install, At, Goto, history
<1>2. /\ Types /\ PlaceOK(p) /\ ExitOK(p) /\ CwdOK(p) /\ FileInv /\ RefExact /\ PendInv
  BY Zenon DEF FilesInv, ProcessesOK
<1>3. Place(p) = "install"
  BY <1>1 DEF Place, PlaceAt, Waits
<1>4. PICK f \in Files :
         f = loc[p].f /\ file[f].type = "NONE" /\ file[f].ref # 0 /\ UsesFile(p, f)
  <2>1. /\ loc[p].f \in Files /\ file[loc[p].f].type = "NONE" /\ file[loc[p].f].ref # 0
        /\ UsesFile(p, loc[p].f)
    BY Zenon, <1>2, <1>3, PendUses
  <2> QED
    BY Zenon, <2>1
<1>5. PICK i \in Inums : i = loc[p].ip
  <2>1. loc[p].ip # None
    BY Zenon, <1>2, <1>3 DEF PlaceOK, LocalsOK, HasIp, Place
  <2>2. loc[p].ip \in Inums \cup {None}
    BY SMTT(30), <1>2 DEF Types, Locals
  <2> QED
    BY ZenonT(30), <2>1, <2>2
<1>6. loc[p].call # "exit" /\ loc[p].then \notin {"set_cwd", "exited"}
  BY Zenon, <1>2, <1>3 DEF PlaceOK, LocalsOK, ExitOK, Place
<1>7. /\ NoLocals.ip = None /\ NoLocals.call = "none" /\ NoLocals.then = "user"
      /\ "user" \in Labels
  BY DEF Labels, NoLocals
<1>8. FileChanges(f, file[f].ref, "INODE", i)
  <2>1. file[f] \in File
    BY Zenon, <1>2 DEF Types
  <2>2. FileIs([file[f] EXCEPT !.type = "INODE", !.ip = i], file[f].ref, "INODE", i)
    BY Zenon, <2>1, SetTypeIp
  <2>3. file' = [file EXCEPT ![f] = [file[f] EXCEPT !.type = "INODE", !.ip = i]]
    <3>1. file' = [file EXCEPT ![f].type = "INODE", ![f].ip = i]
      BY Zenon, <1>4, <1>5 DEF Install
    <3>2. file \in [Files -> File]
      BY Zenon, <1>2 DEF Types
    <3> QED
      BY Zenon, <3>1, <3>2
  <2> QED
    BY Zenon, <1>2, <2>2, <2>3, ChangeFile
<1>9. /\ file' \in [Files -> File] /\ file'[f].ref = file[f].ref /\ file'[f].type = "INODE"
      /\ file'[f].ip = i /\ \A g \in Files \ {f} : file'[g] = file[g]
  BY Zenon, <1>8 DEF FileChanges, FileIs
<1>10. Moved(p, "user", NoLocals, cwd[p])
  <2>1. cwd' = [cwd EXCEPT ![p] = cwd[p]]
    BY <1>1, <1>2 DEF Types
  <2> QED
    BY ZenonT(30), <1>1, <1>2, <1>9, <2>1 DEF Moved, Types
<1>11. StillTyped
  BY Zenon, <1>1, <1>2 DEF StillTyped, Types
<1>12. cwd[p] \in Inums \cup {None}
  BY <1>2 DEF Types
<1>13. /\ Types' /\ OthersKeep(p) /\ pc'[p] = "user" /\ loc'[p] = NoLocals
       /\ cwd'[p] = cwd[p] /\ Place(p)' = "user"
  <2>1. PlaceAt("user", NoLocals) = "user"
    BY DEF PlaceAt, Waits
  <2>2. AfterMove(p, "user", NoLocals, cwd[p])
    BY ZenonT(30), <1>2, <1>7, <1>10, <1>11, <1>12, NoLocalsTyped, MovedTyped
  <2> QED
    BY Zenon, <2>1, <2>2 DEF AfterMove
<1>14. Excused(p) = None /\ Excused(p)' = None /\ ClosesAt(p) = None /\ ClosesAt(p)' = None
  BY SMTT(30), <1>1, <1>6, <1>7, <1>13 DEF Excused, ClosesAt
<1>15. \A e : RefAt(p, e)' = RefAt(p, e)
  BY ZenonT(30), <1>1, <1>14 DEF RefAt
<1>16. RefMoves(p, None)
  <2>1. RefAt(p, None) = None /\ RefAt(p, None)' = None
    BY Zenon, NoneIsNone DEF RefAt
  <2> SUFFICES ASSUME NEW g \in Files
      PROVE  file'[g].ref = file[g].ref + Is(None, g) - Is(None, g) + Is(None, g) - Is(None, g)
    BY Zenon, <1>14, <1>15, <2>1 DEF RefMoves
  <2>2. file'[g].ref = file[g].ref
    BY Zenon, <1>9
  <2>3. file[g].ref \in Int
    BY <1>2 DEF Types, File
  <2> QED
    BY SMTT(30), <2>2, <2>3 DEF Is
<1>18. FileInv'
  <2>1. ASSUME NEW g \in Files, g # f PROVE file'[g] = file[g]
    BY Zenon, <1>9, <2>1
  <2>2. file'[f].ref # 0 /\ file'[f].ip # None
    BY Zenon, <1>4, <1>9, NoneIsNone
  <2> QED
    BY Zenon, <1>2, <2>1, <2>2 DEF FileInv
<1>19. Brings(p)
  <2>1. \A g : UsesFile(p, g)' => UsesFile(p, g)
    BY Zenon, <1>14, <1>15, UsesSame
  <2> SUFFICES ASSUME NEW g \in Files, UsesFile(p, g)' \/ file'[g].type # file[g].type
      PROVE  UsesFile(p, g)
    BY Zenon DEF Brings
  <2> QED
    BY Zenon, <1>4, <1>9, <2>1
<1>20. PendFor(p)'
  BY SMTT(30), <1>13 DEF PendFor
<1>21. RcMoves(p, f)
  <2>1. /\ FileAt(f)' = i /\ FileAt(f) = None /\ \A g \in Files \ {f} : FileAt(g)' = FileAt(g)
    BY SMTT(30), <1>4, <1>9 DEF FileAt
  <2>2. CwdAt(p)' = cwd[p] /\ CwdAt(p) = cwd[p]
    BY Zenon, <1>6, <1>7, <1>13 DEF CwdAt
  <2>3. \A q \in Procs \ {p} : CwdAt(q)' = CwdAt(q) /\ loc'[q].ip = loc[q].ip
    BY Zenon, <1>13 DEF OthersKeep, CwdAt
  <2>4. \A j \in Inums : rc[j] \in Int /\ lostRefs[j] \in Int /\ lostRefs'[j] \in Int
                          /\ lostRefs'[j] = lostRefs[j] /\ rc'[j] = rc[j]
    BY <1>1, <1>2 DEF Types
  <2>5. loc'[p].ip = None /\ loc[p].ip = i
    BY ZenonT(30), <1>5, <1>7, <1>13
  <2> QED
    BY SMTT(30), <2>1, <2>2, <2>3, <2>4, <2>5 DEF RcMoves, Is
<1>22. OpsRight(p)
  BY SMTT(30), <1>1, <1>2, <1>13 DEF OpsRight, Busy, Outside, Types
<1>23. LocalsOK("user", NoLocals)
  BY <1>7 DEF LocalsOK, PlaceAt, Waits, HasIp
<1>24. ExitOK(p)' /\ CwdOK(p)'
  BY <1>2, <1>3, <1>7, <1>13 DEF ExitOK, CwdOK
<1> QED
  BY ZenonT(30), <1>1, <1>7, <1>10, <1>11, <1>12, <1>16, <1>18, <1>19, <1>20,
     <1>21, <1>22, <1>23,
     <1>24, NoLocalsTyped, FileStepShown

\* dup: another descriptor of the file.
LEMMA DupShown ==
  ASSUME FilesInv, Counting, NEW p \in Procs, NEW c \in Fds, Dup(p, c)
  PROVE  Shown(p)
<1>1. /\ pc[p] = "user" /\ c \in Opened(p) /\ FreeFds(p) # {}
      /\ UNCHANGED <<dinode, rc, ilock, cwd, outstanding, pc, loc, lostRefs, lostOps>>
  BY Zenon DEF Dup, At, history
<1>2. Types /\ PlaceOK(p) /\ ExitOK(p) /\ CwdOK(p) /\ FileInv /\ RefExact
  BY ZenonT(30) DEF FilesInv, ProcessesOK
<1>3. Place(p) = "user" /\ loc[p].call # "exit" /\ loc[p] \in Locals /\ pc[p] \in Labels
  BY Zenon, <1>1, <1>2 DEF ExitOK, Place, PlaceAt, Waits, Types
<1>4. PICK f \in Files : f = ofile[p][c]
  BY <1>1, <1>2 DEF Opened, Types
<1>5. PICK d \in Fds : d = Min(FreeFds(p)) /\ ofile[p][d] = None
  <2>1. FreeFds(p) \in SUBSET Nat
    BY FilesAssumption DEF FreeFds, Fds
  <2>2. Min(FreeFds(p)) \in FreeFds(p)
    BY Zenon, <1>1, <2>1, MinIn
  <2> QED
    BY Zenon, <2>2 DEF FreeFds
<1>6. /\ ofile' \in [Procs -> [Fds -> Files \cup {None}]]
      /\ ofile'[p][d] = f /\ \A e \in Fds \ {d} : ofile'[p][e] = ofile[p][e]
      /\ \A q \in Procs \ {p} : ofile'[q] = ofile[q]
  <2>1. f \in Files \cup {None} /\ ofile' = [ofile EXCEPT ![p][d] = f]
    BY Zenon, <1>4, <1>5 DEF Dup
  <2> QED
    BY Zenon, <1>2, <2>1, SetDescriptor
<1>7. PICK n \in Int : n = file[f].ref
  BY <1>2 DEF Types, File
<1>8. FileChanges(f, n + 1, file[f].type, file[f].ip)
  <2>1. file[f] \in File /\ n + 1 \in Int
    BY <1>2 DEF Types
  <2>2. FileIs([file[f] EXCEPT !.ref = n + 1], n + 1, file[f].type, file[f].ip)
    BY Zenon, <2>1, SetRef
  <2>3. file' = [file EXCEPT ![f] = [file[f] EXCEPT !.ref = n + 1]]
    BY Zenon, <1>4, <1>7 DEF Dup, Filedup
  <2> QED
    BY Zenon, <1>2, <2>2, <2>3, ChangeFile
<1>9. /\ file' \in [Files -> File] /\ file'[f].ref = n + 1 /\ file'[f].type = file[f].type
      /\ file'[f].ip = file[f].ip /\ \A g \in Files \ {f} : file'[g] = file[g]
  BY Zenon, <1>8 DEF FileChanges, FileIs
<1>10. Moved(p, pc[p], loc[p], cwd[p])
  <2>1. /\ cwd' = [cwd EXCEPT ![p] = cwd[p]] /\ pc' = [pc EXCEPT ![p] = pc[p]]
        /\ loc' = [loc EXCEPT ![p] = loc[p]]
    BY <1>1, <1>2 DEF Types
  <2> QED
    BY ZenonT(30), <1>1, <1>6, <1>9, <2>1 DEF Moved
<1>11. StillTyped
  BY Zenon, <1>1, <1>2 DEF StillTyped, Types
<1>12. cwd[p] \in Inums \cup {None}
  BY <1>2 DEF Types
<1>13. Types' /\ OthersKeep(p) /\ Place(p)' = "user"
  <2>1. AfterMove(p, pc[p], loc[p], cwd[p])
    BY ZenonT(30), <1>2, <1>3, <1>10, <1>11, <1>12, MovedTyped
  <2> QED
    BY Zenon, <1>3, <2>1 DEF AfterMove, Place
<1>14. Excused(p) = None /\ Excused(p)' = None /\ ClosesAt(p) = None /\ ClosesAt(p)' = None
  BY <1>1, <1>3 DEF Excused, ClosesAt
<1>15. /\ RefAt(p, d)' = f /\ RefAt(p, d) = None /\ RefAt(p, c) = f
       /\ \A e \in Fds \ {d} : RefAt(p, e)' = RefAt(p, e)
  BY ZenonT(30), <1>4, <1>5, <1>6, <1>14, NoneIsNone DEF RefAt
<1>16. RefMoves(p, d)
  <2> SUFFICES ASSUME NEW g \in Files
      PROVE  file'[g].ref = file[g].ref + Is(f, g) - Is(None, g) + Is(None, g) - Is(None, g)
    BY ZenonT(30), <1>14, <1>15 DEF RefMoves
  <2>1. g # None /\ file[g].ref \in Int
    BY <1>2, NoneIsNone DEF Types, File
  <2> QED
    BY <1>7, <1>9, <2>1 DEF Is
<1>18. FileInv'
  <2>1. ASSUME NEW g \in Files, g # f PROVE file'[g] = file[g]
    BY ZenonT(30), <1>9, <2>1
  <2>2. file'[f].ref # 0
    <3>1. n \in Nat
      BY Zenon, <1>2, <1>7, RefsNat
    <3> QED
      BY SMTT(30), <1>9, <3>1
  <2> QED
    BY ZenonT(30), <1>2, <1>9, <2>1, <2>2 DEF FileInv
<1>19. Brings(p)
  <2> SUFFICES ASSUME NEW g \in Files, UsesFile(p, g)' \/ file'[g].type # file[g].type
      PROVE  UsesFile(p, g)
    BY Zenon DEF Brings
  <2>1. UsesFile(p, g)' /\ g # None
    BY Zenon, <1>9, NoneIsNone
  <2>2. PICK e \in Fds : RefAt(p, e)' = g
    BY ZenonT(30), <1>14, <2>1 DEF UsesFile
  <2> QED
    BY Zenon, <1>15, <2>2 DEF UsesFile
<1>20. PendFor(p)'
  BY <1>13 DEF PendFor
<1>21. RcMoves(p, None)
  <2>1. \A g \in Files : FileAt(g)' = FileAt(g)
    BY ZenonT(30), <1>9 DEF FileAt
  <2>2. RefersRight(p)
    BY SMTT(30), <1>1, <1>2 DEF RefersRight, CwdAt, Is, Types
  <2> QED
    BY ZenonT(30), <1>13, <2>1, <2>2, RcMovesKeep
<1>22. OpsRight(p)
  BY <1>1, <1>2 DEF OpsRight, Busy, Types
<1>23. ExitOK(p)' /\ CwdOK(p)'
  BY ZenonT(30), <1>1, <1>2, <1>3, <1>13 DEF ExitOK, CwdOK
<1>24. LocalsOK(pc[p], loc[p]) /\ pc[p] \notin {"create", "exists", "new"}
  BY ZenonT(30), <1>1, <1>2 DEF PlaceOK
<1> QED
  BY ZenonT(30), <1>1, <1>3, <1>10, <1>11, <1>12, <1>16, <1>18, <1>19, <1>20,
     <1>21, <1>22,
     <1>23, <1>24, FileStepShown

\* close: the descriptor is cleared, the file is still to be closed.
LEMMA CloseShown ==
  ASSUME FilesInv, Counting, NEW p \in Procs, NEW d \in Fds, Close(p, d)
  PROVE  Shown(p)
<1>1. /\ pc[p] = "user" /\ d \in Opened(p) /\ pc' = [pc EXCEPT ![p] = "fileclose"]
      /\ UNCHANGED <<dinode, rc, ilock, file, cwd, outstanding, lostRefs, lostOps>>
  BY ZenonT(30) DEF Close, At, Goto, history
<1>2. Types /\ PlaceOK(p) /\ ExitOK(p) /\ CwdOK(p) /\ FileInv /\ RefExact
  BY Zenon DEF FilesInv, ProcessesOK
<1>3. /\ Place(p) = "user" /\ loc[p].call # "exit" /\ loc[p].ip = None
      /\ loc[p].then \notin {"set_cwd", "exited"}
  BY ZenonT(30), <1>1, <1>2 DEF ExitOK, PlaceOK, LocalsOK, HasIp, Place, PlaceAt, Waits
<1>4. PICK f \in Files : f = ofile[p][d]
  BY <1>1, <1>2 DEF Opened, Types
<1> DEFINE r == [NoLocals EXCEPT !.call = "close", !.f = f]
<1>5. loc' = [loc EXCEPT ![p] = r]
  BY Zenon, <1>4 DEF Close
<1>6. r \in Locals /\ r.call = "close" /\ r.f = f /\ r.ip = None /\ r.then = "user"
      /\ "fileclose" \in Labels
  <2>1. NoLocals.ip = None /\ NoLocals.then = "user" /\ "fileclose" \in Labels
    BY DEF NoLocals, Labels
  <2>2. Are(r, "close", NoLocals.rest, NoLocals.ip, f, NoLocals.fd, NoLocals.then)
    BY Zenon, NoLocalsTyped DEF Locals, Are
  <2> QED
    BY ZenonT(30), <2>1, <2>2 DEF Are
<1> HIDE DEF r
<1>7. /\ ofile' \in [Procs -> [Fds -> Files \cup {None}]]
      /\ ofile'[p][d] = None /\ \A e \in Fds \ {d} : ofile'[p][e] = ofile[p][e]
      /\ \A q \in Procs \ {p} : ofile'[q] = ofile[q]
  <2>1. None \in Files \cup {None} /\ ofile' = [ofile EXCEPT ![p][d] = None]
    BY Zenon DEF Close
  <2> QED
    BY Zenon, <1>2, <2>1, SetDescriptor
<1>8. Moved(p, "fileclose", r, cwd[p])
  <2>1. cwd' = [cwd EXCEPT ![p] = cwd[p]]
    BY <1>1, <1>2 DEF Types
  <2> QED
    BY ZenonT(30), <1>1, <1>2, <1>5, <1>7, <2>1 DEF Moved, Types
<1>9. StillTyped
  BY ZenonT(30), <1>1, <1>2 DEF StillTyped, Types
<1>10. cwd[p] \in Inums \cup {None}
  BY <1>2 DEF Types
<1>11. /\ Types' /\ OthersKeep(p) /\ Place(p)' = "fileclose" /\ pc'[p] = "fileclose"
       /\ loc'[p] = r /\ cwd'[p] = cwd[p]
  <2>1. PlaceAt("fileclose", r) = "fileclose"
    BY DEF PlaceAt, Waits
  <2>2. AfterMove(p, "fileclose", r, cwd[p])
    BY ZenonT(30), <1>2, <1>6, <1>8, <1>9, <1>10, MovedTyped
  <2> QED
    BY Zenon, <2>1, <2>2 DEF AfterMove
<1>12. Excused(p) = None /\ Excused(p)' = None /\ ClosesAt(p) = None /\ ClosesAt(p)' = f
  BY Zenon, <1>1, <1>3, <1>6, <1>11 DEF Excused, ClosesAt
<1>13. /\ RefAt(p, d)' = None /\ RefAt(p, d) = f
       /\ \A e \in Fds \ {d} : RefAt(p, e)' = RefAt(p, e)
  BY ZenonT(30), <1>4, <1>7, <1>12, NoneIsNone DEF RefAt
<1>14. RefMoves(p, d)
  <2> SUFFICES ASSUME NEW g \in Files
      PROVE  file'[g].ref = file[g].ref + Is(None, g) - Is(f, g) + Is(f, g) - Is(None, g)
    BY ZenonT(30), <1>12, <1>13 DEF RefMoves
  <2>1. g # None /\ file[g].ref \in Int
    BY <1>2, NoneIsNone DEF Types, File
  <2> QED
    BY <1>1, <2>1 DEF Is
<1>16. FileInv'
  BY Zenon, <1>1, <1>2 DEF FileInv
<1>17. Brings(p)
  <2> SUFFICES ASSUME NEW g \in Files, UsesFile(p, g)' PROVE UsesFile(p, g)
    BY Zenon, <1>1 DEF Brings
  <2>1. CASE g = f
    BY Zenon, <1>13, <2>1 DEF UsesFile
  <2>2. CASE g # f
    <3>1. PICK e \in Fds : RefAt(p, e)' = g
      BY ZenonT(30), <1>12, <2>2 DEF UsesFile
    <3> QED
      BY Zenon, <1>13, <3>1, NoneIsNone DEF UsesFile
  <2> QED
    BY Zenon, <2>1, <2>2
<1>18. PendFor(p)'
  BY Zenon, <1>11 DEF PendFor
<1>19. RcMoves(p, None)
  <2>1. \A g \in Files : FileAt(g)' = FileAt(g)
    BY ZenonT(30), <1>1 DEF FileAt
  <2>2. CwdAt(p)' = cwd[p] /\ CwdAt(p) = cwd[p]
    BY ZenonT(30), <1>3, <1>6, <1>11 DEF CwdAt
  <2>3. RefersRight(p)
    BY SMTT(30), <1>1, <1>2, <1>3, <1>6, <1>11, <2>2 DEF RefersRight, Is, Types
  <2> QED
    BY ZenonT(30), <1>11, <2>1, <2>3, RcMovesKeep
<1>20. OpsRight(p)
  BY SMTT(30), <1>1, <1>2, <1>11 DEF OpsRight, Busy, Outside, Types
<1>21. ExitOK(p)' /\ CwdOK(p)'
  BY <1>2, <1>3, <1>6, <1>11 DEF ExitOK, CwdOK
<1>22. LocalsOK("fileclose", r)
  BY <1>6 DEF LocalsOK, PlaceAt, Waits, HasIp
<1> QED
  BY ZenonT(30), <1>1, <1>6, <1>8, <1>9, <1>10, <1>14, <1>16, <1>17, <1>18, <1>19,
     <1>20, <1>21,
     <1>22, FileStepShown

\* fileclose: where p goes, with which locals.
Closes(p, f, l, r) ==
    /\ r \in Locals /\ r.call = loc[p].call /\ r.fd = loc[p].fd
    /\ \/ /\ file[f].ref = 1 /\ file[f].type = "INODE"
          /\ l = "begin_op" /\ r.then = "put_file" /\ r.ip = file[f].ip
       \/ /\ ~(file[f].ref = 1 /\ file[f].type = "INODE") /\ r = loc[p]
          /\ l = IF loc[p].call = "exit" THEN "exit" ELSE "user"

\* What fileclose() does, as one of its three outcomes.
LEMMA FileCloses ==
  ASSUME Types, NEW p \in Procs, FileClose(p), NEW f \in Files, f = loc[p].f
  PROVE  \E l, r : /\ Closes(p, f, l, r)
                   /\ pc' = [pc EXCEPT ![p] = l] /\ loc' = [loc EXCEPT ![p] = r]
<1>1. loc[p] \in Locals /\ file[f].ip \in Inums \cup {None} /\ "put_file" \in Labels
      /\ loc = [loc EXCEPT ![p] = loc[p]]
  BY DEF Types, File, Labels
<1>2. CASE file[f].ref = 1 /\ file[f].type = "INODE"
  <2> DEFINE r == [loc[p] EXCEPT !.ip = file[f].ip, !.then = "put_file"]
  <2>1. Are(r, loc[p].call, loc[p].rest, file[f].ip, loc[p].f, loc[p].fd, "put_file")
    BY Zenon, <1>1, SetIpThen
  <2>2. pc' = [pc EXCEPT ![p] = "begin_op"] /\ loc' = [loc EXCEPT ![p] = r]
    BY Zenon, <1>2 DEF FileClose, IsLast, Goto
  <2> HIDE DEF r
  <2>3. Closes(p, f, "begin_op", r)
    BY Zenon, <1>2, <2>1 DEF Closes, Are
  <2> QED
    BY Zenon, <2>2, <2>3
<1>3. CASE ~(file[f].ref = 1 /\ file[f].type = "INODE")
  <2> DEFINE l == IF loc[p].call = "exit" THEN "exit" ELSE "user"
  <2>1. pc' = [pc EXCEPT ![p] = l] /\ loc' = loc
    BY Zenon, <1>3 DEF FileClose, IsLast, Goto
  <2>2. Closes(p, f, l, loc[p])
    BY ZenonT(30), <1>1, <1>3 DEF Closes
  <2> QED
    BY Zenon, <1>1, <2>1, <2>2
<1> QED
  BY ZenonT(30), <1>2, <1>3

\* fileclose gives up one reference, and with the last one the inode.
LEMMA FileCloseShown ==
  ASSUME FilesInv, Counting, NEW p \in Procs, FileClose(p)
  PROVE  Shown(p)
<1>1. /\ pc[p] = "fileclose"
      /\ UNCHANGED <<dinode, rc, ilock, ofile, cwd, outstanding, lostRefs, lostOps>>
  BY Zenon DEF FileClose, At, history
<1>2. Types /\ PlaceOK(p) /\ ExitOK(p) /\ CwdOK(p) /\ FileInv /\ RefExact
  BY ZenonT(30) DEF FilesInv, ProcessesOK
<1>3. /\ Place(p) = "fileclose" /\ loc[p].call \in {"exit", "close"} /\ loc[p].ip = None
      /\ loc[p].then \notin {"set_cwd", "exited"}
      /\ loc[p].call = "exit" => loc[p].fd \in Fds /\ ofile[p][loc[p].fd] = loc[p].f
  BY Zenon, <1>1, <1>2 DEF ExitOK, PlaceOK, LocalsOK, HasIp, Place, PlaceAt, Waits
<1>4. PICK f \in Files : f = loc[p].f
  BY Zenon, <1>2, <1>3 DEF ExitOK
<1>5. PICK n \in Nat : n = file[f].ref
  BY Zenon, <1>2, RefsNat
<1>6. PICK l, r : /\ Closes(p, f, l, r)
                  /\ pc' = [pc EXCEPT ![p] = l] /\ loc' = [loc EXCEPT ![p] = r]
  BY ZenonT(30), <1>2, <1>4, FileCloses
<1>7. PICK t \in {"NONE", "INODE"} : t = IF n = 1 THEN "NONE" ELSE file[f].type
  BY <1>2 DEF Types, File
<1>8. FileChanges(f, n - 1, t, file[f].ip)
  <2>1. file[f] \in File /\ n - 1 \in Int
    BY <1>2 DEF Types
  <2>2. FileIs([file[f] EXCEPT !.ref = n - 1, !.type = t], n - 1, t, file[f].ip)
    BY Zenon, <2>1, SetRefType
  <2>3. file' = [file EXCEPT ![f] = [file[f] EXCEPT !.ref = n - 1, !.type = t]]
    <3>1. file' = [file EXCEPT ![f].ref = @ - 1,
                               ![f].type = IF file[f].ref = 1 THEN "NONE" ELSE @]
      BY Zenon, <1>4 DEF FileClose, IsLast
    <3>2. file \in [Files -> File]
      BY Zenon, <1>2 DEF Types
    <3> QED
      BY ZenonT(30), <1>5, <1>7, <3>1, <3>2 DEF File
  <2> QED
    BY ZenonT(30), <1>2, <2>2, <2>3, ChangeFile
<1>9. /\ file' \in [Files -> File] /\ file'[f].ref = n - 1 /\ file'[f].type = t
      /\ file'[f].ip = file[f].ip /\ \A g \in Files \ {f} : file'[g] = file[g]
  BY ZenonT(30), <1>8 DEF FileChanges, FileIs
<1>10. l \in Labels /\ r \in Locals /\ r.call = loc[p].call /\ r.fd = loc[p].fd
       /\ r.then \notin {"set_cwd", "exited"} /\ l # "fileclose"
       /\ PlaceAt(l, r) \in {"put_file", "exit", "user"}
       /\ (PlaceAt(l, r) = "exit" => loc[p].call = "exit")
       /\ (PlaceAt(l, r) = "user" => loc[p].call # "exit")
  BY <1>3, <1>6 DEF Closes, Labels, PlaceAt, Waits
<1>11. Moved(p, l, r, cwd[p])
  <2>1. cwd' = [cwd EXCEPT ![p] = cwd[p]]
    BY <1>1, <1>2 DEF Types
  <2> QED
    BY ZenonT(30), <1>1, <1>2, <1>6, <1>9, <2>1 DEF Moved, Types
<1>12. StillTyped
  BY Zenon, <1>1, <1>2 DEF StillTyped, Types
<1>13. cwd[p] \in Inums \cup {None}
  BY <1>2 DEF Types
<1>14. /\ Types' /\ OthersKeep(p) /\ Place(p)' = PlaceAt(l, r) /\ pc'[p] = l
       /\ loc'[p] = r /\ cwd'[p] = cwd[p]
  <2>1. AfterMove(p, l, r, cwd[p])
    BY ZenonT(30), <1>2, <1>10, <1>11, <1>12, <1>13, MovedTyped
  <2> QED
    BY Zenon, <2>1 DEF AfterMove
<1>15. PICK d : /\ RefMoves(p, d) /\ UsesFile(p, f) /\ ClosesAt(p)' = None
                /\ \A e \in Fds : RefAt(p, e)' \in {None, RefAt(p, e)}
  <2>1. Excused(p) = None /\ ClosesAt(p)' = None
    BY ZenonT(30), <1>1, <1>10, <1>14 DEF Excused, ClosesAt
  <2>2. ASSUME NEW g \in Files PROVE g # None /\ file[g].ref \in Int
    BY <1>2, NoneIsNone DEF Types, File
  <2>3. CASE loc[p].call = "close"
    <3>1. Excused(p)' = None /\ ClosesAt(p) = f
      BY ZenonT(30), <1>1, <1>4, <1>10, <1>14, <2>3 DEF Excused, ClosesAt
    <3>2. \A e : RefAt(p, e)' = RefAt(p, e)
      BY ZenonT(30), <1>1, <2>1, <3>1 DEF RefAt
    <3>3. RefAt(p, None) = None
      BY ZenonT(30), NoneIsNone DEF RefAt
    <3>4. RefMoves(p, None)
      <4> SUFFICES ASSUME NEW g \in Files
          PROVE  file'[g].ref = file[g].ref + Is(None, g) - Is(None, g) + Is(None, g) - Is(f, g)
        BY ZenonT(30), <2>1, <3>1, <3>2, <3>3 DEF RefMoves
      <4> QED
        BY SMTT(30), <1>5, <1>9, <2>2 DEF Is
    <3> QED
      BY ZenonT(30), <2>1, <3>1, <3>2, <3>4 DEF UsesFile
  <2>4. CASE loc[p].call = "exit"
    <3>1. PICK d \in Fds : d = loc[p].fd /\ ofile[p][d] = f
      BY ZenonT(30), <1>3, <1>4, <2>4
    <3>2. Excused(p)' = d /\ ClosesAt(p) = None
      BY ZenonT(30), <1>1, <1>10, <1>14, <2>4, <3>1 DEF Excused, ClosesAt
    <3>3. /\ RefAt(p, d)' = None /\ RefAt(p, d) = f
          /\ \A e \in Fds \ {d} : RefAt(p, e)' = RefAt(p, e)
      BY ZenonT(30), <1>1, <2>1, <3>1, <3>2, NoneIsNone DEF RefAt
    <3>4. RefMoves(p, d)
      <4> SUFFICES ASSUME NEW g \in Files
          PROVE  file'[g].ref = file[g].ref + Is(None, g) - Is(f, g) + Is(None, g) - Is(None, g)
        BY Zenon, <2>1, <3>2, <3>3 DEF RefMoves
      <4> QED
        BY SMTT(30), <1>5, <1>9, <2>2 DEF Is
    <3>5. \A e \in Fds : RefAt(p, e)' \in {None, RefAt(p, e)}
      BY Zenon, <3>3
    <3> QED
      BY ZenonT(30), <2>1, <3>3, <3>4, <3>5 DEF UsesFile
  <2> QED
    BY Zenon, <1>3, <2>3, <2>4
<1>17. FileInv'
  <2>1. ASSUME NEW g \in Files, g # f PROVE file'[g] = file[g]
    BY ZenonT(30), <1>9, <2>1
  <2>2. /\ file'[f].ref = 0 => file'[f].type = "NONE"
        /\ file'[f].type = "INODE" => file'[f].ip # None
    BY SMTT(30), <1>2, <1>5, <1>7, <1>9 DEF FileInv
  <2> QED
    BY Zenon, <1>2, <2>1, <2>2 DEF FileInv
<1>18. Brings(p)
  <2> SUFFICES ASSUME NEW g \in Files, UsesFile(p, g)' \/ file'[g].type # file[g].type
      PROVE  UsesFile(p, g)
    BY Zenon DEF Brings
  <2>1. CASE g = f
    BY Zenon, <1>15, <2>1
  <2>2. CASE g # f
    <3>1. UsesFile(p, g)' /\ g # None
      BY Zenon, <1>9, <2>2, NoneIsNone
    <3>2. PICK e \in Fds : RefAt(p, e)' = g
      BY ZenonT(30), <1>15, <3>1 DEF UsesFile
    <3> QED
      BY ZenonT(30), <1>15, <3>1, <3>2 DEF UsesFile
  <2> QED
    BY Zenon, <2>1, <2>2
<1>19. PendFor(p)'
  BY Zenon, <1>10, <1>14 DEF PendFor
<1>20. RcMoves(p, f)
  <2>1. \A g \in Files \ {f} : FileAt(g)' = FileAt(g)
    BY Zenon, <1>9 DEF FileAt
  <2>2. CwdAt(p)' = cwd[p] /\ CwdAt(p) = cwd[p]
    BY ZenonT(30), <1>3, <1>10, <1>14 DEF CwdAt
  <2>3. \A q \in Procs \ {p} : CwdAt(q)' = CwdAt(q) /\ loc'[q].ip = loc[q].ip
    BY ZenonT(30), <1>14 DEF OthersKeep, CwdAt
  <2>4. \A j \in Inums : rc[j] \in Int /\ lostRefs[j] \in Int /\ lostRefs'[j] \in Int
                          /\ lostRefs'[j] = lostRefs[j] /\ rc'[j] = rc[j]
    BY SMTT(30), <1>1, <1>2 DEF Types
  <2>5. CASE n = 1 /\ file[f].type = "INODE"
    <3>1. loc'[p].ip = file[f].ip /\ FileAt(f) = file[f].ip /\ FileAt(f)' = None
      BY Zenon, <1>5, <1>6, <1>7, <1>9, <1>14, <2>5 DEF Closes, FileAt
    <3> QED
      BY SMTT(30), <1>3, <2>1, <2>2, <2>3, <2>4, <3>1 DEF RcMoves, Is
  <2>6. CASE ~(n = 1 /\ file[f].type = "INODE")
    <3>1. loc'[p].ip = None /\ FileAt(f) = FileAt(f)'
      BY Zenon, <1>3, <1>5, <1>6, <1>7, <1>9, <1>14, <2>6 DEF Closes, FileAt
    <3> QED
      BY SMTT(30), <1>3, <2>1, <2>2, <2>3, <2>4, <3>1 DEF RcMoves, Is
  <2> QED
    BY Zenon, <2>5, <2>6
<1>21. OpsRight(p)
  <2>1. l \in Outside
    BY <1>6 DEF Closes, Outside
  <2> QED
    BY SMTT(30), <1>1, <1>2, <1>14, <2>1 DEF OpsRight, Busy, Outside, Types
<1>22. LocalsOK(l, r) /\ l \notin {"create", "exists", "new"}
  <2>1. CASE file[f].ref = 1 /\ file[f].type = "INODE"
    <3>1. l = "begin_op" /\ r.then = "put_file" /\ r.ip # None
      BY ZenonT(30), <1>2, <1>6, <2>1 DEF Closes, FileInv
    <3> QED
      BY Zenon, <3>1 DEF LocalsOK, PlaceAt, Waits, HasIp
  <2>2. CASE ~(file[f].ref = 1 /\ file[f].type = "INODE")
    <3>1. r = loc[p] /\ l \in {"exit", "user"}
      BY ZenonT(30), <1>6, <2>2 DEF Closes
    <3> QED
      BY <1>3, <3>1 DEF LocalsOK, PlaceAt, Waits, HasIp
  <2> QED
    BY ZenonT(30), <2>1, <2>2
<1>23. ExitOK(p)' /\ CwdOK(p)'
  BY ZenonT(30), <1>2, <1>3, <1>10, <1>14 DEF ExitOK, CwdOK
<1> QED
  BY ZenonT(30), <1>1, <1>10, <1>11, <1>12, <1>13, <1>15, <1>17, <1>18, <1>19,
     <1>20, <1>21, <1>22,
     <1>23, FileStepShown

\* A step of exit that finds the next file to close, or that there is none.
Exits(p, l, r) ==
    /\ r.call = "exit" /\ r.ip = None
    /\ \/ /\ l = "fileclose" /\ r.then = loc[p].then
          /\ r.fd \in Fds /\ r.f \in Files /\ r.f = RefAt(p, r.fd)
       \/ /\ l = "begin_op" /\ r.then = "put_cwd" /\ r.fd = None
          /\ \A e \in Fds : RefAt(p, e) = None

\* A step of exit()'s loop over the descriptors that clears the one just closed
\* is one as Shown has it.
LEMMA ExitStepShown ==
  ASSUME FilesInv, Counting, NEW p \in Procs, pc[p] = "exit", NEW l \in Labels, NEW r \in Locals,
         Moved(p, l, r, cwd[p]), \A e \in Fds : ofile'[p][e] = RefAt(p, e),
         UNCHANGED <<dinode, rc, ilock, file, cwd, outstanding, lostRefs, lostOps>>,
         Exits(p, l, r)
  PROVE  Shown(p)
<1>1. Types /\ PlaceOK(p) /\ ExitOK(p) /\ CwdOK(p) /\ FileInv /\ RefExact
  BY ZenonT(30) DEF FilesInv, ProcessesOK
<1>2. /\ Place(p) = "exit" /\ loc[p].call = "exit" /\ loc[p].ip = None
      /\ loc[p].then \notin {"set_cwd", "exited"} /\ p # initproc /\ cwd[p] # None
  BY ZenonT(30), <1>1 DEF ExitOK, PlaceOK, LocalsOK, CwdOK, HasIp, Place, PlaceAt, Waits
<1>3. PICK a : a = PlaceAt(l, r)
  BY Zenon
<1>4. /\ a \in {"fileclose", "put_cwd"} /\ r.then \notin {"set_cwd", "exited"}
      /\ (a = "fileclose" => r.fd \in Fds /\ r.f \in Files /\ r.f = RefAt(p, r.fd))
      /\ (a = "put_cwd" => r.fd = None /\ \A e \in Fds : RefAt(p, e) = None)
      /\ l \in Outside /\ l \notin {"create", "exists", "new"}
      /\ (l = "fileclose" \/ r.fd = None)
  BY Zenon, <1>2, <1>3 DEF Exits, PlaceAt, Waits, Outside
<1>5. StillTyped
  BY Zenon, <1>1 DEF StillTyped, Types
<1>6. cwd[p] \in Inums \cup {None}
  BY <1>1 DEF Types
<1>7. /\ Types' /\ OthersKeep(p) /\ Place(p)' = a /\ pc'[p] = l /\ loc'[p] = r
      /\ cwd'[p] = cwd[p]
  <2>1. AfterMove(p, l, r, cwd[p])
    BY ZenonT(30), <1>1, <1>5, <1>6, MovedTyped
  <2> QED
    BY Zenon, <1>3, <2>1 DEF AfterMove
<1>8. Excused(p)' = None /\ ClosesAt(p) = None /\ ClosesAt(p)' = None
  BY Zenon, <1>2, <1>4, <1>7 DEF Exits, Excused, ClosesAt
<1>9. \A e : RefAt(p, e)' = RefAt(p, e)
  BY ZenonT(30), <1>8, NoneIsNone DEF RefAt
<1>10. RefMoves(p, None)
  <2>1. RefAt(p, None) = None
    BY Zenon, NoneIsNone DEF RefAt
  <2> SUFFICES ASSUME NEW g \in Files
      PROVE  file'[g].ref = file[g].ref + Is(None, g) - Is(None, g) + Is(None, g) - Is(None, g)
    BY ZenonT(30), <1>8, <1>9, <2>1 DEF RefMoves
  <2>2. file[g].ref \in Int
    BY <1>1 DEF Types, File
  <2> QED
    BY SMTT(30), <2>2 DEF Is
<1>12. FileInv'
  BY Zenon, <1>1 DEF FileInv
<1>13. Brings(p)
  <2>1. \A g : UsesFile(p, g)' => UsesFile(p, g)
    BY ZenonT(30), <1>8, <1>9, UsesSame
  <2> QED
    BY Zenon, <2>1 DEF Brings
<1>14. PendFor(p)'
  BY Zenon, <1>4, <1>7 DEF PendFor
<1>15. RcMoves(p, None)
  <2>1. \A g \in Files : FileAt(g)' = FileAt(g)
    BY Zenon DEF FileAt
  <2>2. CwdAt(p)' = cwd[p] /\ CwdAt(p) = cwd[p]
    BY ZenonT(30), <1>2, <1>4, <1>7 DEF CwdAt
  <2>3. \A j \in Inums : rc[j] \in Int /\ lostRefs[j] \in Int
    BY SMTT(30), <1>1 DEF Types
  <2>4. RefersRight(p)
    BY SMTT(30), <1>2, <1>7, <2>2, <2>3 DEF Exits, RefersRight, Is
  <2> QED
    BY Zenon, <1>7, <2>1, <2>4, RcMovesKeep
<1>16. OpsRight(p)
  BY SMTT(30), <1>1, <1>4, <1>7 DEF OpsRight, Busy, Outside, Types
<1>17. LocalsOK(l, r)
  BY Zenon, <1>3, <1>4 DEF Exits, LocalsOK, PlaceAt, Waits, HasIp
<1>18. ExitOK(p)' /\ CwdOK(p)'
  <2>1. \A e \in Fds : ofile'[p][e] = RefAt(p, e)
    BY Zenon
  <2> QED
    BY ZenonT(30), <1>2, <1>4, <1>7, <2>1 DEF Exits, ExitOK, CwdOK
<1> QED
  BY ZenonT(30), <1>4, <1>5, <1>6, <1>10, <1>12, <1>13, <1>14, <1>15, <1>16, <1>17,
     <1>18,
     FileStepShown

\* The loop of exit() over the descriptors takes a step as Shown has it.
LEMMA ExitLoopShown ==
  ASSUME FilesInv, Counting, NEW p \in Procs, ExitLoop(p)
  PROVE  Shown(p)
<1> DEFINE left == Opened(p) \ {loc[p].fd}
<1>1. /\ pc[p] = "exit"
      /\ UNCHANGED <<dinode, rc, ilock, file, cwd, outstanding, lostRefs, lostOps>>
      /\ ofile' = [ofile EXCEPT ![p] = [fd \in Fds |-> IF fd \in left THEN @[fd] ELSE None]]
      /\ \/ /\ left # {}
            /\ loc' = [loc EXCEPT ![p].fd = Min(left), ![p].f = ofile[p][Min(left)]]
            /\ pc' = [pc EXCEPT ![p] = "fileclose"]
         \/ /\ left = {}
            /\ loc' = [loc EXCEPT ![p].fd = None, ![p].then = "put_cwd"]
            /\ pc' = [pc EXCEPT ![p] = "begin_op"]
  BY Zenon DEF ExitLoop, At, Goto, history
<1>2. Types /\ PlaceOK(p) /\ ExitOK(p)
  BY Zenon DEF FilesInv, ProcessesOK
<1>3. /\ loc[p].call = "exit" /\ loc[p].ip = None /\ loc[p] \in Locals
      /\ "fileclose" \in Labels /\ "begin_op" \in Labels /\ "put_cwd" \in Labels
  BY <1>1, <1>2
     DEF ExitOK, PlaceOK, LocalsOK, HasIp, Place, PlaceAt, Waits, Types, Labels
<1>4. \A e \in Fds : RefAt(p, e) = IF e \in left THEN ofile[p][e] ELSE None
  BY ZenonT(30), <1>1, <1>3 DEF RefAt, Excused, Opened
<1>5. left \in SUBSET Nat /\ left \subseteq Fds /\ \A e \in left : ofile[p][e] \in Files
  BY SMTT(30), <1>2, FilesAssumption DEF Opened, Fds, Types
<1> HIDE DEF left
<1>6. /\ ofile' \in [Procs -> [Fds -> Files \cup {None}]]
      /\ \A e \in Fds : ofile'[p][e] = RefAt(p, e)
      /\ \A q \in Procs \ {p} : ofile'[q] = ofile[q]
  <2>1. ofile \in [Procs -> [Fds -> Files \cup {None}]]
    BY Zenon, <1>2 DEF Types
  <2> QED
    BY ZenonT(30), <1>1, <1>4, <2>1
<1>7. cwd' = [cwd EXCEPT ![p] = cwd[p]] /\ file' \in [Files -> File]
  BY <1>1, <1>2 DEF Types
<1>8. CASE left # {}
  <2>1. PICK d \in left : d = Min(left)
    BY ZenonT(30), <1>5, <1>8, MinIn
  <2>2. PICK f \in Files : f = ofile[p][d]
    BY Zenon, <1>5, <2>1
  <2> DEFINE r == [loc[p] EXCEPT !.fd = d, !.f = f]
  <2>3. pc' = [pc EXCEPT ![p] = "fileclose"] /\ loc' = [loc EXCEPT ![p] = r]
    BY Zenon, <1>1, <1>8, <2>1, <2>2
  <2>4. Are(r, loc[p].call, loc[p].rest, loc[p].ip, f, d, loc[p].then)
    <3>1. d \in Fds \cup {None} /\ f \in Files \cup {None}
      BY Zenon, <1>5
    <3> QED
      BY Zenon, <1>3, <3>1, SetFdF
  <2> HIDE DEF r
  <2>5. Moved(p, "fileclose", r, cwd[p])
    BY ZenonT(30), <1>1, <1>6, <1>7, <2>3 DEF Moved
  <2>6. Exits(p, "fileclose", r) /\ r \in Locals
    <3>1. d \in Fds /\ RefAt(p, d) = f
      BY Zenon, <1>4, <1>5, <2>2
    <3> QED
      BY Zenon, <1>3, <2>4, <3>1 DEF Exits, Are
  <2> QED
    BY ZenonT(30), <1>1, <1>3, <1>6, <2>5, <2>6, ExitStepShown
<1>9. CASE left = {}
  <2> DEFINE r == [loc[p] EXCEPT !.fd = None, !.then = "put_cwd"]
  <2>1. pc' = [pc EXCEPT ![p] = "begin_op"] /\ loc' = [loc EXCEPT ![p] = r]
    BY Zenon, <1>1, <1>9
  <2>2. Are(r, loc[p].call, loc[p].rest, loc[p].ip, loc[p].f, None, "put_cwd")
    <3>1. None \in Fds \cup {None}
      BY Zenon
    <3> QED
      BY Zenon, <1>3, <3>1, SetFdThen
  <2> HIDE DEF r
  <2>3. Moved(p, "begin_op", r, cwd[p])
    BY Zenon, <1>1, <1>6, <1>7, <2>1 DEF Moved
  <2>4. Exits(p, "begin_op", r) /\ r \in Locals
    BY Zenon, <1>3, <1>4, <1>9, <2>2 DEF Exits, Are
  <2> QED
    BY ZenonT(30), <1>1, <1>3, <1>6, <2>3, <2>4, ExitStepShown
<1> QED
  BY Zenon, <1>8, <1>9

\* The descriptors of a process for a file can be counted.
LEMMA FdsNat == Counting => \A q \in Procs, f \in Files : Cardinality(FdsOf(q, f)) \in Nat
  BY Zenon DEF Counting

\* fork() gives the child its place and its share of the files.
LEMMA ForkShown ==
  ASSUME FilesInv, Counting, NEW p \in Procs, NEW q \in Procs, Fork(p, q)
  PROVE  Shown(p) \/ Forked(p, q)
<1>1. /\ pc[p] = "user" /\ pc[q] = "unused"
      /\ UNCHANGED <<dinode, ilock, outstanding, lostRefs, lostOps>>
  BY Zenon DEF Fork, At, history
<1>2. CASE cwd[p] = None
  BY ZenonT(30), <1>1, <1>2, StopShown DEF Fork
<1>3. CASE cwd[p] # None
  <2>1. /\ file' = SharesFiles(p) /\ ofile' = [ofile EXCEPT ![q] = ofile[p]]
        /\ rc' = Get(rc, cwd[p]) /\ cwd' = [cwd EXCEPT ![q] = cwd[p]]
        /\ pc' = [pc EXCEPT ![q] = "user"] /\ loc' = [loc EXCEPT ![q] = NoLocals]
    BY Zenon, <1>3 DEF Fork, SharesCwd, ChildCwd
  <2>2. /\ Types /\ FileInv /\ RefExact
        /\ PlaceOK(p) /\ ExitOK(p) /\ PlaceOK(q) /\ ExitOK(q) /\ CwdOK(q)
    BY ZenonT(30) DEF FilesInv, ProcessesOK
  <2>3. Place(p) = "user" /\ loc[p].call # "exit"
    BY ZenonT(30), <1>1, <2>2 DEF ExitOK, Place, PlaceAt, Waits
  <2>4. /\ Place(q) = "unused" /\ loc[q].call # "exit" /\ loc[q].ip = None /\ cwd[q] = None
        /\ q # initproc /\ \A e \in Fds : ofile[q][e] = None
    BY ZenonT(30), <1>1, <2>2
       DEF ExitOK, PlaceOK, LocalsOK, CwdOK, HasIp, Place, PlaceAt, Waits
  <2>5. /\ NoLocals.ip = None /\ NoLocals.call = "none" /\ NoLocals.then = "user"
        /\ "user" \in Labels
    BY DEF Labels, NoLocals
  <2>6. ASSUME NEW g \in Files
        PROVE  FileIs(file'[g], file[g].ref + Cardinality(FdsOf(p, g)), file[g].type, file[g].ip)
    <3>1. file[g] \in File /\ file[g].ref \in Nat
      BY Zenon, <2>2, RefsNat DEF Types
    <3>2. Cardinality(FdsOf(p, g)) \in Nat
      BY Zenon, FdsNat
    <3>3. file[g].ref + Cardinality(FdsOf(p, g)) \in Int
      BY <3>1, <3>2
    <3>4. file'[g] = [file[g] EXCEPT !.ref = file[g].ref + Cardinality(FdsOf(p, g))]
      BY Zenon, <2>1 DEF SharesFiles, FdsOf
    <3> QED
      BY Zenon, <3>1, <3>3, <3>4, SetRef
  <2>7. ASSUME NEW g \in Files
        PROVE  /\ file'[g].ref = file[g].ref + Cardinality(FdsOf(p, g))
               /\ file'[g].type = file[g].type /\ file'[g].ip = file[g].ip
               /\ file'[g] \in File
    BY Zenon, <2>6 DEF FileIs
  <2>8. file' \in [Files -> File]
    <3>1. file' = [g \in Files |-> file'[g]]
      BY ZenonT(30), <2>1 DEF SharesFiles
    <3> QED
      BY Zenon, <2>7, <3>1
  <2>9. /\ ofile' \in [Procs -> [Fds -> Files \cup {None}]] /\ ofile'[q] = ofile[p]
        /\ \A u \in Procs \ {q} : ofile'[u] = ofile[u]
    BY ZenonT(30), <2>1, <2>2 DEF Types
  <2>10. cwd[p] \in Inums
    BY ZenonT(30), <1>3, <2>2 DEF Types
  <2>11. rc' \in [Inums -> Int] /\ \A i \in Inums : rc'[i] = rc[i] + Is(cwd[p], i)
    BY ZenonT(30), <2>1, <2>2, <2>10, GetTyped
  <2>12. Moved(q, "user", NoLocals, cwd[p])
    BY ZenonT(30), <1>1, <2>1, <2>8, <2>9 DEF Moved
  <2>13. StillTyped
    BY Zenon, <1>1, <2>2, <2>11 DEF StillTyped, Types
  <2>14. /\ Types' /\ OthersKeep(q) /\ pc'[q] = "user" /\ loc'[q] = NoLocals
         /\ cwd'[q] = cwd[p] /\ Place(q)' = "user"
    <3>1. PlaceAt("user", NoLocals) = "user"
      BY DEF PlaceAt, Waits
    <3>2. cwd[p] \in Inums \cup {None}
      BY Zenon, <2>10
    <3>3. AfterMove(q, "user", NoLocals, cwd[p])
      BY ZenonT(30), <2>2, <2>5, <2>12, <2>13, <3>2, NoLocalsTyped, MovedTyped
    <3> QED
      BY Zenon, <3>1, <3>3 DEF AfterMove
  <2>15. /\ Excused(q) = None /\ Excused(q)' = None /\ ClosesAt(q) = None
         /\ ClosesAt(q)' = None /\ Excused(p) = None
    BY ZenonT(30), <1>1, <2>3, <2>4, <2>5, <2>14 DEF Excused, ClosesAt
  <2>16. /\ \A e \in Fds : RefAt(q, e) = None /\ RefAt(q, e)' = ofile[p][e]
         /\ \A e \in Fds : RefAt(p, e) = ofile[p][e]
    BY ZenonT(30), <2>4, <2>9, <2>15, NoneIsNone DEF RefAt
  <2>17. Shares(p, q)
    BY Zenon, <2>7, <2>15, <2>16 DEF Shares
  <2>18. FileInv'
    <3> SUFFICES ASSUME NEW g \in Files
        PROVE  /\ file'[g].ref = 0 => file'[g].type = "NONE"
               /\ file'[g].type = "INODE" => file'[g].ip # None
      BY Zenon DEF FileInv
    <3>1. file[g].ref \in Nat /\ Cardinality(FdsOf(p, g)) \in Nat
      BY ZenonT(30), <2>2, RefsNat, FdsNat
    <3>2. file'[g].ref = 0 => file[g].ref = 0
      BY SMTT(30), <2>7, <3>1
    <3> QED
      BY ZenonT(30), <2>2, <2>7, <3>2 DEF FileInv
  <2>19. Brings(q)
    <3> SUFFICES ASSUME NEW g \in Files, UsesFile(q, g)' \/ file'[g].type # file[g].type
        PROVE  Place(p) # "install" /\ UsesFile(p, g)
      BY Zenon DEF Brings
    <3>1. UsesFile(q, g)' /\ g # None
      BY Zenon, <2>7, NoneIsNone
    <3>2. PICK e \in Fds : RefAt(q, e)' = g
      BY Zenon, <2>15, <3>1 DEF UsesFile
    <3>3. UsesFile(p, g)
      BY ZenonT(30), <2>16, <3>2 DEF UsesFile
    <3> QED
      BY <2>3, <3>3
  <2>20. PendFor(q)'
    BY <2>14 DEF PendFor
  <2>21. RcMoves(q, None)
    <3>1. \A g \in Files : FileAt(g)' = FileAt(g)
      BY ZenonT(30), <2>7 DEF FileAt
    <3>2. CwdAt(q)' = cwd[p] /\ CwdAt(q) = None
      BY ZenonT(30), <2>4, <2>5, <2>14 DEF CwdAt
    <3>3. \A i \in Inums : rc[i] \in Int /\ lostRefs[i] \in Nat /\ lostRefs'[i] = lostRefs[i]
      BY ZenonT(30), <1>1, <2>2 DEF Types
    <3>4. ASSUME NEW i \in Inums
          PROVE  rc'[i] = rc[i] + Is(cwd[p], i) - Is(None, i)
                           + Is(None, i) - Is(None, i) + lostRefs[i] - lostRefs[i]
      <4>1. Is(None, i) = 0
        BY Zenon, NoneIsNone DEF Is
      <4>2. Is(cwd[p], i) \in Int
        BY DEF Is
      <4> QED
        BY <2>11, <3>3, <4>1, <4>2
    <3>5. RefersRight(q)
      BY ZenonT(30), <2>4, <2>5, <2>14, <3>2, <3>3, <3>4 DEF RefersRight
    <3> QED
      BY ZenonT(30), <2>14, <3>1, <3>5, RcMovesKeep
  <2>22. OpsRight(q)
    BY <1>1, <2>2, <2>14 DEF OpsRight, Busy, Outside, Types
  <2>23. LocalsOK("user", NoLocals)
    BY ZenonT(30), <2>5 DEF LocalsOK, PlaceAt, Waits, HasIp
  <2>24. ExitOK(q)' /\ CwdOK(q)'
    BY ZenonT(30), <1>3, <2>4, <2>5, <2>14 DEF ExitOK, CwdOK
  <2>25. cwd[p] \in Inums \cup {None}
    BY Zenon, <2>10
  <2>26. PlaceOK(q)' /\ LookOK(q)'
    BY Zenon, <2>14, <2>23 DEF PlaceOK, LookOK, LookAt
  <2>27. DiskInv' /\ Grows
    BY Zenon, <1>1, DiskSame
  <2>28. Placed(q)
    BY Zenon, <2>14, <2>22, <2>24, <2>26, <2>27 DEF Placed
  <2> QED
    BY Zenon, <2>17, <2>18, <2>19, <2>20, <2>21, <2>28 DEF Forked
<1> QED
  BY Zenon, <1>2, <1>3
=============================================================================
