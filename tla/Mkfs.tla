-------------------------------- MODULE Mkfs --------------------------------
(***************************************************************************)
(* The disk: its layout (src/src/fs/defines.h), how an inode leads to the  *)
(* blocks of its file, and the image that mkfs writes                      *)
(* (src/src/user/mkfs/main.c), as a function of its arguments.             *)
(*                                                                         *)
(* A unit is a directory entry, a block address or a piece of a file; a    *)
(* block holds BSIZE of them.  The contents of a disk are a function from  *)
(* blocks: an inode block holds IPB inodes, a bitmap block the set of its  *)
(* bits that are 1, any other block its units.                             *)
(***************************************************************************)
EXTENDS Integers, Sequences, FiniteSets, FiniteSetsExt, SequencesExt

CONSTANTS
    BSIZE,        \* units of a block
    NDIRECT,      \* direct addresses of an inode
    NINODES,      \* inodes
    IPB,          \* inodes of a block
    LOGSIZE,      \* blocks of the log
    FSSIZE,       \* blocks of the disk
    BPB           \* bits of a bitmap block

ASSUME MkfsAssumption ==
    {BSIZE, NDIRECT, NINODES, IPB, FSSIZE, BPB, LOGSIZE} \subseteq Nat \ {0}

ROOT_INODE_NO == 1
Inums == 1..NINODES - 1
Blocks == 0..FSSIZE - 1
Offsets == 0..BSIZE - 1
NINDIRECT == BSIZE
INODE_MAX_BLOCKS == NDIRECT + NINDIRECT
Upto(n) == [k \in 1..n |-> k - 1]

\* The layout: [boot | super | log | inodes | bitmap | data].
inode_start == 2 + LOGSIZE
ninodeblocks == NINODES \div IPB + 1
bitmap_start == inode_start + ninodeblocks
nbitmap == FSSIZE \div BPB + 1
nmeta == bitmap_start + nbitmap
IBLOCK(i) == inode_start + i \div IPB
BBLOCK(b) == bitmap_start + b \div BPB

\* A unit: a number (a piece of a file, an address, an inode) and a name.
Unit(n) == <<n, "">>
DirEntry(i, name) == <<i, name>>
Zero == Unit(0)
ZeroBlock == [k \in Offsets |-> Zero]
ZeroInode == [type |-> "free", num_links |-> 0, num_bytes |-> 0,
              addrs |-> [k \in 0..NDIRECT - 1 |-> 0], indirect |-> 0]

\* get_entry; the bits that are set; the address of block k of a file, 0 if none.
Dinode(m, i) == m[IBLOCK(i)][i % IPB]
Used(m) == {b \in Blocks : b % BPB \in m[BBLOCK(b)]}
AddrOf(m, e, k) ==
    IF k < NDIRECT THEN e.addrs[k]
    ELSE IF e.indirect = 0 THEN 0 ELSE m[e.indirect][k - NDIRECT][1]
UnitAt(m, e, off) ==
    LET a == AddrOf(m, e, off \div BSIZE) IN IF a = 0 THEN Zero ELSE m[a][off % BSIZE]

\* Block k of a file with data written at off.
Patched(block, k, off, data) ==
    [j \in Offsets |->
        LET at == k * BSIZE + j IN
        IF at \in off..off + Len(data) - 1 THEN data[at - off + 1] ELSE block[j]]
\* The blocks of a file that positions off..end - 1 lie in.
BlocksOf(off, end) ==
    SelectSeq(Upto(INODE_MAX_BLOCKS),
              LAMBDA k : k * BSIZE < end /\ (k + 1) * BSIZE > off)

-----------------------------------------------------------------------------
(* mkfs, on a record s of the image and its two counters.                   *)

\* Every sector is zero.
Wiped == [b \in Blocks |->
            IF b \in inode_start..bitmap_start - 1 THEN [k \in 0..IPB - 1 |-> ZeroInode]
            ELSE IF b \in bitmap_start..nmeta - 1 THEN {}
            ELSE ZeroBlock]
Winode(s, i, e) == [s EXCEPT !.disk[IBLOCK(i)][i % IPB] = e]

\* ialloc
Ialloc(s, type) ==
    [Winode(s, s.freeinode, [ZeroInode EXCEPT !.type = type, !.num_links = 1])
       EXCEPT !.freeinode = @ + 1]

\* One round of iappend: block k of inode i gets its part of the data, and its
\* addresses where it has none.
NewBlock(s) == [s EXCEPT !.freeblock = @ + 1]
AppendMap(s, i, k) ==
    LET e == Dinode(s.disk, i) IN
    IF AddrOf(s.disk, e, k) # 0 THEN s
    ELSE IF k < NDIRECT THEN Winode(NewBlock(s), i, [e EXCEPT !.addrs[k] = s.freeblock])
    ELSE LET s1 == IF e.indirect # 0 THEN s
                   ELSE Winode(NewBlock(s), i, [e EXCEPT !.indirect = s.freeblock])
         IN  [NewBlock(s1) EXCEPT
                !.disk[Dinode(s1.disk, i).indirect][k - NDIRECT] = Unit(s1.freeblock)]
Iappend(s, i, data) ==
    LET off == Dinode(s.disk, i).num_bytes
        Round(v, k) ==
            LET x == AppendMap(v, i, k)
                a == AddrOf(x.disk, Dinode(x.disk, i), k)
            IN  [x EXCEPT !.disk[a] = Patched(@, k, off, data)]
        y == FoldLeft(Round, s, BlocksOf(off, off + Len(data)))
    IN  Winode(y, i, [Dinode(y.disk, i) EXCEPT !.num_bytes = off + Len(data)])

\* One file of the command line.
AddFile(s, f) ==
    LET i == s.freeinode
        s1 == Iappend(Ialloc(s, "file"), ROOT_INODE_NO, <<DirEntry(i, f.name)>>)
    IN  Iappend(s1, i, [k \in 1..Len(f.data) |-> Unit(f.data[k])])

\* "fix size of root inode dir": the size becomes the next multiple of a block.
FixedSize(n) == (n \div BSIZE + 1) * BSIZE

\* main: the root with its two entries, the files, the size of the root, balloc.
Mkfs(files) ==
    LET root == Ialloc([disk |-> Wiped, freeblock |-> nmeta, freeinode |-> 1], "dir")
        dots == Iappend(Iappend(root, ROOT_INODE_NO, <<DirEntry(ROOT_INODE_NO, ".")>>),
                        ROOT_INODE_NO, <<DirEntry(ROOT_INODE_NO, "..")>>)
        full == FoldLeft(AddFile, dots, files)
        e == Dinode(full.disk, ROOT_INODE_NO)
        fixed == Winode(full, ROOT_INODE_NO, [e EXCEPT !.num_bytes = FixedSize(@)])
    IN  [fixed.disk EXCEPT ![bitmap_start] = 0..fixed.freeblock - 1]
=============================================================================
