---------------------------- MODULE AtomicFiles ----------------------------
(***************************************************************************)
(* What the inode layer promises on top of the log (src/src/fs/inode.h,    *)
(* cache.h): files are sequences, directories are maps from names to       *)
(* inodes, and each operation is one change to them that a failure of the  *)
(* power keeps or loses as a whole.                                        *)
(***************************************************************************)
EXTENDS Integers, Sequences

CONSTANTS Inums, Names, Values

VARIABLES
    live,     \* what lookup and read see
    durable   \* what is left after a restart

None == 0
Free == [type |-> "free", data |-> <<>>, names |-> [n \in Names |-> None]]
File == [type: {"free", "dir", "file"}, data: Seq(Values),
         names: [Names -> Inums \cup {None}]]

Init == live \in [Inums -> File] /\ durable = live

\* The first unit of s goes to position off; what was there is overwritten.
Overwritten(old, off, s) ==
    [k \in 1..(IF off + Len(s) > Len(old) THEN off + Len(s) ELSE Len(old)) |->
        IF k \in off + 1..off + Len(s) THEN s[k - off] ELSE old[k]]

\* What an operation may turn the files f into.
Of(f, type) == {i \in Inums : f[i].type = type}
Make(f, g) ==
    \E d \in Of(f, "dir"), i \in Of(f, "free"), n \in Names, type \in {"dir", "file"} :
        /\ f[d].names[n] = None
        /\ g = [f EXCEPT ![d].names[n] = i, ![i] = [Free EXCEPT !.type = type]]

Write(f, g) ==
    \E i \in Of(f, "file"), v \in Values :
        \E off \in 0..Len(f[i].data), n \in 1..Len(g[i].data) :
            g = [f EXCEPT ![i].data = Overwritten(@, off, [k \in 1..n |-> v])]

Clear(f, g) ==
    \E i \in Of(f, "file") : g = [f EXCEPT ![i].data = <<>>]

Unlink(f, g) ==
    \E d \in Of(f, "dir"), n \in Names :
        /\ f[d].names[n] # None
        /\ g = [f EXCEPT ![d].names[n] = None, ![f[d].names[n]] = Free]

Operation(f, g) == Make(f, g) \/ Write(f, g) \/ Clear(f, g) \/ Unlink(f, g)
Checkpoint == durable' = live /\ UNCHANGED live
Restart == live' = durable /\ UNCHANGED durable

Next ==
    \/ Checkpoint
    \/ Restart
    \/ \E f \in {live}, g \in {live'} : Operation(f, g) /\ UNCHANGED durable

Spec == Init /\ [][Next]_<<live, durable>>
=============================================================================
