--------------------------- MODULE AtomicConsole ---------------------------
(***************************************************************************)
(* What the console promises to those who type and those who read          *)
(* (src/src/core/console.c): a line that can be edited until it is         *)
(* entered, and entered lines that are read in order.                      *)
(***************************************************************************)
EXTENDS Integers, Sequences

CONSTANTS Readers, Chars, NEWLINE, EOF, Capacity

VARIABLES
    edit,    \* the line that is being typed
    lines,   \* what has been entered and not read
    got      \* what each call of read has so far

Init == edit = <<>> /\ lines = <<>> /\ got = [p \in Readers |-> <<>>]

\* A character is dropped when there is no room for it.  The line is entered at
\* its end, and when it fills the room.
Type(c) ==
    LET line == Append(edit, c)
        full == Len(lines) + Len(line) = Capacity
    IN  /\ Len(lines) + Len(edit) < Capacity
        /\ IF c \in {NEWLINE, EOF} \/ full
             THEN lines' = lines \o line /\ edit' = <<>>
             ELSE edit' = line /\ UNCHANGED lines
        /\ UNCHANGED got
Erase ==
    /\ edit # <<>> /\ edit' = SubSeq(edit, 1, Len(edit) - 1) /\ UNCHANGED <<lines, got>>
Kill == edit' = <<>> /\ UNCHANGED <<lines, got>>

\* A call takes characters up to the end of a line, never an EOF; it takes the EOF
\* when it has nothing else.
Take(p, k) ==
    /\ k <= Len(lines)
    /\ \A j \in 1..k : lines[j] # EOF /\ (j < k => lines[j] # NEWLINE)
    /\ got' = [got EXCEPT ![p] = @ \o SubSeq(lines, 1, k)]
    /\ lines' = SubSeq(lines, k + 1, Len(lines))
    /\ UNCHANGED edit
TakeEof(p) ==
    /\ lines # <<>> /\ Head(lines) = EOF /\ got[p] = <<>>
    /\ lines' = Tail(lines) /\ UNCHANGED <<edit, got>>
Return(p) == got' = [got EXCEPT ![p] = <<>>] /\ UNCHANGED <<edit, lines>>

Next ==
    \/ \E c \in Chars \cup {NEWLINE, EOF} : Type(c)
    \/ Erase \/ Kill
    \/ \E p \in Readers : (\E k \in 1..Capacity : Take(p, k)) \/ TakeEof(p) \/ Return(p)

Spec == Init /\ [][Next]_<<edit, lines, got>>
=============================================================================
