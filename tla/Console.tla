------------------------------ MODULE Console ------------------------------
(***************************************************************************)
(* The input side of the console (src/src/core/console.c): console_intr    *)
(* edits the ring input, console_read takes entered characters out of it   *)
(* and sleeps when there are none.  Both hold conslock from beginning to   *)
(* end, except in sleep: a character of console_intr is one step, and so   *)
(* is what console_read does between two sleeps.  uart_get_char gives      *)
(* console_intr its characters.                                            *)
(***************************************************************************)
EXTENDS Integers, Sequences

CONSTANTS
    INPUT_BUF,        \* characters of the ring
    Readers,          \* processes that read the console
    Chars,            \* ordinary characters
    NEWLINE, EOF,     \* the characters that end a line: '\n' and C('D')
    Counts,           \* counts that are passed to read
    MaxTyped          \* bound: characters that are put into the ring

ASSUME ConsoleAssumption ==
    /\ INPUT_BUF \in Nat \ {0} /\ Counts \subseteq Nat \ {0} /\ MaxTyped \in Nat
    /\ NEWLINE # EOF /\ {NEWLINE, EOF} \cap Chars = {}

Keys == Chars \cup {NEWLINE, EOF}

VARIABLES
    buf, r, w, e,   \* input
    rd,             \* the call of read of each reader
    typed

consoleVars == <<buf, r, w, e, rd, typed>>

Idle == [pc |-> "idle", n |-> 0, got |-> <<>>]
Slot(i) == i % INPUT_BUF

ConsoleInit ==
    /\ buf = [i \in 0..INPUT_BUF - 1 |-> NEWLINE]
    /\ r = 0 /\ w = 0 /\ e = 0
    /\ rd = [p \in Readers |-> Idle] /\ typed = 0

-----------------------------------------------------------------------------
(* console_intr                                                             *)

\* wakeup(&input.r).
Woken ==
    [p \in Readers |-> IF rd[p].pc = "sleep" THEN [rd[p] EXCEPT !.pc = "run"] ELSE rd[p]]

\* Room in the ring, and the end of a line.  (The mutants look at w instead of r,
\* and do not enter a line that fills the ring.)
RoomAfterW == e - w < INPUT_BUF
Room == e - r < INPUT_BUF
EntersAtEnd(c) == c \in {NEWLINE, EOF}
Enters(c) == c \in {NEWLINE, EOF} \/ e + 1 = r + INPUT_BUF

Type(c) ==
    /\ typed < MaxTyped /\ Room
    /\ buf' = [buf EXCEPT ![Slot(e)] = c]
    /\ e' = e + 1 /\ typed' = typed + 1
    /\ IF Enters(c) THEN w' = e + 1 /\ rd' = Woken ELSE UNCHANGED <<w, rd>>
    /\ UNCHANGED r

\* The character at an index.
At(i) == buf[Slot(i)]

\* Backspace, and C('U'), which erases back to the start of the line.
Erase ==
    /\ e # w /\ e' = e - 1
    /\ UNCHANGED <<buf, r, w, rd, typed>>
LineStart(i) == i = w \/ At(i - 1) = NEWLINE
Kill ==
    /\ \E i \in w..e :
          LineStart(i) /\ (\A j \in i + 1..e : ~LineStart(j)) /\ e' = i
    /\ UNCHANGED <<buf, r, w, rd, typed>>

-----------------------------------------------------------------------------
(* console_read                                                             *)

Call(p, n) ==
    /\ rd[p].pc = "idle"
    /\ rd' = [rd EXCEPT ![p] = [pc |-> "run", n |-> n, got |-> <<>>]]
    /\ UNCHANGED <<buf, r, w, e, typed>>

\* Where the loop ends: when it has n characters, with a NEWLINE, at an EOF, or
\* when no character is left.
Full(n, i) == i = r + n \/ (i > r /\ At(i - 1) = NEWLINE)
StopsAt(n, i) == Full(n, i) \/ i = w \/ At(i) = EOF

\* The characters from index i up to index j.
Window(i, j) == [k \in 1..j - i |-> At(i + k - 1)]

\* An EOF stays in the ring for the next call if this one has characters.
EofTaken(got) == got = <<>>
ReadTo(p, i) ==
    LET n == rd[p].n
        got == rd[p].got \o Window(r, i)
        eof == ~Full(n, i) /\ i < w
    IN  /\ StopsAt(n, i) /\ \A j \in r..i - 1 : ~StopsAt(n, j)
        /\ r' = IF eof /\ EofTaken(got) THEN i + 1 ELSE i
        /\ rd' = [rd EXCEPT ![p] =
                     IF Full(n, i) \/ eof THEN [pc |-> "return", n |-> n, got |-> got]
                                          ELSE [pc |-> "sleep", n |-> n - (i - r), got |-> got]]
Read(p) ==
    /\ rd[p].pc = "run" /\ \E i \in r..w : ReadTo(p, i)
    /\ UNCHANGED <<buf, w, e, typed>>
Return(p) ==
    /\ rd[p].pc = "return"
    /\ rd' = [rd EXCEPT ![p] = Idle]
    /\ UNCHANGED <<buf, r, w, e, typed>>

ConsoleNext ==
    \/ \E c \in Keys : Type(c)
    \/ Erase \/ Kill
    \/ \E p \in Readers : (\E n \in Counts : Call(p, n)) \/ Read(p) \/ Return(p)

ConsoleSpec == ConsoleInit /\ [][ConsoleNext]_consoleVars

-----------------------------------------------------------------------------
(* Properties.                                                              *)

\* The three indices of the ring stay in order, and no more than INPUT_BUF
\* characters lie between them.
RingOrder == r <= w /\ w <= e /\ e <= r + INPUT_BUF

\* Typing can always go on, and nobody sleeps who could read: when the ring is full
\* its line has been entered, and a process sleeps in console_read only while
\* nothing is there for it, so that a full ring always has a reader to empty it.
NeverStuck ==
    /\ e = r + INPUT_BUF => w = e
    /\ \A p \in Readers : rd[p].pc = "sleep" => r = w

\* The line that is edited, what has been entered, and what the readers have.
Edit == Window(w, e)
Lines == Window(r, w)
Got == [p \in Readers |-> rd[p].got]
Abs == INSTANCE AtomicConsole WITH
    edit <- Edit, lines <- Lines, got <- Got, Capacity <- INPUT_BUF

\* The ring is a console: what is typed is edited and read in order, without a loss
\* or a repetition when the indices wrap, two readers never get the same character,
\* and an EOF is taken by exactly one call, which returns 0.
ConsoleInOrder == Abs!Spec
=============================================================================
