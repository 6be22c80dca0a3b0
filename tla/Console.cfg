SPECIFICATION ConsoleSpec
CONSTANTS
    INPUT_BUF = 3
    Readers = {p1, p2}
    Chars = {a}
    NEWLINE = newline
    EOF = eof
    Counts = {1, 2, 4}
    MaxTyped = 6
INVARIANTS NeverStuck
PROPERTY ConsoleInOrder
CHECK_DEADLOCK FALSE
