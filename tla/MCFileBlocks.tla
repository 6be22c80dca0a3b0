---------------------------- MODULE MCFileBlocks ----------------------------
EXTENDS FileBlocks, TLC

\* A root with one file fills its second block; one without leaves a hole.
OneFile == {<<[name |-> "a", data |-> <<9>>]>>}
NoFile == {<<>>}

AnyThread == Permutations(Threads)
=============================================================================
