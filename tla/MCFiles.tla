------------------------------ MODULE MCFiles ------------------------------
EXTENDS Files

\* "/", "a", and "/a/b".
MCPaths == {[abs |-> TRUE, elems |-> <<>>], [abs |-> FALSE, elems |-> <<"a">>],
            [abs |-> TRUE, elems |-> <<"a", "b">>]}
=============================================================================
