--------------------------- MODULE MCExecutorWindow ---------------------------
EXTENDS ExecutorWindow

\* A tracked path in scope, a tracked one outside it, and a new unsafe one.
MCPaths == 1..3
MCInScope == {1}
MCUnsafe == {3}
MCBase == [p \in 1..3 |-> IF p = 3 THEN NoFile ELSE "base"]
MCFolder == [p \in 1..3 |-> IF p = 3 THEN "." ELSE "src"]
MCDepth == [p \in 1..3 |-> IF p = 3 THEN 1 ELSE 2]
MCStaged == {{}, {1}}
=============================================================================
