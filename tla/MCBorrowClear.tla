---------------------------- MODULE MCBorrowClear ----------------------------
EXTENDS BorrowClear

Mem(kind, name, node) == [kind |-> kind, name |-> name, node |-> node]

\* Two kinds under one name, shared memory beside them, memory nothing gives back, and
\* memory of a node of the cluster that is none of the test's.
MCMemory == {Mem("fd", "x", 1), Mem("numa", "x", 2), Mem("shm", "y", Nobody),
             Mem("addr", "w", 2), Mem("fd", "x", 4)}
MCIds == 1..4
=============================================================================
