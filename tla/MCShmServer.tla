---------------------------- MODULE MCShmServer ----------------------------
EXTENDS ShmLedger, TLC
Symmetry == Permutations(Clients) \cup Permutations(Workers) \cup Permutations(Ptrs)
============================================================================
