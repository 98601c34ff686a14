--------------------------- MODULE MC_SyscallPath ---------------------------
(* Two thread ids; a process near the root, and one that is deep in the tree, outside
   it or, without a target, the collector itself.                            *)
EXTENDS SyscallPath, TLC

CONSTANTS n, d, t1, t2

Symmetry == Permutations({t1, t2})
=============================================================================
