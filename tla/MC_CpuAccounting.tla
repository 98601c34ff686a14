-------------------------- MODULE MC_CpuAccounting --------------------------
(***************************************************************************)
(* A small instance of CpuAccounting for TLC: two tasks that hold the same *)
(* thread id one after the other.                                          *)
(***************************************************************************)
EXTENDS CpuAccounting

CONSTANTS t1, t2, c1

MCTidOf == [t \in Task |-> 1]
=============================================================================
