-------------------------- MODULE MC_RunqAccounting --------------------------
(***************************************************************************)
(* A small instance of RunqAccounting for TLC: t1 and t2 hold tid 1 one    *)
(* after the other, t3 competes with them for the processor.               *)
(***************************************************************************)
EXTENDS RunqAccounting

CONSTANTS t1, t2, t3, c1

MCTidOf == [t \in Task |-> IF t = t3 THEN 2 ELSE 1]
=============================================================================
