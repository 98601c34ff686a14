---------------------------- MODULE MC_LockPath ----------------------------
(* Either two threads that follow one another under one id, in two processes, *)
(* or two that run side by side from the start.                               *)
EXTENDS LockPath, TLC

CONSTANTS a, b, c, p, q, l

MCTidOf == (a :> 1) @@ (b :> 1) @@ (c :> 2)
MCProcOf == (a :> p) @@ (b :> q) @@ (c :> q)

MCInit ==
  /\ Init
  /\ \/ alive \cup unborn = {a, b}
     \/ alive = {a, c} /\ unborn = {} /\ inside = [t \in Task |-> None]

\* Two that run side by side have less time.
Bound ==
  c \in alive =>
    /\ ~health /\ (setup = 5 \/ now = 0)
    /\ now <= 4 /\ polls + (IF pc = "idle" THEN 0 ELSE 1) <= 1
=============================================================================
