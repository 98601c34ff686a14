----------------------------- MODULE MC_MemPath -----------------------------
(* One process id with several lives: two ids share nothing but the poll.    *)
EXTENDS MemPath

CONSTANTS u
=============================================================================
