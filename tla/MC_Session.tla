----------------------------- MODULE MC_Session -----------------------------
(***************************************************************************)
(* Session with two collectors: enough for one to fail while the other     *)
(* goes on, and for the single-collector scenarios.                        *)
(***************************************************************************)
EXTENDS Session
=============================================================================
