-------------------------- MODULE MC_TargetTracker --------------------------
(* Small instances of TargetTracker: the target and one or two other ids.    *)
EXTENDS TargetTracker, TLC

CONSTANTS p1, p2, p3

Symmetry == Permutations({p2, p3})
=============================================================================
