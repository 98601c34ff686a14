----------------------------- MODULE MC_BlockIO -----------------------------
(* Small instances of BlockIO: every request of one device, or two devices.  *)
EXTENDS BlockIO, TLC

CONSTANTS r1, r2, d1

MCRequest == {r1, r2}
MCDevOf == r1 :> d1 @@ r2 :> d1
Symmetry == Permutations(MCRequest)
MCOneRequest == {r1}
MCOneDevOf == r1 :> d1

\* A third poll early on, where the maps have room for one request and its device.
Bound ==
  polls + (IF pollMono = 0 THEN 0 ELSE 1) <= 2 \/ (startRoom = 1 /\ devRoom = 1 /\ now <= 3)
=============================================================================
