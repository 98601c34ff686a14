---------------------------- MODULE EpisodeSpec ----------------------------
(***************************************************************************)
(* What a sustained-threshold detector promises, without saying how it     *)
(* counts: an episode of a key is a maximal stretch of consecutive windows *)
(* in which the key is hot; it is announced once, by the window that makes *)
(* it Sustain windows long, and the incident spans exactly those windows.  *)
(***************************************************************************)
EXTENDS Integers, Sequences

CONSTANTS
  Key,
  Sustain  \* at least 1


VARIABLES
  hot,       \* hot[i]: the keys hot in window i
  announced  \* the incidents announced by the last window

vars == <<hot, announced>>

\* Key k is hot in each of the last Sustain windows and was not just before.
Ripe(k, h) ==
  /\ Len(h) >= Sustain
  /\ \A i \in (Len(h) - Sustain + 1) .. Len(h) : k \in h[i]
  /\ Len(h) > Sustain => k \notin h[Len(h) - Sustain]

Incident(k, h) == [key |-> k, first |-> Len(h) - Sustain + 1, last |-> Len(h)]

Window(H) ==
  /\ hot' = Append(hot, H)
  /\ announced' = {Incident(k, hot') : k \in {j \in Key : Ripe(j, hot')}}

Init == hot = <<>> /\ announced = {}

Next == \E H \in SUBSET Key : Window(H)

Spec == Init /\ [][Next]_vars
=============================================================================
