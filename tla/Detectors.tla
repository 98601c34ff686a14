----------------------------- MODULE Detectors -----------------------------
(***************************************************************************)
(* The detectors of internal/detector.  CPU, I/O, lock and syscall         *)
(* detectors keep the same three maps over their own keys and are one      *)
(* machine here; the memory detector keeps three scalars and lets an OOM   *)
(* event through at once.  All are fed once per observation window, with a *)
(* sample per key at most; window i is written i.                          *)
(***************************************************************************)
EXTENDS Integers, Sequences

CONSTANTS
  MapKey,     \* keys of the map detectors: pid, device, lock, (pid, syscall)
  Mem,        \* the memory detector, which has one key: the system
  sustain,    \* the constructors' argument
  MaxWindows  \* bound: number of windows

ASSUME DetectorAssumption ==
  Mem \notin MapKey /\ sustain \in Int /\ MaxWindows \in Nat

VARIABLES
  counters, firstSeen, fired,       \* the map detectors; counter 0: key absent
  count, memFirstSeen, memFired,    \* MemDetector
  signals,                          \* the incidents of the last window
  oomSignal,                        \* the last window's OOM event was signalled
  hot                               \* history: hot[i]: the keys hot in window i

mapVars == <<counters, firstSeen, fired>>
memVars == <<count, memFirstSeen, memFired>>
vars == <<mapVars, memVars, signals, oomSignal, hot>>

\* The constructors accept no sustain below one window.
SustainTicks == IF sustain < 1 THEN 1 ELSE sustain

Key == MapKey \cup {Mem}
window == Len(hot) + 1
Incident(k, first, last) == [key |-> k, first |-> first, last |-> last]

----------------------------------------------------------------------------
(* The map detectors' Detect.                                              *)

\* Detect without the loop over the keys that are not active any more.
NeverReset(active) == [k \in MapKey |-> IF k \in active THEN counters[k] + 1 ELSE counters[k]]

\* A window counts for an active key and ends the streak of every other.
Counted(active) == [k \in MapKey |-> IF k \in active THEN counters[k] + 1 ELSE 0]

FirstSeen(active) ==
  [k \in MapKey |-> IF k \notin active THEN 0
                    ELSE IF counters[k] = 0 THEN window ELSE firstSeen[k]]

Fires(active) == {k \in active : Counted(active)[k] >= SustainTicks /\ ~fired[k]}

\* Detect, for the keys whose sample is valid and over its threshold.
Detect(active) ==
  /\ counters' = Counted(active)
  /\ firstSeen' = FirstSeen(active)
  /\ fired' = [k \in MapKey |-> k \in active /\ (fired[k] \/ k \in Fires(active))]

----------------------------------------------------------------------------
(* MemDetector.Detect.                                                     *)

\* An OOM event without the reset of the count.
OomKeepsCount(pressure, oom) == ~pressure /\ ~oom

\* An OOM event, and a window without pressure, start the count anew.
Restarts(pressure, oom) == oom \/ ~pressure

MemFires(pressure, oom) ==
  ~Restarts(pressure, oom) /\ count + 1 >= SustainTicks /\ ~memFired

MemDetect(pressure, oom) ==
  /\ IF Restarts(pressure, oom)
     THEN count' = 0 /\ memFired' = FALSE /\ UNCHANGED memFirstSeen
     ELSE /\ memFirstSeen' = IF count = 0 THEN window ELSE memFirstSeen
          /\ count' = count + 1
          /\ memFired' = (memFired \/ MemFires(pressure, oom))
  /\ oomSignal' = oom

----------------------------------------------------------------------------
\* One observation window: every detector gets its samples.
Observe(active, pressure, oom) ==
  /\ Len(hot) < MaxWindows
  /\ Detect(active)
  /\ MemDetect(pressure, oom)
  /\ signals' = {Incident(k, firstSeen'[k], window) : k \in Fires(active)}
       \cup (IF MemFires(pressure, oom) THEN {Incident(Mem, memFirstSeen', window)} ELSE {})
  /\ hot' = Append(hot, active \cup (IF pressure /\ ~oom THEN {Mem} ELSE {}))

Init ==
  /\ counters = [k \in MapKey |-> 0]
  /\ firstSeen = [k \in MapKey |-> 0]
  /\ fired = [k \in MapKey |-> FALSE]
  /\ count = 0 /\ memFirstSeen = 0 /\ memFired = FALSE
  /\ signals = {} /\ oomSignal = FALSE
  /\ hot = <<>>

Next ==
  \E active \in SUBSET MapKey, pressure, oom \in BOOLEAN : Observe(active, pressure, oom)

Spec == Init /\ [][Next]_vars

----------------------------------------------------------------------------
(* Properties.                                                             *)

TypeOK ==
  /\ counters \in [MapKey -> Nat] /\ firstSeen \in [MapKey -> Nat]
  /\ fired \in [MapKey -> BOOLEAN]
  /\ count \in Nat /\ memFirstSeen \in Nat /\ memFired \in BOOLEAN
  /\ oomSignal \in BOOLEAN
  /\ hot \in Seq(SUBSET Key)

\* k has been hot in its last c windows of h, from window first, and not before.
Stretch(k, h, c, first) ==
  /\ c <= Len(h)
  /\ \A i \in (Len(h) - c + 1) .. Len(h) : k \in h[i]
  /\ c < Len(h) => k \notin h[Len(h) - c]
  /\ c > 0 => first = Len(h) - c + 1

\* The counters say how long the current stretch of hot windows is, and the
\* flags whether it has become long enough, through OOM events and absences.
StreaksCounted ==
  /\ \A k \in MapKey : /\ Stretch(k, hot, counters[k], firstSeen[k])
                       /\ fired[k] <=> counters[k] >= SustainTicks
  /\ Stretch(Mem, hot, count, memFirstSeen)
  /\ memFired <=> count >= SustainTicks

\* Every detector, the memory detector included, announces each episode once,
\* when it becomes long enough, with the window it really spanned.
Episodes == INSTANCE EpisodeSpec WITH Sustain <- SustainTicks, announced <- signals
ImplementsEpisodes == Episodes!Spec
=============================================================================
