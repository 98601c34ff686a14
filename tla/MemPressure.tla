---------------------------- MODULE MemPressure ----------------------------
(***************************************************************************)
(* From the facts of one window to what the memory detector sees and whom  *)
(* it blames: MemCollector.Poll behind the differences, which MemPath      *)
(* models, and the rules of internal/detector/mem.go.                      *)
(*                                                                         *)
(* facts[p] is [stalls, reclaim, growth, faults, marked]: how often and    *)
(* how long process p was in direct reclaim in the window, what else it    *)
(* did, and how often it became an OOM victim.  gauge is a reading that    *)
(* means pressure: little memory available, or time lost to pressure by    *)
(* some or by all tasks.                                                   *)
(***************************************************************************)
EXTENDS Reports, FiniteSetsExt

CONSTANTS
  Proc,  \* processes of the host
  Tree   \* those of the target's tree

ReclaimSignal == 2  \* MemDirectReclaimSignalMsPerSec, in half signals

ASSUME MemAssumption == Tree \subseteq Proc /\ Proc \subseteq Nat \ {0}

Nobody == [pid |-> 0, stalls |-> 0, reclaim |-> 0, growth |-> 0, faults |-> 0, marked |-> 0]

----------------------------------------------------------------------------
(* MemCollector.Poll.                                                      *)

\* DirectReclaimMsPerSec, of the whole host.
ReclaimOf(facts) == MapThenSumSet(LAMBDA p : facts[p].reclaim, Proc)

Victims(facts) == {p \in Proc : facts[p].marked > 0}

SystemPressure(gauge, facts) == gauge \/ ReclaimOf(facts) >= ReclaimSignal

\* needProcAttribution: /proc is read when the detector could need it.
NeedProcAttribution(gauge, facts) == SystemPressure(gauge, facts) \/ Victims(facts) # {}

\* Growth and faults are known when the last window read /proc as well.
Seen(facts, need, primed) ==
  [p \in Proc |-> [facts[p] EXCEPT !.growth = IF need /\ primed THEN @ ELSE 0,
                                   !.faults = IF need /\ primed THEN @ ELSE 0]]

\* hasMemContribution, and isMemContributor of the detector.
Contributes(f) == \/ f.stalls > 0 \/ f.reclaim > 0
                  \/ f.growth >= GrowthSignal \/ f.faults >= FaultSignal

\* hasCollectedMemProcSignal.
Collected(f) == f.stalls > 0 \/ f.faults > 0 \/ f.growth >= GrowthSignal \/ f.marked > 0

\* containsTGID.
containsTGID(targeted, p) == ~targeted \/ p \in Tree

\* MemSnapshot: what concerns the system comes from everybody, whom to name from
\* the target's tree.
MemSnapshot(gauge, facts, need, primed, targeted) ==
  LET seen == Seen(facts, need, primed) IN
  [pressure     |-> SystemPressure(gauge, facts),
   oom          |-> Victims(facts) # {},
   victims      |-> {p \in Victims(facts) : containsTGID(targeted, p)},
   contribution |-> \E p \in Proc : Contributes(seen[p]),
   procs        |-> {[pid |-> p, stalls |-> seen[p].stalls, reclaim |-> seen[p].reclaim,
                      growth |-> seen[p].growth, faults |-> seen[p].faults] :
                       p \in {q \in Proc : /\ containsTGID(targeted, q)
                                           /\ Collected(seen[q])}}]

----------------------------------------------------------------------------
(* MemDetector.                                                            *)

hasOrdinaryMemPressure(snap) ==
  snap.pressure /\ (snap.contribution \/ \E f \in snap.procs : Contributes(f))

\* The process with the most of one kind of evidence, the first one of equals.
Most(procs, kind) ==
  CHOOSE f \in procs : \A e \in procs : \/ f[kind] > e[kind]
                                        \/ f[kind] = e[kind] /\ f.pid <= e.pid

\* In direct reclaim for the longest time; of those, the most often.
Stalled(procs) == {f \in procs : f.stalls > 0 \/ f.reclaim > 0}
MostStalled(procs) ==
  Most({f \in Stalled(procs) : \A e \in Stalled(procs) : e.reclaim <= f.reclaim}, "stalls")

\* pickCulprit, faults before growth.
FaultsFirst(procs) ==
  LET grows    == {f \in procs : f.growth >= GrowthSignal}
      faulting == {f \in procs : f.faults >= FaultSignal} IN
  IF Stalled(procs) # {} THEN MostStalled(procs)
  ELSE IF faulting # {} THEN Most(faulting, "faults")
  ELSE IF grows # {} THEN Most(grows, "growth") ELSE Nobody

\* pickCulprit: reclaim, then growth, then faults.
pickCulprit(procs) ==
  LET grows    == {f \in procs : f.growth >= GrowthSignal}
      faulting == {f \in procs : f.faults >= FaultSignal} IN
  IF Stalled(procs) # {} THEN MostStalled(procs)
  ELSE IF grows # {} THEN Most(grows, "growth")
  ELSE IF faulting # {} THEN Most(faulting, "faults") ELSE Nobody

\* pickOOMVictim: each is marked once; the first one.
pickOOMVictim(victims) ==
  IF victims = {} THEN Nobody ELSE [Nobody EXCEPT !.pid = Min(victims)]
=============================================================================
