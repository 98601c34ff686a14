-------------------------- MODULE Pipeline_proofs ---------------------------
(***************************************************************************)
(* For every set of keys, samples, waits and facts, and any sustain,       *)
(* period and sampling error: the detectors implement EpisodeSpec, and     *)
(* what the aggregator makes of a scenario's reports keeps every one of    *)
(* them, apart, at the highest confidence, and such that it may be         *)
(* written.  The detectors count no window without cause, and with room    *)
(* for the long waits in the cut none too few; reports blame whom the      *)
(* facts of their window blame, of memory from two windows of pressure on. *)
(*                                                                         *)
(* Parts: the detectors (any windows); sums and folds; two reports merged; *)
(* one incident; all incidents, as AggInv, which Add keeps; the samples of *)
(* a window; PipeInv, which each scenario's tick keeps; its theorems; what *)
(* the samples say of the waits, TruthInv and HotIsTrue; BlameInv and      *)
(* BlameEarned.                                                            *)
(***************************************************************************)
EXTENDS Pipeline, SequenceTheorems, FiniteSetTheorems, WellFoundedInduction, TLAPS

----------------------------------------------------------------------------
(* The detectors.                                                          *)

StreakInv == TypeOK /\ StreaksCounted

(* The detectors wait for one window at least.                             *)
LEMMA SustainPositive == SustainTicks \in Nat \ {0}
BY DetectorAssumption DEF SustainTicks

(* The memory detector's key is none of the map detectors'.                *)
LEMMA KeyTypes == MapKey \subseteq Key /\ Mem \in Key /\ Mem \notin MapKey
BY DetectorAssumption DEF Key

(***************************************************************************)
(* A stretch grows by one in a window where its key is hot and is empty    *)
(* after any other.                                                        *)
(***************************************************************************)
LEMMA StreakStep ==
  ASSUME NEW h \in Seq(SUBSET Key), NEW H \in SUBSET Key, NEW k \in Key,
         NEW c \in Nat, NEW first \in Nat, NEW c2 \in Nat, NEW first2 \in Nat,
         Stretch(k, h, c, first),
         c2 = (IF k \in H THEN c + 1 ELSE 0),
         k \in H => first2 = (IF c = 0 THEN Len(h) + 1 ELSE first)
  PROVE  Stretch(k, Append(h, H), c2, first2)
<1> DEFINE g == Append(h, H)
<1>0. /\ c <= Len(h)
      /\ \A i \in (Len(h) - c + 1) .. Len(h) : k \in h[i]
      /\ c < Len(h) => k \notin h[Len(h) - c]
      /\ c > 0 => first = Len(h) - c + 1
  BY DEF Stretch
<1>1. /\ Len(h) \in Nat /\ Len(g) = Len(h) + 1
      /\ g[Len(h) + 1] = H
      /\ \A i \in 1 .. Len(h) : g[i] = h[i]
  BY AppendProperties
<1> HIDE DEF g
<1>2. CASE k \in H
  <2>1. c2 = c + 1 /\ Len(g) - c2 = Len(h) - c
    BY <1>1, <1>2
  <2>2. ASSUME NEW i \in (Len(g) - c2 + 1) .. Len(g) PROVE k \in g[i]
    <3>1. CASE i = Len(h) + 1
      BY <1>1, <1>2, <3>1
    <3>2. CASE i # Len(h) + 1
      <4>1. i \in (Len(h) - c + 1) .. Len(h) /\ i \in 1 .. Len(h)
        BY <1>0, <1>1, <2>1, <3>2
      <4>2. QED
        BY <1>0, <1>1, <4>1
    <3>3. QED
      BY <3>1, <3>2
  <2>3. ASSUME c2 < Len(g) PROVE k \notin g[Len(g) - c2]
    <3>1. c < Len(h) /\ Len(h) - c \in 1 .. Len(h)
      BY <1>0, <1>1, <2>1, <2>3
    <3>2. QED
      BY <1>0, <1>1, <2>1, <3>1
  <2>4. first2 = Len(g) - c2 + 1
    BY <1>0, <1>1, <1>2, <2>1
  <2>5. QED
    BY <1>0, <1>1, <2>1, <2>2, <2>3, <2>4 DEF Stretch
<1>3. CASE k \notin H
  BY <1>1, <1>3 DEF Stretch
<1>4. QED
  BY <1>2, <1>3 DEF g

(* The invariant holds before the first window.                           *)
LEMMA StreakInit == Init => StreakInv
<1> SUFFICES ASSUME Init PROVE StreakInv
  OBVIOUS
<1>1. TypeOK
  BY EmptySeq DEF Init, TypeOK
<1>2. Len(hot) = 0
  BY DEF Init
<1>3. \A k : Stretch(k, hot, 0, 0)
  BY <1>2 DEF Stretch
<1>4. QED
  BY <1>1, <1>3, SustainPositive DEF Init, StreakInv, StreaksCounted

(***************************************************************************)
(* One window, for the map detectors and for the memory detector: the new  *)
(* counter measures the new stretch, and the flag follows it.              *)
(***************************************************************************)
LEMMA MapStep ==
  ASSUME StreakInv, NEW active \in SUBSET MapKey, NEW pressure \in BOOLEAN,
         NEW oom \in BOOLEAN, Observe(active, pressure, oom), NEW k \in MapKey
  PROVE  /\ counters'[k] \in Nat /\ firstSeen'[k] \in Nat /\ fired'[k] \in BOOLEAN
         /\ (Stretch(k, hot, counters[k], firstSeen[k]) /\ (fired[k] <=> counters[k] >= SustainTicks))'
         /\ k \in Fires(active) <=> counters'[k] = SustainTicks
<1> DEFINE H == active \cup (IF pressure /\ ~oom THEN {Mem} ELSE {})
<1>1. /\ counters[k] \in Nat /\ firstSeen[k] \in Nat /\ fired[k] \in BOOLEAN
      /\ hot \in Seq(SUBSET Key) /\ Len(hot) \in Nat
      /\ Stretch(k, hot, counters[k], firstSeen[k])
      /\ fired[k] <=> counters[k] >= SustainTicks
  BY DEF StreakInv, TypeOK, StreaksCounted
<1>2. H \in SUBSET Key /\ k \in Key /\ (k \in H <=> k \in active) /\ hot' = Append(hot, H)
  BY KeyTypes DEF Observe
<1>3. /\ counters'[k] = (IF k \in active THEN counters[k] + 1 ELSE 0)
      /\ firstSeen'[k] = (IF k \notin active THEN 0
                          ELSE IF counters[k] = 0 THEN Len(hot) + 1 ELSE firstSeen[k])
      /\ fired'[k] <=> (k \in active /\ (fired[k] \/ k \in Fires(active)))
      /\ k \in Fires(active) <=>
           k \in active /\ counters'[k] >= SustainTicks /\ ~fired[k]
  BY DEF Observe, Detect, Counted, FirstSeen, Fires, window
<1>4. counters'[k] \in Nat /\ firstSeen'[k] \in Nat /\ fired'[k] \in BOOLEAN
  <2>1. counters'[k] \in Nat /\ firstSeen'[k] \in Nat
    BY <1>1, <1>3
  <2>2. fired'[k] \in BOOLEAN
    BY DEF Observe, Detect
  <2>3. QED
    BY <2>1, <2>2
<1>5. Stretch(k, hot', counters'[k], firstSeen'[k])
  <2> HIDE DEF H
  <2>1. /\ counters'[k] = (IF k \in H THEN counters[k] + 1 ELSE 0)
        /\ k \in H => firstSeen'[k] = (IF counters[k] = 0 THEN Len(hot) + 1 ELSE firstSeen[k])
    BY <1>2, <1>3
  <2>2. Stretch(k, Append(hot, H), counters'[k], firstSeen'[k])
    BY <1>1, <1>2, <1>4, <2>1, StreakStep
  <2>3. QED
    BY <1>2, <2>2
<1>6. fired'[k] <=> counters'[k] >= SustainTicks
  <2>1. fired[k] <=> counters[k] >= SustainTicks
    BY <1>1
  <2>2. CASE k \in active
    BY <1>1, <1>3, <2>1, <2>2, SustainPositive
  <2>3. CASE k \notin active
    BY <1>3, <2>3, SustainPositive
  <2>4. QED
    BY <2>2, <2>3
<1>7. k \in Fires(active) <=> counters'[k] = SustainTicks
  <2>1. fired[k] <=> counters[k] >= SustainTicks
    BY <1>1
  <2>2. QED
    BY <1>1, <1>3, <2>1, SustainPositive
<1>8. QED
  BY <1>4, <1>5, <1>6, <1>7

LEMMA MemStep ==
  ASSUME StreakInv, NEW active \in SUBSET MapKey, NEW pressure \in BOOLEAN,
         NEW oom \in BOOLEAN, Observe(active, pressure, oom)
  PROVE  /\ count' \in Nat /\ memFirstSeen' \in Nat /\ memFired' \in BOOLEAN
         /\ (Stretch(Mem, hot, count, memFirstSeen) /\ (memFired <=> count >= SustainTicks))'
         /\ MemFires(pressure, oom) <=> count' = SustainTicks
<1> DEFINE H == active \cup (IF pressure /\ ~oom THEN {Mem} ELSE {})
<1>1. /\ count \in Nat /\ memFirstSeen \in Nat /\ memFired \in BOOLEAN
      /\ hot \in Seq(SUBSET Key) /\ Len(hot) \in Nat
      /\ Stretch(Mem, hot, count, memFirstSeen)
      /\ memFired <=> count >= SustainTicks
  BY DEF StreakInv, TypeOK, StreaksCounted
<1>2. H \in SUBSET Key /\ Mem \in Key /\ hot' = Append(hot, H)
      /\ (Mem \in H <=> ~Restarts(pressure, oom))
  BY KeyTypes DEF Observe, Restarts
<1>3. /\ count' = (IF Restarts(pressure, oom) THEN 0 ELSE count + 1)
      /\ memFirstSeen' = (IF Restarts(pressure, oom) THEN memFirstSeen
                          ELSE IF count = 0 THEN Len(hot) + 1 ELSE memFirstSeen)
      /\ memFired' <=> (~Restarts(pressure, oom) /\ (memFired \/ MemFires(pressure, oom)))
      /\ MemFires(pressure, oom) <=>
           ~Restarts(pressure, oom) /\ count + 1 >= SustainTicks /\ ~memFired
  BY <1>1 DEF Observe, MemDetect, MemFires, window
<1>4. count' \in Nat /\ memFirstSeen' \in Nat /\ memFired' \in BOOLEAN
  <2>1. count' \in Nat /\ memFirstSeen' \in Nat
    BY <1>1, <1>3
  <2>2. memFired' \in BOOLEAN
    BY DEF Observe, MemDetect
  <2>3. QED
    BY <2>1, <2>2
<1>5. Stretch(Mem, hot', count', memFirstSeen')
  <2> HIDE DEF H
  <2>1. /\ count' = (IF Mem \in H THEN count + 1 ELSE 0)
        /\ Mem \in H => memFirstSeen' = (IF count = 0 THEN Len(hot) + 1 ELSE memFirstSeen)
    BY <1>2, <1>3
  <2>2. Stretch(Mem, Append(hot, H), count', memFirstSeen')
    BY <1>1, <1>2, <1>4, <2>1, StreakStep
  <2>3. QED
    BY <1>2, <2>2
<1>6. memFired <=> count >= SustainTicks
  BY <1>1
<1>7. memFired' <=> count' >= SustainTicks
  <2>1. CASE Restarts(pressure, oom)
    BY <1>3, <2>1, SustainPositive
  <2>2. CASE ~Restarts(pressure, oom)
    BY <1>1, <1>3, <1>6, <2>2, SustainPositive
  <2>3. QED
    BY <2>1, <2>2
<1>8. MemFires(pressure, oom) <=> count' = SustainTicks
  <2>1. CASE Restarts(pressure, oom)
    BY <1>3, <2>1, SustainPositive
  <2>2. CASE ~Restarts(pressure, oom)
    BY <1>1, <1>3, <1>6, <2>2, SustainPositive
  <2>3. QED
    BY <2>1, <2>2
<1>9. QED
  BY <1>4, <1>5, <1>7, <1>8

(* Every window keeps it.                                                  *)
LEMMA StreakNext == StreakInv /\ [Next]_vars => StreakInv'
<1> SUFFICES ASSUME StreakInv, [Next]_vars PROVE StreakInv'
  OBVIOUS
<1>1. ASSUME NEW active \in SUBSET MapKey, NEW pressure \in BOOLEAN, NEW oom \in BOOLEAN,
             Observe(active, pressure, oom)
      PROVE  StreakInv'
  <2>1. \A k \in MapKey :
          /\ counters'[k] \in Nat /\ firstSeen'[k] \in Nat /\ fired'[k] \in BOOLEAN
          /\ (Stretch(k, hot, counters[k], firstSeen[k]) /\ (fired[k] <=> counters[k] >= SustainTicks))'
    BY <1>1, MapStep
  <2>2. /\ count' \in Nat /\ memFirstSeen' \in Nat /\ memFired' \in BOOLEAN
        /\ (Stretch(Mem, hot, count, memFirstSeen) /\ (memFired <=> count >= SustainTicks))'
    BY <1>1, MemStep
  <2>3. counters' \in [MapKey -> Nat] /\ firstSeen' \in [MapKey -> Nat]
        /\ fired' \in [MapKey -> BOOLEAN]
    <3>1. /\ counters' = [k \in MapKey |-> counters'[k]]
          /\ firstSeen' = [k \in MapKey |-> firstSeen'[k]]
          /\ fired' = [k \in MapKey |-> fired'[k]]
      BY <1>1 DEF Observe, Detect, Counted, FirstSeen
    <3>2. QED
      BY <2>1, <3>1
  <2>4. hot' \in Seq(SUBSET Key) /\ oomSignal' \in BOOLEAN
    <3>1. active \cup (IF pressure /\ ~oom THEN {Mem} ELSE {}) \in SUBSET Key
      BY KeyTypes
    <3>2. hot \in Seq(SUBSET Key)
      BY DEF StreakInv, TypeOK
    <3>3. hot' = Append(hot, active \cup (IF pressure /\ ~oom THEN {Mem} ELSE {}))
          /\ oomSignal' = oom
      BY <1>1 DEF Observe, MemDetect
    <3>4. QED
      BY <3>1, <3>2, <3>3, AppendProperties
  <2>5. TypeOK'
    BY <2>2, <2>3, <2>4 DEF TypeOK
  <2>6. StreaksCounted'
    BY <2>1, <2>2 DEF StreaksCounted
  <2>7. QED
    BY <2>5, <2>6 DEF StreakInv
<1>2. CASE UNCHANGED vars
  BY <1>2 DEF vars, mapVars, memVars, StreakInv, TypeOK, StreaksCounted, Stretch
<1>3. QED
  BY <1>1, <1>2 DEF Next

(***************************************************************************)
(* Every variable of the detectors keeps its type.                         *)
(***************************************************************************)
THEOREM TypeCorrect == Spec => []TypeOK
<1>1. StreakInv => TypeOK
  BY DEF StreakInv
<1>2. QED
  BY <1>1, StreakInit, StreakNext, PTL DEF Spec

(***************************************************************************)
(* The counters and flags of every detector describe the current stretch   *)
(* of hot windows of their key.                                            *)
(***************************************************************************)
THEOREM StreaksHold == Spec => []StreaksCounted
<1>1. StreakInv => StreaksCounted
  BY DEF StreakInv
<1>2. QED
  BY <1>1, StreakInit, StreakNext, PTL DEF Spec

(***************************************************************************)
(* A key is ripe exactly when its stretch is as long as the detectors ask. *)
(***************************************************************************)
LEMMA RipeIsSustained ==
  ASSUME NEW k \in Key, NEW c \in Nat, NEW first,
         NEW h \in Seq(SUBSET Key), Stretch(k, h, c, first)
  PROVE  Episodes!Ripe(k, h) <=> c = SustainTicks
<1>1. /\ Len(h) \in Nat /\ SustainTicks \in Nat \ {0}
      /\ c <= Len(h)
      /\ \A i \in (Len(h) - c + 1) .. Len(h) : k \in h[i]
      /\ c < Len(h) => k \notin h[Len(h) - c]
  BY SustainPositive DEF Stretch
<1>2. CASE c = SustainTicks
  BY <1>1, <1>2 DEF Episodes!Ripe
<1>3. CASE c < SustainTicks
  <2>1. ASSUME Episodes!Ripe(k, h) PROVE FALSE
    <3>1. c < Len(h) /\ Len(h) - c \in (Len(h) - SustainTicks + 1) .. Len(h)
      BY <1>1, <1>3, <2>1 DEF Episodes!Ripe
    <3>2. QED
      BY <1>1, <2>1, <3>1 DEF Episodes!Ripe
  <2>2. QED
    BY <1>1, <1>3, <2>1
<1>4. CASE c > SustainTicks
  <2>1. Len(h) > SustainTicks
        /\ Len(h) - SustainTicks \in (Len(h) - c + 1) .. Len(h)
    BY <1>1, <1>4
  <2>2. QED
    BY <1>1, <1>4, <2>1 DEF Episodes!Ripe
<1>5. QED
  BY <1>1, <1>2, <1>3, <1>4

(***************************************************************************)
(* What the detectors signal in a window is what EpisodeSpec announces.    *)
(***************************************************************************)
LEMMA EpisodeStep ==
  ASSUME StreakInv, StreakInv', NEW active \in SUBSET MapKey, NEW pressure \in BOOLEAN,
         NEW oom \in BOOLEAN, Observe(active, pressure, oom)
  PROVE  Episodes!Next
<1> DEFINE H == active \cup (IF pressure /\ ~oom THEN {Mem} ELSE {})
<1>1. H \in SUBSET Key /\ hot' = Append(hot, H) /\ hot' \in Seq(SUBSET Key)
  BY KeyTypes DEF Observe, StreakInv, TypeOK
<1>2. Len(hot') = window /\ window \in Nat
  <2>1. hot \in Seq(SUBSET Key)
    BY DEF StreakInv, TypeOK
  <2>2. QED
    BY <1>1, <2>1, AppendProperties DEF window
<1>3. \A k \in MapKey :
        /\ k \in Fires(active) <=> Episodes!Ripe(k, hot')
        /\ k \in Fires(active) => firstSeen'[k] = window - SustainTicks + 1
  <2> SUFFICES ASSUME NEW k \in MapKey
               PROVE  /\ k \in Fires(active) <=> Episodes!Ripe(k, hot')
                      /\ k \in Fires(active) => firstSeen'[k] = window - SustainTicks + 1
    OBVIOUS
  <2>1. /\ counters'[k] \in Nat /\ k \in Key
        /\ Stretch(k, hot', counters'[k], firstSeen'[k])
        /\ k \in Fires(active) <=> counters'[k] = SustainTicks
    BY MapStep, KeyTypes
  <2>2. Episodes!Ripe(k, hot') <=> counters'[k] = SustainTicks
    BY <1>1, <2>1, RipeIsSustained
  <2>3. counters'[k] > 0 => firstSeen'[k] = Len(hot') - counters'[k] + 1
    BY <2>1 DEF Stretch
  <2>4. QED
    BY <1>2, <2>1, <2>2, <2>3, SustainPositive
<1>4. /\ MemFires(pressure, oom) <=> Episodes!Ripe(Mem, hot')
      /\ MemFires(pressure, oom) => memFirstSeen' = window - SustainTicks + 1
  <2>1. /\ count' \in Nat /\ Mem \in Key
        /\ Stretch(Mem, hot', count', memFirstSeen')
        /\ MemFires(pressure, oom) <=> count' = SustainTicks
    BY MemStep, KeyTypes
  <2>2. Episodes!Ripe(Mem, hot') <=> count' = SustainTicks
    BY <1>1, <2>1, RipeIsSustained
  <2>3. count' > 0 => memFirstSeen' = Len(hot') - count' + 1
    BY <2>1 DEF Stretch
  <2>4. QED
    BY <1>2, <2>1, <2>2, <2>3, SustainPositive
<1>5. signals' = {Episodes!Incident(k, hot') : k \in {j \in Key : Episodes!Ripe(j, hot')}}
  <2>1. signals' = {Incident(k, firstSeen'[k], window) : k \in Fires(active)}
          \cup (IF MemFires(pressure, oom) THEN {Incident(Mem, memFirstSeen', window)} ELSE {})
    BY DEF Observe
  <2>2. \A k \in Key : Episodes!Incident(k, hot')
                         = Incident(k, window - SustainTicks + 1, window)
    BY <1>2 DEF Episodes!Incident, Incident
  <2>3. Fires(active) = {k \in MapKey : Episodes!Ripe(k, hot')}
    BY <1>3 DEF Fires
  <2>4. {Incident(k, firstSeen'[k], window) : k \in Fires(active)}
          = {Episodes!Incident(k, hot') : k \in Fires(active)}
    BY <1>3, <2>2, <2>3, KeyTypes
  <2>5. (IF MemFires(pressure, oom) THEN {Incident(Mem, memFirstSeen', window)} ELSE {})
          = {Episodes!Incident(k, hot') : k \in {j \in {Mem} : Episodes!Ripe(j, hot')}}
    BY <1>4, <2>2, KeyTypes
  <2>6. {j \in Key : Episodes!Ripe(j, hot')}
          = Fires(active) \cup {j \in {Mem} : Episodes!Ripe(j, hot')}
    BY <2>3 DEF Key
  <2>7. QED
    BY <2>1, <2>4, <2>5, <2>6
<1>6. QED
  BY <1>1, <1>5 DEF Episodes!Next, Episodes!Window

(***************************************************************************)
(* The detectors implement EpisodeSpec: each episode of a key is announced *)
(* once, when it becomes long enough, with the windows it really spanned.  *)
(***************************************************************************)
THEOREM EpisodesRefined == Spec => ImplementsEpisodes
<1>1. Init => Episodes!Init
  BY DEF Init, Episodes!Init
<1>2. StreakInv /\ StreakInv' /\ [Next]_vars => [Episodes!Next]_(Episodes!vars)
  <2> SUFFICES ASSUME StreakInv, StreakInv', [Next]_vars
               PROVE  [Episodes!Next]_(Episodes!vars)
    OBVIOUS
  <2>1. CASE UNCHANGED vars
    BY <2>1 DEF vars, Episodes!vars
  <2>2. CASE Next
    BY <2>2, EpisodeStep DEF Next
  <2>3. QED
    BY <2>1, <2>2
<1>3. QED
  BY <1>1, <1>2, StreakInit, StreakNext, PTL
     DEF Spec, ImplementsEpisodes, Episodes!Spec

----------------------------------------------------------------------------
(* Sums over finite sets.                                                  *)

SumOver(f, S) == MapThenSumSet(LAMBDA x : f[x], S)

First(s) == CHOOSE x \in s : TRUE

Ints(f, S) == \A x \in S : f[x] \in Int

(* The sum of f over s if g has that of the smaller subsets. *)
Adds(g, f, s) == IF s = {} THEN 0 ELSE f[First(s)] + g[s \ {First(s)}]

IsSum(g, f, S) == g = [s \in SUBSET S |-> Adds(g, f, s)]

(* A set of naturals that is not empty has a least member. *)
LEMMA Least ==
  ASSUME NEW S \in SUBSET Nat, S # {}
  PROVE  \E i \in S : \A j \in S : i <= j
<1> DEFINE R == OpToRel(<, Nat)
<1>1. \E i \in S : \A j \in S : <<j, i>> \notin R
  BY WFMin, NatLessThanWellFounded
<1>2. \A i, j \in Nat : j < i => <<j, i>> \in R
  BY DEF OpToRel
<1> HIDE DEF R
<1>3. PICK i \in S : \A j \in S : <<j, i>> \notin R
  BY <1>1
<1>4. \A j \in S : ~(j < i)
  BY <1>2, <1>3
<1> QED
  BY <1>3, <1>4

(* What the library's fold computes. *)
LEMMA SumIs == ASSUME NEW f, NEW S
  PROVE SumOver(f, S) = (CHOOSE g : IsSum(g, f, S))[S]
BY DEF SumOver, MapThenSumSet, MapThenFoldSet, IsSum, Adds, First

(* The member taken first leaves a smaller subset. *)
LEMMA Smaller ==
  ASSUME NEW S, IsFiniteSet(S), NEW s \in SUBSET S, NEW x \in s
  PROVE  /\ IsFiniteSet(s) /\ IsFiniteSet(s \ {x})
         /\ Cardinality(s) \in Nat /\ Cardinality(s \ {x}) \in Nat
         /\ Cardinality(s \ {x}) = Cardinality(s) - 1
<1>1. IsFiniteSet(s)
  BY FS_Subset
<1>2. IsFiniteSet(s \ {x})
  BY <1>1, FS_RemoveElement
<1> QED
  BY <1>1, <1>2, FS_RemoveElement, FS_CardinalityType

LEMMA FirstOf == ASSUME NEW s, s # {} PROVE First(s) \in s
BY DEF First

(* The sum exists: one more application of its equation reaches subsets one larger. *)
LEMMA SumExists ==
  ASSUME NEW S, IsFiniteSet(S), NEW f, Ints(f, S)
  PROVE  \E g \in [SUBSET S -> Int] : IsSum(g, f, S)
<1> DEFINE Up(n) == {s \in SUBSET S : Cardinality(s) <= n}
           Good(n) == \E g \in [SUBSET S -> Int] : \A s \in Up(n) : g[s] = Adds(g, f, s)
           bad == {n \in Nat : ~Good(n)}
<1>1. Good(0)
  <2> DEFINE g == [s \in SUBSET S |-> 0]
  <2>1. \A s \in Up(0) : s = {}
    <3> SUFFICES ASSUME NEW s \in Up(0), s # {} PROVE FALSE
      OBVIOUS
    <3>1. First(s) \in s
      BY FirstOf
    <3>2. /\ Cardinality(s) \in Nat /\ Cardinality(s \ {First(s)}) \in Nat
          /\ Cardinality(s \ {First(s)}) = Cardinality(s) - 1
      BY <3>1, Smaller
    <3>3. Cardinality(s) <= 0
      OBVIOUS
    <3> QED
      BY <3>2, <3>3
  <2>2. g \in [SUBSET S -> Int] /\ \A s \in Up(0) : g[s] = Adds(g, f, s)
    BY <2>1 DEF Adds
  <2> QED
    BY <2>2
<1>2. ASSUME NEW n \in Nat, Good(n) PROVE Good(n + 1)
  <2>1. PICK g \in [SUBSET S -> Int] : \A s \in Up(n) : g[s] = Adds(g, f, s)
    BY <1>2
  <2> DEFINE h == [s \in SUBSET S |-> Adds(g, f, s)]
  <2>2. \A s \in SUBSET S : Adds(g, f, s) \in Int
    BY FirstOf DEF Adds, Ints
  <2>3. h \in [SUBSET S -> Int]
    BY <2>2
  <2>4. ASSUME NEW s \in Up(n + 1) PROVE h[s] = Adds(h, f, s)
    <3>1. CASE s = {}
      BY <3>1 DEF Adds
    <3>2. CASE s # {}
      <4>1. First(s) \in s
        BY <3>2, FirstOf
      <4>2. s \ {First(s)} \in Up(n)
        <5>1. /\ Cardinality(s) \in Nat /\ Cardinality(s \ {First(s)}) \in Nat
              /\ Cardinality(s \ {First(s)}) = Cardinality(s) - 1
          BY <4>1, Smaller
        <5>2. Cardinality(s) <= n + 1
          OBVIOUS
        <5> QED
          BY <5>1, <5>2
      <4>3. h[s \ {First(s)}] = g[s \ {First(s)}]
        BY <2>1, <4>2
      <4> QED
        BY <3>2, <4>3 DEF Adds
    <3> QED
      BY <3>1, <3>2
  <2> HIDE DEF h
  <2> QED
    BY <2>3, <2>4
<1> HIDE DEF Good
<1>3. bad = {}
  <2> SUFFICES ASSUME bad # {} PROVE FALSE
    OBVIOUS
  <2>1. PICK n \in bad : \A m \in bad : n <= m
    BY Least
  <2>2. n # 0 /\ n - 1 \in Nat /\ n - 1 \notin bad
    BY <1>1, <2>1
  <2>3. Good((n - 1) + 1)
    BY <1>2, <2>2
  <2> QED
    BY <2>1, <2>2, <2>3
<1>4. Cardinality(S) \in Nat /\ \A s \in SUBSET S : Cardinality(s) <= Cardinality(S)
  BY FS_CardinalityType, FS_Subset
<1>5. Good(Cardinality(S))
  BY <1>3, <1>4
<1>6. PICK g \in [SUBSET S -> Int] : \A s \in Up(Cardinality(S)) : g[s] = Adds(g, f, s)
  BY <1>5 DEF Good
<1>7. g = [s \in SUBSET S |-> Adds(g, f, s)]
  BY <1>4, <1>6
<1> QED
  BY <1>7 DEF IsSum

(* The sum of a subset does not depend on the set it is taken from. *)
LEMMA SumUnique ==
  ASSUME NEW S, IsFiniteSet(S), NEW U \in SUBSET S, NEW f, NEW g, NEW h,
         IsSum(g, f, S), IsSum(h, f, U)
  PROVE  g[U] = h[U]
<1> DEFINE bad == {Cardinality(s) : s \in {t \in SUBSET U : g[t] # h[t]}}
<1>1. \A s \in SUBSET U : s \in SUBSET S /\ Cardinality(s) \in Nat
  BY FS_CardinalityType, FS_Subset
<1>2. bad = {}
  <2> SUFFICES ASSUME bad # {} PROVE FALSE
    OBVIOUS
  <2>0. bad \in SUBSET Nat
    BY <1>1
  <2>1. PICK n \in bad : \A m \in bad : n <= m
    <3> HIDE DEF bad
    <3> QED
      BY <2>0, Least
  <2>2. PICK s \in SUBSET U : g[s] # h[s] /\ Cardinality(s) = n
    BY <2>1
  <2>3. g[s] = Adds(g, f, s) /\ h[s] = Adds(h, f, s)
    BY <1>1 DEF IsSum
  <2>4. s # {} /\ First(s) \in s
    BY <2>2, <2>3, FirstOf DEF Adds
  <2>5. Cardinality(s \ {First(s)}) = n - 1 /\ n \in Nat
    BY <1>1, <2>2, <2>4, Smaller
  <2>6. g[s \ {First(s)}] = h[s \ {First(s)}]
    <3> SUFFICES ASSUME g[s \ {First(s)}] # h[s \ {First(s)}] PROVE FALSE
      OBVIOUS
    <3>1. Cardinality(s \ {First(s)}) \in bad
      OBVIOUS
    <3> HIDE DEF bad
    <3> QED
      BY <2>1, <2>5, <3>1
  <2> QED
    BY <2>2, <2>3, <2>4, <2>6 DEF Adds
<1> QED
  BY <1>2

Sums(g, f, S) ==
  /\ g \in [SUBSET S -> Int] /\ IsSum(g, f, S)
  /\ \A U \in SUBSET S : SumOver(f, U) = g[U]

(* Any member may be taken first. *)
LEMMA SumAnyFirst ==
  ASSUME NEW S, IsFiniteSet(S), NEW f, Ints(f, S), NEW g, Sums(g, f, S)
  PROVE  \A y \in S : g[S] = f[y] + g[S \ {y}]
<1> DEFINE Good(s) == \A x \in s : g[s] = f[x] + g[s \ {x}]
           bad == {Cardinality(s) : s \in {t \in SUBSET S : ~Good(t)}}
<1>0. g \in [SUBSET S -> Int] /\ IsSum(g, f, S)
  BY DEF Sums
<1>1. \A s \in SUBSET S : Cardinality(s) \in Nat
  BY FS_CardinalityType, FS_Subset
<1>2. bad = {}
  <2> SUFFICES ASSUME bad # {} PROVE FALSE
    OBVIOUS
  <2>0. bad \in SUBSET Nat
    BY <1>1
  <2>1. PICK n \in bad : \A m \in bad : n <= m
    <3> HIDE DEF bad
    <3> QED
      BY <2>0, Least
  <2>2. PICK s \in SUBSET S : ~Good(s) /\ Cardinality(s) = n
    BY <2>1
  <2>3. \A t \in SUBSET S : Cardinality(t) = n - 1 => Good(t)
    <3> SUFFICES ASSUME NEW t \in SUBSET S, Cardinality(t) = n - 1, ~Good(t) PROVE FALSE
      OBVIOUS
    <3>1. n - 1 \in bad
      OBVIOUS
    <3>2. n \in Nat
      BY <1>1, <2>2
    <3> HIDE DEF bad
    <3> QED
      BY <2>1, <3>1, <3>2
  <2>4. PICK x \in s : g[s] # f[x] + g[s \ {x}]
    BY <2>2
  <2> DEFINE c == First(s)
  <2>5. c \in s /\ g[s] = f[c] + g[s \ {c}]
    BY <1>0, FirstOf DEF IsSum, Adds
  <2> HIDE DEF c
  <2>6. x # c
    BY <2>4, <2>5
  <2>7. Cardinality(s \ {c}) = n - 1 /\ Cardinality(s \ {x}) = n - 1
    BY <2>2, <2>5, Smaller
  <2>8. g[s \ {c}] = f[x] + g[(s \ {c}) \ {x}] /\ g[s \ {x}] = f[c] + g[(s \ {x}) \ {c}]
    BY <2>3, <2>5, <2>6, <2>7
  <2>9. (s \ {c}) \ {x} = (s \ {x}) \ {c}
    OBVIOUS
  <2>10. f[x] \in Int /\ f[c] \in Int /\ g[(s \ {x}) \ {c}] \in Int
    BY <1>0, <2>5 DEF Ints
  <2>11. \A a, b, e \in Int : a + (b + e) = b + (a + e)
    OBVIOUS
  <2>12. g[s] = f[c] + (f[x] + g[(s \ {x}) \ {c}])
    BY <2>5, <2>8, <2>9
  <2>13. f[x] + g[s \ {x}] = f[x] + (f[c] + g[(s \ {x}) \ {c}])
    BY <2>8
  <2>14. g[s] = f[x] + g[s \ {x}]
    <3> HIDE DEF bad, Good
    <3> QED
      BY <2>10, <2>11, <2>12, <2>13
  <2> QED
    BY <2>4, <2>14
<1>3. S \in SUBSET S
  OBVIOUS
<1> QED
  BY <1>2, <1>3

(* Sums of the subsets of S agree with one function. *)
LEMMA SumsOf ==
  ASSUME NEW S, IsFiniteSet(S), NEW f, Ints(f, S)
  PROVE  \E g : Sums(g, f, S)
<1>1. PICK g \in [SUBSET S -> Int] : IsSum(g, f, S)
  BY SumExists
<1>2. ASSUME NEW U \in SUBSET S PROVE SumOver(f, U) = g[U]
  <2> DEFINE h == CHOOSE h : IsSum(h, f, U)
  <2>1. IsFiniteSet(U) /\ Ints(f, U)
    BY FS_Subset DEF Ints
  <2>2. IsSum(h, f, U)
    <3>1. \E k : IsSum(k, f, U)
      BY <2>1, SumExists
    <3> QED
      BY <3>1
  <2>3. SumOver(f, U) = h[U]
    BY SumIs
  <2> HIDE DEF h
  <2> QED
    BY <1>1, <2>2, <2>3, SumUnique
<1>3. Sums(g, f, S)
  BY <1>1, <1>2 DEF Sums
<1> QED
  BY <1>3

LEMMA SumType ==
  ASSUME NEW S, IsFiniteSet(S), NEW f, Ints(f, S)
  PROVE  SumOver(f, S) \in Int
<1>1. PICK g : Sums(g, f, S)
  BY SumsOf
<1> QED
  BY <1>1 DEF Sums

LEMMA SumEmpty == ASSUME NEW f PROVE SumOver(f, {}) = 0
<1>1. IsFiniteSet({}) /\ Ints(f, {})
  BY FS_EmptySet DEF Ints
<1>2. PICK g : Sums(g, f, {})
  BY <1>1, SumsOf
<1> QED
  BY <1>2 DEF Sums, IsSum, Adds

LEMMA SumRemove ==
  ASSUME NEW S, IsFiniteSet(S), NEW f, Ints(f, S), NEW y \in S
  PROVE  SumOver(f, S) = f[y] + SumOver(f, S \ {y})
<1>1. PICK g : Sums(g, f, S)
  BY SumsOf
<1>2. S \in SUBSET S /\ S \ {y} \in SUBSET S
  OBVIOUS
<1>3. g[S] = f[y] + g[S \ {y}]
  BY <1>1, SumAnyFirst
<1> QED
  BY <1>1, <1>2, <1>3 DEF Sums

LEMMA SumAdd ==
  ASSUME NEW S, IsFiniteSet(S), NEW f, NEW y, y \notin S, Ints(f, S \cup {y})
  PROVE  SumOver(f, S \cup {y}) = f[y] + SumOver(f, S)
<1>1. IsFiniteSet(S \cup {y})
  BY FS_AddElement
<1>2. (S \cup {y}) \ {y} = S
  OBVIOUS
<1> QED
  BY <1>1, <1>2, SumRemove

(* The sum over the totals of reports is of this kind. *)
SumOfTotals(S) == MapThenSumSet(LAMBDA r : r.total, S)

AddsTotal(g, s) == IF s = {} THEN 0 ELSE First(s).total + g[s \ {First(s)}]
IsSumOfTotals(g, S) == g = [s \in SUBSET S |-> AddsTotal(g, s)]

LEMMA SumOfTotalsIs == ASSUME NEW S
  PROVE SumOfTotals(S) = (CHOOSE g : IsSumOfTotals(g, S))[S]
BY DEF SumOfTotals, MapThenSumSet, MapThenFoldSet, IsSumOfTotals, AddsTotal, First

LEMMA SumOfTotalsSum ==
  ASSUME NEW S, NEW f, \A r \in S : f[r] = r.total
  PROVE  SumOfTotals(S) = SumOver(f, S)
<1>1. ASSUME NEW g PROVE IsSumOfTotals(g, S) <=> IsSum(g, f, S)
  <2>1. ASSUME NEW s \in SUBSET S PROVE AddsTotal(g, s) = Adds(g, f, s)
    <3>1. CASE s = {}
      BY <3>1 DEF AddsTotal, Adds
    <3>2. CASE s # {}
      <4>1. First(s) \in S
        BY <3>2, FirstOf
      <4> QED
        BY <3>2, <4>1 DEF AddsTotal, Adds
    <3> QED
      BY <3>1, <3>2
  <2> QED
    BY <2>1 DEF IsSumOfTotals, IsSum
<1>2. (CHOOSE g : IsSumOfTotals(g, S)) = (CHOOSE g : IsSum(g, f, S))
  BY <1>1
<1> QED
  BY <1>2, SumOfTotalsIs, SumIs

LEMMA TotalsAdd ==
  ASSUME NEW S, IsFiniteSet(S), NEW y, y \notin S, \A r \in S \cup {y} : r.total \in Int
  PROVE  /\ SumOfTotals(S \cup {y}) = y.total + SumOfTotals(S)
         /\ SumOfTotals(S) \in Int
<1> DEFINE f == [r \in S \cup {y} |-> r.total]
<1>1. /\ \A r \in S \cup {y} : f[r] = r.total
      /\ Ints(f, S \cup {y}) /\ Ints(f, S)
  BY DEF Ints
<1> HIDE DEF f
<1>2. SumOfTotals(S \cup {y}) = SumOver(f, S \cup {y}) /\ SumOfTotals(S) = SumOver(f, S)
  BY <1>1, SumOfTotalsSum
<1>3. SumOver(f, S \cup {y}) = f[y] + SumOver(f, S) /\ SumOver(f, S) \in Int
  BY <1>1, SumAdd, SumType
<1> QED
  BY <1>1, <1>2, <1>3

LEMMA TotalsSingle ==
  ASSUME NEW y, y.total \in Int
  PROVE  SumOfTotals({y}) = y.total
<1> DEFINE f == [r \in {y} |-> r.total]
<1>1. SumOfTotals({}) = 0
  BY SumOfTotalsSum, SumEmpty
<1>2. SumOfTotals({} \cup {y}) = y.total + SumOfTotals({})
  BY TotalsAdd, FS_EmptySet
<1>3. {} \cup {y} = {y}
  OBVIOUS
<1> QED
  BY <1>1, <1>2, <1>3

----------------------------------------------------------------------------
(* Folds over sequences.                                                   *)

LEMMA NatInductive ==
  ASSUME NEW P \in SUBSET Nat, 0 \in P, \A n \in P : n + 1 \in P
  PROVE  \A n \in Nat : n \in P
<1> DEFINE bad == {n \in Nat : n \notin P}
<1> SUFFICES ASSUME bad # {} PROVE FALSE
  OBVIOUS
<1>1. PICK n \in bad : \A m \in bad : n <= m
  BY Least
<1>2. n # 0 /\ n - 1 \in Nat /\ n - 1 \notin bad
  BY <1>1
<1>3. (n - 1) + 1 \in P
  BY <1>2
<1> QED
  BY <1>1, <1>2, <1>3

(* A set of naturals that is not empty and bounded has a last member. *)
Latest(s) == CHOOSE i \in s : \A j \in s : i >= j

LEMMA LatestOf ==
  ASSUME NEW n \in Nat, NEW s \in SUBSET (1 .. n), s # {}
  PROVE  Latest(s) \in s /\ s \ {Latest(s)} \in SUBSET (1 .. (Latest(s) - 1))
<1> DEFINE over == {i \in Nat : \A j \in s : j <= i}
<1>1. n \in over
  OBVIOUS
<1>2. PICK i \in over : \A j \in over : i <= j
  BY <1>1, Least
<1>3. i \in s
  <2> SUFFICES ASSUME i \notin s PROVE FALSE
    OBVIOUS
  <2>0. PICK j \in s : j \in 1 .. n
    OBVIOUS
  <2>1. i # 0 /\ i \in Nat /\ i - 1 \in Nat
    BY <1>2, <2>0
  <2>2. \A m \in s : m \in Nat /\ m <= i /\ m # i
    BY <1>2
  <2>3. i - 1 \in over
    BY <2>1, <2>2
  <2> HIDE DEF over
  <2> QED
    BY <1>2, <2>1, <2>3
<1>4. i \in s /\ \A j \in s : i >= j
  BY <1>2, <1>3
<1>5. Latest(s) \in s /\ \A j \in s : Latest(s) >= j
  BY <1>4, Zenon DEF Latest
<1>6. \A j \in s \ {Latest(s)} : j \in 1 .. (Latest(s) - 1)
  <2>1. \A l, j \in 1 .. n : l >= j /\ j # l => j \in 1 .. (l - 1)
    OBVIOUS
  <2> QED
    BY <1>5, <2>1
<1> QED
  BY <1>5, <1>6

(* One step of the two folds: a report is added, a wait key joins its group. *)
Taken(x, y) == IF y[1] = "add" THEN Added(x, y[2]) ELSE Joined(x, y[2], y[3])

(* What is folded up to a set of positions, if g has that of the smaller sets. *)
After(g, a, ys, s) ==
  IF s = {} THEN a ELSE Taken(g[s \ {Latest(s)}], ys[Latest(s)])
IsRun(g, a, ys) == g = [s \in SUBSET DOMAIN ys |-> After(g, a, ys, s)]

LEMMA RunExists ==
  ASSUME NEW a, NEW ys, NEW n \in Nat, DOMAIN ys = 1 .. n
  PROVE  \E g : IsRun(g, a, ys)
<1> DEFINE Good(k) == \E g : \A s \in SUBSET (1 .. n) :
                        s \in SUBSET (1 .. k) => g[s] = After(g, a, ys, s)
           P == {k \in Nat : Good(k)}
<1>1. Good(0)
  <2> DEFINE g == [s \in SUBSET (1 .. n) |-> a]
  <2>1. \A s \in SUBSET (1 .. n) : s \in SUBSET (1 .. 0) => g[s] = After(g, a, ys, s)
    BY DEF After
  <2> QED
    BY <2>1
<1>2. ASSUME NEW k \in Nat, Good(k) PROVE Good(k + 1)
  <2>1. PICK g : \A s \in SUBSET (1 .. n) : s \in SUBSET (1 .. k) => g[s] = After(g, a, ys, s)
    BY <1>2
  <2> DEFINE h == [s \in SUBSET (1 .. n) |-> After(g, a, ys, s)]
  <2>2. \A s \in SUBSET (1 .. n) : s \in SUBSET (1 .. k) => h[s] = g[s]
    BY <2>1
  <2>3. ASSUME NEW s \in SUBSET (1 .. n), s \in SUBSET (1 .. (k + 1))
        PROVE  h[s] = After(h, a, ys, s)
    <3>1. CASE s = {}
      BY <3>1 DEF After
    <3>2. CASE s # {}
      <4>1. Latest(s) \in s /\ s \ {Latest(s)} \in SUBSET (1 .. (Latest(s) - 1))
        BY <3>2, LatestOf
      <4>2. s \ {Latest(s)} \in SUBSET (1 .. k) /\ s \ {Latest(s)} \in SUBSET (1 .. n)
        <5>1. Latest(s) \in 1 .. (k + 1)
          BY <2>3, <4>1
        <5>2. \A i \in 1 .. (Latest(s) - 1) : i \in 1 .. k
          BY <5>1
        <5> QED
          BY <4>1, <5>2
      <4>3. h[s \ {Latest(s)}] = g[s \ {Latest(s)}]
        BY <2>2, <4>2
      <4> QED
        BY <3>2, <4>3 DEF After
    <3> QED
      BY <3>1, <3>2
  <2> HIDE DEF h
  <2> QED
    BY <2>3
<1> HIDE DEF Good
<1>3. n \in P
  <2>1. P \in SUBSET Nat /\ 0 \in P /\ \A k \in P : k + 1 \in P
    BY <1>1, <1>2
  <2> HIDE DEF P
  <2> QED
    BY <2>1, NatInductive
<1>4. PICK g : \A s \in SUBSET (1 .. n) : s \in SUBSET (1 .. n) => g[s] = After(g, a, ys, s)
  BY <1>3 DEF Good
<1> DEFINE h == [s \in SUBSET (1 .. n) |-> g[s]]
<1>5. \A s \in SUBSET (1 .. n) : After(h, a, ys, s) = After(g, a, ys, s)
  BY DEF After
<1>6. h = [s \in SUBSET DOMAIN ys |-> After(h, a, ys, s)]
  BY <1>4, <1>5
<1> QED
  BY <1>6 DEF IsRun

Result(a, ys, n) == (CHOOSE g : IsRun(g, a, ys))[1 .. n]
StepsTo(h, a, ys, n) == h[0] = a /\ \A k \in 1 .. n : h[k] = Taken(h[k - 1], ys[k])

(* A fold goes through the states between one element and the next. *)
LEMMA RunPasses ==
  ASSUME NEW a, NEW ys, NEW n \in Nat, DOMAIN ys = 1 .. n
  PROVE  \E h : StepsTo(h, a, ys, n) /\ Result(a, ys, n) = h[n]
<1> DEFINE g == CHOOSE g : IsRun(g, a, ys)
           h == [k \in 0 .. n |-> g[1 .. k]]
<1>1. IsRun(g, a, ys)
  <2>1. \E f : IsRun(f, a, ys)
    BY RunExists
  <2> QED
    BY <2>1
<1>2. Result(a, ys, n) = g[1 .. n]
  BY DEF Result
<1> HIDE DEF g
<1>3. \A s \in SUBSET (1 .. n) : g[s] = After(g, a, ys, s)
  BY <1>1 DEF IsRun
<1>4. h[0] = a
  <2>0. 1 .. 0 = {}
    OBVIOUS
  <2>1. 1 .. 0 = {} /\ 1 .. 0 \in SUBSET (1 .. n)
    BY <2>0
  <2>2. g[1 .. 0] = a
    BY <1>3, <2>1 DEF After
  <2>3. h[0] = g[1 .. 0]
    BY DEF h
  <2> HIDE DEF h
  <2> QED
    BY <2>2, <2>3
<1>5. ASSUME NEW k \in 1 .. n PROVE h[k] = Taken(h[k - 1], ys[k])
  <2>0. \A i \in 1 .. k : i \in 1 .. n
    OBVIOUS
  <2>1. 1 .. k \in SUBSET (1 .. n) /\ k \in 1 .. k
    BY <2>0
  <2>2. Latest(1 .. k) = k
    <3>1. Latest(1 .. k) \in 1 .. k /\ (1 .. k) \ {Latest(1 .. k)} \in SUBSET (1 .. (Latest(1 .. k) - 1))
      BY <2>1, LatestOf
    <3>2. k \notin 1 .. (Latest(1 .. k) - 1) => k = Latest(1 .. k)
      BY <2>1, <3>1
    <3>3. k \in 1 .. (Latest(1 .. k) - 1) => FALSE
      BY <3>1
    <3> QED
      BY <3>2, <3>3
  <2>3. (1 .. k) \ {k} = 1 .. (k - 1)
    OBVIOUS
  <2>4. g[1 .. k] = Taken(g[1 .. (k - 1)], ys[k])
    BY <1>3, <2>1, <2>2, <2>3 DEF After
  <2> QED
    BY <2>4
<1>6. h[n] = g[1 .. n]
  OBVIOUS
<1> HIDE DEF h
<1> QED
  BY <1>2, <1>4, <1>5, <1>6 DEF StepsTo


Passes(h, a, rs, n) == h[0] = a /\ \A k \in 1 .. n : h[k] = Added(h[k - 1], rs[k])

AfterAdded(g, a, rs, s) ==
  IF s = {} THEN a ELSE Added(g[s \ {Latest(s)}], rs[Latest(s)])
IsAddRun(g, a, rs) == g = [s \in SUBSET DOMAIN rs |-> AfterAdded(g, a, rs, s)]

(* What the library's fold computes. *)
LEMMA AddFoldIs == ASSUME NEW a, NEW rs
  PROVE FoldLeft(Added, a, rs) = (CHOOSE g : IsAddRun(g, a, rs))[DOMAIN rs]
BY DEF FoldLeft, MapThenFoldSet, IsAddRun, AfterAdded, Latest, Max

LEMMA FoldPasses ==
  ASSUME NEW a, NEW rs, NEW n \in Nat, DOMAIN rs = 1 .. n
  PROVE  \E h : Passes(h, a, rs, n) /\ FoldLeft(Added, a, rs) = h[n]
<1> DEFINE ys == [i \in 1 .. n |-> <<"add", rs[i]>>]
<1>1. DOMAIN ys = 1 .. n /\ \A x : \A i \in 1 .. n : Taken(x, ys[i]) = Added(x, rs[i])
  BY DEF Taken
<1> HIDE DEF ys
<1>2. ASSUME NEW g PROVE IsAddRun(g, a, rs) <=> IsRun(g, a, ys)
  <2>1. ASSUME NEW s \in SUBSET (1 .. n) PROVE AfterAdded(g, a, rs, s) = After(g, a, ys, s)
    <3>1. CASE s = {}
      BY <3>1 DEF AfterAdded, After
    <3>2. CASE s # {}
      <4>1. Latest(s) \in 1 .. n
        BY <3>2, LatestOf
      <4> QED
        BY <1>1, <3>2, <4>1 DEF AfterAdded, After
    <3> QED
      BY <3>1, <3>2
  <2> QED
    BY <1>1, <2>1 DEF IsAddRun, IsRun
<1>3. (CHOOSE g : IsAddRun(g, a, rs)) = (CHOOSE g : IsRun(g, a, ys))
  BY <1>2
<1>4. PICK h : StepsTo(h, a, ys, n) /\ Result(a, ys, n) = h[n]
  BY <1>1, RunPasses
<1>5. Passes(h, a, rs, n)
  BY <1>1, <1>4 DEF Passes, StepsTo
<1>6. FoldLeft(Added, a, rs) = h[n]
  BY <1>3, <1>4, AddFoldIs DEF Result
<1> QED
  BY <1>5, <1>6

Joins(h, w, ks, n) == h[0] = <<>> /\ \A k \in 1 .. n : h[k] = Joined(h[k - 1], ks[k], w[ks[k]])

AfterJoined(g, w, ks, s) ==
  IF s = {} THEN <<>> ELSE Joined(g[s \ {Latest(s)}], ks[Latest(s)], w[ks[Latest(s)]])
IsJoinRun(g, w, ks) == g = [s \in SUBSET DOMAIN ks |-> AfterJoined(g, w, ks, s)]

LEMMA GroupedIs == ASSUME NEW w, NEW ks
  PROVE Grouped(w, ks) = (CHOOSE g : IsJoinRun(g, w, ks))[DOMAIN ks]
BY DEF Grouped, FoldLeft, MapThenFoldSet, IsJoinRun, AfterJoined, Latest, Max

LEMMA GroupedPasses ==
  ASSUME NEW w, NEW ks, NEW n \in Nat, DOMAIN ks = 1 .. n
  PROVE  \E h : Joins(h, w, ks, n) /\ Grouped(w, ks) = h[n]
<1> DEFINE ys == [i \in 1 .. n |-> <<"join", ks[i], w[ks[i]]>>]
<1>1. /\ DOMAIN ys = 1 .. n
      /\ \A x : \A i \in 1 .. n : Taken(x, ys[i]) = Joined(x, ks[i], w[ks[i]])
  BY DEF Taken
<1> HIDE DEF ys
<1>2. ASSUME NEW g PROVE IsJoinRun(g, w, ks) <=> IsRun(g, <<>>, ys)
  <2>1. ASSUME NEW s \in SUBSET (1 .. n) PROVE AfterJoined(g, w, ks, s) = After(g, <<>>, ys, s)
    <3>1. CASE s = {}
      BY <3>1 DEF AfterJoined, After
    <3>2. CASE s # {}
      <4>1. Latest(s) \in 1 .. n
        BY <3>2, LatestOf
      <4> QED
        BY <1>1, <3>2, <4>1 DEF AfterJoined, After
    <3> QED
      BY <3>1, <3>2
  <2> QED
    BY <1>1, <2>1 DEF IsJoinRun, IsRun
<1>3. (CHOOSE g : IsJoinRun(g, w, ks)) = (CHOOSE g : IsRun(g, <<>>, ys))
  BY <1>2
<1>4. PICK h : StepsTo(h, <<>>, ys, n) /\ Result(<<>>, ys, n) = h[n]
  BY <1>1, RunPasses
<1>5. Joins(h, w, ks, n)
  BY <1>1, <1>4 DEF Joins, StepsTo
<1>6. Grouped(w, ks) = h[n]
  BY <1>3, <1>4, GroupedIs DEF Result
<1> QED
  BY <1>5, <1>6

----------------------------------------------------------------------------
(* Reports and what becomes of two that are merged.                        *)

Fields == {"code", "confidence", "object", "start", "end", "elapsed", "what", "stack",
           "peak", "total", "merged", "tids"}

IsReport(r) ==
  /\ r = [f \in Fields |-> r[f]]
  /\ r.confidence \in Int /\ r.start \in Int /\ r.end \in Int
  /\ r.start < r.end /\ r.elapsed = r.end - r.start
  /\ r.peak \in Int /\ r.total \in Int

(* A report as a builder makes it. *)
Fresh(r) ==
  /\ IsReport(r) /\ r.merged = 1 /\ r.tids = 1
  /\ isLockReport(r) => r.object.tid # 0

Ranked(r) == isLockReport(r) \/ isCallReport(r)

LEMMA GreaterType == \A a, b \in Int : /\ Greater(a, b) \in {a, b}
                                       /\ a <= Greater(a, b) /\ b <= Greater(a, b)
                                       /\ Greater(a, b) = Greater(b, a)
BY DEF Greater

LEMMA LesserType == \A a, b \in Int : /\ Lesser(a, b) \in {a, b}
                                      /\ Lesser(a, b) <= a /\ Lesser(a, b) <= b
                                      /\ Lesser(a, b) = Lesser(b, a)
BY DEF Lesser

(* Reports of one key are of one kind. *)
LEMMA KeyCode ==
  ASSUME NEW q, NEW r, aggregateKey(q) = aggregateKey(r)
  PROVE  /\ q.code = r.code
         /\ isLockReport(q) <=> isLockReport(r)
         /\ Ranked(q) <=> Ranked(r)
<1>1. aggregateKey(q).code = q.code /\ aggregateKey(r).code = r.code
  BY DEF aggregateKey
<1>2. q.code = r.code
  BY <1>1
<1> QED
  BY <1>2 DEF isLockReport, isCallReport, Ranked

(* The key is a matter of code, object, call and stack. *)
LEMMA SameKey ==
  ASSUME NEW q, NEW r, q.code = r.code, q.object = r.object, q.what = r.what,
         q.stack = r.stack
  PROVE  aggregateKey(q) = aggregateKey(r)
BY DEF aggregateKey, isLockReport, stackSignature

(* What a merged report takes from the report that speaks for both. *)
Speaks(m, r) ==
  /\ m = [f \in Fields |-> m[f]]
  /\ m.code = r.code /\ m.object = r.object /\ m.what = r.what /\ m.stack = r.stack
  /\ m.confidence = r.confidence

LEMMA WindowMerged ==
  ASSUME NEW a, NEW b, IsReport(a), IsReport(b), NEW m, m = MergeWindow(a, b)
  PROVE  /\ Speaks(m, a)
         /\ m.start = Lesser(a.start, b.start) /\ m.end = Greater(a.end, b.end)
         /\ m.elapsed = m.end - m.start
         /\ m.peak = a.peak /\ m.total = a.total /\ m.merged = a.merged /\ m.tids = a.tids
BY DEF MergeWindow, IsReport, Speaks, Fields

Measured(r, x, y) == [r EXCEPT !.peak = x, !.total = y]

LEMMA MetricsMerged ==
  ASSUME NEW r, r = [f \in Fields |-> r[f]], NEW x, NEW y, NEW m,
         m = Measured(r, x, y)
  PROVE  /\ Speaks(m, r) /\ m.start = r.start /\ m.end = r.end /\ m.elapsed = r.elapsed
         /\ m.peak = x /\ m.total = y /\ m.merged = r.merged /\ m.tids = r.tids
BY DEF Measured, Speaks, Fields

LEMMA CountsMerged ==
  ASSUME NEW r, r = [f \in Fields |-> r[f]], NEW many, NEW affected, NEW m,
         m = WithMetrics(r, many, affected)
  PROVE  /\ Speaks(m, r) /\ m.start = r.start /\ m.end = r.end /\ m.elapsed = r.elapsed
         /\ m.peak = r.peak /\ m.total = r.total
         /\ m.merged = (IF many > 1 THEN many ELSE r.merged)
         /\ m.tids = (IF Cardinality(affected) > 1 /\ isLockReport(r)
                      THEN Cardinality(affected) ELSE r.tids)
BY DEF WithMetrics, Speaks, Fields

(* What mergeReport and setAggregationMetrics make of two reports of one key. *)
Merges(m, old, r, many, affected) ==
  /\ IsReport(m) /\ aggregateKey(m) = aggregateKey(old)
  /\ m.code = old.code /\ m.object \in {old.object, r.object}
  /\ m.start = Lesser(old.start, r.start) /\ m.end = Greater(old.end, r.end)
  /\ m.confidence = Greater(old.confidence, r.confidence)
  /\ Ranked(m) => m.peak = Greater(old.peak, r.peak)
  /\ isLockReport(m) => m.total = old.total + r.total
  /\ many > 1 => m.merged = many
  /\ isLockReport(m) =>
       IF Cardinality(affected) > 1 THEN m.tids = Cardinality(affected)
                                    ELSE m.tids \in {old.tids, r.tids}

LEMMA ReportsMerge ==
  ASSUME NEW old, NEW r, IsReport(old), IsReport(r), aggregateKey(old) = aggregateKey(r),
         NEW many, NEW affected, NEW m, m = WithMetrics(MergeReport(old, r), many, affected)
  PROVE  Merges(m, old, r, many, affected)
<1> DEFINE next  == MoreSevere(r, old)
           worst == IF next THEN r ELSE old
           other == IF next THEN old ELSE r
           w     == MergeWindow(worst, other)
           p     == Measured(w, Peak(worst, other), Total(worst, other))
<1>1. m = WithMetrics(p, many, affected)
  BY DEF MergeReport, Measured
<1>2. /\ r.code = old.code /\ IsReport(worst) /\ IsReport(other)
      /\ worst \in {old, r} /\ other \in {old, r}
      /\ aggregateKey(worst) = aggregateKey(old) /\ aggregateKey(other) = aggregateKey(old)
      /\ {worst.start, other.start} = {old.start, r.start}
  BY KeyCode
<1>3. /\ Speaks(w, worst)
      /\ w.start = Lesser(worst.start, other.start) /\ w.end = Greater(worst.end, other.end)
      /\ w.elapsed = w.end - w.start /\ w.merged = worst.merged /\ w.tids = worst.tids
  BY <1>2, WindowMerged
<1> HIDE DEF w
<1>4. /\ Speaks(p, w) /\ p.start = w.start /\ p.end = w.end /\ p.elapsed = w.elapsed
      /\ p.peak = Peak(worst, other) /\ p.total = Total(worst, other)
      /\ p.merged = w.merged /\ p.tids = w.tids
  BY <1>3, MetricsMerged DEF Speaks
<1> HIDE DEF p
<1>5. /\ Speaks(m, p) /\ m.start = p.start /\ m.end = p.end /\ m.elapsed = p.elapsed
      /\ m.peak = p.peak /\ m.total = p.total
      /\ m.merged = (IF many > 1 THEN many ELSE p.merged)
      /\ m.tids = (IF Cardinality(affected) > 1 /\ isLockReport(p)
                   THEN Cardinality(affected) ELSE p.tids)
  BY <1>1, <1>4, CountsMerged DEF Speaks
<1>6. Speaks(m, worst)
  BY <1>3, <1>4, <1>5 DEF Speaks
<1>7. aggregateKey(m) = aggregateKey(old)
  <2>1. aggregateKey(m) = aggregateKey(worst)
    BY <1>6, SameKey DEF Speaks
  <2> QED
    BY <1>2, <2>1
<1>8. /\ isLockReport(m) <=> isLockReport(old)
      /\ Ranked(m) <=> Ranked(old)
      /\ isLockReport(m) <=> isLockReport(worst)
      /\ Ranked(m) <=> Ranked(worst)
      /\ isLockReport(p) <=> isLockReport(m)
  <2>1. p.code = m.code
    BY <1>5 DEF Speaks
  <2> QED
    BY <1>2, <1>7, <2>1, KeyCode DEF isLockReport
<1>9. /\ old.start \in Int /\ r.start \in Int /\ old.end \in Int /\ r.end \in Int
      /\ old.confidence \in Int /\ r.confidence \in Int /\ old.start < old.end
      /\ old.peak \in Int /\ r.peak \in Int /\ old.total \in Int /\ r.total \in Int
      /\ r.start < r.end
  BY DEF IsReport
<1>10. m.start = Lesser(old.start, r.start) /\ m.end = Greater(old.end, r.end)
  <2>1. /\ Lesser(old.start, r.start) = Lesser(r.start, old.start)
        /\ Greater(old.end, r.end) = Greater(r.end, old.end)
    BY <1>9, LesserType, GreaterType
  <2>2. /\ m.start = Lesser(worst.start, other.start)
        /\ m.end = Greater(worst.end, other.end)
    BY <1>3, <1>4, <1>5
  <2>3. CASE next
    BY <2>1, <2>2, <2>3
  <2>4. CASE ~next
    BY <2>2, <2>4
  <2> QED
    BY <2>3, <2>4
<1>11. m.confidence = Greater(old.confidence, r.confidence)
  <2>1. m.confidence = worst.confidence
    BY <1>6 DEF Speaks
  <2>2. CASE next
    <3>1. r.confidence >= old.confidence
      BY <1>9, <2>2 DEF MoreSevere
    <3> QED
      BY <1>9, <2>1, <2>2, <3>1 DEF Greater
  <2>3. CASE ~next
    <3>1. ~(r.confidence > old.confidence)
      BY <1>9, <2>3 DEF MoreSevere
    <3> QED
      BY <1>9, <2>1, <2>3, <3>1 DEF Greater
  <2> QED
    BY <2>2, <2>3
<1>12. ASSUME Ranked(m) PROVE m.peak = Greater(old.peak, r.peak)
  <2>1. m.peak = Greater(worst.peak, other.peak)
    BY <1>4, <1>5, <1>8, <1>12 DEF Peak, Ranked
  <2>2. Greater(old.peak, r.peak) = Greater(r.peak, old.peak)
    BY <1>9, GreaterType
  <2>3. CASE next
    BY <2>1, <2>2, <2>3
  <2>4. CASE ~next
    BY <2>1, <2>4
  <2> QED
    BY <2>3, <2>4
<1>13. ASSUME isLockReport(m) PROVE m.total = old.total + r.total
  <2>1. m.total = worst.total + other.total
    BY <1>4, <1>5, <1>8, <1>13 DEF Total
  <2>2. CASE next
    BY <1>9, <2>1, <2>2
  <2>3. CASE ~next
    BY <1>9, <2>1, <2>3
  <2> QED
    BY <2>2, <2>3
<1>14. m.peak \in Int /\ m.total \in Int
  <2>1. m.peak = Peak(worst, other) /\ m.total = Total(worst, other)
    BY <1>4, <1>5
  <2>2. worst.peak \in Int /\ other.peak \in Int /\ worst.total \in Int /\ other.total \in Int
    BY <1>2 DEF IsReport
  <2>3. Peak(worst, other) \in Int
    BY <2>2, GreaterType DEF Peak
  <2>4. Total(worst, other) \in Int
    BY <2>2, GreaterType DEF Total
  <2> QED
    BY <2>1, <2>3, <2>4
<1>15. m.start < m.end /\ m.start \in Int /\ m.end \in Int /\ m.confidence \in Int
  BY <1>9, <1>10, <1>11 DEF Greater, Lesser
<1>16. m.elapsed = m.end - m.start
  BY <1>3, <1>4, <1>5
<1>17. IsReport(m)
  BY <1>6, <1>14, <1>15, <1>16 DEF IsReport, Speaks
<1>18. m.code = old.code /\ m.object \in {old.object, r.object}
  <2>1. m.code = worst.code /\ m.object = worst.object
    BY <1>6 DEF Speaks
  <2> QED
    BY <1>2, <2>1
<1>19. m.tids = IF Cardinality(affected) > 1 /\ isLockReport(m) THEN Cardinality(affected)
                ELSE worst.tids
  BY <1>3, <1>4, <1>5, <1>8
<1>20. isLockReport(m) =>
        IF Cardinality(affected) > 1 THEN m.tids = Cardinality(affected)
                                     ELSE m.tids \in {old.tids, r.tids}
  <2>1. worst.tids \in {old.tids, r.tids}
    BY <1>2
  <2> HIDE DEF worst
  <2> QED
    BY <1>19, <2>1
<1>21. many > 1 => m.merged = many
  BY <1>5
<1> HIDE DEF worst, other, next
<1> QED
  BY <1>7, <1>10, <1>11, <1>12, <1>13, <1>17, <1>18, <1>20, <1>21 DEF Merges

----------------------------------------------------------------------------
(* One incident and the reports it stands for.                             *)

Tids(C) == {r.object.tid : r \in C}
Touched(C) == UNION {Affected(r) : r \in C}

Spans(i, C) ==
  /\ \E r \in C : r.start = i.start
  /\ \E r \in C : r.end = i.end
  /\ \A r \in C : i.start <= r.start /\ r.end <= i.end

Highest(i, C) ==
  /\ \E r \in C : r.confidence = i.confidence
  /\ \A r \in C : r.confidence <= i.confidence
  /\ Ranked(i) => /\ \E r \in C : r.peak = i.peak
                  /\ \A r \in C : r.peak <= i.peak

Counts(i, C) ==
  /\ i.merged = Cardinality(C)
  /\ isLockReport(i) => i.total = SumOfTotals(C) /\ i.tids = Cardinality(Tids(C))

NoHoles(i, C) ==
  \A r \in C : r.start = i.start \/ \E q \in C : q.start < r.start /\ r.start <= q.end + Tolerance

Accounts(i, C) ==
  /\ Spans(i, C) /\ Highest(i, C) /\ Counts(i, C) /\ NoHoles(i, C)
  /\ \E r \in C : i.object = r.object

(* A report comes after those of its key, in its own window or a later one. *)
Follows(r, M) ==
  \A q \in M : aggregateKey(q) = aggregateKey(r) =>
    \/ q.start < r.start /\ q.end < r.end
    \/ q.start = r.start /\ q.end = r.end

LEMMA SingletonCard == ASSUME NEW x PROVE IsFiniteSet({x}) /\ Cardinality({x}) = 1
BY FS_Singleton

LEMMA AffectedCard ==
  ASSUME NEW r
  PROVE  /\ IsFiniteSet(Affected(r)) /\ ~(Cardinality(Affected(r)) > 1)
         /\ isLockReport(r) /\ r.object.tid # 0 => Affected(r) = {r.object.tid}
<1> DEFINE x == IF r.object.tid # 0 THEN r.object.tid ELSE r.object.pid
<1>1. Affected(r) = {x} \ {0}
  BY DEF Affected
<1>2. Affected(r) = {x} \/ Affected(r) = {}
  BY <1>1
<1>3. IsFiniteSet(Affected(r)) /\ ~(Cardinality(Affected(r)) > 1)
  <2> HIDE DEF x
  <2>1. CASE Affected(r) = {x}
    BY <2>1, SingletonCard
  <2>2. CASE Affected(r) = {}
    <3>1. IsFiniteSet({}) /\ Cardinality({}) = 0
      BY FS_EmptySet
    <3> QED
      BY <2>2, <3>1
  <2> QED
    BY <1>2, <2>1, <2>2
<1>4. r.object.tid # 0 => Affected(r) = {r.object.tid}
  BY <1>1
<1> QED
  BY <1>3, <1>4

(* A count of one leaves a report as it is. *)
LEMMA CountOfOne ==
  ASSUME NEW r, r = [f \in Fields |-> r[f]]
  PROVE  WithMetrics(r, 1, Affected(r)) = r
<1>1. ~(1 > 1) /\ ~(Cardinality(Affected(r)) > 1)
  BY AffectedCard
<1>2. WithMetrics(r, 1, Affected(r)) = [r EXCEPT !.merged = @, !.tids = @]
  BY <1>1 DEF WithMetrics
<1>3. [r EXCEPT !.merged = @, !.tids = @] = r
  BY DEF Fields
<1> QED
  BY <1>2, <1>3

(* A report that opens an incident stands for itself. *)
LEMMA AccountsSingle ==
  ASSUME NEW r, Fresh(r)
  PROVE  WithMetrics(r, 1, Affected(r)) = r /\ Accounts(r, {r})
<1>0. r = [f \in Fields |-> r[f]] /\ r.merged = 1 /\ r.tids = 1
  BY DEF Fresh, IsReport
<1>1. WithMetrics(r, 1, Affected(r)) = r
  BY <1>0, CountOfOne
<1>2. /\ r.start \in Int /\ r.end \in Int /\ r.confidence \in Int /\ r.peak \in Int
      /\ r.total \in Int
  BY DEF Fresh, IsReport
<1>3. Spans(r, {r}) /\ Highest(r, {r}) /\ NoHoles(r, {r})
  BY <1>2 DEF Spans, Highest, NoHoles
<1>4. Tids({r}) = {r.object.tid}
  BY DEF Tids
<1>5. Counts(r, {r})
  BY <1>0, <1>2, <1>4, SingletonCard, TotalsSingle DEF Counts
<1> QED
  BY <1>1, <1>3, <1>5 DEF Accounts

(* The threads of a lock's reports are those that were collected. *)
LEMMA TouchedTids ==
  ASSUME NEW C, \A r \in C : isLockReport(r) /\ r.object.tid # 0
  PROVE  Touched(C) = Tids(C)
<1>1. \A r \in C : Affected(r) = {r.object.tid}
  BY AffectedCard
<1> QED
  BY <1>1 DEF Touched, Tids

LEMMA TidsFinite ==
  ASSUME NEW C, IsFiniteSet(C)
  PROVE  IsFiniteSet(Tids(C)) /\ (C # {} => Cardinality(Tids(C)) >= 1 /\ Cardinality(Tids(C)) \in Nat)
<1> DEFINE t == [r \in C |-> r.object.tid]
<1>1. Tids(C) = {t[r] : r \in C}
  BY DEF Tids
<1>2. IsFiniteSet(Tids(C))
  <2>2. t \in Surjection(C, Tids(C))
    BY <1>1 DEF Surjection
  <2> QED
    BY <2>2, FS_Surjection
<1>3. C # {} => Tids(C) # {}
  BY DEF Tids
<1> QED
  BY <1>2, <1>3, FS_EmptySet, FS_CardinalityType

OfKind(C, i) == \A q \in C : Fresh(q) /\ aggregateKey(q) = aggregateKey(i)

(* A report that touches an incident extends it. *)
LEMMA AccountsGrow ==
  ASSUME NEW old, NEW C, NEW r, NEW m, NEW many, NEW affected,
         IsReport(old), IsFiniteSet(C), Accounts(old, C),
         OfKind(C, old),
         Fresh(r), aggregateKey(r) = aggregateKey(old), r \notin C, Follows(r, C),
         WindowsTouch(old, r), many = Cardinality(C) + 1,
         affected = Touched(C) \cup Affected(r),
         Merges(m, old, r, many, affected)
  PROVE  Accounts(m, C \cup {r}) /\ m.start = old.start /\ m.end = r.end
<1> DEFINE D == C \cup {r}
<1>0. /\ old.start \in Int /\ old.end \in Int /\ old.confidence \in Int /\ old.peak \in Int
      /\ \A q \in D : /\ q.start \in Int /\ q.end \in Int /\ q.start < q.end
                      /\ q.confidence \in Int /\ q.peak \in Int /\ q.total \in Int
  BY DEF IsReport, Fresh, OfKind
<1>1. /\ \A q \in C : \/ q.start < r.start /\ q.end < r.end
                      \/ q.start = r.start /\ q.end = r.end
      /\ Spans(old, C)
  BY DEF Follows, Accounts, OfKind
<1>2. m.start = old.start /\ m.end = r.end
  <2>1. old.start <= r.start /\ old.end <= r.end
    BY <1>0, <1>1 DEF Spans
  <2> QED
    BY <1>0, <2>1 DEF Merges, Lesser, Greater
<1>3. Spans(m, D)
  BY <1>0, <1>1, <1>2 DEF Spans
<1>4. /\ Ranked(m) <=> Ranked(old)
      /\ isLockReport(m) <=> isLockReport(old)
      /\ \A q \in D : isLockReport(q) <=> isLockReport(m)
  BY KeyCode DEF Merges, OfKind
<1>5. Highest(m, D)
  <2>1. m.confidence = Greater(old.confidence, r.confidence)
    BY DEF Merges
  <2>2. \E q \in C : q.confidence = old.confidence
    BY DEF Accounts, Highest
  <2>3. \A q \in C : q.confidence <= old.confidence
    BY DEF Accounts, Highest
  <2>4. \E q \in D : q.confidence = m.confidence
    BY <1>0, <2>1, <2>2, GreaterType
  <2>5. \A q \in D : q.confidence <= m.confidence
    BY <1>0, <2>1, <2>3 DEF Greater
  <2>6. ASSUME Ranked(m)
        PROVE  (\E q \in D : q.peak = m.peak) /\ \A q \in D : q.peak <= m.peak
    <3>1. m.peak = Greater(old.peak, r.peak)
      BY <2>6 DEF Merges
    <3>2. (\E q \in C : q.peak = old.peak) /\ \A q \in C : q.peak <= old.peak
      BY <1>4, <2>6 DEF Accounts, Highest
    <3>3. \E q \in D : q.peak = m.peak
      BY <1>0, <3>1, <3>2, GreaterType
    <3>4. \A q \in D : q.peak <= m.peak
      BY <1>0, <3>1, <3>2 DEF Greater
    <3> QED
      BY <3>3, <3>4
  <2> QED
    BY <2>4, <2>5, <2>6 DEF Highest
<1>6. Cardinality(D) = Cardinality(C) + 1 /\ Cardinality(C) \in Nat /\ IsFiniteSet(D)
  BY FS_AddElement, FS_CardinalityType
<1>7. m.merged = Cardinality(D)
  <2>1. Cardinality(C) # 0
    <3>1. C # {}
      BY <1>1 DEF Spans
    <3> QED
      BY <3>1, FS_EmptySet
  <2> QED
    BY <1>6, <2>1 DEF Merges
<1>8. ASSUME isLockReport(m)
      PROVE  m.total = SumOfTotals(D) /\ m.tids = Cardinality(Tids(D))
  <2>1. old.total = SumOfTotals(C) /\ old.tids = Cardinality(Tids(C))
    BY <1>4, <1>8 DEF Accounts, Counts
  <2>2. SumOfTotals(D) = r.total + SumOfTotals(C) /\ SumOfTotals(C) \in Int
    BY <1>0, TotalsAdd
  <2>3. m.total = SumOfTotals(D)
    BY <1>0, <1>8, <2>1, <2>2 DEF Merges
  <2>4. \A q \in D : isLockReport(q) /\ q.object.tid # 0
    BY <1>4, <1>8 DEF Fresh, OfKind
  <2>5. affected = Tids(D)
    <3>1. Touched(D) = Touched(C) \cup Affected(r)
      BY DEF Touched
    <3> QED
      BY <2>4, <3>1, TouchedTids
  <2>6. /\ Cardinality(Tids(D)) >= 1 /\ Cardinality(Tids(D)) \in Nat
        /\ Cardinality(Tids(C)) >= 1 /\ Cardinality(Tids(C)) \in Nat
        /\ Cardinality(Tids(C)) <= Cardinality(Tids(D))
    <3>1. C # {} /\ D # {}
      BY <1>1 DEF Spans
    <3>2. Tids(C) \subseteq Tids(D)
      BY DEF Tids
    <3> HIDE DEF D
    <3> QED
      BY <1>6, <3>1, <3>2, TidsFinite, FS_Subset
  <2>7. IF Cardinality(Tids(D)) > 1 THEN m.tids = Cardinality(Tids(D))
                                    ELSE m.tids \in {old.tids, r.tids}
    BY <1>8, <2>5 DEF Merges
  <2>8. r.tids = 1
    BY DEF Fresh
  <2> HIDE DEF D
  <2>9. m.tids = Cardinality(Tids(D))
    BY <2>1, <2>6, <2>7, <2>8
  <2> QED
    BY <2>3, <2>9
<1>9. NoHoles(m, D)
  <2>1. NoHoles(old, C)
    BY DEF Accounts
  <2>2. ASSUME NEW p \in C
        PROVE  p.start = m.start \/ \E q \in D : q.start < p.start /\ p.start <= q.end + Tolerance
    BY <1>2, <2>1 DEF NoHoles
  <2>3. r.start = m.start \/ \E q \in D : q.start < r.start /\ r.start <= q.end + Tolerance
    <3>1. PICK q \in C : q.end = old.end
      BY <1>1 DEF Spans
    <3>2. r.start <= old.end + Tolerance
      BY DEF WindowsTouch
    <3>3. CASE q.start < r.start
      BY <3>1, <3>2, <3>3
    <3>4. CASE q.start = r.start
      BY <2>2, <3>4
    <3> QED
      BY <1>1, <3>3, <3>4
  <2> QED
    BY <2>2, <2>3 DEF NoHoles
<1>10. \E q \in D : m.object = q.object
  BY DEF Accounts, Merges
<1>11. Counts(m, D)
  BY <1>7, <1>8 DEF Counts
<1> HIDE DEF D
<1>12. Accounts(m, D)
  BY <1>3, <1>5, <1>9, <1>10, <1>11 DEF Accounts
<1> QED
  BY <1>2, <1>12 DEF D

----------------------------------------------------------------------------
(* All incidents: Add keeps them apart and accounts for every report.      *)

IsSeq(s) == \E n \in Nat : s = [i \in 1 .. n |-> s[i]]

LEMMA SeqLen ==
  ASSUME NEW s, IsSeq(s)
  PROVE  Len(s) \in Nat /\ DOMAIN s = 1 .. Len(s) /\ s = [i \in 1 .. Len(s) |-> s[i]]
<1>1. PICK n \in Nat : s = [i \in 1 .. n |-> s[i]]
  BY DEF IsSeq
<1> DEFINE S == {s[i] : i \in 1 .. n}
<1>2. s \in Seq(S)
  <2>1. \A i \in 1 .. n : s[i] \in S
    OBVIOUS
  <2> HIDE DEF S
  <2>2. s \in [1 .. n -> S]
    BY <1>1, <2>1
  <2> QED
    BY <2>2, SeqDef
<1>3. Len(s) \in Nat /\ DOMAIN s = 1 .. Len(s)
  BY <1>2, LenProperties
<1>4. DOMAIN s = 1 .. n
  BY <1>1
<1> QED
  BY <1>1, <1>3, <1>4

\* t is s with e behind it; with e in place of its member x.
IsAppended(t, s, e) ==
  /\ IsSeq(t) /\ Len(t) = Len(s) + 1
  /\ t[Len(s) + 1] = e /\ \A i \in 1 .. Len(s) : t[i] = s[i]

IsSet(t, s, x, e) ==
  /\ IsSeq(t) /\ Len(t) = Len(s)
  /\ t[x] = e /\ \A i \in 1 .. Len(s) : i # x => t[i] = s[i]

LEMMA AppendTo ==
  ASSUME NEW s, IsSeq(s), NEW e, NEW t, t = Append(s, e)
  PROVE  IsAppended(t, s, e)
<1>1. Len(s) \in Nat /\ DOMAIN s = 1 .. Len(s) /\ s = [i \in 1 .. Len(s) |-> s[i]]
  BY SeqLen
<1> DEFINE S == {s[i] : i \in 1 .. Len(s)} \cup {e}
<1>2. s \in Seq(S) /\ e \in S
  <2>1. \A i \in 1 .. Len(s) : s[i] \in S
    OBVIOUS
  <2>2. e \in S
    OBVIOUS
  <2> HIDE DEF S
  <2>3. s \in [1 .. Len(s) -> S]
    BY <1>1, <2>1
  <2> QED
    BY <1>1, <2>2, <2>3, SeqDef
<1> HIDE DEF S
<1>3. /\ t \in Seq(S) /\ Len(t) = Len(s) + 1
      /\ t[Len(s) + 1] = e /\ \A i \in 1 .. Len(s) : t[i] = s[i]
  BY <1>2, AppendProperties
<1>4. IsSeq(t)
  <2>1. Len(t) \in Nat /\ t \in [1 .. Len(t) -> S]
    BY <1>3, LenProperties
  <2> QED
    BY <2>1 DEF IsSeq
<1> QED
  BY <1>3, <1>4 DEF IsAppended

LEMMA SetTo ==
  ASSUME NEW s, IsSeq(s), NEW x \in 1 .. Len(s), NEW e, NEW t, t = [s EXCEPT ![x] = e]
  PROVE  IsSet(t, s, x, e)
<1>1. Len(s) \in Nat /\ DOMAIN s = 1 .. Len(s) /\ s = [i \in 1 .. Len(s) |-> s[i]]
  BY SeqLen
<1>2. t = [i \in 1 .. Len(s) |-> IF i = x THEN e ELSE s[i]]
  BY <1>1
<1>3. IsSeq(t) /\ DOMAIN t = 1 .. Len(s)
  BY <1>1, <1>2 DEF IsSeq
<1>4. Len(t) \in Nat /\ DOMAIN t = 1 .. Len(t)
  BY <1>3, SeqLen
<1>5. Len(t) = Len(s)
  <2>1. 1 .. Len(t) = 1 .. Len(s)
    BY <1>3, <1>4
  <2> QED
    BY <1>1, <1>4, <2>1
<1> QED
  BY <1>2, <1>3, <1>5 DEF IsSet

Covered(i, M) == {r \in M : Covers(i, r)}
LastOf(a, k) == a.reports[a.entries[k].index]

IsEntry(e) == e = [f \in {"index", "count", "affected"} |-> e[f]]

\* Every key's entry is of an incident of that key and counts its reports.
Indexed(a) == \A k \in DOMAIN a.entries :
  /\ IsEntry(a.entries[k])
  /\ a.entries[k].index \in 1 .. Len(a.reports) /\ aggregateKey(LastOf(a, k)) = k

Tallied(a, M) == \A k \in DOMAIN a.entries :
  /\ a.entries[k].count = Cardinality(Covered(LastOf(a, k), M))
  /\ a.entries[k].affected = Touched(Covered(LastOf(a, k), M))

\* Every incident has an entry for its key and accounts for what it covers.
Accounted(a, M) == \A n \in 1 .. Len(a.reports) :
  /\ IsReport(a.reports[n]) /\ aggregateKey(a.reports[n]) \in DOMAIN a.entries
  /\ Accounts(a.reports[n], Covered(a.reports[n], M))

\* The latest incident of a key lies behind the others, which lie apart.
Behind(i, j) == i.end + Tolerance < j.start

Apart(a) ==
  /\ \A n \in 1 .. Len(a.reports) :
       LET k == aggregateKey(a.reports[n]) IN
       n # a.entries[k].index => Behind(a.reports[n], LastOf(a, k))
  /\ \A m, n \in 1 .. Len(a.reports) :
       m # n /\ aggregateKey(a.reports[m]) = aggregateKey(a.reports[n])
         => Behind(a.reports[m], a.reports[n]) \/ Behind(a.reports[n], a.reports[m])

Placed(a, M) == \A r \in M : \E n \in 1 .. Len(a.reports) : Covers(a.reports[n], r)

Gathered(M) == IsFiniteSet(M) /\ \A r \in M : Fresh(r)

AggInv(a, M) ==
  /\ Gathered(M) /\ IsSeq(a.reports)
  /\ Indexed(a) /\ Tallied(a, M) /\ Accounted(a, M) /\ Apart(a) /\ Placed(a, M)

(* What Add does to a report that opens an incident. *)
LEMMA AddOpens ==
  ASSUME NEW a, NEW r, Fresh(r), ~Open(a, r), NEW b, b = Added(a, r),
         NEW k, k = aggregateKey(r)
  PROVE  /\ b.reports = Append(a.reports, r)
         /\ b.entries = Put(a.entries, k, [index |-> Len(a.reports) + 1, count |-> 1,
                                           affected |-> Affected(r)])
<1>1. WithMetrics(r, 1, Affected(r)) = r
  BY AccountsSingle
<1> QED
  BY <1>1 DEF Added

(* What Add does to a report that is taken in. *)
TakenIn(a, b, r, k, x, old) ==
  \E m, e :
    /\ b.reports = [a.reports EXCEPT ![x] = m]
    /\ b.entries = Put(a.entries, k, e)
    /\ IsEntry(e) /\ e.index = x /\ e.count = a.entries[k].count + 1
    /\ e.affected = a.entries[k].affected \cup Affected(r)
    /\ Merges(m, old, r, e.count, e.affected)

LEMMA AddExtends ==
  ASSUME NEW a, NEW r, Open(a, r), NEW b, b = Added(a, r), NEW k, k = aggregateKey(r),
         IsEntry(a.entries[k]), NEW x, x = a.entries[k].index, NEW old, old = a.reports[x],
         IsReport(old), IsReport(r), aggregateKey(old) = k
  PROVE  TakenIn(a, b, r, k, x, old)
<1> DEFINE e == [a.entries[k] EXCEPT !.count = @ + 1, !.affected = @ \cup Affected(r)]
           m == WithMetrics(MergeReport(old, r), e.count, e.affected)
<1>1. /\ IsEntry(e) /\ e.index = x /\ e.count = a.entries[k].count + 1
      /\ e.affected = a.entries[k].affected \cup Affected(r)
  BY DEF IsEntry
<1> HIDE DEF e
<1>2. e = [a.entries[k] EXCEPT !.count = @ + 1, !.affected = @ \cup Affected(r)]
  BY DEF e
<1>3. b.reports = [a.reports EXCEPT ![x] = m] /\ b.entries = Put(a.entries, k, e)
  BY <1>1, <1>2 DEF Added
<1>4. Merges(m, old, r, e.count, e.affected)
  BY ReportsMerge
<1> HIDE DEF m
<1> QED
  BY <1>1, <1>3, <1>4 DEF TakenIn

(* Whom an incident covers lies within it. *)
LEMMA CoversWhat ==
  ASSUME NEW i, NEW r, Covers(i, r)
  PROVE  aggregateKey(i) = aggregateKey(r) /\ i.start <= r.start /\ r.end <= i.end
BY DEF Covers

(* The latest incident of a report's key does not begin after the report. *)
LEMMA LastBefore ==
  ASSUME NEW a, NEW M, AggInv(a, M), NEW r, Fresh(r), r \notin M, Follows(r, M),
         NEW k, k = aggregateKey(r), k \in DOMAIN a.entries, NEW old, old = LastOf(a, k)
  PROVE  /\ IsReport(old) /\ aggregateKey(old) = k
         /\ Accounts(old, Covered(old, M))
         /\ old.start <= r.start /\ old.end <= r.end
<1>1. a.entries[k].index \in 1 .. Len(a.reports) /\ aggregateKey(old) = k
  BY DEF AggInv, Indexed
<1>2. IsReport(old) /\ Accounts(old, Covered(old, M))
  BY <1>1 DEF AggInv, Accounted, LastOf
<1>3. PICK q \in M : Covers(old, q) /\ q.start = old.start
  BY <1>2 DEF Accounts, Spans, Covered
<1>4. PICK p \in M : Covers(old, p) /\ p.end = old.end
  BY <1>2 DEF Accounts, Spans, Covered
<1>5. /\ q.start <= r.start /\ p.end <= r.end
  <2>1. aggregateKey(q) = aggregateKey(r) /\ aggregateKey(p) = aggregateKey(r)
    BY <1>1, <1>3, <1>4, CoversWhat
  <2>2. /\ q.start \in Int /\ p.end \in Int /\ r.start \in Int /\ r.end \in Int
    BY DEF AggInv, Gathered, Fresh, IsReport
  <2> QED
    BY <2>1, <2>2 DEF Follows
<1> QED
  BY <1>1, <1>2, <1>3, <1>4, <1>5

(* An incident that ends before the report does not cover it. *)
LEMMA CoveredAsBefore ==
  ASSUME NEW i, NEW M, NEW r, Fresh(r), IsReport(i),
         aggregateKey(i) # aggregateKey(r) \/ i.end < r.start
  PROVE  Covered(i, M \cup {r}) = Covered(i, M)
<1>1. r.start < r.end /\ r.start \in Int /\ r.end \in Int /\ i.end \in Int
  BY DEF Fresh, IsReport
<1>2. ~Covers(i, r)
  BY <1>1 DEF Covers
<1> QED
  BY <1>2 DEF Covered

LEMMA GatheredMore ==
  ASSUME NEW M, Gathered(M), NEW r, Fresh(r)
  PROVE  Gathered(M \cup {r})
BY FS_AddElement DEF Gathered

(* Two incidents that lie apart do so strictly. *)
LEMMA BehindEnds ==
  ASSUME NEW i, NEW j, IsReport(i), IsReport(j), Behind(i, j)
  PROVE  i.end < j.start /\ i.end < j.end /\ i.start < j.start
BY AggregatorAssumption DEF Behind, IsReport

(* A report that touches nothing opens an incident behind all of its key. *)
LEMMA AddedNew ==
  ASSUME NEW a, NEW M, AggInv(a, M), NEW r, Fresh(r), r \notin M, Follows(r, M), ~Open(a, r)
  PROVE  AggInv(Added(a, r), M \cup {r})
<1> DEFINE b == Added(a, r)
           k == aggregateKey(r)
           N == M \cup {r}
           n == Len(a.reports)
           e == [index |-> n + 1, count |-> 1, affected |-> Affected(r)]
<1>1. b.reports = Append(a.reports, r) /\ b.entries = Put(a.entries, k, e)
  BY AddOpens
<1>2. /\ n \in Nat /\ IsSeq(b.reports) /\ Len(b.reports) = n + 1
      /\ b.reports[n + 1] = r /\ \A i \in 1 .. n : b.reports[i] = a.reports[i]
  <2>1. IsSeq(a.reports)
    BY DEF AggInv
  <2>2. n \in Nat
    BY <2>1, SeqLen
  <2> HIDE DEF b, e
  <2>3. b.reports = Append(a.reports, r)
    BY <1>1
  <2>4. IsAppended(b.reports, a.reports, r)
    BY <2>1, <2>3, AppendTo
  <2> QED
    BY <2>2, <2>4 DEF IsAppended
<1>3. /\ DOMAIN b.entries = DOMAIN a.entries \cup {k}
      /\ b.entries[k] = e
      /\ \A j \in DOMAIN a.entries : j # k => b.entries[j] = a.entries[j]
  BY <1>1 DEF Put
<1>4. e.index = n + 1 /\ e.count = 1 /\ e.affected = Affected(r) /\ IsEntry(e)
  BY DEF IsEntry
<1> HIDE DEF b, e
<1>5. ASSUME NEW i \in 1 .. n, aggregateKey(a.reports[i]) = k
      PROVE  Behind(a.reports[i], r) /\ a.reports[i].end < r.start
  <2>1. k \in DOMAIN a.entries /\ IsReport(a.reports[i])
    BY <1>5 DEF AggInv, Accounted
  <2> DEFINE old == LastOf(a, k)
  <2>2. IsReport(old) /\ aggregateKey(old) = k /\ old.start <= r.start /\ old.end <= r.end
    BY <2>1, LastBefore
  <2>3. ~WindowsTouch(old, r)
    BY <2>1 DEF Open, LastOf
  <2> HIDE DEF old
  <2>4. Behind(old, r)
    <3>1. /\ old.start \in Int /\ old.end \in Int /\ r.start \in Int /\ r.end \in Int
          /\ r.start < r.end /\ Tolerance \in Nat
      BY <2>2, AggregatorAssumption DEF Fresh, IsReport
    <3> QED
      BY <2>2, <2>3, <3>1 DEF WindowsTouch, Behind
  <2>5. CASE i = a.entries[k].index
    <3>1. a.reports[i] = old
      BY <2>5 DEF old, LastOf
    <3> QED
      BY <2>2, <2>4, <3>1, BehindEnds DEF Fresh
  <2>6. CASE i # a.entries[k].index
    <3>1. Behind(a.reports[i], old)
      BY <1>5, <2>6 DEF AggInv, Apart, old
    <3>2. /\ a.reports[i].end \in Int /\ old.start \in Int /\ r.start \in Int
          /\ old.end \in Int /\ old.start < old.end /\ Tolerance \in Nat
      BY <2>1, <2>2, AggregatorAssumption DEF Fresh, IsReport
    <3> QED
      BY <2>4, <3>1, <3>2 DEF Behind
  <2> QED
    BY <2>5, <2>6
<1>6. \A i \in 1 .. n : Covered(a.reports[i], N) = Covered(a.reports[i], M)
  <2> SUFFICES ASSUME NEW i \in 1 .. n
               PROVE  Covered(a.reports[i], N) = Covered(a.reports[i], M)
    OBVIOUS
  <2>1. IsReport(a.reports[i])
    BY DEF AggInv, Accounted
  <2> QED
    BY <1>5, <2>1, CoveredAsBefore
<1>7. Covered(r, N) = {r}
  <2>1. Covers(r, r)
    BY DEF Covers, Fresh, IsReport
  <2>2. ASSUME NEW q \in M, Covers(r, q) PROVE FALSE
    <3>1. PICK i \in 1 .. n : Covers(a.reports[i], q)
      BY DEF AggInv, Placed
    <3>2. aggregateKey(a.reports[i]) = k /\ q.end <= a.reports[i].end /\ r.start <= q.start
      BY <2>2, <3>1, CoversWhat
    <3>3. a.reports[i].end < r.start
      BY <1>5, <3>2
    <3>4. /\ q.start \in Int /\ q.end \in Int /\ q.start < q.end /\ r.start \in Int
          /\ a.reports[i].end \in Int
      BY DEF AggInv, Accounted, Gathered, Fresh, IsReport
    <3> QED
      BY <3>2, <3>3, <3>4
  <2> QED
    BY <2>1, <2>2 DEF Covered
<1>8. Gathered(N)
  BY GatheredMore DEF AggInv
<1>9. Indexed(b)
  <2>1. ASSUME NEW j \in DOMAIN a.entries, j # k
        PROVE  /\ IsEntry(b.entries[j]) /\ b.entries[j].index \in 1 .. Len(b.reports)
               /\ LastOf(b, j) = LastOf(a, j) /\ aggregateKey(LastOf(b, j)) = j
    <3>1. /\ IsEntry(a.entries[j]) /\ a.entries[j].index \in 1 .. n
          /\ aggregateKey(LastOf(a, j)) = j
      BY DEF AggInv, Indexed
    <3> QED
      BY <1>2, <1>3, <2>1, <3>1 DEF LastOf
  <2>2. /\ IsEntry(b.entries[k]) /\ b.entries[k].index \in 1 .. Len(b.reports)
        /\ aggregateKey(LastOf(b, k)) = k
    BY <1>2, <1>3, <1>4 DEF LastOf
  <2> QED
    BY <1>3, <2>1, <2>2 DEF Indexed
<1>10. Tallied(b, N)
  <2>1. ASSUME NEW j \in DOMAIN a.entries, j # k
        PROVE  /\ b.entries[j].count = Cardinality(Covered(LastOf(b, j), N))
               /\ b.entries[j].affected = Touched(Covered(LastOf(b, j), N))
    <3>1. a.entries[j].index \in 1 .. n
      BY DEF AggInv, Indexed
    <3>2. /\ b.entries[j] = a.entries[j] /\ LastOf(b, j) = LastOf(a, j)
          /\ Covered(LastOf(a, j), N) = Covered(LastOf(a, j), M)
      BY <1>2, <1>3, <1>6, <2>1, <3>1 DEF LastOf
    <3> QED
      BY <3>2 DEF AggInv, Tallied
  <2>2. /\ b.entries[k].count = Cardinality(Covered(LastOf(b, k), N))
        /\ b.entries[k].affected = Touched(Covered(LastOf(b, k), N))
    <3>1. LastOf(b, k) = r
      BY <1>2, <1>3, <1>4 DEF LastOf
    <3>2. Touched({r}) = Affected(r)
      BY DEF Touched
    <3> QED
      BY <1>3, <1>4, <1>7, <3>1, <3>2, SingletonCard
  <2> QED
    BY <1>3, <2>1, <2>2 DEF Tallied
<1>11. Accounted(b, N)
  <2>1. ASSUME NEW i \in 1 .. n
        PROVE  /\ IsReport(b.reports[i]) /\ aggregateKey(b.reports[i]) \in DOMAIN b.entries
               /\ Accounts(b.reports[i], Covered(b.reports[i], N))
    BY <1>2, <1>3, <1>6 DEF AggInv, Accounted
  <2>2. /\ IsReport(b.reports[n + 1]) /\ aggregateKey(b.reports[n + 1]) \in DOMAIN b.entries
        /\ Accounts(b.reports[n + 1], Covered(b.reports[n + 1], N))
    BY <1>2, <1>3, <1>7, AccountsSingle DEF Fresh
  <2>3. ASSUME NEW i \in 1 .. Len(b.reports) PROVE i \in 1 .. n \/ i = n + 1
    BY <1>2
  <2> QED
    BY <2>1, <2>2, <2>3 DEF Accounted
<1>12. Apart(b)
  <2>1. ASSUME NEW i \in 1 .. Len(b.reports), i # b.entries[aggregateKey(b.reports[i])].index
        PROVE  Behind(b.reports[i], LastOf(b, aggregateKey(b.reports[i])))
    <3> DEFINE j == aggregateKey(b.reports[i])
    <3>1. i \in 1 .. n
      BY <1>2, <1>3, <1>4, <2>1
    <3>2. b.reports[i] = a.reports[i] /\ j = aggregateKey(a.reports[i]) /\ j \in DOMAIN a.entries
      BY <1>2, <3>1 DEF AggInv, Accounted
    <3>3. CASE j = k
      <4>1. LastOf(b, j) = r
        BY <1>2, <1>3, <1>4, <3>3 DEF LastOf
      <4> QED
        BY <1>5, <3>1, <3>2, <3>3, <4>1
    <3>4. CASE j # k
      <4>1. b.entries[j] = a.entries[j] /\ a.entries[j].index \in 1 .. n
        BY <1>3, <3>2, <3>4 DEF AggInv, Indexed
      <4>2. LastOf(b, j) = LastOf(a, j)
        BY <1>2, <4>1 DEF LastOf
      <4>3. i # a.entries[j].index
        BY <2>1, <4>1
      <4>4. Behind(a.reports[i], LastOf(a, j))
        BY <3>1, <3>2, <4>3 DEF AggInv, Apart
      <4> QED
        BY <3>2, <4>2, <4>4
    <3> QED
      BY <3>3, <3>4
  <2>2. ASSUME NEW i \in 1 .. Len(b.reports), NEW j \in 1 .. Len(b.reports), i # j,
               aggregateKey(b.reports[i]) = aggregateKey(b.reports[j])
        PROVE  Behind(b.reports[i], b.reports[j]) \/ Behind(b.reports[j], b.reports[i])
    <3>1. CASE i = n + 1
      <4>1. j \in 1 .. n
        BY <1>2, <2>2, <3>1
      <4> QED
        BY <1>2, <1>5, <2>2, <3>1, <4>1
    <3>2. CASE j = n + 1
      <4>1. i \in 1 .. n
        BY <1>2, <2>2, <3>2
      <4> QED
        BY <1>2, <1>5, <2>2, <3>2, <4>1
    <3>3. CASE i # n + 1 /\ j # n + 1
      <4>1. i \in 1 .. n /\ j \in 1 .. n
        BY <1>2, <3>3
      <4>2. b.reports[i] = a.reports[i] /\ b.reports[j] = a.reports[j]
        BY <1>2, <4>1
      <4>3. Behind(a.reports[i], a.reports[j]) \/ Behind(a.reports[j], a.reports[i])
        BY <2>2, <4>1, <4>2 DEF AggInv, Apart
      <4> QED
        BY <4>2, <4>3
    <3> QED
      BY <3>1, <3>2, <3>3
  <2> QED
    BY <2>1, <2>2 DEF Apart
<1>13. Placed(b, N)
  <2>1. \A q \in M : \E i \in 1 .. n : Covers(b.reports[i], q)
    BY <1>2 DEF AggInv, Placed
  <2>2. Covers(b.reports[n + 1], r)
    BY <1>2, <1>7 DEF Covered
  <2> QED
    BY <1>2, <2>1, <2>2 DEF Placed
<1> QED
  BY <1>2, <1>8, <1>9, <1>10, <1>11, <1>12, <1>13 DEF AggInv, b

(* A report that touches the latest incident of its key is taken in there. *)
LEMMA AddedExtends ==
  ASSUME NEW a, NEW M, AggInv(a, M), NEW r, Fresh(r), r \notin M, Follows(r, M), Open(a, r)
  PROVE  AggInv(Added(a, r), M \cup {r})
<1> DEFINE b == Added(a, r)
           k == aggregateKey(r)
           N == M \cup {r}
           n == Len(a.reports)
           x == a.entries[k].index
           old == a.reports[x]
           C == Covered(old, M)
<1>1. k \in DOMAIN a.entries /\ WindowsTouch(old, r)
  BY DEF Open
<1>2. /\ IsReport(old) /\ aggregateKey(old) = k /\ Accounts(old, C)
      /\ old.start <= r.start /\ old.end <= r.end
  BY <1>1, LastBefore DEF LastOf
<1>3. /\ x \in 1 .. n /\ IsEntry(a.entries[k])
      /\ a.entries[k].count = Cardinality(C) /\ a.entries[k].affected = Touched(C)
  BY <1>1 DEF AggInv, Indexed, Tallied, LastOf
<1>4. IsReport(r) /\ \A q \in M : Fresh(q)
  BY DEF Fresh, AggInv, Gathered
<1> HIDE DEF b, old, x, C
<1>5. TakenIn(a, b, r, k, x, old)
  <2>1. b = Added(a, r) /\ x = a.entries[k].index /\ old = a.reports[x]
    BY DEF b, x, old
  <2> QED
    BY <1>2, <1>3, <1>4, <2>1, AddExtends
<1>6. PICK m, e :
        /\ b.reports = [a.reports EXCEPT ![x] = m]
        /\ b.entries = Put(a.entries, k, e)
        /\ IsEntry(e) /\ e.index = x /\ e.count = a.entries[k].count + 1
        /\ e.affected = a.entries[k].affected \cup Affected(r)
        /\ Merges(m, old, r, e.count, e.affected)
  BY <1>5 DEF TakenIn
<1>7. /\ n \in Nat /\ IsSeq(b.reports) /\ Len(b.reports) = n
      /\ b.reports[x] = m /\ \A i \in 1 .. n : i # x => b.reports[i] = a.reports[i]
  <2>1. IsSeq(a.reports) /\ b.reports = [a.reports EXCEPT ![x] = m] /\ x \in 1 .. Len(a.reports)
    BY <1>3, <1>6 DEF AggInv
  <2>2. n \in Nat
    BY <2>1, SeqLen
  <2>3. IsSet(b.reports, a.reports, x, m)
    BY <2>1, SetTo
  <2> QED
    BY <2>2, <2>3 DEF IsSet
<1>8. /\ DOMAIN b.entries = DOMAIN a.entries
      /\ b.entries[k] = e
      /\ \A j \in DOMAIN a.entries : j # k => b.entries[j] = a.entries[j]
  BY <1>1, <1>6 DEF Put
<1>9. IsReport(m) /\ aggregateKey(m) = k
  BY <1>2, <1>6 DEF Merges
<1>10. C \in SUBSET M /\ IsFiniteSet(C) /\ \A q \in C : Fresh(q) /\ aggregateKey(q) = k
  <2>1. C \in SUBSET M
    BY DEF C, Covered
  <2>2. IsFiniteSet(C)
    BY <2>1, FS_Subset DEF AggInv, Gathered
  <2>3. \A q \in C : aggregateKey(q) = k
    BY <1>2 DEF C, Covered, Covers
  <2> QED
    BY <1>4, <2>1, <2>2, <2>3
<1>11. Accounts(m, C \cup {r}) /\ m.start = old.start /\ m.end = r.end
  <2>0. OfKind(C, old)
    BY <1>2, <1>10 DEF OfKind
  <2>1. Follows(r, C) /\ r \notin C
    BY <1>10 DEF Follows
  <2>2. e.count = Cardinality(C) + 1 /\ e.affected = Touched(C) \cup Affected(r)
    BY <1>3, <1>6
  <2> QED
    BY <1>1, <1>2, <1>6, <1>10, <2>0, <2>1, <2>2, AccountsGrow
<1>12. ASSUME NEW i \in 1 .. n, i # x, aggregateKey(a.reports[i]) = k
       PROVE  /\ Behind(a.reports[i], old) /\ Behind(a.reports[i], m)
              /\ IsReport(a.reports[i])
              /\ a.reports[i].end < old.start /\ a.reports[i].end < r.start
  <2>1. Behind(a.reports[i], old)
    BY <1>12 DEF AggInv, Apart, LastOf, old, x
  <2>2. IsReport(a.reports[i])
    BY DEF AggInv, Accounted
  <2>3. a.reports[i].end < old.start
    BY <1>2, <2>1, <2>2, BehindEnds
  <2>4. a.reports[i].end \in Int /\ old.start \in Int /\ r.start \in Int
    BY <1>2, <1>4, <2>2 DEF IsReport
  <2>5. Behind(a.reports[i], m)
    BY <1>11, <2>1 DEF Behind
  <2> QED
    BY <1>2, <2>1, <2>2, <2>3, <2>4, <2>5
<1>13. \A i \in 1 .. n : i # x => Covered(a.reports[i], N) = Covered(a.reports[i], M)
  <2> SUFFICES ASSUME NEW i \in 1 .. n, i # x
               PROVE  Covered(a.reports[i], N) = Covered(a.reports[i], M)
    OBVIOUS
  <2>1. IsReport(a.reports[i])
    BY DEF AggInv, Accounted
  <2> QED
    BY <1>12, <2>1, CoveredAsBefore
<1>14. Covered(m, N) = C \cup {r}
  <2>1. Covers(m, r)
    BY <1>2, <1>4, <1>9, <1>11 DEF Covers, IsReport
  <2>2. ASSUME NEW q \in C PROVE Covers(m, q)
    <3>1. aggregateKey(q) = k /\ old.start <= q.start /\ q.end <= old.end
      BY <1>2 DEF C, Covered, Covers
    <3>2. q.end \in Int /\ old.end \in Int /\ r.end \in Int
      BY <1>2, <1>4, <1>10 DEF Fresh, IsReport
    <3> QED
      BY <1>2, <1>9, <1>11, <3>1, <3>2 DEF Covers
  <2>3. ASSUME NEW q \in M, Covers(m, q) PROVE q \in C
    <3>1. PICK i \in 1 .. n : Covers(a.reports[i], q)
      BY DEF AggInv, Placed
    <3>2. aggregateKey(a.reports[i]) = k /\ q.end <= a.reports[i].end /\ m.start <= q.start
      BY <1>9, <2>3, <3>1, CoversWhat
    <3>3. CASE i = x
      BY <3>1, <3>3 DEF C, Covered, old
    <3>4. CASE i # x
      <4>1. a.reports[i].end < old.start /\ IsReport(a.reports[i])
        BY <1>12, <3>2, <3>4
      <4>2. /\ q.start \in Int /\ q.end \in Int /\ q.start < q.end
            /\ a.reports[i].end \in Int /\ old.start \in Int
        BY <1>2, <1>4, <4>1 DEF Fresh, IsReport
      <4> QED
        BY <1>11, <3>2, <4>1, <4>2
    <3> QED
      BY <3>3, <3>4
  <2> QED
    BY <1>10, <2>1, <2>2, <2>3 DEF Covered
<1>15. Gathered(N)
  BY GatheredMore DEF AggInv
<1>16. ASSUME NEW j \in DOMAIN a.entries, j # k
       PROVE  /\ IsEntry(a.entries[j]) /\ a.entries[j].index \in 1 .. n
              /\ a.entries[j].index # x /\ b.entries[j] = a.entries[j]
              /\ LastOf(b, j) = LastOf(a, j) /\ aggregateKey(LastOf(a, j)) = j
  <2>1. /\ IsEntry(a.entries[j]) /\ a.entries[j].index \in 1 .. n
        /\ aggregateKey(LastOf(a, j)) = j
    BY DEF AggInv, Indexed
  <2>2. a.entries[j].index # x
    BY <1>2, <1>16, <2>1 DEF LastOf, old
  <2> QED
    BY <1>7, <1>8, <1>16, <2>1, <2>2 DEF LastOf
<1>17. LastOf(b, k) = m
  BY <1>6, <1>7, <1>8 DEF LastOf
<1>18. Indexed(b)
  <2>1. /\ IsEntry(b.entries[k]) /\ b.entries[k].index \in 1 .. Len(b.reports)
        /\ aggregateKey(LastOf(b, k)) = k
    BY <1>3, <1>6, <1>7, <1>8, <1>9, <1>17
  <2> QED
    BY <1>7, <1>8, <1>16, <2>1 DEF Indexed
<1>19. Tallied(b, N)
  <2>1. ASSUME NEW j \in DOMAIN a.entries, j # k
        PROVE  /\ b.entries[j].count = Cardinality(Covered(LastOf(b, j), N))
               /\ b.entries[j].affected = Touched(Covered(LastOf(b, j), N))
    <3>1. Covered(LastOf(a, j), N) = Covered(LastOf(a, j), M)
      BY <1>13, <1>16, <2>1 DEF LastOf
    <3> QED
      BY <1>16, <2>1, <3>1 DEF AggInv, Tallied
  <2>2. /\ b.entries[k].count = Cardinality(Covered(LastOf(b, k), N))
        /\ b.entries[k].affected = Touched(Covered(LastOf(b, k), N))
    <3>1. Cardinality(C \cup {r}) = Cardinality(C) + 1
      BY <1>10, FS_AddElement
    <3>2. Touched(C \cup {r}) = Touched(C) \cup Affected(r)
      BY DEF Touched
    <3> QED
      BY <1>3, <1>6, <1>8, <1>14, <1>17, <3>1, <3>2
  <2> QED
    BY <1>8, <2>1, <2>2 DEF Tallied
<1>20. Accounted(b, N)
  <2>1. ASSUME NEW i \in 1 .. n, i # x
        PROVE  /\ IsReport(b.reports[i]) /\ aggregateKey(b.reports[i]) \in DOMAIN b.entries
               /\ Accounts(b.reports[i], Covered(b.reports[i], N))
    BY <1>7, <1>8, <1>13, <2>1 DEF AggInv, Accounted
  <2>2. /\ IsReport(b.reports[x]) /\ aggregateKey(b.reports[x]) \in DOMAIN b.entries
        /\ Accounts(b.reports[x], Covered(b.reports[x], N))
    BY <1>1, <1>7, <1>8, <1>9, <1>11, <1>14
  <2> QED
    BY <1>7, <2>1, <2>2 DEF Accounted
<1>21. Apart(b)
  <2>1. ASSUME NEW i \in 1 .. Len(b.reports), i # b.entries[aggregateKey(b.reports[i])].index
        PROVE  Behind(b.reports[i], LastOf(b, aggregateKey(b.reports[i])))
    <3> DEFINE j == aggregateKey(b.reports[i])
    <3>1. i \in 1 .. n /\ i # x
      BY <1>6, <1>7, <1>8, <1>9, <2>1
    <3>2. b.reports[i] = a.reports[i] /\ j = aggregateKey(a.reports[i]) /\ j \in DOMAIN a.entries
      BY <1>7, <3>1 DEF AggInv, Accounted
    <3>3. CASE j = k
      BY <1>12, <1>17, <3>1, <3>2, <3>3
    <3>4. CASE j # k
      <4>1. b.entries[j] = a.entries[j] /\ LastOf(b, j) = LastOf(a, j)
        BY <1>16, <3>2, <3>4
      <4>2. i # a.entries[j].index
        BY <2>1, <4>1
      <4>3. Behind(a.reports[i], LastOf(a, j))
        BY <3>1, <3>2, <4>2 DEF AggInv, Apart
      <4> QED
        BY <3>2, <4>1, <4>3
    <3> QED
      BY <3>3, <3>4
  <2>2. ASSUME NEW i \in 1 .. Len(b.reports), NEW j \in 1 .. Len(b.reports), i # j,
               aggregateKey(b.reports[i]) = aggregateKey(b.reports[j])
        PROVE  Behind(b.reports[i], b.reports[j]) \/ Behind(b.reports[j], b.reports[i])
    <3>1. CASE i = x
      <4>1. j \in 1 .. n /\ j # x /\ aggregateKey(a.reports[j]) = k /\ b.reports[j] = a.reports[j]
        BY <1>7, <1>9, <2>2, <3>1
      <4> QED
        BY <1>7, <1>12, <3>1, <4>1
    <3>2. CASE j = x
      <4>1. i \in 1 .. n /\ i # x /\ aggregateKey(a.reports[i]) = k /\ b.reports[i] = a.reports[i]
        BY <1>7, <1>9, <2>2, <3>2
      <4> QED
        BY <1>7, <1>12, <3>2, <4>1
    <3>3. CASE i # x /\ j # x
      <4>1. /\ i \in 1 .. n /\ j \in 1 .. n
            /\ b.reports[i] = a.reports[i] /\ b.reports[j] = a.reports[j]
        BY <1>7, <3>3
      <4>2. Behind(a.reports[i], a.reports[j]) \/ Behind(a.reports[j], a.reports[i])
        BY <2>2, <4>1 DEF AggInv, Apart
      <4> QED
        BY <4>1, <4>2
    <3> QED
      BY <3>1, <3>2, <3>3
  <2> QED
    BY <2>1, <2>2 DEF Apart
<1>22. Placed(b, N)
  <2>1. ASSUME NEW q \in M PROVE \E i \in 1 .. n : Covers(b.reports[i], q)
    <3>1. PICK i \in 1 .. n : Covers(a.reports[i], q)
      BY DEF AggInv, Placed
    <3>2. CASE i = x
      <4>1. q \in C
        BY <3>1, <3>2 DEF C, Covered, old
      <4>2. Covers(b.reports[x], q)
        BY <1>7, <1>14, <4>1 DEF Covered
      <4> QED
        BY <1>3, <4>2
    <3>3. CASE i # x
      <4>1. Covers(b.reports[i], q)
        BY <1>7, <3>1, <3>3
      <4> QED
        BY <4>1
    <3> QED
      BY <3>2, <3>3
  <2>2. Covers(b.reports[x], r)
    BY <1>7, <1>14 DEF Covered
  <2> QED
    BY <1>3, <1>7, <2>1, <2>2 DEF Placed
<1> QED
  BY <1>7, <1>15, <1>18, <1>19, <1>20, <1>21, <1>22 DEF AggInv, b

LEMMA AddedInv ==
  ASSUME NEW a, NEW M, AggInv(a, M), NEW r, Fresh(r), r \notin M, Follows(r, M)
  PROVE  AggInv(Added(a, r), M \cup {r})
BY AddedNew, AddedExtends

(* The reports of one window, in any order. *)
Together(R) == \A r, q \in R :
  aggregateKey(r) = aggregateKey(q) => r.start = q.start /\ r.end = q.end

LEMMA AddAllInv ==
  ASSUME NEW a, NEW M, AggInv(a, M), NEW R, IsFiniteSet(R), Together(R),
         \A r \in R : Fresh(r) /\ r \notin M /\ Follows(r, M),
         NEW order \in SetToSeqs(R)
  PROVE  AggInv(FoldLeft(Added, a, order), M \cup ToSet(order)) /\ ToSet(order) \in SUBSET R
<1> DEFINE n == Cardinality(R)
           Upto(k) == {order[i] : i \in 1 .. k}
<1>1. /\ n \in Nat /\ order \in [1 .. n -> R]
      /\ \A i, j \in 1 .. n : i # j => order[i] # order[j]
  BY FS_CardinalityType DEF SetToSeqs
<1>2. DOMAIN order = 1 .. n /\ \A i \in 1 .. n : order[i] \in R
  BY <1>1
<1>3. PICK h : Passes(h, a, order, n) /\ FoldLeft(Added, a, order) = h[n]
  BY <1>1, <1>2, FoldPasses
<1> HIDE DEF n
<1> DEFINE P == {k \in Nat : k <= n => AggInv(h[k], M \cup Upto(k))}
<1>4. 0 \in P
  <2>1. Upto(0) = {}
    OBVIOUS
  <2>2. h[0] = a
    BY <1>3 DEF Passes
  <2> QED
    BY <2>1, <2>2
<1>5. ASSUME NEW k \in P PROVE k + 1 \in P
  <2> SUFFICES ASSUME k + 1 <= n PROVE AggInv(h[k + 1], M \cup Upto(k + 1))
    OBVIOUS
  <2>1. k \in Nat /\ k \in 0 .. n /\ k + 1 \in 1 .. n
    BY <1>1
  <2>2. AggInv(h[k], M \cup Upto(k))
    BY <1>1
  <2> DEFINE r == order[k + 1]
  <2>3. h[k + 1] = Added(h[k], r)
    <3>1. h[k + 1] = Added(h[(k + 1) - 1], r)
      BY <1>3, <2>1 DEF Passes
    <3>2. (k + 1) - 1 = k
      BY <2>1
    <3> QED
      BY <3>1, <3>2
  <2>4. r \in R /\ \A i \in 1 .. k : order[i] \in R /\ order[i] # r
    <3>1. \A i \in 1 .. k : i \in 1 .. n /\ i # k + 1
      BY <1>1, <2>1
    <3> QED
      BY <1>1, <1>2, <2>1, <3>1
  <2>5. Fresh(r) /\ r \notin M \cup Upto(k)
    BY <2>4
  <2>6. Follows(r, M \cup Upto(k))
    <3>1. \A q \in Upto(k) : q \in R
      BY <2>4
    <3>2. Follows(r, M)
      BY <2>4
    <3> HIDE DEF Upto, r
    <3> QED
      BY <2>4, <3>1, <3>2 DEF Follows, Together
  <2>7. M \cup Upto(k + 1) = (M \cup Upto(k)) \cup {r}
    <3>1. \A i \in Nat : i \in 1 .. (k + 1) <=> (i \in 1 .. k \/ i = k + 1)
      BY <2>1
    <3> QED
      BY <2>1, <3>1
  <2> HIDE DEF Upto, r
  <2> QED
    BY <2>2, <2>3, <2>5, <2>6, <2>7, AddedInv
<1>6. n \in P
  <2>1. P \in SUBSET Nat
    OBVIOUS
  <2> HIDE DEF P
  <2> QED
    BY <1>1, <1>4, <1>5, <2>1, NatInductive
<1>7. ToSet(order) = Upto(n)
  BY <1>2 DEF ToSet
<1>8. AggInv(h[n], M \cup Upto(n))
  BY <1>1, <1>6
<1>9. Upto(n) \in SUBSET R
  BY <1>2
<1> HIDE DEF Upto
<1> QED
  BY <1>3, <1>7, <1>8, <1>9

LEMMA NothingYet == AggInv(NewAggregator, {})
<1>1. NewAggregator.reports = <<>> /\ NewAggregator.entries = <<>>
  BY DEF NewAggregator
<1>2. IsSeq(<<>>) /\ Len(<<>>) = 0
  <2>1. <<>> = [i \in 1 .. 0 |-> <<>>[i]]
    OBVIOUS
  <2>2. 0 \in Nat
    OBVIOUS
  <2> QED
    BY <2>1, <2>2 DEF IsSeq
<1>3. DOMAIN NewAggregator.entries = {}
  BY <1>1
<1>4. Gathered({}) /\ Tallied(NewAggregator, {}) /\ Indexed(NewAggregator)
  BY <1>3, FS_EmptySet DEF Gathered, Tallied, Indexed
<1>5. \A i \in 1 .. Len(NewAggregator.reports) : FALSE
  BY <1>1, <1>2
<1>6. Accounted(NewAggregator, {}) /\ Apart(NewAggregator) /\ Placed(NewAggregator, {})
  BY <1>5, Zenon DEF Accounted, Apart, Placed
<1> QED
  BY <1>1, <1>2, <1>4, <1>6 DEF AggInv

LEMMA MinIs ==
  ASSUME NEW S \in SUBSET Int, NEW x \in S, \A y \in S : x <= y
  PROVE  Min(S) = x
<1>1. Min(S) \in S /\ \A y \in S : Min(S) <= y
  BY Zenon DEF Min
<1>2. Min(S) <= x /\ x <= Min(S) /\ x \in Int /\ Min(S) \in Int
  BY <1>1
<1> QED
  BY <1>2

LEMMA MaxIs ==
  ASSUME NEW S \in SUBSET Int, NEW x \in S, \A y \in S : x >= y
  PROVE  Max(S) = x
<1>1. Max(S) \in S /\ \A y \in S : Max(S) >= y
  BY Zenon DEF Max
<1>2. Max(S) >= x /\ x >= Max(S) /\ x \in Int /\ Max(S) \in Int
  BY <1>1
<1> QED
  BY <1>2

LEMMA ConservedBy == AggInv(agg, added) => ReportsConserved
<1> SUFFICES ASSUME AggInv(agg, added) PROVE ReportsConserved
  OBVIOUS
<1> DEFINE n == Len(agg.reports)
<1>1. n \in Nat /\ DOMAIN agg.reports = 1 .. n
  BY SeqLen DEF AggInv
<1>2. \A i \in 1 .. n : IsReport(agg.reports[i])
  BY DEF AggInv, Accounted
<1>3. ASSUME NEW r \in added
      PROVE  Cardinality({i \in DOMAIN agg.reports : Covers(agg.reports[i], r)}) = 1
  <2>1. PICK i \in 1 .. n : Covers(agg.reports[i], r)
    BY DEF AggInv, Placed
  <2>2. ASSUME NEW j \in 1 .. n, Covers(agg.reports[j], r) PROVE j = i
    <3> SUFFICES ASSUME j # i PROVE FALSE
      OBVIOUS
    <3>1. aggregateKey(agg.reports[j]) = aggregateKey(agg.reports[i])
      BY <2>1, <2>2 DEF Covers
    <3>2. Behind(agg.reports[j], agg.reports[i]) \/ Behind(agg.reports[i], agg.reports[j])
      BY <3>1 DEF AggInv, Apart
    <3>3. \/ agg.reports[j].end < agg.reports[i].start
          \/ agg.reports[i].end < agg.reports[j].start
      BY <1>2, <3>2, BehindEnds
    <3>4. /\ r.start \in Int /\ r.end \in Int /\ r.start < r.end
          /\ agg.reports[i].start \in Int /\ agg.reports[i].end \in Int
          /\ agg.reports[j].start \in Int /\ agg.reports[j].end \in Int
      BY <1>2 DEF AggInv, Gathered, Fresh, IsReport
    <3> QED
      BY <2>1, <2>2, <3>3, <3>4 DEF Covers
  <2>3. {j \in DOMAIN agg.reports : Covers(agg.reports[j], r)} = {i}
    BY <1>1, <2>1, <2>2
  <2> QED
    BY <2>3, SingletonCard
<1>4. ASSUME NEW i \in Incidents
      PROVE  LET M == Members(i) IN
             /\ i.merged = Cardinality(M)
             /\ i.start = Min({r.start : r \in M}) /\ i.end = Max({r.end : r \in M})
             /\ isLockReport(i) \/ isCallReport(i) => i.peak = Max({r.peak : r \in M})
             /\ isLockReport(i) => /\ i.total = MapThenSumSet(LAMBDA r : r.total, M)
                                   /\ i.tids = Cardinality({r.object.tid : r \in M})
  <2> DEFINE M == Members(i)
  <2>1. IsReport(i) /\ Accounts(i, M)
    BY <1>1 DEF Incidents, ToSet, AggInv, Accounted, Members, Covered
  <2>2. \A r \in M : r.start \in Int /\ r.end \in Int /\ r.peak \in Int
    BY DEF AggInv, Gathered, Fresh, IsReport, Members
  <2>3. i.start \in Int /\ i.end \in Int /\ i.peak \in Int
    BY <2>1 DEF IsReport
  <2> HIDE DEF M
  <2>4. i.start = Min({r.start : r \in M})
    <3>1. {r.start : r \in M} \in SUBSET Int /\ i.start \in {r.start : r \in M}
      BY <2>1, <2>2 DEF Accounts, Spans
    <3>2. \A y \in {r.start : r \in M} : i.start <= y
      BY <2>1 DEF Accounts, Spans
    <3> QED
      BY <3>1, <3>2, MinIs
  <2>5. i.end = Max({r.end : r \in M})
    <3>1. {r.end : r \in M} \in SUBSET Int /\ i.end \in {r.end : r \in M}
      BY <2>1, <2>2 DEF Accounts, Spans
    <3>2. \A y \in {r.end : r \in M} : i.end >= y
      BY <2>1, <2>2, <2>3 DEF Accounts, Spans
    <3> QED
      BY <3>1, <3>2, MaxIs
  <2>6. ASSUME Ranked(i) PROVE i.peak = Max({r.peak : r \in M})
    <3>1. {r.peak : r \in M} \in SUBSET Int /\ i.peak \in {r.peak : r \in M}
      BY <2>1, <2>2, <2>6 DEF Accounts, Highest
    <3>2. \A y \in {r.peak : r \in M} : i.peak >= y
      BY <2>1, <2>2, <2>3, <2>6 DEF Accounts, Highest
    <3> QED
      BY <3>1, <3>2, MaxIs
  <2>7. /\ i.merged = Cardinality(M)
        /\ isLockReport(i) => /\ i.total = MapThenSumSet(LAMBDA r : r.total, M)
                              /\ i.tids = Cardinality({r.object.tid : r \in M})
    BY <2>1 DEF Accounts, Counts, SumOfTotals, Tids
  <2>8. isLockReport(i) \/ isCallReport(i) => i.peak = Max({r.peak : r \in M})
    BY <2>6 DEF Ranked
  <2> QED
    BY <2>4, <2>5, <2>7, <2>8 DEF M
<1> QED
  BY <1>3, <1>4 DEF ReportsConserved

LEMMA SeparateBy == AggInv(agg, added) => GapsSeparate
<1> SUFFICES ASSUME AggInv(agg, added) PROVE GapsSeparate
  OBVIOUS
<1>1. DOMAIN agg.reports = 1 .. Len(agg.reports)
  BY SeqLen DEF AggInv
<1>2. ASSUME NEW m \in DOMAIN agg.reports, NEW n \in DOMAIN agg.reports, m # n,
             aggregateKey(agg.reports[m]) = aggregateKey(agg.reports[n])
      PROVE  \/ agg.reports[m].start > agg.reports[n].end + Tolerance
             \/ agg.reports[n].start > agg.reports[m].end + Tolerance
  <2>1. Behind(agg.reports[m], agg.reports[n]) \/ Behind(agg.reports[n], agg.reports[m])
    BY <1>1, <1>2 DEF AggInv, Apart
  <2>2. IsReport(agg.reports[m]) /\ IsReport(agg.reports[n])
    BY <1>1 DEF AggInv, Accounted
  <2> QED
    BY <2>1, <2>2, AggregatorAssumption DEF Behind, IsReport
<1>3. ASSUME NEW i \in Incidents, NEW r \in Members(i)
      PROVE  r.start = i.start \/ \E q \in Members(i) :
                                    q.start < r.start /\ r.start <= q.end + Tolerance
  <2>1. Accounts(i, Members(i))
    BY <1>1 DEF Incidents, ToSet, AggInv, Accounted, Members, Covered
  <2> QED
    BY <2>1 DEF Accounts, NoHoles
<1> QED
  BY <1>2, <1>3 DEF GapsSeparate

LEMMA SurestBy == AggInv(agg, added) => SurestSpeaks
<1> SUFFICES ASSUME AggInv(agg, added), NEW i \in Incidents
             PROVE  i.confidence = Max({r.confidence : r \in Members(i)})
  BY DEF SurestSpeaks
<1>1. DOMAIN agg.reports = 1 .. Len(agg.reports)
  BY SeqLen DEF AggInv
<1> DEFINE M == Members(i)
<1>2. IsReport(i) /\ Accounts(i, M)
  BY <1>1 DEF Incidents, ToSet, AggInv, Accounted, Members, Covered
<1>3. \A r \in M : r.confidence \in Int
  BY DEF AggInv, Gathered, Fresh, IsReport, Members
<1> HIDE DEF M
<1>4. {r.confidence : r \in M} \in SUBSET Int /\ i.confidence \in {r.confidence : r \in M}
  BY <1>2, <1>3 DEF Accounts, Highest
<1>5. \A y \in {r.confidence : r \in M} : i.confidence >= y
  BY <1>2, <1>3 DEF Accounts, Highest, IsReport
<1>6. i.confidence = Max({r.confidence : r \in M})
  BY <1>4, <1>5, MaxIs
<1> QED
  BY <1>6 DEF M

(* The reports up to k, added to nothing: none is taken in. *)
Copied(c, s, k) ==
  /\ IsSeq(c.reports) /\ Len(c.reports) = k
  /\ \A i \in 1 .. k : c.reports[i] = s[i]
  /\ \A key \in DOMAIN c.entries :
       c.entries[key].index \in 1 .. k /\ aggregateKey(s[c.entries[key].index]) = key

LEMMA CopyOne ==
  ASSUME NEW s, IsSeq(s), NEW k \in Nat, k + 1 <= Len(s), NEW c, Copied(c, s, k),
         \A i \in 1 .. Len(s) : IsReport(s[i]),
         \A i, j \in 1 .. Len(s) : i # j /\ aggregateKey(s[i]) = aggregateKey(s[j])
                                     => Behind(s[i], s[j]) \/ Behind(s[j], s[i])
  PROVE  Copied(Added(c, s[k + 1]), s, k + 1)
<1> DEFINE r == s[k + 1]
           b == Added(c, r)
           e == [index |-> Len(c.reports) + 1, count |-> 1, affected |-> Affected(r)]
<1>1. k + 1 \in 1 .. Len(s) /\ \A i \in 1 .. k : i \in 1 .. Len(s) /\ i # k + 1
  BY SeqLen
<1>2. IsReport(r)
  BY <1>1
<1>3. ~Open(c, r)
  <2> SUFFICES ASSUME Open(c, r) PROVE FALSE
    OBVIOUS
  <2> DEFINE i == c.entries[aggregateKey(r)].index
  <2>1. i \in 1 .. k /\ aggregateKey(s[i]) = aggregateKey(r) /\ c.reports[i] = s[i]
    BY DEF Open, Copied
  <2>2. WindowsTouch(s[i], r)
    BY <2>1 DEF Open
  <2> HIDE DEF i
  <2>3. IsReport(s[i]) /\ (Behind(s[i], r) \/ Behind(r, s[i]))
    BY <1>1, <2>1
  <2> HIDE DEF r
  <2> QED
    BY <1>2, <2>2, <2>3, AggregatorAssumption DEF Behind, WindowsTouch, IsReport
<1>4. WithMetrics(r, 1, Affected(r)) = r
  BY <1>2, CountOfOne DEF IsReport
<1>5. b.reports = Append(c.reports, r) /\ b.entries = Put(c.entries, aggregateKey(r), e)
  <2> HIDE DEF r
  <2> QED
    BY <1>3, <1>4 DEF Added
<1> HIDE DEF b, r
<1>6. IsSeq(c.reports) /\ Len(c.reports) = k
  BY DEF Copied
<1>7. IsAppended(b.reports, c.reports, r)
  BY <1>5, <1>6, AppendTo
<1>8. /\ IsSeq(b.reports) /\ Len(b.reports) = k + 1
      /\ b.reports[k + 1] = r /\ \A i \in 1 .. k : b.reports[i] = c.reports[i]
  BY <1>6, <1>7 DEF IsAppended
<1>9. ASSUME NEW i \in 1 .. (k + 1) PROVE b.reports[i] = s[i]
  <2>1. i \in 1 .. k \/ i = k + 1
    OBVIOUS
  <2> QED
    BY <1>8, <2>1 DEF Copied, r
<1>10. ASSUME NEW key \in DOMAIN b.entries
       PROVE  b.entries[key].index \in 1 .. (k + 1) /\ aggregateKey(s[b.entries[key].index]) = key
  <2>1. CASE key = aggregateKey(r)
    <3>1. b.entries[key] = e /\ e.index = k + 1
      BY <1>5, <1>6, <2>1 DEF Put
    <3> QED
      BY <2>1, <3>1 DEF r
  <2>2. CASE key # aggregateKey(r)
    <3>1. b.entries[key] = c.entries[key] /\ key \in DOMAIN c.entries
      BY <1>5, <2>2 DEF Put
    <3>2. c.entries[key].index \in 1 .. k /\ aggregateKey(s[c.entries[key].index]) = key
      BY <3>1 DEF Copied
    <3> QED
      BY <3>1, <3>2
  <2> QED
    BY <2>1, <2>2
<1> HIDE DEF e
<1> QED
  BY <1>8, <1>9, <1>10 DEF Copied, b, r

LEMMA StableBy == AggInv(agg, added) => CompactStable
<1> SUFFICES ASSUME AggInv(agg, added) PROVE Compacted(agg.reports) = agg.reports
  BY DEF CompactStable
<1> DEFINE s == agg.reports
           n == Len(s)
<1>1. IsSeq(s) /\ n \in Nat /\ DOMAIN s = 1 .. n /\ s = [i \in 1 .. n |-> s[i]]
  BY SeqLen DEF AggInv
<1>2. /\ \A i \in 1 .. n : IsReport(s[i])
      /\ \A i, j \in 1 .. n : i # j /\ aggregateKey(s[i]) = aggregateKey(s[j])
                                => Behind(s[i], s[j]) \/ Behind(s[j], s[i])
  BY DEF AggInv, Accounted, Apart
<1>3. PICK h : Passes(h, NewAggregator, s, n) /\ FoldLeft(Added, NewAggregator, s) = h[n]
  BY <1>1, FoldPasses
<1> DEFINE P == {k \in Nat : k <= n => Copied(h[k], s, k)}
<1>4. 0 \in P
  <2>1. h[0] = NewAggregator
    BY <1>3 DEF Passes
  <2>2. AggInv(NewAggregator, {})
    BY NothingYet
  <2>3. NewAggregator.reports = <<>> /\ DOMAIN NewAggregator.entries = {}
    BY DEF NewAggregator
  <2>4. IsSeq(NewAggregator.reports) /\ Len(NewAggregator.reports) = 0
    BY <2>2, <2>3 DEF AggInv
  <2>5. \A i \in 1 .. 0 : FALSE
    OBVIOUS
  <2>6. Copied(NewAggregator, s, 0)
    BY <2>3, <2>4, <2>5 DEF Copied
  <2> QED
    BY <2>1, <2>6
<1> HIDE DEF s, n
<1>5. ASSUME NEW k \in P PROVE k + 1 \in P
  <2> SUFFICES ASSUME k + 1 <= n PROVE Copied(h[k + 1], s, k + 1)
    OBVIOUS
  <2>1. k \in Nat /\ Copied(h[k], s, k) /\ k + 1 \in 1 .. n /\ (k + 1) - 1 = k
    BY <1>1
  <2>2. h[k + 1] = Added(h[k], s[k + 1])
    <3>1. h[k + 1] = Added(h[(k + 1) - 1], s[k + 1])
      BY <1>3, <2>1 DEF Passes
    <3> QED
      BY <2>1, <3>1
  <2> QED
    BY <1>1, <1>2, <2>1, <2>2, CopyOne DEF n
<1>6. n \in P
  <2>1. P \in SUBSET Nat
    OBVIOUS
  <2> HIDE DEF P
  <2> QED
    BY <1>1, <1>4, <1>5, <2>1, NatInductive
<1>7. Copied(h[n], s, n)
  BY <1>1, <1>6
<1>8. h[n].reports = [i \in 1 .. n |-> h[n].reports[i]]
  BY <1>7, SeqLen DEF Copied
<1>9. h[n].reports = s
  BY <1>1, <1>7, <1>8 DEF Copied
<1> QED
  BY <1>3, <1>9 DEF Compacted, s

----------------------------------------------------------------------------
(* The samples of a window.                                                *)

LEMMA ImageFinite ==
  ASSUME NEW S, IsFiniteSet(S), NEW f
  PROVE  IsFiniteSet({f[x] : x \in S})
<1> DEFINE T == {f[x] : x \in S}
           g == [x \in S |-> f[x]]
<1>1. g \in Surjection(S, T)
  BY DEF Surjection
<1> HIDE DEF g, T
<1>2. IsFiniteSet(T)
  BY <1>1, FS_Surjection
<1> QED
  BY <1>2 DEF T

(* A finite set of naturals that is not empty has a greatest member. *)
LEMMA FiniteBound ==
  ASSUME NEW S \in SUBSET Nat, IsFiniteSet(S)
  PROVE  \E b \in Nat : \A x \in S : x <= b
<1> DEFINE Bounded(T) == \E b \in Nat : \A x \in T : x <= b
           P == {k \in Nat : \A T \in SUBSET S : Cardinality(T) = k => Bounded(T)}
<1>0. \A T \in SUBSET S : IsFiniteSet(T) /\ Cardinality(T) \in Nat
  BY FS_Subset, FS_CardinalityType
<1>1. 0 \in P
  <2> SUFFICES ASSUME NEW T \in SUBSET S, Cardinality(T) = 0 PROVE Bounded(T)
    OBVIOUS
  <2>1. T = {}
    BY <1>0, FS_EmptySet
  <2> QED
    BY <2>1
<1>2. ASSUME NEW k \in P PROVE k + 1 \in P
  <2> HIDE DEF Bounded
  <2>0. k \in Nat /\ k + 1 \in Nat
    OBVIOUS
  <2> SUFFICES ASSUME NEW T \in SUBSET S, Cardinality(T) = k + 1 PROVE Bounded(T)
    BY <2>0
  <2>1. T # {}
    BY <2>0, FS_EmptySet
  <2>2. PICK x \in T : TRUE
    BY <2>1
  <2>3. T \ {x} \in SUBSET S /\ Cardinality(T \ {x}) = k
    <3>1. Cardinality(T \ {x}) = Cardinality(T) - 1
      BY <1>0, <2>2, FS_RemoveElement
    <3> QED
      BY <2>0, <3>1
  <2>4. Bounded(T \ {x})
    BY <2>3
  <2>5. PICK b \in Nat : \A y \in T \ {x} : y <= b
    BY <2>4 DEF Bounded
  <2>6. x \in Nat /\ Greater(x, b) \in Nat /\ x <= Greater(x, b) /\ b <= Greater(x, b)
    BY <2>2, GreaterType
  <2>7. \A y \in T : y \in Nat /\ y <= Greater(x, b)
    BY <2>5, <2>6
  <2> QED
    BY <2>6, <2>7 DEF Bounded
<1>3. P \in SUBSET Nat
  OBVIOUS
<1> HIDE DEF P, Bounded
<1>4. Cardinality(S) \in P
  BY <1>0, <1>1, <1>2, <1>3, NatInductive
<1>5. Bounded(S)
  BY <1>4 DEF P
<1> QED
  BY <1>5 DEF Bounded

LEMMA Greatest ==
  ASSUME NEW S \in SUBSET Nat, IsFiniteSet(S), S # {}
  PROVE  \E i \in S : \A j \in S : j <= i
<1>1. PICK b \in Nat : \A x \in S : x <= b
  BY FiniteBound
<1>2. \A x \in S : b - x \in Nat
  BY <1>1
<1> DEFINE T == {b - x : x \in S}
<1>3. T \in SUBSET Nat /\ T # {}
  BY <1>2
<1> HIDE DEF T
<1>4. PICK t \in T : \A u \in T : t <= u
  BY <1>3, Least
<1>5. PICK i \in S : t = b - i
  BY <1>4 DEF T
<1>6. \A j \in S : b - i <= b - j
  BY <1>4, <1>5 DEF T
<1> QED
  BY <1>6

IsGroup(g) ==
  /\ g.total \in Int
  /\ DOMAIN g.waiters \in SUBSET (Nat \ {0})
  /\ IsFiniteSet(DOMAIN g.waiters) /\ DOMAIN g.waiters # {}
  /\ \A v \in DOMAIN g.waiters : g.waiters[v] \in Nat

Groups(gs, w) == \A id \in DOMAIN gs :
  IsGroup(gs[id]) /\ \E k \in DOMAIN w : id = identityOfLock(k)

\* t waited longest.
Longest(f, t) == \A v \in DOMAIN f : f[v] <= f[t]

LEMMA TopWaits ==
  ASSUME NEW g, IsGroup(g)
  PROVE  TopWaiter(g.waiters) \in DOMAIN g.waiters /\ Longest(g.waiters, TopWaiter(g.waiters))
<1> DEFINE W == DOMAIN g.waiters
           f == g.waiters
           V == {f[v] : v \in W}
<1>1. V \in SUBSET Nat /\ IsFiniteSet(V) /\ V # {}
  BY ImageFinite DEF IsGroup
<1>2. PICK x \in V : \A y \in V : y <= x
  BY <1>1, Greatest
<1> DEFINE T == {v \in W : f[v] = x}
<1>3. T \in SUBSET Nat /\ T # {}
  BY <1>2 DEF IsGroup
<1>4. PICK w \in T : \A v \in T : w <= v
  BY <1>3, Least
<1>5. \A v \in W : f[w] > f[v] \/ (f[w] = f[v] /\ w <= v)
  <2> SUFFICES ASSUME NEW v \in W, ~(f[w] > f[v]) PROVE f[w] = f[v] /\ w <= v
    OBVIOUS
  <2>1. f[w] = x /\ f[v] \in Nat /\ x \in Nat /\ f[v] <= x
    BY <1>1, <1>2, <1>4
  <2>2. f[v] = x
    BY <2>1
  <2> QED
    BY <1>4, <2>1, <2>2
<1>6. w \in W
  BY <1>4
<1> DEFINE u == TopWaiter(f)
<1>7. u \in W /\ \A v \in W : f[u] > f[v] \/ (f[u] = f[v] /\ u <= v)
  BY <1>5, <1>6, Zenon DEF TopWaiter
<1> HIDE DEF u
<1>8. \A v \in W : f[v] \in Nat /\ f[v] <= f[u]
  BY <1>1, <1>7
<1> QED
  BY <1>7, <1>8 DEF Longest, u

LEMMA JoinedGroups ==
  ASSUME NEW gs, NEW w \in Waits, Groups(gs, w), NEW k \in DOMAIN w
  PROVE  Groups(Joined(gs, k, w[k]), w)
<1> DEFINE id == identityOfLock(k)
           g == IF id \in DOMAIN gs THEN gs[id] ELSE NewGroup(k)
           before == IF k.tid \in DOMAIN g.waiters THEN g.waiters[k.tid] ELSE 0
           u == Put(g.waiters, k.tid, before + w[k])
           new == [waiters |-> u, total |-> g.total + w[k],
                   stack |-> IF w[k] > g.top THEN k.stack ELSE g.stack,
                   top |-> Greater(g.top, w[k])]
<1>1. Joined(gs, k, w[k]) = Put(gs, id, new)
  BY DEF Joined, WaiterOf
<1>2. w[k] \in Nat /\ k.tid \in Nat \ {0}
  BY WaitsAssumption
<1>3. /\ g.total \in Int
      /\ DOMAIN g.waiters \in SUBSET (Nat \ {0}) /\ IsFiniteSet(DOMAIN g.waiters)
      /\ \A v \in DOMAIN g.waiters : g.waiters[v] \in Nat
  <2>1. CASE id \in DOMAIN gs
    BY <2>1 DEF Groups, IsGroup
  <2>2. CASE id \notin DOMAIN gs
    <3>1. g.total = 0 /\ g.waiters = <<>>
      BY <2>2 DEF NewGroup
    <3>2. DOMAIN g.waiters = {}
      BY <3>1
    <3> HIDE DEF g
    <3> QED
      BY <3>1, <3>2, FS_EmptySet
  <2> QED
    BY <2>1, <2>2
<1>4. new.total = g.total + w[k] /\ new.waiters = u
  OBVIOUS
<1> HIDE DEF g, new
<1>5. before \in Nat
  BY <1>3
<1> HIDE DEF before
<1>6. /\ DOMAIN u = DOMAIN g.waiters \cup {k.tid}
      /\ \A v \in DOMAIN u : u[v] \in Nat
  BY <1>2, <1>3, <1>5 DEF Put
<1> HIDE DEF u
<1>7. IsGroup(new)
  <2>1. IsFiniteSet(DOMAIN u)
    BY <1>3, <1>6, FS_AddElement
  <2> QED
    BY <1>2, <1>3, <1>4, <1>6, <2>1 DEF IsGroup
<1> HIDE DEF id
<1>8. Groups(Put(gs, id, new), w)
  BY <1>7 DEF Groups, Put, id
<1> QED
  BY <1>1, <1>8

LEMMA GroupsMade ==
  ASSUME NEW w \in Waits, NEW gs \in Groupings[w]
  PROVE  Groups(gs, w)
<1> DEFINE n == Cardinality(DOMAIN w)
<1>1. PICK order \in SetToSeqs(DOMAIN w) : gs = Grouped(w, order)
  BY DEF Groupings
<1>2. n \in Nat
  BY WaitsAssumption, FS_CardinalityType
<1>3. DOMAIN order = 1 .. n /\ \A i \in 1 .. n : order[i] \in DOMAIN w
  BY <1>1 DEF SetToSeqs
<1> HIDE DEF n
<1>4. PICK h : Joins(h, w, order, n) /\ Grouped(w, order) = h[n]
  BY <1>2, <1>3, GroupedPasses
<1> DEFINE P == {k \in Nat : k <= n => Groups(h[k], w)}
<1>5. 0 \in P
  <2>1. h[0] = <<>>
    BY <1>4 DEF Joins
  <2>2. DOMAIN <<>> = {}
    OBVIOUS
  <2>3. Groups(h[0], w)
    BY <2>1, <2>2 DEF Groups
  <2> QED
    BY <2>3
<1>6. ASSUME NEW k \in P PROVE k + 1 \in P
  <2> SUFFICES ASSUME k + 1 <= n PROVE Groups(h[k + 1], w)
    OBVIOUS
  <2>1. k \in Nat /\ Groups(h[k], w) /\ k + 1 \in 1 .. n /\ (k + 1) - 1 = k
    BY <1>2
  <2>2. h[k + 1] = Joined(h[k], order[k + 1], w[order[k + 1]])
    <3>1. h[k + 1] = Joined(h[(k + 1) - 1], order[k + 1], w[order[k + 1]])
      BY <1>4, <2>1 DEF Joins
    <3> QED
      BY <2>1, <3>1
  <2>3. order[k + 1] \in DOMAIN w
    BY <1>3, <2>1
  <2> QED
    BY <2>1, <2>2, <2>3, JoinedGroups
<1>7. P \in SUBSET Nat
  OBVIOUS
<1> HIDE DEF P
<1>8. n \in P
  BY <1>2, <1>5, <1>6, <1>7, NatInductive
<1> QED
  BY <1>1, <1>2, <1>4, <1>8 DEF P

LockSampleOK(s) ==
  /\ s.id \in MapKey /\ s.pid # 0 /\ s.tid # 0
  /\ s.total \in Int /\ s.ratio \in Int
  /\ s.futex => s.address # 0

LEMMA SamplesMade ==
  ASSUME NEW w \in Waits, NEW gs \in Groupings[w], NEW t, NEW blocking,
         NEW kept \in Kept(Candidates(LockSamplesOf(gs, t, Period), blocking))
  PROVE  IsFiniteSet(kept) /\ \A s \in kept : LockSampleOK(s)
<1> DEFINE all == LockSamplesOf(gs, t, Period)
<1>1. Groups(gs, w)
  BY GroupsMade
<1>2. kept \in SUBSET all
  BY DEF Kept, Candidates
<1>3. IsFiniteSet(DOMAIN gs)
  <2> DEFINE ids == {[j \in DOMAIN w |-> identityOfLock(j)][k] : k \in DOMAIN w}
  <2>1. IsFiniteSet(ids)
    BY WaitsAssumption, ImageFinite
  <2>2. DOMAIN gs \in SUBSET ids
    BY <1>1 DEF Groups
  <2> HIDE DEF ids
  <2> QED
    BY <2>1, <2>2, FS_Subset
<1>4. IsFiniteSet(all)
  <2> DEFINE f == [id \in DOMAIN gs |-> SampleOf(id, gs[id], t, Period)]
  <2>1. all = {f[id] : id \in DOMAIN gs}
    BY DEF LockSamplesOf
  <2> HIDE DEF f, all
  <2> QED
    BY <1>3, <2>1, ImageFinite
<1>5. ASSUME NEW s \in all PROVE LockSampleOK(s)
  <2>1. PICK id \in DOMAIN gs : s = SampleOf(id, gs[id], t, Period)
    BY DEF LockSamplesOf
  <2>2. IsGroup(gs[id])
    BY <1>1 DEF Groups
  <2>3. PICK k \in DOMAIN w : id = identityOfLock(k)
    BY <1>1 DEF Groups
  <2>4. /\ s.id = id /\ s.pid = id[2] /\ s.tid = TopWaiter(gs[id].waiters)
        /\ s.address = id[3] /\ s.futex = (id[3] # 0)
        /\ s.total = gs[id].total /\ s.ratio = Ratio(gs[id].total, Period)
    BY <2>1 DEF SampleOf
  <2>5. id[2] = k.pid /\ k.pid # 0 /\ id \in MapKey
    BY <2>3, WaitsAssumption DEF identityOfLock
  <2>6. TopWaiter(gs[id].waiters) \in Nat \ {0}
    BY <2>2, TopWaits DEF IsGroup
  <2>7. gs[id].total \in Int /\ Ratio(gs[id].total, Period) \in Int
    BY <2>2, PipelineAssumption, AggregatorAssumption DEF Ratio, IsGroup
  <2> QED
    BY <2>4, <2>5, <2>6, <2>7 DEF LockSampleOK
<1> HIDE DEF all
<1> QED
  BY <1>2, <1>4, <1>5, FS_Subset

----------------------------------------------------------------------------
(* Windows and the reports of a window.                                    *)

\* Each window lasts a period, and none begins before the last one has ended.
Ordered(s, e, n) ==
  /\ IsSeq(s) /\ IsSeq(e) /\ Len(s) = n /\ Len(e) = n
  /\ \A i \in 1 .. n : s[i] \in Int /\ e[i] = s[i] + Period
  /\ \A i, j \in 1 .. n : i < j => e[i] <= s[j]

\* How many windows a report of this kind reaches back.
Back(code) == IF code = "mem.oom_victim" THEN 1 ELSE SustainTicks

\* r is about the windows up to n.
Dated(r, s, e, n) ==
  Back(r.code) <= n /\ r.end = e[n] /\ r.start = s[n - Back(r.code) + 1]

Issued(r, s, e, n) ==
  /\ Fresh(r) /\ Dated(r, s, e, n)
  /\ ValidateAnomalyReport(r) /\ r.code \in CodesOf(scenario)

PipeInv ==
  /\ StreakInv
  /\ Ordered(start, end, Len(hot))
  /\ AggInv(agg, added)
  /\ \A r \in added : \E n \in 1 .. Len(hot) : Dated(r, start, end, n)
  /\ \A r \in added : ValidateAnomalyReport(r) /\ r.code \in CodesOf(scenario)

LEMMA PeriodPositive == Period \in Nat /\ Period > 0 /\ Tolerance \in Nat
BY PipelineAssumption, AggregatorAssumption

LEMMA BackPositive == \A code : Back(code) \in Nat /\ Back(code) > 0
BY SustainPositive DEF Back

\* What the next window leaves of the earlier ones.
Extends(s2, s, n) == \A i \in 1 .. n : s2[i] = s[i]

LEMMA WindowOrdered ==
  ASSUME NEW n \in Nat, NEW s, NEW e, Ordered(s, e, n), NEW gap \in Nat,
         NEW from, from = (IF e = <<>> THEN 0 ELSE Last(e) + gap),
         NEW s2, s2 = Append(s, from), NEW e2, e2 = Append(e, from + Period)
  PROVE  Ordered(s2, e2, n + 1) /\ Extends(s2, s, n) /\ Extends(e2, e, n)
<1>1. IsAppended(s2, s, from) /\ IsAppended(e2, e, from + Period)
  BY AppendTo DEF Ordered
<1>2. /\ IsSeq(s2) /\ IsSeq(e2) /\ Len(s2) = n + 1 /\ Len(e2) = n + 1
      /\ s2[n + 1] = from /\ e2[n + 1] = from + Period
      /\ \A i \in 1 .. n : s2[i] = s[i] /\ e2[i] = e[i]
  BY <1>1 DEF IsAppended, Ordered
<1>3. \A i \in 1 .. n : s[i] \in Int /\ e[i] \in Int /\ e[i] = s[i] + Period /\ s[i] < e[i]
  BY PeriodPositive DEF Ordered
<1>4. from \in Int /\ \A i \in 1 .. n : e[i] <= from
  <2>1. CASE n = 0
    <3>1. Len(e) = 0 /\ IsSeq(e)
      BY <2>1 DEF Ordered
    <3>2. DOMAIN e = {}
      BY <3>1, SeqLen
    <3>3. e = <<>>
      <4>1. e = [i \in 1 .. 0 |-> e[i]]
        BY <3>1, SeqLen
      <4>2. \A i \in 1 .. 0 : FALSE
        OBVIOUS
      <4> QED
        BY <4>1, <4>2
    <3>4. \A i \in 1 .. n : FALSE
      BY <2>1
    <3> QED
      BY <3>3, <3>4
  <2>2. CASE n # 0
    <3>1. n \in 1 .. n /\ Last(e) = e[n]
      BY <2>2 DEF Ordered, Last
    <3>2. e # <<>>
      BY <2>2 DEF Ordered
    <3>3. from = e[n] + gap /\ e[n] \in Int
      BY <1>3, <3>1, <3>2
    <3>4. ASSUME NEW i \in 1 .. n PROVE e[i] <= e[n]
      <4>1. CASE i = n
        BY <1>3, <4>1
      <4>2. CASE i # n
        <5>1. i < n /\ e[i] <= s[n]
          BY <3>1, <4>2 DEF Ordered
        <5> QED
          BY <1>3, <3>1, <5>1
      <4> QED
        BY <4>1, <4>2
    <3> QED
      BY <1>3, <3>3, <3>4
  <2> QED
    BY <2>1, <2>2
<1>5. ASSUME NEW i \in 1 .. (n + 1) PROVE s2[i] \in Int /\ e2[i] = s2[i] + Period
  <2>1. CASE i = n + 1
    BY <1>2, <1>4, <2>1
  <2>2. CASE i # n + 1
    <3>1. i \in 1 .. n
      BY <2>2
    <3> QED
      BY <1>2, <1>3, <3>1
  <2> QED
    BY <2>1, <2>2
<1>6. ASSUME NEW i \in 1 .. (n + 1), NEW j \in 1 .. (n + 1), i < j PROVE e2[i] <= s2[j]
  <2>1. i \in 1 .. n
    BY <1>6
  <2>2. CASE j = n + 1
    BY <1>2, <1>4, <2>1, <2>2
  <2>3. CASE j # n + 1
    <3>1. j \in 1 .. n
      BY <2>3
    <3> QED
      BY <1>2, <1>6, <2>1, <3>1 DEF Ordered
  <2> QED
    BY <2>2, <2>3
<1>7. Ordered(s2, e2, n + 1)
  BY <1>2, <1>5, <1>6 DEF Ordered
<1> QED
  BY <1>2, <1>7 DEF Extends

(* Windows follow one another, and so do the reports of one kind. *)
LEMMA Starts ==
  ASSUME NEW n \in Nat, NEW s, NEW e, Ordered(s, e, n), NEW i \in 1 .. n, NEW j \in 1 .. n, i < j
  PROVE  s[i] < s[j] /\ e[i] < e[j]
<1>1. s[i] \in Int /\ s[j] \in Int /\ e[i] = s[i] + Period /\ e[j] = s[j] + Period /\ e[i] <= s[j]
  BY DEF Ordered
<1> QED
  BY <1>1, PeriodPositive

LEMMA DatedApart ==
  ASSUME NEW n \in Nat, NEW s, NEW e, Ordered(s, e, n), NEW i \in 1 .. n, NEW j \in 1 .. n, i < j,
         NEW q, NEW r, q.code = r.code, Dated(q, s, e, i), Dated(r, s, e, j)
  PROVE  q.start < r.start /\ q.end < r.end
<1> DEFINE b == Back(r.code)
<1>1. b \in Nat /\ b > 0 /\ b <= i
  BY BackPositive DEF Dated
<1>2. q.start = s[i - b + 1] /\ r.start = s[j - b + 1] /\ q.end = e[i] /\ r.end = e[j]
  BY DEF Dated
<1> HIDE DEF b
<1>3. i - b + 1 \in 1 .. n /\ j - b + 1 \in 1 .. n /\ i - b + 1 < j - b + 1
  BY <1>1
<1> QED
  BY <1>2, <1>3, Starts

\* A verdict, an object and metrics that may make a report of the scenario.
Sound(v, object, m) ==
  /\ v.code \in CodesOf(scenario) /\ v.confidence \in 0 .. 100
  /\ v.code \in CpuCodes \cup IoCodes \cup MemCodes \cup LockCodes \cup CallCodes
  /\ ValidObject(v.code, object)
  /\ v.code \in LockCodes => object.tid # 0
  /\ m.peak \in Int /\ m.total \in Int

Reaches(w, b, s, e, n) == b <= n /\ w.start = s[n - b + 1] /\ w.end = e[n]

(* A report as every builder makes it. *)
LEMMA Built ==
  ASSUME NEW n \in Nat, NEW s, NEW e, Ordered(s, e, n),
         NEW v, NEW object, NEW m, Sound(v, object, m), NEW w, Reaches(w, Back(v.code), s, e, n),
         NEW r, r = finalizeReport(AnomalyReport(v, object, w, m))
  PROVE  Issued(r, s, e, n)
<1> DEFINE q == AnomalyReport(v, object, w, m)
           code == v.code
           first == n - Back(code) + 1
<1>0. /\ Back(code) <= n /\ w.start = s[first] /\ w.end = e[n]
      /\ code \in CodesOf(scenario) /\ v.confidence \in 0 .. 100
      /\ code \in CpuCodes \cup IoCodes \cup MemCodes \cup LockCodes \cup CallCodes
      /\ ValidObject(code, object)
      /\ code \in LockCodes => object.tid # 0
      /\ m.peak \in Int /\ m.total \in Int
  BY DEF Sound, Reaches
<1> HIDE DEF code
<1>1. first \in 1 .. n /\ n \in 1 .. n
  BY <1>0, BackPositive
<1>2. /\ s[first] \in Int /\ s[n] \in Int /\ e[n] \in Int /\ s[first] < e[n]
  <2>1. /\ s[first] \in Int /\ s[n] \in Int /\ e[n] = s[n] + Period
        /\ e[first] = s[first] + Period
    BY <1>1 DEF Ordered
  <2>2. CASE first = n
    BY <2>1, <2>2, PeriodPositive
  <2>3. CASE first # n
    <3>1. s[first] < s[n]
      BY <1>1, <2>3, Starts
    <3> QED
      BY <2>1, <3>1, PeriodPositive
  <2> QED
    BY <2>2, <2>3
<1>3. /\ q = [f \in Fields |-> q[f]]
      /\ q.code = code /\ q.confidence = v.confidence /\ q.object = object
      /\ q.start = w.start /\ q.end = w.end /\ q.peak = m.peak /\ q.total = m.total
      /\ q.merged = 1 /\ q.tids = 1
  BY DEF AnomalyReport, Fields, code
<1> HIDE DEF q
<1>4. r = [q EXCEPT !.elapsed = q.end - q.start]
  BY <1>0, <1>2, <1>3 DEF finalizeReport, q
<1>5. /\ r = [f \in Fields |-> r[f]]
      /\ r.code = code /\ r.confidence = v.confidence /\ r.object = object
      /\ r.start = w.start /\ r.end = w.end /\ r.elapsed = w.end - w.start
      /\ r.peak = m.peak /\ r.total = m.total /\ r.merged = 1 /\ r.tids = 1
  BY <1>3, <1>4 DEF Fields
<1>6. IsReport(r)
  BY <1>0, <1>2, <1>5 DEF IsReport
<1>7. Fresh(r)
  BY <1>0, <1>5, <1>6 DEF Fresh, isLockReport
<1>8. Dated(r, s, e, n)
  BY <1>0, <1>5 DEF Dated
<1>9. ValidateAnomalyReport(r)
  BY <1>0, <1>2, <1>5 DEF ValidateAnomalyReport
<1> QED
  BY <1>0, <1>5, <1>7, <1>8, <1>9 DEF Issued

(* What the detectors signal in a window. *)
SignalOf(g, n) ==
  g.last = n /\ g.first = n - SustainTicks + 1 /\ SustainTicks <= n

LEMMA SignalsAre ==
  ASSUME StreakInv, NEW active \in SUBSET MapKey, IsFiniteSet(active),
         NEW pressure \in BOOLEAN, NEW oom \in BOOLEAN, Observe(active, pressure, oom)
  PROVE  /\ IsFiniteSet(signals') /\ StreakInv'
         /\ \A g \in signals' : /\ SignalOf(g, window)
                                /\ g.key \in active \/ MemFires(pressure, oom)
         /\ window \in Nat /\ Len(hot') = window /\ Len(hot) \in Nat /\ window = Len(hot) + 1
<1>1. StreakInv'
  BY StreakNext DEF Next
<1>2. Len(hot') = window /\ window \in Nat /\ Len(hot) \in Nat
  <2>1. hot \in Seq(SUBSET Key)
    BY DEF StreakInv, TypeOK
  <2>2. active \cup (IF pressure /\ ~oom THEN {Mem} ELSE {}) \in SUBSET Key
    BY KeyTypes
  <2>3. hot' = Append(hot, active \cup (IF pressure /\ ~oom THEN {Mem} ELSE {}))
    BY DEF Observe
  <2> QED
    BY <2>1, <2>2, <2>3, AppendProperties, LenProperties DEF window
<1>3. ASSUME NEW k \in Fires(active)
      PROVE  k \in active /\ SignalOf(Incident(k, firstSeen'[k], window), window)
  <2>1. k \in active /\ k \in MapKey
    BY DEF Fires
  <2>2. /\ counters'[k] = SustainTicks
        /\ Stretch(k, hot', counters'[k], firstSeen'[k])
    BY <2>1, MapStep
  <2>3. SustainTicks <= window /\ firstSeen'[k] = window - SustainTicks + 1
    BY <1>2, <2>2, SustainPositive DEF Stretch
  <2> QED
    BY <2>1, <2>3 DEF SignalOf, Incident
<1>4. ASSUME MemFires(pressure, oom)
      PROVE  SignalOf(Incident(Mem, memFirstSeen', window), window)
  <2>1. count' = SustainTicks /\ Stretch(Mem, hot', count', memFirstSeen')
    BY <1>4, MemStep
  <2>2. SustainTicks <= window /\ memFirstSeen' = window - SustainTicks + 1
    BY <1>2, <2>1, SustainPositive DEF Stretch
  <2> QED
    BY <2>2 DEF SignalOf, Incident
<1> DEFINE byMap == {Incident(k, firstSeen'[k], window) : k \in Fires(active)}
           byMem == IF MemFires(pressure, oom) THEN {Incident(Mem, memFirstSeen', window)} ELSE {}
<1>5. signals' = byMap \cup byMem
  BY DEF Observe
<1>6. ASSUME NEW g \in signals'
      PROVE  SignalOf(g, window) /\ (g.key \in active \/ MemFires(pressure, oom))
  <2>1. CASE g \in byMap
    <3>1. PICK k \in Fires(active) : g = Incident(k, firstSeen'[k], window)
      BY <2>1
    <3>2. g.key = k
      BY <3>1 DEF Incident
    <3> QED
      BY <1>3, <3>1, <3>2
  <2>2. CASE g \in byMem
    BY <1>4, <2>2
  <2> QED
    BY <1>5, <2>1, <2>2
<1>7. IsFiniteSet(signals')
  <2>1. IsFiniteSet(Fires(active))
    <3>1. Fires(active) \in SUBSET active
      BY DEF Fires
    <3> QED
      BY <3>1, FS_Subset
  <2> DEFINE f == [k \in Fires(active) |-> Incident(k, firstSeen'[k], window)]
  <2>2. byMap = {f[k] : k \in Fires(active)}
    OBVIOUS
  <2> HIDE DEF f, byMap
  <2>3. IsFiniteSet(byMap)
    BY <2>1, <2>2, ImageFinite
  <2>4. IsFiniteSet(byMem)
    BY FS_EmptySet, FS_Singleton
  <2> HIDE DEF byMem
  <2> QED
    BY <1>5, <2>3, <2>4, FS_Union
<1> QED
  BY <1>1, <1>2, <1>6, <1>7 DEF window

(* The window of a tick. *)
LEMMA TickTimes ==
  ASSUME PipeInv, NEW gap \in 0 .. Tolerance, NEW active \in SUBSET MapKey, IsFiniteSet(active),
         NEW pressure \in BOOLEAN, NEW oom \in BOOLEAN, Tick(gap, active, pressure, oom)
  PROVE  /\ Ordered(start', end', window)
         /\ Extends(start', start, Len(hot)) /\ Extends(end', end, Len(hot))
<1>1. Len(hot) \in Nat /\ window = Len(hot) + 1
  BY SignalsAre DEF Tick, PipeInv
<1>2. gap \in Nat
  BY PeriodPositive
<1>3. Ordered(start, end, Len(hot))
  BY DEF PipeInv
<1> DEFINE from == IF end = <<>> THEN 0 ELSE Last(end) + gap
<1>4. start' = Append(start, from) /\ end' = Append(end, from + Period)
  BY DEF Tick, NextWindow
<1>5. from = IF end = <<>> THEN 0 ELSE Last(end) + gap
  OBVIOUS
<1> HIDE DEF from
<1> QED
  BY <1>1, <1>2, <1>3, <1>4, <1>5, WindowOrdered

(* A window whose reports are issued as they should be keeps the invariant. *)
LEMMA TickKeeps ==
  ASSUME PipeInv, NEW gap \in 0 .. Tolerance, NEW active \in SUBSET MapKey, IsFiniteSet(active),
         NEW pressure \in BOOLEAN, NEW oom \in BOOLEAN, Tick(gap, active, pressure, oom),
         NEW R, IsFiniteSet(R), \A r \in R : Issued(r, start', end', window),
         \E order \in SetToSeqs(R) : AddAll(order)
  PROVE  PipeInv'
<1> DEFINE n == Len(hot)
<1>1. /\ StreakInv' /\ n \in Nat /\ window = n + 1 /\ Len(hot') = n + 1
  BY SignalsAre DEF Tick, PipeInv
<1>2. /\ Ordered(start', end', n + 1)
      /\ \A i \in 1 .. n : start'[i] = start[i] /\ end'[i] = end[i]
  BY <1>1, TickTimes DEF Extends
<1>3. scenario' = scenario
  BY DEF Tick, flags
<1>4. PICK order \in SetToSeqs(R) : agg' = FoldLeft(Added, agg, order) /\ added' = added \cup ToSet(order)
  BY DEF AddAll
<1>5. ASSUME NEW q \in added PROVE \E i \in 1 .. n : Dated(q, start', end', i)
  <2>1. PICK i \in 1 .. n : Dated(q, start, end, i)
    BY DEF PipeInv
  <2>2. Back(q.code) \in Nat /\ Back(q.code) > 0 /\ Back(q.code) <= i
    BY <2>1, BackPositive DEF Dated
  <2>3. i - Back(q.code) + 1 \in 1 .. n
    BY <1>1, <2>2
  <2>4. Dated(q, start', end', i)
    BY <1>2, <2>1, <2>3 DEF Dated
  <2> QED
    BY <2>4
<1>6. ASSUME NEW r \in R, NEW q \in added, q.code = r.code
      PROVE  q.start < r.start /\ q.end < r.end
  <2>1. PICK i \in 1 .. n : Dated(q, start', end', i)
    BY <1>5
  <2>2. Dated(r, start', end', n + 1)
    BY <1>1 DEF Issued
  <2>3. n + 1 \in Nat /\ i \in 1 .. (n + 1) /\ n + 1 \in 1 .. (n + 1) /\ i < n + 1
    BY <1>1
  <2> QED
    BY <1>2, <1>6, <2>1, <2>2, <2>3, DatedApart
<1>7. ASSUME NEW r \in R PROVE Fresh(r) /\ r \notin added /\ Follows(r, added)
  <2>1. Fresh(r)
    BY DEF Issued
  <2>2. r \notin added
    <3>1. r.start \in Int
      BY <2>1 DEF Fresh, IsReport
    <3>2. ~(r.start < r.start)
      BY <3>1
    <3> QED
      BY <1>6, <3>2
  <2>3. Follows(r, added)
    BY <1>6, KeyCode DEF Follows
  <2> QED
    BY <2>1, <2>2, <2>3
<1>8. Together(R)
  <2> SUFFICES ASSUME NEW r \in R, NEW q \in R, aggregateKey(r) = aggregateKey(q)
               PROVE  r.start = q.start /\ r.end = q.end
    BY DEF Together
  <2>1. r.code = q.code
    BY KeyCode
  <2>2. Dated(r, start', end', n + 1) /\ Dated(q, start', end', n + 1)
    BY <1>1 DEF Issued
  <2> QED
    BY <2>1, <2>2 DEF Dated
<1>9. AggInv(agg', added') /\ ToSet(order) \in SUBSET R
  <2>1. AggInv(agg, added)
    BY DEF PipeInv
  <2> QED
    BY <1>4, <1>7, <1>8, <2>1, AddAllInv
<1>10. AggInv(agg, added)'
  BY <1>9 DEF AggInv, Gathered, Indexed, Tallied, Accounted, Apart, Placed, LastOf
<1>11. ASSUME NEW r \in added' PROVE \E i \in 1 .. (n + 1) : Dated(r, start', end', i)
  <2>1. CASE r \in added
    <3>1. PICK i \in 1 .. n : Dated(r, start', end', i)
      BY <1>5, <2>1
    <3>2. i \in 1 .. (n + 1)
      BY <1>1
    <3> QED
      BY <3>1, <3>2
  <2>2. CASE r \in R
    <3>1. Dated(r, start', end', n + 1) /\ n + 1 \in 1 .. (n + 1)
      BY <1>1, <2>2 DEF Issued
    <3> QED
      BY <3>1
  <2> QED
    BY <1>4, <1>9, <2>1, <2>2
<1>12. ASSUME NEW r \in added' PROVE ValidateAnomalyReport(r) /\ r.code \in CodesOf(scenario)
  BY <1>4, <1>9 DEF Issued, PipeInv
<1> HIDE DEF n
<1> QED
  BY <1>1, <1>2, <1>3, <1>10, <1>11, <1>12 DEF PipeInv

----------------------------------------------------------------------------
(* Each scenario.                                                          *)

(* What Extend makes of a signal. *)
LEMMA SpanOf ==
  ASSUME NEW g, NEW n, SignalOf(g, n)
  PROVE  Reaches(Span(g), SustainTicks, start', end', n)
BY DEF Span, SignalOf, Reaches

\* The reports the handler is given, as a set.
Finalized(reports) == {finalizeReport(r) : r \in reports}

LEMMA FinalizedFinite ==
  ASSUME NEW reports, IsFiniteSet(reports)
  PROVE  IsFiniteSet(Finalized(reports))
<1> DEFINE f == [r \in reports |-> finalizeReport(r)]
<1>1. Finalized(reports) = {f[r] : r \in reports}
  BY DEF Finalized
<1> HIDE DEF f
<1> QED
  BY <1>1, ImageFinite

LEMMA HandedOn ==
  ASSUME PipeInv, NEW gap \in 0 .. Tolerance, NEW active \in SUBSET MapKey, IsFiniteSet(active),
         NEW pressure \in BOOLEAN, NEW oom \in BOOLEAN, Tick(gap, active, pressure, oom),
         NEW reports, IsFiniteSet(reports), HandOn(reports),
         \A r \in reports : Issued(finalizeReport(r), start', end', window)
  PROVE  PipeInv'
<1> DEFINE R == Finalized(reports)
<1>1. IsFiniteSet(R)
  BY FinalizedFinite
<1>2. \A r \in R : Issued(r, start', end', window)
  BY DEF Finalized
<1>3. \E order \in SetToSeqs(R) : AddAll(order)
  BY DEF HandOn, Finalized
<1> HIDE DEF R
<1> QED
  BY <1>1, <1>2, <1>3, TickKeeps

(* The signals of a window in which memory is not looked at. *)
LEMMA MapSignals ==
  ASSUME PipeInv, NEW gap \in 0 .. Tolerance, NEW active \in SUBSET MapKey, IsFiniteSet(active),
         Tick(gap, active, FALSE, FALSE)
  PROVE  /\ IsFiniteSet(signals') /\ window \in Nat /\ Ordered(start', end', window)
         /\ \A g \in signals' : /\ g.key \in active
                                /\ Reaches(Span(g), SustainTicks, start', end', window)
<1>1. Observe(active, FALSE, FALSE) /\ StreakInv
  BY DEF Tick, PipeInv
<1>2. ~MemFires(FALSE, FALSE)
  BY DEF MemFires, Restarts
<1>3. /\ IsFiniteSet(signals') /\ window \in Nat
      /\ \A g \in signals' : SignalOf(g, window) /\ g.key \in active
  BY <1>1, <1>2, SignalsAre
<1>4. Ordered(start', end', window)
  BY TickTimes
<1> QED
  BY <1>3, <1>4, SpanOf

LEMMA ReportsHanded ==
  ASSUME PipeInv, NEW gap \in 0 .. Tolerance, NEW active \in SUBSET MapKey, IsFiniteSet(active),
         Tick(gap, active, FALSE, FALSE), NEW f, HandOn({f[g] : g \in signals'}),
         \A g \in signals' : Issued(finalizeReport(f[g]), start', end', window)
  PROVE  PipeInv'
<1> DEFINE reports == {f[g] : g \in signals'}
<1>1. IsFiniteSet(signals')
  BY MapSignals
<1>2. IsFiniteSet(reports)
  BY <1>1, ImageFinite
<1>3. HandOn(reports) /\ \A r \in reports : Issued(finalizeReport(r), start', end', window)
  OBVIOUS
<1> HIDE DEF reports
<1> QED
  BY <1>2, <1>3, HandedOn

LEMMA CpuStep == ASSUME PipeInv, NEW samples \in CpuPolls, CpuTick(samples) PROVE PipeInv'
<1> DEFINE active == {CpuKey(s) : s \in {t \in samples : HotCpu(t)}}
           pick(g) == CHOOSE s \in samples : CpuKey(s) = g.key
           reports == {BuildCPUReport(pick(g), Span(g)) : g \in signals'}
           f == [g \in signals' |-> BuildCPUReport(pick(g), Span(g))]
<1>1. Tick(0, active, FALSE, FALSE) /\ HandOn(reports) /\ scenario = "cpu"
  BY DEF CpuTick, Runs
<1>2. /\ IsFiniteSet(samples) /\ 0 \in 0 .. Tolerance
      /\ \A s \in samples : CpuKey(s) \in MapKey /\ s.pid # 0 /\ s.tid # 0
  <2>1. 0 \in 0 .. Tolerance
    BY PeriodPositive
  <2>2. IsFiniteSet(samples) /\ \A s \in samples : CpuKey(s) \in MapKey /\ s.pid # 0 /\ s.tid # 0
    BY PollsAssumption
  <2> QED
    BY <2>1, <2>2
<1>3. active \in SUBSET MapKey /\ IsFiniteSet(active)
  <2> DEFINE h == [s \in samples |-> CpuKey(s)]
             all == {h[s] : s \in samples}
  <2>1. IsFiniteSet(all)
    BY <1>2, ImageFinite
  <2>2. active \in SUBSET all /\ active \in SUBSET MapKey
    BY <1>2
  <2> HIDE DEF all, active
  <2> QED
    BY <2>1, <2>2, FS_Subset
<1>4. \A g \in signals' : g.key \in active => pick(g) \in samples
  OBVIOUS
<1> HIDE DEF active
<1>5. /\ IsFiniteSet(signals') /\ window \in Nat /\ Ordered(start', end', window)
      /\ \A g \in signals' : /\ g.key \in active
                             /\ Reaches(Span(g), SustainTicks, start', end', window)
  BY <1>1, <1>2, <1>3, MapSignals
<1>6. ASSUME NEW g \in signals' PROVE Issued(finalizeReport(f[g]), start', end', window)
  <2> DEFINE s == pick(g)
             v == classifyCPU(s)
             object == Object(s.pid, s.tid, "", 0, "process")
             metrics == NoMetrics
             r == finalizeReport(f[g])
  <2>1. s.pid # 0 /\ s.tid # 0
    BY <1>2, <1>4, <1>5
  <2> HIDE DEF pick, s
  <2>2. v.code \in CpuCodes /\ v.confidence \in 0 .. 100
    BY DEF classifyCPU, Verdict, CpuCodes
  <2>3. r = finalizeReport(AnomalyReport(v, object, Span(g), metrics))
    BY DEF BuildCPUReport, s
  <2>4. metrics.peak \in Int /\ metrics.total \in Int
    BY DEF NoMetrics, Metrics
  <2>5. Sound(v, object, metrics)
    <3> HIDE DEF v, metrics
    <3> QED
      BY <1>1, <2>1, <2>2, <2>4 DEF Sound, ValidObject, Object, CodesOf,
                                    CpuCodes, IoCodes, CallCodes, LockCodes
  <2>6. Reaches(Span(g), Back(v.code), start', end', window)
    <3>1. Back(v.code) = SustainTicks
      BY <2>2 DEF Back, CpuCodes
    <3> QED
      BY <1>5, <3>1
  <2> HIDE DEF v, object, metrics, r
  <2>7. Issued(r, start', end', window)
    BY <1>5, <2>3, <2>5, <2>6, Built
  <2> QED
    BY <2>7 DEF r
<1>7. reports = {f[g] : g \in signals'}
  OBVIOUS
<1> HIDE DEF f, reports
<1> QED
  BY <1>1, <1>2, <1>3, <1>6, <1>7, ReportsHanded

LEMMA IoStep == ASSUME PipeInv, NEW samples \in IoPolls, IoTick(samples) PROVE PipeInv'
<1> DEFINE active == {IoKey(s) : s \in {t \in samples : HotIo(t)}}
           pick(g) == CHOOSE s \in samples : IoKey(s) = g.key
           reports == {BuildIOReport(pick(g), Span(g)) : g \in signals'}
           f == [g \in signals' |-> BuildIOReport(pick(g), Span(g))]
<1>1. Tick(0, active, FALSE, FALSE) /\ HandOn(reports) /\ scenario = "io"
  BY DEF IoTick, Runs
<1>2. /\ IsFiniteSet(samples) /\ 0 \in 0 .. Tolerance
      /\ \A s \in samples : IoKey(s) \in MapKey /\ s.device # ""
  <2>1. 0 \in 0 .. Tolerance
    BY PeriodPositive
  <2>2. IsFiniteSet(samples) /\ \A s \in samples : IoKey(s) \in MapKey /\ s.device # ""
    BY PollsAssumption
  <2> QED
    BY <2>1, <2>2
<1>3. active \in SUBSET MapKey /\ IsFiniteSet(active)
  <2> DEFINE h == [s \in samples |-> IoKey(s)]
             all == {h[s] : s \in samples}
  <2>1. IsFiniteSet(all)
    BY <1>2, ImageFinite
  <2>2. active \in SUBSET all /\ active \in SUBSET MapKey
    BY <1>2
  <2> HIDE DEF all, active
  <2> QED
    BY <2>1, <2>2, FS_Subset
<1>4. \A g \in signals' : g.key \in active => pick(g) \in samples
  OBVIOUS
<1> HIDE DEF active
<1>5. /\ IsFiniteSet(signals') /\ window \in Nat /\ Ordered(start', end', window)
      /\ \A g \in signals' : /\ g.key \in active
                             /\ Reaches(Span(g), SustainTicks, start', end', window)
  BY <1>1, <1>2, <1>3, MapSignals
<1>6. ASSUME NEW g \in signals' PROVE Issued(finalizeReport(f[g]), start', end', window)
  <2> DEFINE s == pick(g)
             v == classifyIO(s)
             object == Object(0, 0, s.device, 0, "")
             metrics == NoMetrics
             r == finalizeReport(f[g])
  <2>1. s.device # ""
    BY <1>2, <1>4, <1>5
  <2> HIDE DEF pick, s
  <2>2. v.code \in IoCodes /\ v.confidence \in 0 .. 100
    BY DEF classifyIO, Verdict, IoCodes
  <2>3. r = finalizeReport(AnomalyReport(v, object, Span(g), metrics))
    BY DEF BuildIOReport, s
  <2>4. metrics.peak \in Int /\ metrics.total \in Int
    BY DEF NoMetrics, Metrics
  <2>5. Sound(v, object, metrics)
    <3> HIDE DEF v, metrics
    <3> QED
      BY <1>1, <2>1, <2>2, <2>4 DEF Sound, ValidObject, Object, CodesOf,
                                    CpuCodes, IoCodes, CallCodes, LockCodes
  <2>6. Reaches(Span(g), Back(v.code), start', end', window)
    <3>1. Back(v.code) = SustainTicks
      BY <2>2 DEF Back, IoCodes
    <3> QED
      BY <1>5, <3>1
  <2> HIDE DEF v, object, metrics, r
  <2>7. Issued(r, start', end', window)
    BY <1>5, <2>3, <2>5, <2>6, Built
  <2> QED
    BY <2>7 DEF r
<1>7. reports = {f[g] : g \in signals'}
  OBVIOUS
<1> HIDE DEF f, reports
<1> QED
  BY <1>1, <1>2, <1>3, <1>6, <1>7, ReportsHanded

LEMMA CallStep ==
  ASSUME PipeInv, NEW gap \in 0 .. Tolerance, NEW samples \in CallPolls, CallTick(gap, samples)
  PROVE  PipeInv'
<1> DEFINE active == {CallKey(s) : s \in {t \in samples : HotCall(t)}}
           pick(g) == CHOOSE s \in samples : CallKey(s) = g.key
           reports == {BuildSyscallReport(pick(g), targeted, Span(g)) : g \in signals'}
           f == [g \in signals' |-> BuildSyscallReport(pick(g), targeted, Span(g))]
<1>1. Tick(gap, active, FALSE, FALSE) /\ HandOn(reports) /\ scenario = "syscall"
  BY DEF CallTick, Runs
<1>2. /\ IsFiniteSet(samples) /\ gap \in 0 .. Tolerance
      /\ \A s \in samples : CallKey(s) \in MapKey /\ s.pid # 0 /\ s.totalMs \in Nat /\ s.calls \in Nat
  BY PollsAssumption
<1>3. active \in SUBSET MapKey /\ IsFiniteSet(active)
  <2> DEFINE h == [s \in samples |-> CallKey(s)]
             all == {h[s] : s \in samples}
  <2>1. IsFiniteSet(all)
    BY <1>2, ImageFinite
  <2>2. active \in SUBSET all /\ active \in SUBSET MapKey
    BY <1>2
  <2> HIDE DEF all, active
  <2> QED
    BY <2>1, <2>2, FS_Subset
<1>4. \A g \in signals' : g.key \in active => pick(g) \in samples
  OBVIOUS
<1> HIDE DEF active
<1>5. /\ IsFiniteSet(signals') /\ window \in Nat /\ Ordered(start', end', window)
      /\ \A g \in signals' : /\ g.key \in active
                             /\ Reaches(Span(g), SustainTicks, start', end', window)
  BY <1>1, <1>2, <1>3, MapSignals
<1>6. ASSUME NEW g \in signals' PROVE Issued(finalizeReport(f[g]), start', end', window)
  <2> DEFINE s == pick(g)
             v == classifySyscall(s)
             object == Object(s.pid, 0, "", 0, IF targeted THEN "target_tree" ELSE "process")
             metrics == Metrics(s.call, 0, s.totalMs, s.calls)
             r == finalizeReport(f[g])
  <2>1. s.pid # 0 /\ s.totalMs \in Nat /\ s.calls \in Nat
    BY <1>2, <1>4, <1>5
  <2> HIDE DEF pick, s
  <2>2. v.code \in CallCodes /\ v.confidence \in 0 .. 100
    BY DEF classifySyscall, Verdict, CallCodes
  <2>3. r = finalizeReport(AnomalyReport(v, object, Span(g), metrics))
    BY DEF BuildSyscallReport, s
  <2>4. metrics.peak \in Int /\ metrics.total \in Int
    BY <2>1 DEF Metrics
  <2>5. Sound(v, object, metrics)
    <3> HIDE DEF v, metrics
    <3> QED
      BY <1>1, <2>1, <2>2, <2>4 DEF Sound, ValidObject, Object, CodesOf,
                                    CpuCodes, IoCodes, CallCodes, LockCodes
  <2>6. Reaches(Span(g), Back(v.code), start', end', window)
    <3>1. Back(v.code) = SustainTicks
      BY <2>2 DEF Back, CallCodes
    <3> QED
      BY <1>5, <3>1
  <2> HIDE DEF v, object, metrics, r
  <2>7. Issued(r, start', end', window)
    BY <1>5, <2>3, <2>5, <2>6, Built
  <2> QED
    BY <2>7 DEF r
<1>7. reports = {f[g] : g \in signals'}
  OBVIOUS
<1> HIDE DEF f, reports
<1> QED
  BY <1>1, <1>2, <1>3, <1>6, <1>7, ReportsHanded

LEMMA LockStep ==
  ASSUME PipeInv, NEW gap \in 0 .. Tolerance, NEW waits \in Waits, LockTick(gap, waits)
  PROVE  PipeInv'
<1>a. PICK groups \in Groupings[waits] :
        \E samples \in {Candidates(LockSamplesOf(groups, targeted, Period), includeBlocking)} :
          \E kept \in Kept(samples) :
            /\ \E active \in {{s.id : s \in {t \in kept : Contended(t)}}} :
                 Tick(gap, active, FALSE, FALSE)
            /\ HandOn({BuildLockReport(CHOOSE s \in kept : s.id = g.key, Span(g)) : g \in signals'})
  BY Zenon DEF LockTick
<1>0. \E kept \in Kept(Candidates(LockSamplesOf(groups, targeted, Period), includeBlocking)) :
        /\ Tick(gap, {s.id : s \in {t \in kept : Contended(t)}}, FALSE, FALSE)
        /\ HandOn({BuildLockReport(CHOOSE s \in kept : s.id = g.key, Span(g)) : g \in signals'})
  BY <1>a, Zenon
<1>1. PICK kept \in Kept(Candidates(LockSamplesOf(groups, targeted, Period), includeBlocking)) :
        /\ Tick(gap, {s.id : s \in {t \in kept : Contended(t)}}, FALSE, FALSE)
        /\ HandOn({BuildLockReport(CHOOSE s \in kept : s.id = g.key, Span(g)) : g \in signals'})
  BY <1>0
<1> DEFINE active == {s.id : s \in {t \in kept : Contended(t)}}
           pick(g) == CHOOSE s \in kept : s.id = g.key
           reports == {BuildLockReport(pick(g), Span(g)) : g \in signals'}
           f == [g \in signals' |-> BuildLockReport(pick(g), Span(g))]
<1>2. Tick(gap, active, FALSE, FALSE) /\ HandOn(reports) /\ scenario = "lock"
  BY <1>1 DEF LockTick, Runs
<1>3. IsFiniteSet(kept) /\ \A s \in kept : LockSampleOK(s)
  BY <1>1, SamplesMade
<1>4. active \in SUBSET MapKey /\ IsFiniteSet(active)
  <2> DEFINE h == [s \in kept |-> s.id]
             all == {h[s] : s \in kept}
  <2>1. IsFiniteSet(all)
    BY <1>3, ImageFinite
  <2>2. active \in SUBSET all /\ active \in SUBSET MapKey
    BY <1>3 DEF LockSampleOK
  <2> HIDE DEF all, active
  <2> QED
    BY <2>1, <2>2, FS_Subset
<1>5. \A g \in signals' : g.key \in active => pick(g) \in kept
  OBVIOUS
<1> HIDE DEF active
<1>6. /\ IsFiniteSet(signals') /\ window \in Nat /\ Ordered(start', end', window)
      /\ \A g \in signals' : /\ g.key \in active
                             /\ Reaches(Span(g), SustainTicks, start', end', window)
  BY <1>2, <1>4, MapSignals
<1>7. ASSUME NEW g \in signals' PROVE Issued(finalizeReport(f[g]), start', end', window)
  <2> DEFINE s == pick(g)
             v == classifyLock(s)
             object == Object(s.pid, s.tid, "", s.address,
                              IF s.targeted THEN "target_tree" ELSE "process")
             metrics == Metrics(0, s.stack, s.ratio, s.total)
             r == finalizeReport(f[g])
  <2>1. LockSampleOK(s)
    BY <1>3, <1>5, <1>6
  <2> HIDE DEF pick, s
  <2>2. /\ v.code \in LockCodes /\ v.confidence \in 0 .. 100
        /\ v.code = "lock.futex_contention" => s.futex
    BY DEF classifyLock, Verdict, LockCodes
  <2>3. r = finalizeReport(AnomalyReport(v, object, Span(g), metrics))
    BY DEF BuildLockReport, s
  <2>4. metrics.peak \in Int /\ metrics.total \in Int
    BY <2>1 DEF Metrics, LockSampleOK
  <2>5. s.pid # 0 /\ s.tid # 0 /\ (v.code = "lock.futex_contention" => s.address # 0)
    BY <2>1, <2>2 DEF LockSampleOK
  <2>6. Sound(v, object, metrics)
    <3> HIDE DEF v, metrics
    <3> QED
      BY <1>2, <2>2, <2>4, <2>5 DEF Sound, ValidObject, Object, CodesOf,
                                    CpuCodes, IoCodes, CallCodes, LockCodes
  <2>7. Reaches(Span(g), Back(v.code), start', end', window)
    <3>1. Back(v.code) = SustainTicks
      BY <2>2 DEF Back, LockCodes
    <3> QED
      BY <1>6, <3>1
  <2> HIDE DEF v, object, metrics, r
  <2>8. Issued(r, start', end', window)
    BY <1>6, <2>3, <2>6, <2>7, Built
  <2> QED
    BY <2>8 DEF r
<1>8. reports = {f[g] : g \in signals'}
  OBVIOUS
<1> HIDE DEF f, reports
<1> QED
  BY <1>2, <1>4, <1>7, <1>8, ReportsHanded

LEMMA MemReportMade ==
  ASSUME PipeInv, scenario = "mem", NEW oom \in BOOLEAN, NEW culprit, NEW tgt,
         window \in Nat, Ordered(start', end', window), NEW w,
         Reaches(w, IF oom THEN 1 ELSE SustainTicks, start', end', window)
  PROVE  Issued(finalizeReport(BuildMemReport(oom, culprit, tgt, w)), start', end', window)
<1> DEFINE v == classifyMem(oom, culprit)
           object == IF culprit.pid = 0 THEN Object(0, 0, "", 0, "system")
                     ELSE Object(culprit.pid, 0, "", 0, IF tgt THEN "target_tree" ELSE "process")
           r == finalizeReport(BuildMemReport(oom, culprit, tgt, w))
<1>1. /\ v.code = (IF oom THEN "mem.oom_victim" ELSE "mem.reclaim_pressure")
      /\ v.confidence \in 0 .. 100
  BY DEF classifyMem, Verdict
<1>2. r = finalizeReport(AnomalyReport(v, object, w, NoMetrics))
  BY DEF BuildMemReport
<1> HIDE DEF v, r
<1>3. v.code \in MemCodes /\ Back(v.code) = IF oom THEN 1 ELSE SustainTicks
  BY <1>1 DEF Back, MemCodes
<1>4. ValidObject(v.code, object)
  <2>1. CASE culprit.pid = 0
    BY <1>3, <2>1 DEF ValidObject, Object, CpuCodes, IoCodes, CallCodes, LockCodes, MemCodes
  <2>2. CASE culprit.pid # 0
    BY <1>3, <2>2 DEF ValidObject, Object, CpuCodes, IoCodes, CallCodes, LockCodes, MemCodes
  <2> QED
    BY <2>1, <2>2
<1>5. NoMetrics.peak \in Int /\ NoMetrics.total \in Int
  BY DEF NoMetrics, Metrics
<1> HIDE DEF object
<1>6. Sound(v, object, NoMetrics)
  BY <1>1, <1>3, <1>4, <1>5 DEF Sound, CodesOf, MemCodes, LockCodes
<1>7. Issued(r, start', end', window)
  BY <1>2, <1>3, <1>6, Built
<1> QED
  BY <1>7 DEF r

LEMMA MemoryStep ==
  ASSUME PipeInv, NEW gap \in 0 .. Tolerance, NEW gauge, NEW facts, MemTick(gap, gauge, facts)
  PROVE  PipeInv'
<1> DEFINE snap == MemSnapshot(gauge, facts, procPrimed', procPrimed, targeted)
           pressure == hasOrdinaryMemPressure(snap)
           shown == signals' \cup (IF snap.oom THEN {Incident(Mem, window, window)} ELSE {})
           reports == {BuildMemReport(snap.oom, Culprit(snap), targeted, Span(g)) : g \in shown}
<1>1. /\ Tick(gap, {}, pressure, snap.oom) /\ HandOn(reports) /\ scenario = "mem"
  BY DEF MemTick, Runs
<1>2. pressure \in BOOLEAN /\ snap.oom \in BOOLEAN
  <2>1. snap.oom = (Victims(facts) # {})
    BY DEF MemSnapshot
  <2> HIDE DEF snap
  <2> QED
    BY <2>1 DEF hasOrdinaryMemPressure
<1> HIDE DEF pressure, snap
<1>3. {} \in SUBSET MapKey /\ IsFiniteSet({}) /\ StreakInv
  BY FS_EmptySet DEF PipeInv
<1>4. Observe({}, pressure, snap.oom)
  BY <1>1 DEF Tick
<1>5. /\ IsFiniteSet(signals') /\ window \in Nat /\ window = Len(hot) + 1 /\ Len(hot) \in Nat
      /\ \A g \in signals' : SignalOf(g, window) /\ ~snap.oom
  <2>1. MemFires(pressure, snap.oom) => ~snap.oom
    BY DEF MemFires, Restarts
  <2> QED
    BY <1>2, <1>3, <1>4, <2>1, SignalsAre
<1>6. Ordered(start', end', window)
  BY <1>1, <1>2, <1>3, TickTimes
<1>7. ASSUME NEW g \in shown
      PROVE  Reaches(Span(g), IF snap.oom THEN 1 ELSE SustainTicks, start', end', window)
  <2>1. CASE g \in signals'
    BY <1>5, <2>1, SpanOf
  <2>2. CASE g \notin signals'
    <3>1. snap.oom /\ g = Incident(Mem, window, window)
      BY <2>2
    <3>2. 1 <= window /\ window - 1 + 1 = window
      BY <1>5
    <3> QED
      BY <3>1, <3>2 DEF Reaches, Span, Incident
  <2> QED
    BY <2>1, <2>2
<1>8. IsFiniteSet(reports)
  <2> DEFINE f == [g \in shown |-> BuildMemReport(snap.oom, Culprit(snap), targeted, Span(g))]
             extra == IF snap.oom THEN {Incident(Mem, window, window)} ELSE {}
  <2>1. reports = {f[g] : g \in shown}
    OBVIOUS
  <2>2. IsFiniteSet(extra)
    BY FS_EmptySet, FS_Singleton
  <2>3. shown = signals' \cup extra
    OBVIOUS
  <2> HIDE DEF f, reports, shown, extra
  <2>4. IsFiniteSet(shown)
    BY <1>5, <2>2, <2>3, FS_Union
  <2> QED
    BY <2>1, <2>4, ImageFinite
<1>9. \A r \in reports : Issued(finalizeReport(r), start', end', window)
  <2> HIDE DEF shown
  <2> QED
    BY <1>1, <1>2, <1>5, <1>6, <1>7, MemReportMade
<1> HIDE DEF reports
<1> QED
  BY <1>1, <1>2, <1>3, <1>8, <1>9, HandedOn

LEMMA PipeInit == PipelineInit => PipeInv
<1> SUFFICES ASSUME PipelineInit PROVE PipeInv
  OBVIOUS
<1>1. StreakInv /\ Len(hot) = 0
  BY StreakInit DEF PipelineInit, Init
<1>2. AggInv(agg, added) /\ added = {}
  BY NothingYet DEF PipelineInit, AggInit
<1>3. Ordered(start, end, 0)
  <2>1. IsSeq(<<>>) /\ Len(<<>>) = 0
    <3>1. AggInv(NewAggregator, {}) /\ NewAggregator.reports = <<>>
      BY NothingYet DEF NewAggregator
    <3> QED
      BY <3>1 DEF AggInv
  <2>2. \A i \in 1 .. 0 : FALSE
    OBVIOUS
  <2>3. start = <<>> /\ end = <<>>
    BY DEF PipelineInit
  <2> QED
    BY <2>1, <2>2, <2>3 DEF Ordered
<1> QED
  BY <1>1, <1>2, <1>3 DEF PipeInv

LEMMA PipeNext == PipeInv /\ [PipelineNext]_pipelineVars => PipeInv'
<1> SUFFICES ASSUME PipeInv, [PipelineNext]_pipelineVars PROVE PipeInv'
  OBVIOUS
<1>1. ASSUME NEW samples \in CpuPolls, CpuTick(samples) PROVE PipeInv'
  BY <1>1, CpuStep
<1>2. ASSUME NEW samples \in IoPolls, IoTick(samples) PROVE PipeInv'
  BY <1>2, IoStep
<1>3. ASSUME NEW gap \in 0 .. Tolerance, NEW samples \in CallPolls, CallTick(gap, samples)
      PROVE  PipeInv'
  BY <1>3, CallStep
<1>4. ASSUME NEW gap \in 0 .. Tolerance, NEW waits \in Waits, LockTick(gap, waits)
      PROVE  PipeInv'
  BY <1>4, LockStep
<1>5. ASSUME NEW gap \in 0 .. Tolerance, NEW gauge \in BOOLEAN, NEW facts \in Facts,
             MemTick(gap, gauge, facts)
      PROVE  PipeInv'
  BY <1>5, MemoryStep
<1>6. CASE UNCHANGED pipelineVars
  <2>1. /\ UNCHANGED vars /\ UNCHANGED <<agg, added, start, end, scenario>>
    BY <1>6 DEF pipelineVars, aggVars, times, flags
  <2>2. StreakInv'
    BY <2>1, StreakNext DEF PipeInv
  <2>3. hot' = hot
    BY <2>1 DEF vars
  <2>4. AggInv(agg, added)'
    BY <2>1 DEF PipeInv, AggInv, Gathered, Indexed, Tallied, Accounted, Apart, Placed, LastOf
  <2> QED
    BY <2>1, <2>2, <2>3, <2>4 DEF PipeInv
<1> QED
  BY <1>1, <1>2, <1>3, <1>4, <1>5, <1>6 DEF PipelineNext

----------------------------------------------------------------------------
(* The theorems of a scenario.                                             *)

(* A report folded from ones that may be written may be written. *)
LEMMA ValidBy == PipeInv => ReportsValid
<1> SUFFICES ASSUME PipeInv, NEW i \in added \cup Incidents
             PROVE  ValidateAnomalyReport(i) /\ i.code \in CodesOf(scenario)
  BY DEF ReportsValid
<1>1. CASE i \in added
  BY <1>1 DEF PipeInv
<1>2. CASE i \in Incidents
  <2> DEFINE M == Members(i)
  <2>0. AggInv(agg, added)
    BY DEF PipeInv
  <2>1. DOMAIN agg.reports = 1 .. Len(agg.reports)
    BY <2>0, SeqLen DEF AggInv
  <2>2. IsReport(i) /\ Accounts(i, M)
    BY <1>2, <2>0, <2>1 DEF Incidents, ToSet, AggInv, Accounted, Members, Covered
  <2>3. ASSUME NEW r \in M
        PROVE  r \in added /\ r.code = i.code /\ ValidateAnomalyReport(r) /\ r.code \in CodesOf(scenario)
    <3>1. r \in added /\ aggregateKey(i) = aggregateKey(r)
      BY DEF Members, Covers
    <3> QED
      BY <3>1, KeyCode DEF PipeInv
  <2> HIDE DEF M
  <2>4. PICK r \in M : i.object = r.object
    BY <2>2 DEF Accounts
  <2>5. PICK q \in M : q.confidence = i.confidence
    BY <2>2 DEF Accounts, Highest
  <2>6. i.end > i.start /\ i.elapsed = i.end - i.start
    BY <2>2 DEF IsReport
  <2>7. i.confidence \in 0 .. 100
    BY <2>3, <2>5 DEF ValidateAnomalyReport
  <2>8. /\ i.code \in CpuCodes \cup IoCodes \cup MemCodes \cup LockCodes \cup CallCodes
        /\ ValidObject(i.code, i.object) /\ i.code \in CodesOf(scenario)
    BY <2>3, <2>4 DEF ValidateAnomalyReport
  <2> QED
    BY <2>6, <2>7, <2>8 DEF ValidateAnomalyReport
<1> QED
  BY <1>1, <1>2

LEMMA PipeHolds == PipelineSpec => []PipeInv
BY PipeInit, PipeNext, PTL DEF PipelineSpec

(***************************************************************************)
(* Every report a scenario hands on is in one incident, and each incident  *)
(* counts, spans and sums exactly its own: nothing is lost or counted      *)
(* twice when anomalyAggregator.Add splits, merges or replaces.            *)
(***************************************************************************)
THEOREM Conserved == PipelineSpec => []ReportsConserved
<1>1. PipeInv => ReportsConserved
  BY ConservedBy DEF PipeInv
<1> QED
  BY <1>1, PipeHolds, PTL

(***************************************************************************)
(* Add joins a report to an incident exactly when the gap between them is  *)
(* within the sampling error: incidents of one key are apart, and no       *)
(* stretch within one is uncovered.                                        *)
(***************************************************************************)
THEOREM ApartHold == PipelineSpec => []GapsSeparate
<1>1. PipeInv => GapsSeparate
  BY SeparateBy DEF PipeInv
<1> QED
  BY <1>1, PipeHolds, PTL

(***************************************************************************)
(* Merging keeps the evidence of the report with the highest confidence,   *)
(* the first such one (mergeAnomalyReports).                               *)
(***************************************************************************)
THEOREM SurestHold == PipelineSpec => []SurestSpeaks
<1>1. PipeInv => SurestSpeaks
  BY SurestBy DEF PipeInv
<1> QED
  BY <1>1, PipeHolds, PTL

(***************************************************************************)
(* Compacting the incidents when the session is written changes none.      *)
(***************************************************************************)
THEOREM StableHold == PipelineSpec => []CompactStable
<1>1. PipeInv => CompactStable
  BY StableBy DEF PipeInv
<1> QED
  BY <1>1, PipeHolds, PTL

(***************************************************************************)
(* Whatever a window shows, the reports and the incidents folded from them *)
(* pass ValidateAnomalyReport and name a cause of their own scenario: no   *)
(* report keeps a session from being written.                              *)
(***************************************************************************)
THEOREM ValidHold == PipelineSpec => []ReportsValid
<1> QED
  BY ValidBy, PipeHolds, PTL

(* A window of any scenario is one for its detector. *)
LEMMA TickObserves ==
  ASSUME NEW gap, NEW active \in SUBSET MapKey, NEW pressure \in BOOLEAN, NEW oom \in BOOLEAN,
         Tick(gap, active, pressure, oom)
  PROVE  Next
BY DEF Tick, Next

LEMMA PipeObserves == [PipelineNext]_pipelineVars => [Next]_vars
<1> SUFFICES ASSUME [PipelineNext]_pipelineVars PROVE Next \/ UNCHANGED vars
  OBVIOUS
<1>1. ASSUME NEW samples \in CpuPolls, CpuTick(samples) PROVE Next
  <2>1. {CpuKey(s) : s \in {t \in samples : HotCpu(t)}} \in SUBSET MapKey
    BY PollsAssumption
  <2>2. Tick(0, {CpuKey(s) : s \in {t \in samples : HotCpu(t)}}, FALSE, FALSE)
    BY <1>1 DEF CpuTick
  <2> QED
    BY <2>1, <2>2, TickObserves
<1>2. ASSUME NEW samples \in IoPolls, IoTick(samples) PROVE Next
  <2>1. {IoKey(s) : s \in {t \in samples : HotIo(t)}} \in SUBSET MapKey
    BY PollsAssumption
  <2>2. Tick(0, {IoKey(s) : s \in {t \in samples : HotIo(t)}}, FALSE, FALSE)
    BY <1>2 DEF IoTick
  <2> QED
    BY <2>1, <2>2, TickObserves
<1>3. ASSUME NEW gap, NEW samples \in CallPolls, CallTick(gap, samples) PROVE Next
  <2>1. {CallKey(s) : s \in {t \in samples : HotCall(t)}} \in SUBSET MapKey
    BY PollsAssumption
  <2>2. Tick(gap, {CallKey(s) : s \in {t \in samples : HotCall(t)}}, FALSE, FALSE)
    BY <1>3 DEF CallTick
  <2> QED
    BY <2>1, <2>2, TickObserves
<1>4. ASSUME NEW gap, NEW waits \in Waits, LockTick(gap, waits) PROVE Next
  <2>1. PICK groups \in Groupings[waits] :
          \E samples \in {Candidates(LockSamplesOf(groups, targeted, Period), includeBlocking)} :
            \E kept \in Kept(samples) :
              \E active \in {{s.id : s \in {t \in kept : Contended(t)}}} :
                Tick(gap, active, FALSE, FALSE)
    BY <1>4, Zenon DEF LockTick
  <2>2. PICK kept \in Kept(Candidates(LockSamplesOf(groups, targeted, Period), includeBlocking)) :
          Tick(gap, {s.id : s \in {t \in kept : Contended(t)}}, FALSE, FALSE)
    BY <2>1, Zenon
  <2>3. \A s \in kept : LockSampleOK(s)
    BY SamplesMade
  <2>4. {s.id : s \in {t \in kept : Contended(t)}} \in SUBSET MapKey
    BY <2>3 DEF LockSampleOK
  <2> QED
    BY <2>2, <2>4, TickObserves
<1>5. ASSUME NEW gap, NEW gauge, NEW facts, MemTick(gap, gauge, facts) PROVE Next
  <2> DEFINE snap == MemSnapshot(gauge, facts, procPrimed', procPrimed, targeted)
  <2>1. Tick(gap, {}, hasOrdinaryMemPressure(snap), snap.oom)
    BY <1>5 DEF MemTick
  <2>2. snap.oom \in BOOLEAN
    BY DEF MemSnapshot
  <2> HIDE DEF snap
  <2>3. hasOrdinaryMemPressure(snap) \in BOOLEAN
    BY <2>2 DEF hasOrdinaryMemPressure
  <2> QED
    BY <2>1, <2>2, <2>3, TickObserves
<1>6. CASE UNCHANGED pipelineVars
  BY <1>6 DEF pipelineVars
<1> QED
  BY <1>1, <1>2, <1>3, <1>4, <1>5, <1>6 DEF PipelineNext

LEMMA PipeIsDetector == PipelineSpec => Spec
<1>1. PipelineInit => Init
  BY DEF PipelineInit
<1> QED
  BY <1>1, PipeObserves, PTL DEF PipelineSpec, Spec

(***************************************************************************)
(* In a scenario, too, the counters and flags describe the current stretch *)
(* of hot windows of each key: what Detect is given is always of its keys. *)
(***************************************************************************)
THEOREM StreaksHoldInPipeline == PipelineSpec => []StreaksCounted
BY StreaksHold, PipeIsDetector, PTL

(***************************************************************************)
(* Every scenario implements EpisodeSpec: each episode is announced once,  *)
(* when it is long enough, with the windows it spanned.                    *)
(***************************************************************************)
THEOREM EpisodesInPipeline == PipelineSpec => ImplementsEpisodes
BY EpisodesRefined, PipeIsDetector, PTL
----------------------------------------------------------------------------
(* What a window's samples say about its waits.                            *)

AtLock(D, id) == {k \in D : identityOfLock(k) = id}
ByThread(K, t) == {k \in K : k.tid = t}
ThreadsOf(K) == {k.tid : k \in K}

\* The group g holds the waits under the keys K at the lock id.
HoldsWaits(g, w, K, id) ==
  /\ g.total = SumOver(w, K)
  /\ DOMAIN g.waiters = ThreadsOf(K)
  /\ \A t \in DOMAIN g.waiters : g.waiters[t] = SumOver(w, ByThread(K, t))
  /\ id[3] = 0 => g.stack = id[4]

\* The groups hold the waits under the keys D.
Exact(gs, w, D) ==
  /\ \A k \in D : identityOfLock(k) \in DOMAIN gs
  /\ \A id \in DOMAIN gs : AtLock(D, id) # {} /\ HoldsWaits(gs[id], w, AtLock(D, id), id)

LEMMA WaitsAre ==
  ASSUME NEW w \in Waits, NEW K \in SUBSET DOMAIN w
  PROVE  IsFiniteSet(K) /\ Ints(w, K)
BY WaitsAssumption, FS_Subset DEF Ints

(* One more key in its group. *)
LEMMA GroupGrows ==
  ASSUME NEW w \in Waits, NEW K \in SUBSET DOMAIN w, NEW k \in DOMAIN w, k \notin K,
         NEW id, id = identityOfLock(k), NEW g, HoldsWaits(g, w, K, id),
         NEW before, before = (IF k.tid \in DOMAIN g.waiters THEN g.waiters[k.tid] ELSE 0),
         NEW new, new.waiters = Put(g.waiters, k.tid, before + w[k]),
         new.total = g.total + w[k],
         new.stack = k.stack \/ new.stack = g.stack
  PROVE  HoldsWaits(new, w, K \cup {k}, id)
<1> DEFINE L == K \cup {k}
<1>0. L \in SUBSET DOMAIN w /\ w[k] \in Nat
  BY WaitsAssumption
<1>1. new.total = SumOver(w, L)
  <2>1. IsFiniteSet(K) /\ Ints(w, L) /\ Ints(w, K)
    BY <1>0, WaitsAre
  <2>2. SumOver(w, L) = w[k] + SumOver(w, K) /\ SumOver(w, K) \in Int
    BY <2>1, SumAdd, SumType
  <2> HIDE DEF L
  <2> QED
    BY <1>0, <2>2 DEF HoldsWaits
<1>2. DOMAIN new.waiters = ThreadsOf(L)
  BY DEF Put, HoldsWaits, ThreadsOf
<1>3. ASSUME NEW t \in ThreadsOf(L) PROVE new.waiters[t] = SumOver(w, ByThread(L, t))
  <2>1. CASE t = k.tid
    <3> DEFINE M == ByThread(K, t)
    <3>1. ByThread(L, t) = M \cup {k} /\ M \in SUBSET DOMAIN w /\ k \notin M
      BY <2>1 DEF ByThread
    <3>2. M \cup {k} \in SUBSET DOMAIN w
      BY <3>1
    <3>3. IsFiniteSet(M) /\ Ints(w, M \cup {k}) /\ Ints(w, M)
      BY <3>1, <3>2, WaitsAre
    <3>4. SumOver(w, M \cup {k}) = w[k] + SumOver(w, M) /\ SumOver(w, M) \in Int
      <4> HIDE DEF M
      <4> QED
        BY <3>1, <3>3, SumAdd, SumType
    <3>5. before = SumOver(w, M)
      <4>1. CASE t \in DOMAIN g.waiters
        BY <2>1, <4>1 DEF HoldsWaits
      <4>2. CASE t \notin DOMAIN g.waiters
        <5>1. M = {}
          BY <4>2 DEF HoldsWaits, ThreadsOf, ByThread
        <5> QED
          BY <2>1, <4>2, <5>1, SumEmpty
      <4> QED
        BY <4>1, <4>2
    <3>6. new.waiters[t] = before + w[k]
      BY <1>2, <2>1 DEF Put
    <3>7. ByThread(L, t) = M \cup {k}
      BY <3>1
    <3> HIDE DEF M, L
    <3>8. SumOver(w, ByThread(L, t)) = before + w[k]
      BY <1>0, <3>4, <3>5, <3>7
    <3> QED
      BY <3>6, <3>8
  <2>2. CASE t # k.tid
    <3>1. ByThread(L, t) = ByThread(K, t) /\ t \in DOMAIN g.waiters
      BY <2>2 DEF ByThread, HoldsWaits, ThreadsOf
    <3>2. new.waiters[t] = g.waiters[t]
      BY <2>2, <3>1 DEF Put
    <3> QED
      BY <3>1, <3>2 DEF HoldsWaits
  <2> QED
    BY <2>1, <2>2
<1>4. id[3] = 0 => new.stack = id[4]
  <2>1. id[3] = k.address /\ (k.address = 0 => id[4] = k.stack)
    BY DEF identityOfLock
  <2> QED
    BY <2>1 DEF HoldsWaits
<1> HIDE DEF L
<1>5. HoldsWaits(new, w, L, id)
  BY <1>1, <1>2, <1>3, <1>4 DEF HoldsWaits
<1> QED
  BY <1>5 DEF L

LEMMA ExactGrows ==
  ASSUME NEW w \in Waits, NEW D \in SUBSET DOMAIN w, NEW k \in DOMAIN w, k \notin D,
         NEW gs, Exact(gs, w, D)
  PROVE  Exact(Joined(gs, k, w[k]), w, D \cup {k})
<1> DEFINE id == identityOfLock(k)
           g == IF id \in DOMAIN gs THEN gs[id] ELSE NewGroup(k)
           before == IF k.tid \in DOMAIN g.waiters THEN g.waiters[k.tid] ELSE 0
           new == [waiters |-> Put(g.waiters, k.tid, before + w[k]), total |-> g.total + w[k],
                   stack |-> IF w[k] > g.top THEN k.stack ELSE g.stack,
                   top |-> Greater(g.top, w[k])]
           K == AtLock(D, id)
<1>1. Joined(gs, k, w[k]) = Put(gs, id, new)
  BY DEF Joined, WaiterOf
<1>2. HoldsWaits(g, w, K, id)
  <2>1. CASE id \in DOMAIN gs
    BY <2>1 DEF Exact
  <2>2. CASE id \notin DOMAIN gs
    <3>1. K = {}
      BY <2>2 DEF Exact, AtLock
    <3>2. g.total = 0 /\ g.waiters = <<>> /\ g.stack = k.stack
      BY <2>2 DEF NewGroup
    <3>3. DOMAIN g.waiters = {} /\ ThreadsOf(K) = {}
      BY <3>1, <3>2 DEF ThreadsOf
    <3>4. id[3] = k.address /\ (k.address = 0 => id[4] = k.stack)
      BY DEF identityOfLock
    <3>5. SumOver(w, K) = 0
      BY <3>1, SumEmpty
    <3> HIDE DEF g, id, K
    <3> QED
      BY <3>2, <3>3, <3>4, <3>5 DEF HoldsWaits
  <2> QED
    BY <2>1, <2>2
<1>3. /\ new.waiters = Put(g.waiters, k.tid, before + w[k]) /\ new.total = g.total + w[k]
      /\ new.stack = k.stack \/ new.stack = g.stack
  OBVIOUS
<1>4. before = IF k.tid \in DOMAIN g.waiters THEN g.waiters[k.tid] ELSE 0
  OBVIOUS
<1>5. K \in SUBSET DOMAIN w /\ k \notin K /\ K \cup {k} = AtLock(D \cup {k}, id)
  BY DEF AtLock
<1> HIDE DEF g, new, before, K
<1>6. HoldsWaits(new, w, K \cup {k}, id)
  BY <1>2, <1>3, <1>4, <1>5, GroupGrows
<1>7. ASSUME NEW i \in DOMAIN gs, i # id PROVE AtLock(D \cup {k}, i) = AtLock(D, i)
  BY <1>7 DEF AtLock
<1> DEFINE hs == Put(gs, id, new)
<1>8. /\ DOMAIN hs = DOMAIN gs \cup {id} /\ hs[id] = new
      /\ \A i \in DOMAIN gs : i # id => hs[i] = gs[i]
  BY DEF Put
<1> HIDE DEF hs
<1>9. ASSUME NEW i \in DOMAIN hs
      PROVE  AtLock(D \cup {k}, i) # {} /\ HoldsWaits(hs[i], w, AtLock(D \cup {k}, i), i)
  <2>1. CASE i = id
    BY <1>5, <1>6, <1>8, <2>1
  <2>2. CASE i # id
    <3>1. i \in DOMAIN gs /\ hs[i] = gs[i]
      BY <1>8, <2>2
    <3> QED
      BY <1>7, <2>2, <3>1 DEF Exact
  <2> QED
    BY <2>1, <2>2
<1>10. \A j \in D \cup {k} : identityOfLock(j) \in DOMAIN hs
  BY <1>8 DEF Exact
<1>11. Exact(hs, w, D \cup {k})
  BY <1>9, <1>10 DEF Exact
<1> QED
  BY <1>1, <1>11 DEF hs

LEMMA GroupsExact ==
  ASSUME NEW w \in Waits, NEW gs \in Groupings[w]
  PROVE  Exact(gs, w, DOMAIN w)
<1> DEFINE K == DOMAIN w
           n == Cardinality(K)
<1>1. PICK order \in SetToSeqs(K) : gs = Grouped(w, order)
  BY DEF Groupings
<1>2. n \in Nat /\ IsFiniteSet(K) /\ K \in SUBSET DOMAIN w
  BY WaitsAssumption, FS_CardinalityType
<1>3. /\ order \in [1 .. n -> K]
      /\ \A i, j \in 1 .. n : i # j => order[i] # order[j]
  BY <1>1 DEF SetToSeqs
<1>4. \A k \in K : \E i \in 1 .. n : order[i] = k
  <2>1. order \in Injection(1 .. n, K)
    BY <1>3 DEF Injection, IsInjective
  <2>2. IsFiniteSet(1 .. n) /\ Cardinality(1 .. n) = n
    <3>1. 1 \in Int /\ n \in Int /\ 1 <= n + 1
      BY <1>2
    <3> QED
      BY <1>2, <3>1, FS_Interval
  <2> HIDE DEF K
  <2>3. order \in Surjection(1 .. n, K)
    BY <1>2, <2>1, <2>2, FS_Injection
  <2> QED
    BY <2>3 DEF Surjection
<1> HIDE DEF n, K
<1>5. PICK h : Joins(h, w, order, n) /\ Grouped(w, order) = h[n]
  BY <1>2, <1>3, GroupedPasses
<1> DEFINE Upto(k) == {order[i] : i \in 1 .. k}
           P == {k \in Nat : k <= n => Exact(h[k], w, Upto(k))}
<1>6. 0 \in P
  <2>1. h[0] = <<>>
    BY <1>5 DEF Joins
  <2>2. DOMAIN <<>> = {} /\ Upto(0) = {}
    OBVIOUS
  <2>3. Exact(h[0], w, Upto(0))
    BY <2>1, <2>2 DEF Exact
  <2> QED
    BY <2>3
<1>7. ASSUME NEW k \in P PROVE k + 1 \in P
  <2> SUFFICES ASSUME k + 1 <= n PROVE Exact(h[k + 1], w, Upto(k + 1))
    OBVIOUS
  <2>1. k \in Nat /\ Exact(h[k], w, Upto(k)) /\ k + 1 \in 1 .. n /\ (k + 1) - 1 = k
    BY <1>2
  <2>2. h[k + 1] = Joined(h[k], order[k + 1], w[order[k + 1]])
    <3>1. h[k + 1] = Joined(h[(k + 1) - 1], order[k + 1], w[order[k + 1]])
      BY <1>5, <2>1 DEF Joins
    <3> QED
      BY <2>1, <3>1
  <2>3. order[k + 1] \in DOMAIN w /\ Upto(k) \in SUBSET DOMAIN w
    BY <1>2, <1>3, <2>1
  <2>4. order[k + 1] \notin Upto(k)
    <3> SUFFICES ASSUME NEW i \in 1 .. k, order[i] = order[k + 1] PROVE FALSE
      OBVIOUS
    <3>1. i \in 1 .. n /\ i # k + 1
      BY <1>2, <2>1
    <3> QED
      BY <1>3, <2>1, <3>1
  <2>5. Upto(k + 1) = Upto(k) \cup {order[k + 1]}
    <3>1. 1 .. (k + 1) = (1 .. k) \cup {k + 1}
      BY <2>1
    <3> QED
      BY <3>1
  <2> HIDE DEF Upto
  <2> QED
    BY <2>1, <2>2, <2>3, <2>4, <2>5, ExactGrows
<1>8. P \in SUBSET Nat
  OBVIOUS
<1> HIDE DEF P
<1>9. n \in P
  BY <1>2, <1>6, <1>7, <1>8, NatInductive
<1>10. Upto(n) = K
  BY <1>2, <1>3, <1>4
<1> HIDE DEF Upto
<1> QED
  BY <1>1, <1>2, <1>5, <1>9, <1>10 DEF P, K

\* Nonnegative factors.
LEMMA ProductNat == \A p, d \in Nat : p * d \in Nat
BY Z3

LEMMA ProductGrows ==
  ASSUME NEW p \in Nat, NEW x \in Int, NEW y \in Int, x <= y
  PROVE  p * x <= p * y
<1> DEFINE d == y - x
<1>1. d \in Nat /\ y = x + d
  OBVIOUS
<1> HIDE DEF d
<1>2. p * d \in Nat
  BY <1>1, ProductNat
<1>3. p * (x + d) = p * x + p * d
  BY <1>1, Z3
<1>4. p * x \in Int
  BY Z3
<1> QED
  BY <1>1, <1>2, <1>3, <1>4

LEMMA RatioIs ==
  ASSUME NEW a \in Int, NEW t \in Nat, NEW p \in Nat, p > 0
  PROVE  a \div p >= t <=> a >= t * p
<1> DEFINE q == a \div p
<1>1. q \in Int /\ p * q <= a /\ a < p * q + p
  OBVIOUS
<1> HIDE DEF q
<1>2. q >= t => p * q >= p * t
  BY <1>1, ProductGrows
<1>3. q < t => q + 1 <= t /\ p * (q + 1) <= p * t
  BY <1>1, ProductGrows
<1>4. p * (q + 1) = p * q + p
  BY <1>1, Z3
<1>5. p * t = t * p
  BY Z3
<1>6. p * t \in Int /\ p * q \in Int
  BY <1>1, Z3
<1> DEFINE x == p * q
           y == p * t
           z == p * (q + 1)
<1> HIDE DEF x, y, z
<1>7. q >= t <=> a >= y
  BY <1>1, <1>2, <1>3, <1>4, <1>6 DEF x, y, z
<1> QED
  BY <1>5, <1>7 DEF q, y

LEMMA LockIdIs ==
  ASSUME NEW id \in LockIds
  PROVE  id = <<"lock", id[2], id[3], IF id[3] = 0 THEN id[4] ELSE 0>>
BY LockAssumption DEF identityOfLock

LEMMA KeysAre ==
  ASSUME NEW w, NEW id \in LockIds
  PROVE  KeysAt(w, id) = AtLock(DOMAIN w, id)
BY LockIdIs DEF KeysAt, AtLock, identityOfLock

\* What a lock's sample says is true of its waits.
Says(s, w, id) ==
  /\ id \in LockIds /\ KeysAt(w, id) # {}
  /\ s.id = id /\ s.pid = id[2] /\ s.address = id[3] /\ s.futex = (id[3] # 0)
  /\ s.ratio \in Int
  /\ s.ratio >= threshold.lock <=> 100 * TimeOf(w, KeysAt(w, id)) >= threshold.lock * Period
  /\ s.waiterCount = Cardinality(ThreadsAt(w, id))
  /\ id[3] = 0 => s.stack = id[4]
  /\ s.tid \in LongestAt(w, id)

LEMMA SampleSays ==
  ASSUME NEW w \in Waits, NEW gs \in Groupings[w], NEW id \in DOMAIN gs, NEW t,
         NEW s, s = SampleOf(id, gs[id], t, Period)
  PROVE  Says(s, w, id)
<1> DEFINE g == gs[id]
           K == KeysAt(w, id)
<1>0. Exact(gs, w, DOMAIN w) /\ IsGroup(g) /\ \E k \in DOMAIN w : id = identityOfLock(k)
  BY GroupsExact, GroupsMade DEF Groups
<1>1. id \in LockIds
  <2>1. PICK k \in DOMAIN w : id = identityOfLock(k)
    BY <1>0
  <2>2. id \in MapKey /\ id[1] = "lock"
    BY <2>1, WaitsAssumption DEF identityOfLock
  <2> QED
    BY <2>2 DEF LockIds
<1>2. K # {} /\ HoldsWaits(g, w, K, id) /\ K \in SUBSET DOMAIN w
  BY <1>0, <1>1, KeysAre DEF Exact, KeysAt
<1>3. /\ s.id = id /\ s.pid = id[2] /\ s.address = id[3] /\ s.futex = (id[3] # 0)
      /\ s.ratio = Ratio(g.total, Period) /\ s.waiterCount = Cardinality(DOMAIN g.waiters)
      /\ s.stack = g.stack /\ s.tid = TopWaiter(g.waiters)
  BY DEF SampleOf
<1>4. DOMAIN g.waiters = ThreadsAt(w, id) /\ (id[3] = 0 => s.stack = id[4])
  BY <1>2, <1>3 DEF HoldsWaits, ThreadsOf, ThreadsAt
<1> DEFINE total == TimeOf(w, K)
<1>5. g.total = total /\ total \in Int
  BY <1>0, <1>2 DEF HoldsWaits, TimeOf, SumOver, IsGroup
<1>6. ASSUME NEW u \in DOMAIN g.waiters PROVE g.waiters[u] = TimeBy(w, id, u)
  BY <1>2 DEF HoldsWaits, TimeBy, TimeOf, SumOver, ByThread
<1>7. s.tid \in LongestAt(w, id)
  <2>1. TopWaiter(g.waiters) \in DOMAIN g.waiters /\ Longest(g.waiters, TopWaiter(g.waiters))
    BY <1>0, TopWaits
  <2> HIDE DEF g
  <2> QED
    BY <1>3, <1>4, <1>6, <2>1 DEF LongestAt, Longest
<1> HIDE DEF g, total, K
<1>8. s.ratio = (100 * total) \div Period /\ s.ratio \in Int
  <2>1. s.ratio = (100 * total) \div Period
    BY <1>3, <1>5 DEF Ratio
  <2> QED
    BY <1>5, <2>1, PeriodPositive
<1>9. s.ratio >= threshold.lock <=> 100 * total >= threshold.lock * Period
  <2>1. 100 * total \in Int
    BY <1>5
  <2> QED
    BY <1>8, <2>1, RatioIs, PeriodPositive, LockAssumption
<1> QED
  BY <1>1, <1>2, <1>3, <1>4, <1>7, <1>8, <1>9 DEF Says, K, total

LEMMA GroupsFinite ==
  ASSUME NEW w \in Waits, NEW gs \in Groupings[w]
  PROVE  IsFiniteSet(DOMAIN gs)
<1> DEFINE f == [k \in DOMAIN w |-> identityOfLock(k)]
           ids == {f[k] : k \in DOMAIN w}
<1>1. IsFiniteSet(ids)
  <2> HIDE DEF f
  <2> QED
    BY WaitsAssumption, ImageFinite
<1>2. DOMAIN gs \in SUBSET ids
  BY GroupsMade DEF Groups
<1> HIDE DEF ids
<1> QED
  BY <1>1, <1>2, FS_Subset

\* No window has more long waited locks than the report may hold.
LEMMA LongFinite ==
  ASSUME NEW w \in Waits
  PROVE  IsFiniteSet(LongAt(w))
<1> DEFINE f == [k \in DOMAIN w |-> identityOfLock(k)]
           ids == {f[k] : k \in DOMAIN w}
<1>1. IsFiniteSet(ids)
  <2> HIDE DEF f
  <2> QED
    BY WaitsAssumption, ImageFinite
<1>2. LongAt(w) \in SUBSET ids
  <2> SUFFICES ASSUME NEW id \in LongAt(w) PROVE id \in ids
    OBVIOUS
  <2>1. id \in LockIds /\ KeysAt(w, id) # {}
    BY DEF LongAt
  <2>2. PICK k \in AtLock(DOMAIN w, id) : TRUE
    BY <2>1, KeysAre
  <2> QED
    BY <2>2 DEF AtLock
<1> HIDE DEF ids
<1> QED
  BY <1>1, <1>2, FS_Subset

(* What the cut leaves of the contended locks: all, if it has room for the long waits. *)
LEMMA CutSpares ==
  ASSUME NEW w \in Waits, Cardinality(LongAt(w)) <= topN,
         NEW C, IsFiniteSet(C), NEW S \in Kept(C),
         \A c \in C : Says(c, w, c.id),
         \A c, d \in C : c.id = d.id => c = d,
         NEW s \in C, Contended(s)
  PROVE  s \in S
<1> SUFFICES ASSUME s \notin S PROVE FALSE
  OBVIOUS
<1>1. /\ S \in SUBSET C /\ Cardinality(S) = Lesser(topN, Cardinality(C))
      /\ \A t \in S : t.ratio >= s.ratio
  BY DEF Kept
<1>2. /\ IsFiniteSet(S) /\ Cardinality(S) \in Nat /\ Cardinality(C) \in Nat
      /\ Cardinality(S) # Cardinality(C) /\ S # C
  <2>1. IsFiniteSet(S) /\ Cardinality(S) \in Nat /\ Cardinality(C) \in Nat
    BY <1>1, FS_Subset, FS_CardinalityType
  <2>2. S # C
    OBVIOUS
  <2> QED
    BY <1>1, <2>1, <2>2, FS_Subset
<1>3. Cardinality(S) = topN /\ topN \in Nat
  BY <1>1, <1>2, LockAssumption DEF Lesser
<1> DEFINE T == S \cup {s}
           f == [t \in T |-> t.id]
           L == LongAt(w)
<1>4. IsFiniteSet(T) /\ Cardinality(T) = topN + 1
  BY <1>2, <1>3, FS_AddElement
<1>5. ASSUME NEW t \in T PROVE t.id \in L
  <2>1. s.ratio \in Int /\ t.ratio \in Int /\ threshold.lock \in Nat /\ s.ratio >= threshold.lock
    BY <1>1, LockAssumption DEF Says, Contended
  <2>2. t.ratio >= s.ratio
    BY <1>1, <2>1
  <2>3. t.ratio >= threshold.lock
    BY <2>1, <2>2
  <2>4. Says(t, w, t.id)
    BY <1>1
  <2> QED
    BY <2>3, <2>4 DEF Says, LongAt
<1>6. \A t, u \in T : t.id = u.id => t = u
  BY <1>1
<1>7. IsFiniteSet(L)
  BY LongFinite
<1> HIDE DEF T, L
<1>8. f \in Injection(T, L)
  BY <1>5, <1>6 DEF Injection, IsInjective
<1> HIDE DEF f
<1>9. Cardinality(T) <= Cardinality(L) /\ Cardinality(L) \in Nat
  BY <1>7, <1>8, FS_Injection, FS_CardinalityType
<1> QED
  BY <1>3, <1>4, <1>9 DEF L

\* What the lock detector counts as active.
ActiveOf(S) == {s.id : s \in {t \in S : Contended(t)}}

(* Only contended locks are active, and all of them if the cut has room.    *)
LEMMA ActiveIsTrue ==
  ASSUME NEW w \in Waits, NEW gs \in Groupings[w], NEW t,
         NEW kept \in Kept(Candidates(LockSamplesOf(gs, t, Period), includeBlocking))
  PROVE  /\ ActiveOf(kept) \subseteq TrulyContended(w)
         /\ Cardinality(LongAt(w)) <= topN => TrulyContended(w) \subseteq ActiveOf(kept)
<1> DEFINE all == LockSamplesOf(gs, t, Period)
           C == Candidates(all, includeBlocking)
<1>1. /\ \A s \in all : s.id \in DOMAIN gs /\ s = SampleOf(s.id, gs[s.id], t, Period)
      /\ \A id \in DOMAIN gs : SampleOf(id, gs[id], t, Period) \in all
  <2>1. \A id \in DOMAIN gs : SampleOf(id, gs[id], t, Period).id = id
    BY DEF SampleOf
  <2> QED
    BY <2>1 DEF LockSamplesOf
<1>2. \A s \in all : Says(s, w, s.id)
  BY <1>1, SampleSays
<1>3. \A c, d \in all : c.id = d.id => c = d
  BY <1>1
<1>4. IsFiniteSet(all)
  <2> DEFINE f == [id \in DOMAIN gs |-> SampleOf(id, gs[id], t, Period)]
  <2>1. all = {f[id] : id \in DOMAIN gs}
    BY DEF LockSamplesOf
  <2>2. IsFiniteSet(DOMAIN gs)
    BY GroupsFinite
  <2> HIDE DEF f, all
  <2> QED
    BY <2>1, <2>2, ImageFinite
<1> HIDE DEF all
<1>5. C \in SUBSET all /\ IsFiniteSet(C) /\ kept \in SUBSET C
  <2>1. C \in SUBSET all
    BY DEF Candidates
  <2>2. kept \in SUBSET C
    BY DEF Kept, all
  <2> QED
    BY <1>4, <2>1, <2>2, FS_Subset
<1>6. \A s \in all : s \in C <=> includeBlocking \/ s.futex \/ Stack[s.stack].hint
  BY DEF Candidates
<1>7. kept \in Kept(C)
  BY DEF all
<1> HIDE DEF C
<1>8. ASSUME NEW s \in kept, Contended(s) PROVE s.id \in TrulyContended(w)
  <2> DEFINE id == s.id
  <2>1. s \in C /\ s \in all
    BY <1>5
  <2>2. Says(s, w, id)
    BY <1>2, <2>1
  <2>3. id \in LongAt(w)
    BY <1>8, <2>2 DEF Says, LongAt, Contended
  <2>4. CASE id[3] # 0
    BY <1>8, <2>2, <2>3, <2>4 DEF Says, TrulyContended, Contended, ThreadsAt
  <2>5. CASE id[3] = 0
    <3>1. ~s.futex /\ s.stack = id[4]
      BY <2>2, <2>5 DEF Says
    <3>2. includeBlocking \/ Stack[id[4]].hint
      BY <1>6, <2>1, <3>1
    <3> QED
      BY <2>3, <2>5, <3>2 DEF TrulyContended
  <2> QED
    BY <2>4, <2>5
<1>9. ASSUME Cardinality(LongAt(w)) <= topN, NEW id \in TrulyContended(w)
      PROVE  \E s \in kept : Contended(s) /\ s.id = id
  <2>1. id \in LockIds /\ KeysAt(w, id) # {} /\ id \in LongAt(w)
    BY DEF TrulyContended, LongAt
  <2>2. id \in DOMAIN gs
    <3>1. PICK k \in AtLock(DOMAIN w, id) : TRUE
      BY <2>1, KeysAre
    <3> QED
      BY <3>1, GroupsExact DEF Exact, AtLock
  <2> DEFINE s == SampleOf(id, gs[id], t, Period)
  <2>3. s \in all /\ s.id = id
    BY <1>1, <2>2 DEF SampleOf
  <2> HIDE DEF s
  <2>4. Says(s, w, id)
    BY <1>2, <2>3
  <2>5. s.ratio >= threshold.lock
    BY <2>1, <2>4 DEF Says, LongAt
  <2>6. s \in C /\ Contended(s)
    <3>1. CASE id[3] # 0
      BY <1>6, <2>3, <2>4, <2>5, <3>1 DEF Says, TrulyContended, Contended
    <3>2. CASE id[3] = 0
      <4>1. ~s.futex /\ s.stack = id[4]
        BY <2>4, <3>2 DEF Says
      <4>2. includeBlocking \/ Stack[id[4]].hint
        BY <3>2 DEF TrulyContended
      <4> QED
        BY <1>6, <2>3, <2>5, <4>1, <4>2 DEF Contended
    <3> QED
      BY <3>1, <3>2
  <2>7. \A c \in C : Says(c, w, c.id)
    BY <1>2, <1>5
  <2>8. \A c, d \in C : c.id = d.id => c = d
    BY <1>3, <1>5
  <2>9. s \in kept
    BY <1>5, <1>7, <1>9, <2>6, <2>7, <2>8, CutSpares
  <2> QED
    BY <2>3, <2>6, <2>9
<1> QED
  BY <1>8, <1>9 DEF ActiveOf

----------------------------------------------------------------------------
(* What the detectors see is true.                                         *)

\* What memory's window means to the detector.
SnapOf(gauge, facts, primed, tgt) ==
  MemSnapshot(gauge, facts, NeedProcAttribution(gauge, facts), primed, tgt)

\* p as the collector shows it.
Shown(f, p) ==
  [pid |-> p, stalls |-> f.stalls, reclaim |-> f.reclaim, growth |-> f.growth,
   faults |-> f.faults]

LEMMA SeenIs ==
  ASSUME NEW facts \in Facts, NEW p \in Proc, NEW need \in BOOLEAN, NEW primed \in BOOLEAN,
         NEW f, f = Seen(facts, need, primed)[p]
  PROVE  /\ f.stalls = facts[p].stalls /\ f.reclaim = facts[p].reclaim
         /\ f.marked = facts[p].marked
         /\ f.growth = (IF need /\ primed THEN facts[p].growth ELSE 0)
         /\ f.faults = (IF need /\ primed THEN facts[p].faults ELSE 0)
         /\ f.reclaim \in Nat /\ f.growth \in Int /\ f.faults \in Nat
         /\ Contributes(f) => Contributes(facts[p])
         /\ need /\ primed => (Contributes(f) <=> Contributes(facts[p]))
<1>1. facts[p] \in [stalls : Nat, reclaim : Nat, growth : Int, faults : Nat, marked : Nat]
  BY FactsAssumption
<1>2. f = [facts[p] EXCEPT !.growth = IF need /\ primed THEN facts[p].growth ELSE 0,
                           !.faults = IF need /\ primed THEN facts[p].faults ELSE 0]
  BY DEF Seen
<1>3. /\ f.stalls = facts[p].stalls /\ f.reclaim = facts[p].reclaim
      /\ f.marked = facts[p].marked
      /\ f.growth = (IF need /\ primed THEN facts[p].growth ELSE 0)
      /\ f.faults = (IF need /\ primed THEN facts[p].faults ELSE 0)
      /\ facts[p].reclaim \in Nat /\ facts[p].growth \in Int /\ facts[p].faults \in Nat
  BY <1>1, <1>2
<1> QED
  BY <1>3 DEF Contributes, GrowthSignal, FaultSignal

IsSnap(snap, gauge, facts, seen, tgt) ==
  /\ snap.pressure = SystemPressure(gauge, facts)
  /\ snap.oom = (Victims(facts) # {})
  /\ snap.victims = {p \in Victims(facts) : containsTGID(tgt, p)}
  /\ snap.contribution = (\E p \in Proc : Contributes(seen[p]))
  /\ snap.procs = {Shown(seen[p], p) :
                     p \in {q \in Proc : containsTGID(tgt, q) /\ Collected(seen[q])}}

LEMMA SnapIs ==
  ASSUME NEW facts, NEW gauge, NEW primed, NEW tgt,
         NEW snap, snap = SnapOf(gauge, facts, primed, tgt),
         NEW seen, seen = Seen(facts, NeedProcAttribution(gauge, facts), primed)
  PROVE  IsSnap(snap, gauge, facts, seen, tgt)
BY DEF IsSnap, SnapOf, MemSnapshot, Shown

LEMMA PressureIsTrue ==
  ASSUME NEW facts \in Facts, NEW gauge \in BOOLEAN, NEW primed \in BOOLEAN, NEW tgt \in BOOLEAN,
         NEW snap, snap = SnapOf(gauge, facts, primed, tgt)
  PROVE  /\ hasOrdinaryMemPressure(snap) /\ ~snap.oom => Mem \in TrulyPressed(gauge, facts)
         /\ Mem \in TrulyPressed(gauge, facts) =>
              /\ NeedProcAttribution(gauge, facts)
              /\ primed => hasOrdinaryMemPressure(snap) /\ ~snap.oom
<1> DEFINE need == NeedProcAttribution(gauge, facts)
           seen == Seen(facts, need, primed)
<1>1. /\ snap.pressure = SystemPressure(gauge, facts)
      /\ snap.oom = (Victims(facts) # {})
      /\ snap.contribution = (\E p \in Proc : Contributes(seen[p]))
      /\ snap.procs = {Shown(seen[p], p) :
                         p \in {q \in Proc : containsTGID(tgt, q) /\ Collected(seen[q])}}
  <2>1. IsSnap(snap, gauge, facts, seen, tgt)
    BY SnapIs
  <2> HIDE DEF seen
  <2> QED
    BY <2>1 DEF IsSnap
<1>2. SystemPressure(gauge, facts) => need
  BY DEF NeedProcAttribution
<1>3. need \in BOOLEAN
  BY DEF NeedProcAttribution, SystemPressure
<1> HIDE DEF need
<1>4. \A p \in Proc : /\ Contributes(seen[p]) => Contributes(facts[p])
                      /\ need /\ primed => (Contributes(seen[p]) <=> Contributes(facts[p]))
  BY <1>3, SeenIs
<1> HIDE DEF seen
<1>5. ASSUME hasOrdinaryMemPressure(snap), ~snap.oom PROVE Mem \in TrulyPressed(gauge, facts)
  <2>1. Victims(facts) = {} /\ SystemPressure(gauge, facts)
    BY <1>1, <1>5 DEF hasOrdinaryMemPressure
  <2>2. \E p \in Proc : Contributes(seen[p])
    <3>1. CASE snap.contribution
      BY <1>1, <3>1
    <3>2. CASE \E f \in snap.procs : Contributes(f)
      <4>1. PICK p \in Proc : Contributes(Shown(seen[p], p))
        BY <1>1, <3>2
      <4>2. Contributes(seen[p])
        BY <4>1 DEF Shown, Contributes
      <4> QED
        BY <4>2
    <3> QED
      BY <1>5, <3>1, <3>2 DEF hasOrdinaryMemPressure
  <2>3. \E p \in Proc : Contributes(facts[p])
    BY <1>4, <2>2
  <2> QED
    BY <2>1, <2>3 DEF TrulyPressed
<1>6. ASSUME Mem \in TrulyPressed(gauge, facts)
      PROVE  need /\ (primed => hasOrdinaryMemPressure(snap) /\ ~snap.oom)
  <2>1. /\ Victims(facts) = {} /\ SystemPressure(gauge, facts)
        /\ \E p \in Proc : Contributes(facts[p])
    BY <1>6 DEF TrulyPressed
  <2>2. primed => snap.contribution
    BY <1>1, <1>2, <1>4, <2>1
  <2> QED
    BY <1>1, <1>2, <2>1, <2>2 DEF hasOrdinaryMemPressure
<1> QED
  BY <1>5, <1>6 DEF need

\* The windows so far were seen as they were.
TruthInv ==
  /\ IsSeq(truth) /\ Len(truth) = Len(hot)
  /\ procPrimed \in BOOLEAN /\ targeted \in BOOLEAN /\ includeBlocking \in BOOLEAN
  /\ \A n \in 1 .. Len(hot) :
       /\ hot[n] \subseteq truth[n]
       /\ FitsTopN => truth[n] \subseteq hot[n] \cup {Mem}
       /\ n > 1 /\ Mem \in truth[n - 1] \cap truth[n] => Mem \in hot[n]
       /\ n = Len(hot) /\ Mem \in truth[n] => procPrimed

\* A window seen as it was: what was hot, what should have been.
SeenTrue(seen, true, before, after) ==
  /\ seen \subseteq true
  /\ FitsTopN => true \subseteq seen \cup {Mem}
  /\ before /\ Mem \in true => Mem \in seen
  /\ Mem \in true => after

LEMMA HotGrows ==
  ASSUME StreakInv, NEW active \in SUBSET MapKey, NEW pressure \in BOOLEAN, NEW oom \in BOOLEAN,
         Observe(active, pressure, oom)
  PROVE  /\ Len(hot) \in Nat /\ window = Len(hot) + 1 /\ Len(hot') = window
         /\ \A i \in 1 .. Len(hot) : hot'[i] = hot[i]
         /\ hot'[window] = active \cup (IF pressure /\ ~oom THEN {Mem} ELSE {})
<1>1. hot \in Seq(SUBSET Key)
  BY DEF StreakInv, TypeOK
<1> DEFINE H == active \cup (IF pressure /\ ~oom THEN {Mem} ELSE {})
<1>2. H \in SUBSET Key
  BY KeyTypes
<1>3. hot' = Append(hot, H)
  BY DEF Observe
<1> HIDE DEF H
<1>4. /\ Len(hot) \in Nat /\ Len(hot') = Len(hot) + 1
      /\ \A i \in 1 .. Len(hot) : hot'[i] = hot[i] /\ hot'[Len(hot) + 1] = H
      /\ hot'[Len(hot) + 1] = H
  BY <1>1, <1>2, <1>3, AppendProperties, LenProperties
<1> QED
  BY <1>4 DEF H, window

LEMMA TruthStep ==
  ASSUME PipeInv, TruthInv, NEW gap, NEW active \in SUBSET MapKey, NEW pressure \in BOOLEAN,
         NEW oom \in BOOLEAN, Tick(gap, active, pressure, oom),
         NEW true, truth' = Append(truth, true), procPrimed' \in BOOLEAN,
         SeenTrue(active \cup (IF pressure /\ ~oom THEN {Mem} ELSE {}), true,
                  procPrimed, procPrimed')
  PROVE  TruthInv'
<1> DEFINE n == Len(hot)
           seen == active \cup (IF pressure /\ ~oom THEN {Mem} ELSE {})
<1>1. /\ n \in Nat /\ Len(hot') = n + 1 /\ hot'[n + 1] = seen
      /\ \A i \in 1 .. n : hot'[i] = hot[i]
  BY HotGrows DEF Tick, PipeInv
<1>2. IsAppended(truth', truth, true)
  BY AppendTo DEF TruthInv
<1>3. /\ IsSeq(truth') /\ Len(truth') = n + 1 /\ truth'[n + 1] = true
      /\ \A i \in 1 .. n : truth'[i] = truth[i]
  BY <1>2 DEF IsAppended, TruthInv
<1>4. targeted' \in BOOLEAN /\ includeBlocking' \in BOOLEAN
  BY DEF Tick, flags, TruthInv
<1>5. /\ seen \subseteq true /\ (FitsTopN => true \subseteq seen \cup {Mem})
      /\ (procPrimed /\ Mem \in true => Mem \in seen)
      /\ (Mem \in true => procPrimed')
  BY DEF SeenTrue
<1> HIDE DEF n, seen
<1>6. ASSUME NEW i \in 1 .. (n + 1)
      PROVE  /\ hot'[i] \subseteq truth'[i]
             /\ FitsTopN => truth'[i] \subseteq hot'[i] \cup {Mem}
             /\ i > 1 /\ Mem \in truth'[i - 1] \cap truth'[i] => Mem \in hot'[i]
             /\ i = n + 1 /\ Mem \in truth'[i] => procPrimed'
  <2>1. CASE i = n + 1
    <3>1. ASSUME i > 1, Mem \in truth'[i - 1] \cap truth'[i] PROVE Mem \in hot'[i]
      <4>1. n \in 1 .. n /\ i - 1 = n
        BY <1>1, <2>1, <3>1
      <4>2. Mem \in truth[n] /\ Mem \in true
        BY <1>3, <2>1, <3>1, <4>1
      <4>3. procPrimed
        BY <4>1, <4>2 DEF TruthInv, n
      <4> QED
        BY <1>1, <1>5, <2>1, <4>2, <4>3
    <3>2. hot'[i] = seen /\ truth'[i] = true
      BY <1>1, <1>3, <2>1
    <3> QED
      BY <1>5, <3>1, <3>2
  <2>2. CASE i # n + 1
    <3>1. i \in 1 .. n
      BY <1>1, <2>2
    <3>2. hot'[i] = hot[i] /\ truth'[i] = truth[i]
      BY <1>1, <1>3, <3>1
    <3>3. i > 1 => i - 1 \in 1 .. n
      BY <1>1, <3>1
    <3>4. i > 1 => truth'[i - 1] = truth[i - 1]
      BY <1>3, <3>3
    <3> QED
      BY <2>2, <3>1, <3>2, <3>4 DEF TruthInv, n
  <2> QED
    BY <2>1, <2>2
<1> QED
  BY <1>1, <1>3, <1>4, <1>6 DEF TruthInv

LEMMA MapTruth ==
  ASSUME PipeInv, TruthInv, NEW gap, NEW active \in SUBSET MapKey,
         Tick(gap, active, FALSE, FALSE), UNCHANGED procPrimed,
         NEW true \in SUBSET MapKey, active \subseteq true, FitsTopN => true \subseteq active,
         truth' = Append(truth, true)
  PROVE  TruthInv'
<1>1. SeenTrue(active \cup (IF FALSE /\ ~FALSE THEN {Mem} ELSE {}), true, procPrimed, procPrimed')
  <2>1. Mem \notin true /\ active \cup (IF FALSE /\ ~FALSE THEN {Mem} ELSE {}) = active
    BY KeyTypes
  <2> QED
    BY <2>1 DEF SeenTrue
<1>2. procPrimed' \in BOOLEAN
  BY DEF TruthInv
<1> QED
  BY <1>1, <1>2, TruthStep

LEMMA HotMap ==
  ASSUME PipeInv, NEW gap, NEW active \in SUBSET MapKey, Tick(gap, active, FALSE, FALSE)
  PROVE  hot'[window] = active
<1>1. hot'[window] = active \cup (IF FALSE /\ ~FALSE THEN {Mem} ELSE {})
  BY HotGrows DEF Tick, PipeInv
<1> QED
  BY <1>1

LEMMA CpuTruth ==
  ASSUME PipeInv, TruthInv, NEW samples \in CpuPolls, CpuTick(samples)
  PROVE  TruthInv'
<1> DEFINE active == {CpuKey(s) : s \in {t \in samples : HotCpu(t)}}
<1>1. /\ Tick(0, active, FALSE, FALSE) /\ UNCHANGED procPrimed
      /\ truth' = Append(truth, hot'[window])
  BY DEF CpuTick
<1>2. active \in SUBSET MapKey
  BY PollsAssumption
<1> HIDE DEF active
<1>3. hot'[window] = active
  BY <1>1, <1>2, HotMap
<1> QED
  BY <1>1, <1>2, <1>3, MapTruth

LEMMA IoTruth ==
  ASSUME PipeInv, TruthInv, NEW samples \in IoPolls, IoTick(samples)
  PROVE  TruthInv'
<1> DEFINE active == {IoKey(s) : s \in {t \in samples : HotIo(t)}}
<1>1. /\ Tick(0, active, FALSE, FALSE) /\ UNCHANGED procPrimed
      /\ truth' = Append(truth, hot'[window])
  BY DEF IoTick
<1>2. active \in SUBSET MapKey
  BY PollsAssumption
<1> HIDE DEF active
<1>3. hot'[window] = active
  BY <1>1, <1>2, HotMap
<1> QED
  BY <1>1, <1>2, <1>3, MapTruth

LEMMA CallTruth ==
  ASSUME PipeInv, TruthInv, NEW gap, NEW samples \in CallPolls, CallTick(gap, samples)
  PROVE  TruthInv'
<1> DEFINE active == {CallKey(s) : s \in {t \in samples : HotCall(t)}}
<1>1. /\ Tick(gap, active, FALSE, FALSE) /\ UNCHANGED procPrimed
      /\ truth' = Append(truth, hot'[window])
  BY DEF CallTick
<1>2. active \in SUBSET MapKey
  BY PollsAssumption
<1> HIDE DEF active
<1>3. hot'[window] = active
  BY <1>1, <1>2, HotMap
<1> QED
  BY <1>1, <1>2, <1>3, MapTruth

\* A lock window with these groups and this cut.
LockWindow(gap, groups, kept) ==
  /\ kept \in Kept(Candidates(LockSamplesOf(groups, targeted, Period), includeBlocking))
  /\ Tick(gap, ActiveOf(kept), FALSE, FALSE)
  /\ HandOn({BuildLockReport(CHOOSE s \in kept : s.id = g.key, Span(g)) : g \in signals'})

LEMMA LockTickIs ==
  ASSUME NEW gap, NEW waits, LockTick(gap, waits)
  PROVE  \E groups \in Groupings[waits] : \E kept : LockWindow(gap, groups, kept)
<1>1. \E groups \in Groupings[waits] :
        \E samples \in {Candidates(LockSamplesOf(groups, targeted, Period), includeBlocking)} :
          \E kept \in Kept(samples) :
            /\ \E active \in {{s.id : s \in {t \in kept : Contended(t)}}} :
                 Tick(gap, active, FALSE, FALSE)
            /\ HandOn({BuildLockReport(CHOOSE s \in kept : s.id = g.key, Span(g)) : g \in signals'})
  BY Zenon DEF LockTick
<1>2. PICK groups \in Groupings[waits] :
        \E samples \in {Candidates(LockSamplesOf(groups, targeted, Period), includeBlocking)} :
          \E kept \in Kept(samples) :
            /\ \E active \in {{s.id : s \in {t \in kept : Contended(t)}}} :
                 Tick(gap, active, FALSE, FALSE)
            /\ HandOn({BuildLockReport(CHOOSE s \in kept : s.id = g.key, Span(g)) : g \in signals'})
  BY <1>1, Zenon
<1>3. PICK kept \in Kept(Candidates(LockSamplesOf(groups, targeted, Period), includeBlocking)) :
        /\ \E active \in {{s.id : s \in {t \in kept : Contended(t)}}} :
             Tick(gap, active, FALSE, FALSE)
        /\ HandOn({BuildLockReport(CHOOSE s \in kept : s.id = g.key, Span(g)) : g \in signals'})
  BY <1>2, Zenon
<1>4. Tick(gap, ActiveOf(kept), FALSE, FALSE)
  BY <1>3 DEF ActiveOf
<1>5. LockWindow(gap, groups, kept)
  BY <1>3, <1>4 DEF LockWindow
<1> QED
  BY <1>5

LEMMA LockTruth ==
  ASSUME PipeInv, TruthInv, NEW gap, NEW waits \in Waits, LockTick(gap, waits)
  PROVE  TruthInv'
<1>1. PICK groups \in Groupings[waits] : \E kept : LockWindow(gap, groups, kept)
  BY LockTickIs
<1>a. PICK kept : LockWindow(gap, groups, kept)
  BY <1>1
<1>2. /\ kept \in Kept(Candidates(LockSamplesOf(groups, targeted, Period), includeBlocking))
      /\ Tick(gap, ActiveOf(kept), FALSE, FALSE)
  BY <1>a DEF LockWindow
<1>3. FitsTopN => Cardinality(LongAt(waits)) <= topN
  BY DEF FitsTopN
<1>4. /\ ActiveOf(kept) \subseteq TrulyContended(waits)
      /\ FitsTopN => TrulyContended(waits) \subseteq ActiveOf(kept)
  BY <1>2, <1>3, ActiveIsTrue
<1>5. truth' = Append(truth, TrulyContended(waits)) /\ UNCHANGED procPrimed
  BY DEF LockTick
<1>6. TrulyContended(waits) \in SUBSET MapKey /\ ActiveOf(kept) \in SUBSET MapKey
  BY <1>4 DEF TrulyContended, LongAt, LockIds
<1> QED
  BY <1>2, <1>4, <1>5, <1>6, MapTruth

LEMMA MemTruth ==
  ASSUME PipeInv, TruthInv, NEW gap, NEW gauge \in BOOLEAN, NEW facts \in Facts,
         MemTick(gap, gauge, facts)
  PROVE  TruthInv'
<1> DEFINE snap == SnapOf(gauge, facts, procPrimed, targeted)
           pressure == hasOrdinaryMemPressure(snap)
           true == TrulyPressed(gauge, facts)
<1>1. procPrimed' = NeedProcAttribution(gauge, facts)
  BY DEF MemTick
<1>2. Tick(gap, {}, pressure, snap.oom) /\ truth' = Append(truth, true)
  <2>1. PICK sn \in {MemSnapshot(gauge, facts, procPrimed', procPrimed, targeted)} :
          \E pr \in {hasOrdinaryMemPressure(sn)} : Tick(gap, {}, pr, sn.oom)
    BY Zenon DEF MemTick
  <2>2. sn = snap
    BY <1>1, <2>1 DEF SnapOf
  <2> QED
    BY <2>1, <2>2 DEF MemTick
<1>3. snap.oom \in BOOLEAN /\ pressure \in BOOLEAN
  <2>1. IsSnap(snap, gauge, facts, Seen(facts, NeedProcAttribution(gauge, facts), procPrimed), targeted)
    BY SnapIs
  <2>2. snap.oom \in BOOLEAN
    BY <2>1 DEF IsSnap
  <2> HIDE DEF snap
  <2> QED
    BY <2>2 DEF hasOrdinaryMemPressure
<1>4. /\ pressure /\ ~snap.oom => Mem \in true
      /\ Mem \in true => procPrimed' /\ (procPrimed => pressure /\ ~snap.oom)
  <2>1. targeted \in BOOLEAN /\ procPrimed \in BOOLEAN
    BY DEF TruthInv
  <2> QED
    BY <1>1, <2>1, PressureIsTrue
<1>5. true \in SUBSET {Mem}
  BY DEF TrulyPressed
<1>6. procPrimed' \in BOOLEAN
  BY <1>1 DEF NeedProcAttribution, SystemPressure
<1> HIDE DEF snap, pressure, true
<1>7. SeenTrue({} \cup (IF pressure /\ ~snap.oom THEN {Mem} ELSE {}), true, procPrimed, procPrimed')
  <2>1. CASE pressure /\ ~snap.oom
    BY <1>4, <1>5, <2>1 DEF SeenTrue
  <2>2. CASE ~(pressure /\ ~snap.oom)
    BY <1>4, <1>5, <2>2 DEF SeenTrue
  <2> QED
    BY <2>1, <2>2
<1>8. {} \in SUBSET MapKey
  OBVIOUS
<1> QED
  BY <1>2, <1>3, <1>6, <1>7, <1>8, TruthStep

LEMMA TruthInit == PipelineInit => TruthInv
<1> SUFFICES ASSUME PipelineInit PROVE TruthInv
  OBVIOUS
<1>1. truth = <<>> /\ hot = <<>>
  BY DEF PipelineInit, Init
<1>2. IsSeq(<<>>) /\ Len(<<>>) = 0
  <2>1. AggInv(NewAggregator, {}) /\ NewAggregator.reports = <<>>
    BY NothingYet DEF NewAggregator
  <2> QED
    BY <2>1 DEF AggInv
<1>3. \A n \in 1 .. 0 : FALSE
  OBVIOUS
<1>4. procPrimed \in BOOLEAN /\ targeted \in BOOLEAN /\ includeBlocking \in BOOLEAN
  BY DEF PipelineInit
<1> QED
  BY <1>1, <1>2, <1>3, <1>4 DEF TruthInv

LEMMA TruthNext ==
  ASSUME PipeInv, TruthInv, [PipelineNext]_pipelineVars
  PROVE  TruthInv'
<1>1. ASSUME NEW samples \in CpuPolls, CpuTick(samples) PROVE TruthInv'
  BY <1>1, CpuTruth
<1>2. ASSUME NEW samples \in IoPolls, IoTick(samples) PROVE TruthInv'
  BY <1>2, IoTruth
<1>3. ASSUME NEW gap, NEW samples \in CallPolls, CallTick(gap, samples)
      PROVE  TruthInv'
  BY <1>3, CallTruth
<1>4. ASSUME NEW gap, NEW waits \in Waits, LockTick(gap, waits)
      PROVE  TruthInv'
  BY <1>4, LockTruth
<1>5. ASSUME NEW gap, NEW gauge \in BOOLEAN, NEW facts \in Facts, MemTick(gap, gauge, facts)
      PROVE  TruthInv'
  BY <1>5, MemTruth
<1>6. CASE UNCHANGED pipelineVars
  <2>1. UNCHANGED <<hot, truth, procPrimed, targeted, includeBlocking>>
    BY <1>6 DEF pipelineVars, flags, vars
  <2> QED
    BY <2>1 DEF TruthInv
<1> QED
  BY <1>1, <1>2, <1>3, <1>4, <1>5, <1>6 DEF PipelineNext

LEMMA WindowsSeen == PipeInv => DOMAIN hot = 1 .. Len(hot)
<1>1. PipeInv => hot \in Seq(SUBSET Key)
  BY DEF PipeInv, StreakInv, TypeOK
<1> QED
  BY <1>1, LenProperties

LEMMA HotIsTrueBy ==
  ASSUME FitsTopN, PipeInv, TruthInv
  PROVE  HotIsTrue
<1>1. DOMAIN hot = 1 .. Len(hot)
  BY WindowsSeen
<1>2. \A n \in 1 .. Len(hot) : hot[n] \subseteq truth[n] /\ truth[n] \subseteq hot[n] \cup {Mem}
  BY DEF TruthInv
<1>3. \A n \in 1 .. Len(hot) : n > 1 /\ Mem \in truth[n - 1] \cap truth[n] => Mem \in hot[n]
  BY DEF TruthInv
<1>4. \A n \in 1 .. Len(hot) : hot[n] \ {Mem} = truth[n] \ {Mem} /\ (Mem \in hot[n] => Mem \in truth[n])
  BY <1>2
<1> QED
  BY <1>1, <1>3, <1>4 DEF HotIsTrue

(***************************************************************************)
(* No window counts for what its facts do not put over the threshold: no   *)
(* false alarm, whatever was cut.  The cut can only hide a lock.           *)
(***************************************************************************)
HotForCause == \A n \in DOMAIN hot : hot[n] \subseteq truth[n]

THEOREM NoFalseHeat == PipelineSpec => []HotForCause
<1>1. TruthInv /\ PipeInv /\ [PipelineNext]_pipelineVars => TruthInv'
  BY TruthNext
<1>2. TruthInv /\ PipeInv => HotForCause
  BY WindowsSeen DEF TruthInv, HotForCause
<1> QED
  BY <1>1, <1>2, TruthInit, PipeHolds, PTL DEF PipelineSpec

(***************************************************************************)
(* A detector counts a window exactly for what the window's facts put over *)
(* the threshold, whatever the grouping, the sorting and the cut, as long  *)
(* as no window has more locks waited at for long than --lock-topn; growth *)
(* of memory shows from the second window of pressure on.                  *)
(***************************************************************************)
THEOREM HotHolds == ASSUME FitsTopN PROVE PipelineSpec => []HotIsTrue
<1>1. TruthInv /\ PipeInv /\ [PipelineNext]_pipelineVars => TruthInv'
  BY TruthNext
<1>2. TruthInv /\ PipeInv => HotIsTrue
  BY HotIsTrueBy
<1> QED
  BY <1>1, <1>2, TruthInit, PipeHolds, PTL DEF PipelineSpec

----------------------------------------------------------------------------
(* Whom the reports blame.                                                 *)

\* A window of pressure has read /proc.
PrimedInv ==
  /\ procPrimed \in BOOLEAN /\ targeted \in BOOLEAN /\ includeBlocking \in BOOLEAN
  /\ Len(hot) > 0 /\ Mem \in hot[Len(hot)] => procPrimed

LEMMA MapPrimed ==
  ASSUME PipeInv, PrimedInv, NEW gap, NEW active \in SUBSET MapKey,
         Tick(gap, active, FALSE, FALSE), UNCHANGED procPrimed
  PROVE  PrimedInv'
<1>1. hot'[window] = active /\ Len(hot') = window
  BY HotMap, HotGrows DEF Tick, PipeInv
<1>2. Mem \notin active
  BY KeyTypes
<1> QED
  BY <1>1, <1>2 DEF PrimedInv, Tick, flags

\* What the memory detector does in a window.
MemWindow(gap, gauge, facts, snap) ==
  /\ scenario = "mem" /\ procPrimed' = NeedProcAttribution(gauge, facts)
  /\ snap = SnapOf(gauge, facts, procPrimed, targeted)
  /\ Tick(gap, {}, hasOrdinaryMemPressure(snap), snap.oom)
  /\ HandOn({BuildMemReport(snap.oom, Culprit(snap), targeted, Span(g)) :
              g \in signals' \cup (IF snap.oom THEN {Incident(Mem, window, window)} ELSE {})})
  /\ snap.oom \in BOOLEAN /\ hasOrdinaryMemPressure(snap) \in BOOLEAN

LEMMA MemTickIs ==
  ASSUME NEW gap, NEW gauge \in BOOLEAN, NEW facts \in Facts, MemTick(gap, gauge, facts)
  PROVE  MemWindow(gap, gauge, facts, SnapOf(gauge, facts, procPrimed, targeted))
<1> DEFINE snap == SnapOf(gauge, facts, procPrimed, targeted)
<1>1. procPrimed' = NeedProcAttribution(gauge, facts) /\ scenario = "mem"
  BY DEF MemTick, Runs
<1>2. PICK sn \in {MemSnapshot(gauge, facts, procPrimed', procPrimed, targeted)} :
        /\ \E pr \in {hasOrdinaryMemPressure(sn)} : Tick(gap, {}, pr, sn.oom)
        /\ HandOn({BuildMemReport(sn.oom, Culprit(sn), targeted, Span(g)) :
                    g \in signals' \cup (IF sn.oom THEN {Incident(Mem, window, window)} ELSE {})})
  BY Zenon DEF MemTick
<1>3. sn = snap
  BY <1>1, <1>2 DEF SnapOf
<1>4. snap.oom \in BOOLEAN
  <2>1. IsSnap(snap, gauge, facts, Seen(facts, NeedProcAttribution(gauge, facts), procPrimed), targeted)
    BY SnapIs
  <2> QED
    BY <2>1 DEF IsSnap
<1> HIDE DEF snap
<1>5. hasOrdinaryMemPressure(snap) \in BOOLEAN
  BY DEF hasOrdinaryMemPressure
<1>6. Tick(gap, {}, hasOrdinaryMemPressure(snap), snap.oom)
  BY <1>2, <1>3
<1> QED
  BY <1>1, <1>2, <1>3, <1>4, <1>5, <1>6 DEF MemWindow, snap

LEMMA MemPrimed ==
  ASSUME PipeInv, PrimedInv, NEW gap, NEW gauge \in BOOLEAN, NEW facts \in Facts,
         MemTick(gap, gauge, facts)
  PROVE  PrimedInv'
<1> DEFINE snap == SnapOf(gauge, facts, procPrimed, targeted)
           pressure == hasOrdinaryMemPressure(snap)
<1>1. MemWindow(gap, gauge, facts, snap)
  BY MemTickIs
<1>2. IsSnap(snap, gauge, facts, Seen(facts, NeedProcAttribution(gauge, facts), procPrimed), targeted)
  BY SnapIs
<1> HIDE DEF snap
<1>3. /\ Tick(gap, {}, pressure, snap.oom) /\ procPrimed' = NeedProcAttribution(gauge, facts)
      /\ pressure \in BOOLEAN /\ snap.oom \in BOOLEAN
  BY <1>1 DEF MemWindow
<1>4. pressure => NeedProcAttribution(gauge, facts)
  BY <1>2 DEF IsSnap, hasOrdinaryMemPressure, NeedProcAttribution
<1> HIDE DEF pressure
<1>5. /\ hot'[window] = {} \cup (IF pressure /\ ~snap.oom THEN {Mem} ELSE {})
      /\ Len(hot') = window
  <2>1. {} \in SUBSET MapKey /\ Observe({}, pressure, snap.oom) /\ StreakInv
    BY <1>3 DEF Tick, PipeInv
  <2> QED
    BY <1>3, <2>1, HotGrows
<1>6. Mem \in hot'[window] => pressure
  BY <1>5
<1>7. procPrimed' \in BOOLEAN
  BY <1>3 DEF NeedProcAttribution, SystemPressure
<1>8. UNCHANGED <<targeted, includeBlocking>>
  BY <1>3 DEF Tick, flags
<1> QED
  BY <1>3, <1>4, <1>5, <1>6, <1>7, <1>8 DEF PrimedInv

(* The reports of earlier windows end before this one. *)
LEMMA OldEnded ==
  ASSUME PipeInv, NEW gap \in 0 .. Tolerance, NEW active \in SUBSET MapKey, IsFiniteSet(active),
         NEW pressure \in BOOLEAN, NEW oom \in BOOLEAN, Tick(gap, active, pressure, oom),
         NEW q \in added
  PROVE  q.end # Last(end')
<1> DEFINE n == Len(hot)
<1>1. n \in Nat /\ window = n + 1
  BY HotGrows DEF Tick, PipeInv
<1>2. Ordered(start', end', n + 1) /\ \A i \in 1 .. n : end'[i] = end[i]
  BY <1>1, TickTimes DEF Extends
<1>3. PICK i \in 1 .. n : Dated(q, start, end, i)
  BY DEF PipeInv
<1> HIDE DEF n
<1>4. q.end = end'[i]
  BY <1>2, <1>3 DEF Dated
<1>5. Last(end') = end'[n + 1]
  BY <1>2 DEF Ordered, Last
<1>6. n + 1 \in Nat /\ i \in 1 .. (n + 1) /\ n + 1 \in 1 .. (n + 1) /\ i < n + 1
  BY <1>1
<1>7. end'[i] < end'[n + 1]
  BY <1>2, <1>6, Starts
<1>8. end'[i] \in Int /\ end'[n + 1] \in Int
  <2>1. \A j \in 1 .. (n + 1) : start'[j] \in Int /\ end'[j] = start'[j] + Period
    BY <1>2 DEF Ordered
  <2> QED
    BY <1>6, <2>1, PeriodPositive
<1> QED
  BY <1>4, <1>5, <1>7, <1>8

LEMMA FinalIs ==
  ASSUME NEW v, NEW object, NEW w, NEW m, NEW r, r = finalizeReport(AnomalyReport(v, object, w, m))
  PROVE  r.code = v.code /\ r.object = object /\ r.stack = m.stack
<1> DEFINE q == AnomalyReport(v, object, w, m)
<1>1. /\ q = [f \in Fields |-> q[f]]
      /\ q.code = v.code /\ q.object = object /\ q.stack = m.stack
  BY DEF AnomalyReport, Fields
<1> HIDE DEF q
<1>2. r = q \/ r = [q EXCEPT !.elapsed = q.end - q.start]
  BY DEF finalizeReport, q
<1> QED
  BY <1>1, <1>2 DEF Fields

\* r names one that may be blamed.
Blamed(r, who) ==
  r.code \in LockCodes \cup MemCodes => <<Place(r), r.object.pid, r.object.tid>> \in who

LEMMA BlameKept ==
  ASSUME PipeInv, NEW gap \in 0 .. Tolerance, NEW active \in SUBSET MapKey, IsFiniteSet(active),
         NEW pressure \in BOOLEAN, NEW oom \in BOOLEAN, Tick(gap, active, pressure, oom),
         NEW reports, HandOn(reports), \A q \in reports : Blamed(finalizeReport(q), guilty')
  PROVE  BlameEarned'
<1> SUFFICES ASSUME NEW r \in added', r.end = Last(end'), r.code \in LockCodes \cup MemCodes
             PROVE  <<Place(r), r.object.pid, r.object.tid>> \in guilty'
  BY DEF BlameEarned
<1>1. PICK order \in SetToSeqs({finalizeReport(q) : q \in reports}) : AddAll(order)
  BY DEF HandOn
<1>2. r \notin added
  BY OldEnded
<1>3. r \in ToSet(order)
  BY <1>1, <1>2 DEF AddAll
<1>4. PICK q \in reports : r = finalizeReport(q)
  <2>1. \E i \in DOMAIN order : r = order[i]
    BY <1>3 DEF ToSet
  <2> QED
    BY <1>1, <2>1 DEF SetToSeqs
<1> QED
  BY <1>4 DEF Blamed

LEMMA CpuBlame ==
  ASSUME PipeInv, NEW samples \in CpuPolls, CpuTick(samples)
  PROVE  BlameEarned'
<1> DEFINE active == {CpuKey(s) : s \in {t \in samples : HotCpu(t)}}
           h == [s \in samples |-> CpuKey(s)]
           pick(g) == CHOOSE s \in samples : CpuKey(s) = g.key
           reports == {BuildCPUReport(pick(g), Span(g)) : g \in signals'}
<1>1. Tick(0, active, FALSE, FALSE) /\ HandOn(reports)
  BY DEF CpuTick
<1>2. active \in SUBSET MapKey /\ active \in SUBSET {h[s] : s \in samples}
  BY PollsAssumption
<1>3. IsFiniteSet({h[s] : s \in samples}) /\ 0 \in 0 .. Tolerance
  <2>1. IsFiniteSet(samples)
    BY PollsAssumption
  <2> HIDE DEF h
  <2> QED
    BY <2>1, ImageFinite, PeriodPositive
<1>4. IsFiniteSet(active)
  <2> HIDE DEF active, h
  <2> QED
    BY <1>2, <1>3, FS_Subset
<1> HIDE DEF active, pick
<1>5. ASSUME NEW g PROVE Blamed(finalizeReport(BuildCPUReport(pick(g), Span(g))), guilty')
  <2> DEFINE s == pick(g)
             v == classifyCPU(s)
             r == finalizeReport(BuildCPUReport(s, Span(g)))
  <2>1. v.code \in CpuCodes
    BY DEF classifyCPU, Verdict, CpuCodes
  <2> DEFINE object == Object(s.pid, s.tid, "", 0, "process")
             metrics == NoMetrics
  <2>a. r = finalizeReport(AnomalyReport(v, object, Span(g), metrics))
    BY DEF BuildCPUReport
  <2> HIDE DEF v, r, object, metrics
  <2>2. r.code = v.code
    BY <2>a, FinalIs
  <2>3. Blamed(r, guilty')
    BY <2>1, <2>2 DEF Blamed, CpuCodes, LockCodes, MemCodes
  <2> QED
    BY <2>3 DEF r
<1>6. \A q \in reports : Blamed(finalizeReport(q), guilty')
  BY <1>5
<1> HIDE DEF reports
<1> QED
  BY <1>1, <1>2, <1>3, <1>4, <1>6, BlameKept

LEMMA IoBlame ==
  ASSUME PipeInv, NEW samples \in IoPolls, IoTick(samples)
  PROVE  BlameEarned'
<1> DEFINE active == {IoKey(s) : s \in {t \in samples : HotIo(t)}}
           h == [s \in samples |-> IoKey(s)]
           pick(g) == CHOOSE s \in samples : IoKey(s) = g.key
           reports == {BuildIOReport(pick(g), Span(g)) : g \in signals'}
<1>1. Tick(0, active, FALSE, FALSE) /\ HandOn(reports)
  BY DEF IoTick
<1>2. active \in SUBSET MapKey /\ active \in SUBSET {h[s] : s \in samples}
  BY PollsAssumption
<1>3. IsFiniteSet({h[s] : s \in samples}) /\ 0 \in 0 .. Tolerance
  <2>1. IsFiniteSet(samples)
    BY PollsAssumption
  <2> HIDE DEF h
  <2> QED
    BY <2>1, ImageFinite, PeriodPositive
<1>4. IsFiniteSet(active)
  <2> HIDE DEF active, h
  <2> QED
    BY <1>2, <1>3, FS_Subset
<1> HIDE DEF active, pick
<1>5. ASSUME NEW g PROVE Blamed(finalizeReport(BuildIOReport(pick(g), Span(g))), guilty')
  <2> DEFINE s == pick(g)
             v == classifyIO(s)
             r == finalizeReport(BuildIOReport(s, Span(g)))
  <2>1. v.code \in IoCodes
    BY DEF classifyIO, Verdict, IoCodes
  <2> DEFINE object == Object(0, 0, s.device, 0, "")
             metrics == NoMetrics
  <2>a. r = finalizeReport(AnomalyReport(v, object, Span(g), metrics))
    BY DEF BuildIOReport
  <2> HIDE DEF v, r, object, metrics
  <2>2. r.code = v.code
    BY <2>a, FinalIs
  <2>3. Blamed(r, guilty')
    BY <2>1, <2>2 DEF Blamed, IoCodes, LockCodes, MemCodes
  <2> QED
    BY <2>3 DEF r
<1>6. \A q \in reports : Blamed(finalizeReport(q), guilty')
  BY <1>5
<1> HIDE DEF reports
<1> QED
  BY <1>1, <1>2, <1>3, <1>4, <1>6, BlameKept

LEMMA CallBlame ==
  ASSUME PipeInv, NEW gap \in 0 .. Tolerance, NEW samples \in CallPolls, CallTick(gap, samples)
  PROVE  BlameEarned'
<1> DEFINE active == {CallKey(s) : s \in {t \in samples : HotCall(t)}}
           h == [s \in samples |-> CallKey(s)]
           pick(g) == CHOOSE s \in samples : CallKey(s) = g.key
           reports == {BuildSyscallReport(pick(g), targeted, Span(g)) : g \in signals'}
<1>1. Tick(gap, active, FALSE, FALSE) /\ HandOn(reports)
  BY DEF CallTick
<1>2. active \in SUBSET MapKey /\ active \in SUBSET {h[s] : s \in samples}
  BY PollsAssumption
<1>3. IsFiniteSet({h[s] : s \in samples})
  <2>1. IsFiniteSet(samples)
    BY PollsAssumption
  <2> HIDE DEF h
  <2> QED
    BY <2>1, ImageFinite
<1>4. IsFiniteSet(active)
  <2> HIDE DEF active, h
  <2> QED
    BY <1>2, <1>3, FS_Subset
<1> HIDE DEF active, pick
<1>5. ASSUME NEW g
      PROVE  Blamed(finalizeReport(BuildSyscallReport(pick(g), targeted, Span(g))), guilty')
  <2> DEFINE s == pick(g)
             v == classifySyscall(s)
             r == finalizeReport(BuildSyscallReport(s, targeted, Span(g)))
  <2>1. v.code \in CallCodes
    BY DEF classifySyscall, Verdict, CallCodes
  <2> DEFINE object == Object(s.pid, 0, "", 0, IF targeted THEN "target_tree" ELSE "process")
             metrics == Metrics(s.call, 0, s.totalMs, s.calls)
  <2>a. r = finalizeReport(AnomalyReport(v, object, Span(g), metrics))
    BY DEF BuildSyscallReport
  <2> HIDE DEF v, r, object, metrics
  <2>2. r.code = v.code
    BY <2>a, FinalIs
  <2>3. Blamed(r, guilty')
    BY <2>1, <2>2 DEF Blamed, CallCodes, LockCodes, MemCodes
  <2> QED
    BY <2>3 DEF r
<1>6. \A q \in reports : Blamed(finalizeReport(q), guilty')
  BY <1>5
<1> HIDE DEF reports
<1> QED
  BY <1>1, <1>2, <1>3, <1>4, <1>6, BlameKept

LEMMA LockBlame ==
  ASSUME PipeInv, NEW gap \in 0 .. Tolerance, NEW waits \in Waits, LockTick(gap, waits)
  PROVE  BlameEarned'
<1>1. PICK groups \in Groupings[waits] : \E kept : LockWindow(gap, groups, kept)
  BY LockTickIs
<1>a. PICK kept : LockWindow(gap, groups, kept)
  BY <1>1
<1>2. /\ kept \in Kept(Candidates(LockSamplesOf(groups, targeted, Period), includeBlocking))
      /\ Tick(gap, ActiveOf(kept), FALSE, FALSE)
      /\ HandOn({BuildLockReport(CHOOSE s \in kept : s.id = g.key, Span(g)) : g \in signals'})
  BY <1>a DEF LockWindow
<1> DEFINE pick(g) == CHOOSE s \in kept : s.id = g.key
           reports == {BuildLockReport(pick(g), Span(g)) : g \in signals'}
<1>3. Tick(gap, ActiveOf(kept), FALSE, FALSE) /\ HandOn(reports)
  BY <1>2
<1>4. IsFiniteSet(kept) /\ \A s \in kept : LockSampleOK(s)
  BY <1>2, SamplesMade
<1>5. ActiveOf(kept) \in SUBSET MapKey /\ IsFiniteSet(ActiveOf(kept))
  <2> DEFINE h == [s \in kept |-> s.id]
             all == {h[s] : s \in kept}
  <2>1. IsFiniteSet(all)
    BY <1>4, ImageFinite
  <2>2. ActiveOf(kept) \in SUBSET all /\ ActiveOf(kept) \in SUBSET MapKey
    BY <1>4 DEF LockSampleOK, ActiveOf
  <2> HIDE DEF all
  <2> QED
    BY <2>1, <2>2, FS_Subset
<1>6. \A g \in signals' : g.key \in ActiveOf(kept)
  BY <1>3, <1>5, MapSignals
<1>7. \A s \in kept : Says(s, waits, s.id)
  <2> SUFFICES ASSUME NEW s \in kept PROVE Says(s, waits, s.id)
    OBVIOUS
  <2>1. s \in LockSamplesOf(groups, targeted, Period)
    BY <1>2 DEF Kept, Candidates
  <2>2. PICK id \in DOMAIN groups : s = SampleOf(id, groups[id], targeted, Period)
    BY <2>1 DEF LockSamplesOf
  <2>3. Says(s, waits, id)
    BY <2>2, SampleSays
  <2>4. s.id = id
    BY <2>3 DEF Says
  <2> QED
    BY <2>3, <2>4
<1>8. \A g \in signals' : pick(g) \in kept /\ pick(g).id = g.key
  BY <1>6 DEF ActiveOf
<1>9. guilty' = UNION {{<<g.key, g.key[2], t>> : t \in LongestAt(waits, g.key)} : g \in signals'}
  BY DEF LockTick
<1> HIDE DEF pick
<1>10. ASSUME NEW g \in signals'
       PROVE  Blamed(finalizeReport(BuildLockReport(pick(g), Span(g))), guilty')
  <2> DEFINE s == pick(g)
             id == g.key
             v == classifyLock(s)
             object == Object(s.pid, s.tid, "", s.address,
                              IF s.targeted THEN "target_tree" ELSE "process")
             metrics == Metrics(0, s.stack, s.ratio, s.total)
             r == finalizeReport(BuildLockReport(s, Span(g)))
  <2>1. Says(s, waits, id)
    BY <1>7, <1>8
  <2> HIDE DEF s
  <2>2. v.code \in LockCodes
    BY DEF classifyLock, Verdict, LockCodes
  <2>a. r = finalizeReport(AnomalyReport(v, object, Span(g), metrics))
    BY DEF BuildLockReport
  <2>b. metrics.stack = s.stack
    BY DEF Metrics
  <2>c. object.pid = s.pid /\ object.address = s.address /\ object.tid = s.tid
    BY DEF Object
  <2> HIDE DEF v, r, object, metrics
  <2>3. r.code = v.code /\ r.stack = s.stack /\ r.object = object
    BY <2>a, <2>b, FinalIs
  <2>4. r.object.pid = id[2] /\ r.object.address = id[3] /\ r.object.tid = s.tid
    BY <2>1, <2>3, <2>c DEF Says
  <2>5. Place(r) = id
    <3>1. Place(r) = identityOfLock([pid |-> id[2], address |-> id[3], stack |-> s.stack])
      BY <2>2, <2>3, <2>4 DEF Place, isLockReport
    <3>2. Place(r) = <<"lock", id[2], id[3], IF id[3] = 0 THEN s.stack ELSE 0>>
      BY <3>1 DEF identityOfLock
    <3>3. id = <<"lock", id[2], id[3], IF id[3] = 0 THEN id[4] ELSE 0>>
      BY <2>1, LockIdIs DEF Says
    <3>4. id[3] = 0 => s.stack = id[4]
      BY <2>1 DEF Says
    <3> HIDE DEF id
    <3>5. CASE id[3] = 0
      BY <3>2, <3>3, <3>4, <3>5
    <3>6. CASE id[3] # 0
      BY <3>2, <3>3, <3>6
    <3> QED
      BY <3>5, <3>6
  <2>6. s.tid \in LongestAt(waits, id)
    BY <2>1 DEF Says
  <2>7. <<id, id[2], s.tid>> \in guilty'
    BY <1>9, <2>6
  <2>8. Blamed(r, guilty')
    BY <2>4, <2>5, <2>7 DEF Blamed
  <2> QED
    BY <2>8 DEF r, s
<1>11. \A q \in reports : Blamed(finalizeReport(q), guilty')
  BY <1>10
<1> HIDE DEF reports
<1> QED
  BY <1>3, <1>5, <1>11, BlameKept

(* The strongest of finitely many exists. *)
LEMMA MostIs ==
  ASSUME NEW S, IsFiniteSet(S), S # {}, NEW kind,
         \A f \in S : f[kind] \in Nat /\ f.pid \in Nat
  PROVE  Most(S, kind) \in S
<1> DEFINE h == [f \in S |-> f[kind]]
           V == {h[f] : f \in S}
<1>1. V \in SUBSET Nat /\ V # {}
  OBVIOUS
<1>2. IsFiniteSet(V)
  <2> HIDE DEF h
  <2> QED
    BY ImageFinite
<1> HIDE DEF V
<1>3. PICK x \in V : \A y \in V : y <= x
  BY <1>1, <1>2, Greatest
<1> DEFINE T == {f \in S : f[kind] = x}
           P == {f.pid : f \in T}
<1>4. P \in SUBSET Nat /\ P # {}
  BY <1>3 DEF V
<1> HIDE DEF P
<1>5. PICK p \in P : \A q \in P : p <= q
  BY <1>4, Least
<1>6. PICK f \in T : f.pid = p
  BY <1>5 DEF P
<1>7. ASSUME NEW e \in S
      PROVE  f[kind] > e[kind] \/ (f[kind] = e[kind] /\ f.pid <= e.pid)
  <2>1. f[kind] = x /\ e[kind] \in V
    BY <1>6 DEF V
  <2>2. x \in Nat /\ e[kind] \in Nat /\ e[kind] <= x
    BY <1>1, <1>3, <2>1
  <2>3. CASE e[kind] = x
    <3>1. e \in T
      BY <2>3
    <3>2. e.pid \in P
      BY <3>1 DEF P
    <3> QED
      BY <1>5, <1>6, <2>1, <2>3, <3>2
  <2>4. CASE e[kind] # x
    BY <2>1, <2>2, <2>4
  <2> QED
    BY <2>3, <2>4
<1>8. f \in S
  BY <1>6
<1> QED
  BY <1>7, <1>8, Zenon DEF Most

LEMMA MostStalledIs ==
  ASSUME NEW procs, IsFiniteSet(Stalled(procs)), Stalled(procs) # {},
         \A f \in Stalled(procs) : f.stalls \in Nat /\ f.reclaim \in Nat /\ f.pid \in Nat
  PROVE  MostStalled(procs) \in Stalled(procs)
<1> DEFINE R == Stalled(procs)
           h == [f \in R |-> f.reclaim]
           V == {h[f] : f \in R}
           L == {f \in R : \A e \in R : e.reclaim <= f.reclaim}
<1>1. V \in SUBSET Nat /\ V # {} /\ IsFiniteSet(V)
  <2>1. V \in SUBSET Nat /\ V # {}
    OBVIOUS
  <2> HIDE DEF h, R
  <2> QED
    BY <2>1, ImageFinite DEF R
<1> HIDE DEF V
<1>2. PICK x \in V : \A y \in V : y <= x
  BY <1>1, Greatest
<1>3. L # {}
  <2>1. PICK f \in R : f.reclaim = x
    BY DEF V
  <2>2. \A e \in R : e.reclaim \in V
    BY DEF V
  <2> QED
    BY <1>2, <2>1, <2>2
<1>4. L \in SUBSET R /\ IsFiniteSet(L)
  <2>1. L \in SUBSET R
    OBVIOUS
  <2> HIDE DEF L
  <2> QED
    BY <2>1, FS_Subset
<1>5. \A f \in L : f["stalls"] \in Nat /\ f.pid \in Nat
  BY <1>4
<1>6. MostStalled(procs) = Most(L, "stalls")
  BY DEF MostStalled
<1> HIDE DEF L
<1>7. Most(L, "stalls") \in L
  BY <1>3, <1>4, <1>5, MostIs
<1> QED
  BY <1>4, <1>6, <1>7

LEMMA ScopeIs ==
  ASSUME targeted \in BOOLEAN
  PROVE  InScope = {p \in Proc : containsTGID(targeted, p)}
BY MemAssumption DEF InScope, containsTGID

(* The victim named is one in scope, or nobody if there is none. *)
LEMMA VictimEarned ==
  ASSUME NEW facts \in Facts, targeted \in BOOLEAN, NEW V,
         V = {p \in Victims(facts) : containsTGID(targeted, p)}
  PROVE  pickOOMVictim(V).pid \in SuspectVictims(facts)
<1>1. V = Victims(facts) \cap InScope
  BY ScopeIs DEF Victims
<1>2. CASE V = {}
  BY <1>1, <1>2 DEF pickOOMVictim, Nobody, SuspectVictims
<1>3. CASE V # {}
  <2>1. V \in SUBSET Nat
    BY MemAssumption DEF Victims
  <2>2. PICK x \in V : \A y \in V : x <= y
    BY <1>3, <2>1, Least
  <2>3. Min(V) = x
    BY <2>1, <2>2, MinIs
  <2>4. pickOOMVictim(V) = [Nobody EXCEPT !.pid = x]
    BY <1>3, <2>3 DEF pickOOMVictim
  <2>5. pickOOMVictim(V).pid = x
    BY <2>4 DEF Nobody
  <2> QED
    BY <1>1, <1>3, <2>2, <2>5 DEF SuspectVictims
<1> QED
  BY <1>2, <1>3

(* The culprit named has the strongest evidence in scope. *)
LEMMA CulpritEarned ==
  ASSUME NEW facts \in Facts, targeted \in BOOLEAN, NEW procs,
         procs = {Shown(facts[p], p) :
                    p \in {q \in Proc : containsTGID(targeted, q) /\ Collected(facts[q])}}
  PROVE  pickCulprit(procs).pid \in Suspects(facts)
<1> DEFINE Q == {q \in InScope : Collected(facts[q])}
           sh == [p \in Q |-> Shown(facts[p], p)]
           R == Stalled(procs)
           G == {f \in procs : f.growth >= GrowthSignal}
           M == {f \in procs : f.faults >= FaultSignal}
           c == pickCulprit(procs)
<1>1. procs = {sh[p] : p \in Q} /\ InScope \in SUBSET Proc
  BY ScopeIs
<1>2. IsFiniteSet(procs)
  <2>1. IsFiniteSet(Q)
    <3>1. Q \in SUBSET Proc
      BY <1>1
    <3> HIDE DEF Q
    <3> QED
      BY <3>1, FactsAssumption, FS_Subset
  <2> HIDE DEF Q, sh
  <2> QED
    BY <1>1, <2>1, ImageFinite
<1>3. ASSUME NEW p \in Proc
      PROVE  /\ facts[p].stalls \in Nat /\ facts[p].reclaim \in Nat
             /\ facts[p].growth \in Int /\ facts[p].faults \in Nat
             /\ facts[p].reclaim > 0 => facts[p].stalls > 0
  <2>1. facts[p] \in [stalls : Nat, reclaim : Nat, growth : Int, faults : Nat, marked : Nat]
    BY FactsAssumption
  <2>2. facts[p].reclaim > 0 => facts[p].stalls > 0
    BY FactsAssumption
  <2> QED
    BY <2>1, <2>2
<1>4. ASSUME NEW f \in procs
      PROVE  /\ f.pid \in InScope /\ f.pid \in Nat
             /\ f.stalls = facts[f.pid].stalls /\ f.stalls \in Nat
             /\ f.reclaim = facts[f.pid].reclaim /\ f.growth = facts[f.pid].growth
             /\ f.faults = facts[f.pid].faults
             /\ f.reclaim \in Nat /\ f.growth \in Int /\ f.faults \in Nat
  <2>1. PICK p \in Q : f = Shown(facts[p], p)
    BY <1>1
  <2>2. p \in InScope /\ p \in Proc /\ p \in Nat
    BY <1>1, MemAssumption
  <2>3. /\ f.pid = p /\ f.stalls = facts[p].stalls /\ f.reclaim = facts[p].reclaim /\ f.growth = facts[p].growth
        /\ f.faults = facts[p].faults
    BY <2>1 DEF Shown
  <2> QED
    BY <1>3, <2>2, <2>3
<1>5. ASSUME NEW p \in InScope
      PROVE  /\ facts[p].stalls > 0 => R # {}
             /\ facts[p].growth >= GrowthSignal => G # {}
             /\ facts[p].faults >= FaultSignal => M # {}
  <2>1. facts[p].stalls \in Nat /\ facts[p].growth \in Int /\ facts[p].faults \in Nat
    BY <1>1, <1>3
  <2> DEFINE f == Shown(facts[p], p)
  <2>2. /\ f.stalls = facts[p].stalls /\ f.growth = facts[p].growth
        /\ f.faults = facts[p].faults
    BY DEF Shown
  <2>3. Collected(facts[p]) => f \in procs
    BY <1>1
  <2>4. /\ facts[p].stalls > 0 => Collected(facts[p])
        /\ facts[p].growth >= GrowthSignal => Collected(facts[p])
        /\ facts[p].faults >= FaultSignal => Collected(facts[p])
    BY <2>1 DEF Collected, FaultSignal
  <2> HIDE DEF f
  <2> QED
    BY <2>2, <2>3, <2>4 DEF Stalled
<1>6. \A p \in InScope : Strength(facts[p]) \in 0 .. 3
  BY DEF Strength
<1> HIDE DEF Q, sh
<1>7. CASE R # {}
  <2>1. c = MostStalled(procs)
    BY <1>7 DEF pickCulprit
  <2>2. IsFiniteSet(R) /\ \A f \in R : f.stalls \in Nat /\ f.reclaim \in Nat /\ f.pid \in Nat
    <3>1. R \in SUBSET procs
      BY DEF Stalled
    <3> QED
      BY <1>2, <1>4, <3>1, FS_Subset
  <2>3. c \in R
    <3> HIDE DEF R, c
    <3> QED
      BY <1>7, <2>1, <2>2, MostStalledIs DEF R
  <2> HIDE DEF c
  <2>4. c.pid \in InScope /\ Strength(facts[c.pid]) = 3
    <3>1. c \in procs /\ (c.stalls > 0 \/ c.reclaim > 0)
      BY <2>3 DEF Stalled
    <3>2. c.pid \in Proc /\ facts[c.pid].stalls > 0
      BY <1>1, <1>3, <1>4, <3>1
    <3> QED
      BY <1>4, <3>1, <3>2 DEF Strength
  <2>5. \A q \in InScope : Strength(facts[q]) <= Strength(facts[c.pid])
    BY <1>6, <2>4
  <2> QED
    BY <2>4, <2>5 DEF Suspects, c
<1>8. CASE R = {} /\ G # {}
  <2>1. c = Most(G, "growth")
    BY <1>8 DEF pickCulprit
  <2>2. IsFiniteSet(G) /\ \A f \in G : f["growth"] \in Nat /\ f.pid \in Nat
    <3>1. G \in SUBSET procs
      OBVIOUS
    <3> QED
      BY <1>2, <1>4, <3>1, FS_Subset DEF GrowthSignal
  <2>3. c \in G
    <3> HIDE DEF G, c
    <3> QED
      BY <1>8, <2>1, <2>2, MostIs
  <2> HIDE DEF c
  <2>4. c.pid \in InScope /\ Strength(facts[c.pid]) = 2
    BY <1>4, <1>5, <1>8, <2>3 DEF Strength
  <2>5. \A q \in InScope : Strength(facts[q]) <= 2
    <3>1. ASSUME NEW q \in InScope
          PROVE  /\ ~(facts[q].stalls > 0)
      <4> HIDE DEF R, G, M
      <4> QED
        BY <1>5, <1>8
    <3> QED
      BY <3>1 DEF Strength
  <2> QED
    BY <2>4, <2>5 DEF Suspects, c
<1>9. CASE R = {} /\ G = {} /\ M # {}
  <2>1. c = Most(M, "faults")
    BY <1>9 DEF pickCulprit
  <2>2. IsFiniteSet(M) /\ \A f \in M : f["faults"] \in Nat /\ f.pid \in Nat
    <3>1. M \in SUBSET procs
      OBVIOUS
    <3> QED
      BY <1>2, <1>4, <3>1, FS_Subset
  <2>3. c \in M
    <3> HIDE DEF M, c
    <3> QED
      BY <1>9, <2>1, <2>2, MostIs
  <2> HIDE DEF c
  <2>4. c.pid \in InScope /\ Strength(facts[c.pid]) = 1
    BY <1>4, <1>5, <1>9, <2>3 DEF Strength
  <2>5. \A q \in InScope : Strength(facts[q]) <= 1
    <3>1. ASSUME NEW q \in InScope
          PROVE  /\ ~(facts[q].stalls > 0) /\ ~(facts[q].growth >= GrowthSignal)
      <4> HIDE DEF R, G, M
      <4> QED
        BY <1>5, <1>9
    <3> QED
      BY <3>1 DEF Strength
  <2> QED
    BY <2>4, <2>5 DEF Suspects, c
<1>10. CASE R = {} /\ G = {} /\ M = {}
  <2>1. c = Nobody
    BY <1>10 DEF pickCulprit
  <2>2. c.pid = 0
    BY <2>1 DEF Nobody
  <2>3. \A q \in InScope : ~(Strength(facts[q]) > 0)
    <3>1. ASSUME NEW q \in InScope
          PROVE  /\ ~(facts[q].stalls > 0) /\ ~(facts[q].growth >= GrowthSignal)
                 /\ ~(facts[q].faults >= FaultSignal)
      <4> HIDE DEF R, G, M
      <4> QED
        BY <1>5, <1>10
    <3> QED
      BY <3>1 DEF Strength
  <2> QED
    BY <2>2, <2>3 DEF Suspects
<1> QED
  BY <1>7, <1>8, <1>9, <1>10

(* When a pressure episode is reported, growth and faults are known. *)
LEMMA PressureSeen ==
  ASSUME sustain >= 2, PipeInv, PrimedInv, NEW pressure \in BOOLEAN, NEW oom \in BOOLEAN,
         MemFires(pressure, oom)
  PROVE  procPrimed /\ pressure /\ ~oom
<1>1. pressure /\ ~oom /\ count + 1 >= SustainTicks
  BY DEF MemFires, Restarts
<1>2. count \in Nat /\ Stretch(Mem, hot, count, memFirstSeen) /\ Len(hot) \in Nat
  <2>1. hot \in Seq(SUBSET Key)
    BY DEF PipeInv, StreakInv, TypeOK
  <2> QED
    BY <2>1, LenProperties DEF PipeInv, StreakInv, TypeOK, StreaksCounted
<1>3. SustainTicks >= 2
  BY DetectorAssumption DEF SustainTicks
<1>4. count > 0 /\ count <= Len(hot)
  BY <1>1, <1>2, <1>3, SustainPositive DEF Stretch
<1>5. Len(hot) \in (Len(hot) - count + 1) .. Len(hot)
  BY <1>2, <1>4
<1>6. Mem \in hot[Len(hot)] /\ Len(hot) > 0
  BY <1>2, <1>4, <1>5 DEF Stretch
<1> QED
  BY <1>1, <1>6 DEF PrimedInv

LEMMA MemBlame ==
  ASSUME sustain >= 2, PipeInv, PrimedInv, NEW gap \in 0 .. Tolerance,
         NEW gauge \in BOOLEAN, NEW facts \in Facts, MemTick(gap, gauge, facts)
  PROVE  BlameEarned'
<1> DEFINE snap == SnapOf(gauge, facts, procPrimed, targeted)
           pressure == hasOrdinaryMemPressure(snap)
           need == NeedProcAttribution(gauge, facts)
           seen == Seen(facts, need, procPrimed)
           shown == signals' \cup (IF snap.oom THEN {Incident(Mem, window, window)} ELSE {})
           reports == {BuildMemReport(snap.oom, Culprit(snap), targeted, Span(g)) : g \in shown}
           culprits == IF Victims(facts) # {} THEN SuspectVictims(facts)
                       ELSE IF signals' # {} THEN Suspects(facts) ELSE {}
<1>1. MemWindow(gap, gauge, facts, snap) /\ IsSnap(snap, gauge, facts, seen, targeted)
  BY MemTickIs, SnapIs
<1>2. guilty' = {<<"mem", p, 0>> : p \in culprits}
  BY DEF MemTick
<1>3. need \in BOOLEAN /\ procPrimed \in BOOLEAN /\ targeted \in BOOLEAN
  BY DEF NeedProcAttribution, SystemPressure, PrimedInv
<1> HIDE DEF snap, need, culprits
<1>4. /\ Tick(gap, {}, pressure, snap.oom) /\ HandOn(reports)
      /\ pressure \in BOOLEAN /\ snap.oom \in BOOLEAN
  BY <1>1 DEF MemWindow
<1>5. snap.oom = (Victims(facts) # {})
  BY <1>1 DEF IsSnap
<1>6. ASSUME NEW g \in shown PROVE Culprit(snap).pid \in culprits
  <2>1. CASE snap.oom
    <3>1. snap.victims = {p \in Victims(facts) : containsTGID(targeted, p)}
      BY <1>1 DEF IsSnap
    <3>2. pickOOMVictim(snap.victims).pid \in SuspectVictims(facts)
      BY <1>3, <3>1, VictimEarned
    <3> QED
      BY <1>5, <2>1, <3>2 DEF Culprit, culprits
  <2>2. CASE ~snap.oom
    <3>1. g \in signals'
      BY <2>2
    <3>2. MemFires(pressure, snap.oom)
      <4>1. {} \in SUBSET MapKey /\ IsFiniteSet({}) /\ StreakInv
        BY FS_EmptySet DEF PipeInv
      <4>2. Observe({}, pressure, snap.oom)
        BY <1>4 DEF Tick
      <4> HIDE DEF pressure, shown
      <4>3. g.key \in {} \/ MemFires(pressure, snap.oom)
        BY <1>4, <3>1, <4>1, <4>2, SignalsAre
      <4> QED
        BY <4>3
    <3>3. procPrimed /\ pressure
      <4> HIDE DEF pressure
      <4> QED
        BY <1>4, <3>2, PressureSeen
    <3>4. need
      BY <1>1, <3>3 DEF IsSnap, hasOrdinaryMemPressure, NeedProcAttribution, need
    <3>5. ASSUME NEW p \in Proc
          PROVE  /\ seen[p].stalls = facts[p].stalls
                 /\ seen[p].reclaim = facts[p].reclaim /\ seen[p].growth = facts[p].growth
                 /\ seen[p].faults = facts[p].faults /\ seen[p].marked = facts[p].marked
      <4> DEFINE f == seen[p]
      <4>1. f = Seen(facts, need, procPrimed)[p]
        OBVIOUS
      <4> HIDE DEF f, seen
      <4>2. /\ f.stalls = facts[p].stalls /\ f.reclaim = facts[p].reclaim
            /\ f.marked = facts[p].marked
            /\ f.growth = (IF need /\ procPrimed THEN facts[p].growth ELSE 0)
            /\ f.faults = (IF need /\ procPrimed THEN facts[p].faults ELSE 0)
        BY <1>3, <4>1, SeenIs
      <4> QED
        BY <3>3, <3>4, <4>2 DEF f
    <3> HIDE DEF seen
    <3>6. \A p \in Proc : /\ Shown(seen[p], p) = Shown(facts[p], p)
                          /\ Collected(seen[p]) <=> Collected(facts[p])
      BY <3>5 DEF Shown, Collected
    <3>7. snap.procs = {Shown(seen[p], p) :
                         p \in {q \in Proc : containsTGID(targeted, q) /\ Collected(seen[q])}}
      BY <1>1 DEF IsSnap
    <3>8. snap.procs = {Shown(facts[p], p) :
                         p \in {q \in Proc : containsTGID(targeted, q) /\ Collected(facts[q])}}
      BY <3>6, <3>7
    <3>9. pickCulprit(snap.procs).pid \in Suspects(facts)
      BY <1>3, <3>8, CulpritEarned
    <3> QED
      BY <1>5, <2>2, <3>1, <3>9 DEF Culprit, culprits
  <2> QED
    BY <1>4, <2>1, <2>2
<1> HIDE DEF shown, pressure
<1>7. ASSUME NEW g \in shown
      PROVE  Blamed(finalizeReport(BuildMemReport(snap.oom, Culprit(snap), targeted, Span(g))),
                    guilty')
  <2> DEFINE c == Culprit(snap)
             v == classifyMem(snap.oom, c)
             object == IF c.pid = 0 THEN Object(0, 0, "", 0, "system")
                       ELSE Object(c.pid, 0, "", 0, IF targeted THEN "target_tree" ELSE "process")
             metrics == NoMetrics
             r == finalizeReport(BuildMemReport(snap.oom, c, targeted, Span(g)))
  <2>1. c.pid \in culprits
    BY <1>6
  <2> HIDE DEF c
  <2>2. v.code \in MemCodes
    BY DEF classifyMem, Verdict, MemCodes
  <2>3. r = finalizeReport(AnomalyReport(v, object, Span(g), metrics))
    BY DEF BuildMemReport
  <2>4. object.pid = c.pid /\ object.tid = 0
    <3>1. CASE c.pid = 0
      BY <3>1 DEF Object
    <3>2. CASE c.pid # 0
      BY <3>2 DEF Object
    <3> QED
      BY <3>1, <3>2
  <2> HIDE DEF v, r, object, metrics
  <2>5. r.code = v.code /\ r.object = object
    BY <2>3, FinalIs
  <2>6. Place(r) = "mem"
    BY <2>2, <2>5 DEF Place, isLockReport, MemCodes, LockCodes
  <2>7. <<"mem", c.pid, 0>> \in guilty'
    BY <1>2, <2>1
  <2>8. Blamed(r, guilty')
    BY <2>4, <2>5, <2>6, <2>7 DEF Blamed
  <2> QED
    BY <2>8 DEF r, c
<1>8. \A q \in reports : Blamed(finalizeReport(q), guilty')
  BY <1>7
<1> HIDE DEF reports
<1>9. {} \in SUBSET MapKey /\ IsFiniteSet({})
  BY FS_EmptySet
<1> QED
  BY <1>4, <1>8, <1>9, BlameKept

\* Only memory needs two windows to tell whom to blame.
Telling == sustain >= 2 \/ scenario # "mem"

BlameInv == PrimedInv /\ (Telling => BlameEarned)

LEMMA BlameInit == PipelineInit => BlameInv
<1> SUFFICES ASSUME PipelineInit PROVE BlameInv
  OBVIOUS
<1>1. hot = <<>> /\ added = {}
  BY NothingYet DEF PipelineInit, Init, AggInit
<1>2. Len(<<>>) = 0
  OBVIOUS
<1>3. procPrimed \in BOOLEAN /\ targeted \in BOOLEAN /\ includeBlocking \in BOOLEAN
  BY DEF PipelineInit
<1> QED
  BY <1>1, <1>2, <1>3 DEF BlameInv, PrimedInv, BlameEarned

LEMMA BlameNext ==
  ASSUME PipeInv, BlameInv, [PipelineNext]_pipelineVars
  PROVE  BlameInv'
<1>0. PrimedInv
  BY DEF BlameInv
<1>1. ASSUME NEW samples \in CpuPolls, CpuTick(samples) PROVE BlameInv'
  <2>1. PrimedInv'
    <3> DEFINE active == {CpuKey(s) : s \in {t \in samples : HotCpu(t)}}
    <3>1. Tick(0, active, FALSE, FALSE) /\ UNCHANGED procPrimed
      BY <1>1 DEF CpuTick
    <3>2. active \in SUBSET MapKey
      BY PollsAssumption
    <3> HIDE DEF active
    <3> QED
      BY <1>0, <3>1, <3>2, MapPrimed
  <2> QED
    BY <1>1, <2>1, CpuBlame DEF BlameInv
<1>2. ASSUME NEW samples \in IoPolls, IoTick(samples) PROVE BlameInv'
  <2>1. PrimedInv'
    <3> DEFINE active == {IoKey(s) : s \in {t \in samples : HotIo(t)}}
    <3>1. Tick(0, active, FALSE, FALSE) /\ UNCHANGED procPrimed
      BY <1>2 DEF IoTick
    <3>2. active \in SUBSET MapKey
      BY PollsAssumption
    <3> HIDE DEF active
    <3> QED
      BY <1>0, <3>1, <3>2, MapPrimed
  <2> QED
    BY <1>2, <2>1, IoBlame DEF BlameInv
<1>3. ASSUME NEW gap \in 0 .. Tolerance, NEW samples \in CallPolls, CallTick(gap, samples)
      PROVE  BlameInv'
  <2>1. PrimedInv'
    <3> DEFINE active == {CallKey(s) : s \in {t \in samples : HotCall(t)}}
    <3>1. Tick(gap, active, FALSE, FALSE) /\ UNCHANGED procPrimed
      BY <1>3 DEF CallTick
    <3>2. active \in SUBSET MapKey
      BY PollsAssumption
    <3> HIDE DEF active
    <3> QED
      BY <1>0, <3>1, <3>2, MapPrimed
  <2> QED
    BY <1>3, <2>1, CallBlame DEF BlameInv
<1>4. ASSUME NEW gap \in 0 .. Tolerance, NEW waits \in Waits, LockTick(gap, waits)
      PROVE  BlameInv'
  <2>1. PrimedInv'
    <3>1. PICK groups \in Groupings[waits] : \E kept : LockWindow(gap, groups, kept)
      BY <1>4, LockTickIs
    <3>2. PICK kept : LockWindow(gap, groups, kept)
      BY <3>1
    <3>3. /\ kept \in Kept(Candidates(LockSamplesOf(groups, targeted, Period), includeBlocking))
          /\ Tick(gap, ActiveOf(kept), FALSE, FALSE)
      BY <3>2 DEF LockWindow
    <3>4. \A s \in kept : LockSampleOK(s)
      BY <3>3, SamplesMade
    <3>5. ActiveOf(kept) \in SUBSET MapKey
      BY <3>4 DEF LockSampleOK, ActiveOf
    <3>6. UNCHANGED procPrimed
      BY <1>4 DEF LockTick
    <3> QED
      BY <1>0, <3>3, <3>5, <3>6, MapPrimed
  <2> QED
    BY <1>4, <2>1, LockBlame DEF BlameInv
<1>5. ASSUME NEW gap \in 0 .. Tolerance, NEW gauge \in BOOLEAN, NEW facts \in Facts,
             MemTick(gap, gauge, facts)
      PROVE  BlameInv'
  <2>1. PrimedInv'
    BY <1>0, <1>5, MemPrimed
  <2>2. sustain >= 2 => BlameEarned'
    BY <1>0, <1>5, MemBlame
  <2>3. scenario' = "mem"
    BY <1>5 DEF MemTick, Runs, Tick, flags
  <2> QED
    BY <2>1, <2>2, <2>3 DEF BlameInv, Telling
<1>6. CASE UNCHANGED pipelineVars
  <2>1. UNCHANGED <<scenario, hot, procPrimed, targeted, includeBlocking, added, guilty, end>>
    BY <1>6 DEF pipelineVars, flags, vars, aggVars, times
  <2> QED
    BY <2>1 DEF BlameInv, PrimedInv, BlameEarned, Telling
<1> QED
  BY <1>1, <1>2, <1>3, <1>4, <1>5, <1>6 DEF PipelineNext

(***************************************************************************)
(* A lock report names a thread that waited longest at that lock, whatever *)
(* was grouped and cut, for any sustain.                                   *)
(***************************************************************************)
THEOREM LocksBlamed == PipelineSpec => [](scenario # "mem" => BlameEarned)
<1>1. BlameInv /\ PipeInv /\ [PipelineNext]_pipelineVars => BlameInv'
  BY BlameNext
<1>2. BlameInv => (scenario # "mem" => BlameEarned)
  BY DEF BlameInv, Telling
<1> QED
  BY <1>1, <1>2, BlameInit, PipeHolds, PTL DEF PipelineSpec

(***************************************************************************)
(* Reports blame whom the window's facts blame: a lock report a thread     *)
(* that waited longest at that lock; a memory report, when the pressure    *)
(* lasted two windows at least so that growth is known, a process in scope *)
(* with the strongest evidence.                                            *)
(***************************************************************************)
THEOREM BlameHolds == ASSUME sustain >= 2 PROVE PipelineSpec => []BlameEarned
<1>1. BlameInv /\ PipeInv /\ [PipelineNext]_pipelineVars => BlameInv'
  BY BlameNext
<1>2. BlameInv => BlameEarned
  BY DEF BlameInv, Telling
<1> QED
  BY <1>1, <1>2, BlameInit, PipeHolds, PTL DEF PipelineSpec
=============================================================================
