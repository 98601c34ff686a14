------------------------ MODULE TargetTracker_proofs ------------------------
(* Proofs about TargetTracker: its types; a dead root stays dropped; a grace ends; who was *)
(* heard is kept; only the target's lineage is observed.                                   *)
EXTENDS TargetTracker, WellFoundedInduction, FiniteSetTheorems, TLAPS

(* The empty assignment, and its change for the root, have the types of the maps. *)
LEMMA NobodyType == Nobody \in [Tgid -> Nat] /\ Nobody \in [Tgid -> 0..Stale]
                    /\ [Nobody EXCEPT ![Root] = RootStart] \in [Tgid -> Nat]
BY TargetAssumption DEF Nobody, RootStart

(* A grace that decays stays within its bound. *)
LEMMA DecayBound == \A n \in 0..Stale : Decay(n) \in 0..Stale
BY TargetAssumption DEF Decay

(* The initial state is well typed. *)
LEMMA TypeInit == Init => TypeOK
<1> SUFFICES ASSUME Init PROVE TypeOK
  OBVIOUS
<1>1. parent \in [Tgid -> Tgid \cup {0}]
  BY DEF Init, Nobody
<1> QED
  BY <1>1, NobodyType, TargetAssumption DEF Init, TypeOK

(* A refresh keeps the grace counters and the identities in their types. *)
LEMMA UpdateType == TypeOK /\ Update => TypeOK'
<1> SUFFICES ASSUME TypeOK, Update PROVE TypeOK'
  OBVIOUS
<1>1. \A p \in Tgid : Retired(p) \in 0..Stale
  <2> SUFFICES ASSUME NEW p \in Tgid PROVE Retired(p) \in 0..Stale
    OBVIOUS
  <2>1. Decay(retiredTGIDs[p]) \in 0..Stale
    BY DecayBound DEF TypeOK
  <2> QED
    BY <2>1, TargetAssumption DEF Retired, TypeOK
<1>2. \A p \in Tgid : RetiredStart(p) \in Nat
  BY DEF RetiredStart, TypeOK
<1>3. \A p \in Tgid : StillHeard(p) => observed[p] - 1 \in 0..Stale
  BY TargetAssumption DEF StillHeard, TypeOK
<1>4. Nobody \in [Tgid -> Nat]
  BY NobodyType
<1>5. retiredTGIDs' \in [Tgid -> 0..Stale] /\ retiredStarts' \in [Tgid -> Nat]
  BY <1>1, <1>2, TargetAssumption DEF Update
<1>6. observed' \in [Tgid -> 0..Stale] /\ observedStarts' \in [Tgid -> Nat]
  BY <1>3, TargetAssumption DEF Update, TypeOK
<1> QED
  BY <1>4, <1>5, <1>6 DEF Update, TypeOK, kernel, maps, reuse

(* Every step keeps the types. *)
LEMMA TypeStep == TypeOK /\ [Next]_vars => TypeOK'
<1> SUFFICES ASSUME TypeOK, [Next]_vars PROVE TypeOK'
  OBVIOUS
<1> USE DEF TypeOK
<1>1. ASSUME NEW p \in Tgid, NEW by \in Tgid \cup {0}, Fork(p, by) PROVE TypeOK'
  BY <1>1 DEF Fork, maps, tracked, heard, locals
<1>2. ASSUME NEW p \in Tgid, Exit(p) PROVE TypeOK'
  BY <1>2 DEF Exit, maps, tracked, heard, locals
<1>3. ASSUME NEW p \in Tgid, Hook(p) PROVE TypeOK'
  BY <1>3 DEF Hook, kernel, tracked, heard, locals
<1>4. CASE Snapshot
  BY <1>4 DEF Snapshot, Tree, kernel, maps, tracked, heard
<1>5. CASE ReadRootStart
  BY <1>5 DEF ReadRootStart, kernel, maps, tracked, heard
<1>6. CASE Identify
  BY <1>6 DEF Identify, kernel, maps, tracked, heard
<1>7. CASE Update
  BY <1>7, UpdateType
<1>8. ASSUME NEW from, NEW to \in {"drained", "reread"}, DrainRead(from, to) PROVE TypeOK'
  BY <1>8, TargetAssumption DEF DrainRead, kernel, maps, tracked
<1>9. ASSUME NEW from, NEW to \in {"put", "idle"}, DrainDelete(from, to) PROVE TypeOK'
  BY <1>9 DEF DrainDelete, kernel, tracked, heard
<1>10. CASE PutRoot
  BY <1>10 DEF PutRoot, kernel, tracked, heard, locals
<1>11. CASE Sync
  <2>1. \A p \in Tgid : Desired(p) \in Nat
    BY DEF Desired
  <2> QED
    BY <1>11, <2>1 DEF Sync, kernel, tracked, heard, locals
<1>12. CASE UNCHANGED vars
  BY <1>12 DEF vars, kernel, maps, tracked, heard, locals
<1> QED
  BY <1>1, <1>2, <1>3, <1>4, <1>5, <1>6, <1>7, <1>8, <1>9, <1>10, <1>11, <1>12
  DEF Next, Poll

(* The maps and the tracker keep their types. *)
THEOREM TypeCorrect == Spec => []TypeOK
BY TypeInit, TypeStep, PTL DEF Spec

----------------------------------------------------------------------------
(* The inductive invariant: how far a refresh that found the root dead has   *)
(* removed its number, step by step.                                         *)
Forgotten == activeStarts[Root] = 0 /\ observed[Root] = 0 /\ retiredTGIDs[Root] = 0

RootInv == ~rootAlive =>
  /\ pc = "identify" => snap = {}
  /\ pc = "update" => fresh[Root] = 0
  /\ pc \notin {"identify", "update"} => Forgotten
  /\ pc \in {"sync", "read", "reread", "idle", "root"} => target_pid = NoPid
  /\ pc \in {"read", "reread", "idle", "root"} => target_tgids[Root] = 0

(* No walk up the parents ends at the impossible root. *)
LEMMA NoAncestor == ASSUME NEW p \in Tgid, NEW n \in Nat PROVE ~Descends(p, NoPid, n)
BY TargetAssumption DEF Descends

(* A dropped root's number is not admitted. *)
LEMMA NotAllowed ==
  ASSUME target_pid = NoPid, target_tgids[Root] = 0
  PROVE  ~Allowed(Root)
<1>1. ~ByAncestry(Root)
  BY NoAncestor, TargetAssumption DEF ByAncestry
<1> QED
  BY <1>1 DEF Allowed, Admitted, Alive

(* The invariant implies the property. *)
LEMMA InvImplies == TypeOK /\ RootInv => RootStaysDropped
BY DEF RootInv, RootStaysDropped, Forgotten, ContainsTGID, TypeOK

(* Every step keeps the invariant. *)
LEMMA RootStep == TypeOK /\ RootInv /\ [Next]_vars => RootInv'
<1> SUFFICES ASSUME TypeOK, RootInv, [Next]_vars, ~rootAlive' PROVE RootInv'
  BY DEF RootInv
<1> USE TargetAssumption DEF TypeOK, Forgotten
<1>1. ASSUME NEW p \in Tgid, NEW by \in Tgid \cup {0}, Fork(p, by) PROVE RootInv'
  BY <1>1 DEF RootInv, Fork, maps, tracked, heard, locals
<1>2. ASSUME NEW p \in Tgid, Exit(p) PROVE RootInv'
  BY <1>2 DEF RootInv, Exit, maps, tracked, heard, locals
<1>3. ASSUME NEW p \in Tgid, Hook(p) PROVE RootInv'
  <2>1. target_pid = NoPid /\ target_tgids[Root] = 0 => p # Root
    BY <1>3, NotAllowed DEF Hook
  <2> QED
    BY <1>3, <2>1 DEF RootInv, Hook, tracked, heard, locals
<1>4. CASE Snapshot
  BY <1>4 DEF RootInv, Snapshot, maps, tracked, heard
<1>5. CASE ReadRootStart
  BY <1>5 DEF RootInv, ReadRootStart, maps, tracked, heard
<1>6. CASE Identify
  BY <1>6 DEF RootInv, Identify, maps, tracked, heard
<1>7. CASE Update
  BY <1>7 DEF RootInv, Update, StillSame, StillHeard, maps
<1>8. ASSUME NEW from \in {"drain", "read"}, NEW to \in {"drained", "reread"},
             DrainRead(from, to), from = "drain" <=> to = "drained"
      PROVE  RootInv'
  BY <1>8 DEF RootInv, DrainRead, Observes, Heeds, maps, tracked
<1>9. ASSUME NEW from \in {"drained", "reread"}, NEW to \in {"put", "idle"},
             DrainDelete(from, to), from = "drained" <=> to = "put"
      PROVE  RootInv'
  BY <1>9 DEF RootInv, DrainDelete, tracked, heard
<1>10. CASE PutRoot
  BY <1>10 DEF RootInv, PutRoot, tracked, heard, locals
<1>11. CASE Sync
  <2>1. Desired(Root) = 0
    BY <1>11 DEF Sync, RootInv, Desired, ContainsTGID
  <2> QED
    BY <1>11, <2>1 DEF RootInv, Sync, tracked, heard, locals
<1>12. CASE UNCHANGED vars
  BY <1>12 DEF RootInv, vars, maps, tracked, heard, locals
<1> QED
  BY <1>1, <1>2, <1>3, <1>4, <1>5, <1>6, <1>7, <1>8, <1>9, <1>10, <1>11, <1>12
  DEF Next, Poll

(* Once a refresh has found the root dead, its number stays out of the tracker and of   *)
(* the maps, whatever process has it now and whatever heartbeats are queued.            *)
THEOREM RootDropped == Spec => []RootStaysDropped
<1>1. Init => TypeOK /\ RootInv
  BY TypeInit DEF Init, RootInv
<1>2. TypeOK /\ RootInv /\ [Next]_vars => (TypeOK /\ RootInv)'
  BY TypeStep, RootStep
<1>3. TypeOK /\ RootInv => RootStaysDropped
  BY InvImplies
<1> QED
  BY <1>1, <1>2, <1>3, PTL DEF Spec

----------------------------------------------------------------------------
(* How long a grace can last: what is left of it and the refreshes since the *)
(* id was active or heard never add up to more than its length.              *)
GraceInv ==
  /\ quiet \in [Tgid -> Nat]
  /\ \A p \in Tgid : activeStarts[p] # 0 => quiet[p] = 0
  /\ \A p \in Tgid : retiredTGIDs[p] # 0 => retiredTGIDs[p] + quiet[p] <= Stale + 1
  /\ \A p \in Tgid : observed[p] # 0 => observed[p] + quiet[p] <= Stale

(* Nothing is left of the grace after Stale refreshes. *)
LEMMA GraceImplies == TypeOK /\ GraceInv => GraceEnds
<1> SUFFICES ASSUME TypeOK, GraceInv, NEW p \in Tgid, quiet[p] > Stale
             PROVE  retiredTGIDs[p] = 0 /\ observed[p] = 0
  BY DEF GraceEnds
<1> QED
  BY TargetAssumption DEF TypeOK, GraceInv

(* Only the root is active at first, and no grace has begun. *)
LEMMA GraceInit == Init => GraceInv
<1> SUFFICES ASSUME Init PROVE GraceInv
  OBVIOUS
<1>1. quiet \in [Tgid -> Nat]
  BY TargetAssumption DEF Init
<1>2. \A p \in Tgid : activeStarts[p] # 0 => quiet[p] = 0
  BY TargetAssumption DEF Init, Nobody
<1>3. \A p \in Tgid : retiredTGIDs[p] = 0 /\ observed[p] = 0
  BY DEF Init, Nobody
<1> QED
  BY <1>1, <1>2, <1>3 DEF GraceInv

(* A refresh takes one from what is left and counts itself. *)
LEMMA GraceUpdate == TypeOK /\ GraceInv /\ Update => GraceInv'
<1> SUFFICES ASSUME TypeOK, GraceInv, Update PROVE GraceInv'
  OBVIOUS
<1> USE TargetAssumption DEF TypeOK
<1>1. quiet' \in [Tgid -> Nat]
  BY DEF Update, GraceInv
<1>2. ASSUME NEW p \in Tgid, activeStarts'[p] # 0 PROVE quiet'[p] = 0
  BY <1>2 DEF Update
<1>3. ASSUME NEW p \in Tgid, retiredTGIDs'[p] # 0
      PROVE  retiredTGIDs'[p] + quiet'[p] <= Stale + 1
  <2>1. retiredTGIDs'[p] = Retired(p) /\ fresh[p] = 0
    BY <1>3 DEF Update, Retired
  <2>2. quiet'[p] = IF quiet[p] <= Stale THEN quiet[p] + 1 ELSE quiet[p]
    BY <2>1 DEF Update
  <2>3. CASE activeStarts[p] # 0
    BY <2>1, <2>2, <2>3 DEF Retired, GraceInv
  <2>4. CASE activeStarts[p] = 0
    <3>1. retiredTGIDs'[p] = Decay(retiredTGIDs[p])
      BY <2>1, <2>4 DEF Retired
    <3> QED
      BY <1>3, <2>2, <3>1 DEF Decay, GraceInv
  <2> QED
    BY <2>3, <2>4
<1>4. ASSUME NEW p \in Tgid, observed'[p] # 0 PROVE observed'[p] + quiet'[p] <= Stale
  <2>1. StillHeard(p) /\ observed'[p] = observed[p] - 1
    BY <1>4 DEF Update
  <2>2. quiet'[p] = IF quiet[p] <= Stale THEN quiet[p] + 1 ELSE quiet[p]
    BY <2>1 DEF Update, StillHeard
  <2> QED
    BY <2>1, <2>2 DEF GraceInv, StillHeard
<1> QED
  BY <1>1, <1>2, <1>3, <1>4 DEF GraceInv

(* Only a refresh and a heartbeat touch the grace. *)
LEMMA GraceStep == TypeOK /\ GraceInv /\ [Next]_vars => GraceInv'
<1> SUFFICES ASSUME TypeOK, GraceInv, [Next]_vars PROVE GraceInv'
  OBVIOUS
<1>1. ASSUME UNCHANGED <<tracked, observed, quiet>> PROVE GraceInv'
  BY <1>1 DEF GraceInv, tracked
<1>2. CASE Update
  BY <1>2, GraceUpdate
<1>3. ASSUME NEW from, NEW to, DrainRead(from, to) PROVE GraceInv'
  BY <1>3, TargetAssumption DEF DrainRead, Observes, GraceInv, TypeOK, tracked
<1> QED
  BY <1>1, <1>2, <1>3 DEF Next, Poll, Fork, Exit, Hook, Snapshot, ReadRootStart, Identify,
    DrainDelete, PutRoot, Sync, vars, heard

(* Whatever is born, dies or is heard meanwhile, an id that is neither active nor heard  *)
(* is forgotten after Stale refreshes.                                                    *)
THEOREM GraceIsBounded == Spec => []GraceEnds
<1>1. Init => TypeOK /\ GraceInv
  BY TypeInit, GraceInit
<1>2. TypeOK /\ GraceInv /\ [Next]_vars => (TypeOK /\ GraceInv)'
  BY TypeStep, GraceStep
<1> QED
  BY <1>1, <1>2, GraceImplies, PTL DEF Spec

----------------------------------------------------------------------------
(* What a heartbeat of the last window finds in the tracker: from the        *)
(* refresh on its id is not active, and a grace that remains is that of the  *)
(* process that has the id.                                                  *)
HeardInv ==
  /\ pc = "drain" => \A p \in Tgid : observed[p] < Stale
  /\ pc \in {"drained", "put", "sync"} =>
       \A p \in Tgid : observed[p] = Stale => activeStarts[p] = 0
  /\ pc \in {"drain", "drained", "put", "sync"} /\ ~reusedMidPoll =>
       \A p \in Tgid : retiredTGIDs[p] # 0 /\ Alive(p) => start[p] = retiredStarts[p]

(* The invariant is kept: nobody is born in the middle of a poll. *)
LEMMA HeardStep == TypeOK /\ HeardInv /\ [Next]_vars => HeardInv'
<1> SUFFICES ASSUME TypeOK, HeardInv, [Next]_vars PROVE HeardInv'
  OBVIOUS
<1> USE TargetAssumption DEF TypeOK, Alive
<1>1. ASSUME NEW p \in Tgid, NEW by \in Tgid \cup {0}, Fork(p, by) PROVE HeardInv'
  BY <1>1 DEF HeardInv, Fork, tracked, heard
<1>2. ASSUME NEW p \in Tgid, Exit(p) PROVE HeardInv'
  BY <1>2 DEF HeardInv, Exit, tracked, heard, reuse
<1>3. ASSUME NEW p \in Tgid, Hook(p) PROVE HeardInv'
  BY <1>3 DEF HeardInv, Hook, tracked, heard, reuse, kernel
<1>4. ASSUME pc' \in {"root", "identify", "update", "read", "reread", "idle"} PROVE HeardInv'
  BY <1>4 DEF HeardInv
<1>5. CASE Update
  <2>1. \A p \in Tgid : observed'[p] < Stale
    BY <1>5 DEF Update
  <2>2. \A p \in Tgid : retiredTGIDs'[p] # 0 /\ Alive(p) => start[p] = retiredStarts'[p]
    BY <1>5 DEF Update, StillSame
  <2> QED
    BY <1>5, <2>1, <2>2 DEF HeardInv, Update, kernel
<1>6. CASE DrainRead("drain", "drained")
  BY <1>6 DEF HeardInv, DrainRead, Observes, tracked, kernel, reuse
<1>7. CASE DrainDelete("drained", "put")
  BY <1>7 DEF HeardInv, DrainDelete, tracked, heard, kernel, reuse
<1>8. CASE PutRoot
  BY <1>8 DEF HeardInv, PutRoot, tracked, heard, kernel, reuse
<1>9. CASE UNCHANGED vars
  BY <1>9 DEF HeardInv, vars, tracked, heard, kernel, reuse
<1> QED
  BY <1>1, <1>2, <1>3, <1>4, <1>5, <1>6, <1>7, <1>8, <1>9
  DEF Next, Poll, Snapshot, ReadRootStart, Identify, DrainRead, DrainDelete, Sync

(* The identity a heartbeat leaves in the tracker is the one the poll writes. *)
LEMMA HeardIsDesired ==
  ASSUME TypeOK, HeardInv, pc = "sync", ~reusedMidPoll, NEW p \in Tgid,
         Alive(p), observed[p] = Stale, observedStarts[p] = start[p]
  PROVE  Desired(p) = start[p]
<1>1. ContainsTGID(p)
  BY TargetAssumption DEF ContainsTGID
<1> QED
  BY <1>1 DEF Desired, HeardInv

(* A process heard during the last window is in the membership the poll writes, under    *)
(* its own identity, whatever the tracker holds of an earlier process of its id.         *)
THEOREM HeardIsKept == Spec => HeardKept
<1> DEFINE Kept == pc = "sync" /\ pc' = "read" /\ ~reusedMidPoll =>
      \A p \in Tgid : /\ Alive(p) /\ lineage[p] /\ observed[p] = Stale
                      /\ observedStarts[p] = start[p]
                      => target_tgids'[p] = start[p]
<1>1. Init => TypeOK /\ HeardInv
  BY TypeInit DEF Init, HeardInv
<1>2. TypeOK /\ HeardInv /\ [Next]_vars => (TypeOK /\ HeardInv)'
  BY TypeStep, HeardStep
<1>3. TypeOK /\ HeardInv /\ [Next]_vars => Kept
  <2> SUFFICES ASSUME TypeOK, HeardInv, [Next]_vars, pc = "sync", pc' = "read", ~reusedMidPoll,
                      NEW p \in Tgid, Alive(p), observed[p] = Stale,
                      observedStarts[p] = start[p]
               PROVE  target_tgids'[p] = start[p]
    OBVIOUS
  <2>1. Sync
    BY DEF Next, Poll, Fork, Exit, Hook, Snapshot, ReadRootStart, Identify, Update, DrainRead,
      DrainDelete, PutRoot, vars
  <2> QED
    BY <2>1, HeardIsDesired DEF Sync
<1>4. TypeOK /\ HeardInv /\ [Next]_vars => [Kept]_vars
  BY <1>3
<1> QED
  BY <1>1, <1>2, <1>4, PTL DEF Spec, HeardKept

----------------------------------------------------------------------------
(* The process tree: a birth number is given once, and a child is of the     *)
(* lineage with its parent.                                                  *)
Kin ==
  /\ born >= 1
  /\ lineage \in [Tgid -> BOOLEAN]
  /\ \A p \in Tgid : start[p] <= born
  /\ \A p \in Tgid : parent[p] # 0 =>
       Alive(parent[p]) /\ (lineage[parent[p]] <=> lineage[p])
  /\ \A p \in Tgid : start[p] = RootStart => p = Root /\ lineage[p]

(* What the tracker and BPF think of the root. *)
RootKnown ==
  /\ target_pid = NoPid => ~rootAlive
  /\ ~rootAlive => start[Root] # RootStart
  /\ ~rootReused /\ target_pid = Root /\ Alive(Root) => start[Root] = RootStart

Clean == ~rootReused /\ ~reusedMidPoll

(* An identity on record is that of a process already born; the living process that *)
(* has it is of the lineage.                                                        *)
Identities(m) == \A p \in Tgid :
  /\ m[p] <= born
  /\ Clean /\ Alive(p) /\ m[p] = start[p] => lineage[p]

InBPF == Identities(target_tgids) /\ Identities(observed_tgids)
InTracker ==
  /\ Identities(fresh) /\ Identities(activeStarts)
  /\ Identities(retiredStarts) /\ Identities(observedStarts)

(* The tree a refresh has found is of the lineage, unless the root will turn out to be *)
(* another process.                                                                     *)
Walked == Clean =>
  /\ pc = "root" /\ start[Root] = RootStart =>
       \A p \in snap : Alive(p) => lineage[p]
  /\ pc = "identify" => \A p \in snap : Alive(p) => lineage[p]

LineageInv == Kin /\ RootKnown /\ InBPF /\ InTracker /\ Walked

(* A set of naturals that is not empty has a least member. *)
LEMMA Least ==
  ASSUME NEW S \in SUBSET Nat, S # {}
  PROVE  \E i \in S : \A j \in S : i <= j
<1> DEFINE R == OpToRel(<, Nat)
<1>1. \E i \in S : \A j \in S : <<j, i>> \notin R
  BY WFMin, NatLessThanWellFounded
<1>2. \A i, j \in Nat : j < i => <<j, i>> \in R
  BY DEF OpToRel
<1> HIDE DEF R
<1>3. PICK i \in S : \A j \in S : <<j, i>> \notin R
  BY <1>1
<1>4. \A j \in S : ~(j < i)
  BY <1>2, <1>3
<1> QED
  BY <1>3, <1>4

(* A living process below another one descends from a living one. *)
LEMMA AncestorLives ==
  ASSUME TypeOK, Kin, NEW p \in Tgid, NEW root \in Tgid, NEW n \in Nat,
         Alive(p), Descends(p, root, n)
  PROVE  Alive(root)
<1>0. PICK len \in 1..n : \E walk \in [1..len -> Tgid] :
        /\ walk[1] = p /\ walk[len] = root
        /\ \A i \in 1..(len - 1) : parent[walk[i]] = walk[i + 1]
  BY DEF Descends
<1>1. PICK walk \in [1..len -> Tgid] :
        /\ walk[1] = p /\ walk[len] = root
        /\ \A i \in 1..(len - 1) : parent[walk[i]] = walk[i + 1]
  BY <1>0
<1>2. CASE len = 1
  BY <1>1, <1>2
<1>3. CASE len # 1
  <2>1. len - 1 \in 1..(len - 1) /\ walk[len - 1] \in Tgid
    BY <1>3
  <2>2. parent[walk[len - 1]] = root
    BY <1>1, <2>1
  <2> QED
    BY <2>1, <2>2, TargetAssumption DEF Kin
<1> QED
  BY <1>2, <1>3

(* Who descends from a process of the lineage is of the lineage: the member of the walk  *)
(* that is of the lineage and nearest to its first has no member before it.              *)
LEMMA Inherits ==
  ASSUME TypeOK, Kin, NEW p \in Tgid, NEW root \in Tgid, NEW n \in Nat,
         Descends(p, root, n), lineage[root]
  PROVE  lineage[p]
<1>0. PICK len \in 1..n : \E walk \in [1..len -> Tgid] :
        /\ walk[1] = p /\ walk[len] = root
        /\ \A i \in 1..(len - 1) : parent[walk[i]] = walk[i + 1]
  BY DEF Descends
<1>1. PICK walk \in [1..len -> Tgid] :
        /\ walk[1] = p /\ walk[len] = root
        /\ \A i \in 1..(len - 1) : parent[walk[i]] = walk[i + 1]
  BY <1>0
<1> DEFINE ours == {i \in 1..len : lineage[walk[i]]}
<1>2. len \in ours /\ ours \in SUBSET Nat
  BY <1>1
<1>3. PICK i \in ours : \A j \in ours : i <= j
  BY <1>2, Least
<1>4. ASSUME i # 1 PROVE FALSE
  <2>1. i - 1 \in 1..(len - 1) /\ i - 1 \in 1..len
    BY <1>3, <1>4
  <2>2. parent[walk[i - 1]] = walk[i]
    BY <1>1, <2>1
  <2>3. lineage[walk[i - 1]]
    BY <1>3, <2>1, <2>2, TargetAssumption DEF Kin
  <2> QED
    BY <1>3, <2>1, <2>3
<1> QED
  BY <1>1, <1>3, <1>4

(* The root the program starts with is the first process. *)
LEMMA KinInit == Init => Kin
<1> SUFFICES ASSUME Init PROVE Kin
  OBVIOUS
<1>1. born = 1 /\ lineage \in [Tgid -> BOOLEAN]
  BY DEF Init
<1>2. \A p \in Tgid : start[p] <= 1 /\ (start[p] = 1 => p = Root)
  BY DEF Init, Nobody, RootStart
<1>4. \A p \in Tgid : p = Root => lineage[p]
  BY DEF Init
<1>3. \A p \in Tgid : parent[p] = 0
  BY DEF Init, Nobody
<1> QED
  BY <1>1, <1>2, <1>3, <1>4 DEF Kin, RootStart

(* A new process has no children, the youngest birth number and its parent's lineage. *)
LEMMA KinFork ==
  ASSUME TypeOK, Kin, NEW p \in Tgid, NEW by \in Tgid \cup {0}, Fork(p, by)
  PROVE  Kin'
<1> USE TargetAssumption DEF TypeOK
<1>1. born' >= 1 /\ lineage' \in [Tgid -> BOOLEAN]
  BY DEF Fork, Kin
<1>2. \A q \in Tgid : start'[q] <= born'
  BY DEF Fork, Kin
<1>3. ASSUME NEW q \in Tgid, parent'[q] # 0
      PROVE  Alive(parent[q])' /\ (lineage'[parent'[q]] <=> lineage'[q])
  <2>1. CASE q = p
    BY <1>3, <2>1 DEF Fork, Kin, Alive
  <2>2. CASE q # p
    <3>1. parent'[q] = parent[q] /\ parent[q] # p /\ parent[q] \in Tgid
      BY <1>3, <2>2 DEF Fork, Kin, Alive
    <3> QED
      BY <1>3, <2>2, <3>1 DEF Fork, Kin, Alive
  <2> QED
    BY <2>1, <2>2
<1>4. ASSUME NEW q \in Tgid, start'[q] = RootStart PROVE q = Root /\ lineage'[q]
  BY <1>4 DEF Fork, Kin, RootStart
<1> QED
  BY <1>1, <1>2, <1>3, <1>4 DEF Kin

(* The children of a process that dies become orphans. *)
LEMMA KinExit ==
  ASSUME TypeOK, Kin, NEW p \in Tgid, Exit(p)
  PROVE  Kin'
<1> USE TargetAssumption DEF TypeOK
<1>1. born' >= 1 /\ lineage' \in [Tgid -> BOOLEAN]
  BY DEF Exit, Kin
<1>2. \A q \in Tgid : start'[q] <= born'
  BY DEF Exit, Kin
<1>3. ASSUME NEW q \in Tgid, parent'[q] # 0
      PROVE  Alive(parent[q])' /\ (lineage'[parent'[q]] <=> lineage'[q])
  <2>1. q # p /\ parent'[q] = parent[q] /\ parent[q] # p /\ parent[q] \in Tgid
    BY <1>3 DEF Exit
  <2> QED
    BY <1>3, <2>1 DEF Exit, Kin, Alive
<1>4. ASSUME NEW q \in Tgid, start'[q] = RootStart PROVE q = Root /\ lineage'[q]
  BY <1>4 DEF Exit, Kin, RootStart
<1> QED
  BY <1>1, <1>2, <1>3, <1>4 DEF Kin

(* Only births and deaths change the tree. *)
LEMMA KinStep == TypeOK /\ Kin /\ [Next]_vars => Kin'
<1> SUFFICES ASSUME TypeOK, Kin, [Next]_vars PROVE Kin'
  OBVIOUS
<1>1. CASE UNCHANGED kernel
  BY <1>1 DEF Kin, kernel, Alive
<1> QED
  BY <1>1, KinFork, KinExit
  DEF Next, Poll, Hook, Snapshot, ReadRootStart, Identify, Update, DrainRead, DrainDelete,
    PutRoot, Sync, vars

(* The first root, once gone, is gone for good, and the tracker never takes it back. *)
LEMMA RootKnownStep == TypeOK /\ Kin /\ RootKnown /\ [Next]_vars => RootKnown'
<1> SUFFICES ASSUME TypeOK, Kin, RootKnown, [Next]_vars PROVE RootKnown'
  OBVIOUS
<1> USE TargetAssumption DEF RootKnown, Alive, kernel, reuse
<1>1. ASSUME NEW p \in Tgid, NEW by \in Tgid \cup {0}, Fork(p, by) PROVE RootKnown'
  <2>1. start'[Root] = IF p = Root THEN born + 1 ELSE start[Root]
    BY <1>1 DEF Fork, TypeOK
  <2>2. born + 1 # RootStart
    BY DEF Kin, TypeOK, RootStart
  <2>3. p = Root /\ target_pid = Root => rootReused'
    BY <1>1 DEF Fork
  <2>4. target_pid' = target_pid /\ rootAlive' = rootAlive /\ (rootReused => rootReused')
    BY <1>1 DEF Fork, maps
  <2> QED
    BY <2>1, <2>2, <2>3, <2>4
<1>2. ASSUME NEW p \in Tgid, Exit(p) PROVE RootKnown'
  BY <1>2 DEF Exit, maps, TypeOK, RootStart
<1>3. CASE ReadRootStart
  BY <1>3 DEF ReadRootStart, maps
<1>4. CASE PutRoot
  BY <1>4 DEF PutRoot, TypeOK
<1>5. ASSUME UNCHANGED <<kernel, target_pid, rootAlive, reuse>> PROVE RootKnown'
  BY <1>5
<1> QED
  BY <1>1, <1>2, <1>3, <1>4, <1>5
  DEF Next, Poll, Hook, Snapshot, Identify, Update, DrainRead, DrainDelete, Sync, vars, maps

(* Whom the hooks let in is of the lineage. *)
LEMMA LetInIsOurs ==
  ASSUME TypeOK, Kin, RootKnown, Identities(target_tgids), Clean,
         NEW p \in Tgid, Allowed(p)
  PROVE  lineage[p]
<1>1. CASE Admitted(p)
  BY <1>1 DEF Allowed, Admitted, Identities
<1>2. CASE ByAncestry(p)
  <2>1. Depth \in Nat
    BY TargetAssumption
  <2>2. target_pid = Root /\ Root \in Tgid
    BY <1>2, <2>1, NoAncestor, TargetAssumption DEF ByAncestry, TypeOK
  <2>3. Descends(p, Root, Depth) /\ Alive(p)
    BY <1>2, <2>2 DEF ByAncestry, Allowed
  <2>4. lineage[Root]
    BY <2>1, <2>2, <2>3, AncestorLives DEF RootKnown, Kin, Clean
  <2> QED
    BY <2>1, <2>2, <2>3, <2>4, Inherits
<1> QED
  BY <1>1, <1>2 DEF Allowed

(* An assignment of identities survives a birth: the new number is on no record. *)
LEMMA IdentitiesFork ==
  ASSUME TypeOK, NEW m \in [Tgid -> Nat], Identities(m),
         NEW p \in Tgid, NEW by \in Tgid \cup {0}, Fork(p, by), NEW q \in Tgid
  PROVE  /\ m[q] <= born'
         /\ Clean' /\ Alive(q)' /\ m[q] = start'[q] => lineage'[q]
<1> USE DEF TypeOK, Identities
<1>1. born' = born + 1 /\ (Clean' => Clean)
  BY DEF Fork, Clean
<1>2. CASE q = p
  BY <1>1, <1>2 DEF Fork
<1>3. CASE q # p
  BY <1>1, <1>3 DEF Fork, Alive
<1> QED
  BY <1>2, <1>3

(* And a death, which leaves the others their identity and their lineage. *)
LEMMA IdentitiesExit ==
  ASSUME TypeOK, NEW m \in [Tgid -> Nat], Identities(m),
         NEW p \in Tgid, Exit(p), NEW q \in Tgid
  PROVE  /\ m[q] <= born'
         /\ Clean' /\ Alive(q)' /\ m[q] = start'[q] => lineage'[q]
<1> USE DEF TypeOK, Identities
<1>1. born' = born /\ Clean' = Clean
  BY DEF Exit, Clean, reuse
<1>2. CASE q = p
  BY <1>2 DEF Exit, Alive
<1>3. CASE q # p
  BY <1>1, <1>3 DEF Exit, Alive
<1> QED
  BY <1>1, <1>2, <1>3 DEF Exit, Alive

(* So do all of them. *)
LEMMA IdentitiesKept ==
  ASSUME TypeOK, Kin, NEW p \in Tgid,
         Exit(p) \/ (\E by \in Tgid \cup {0} : Fork(p, by)),
         InBPF, InTracker
  PROVE  InBPF' /\ InTracker'
<1>1. UNCHANGED <<maps, fresh, tracked, heard>>
  BY DEF Fork, Exit, locals
<1>2. ASSUME NEW m \in [Tgid -> Nat], Identities(m), NEW q \in Tgid
      PROVE  /\ m[q] <= born'
             /\ Clean' /\ Alive(q)' /\ m[q] = start'[q] => lineage'[q]
  BY <1>2, IdentitiesFork, IdentitiesExit
<1>3. Identities(target_tgids)' /\ Identities(observed_tgids)'
  BY <1>1, <1>2 DEF InBPF, TypeOK, Identities, maps
<1>4. Identities(fresh)' /\ Identities(activeStarts)'
  BY <1>1, <1>2 DEF InTracker, TypeOK, Identities, tracked
<1>5. Identities(retiredStarts)' /\ Identities(observedStarts)'
  BY <1>1, <1>2 DEF InTracker, TypeOK, Identities, tracked, heard
<1> QED
  BY <1>3, <1>4, <1>5 DEF InBPF, InTracker

(* The root the program starts with is the only process, and of the lineage. *)
LEMMA LineageInit == Init => LineageInv
<1> SUFFICES ASSUME Init PROVE LineageInv
  OBVIOUS
<1>1. Kin
  BY KinInit
<1>2. RootKnown
  BY TargetAssumption DEF Init, RootKnown, Nobody
<1>3. Identities(Nobody)
  BY DEF Identities, Nobody, Alive, Init
<1>4. Identities([Nobody EXCEPT ![Root] = RootStart])
  <2> DEFINE m == [Nobody EXCEPT ![Root] = RootStart]
  <2>1. \A p \in Tgid : m[p] = start[p]
    BY DEF Init
  <2> HIDE DEF m
  <2>2. \A p \in Tgid : m[p] <= born
    BY <1>1, <2>1 DEF Kin
  <2>3. \A p \in Tgid : Alive(p) => lineage[p]
    BY DEF Init, Nobody, Alive
  <2> QED
    BY <2>2, <2>3 DEF Identities, m
<1>5. InBPF /\ InTracker
  BY <1>3, <1>4 DEF Init, InBPF, InTracker
<1>6. Walked
  BY DEF Init, Walked
<1> QED
  BY <1>1, <1>2, <1>5, <1>6 DEF LineageInv

(* What the hooks and the writes of a poll put into the maps. *)
LEMMA InBPFStep == TypeOK /\ LineageInv /\ [Next]_vars => InBPF'
<1> SUFFICES ASSUME TypeOK, LineageInv, [Next]_vars PROVE InBPF'
  OBVIOUS
<1> USE DEF LineageInv
<1>1. ASSUME NEW p \in Tgid, Exit(p) \/ (\E by \in Tgid \cup {0} : Fork(p, by)) PROVE InBPF'
  BY <1>1, IdentitiesKept
<1>2. ASSUME NEW p \in Tgid, Hook(p) PROVE InBPF'
  <2>1. start[p] <= born /\ (Clean => lineage[p])
    BY <1>2, LetInIsOurs DEF Hook, InBPF, Kin
  <2>2. ASSUME NEW m \in [Tgid -> Nat], Identities(m)
        PROVE  Identities([m EXCEPT ![p] = start[p]])
    BY <2>1, <2>2 DEF Identities
  <2>3. Identities([target_tgids EXCEPT ![p] = start[p]])
    BY <2>2 DEF InBPF, TypeOK
  <2>4. Identities([observed_tgids EXCEPT ![p] = start[p]])
    BY <2>2 DEF InBPF, TypeOK
  <2> QED
    BY <1>2, <2>3, <2>4 DEF Hook, InBPF, Identities, Clean, Alive, kernel, reuse
<1>3. CASE Sync
  <2>1. \A p \in Tgid :
          Desired(p) \in {0, activeStarts[p], retiredStarts[p], observedStarts[p]}
    BY DEF Desired
  <2>2. Identities([p \in Tgid |-> Desired(p)])
    BY <2>1 DEF InTracker, Identities, TypeOK, Alive
  <2> QED
    BY <1>3, <2>2 DEF Sync, InBPF, Identities, Clean, Alive, kernel, reuse
<1>4. ASSUME NEW from, NEW to, DrainDelete(from, to) PROVE InBPF'
  <2>1. Identities([p \in Tgid |-> IF p \in entries THEN 0 ELSE observed_tgids[p]])
    BY DEF InBPF, Identities, TypeOK, Alive
  <2> QED
    BY <1>4, <2>1 DEF DrainDelete, InBPF, Identities, Clean, Alive, kernel, reuse
<1>5. ASSUME UNCHANGED <<kernel, target_tgids, observed_tgids, reuse>> PROVE InBPF'
  BY <1>5 DEF InBPF, Identities, Clean, Alive, kernel, reuse
<1> QED
  BY <1>1, <1>2, <1>3, <1>4, <1>5
  DEF Next, Poll, Snapshot, ReadRootStart, Identify, Update, DrainRead, PutRoot, vars, maps

(* What a refresh and a drain put into the tracker. *)
LEMMA InTrackerStep == TypeOK /\ LineageInv /\ [Next]_vars => InTracker'
<1> SUFFICES ASSUME TypeOK, LineageInv, [Next]_vars PROVE InTracker'
  OBVIOUS
<1> USE DEF LineageInv
<1>1. ASSUME NEW p \in Tgid, Exit(p) \/ (\E by \in Tgid \cup {0} : Fork(p, by))
      PROVE  InTracker'
  BY <1>1, IdentitiesKept
<1>2. CASE Identify
  <2>1. Identities([p \in Tgid |-> IF p \in snap THEN start[p] ELSE 0])
    BY <1>2 DEF Identify, Walked, Identities, TypeOK, Kin, Alive
  <2> QED
    BY <1>2, <2>1
    DEF Identify, InTracker, Identities, Clean, Alive, kernel, reuse, tracked, heard
<1>3. CASE Update
  <2>1. Identities(fresh)' /\ Identities(activeStarts)'
    <3>1. fresh' = Nobody /\ activeStarts' = fresh
      BY <1>3 DEF Update
    <3> QED
      BY <1>3, <3>1
      DEF Update, InTracker, Identities, Nobody, TypeOK, Clean, Alive, kernel, reuse
  <2>2. Identities(retiredStarts)'
    <3>1. \A p \in Tgid : retiredStarts'[p] \in {0, activeStarts[p], retiredStarts[p]}
      BY <1>3 DEF Update, RetiredStart
    <3> QED
      BY <1>3, <3>1 DEF Update, InTracker, Identities, TypeOK, Clean, Alive, kernel, reuse
  <2>3. Identities(observedStarts)'
    <3>1. \A p \in Tgid : observedStarts'[p] \in {0, observedStarts[p]}
      BY <1>3 DEF Update
    <3> QED
      BY <1>3, <3>1 DEF Update, InTracker, Identities, TypeOK, Clean, Alive, kernel, reuse
  <2> QED
    BY <2>1, <2>2, <2>3 DEF InTracker
<1>4. ASSUME NEW from, NEW to, DrainRead(from, to) PROVE InTracker'
  <2>1. Identities(observedStarts)'
    <3>1. \A p \in Tgid : observedStarts'[p] \in {observed_tgids[p], observedStarts[p]}
      BY <1>4 DEF DrainRead
    <3> QED
      BY <1>4, <3>1
      DEF DrainRead, InBPF, InTracker, Identities, TypeOK, Clean, Alive, kernel, reuse
  <2> QED
    BY <1>4, <2>1 DEF DrainRead, InTracker, Identities, Clean, Alive, kernel, reuse, tracked
<1>5. ASSUME UNCHANGED <<kernel, fresh, tracked, observedStarts, reuse>> PROVE InTracker'
  BY <1>5 DEF InTracker, Identities, Clean, Alive, kernel, reuse, tracked
<1> QED
  BY <1>1, <1>2, <1>3, <1>4, <1>5
  DEF Next, Poll, Hook, Snapshot, ReadRootStart, DrainDelete, PutRoot, Sync, vars, locals, heard

(* The tree found keeps to the lineage until its start times are read. *)
LEMMA WalkedStep == TypeOK /\ LineageInv /\ [Next]_vars => Walked'
<1> SUFFICES ASSUME TypeOK, LineageInv, [Next]_vars, Clean' PROVE Walked'
  BY DEF Walked
<1> USE DEF LineageInv
<1>1. ASSUME NEW p \in Tgid, NEW by \in Tgid \cup {0}, Fork(p, by) PROVE Walked'
  BY <1>1 DEF Fork, Clean, Walked
<1>2. ASSUME NEW p \in Tgid, Exit(p) PROVE Walked'
  <2>1. Clean /\ start'[Root] \in {0, start[Root]}
    BY <1>2, TargetAssumption DEF Exit, Clean, reuse, TypeOK
  <2>2. \A q \in Tgid : Alive(q)' => Alive(q) /\ lineage'[q] = lineage[q]
    BY <1>2 DEF Exit, Alive, TypeOK, Kin
  <2>3. pc' = pc /\ snap' = snap /\ snap \subseteq Tgid
    BY <1>2 DEF Exit, locals, TypeOK
  <2> QED
    BY <2>1, <2>2, <2>3 DEF Walked, RootStart
<1>3. CASE Snapshot
  <2>1. ASSUME start[Root] = RootStart, NEW p \in snap' PROVE lineage[p]
    <3>1. p \in Tgid /\ Descends(p, Root, Cardinality(Tgid))
      BY <1>3, <2>1 DEF Snapshot, Tree
    <3>2. Cardinality(Tgid) \in Nat
      BY FS_CardinalityType, TargetAssumption
    <3> QED
      BY <2>1, <3>1, <3>2, Inherits, TargetAssumption DEF Kin
  <2> QED
    BY <1>3, <2>1 DEF Snapshot, Walked, kernel
<1>4. CASE ReadRootStart
  BY <1>4 DEF ReadRootStart, Walked, Clean, Alive, kernel, reuse
<1>5. ASSUME pc' \notin {"root", "identify"} PROVE Walked'
  BY <1>5 DEF Walked
<1>6. ASSUME UNCHANGED <<kernel, pc, snap, reuse>> PROVE Walked'
  BY <1>6 DEF Walked, Clean, Alive, kernel, reuse
<1> QED
  BY <1>1, <1>2, <1>3, <1>4, <1>5, <1>6
  DEF Next, Poll, Hook, Identify, Update, DrainRead, DrainDelete, PutRoot, Sync, vars, locals

(* BPF observes the target's processes only: whichever ids are reused between polls,     *)
(* whichever process leaves the tree, and whatever is left in the maps and the tracker.  *)
THEOREM OnlyLineageObserved == Spec => []OnlyLineage
<1>1. Init => TypeOK /\ LineageInv
  BY TypeInit, LineageInit
<1>2. TypeOK /\ LineageInv /\ [Next]_vars => (TypeOK /\ LineageInv)'
  BY TypeStep, KinStep, RootKnownStep, InBPFStep, InTrackerStep, WalkedStep DEF LineageInv
<1>3. TypeOK /\ LineageInv => OnlyLineage
  BY LetInIsOurs DEF OnlyLineage, LineageInv, InBPF, Clean
<1> QED
  BY <1>1, <1>2, <1>3, PTL DEF Spec
=============================================================================
