--------------------------- MODULE MemPath_proofs ---------------------------
(* Proofs about MemPath: its types; reclaims and victims are reported once,   *)
(* victims under the right target, and growth belongs to its window.          *)
EXTENDS MemPath, TLAPS

(* Which steps of the setup have been taken. *)
LEMMA DoneSteps ==
  ASSUME setup \in 0 .. 5
  PROVE  /\ Done("begin") <=> setup >= 1
         /\ Done("end") <=> setup >= 3
         /\ setup < 5 /\ Steps[setup + 1] = "seed" => setup = 1
         /\ setup = 1 => Steps[setup + 1] = "seed"
<1>1. Done("begin") <=> setup >= 1
  BY DEF Done, Steps
<1>2. Done("end") <=> setup >= 3
  BY DEF Done, Steps
<1>3. setup < 5 /\ Steps[setup + 1] = "seed" => setup = 1
  BY DEF Steps
<1>4. setup = 1 => Steps[setup + 1] = "seed"
  BY DEF Steps
<1> QED
  BY <1>1, <1>2, <1>3, <1>4

----------------------------------------------------------------------------
(* Types.                                                                  *)

(* The initial state is well typed. *)
LEMMA TypeInit == Init => TypeOK
<1> SUFFICES ASSUME Init PROVE TypeOK
  OBVIOUS
<1>1. /\ scopes \in [Proc -> SUBSET BOOLEAN] /\ readScopes \in [Proc -> SUBSET BOOLEAN]
      /\ in_target \in [Proc -> BOOLEAN] /\ rawIn \in [Proc -> BOOLEAN]
  BY DEF Init
<1>2. targeted \in BOOLEAN /\ fail \in BOOLEAN /\ end_miss \in BOOLEAN
      /\ procPrimed \in BOOLEAN /\ misfiled \in BOOLEAN
  BY DEF Init
<1> QED
  BY <1>1, <1>2 DEF Init, TypeOK, Nothing

(* Counts of quiet windows are naturals. *)
LEMMA StaleCountType ==
  ASSUME NEW before \in [Proc -> Nat], NEW p \in Proc, NEW inactive
  PROVE  StaleCount(before, p, inactive) \in Nat
BY DEF StaleCount

(* Every step keeps the types. *)
LEMMA TypeStep == TypeOK /\ [Next]_vars => TypeOK'
<1> SUFFICES ASSUME TypeOK, [Next]_vars PROVE TypeOK'
  OBVIOUS
<1> USE DEF TypeOK, world, maps, poller, ghosts
<1>1. CASE Attach
  BY <1>1 DEF Attach
<1>2. ASSUME NEW p \in Proc, NEW room \in BOOLEAN, Begin(p, room) PROVE TypeOK'
  <2>1. fail' \in BOOLEAN
    BY <1>2 DEF Begin
  <2>2. count' = count /\ owed' = owed
    BY <1>2 DEF Begin
  <2> QED
    BY <1>2, <2>1, <2>2 DEF Begin
<1>3. ASSUME NEW p \in Proc, NEW room \in BOOLEAN, End(p, room) PROVE TypeOK'
  <2>1. fail' \in BOOLEAN /\ end_miss' \in BOOLEAN
    BY <1>3 DEF End
  <2>2. count' \in [Proc -> Nat] /\ owed' \in [Proc -> Int]
    BY <1>3 DEF End
  <2> QED
    BY <1>3, <2>1, <2>2 DEF End
<1>4. ASSUME NEW p \in Proc, NEW room \in BOOLEAN, MarkVictim(p, room) PROVE TypeOK'
  <2>1. fail' \in BOOLEAN /\ InTarget(p) \in BOOLEAN
    BY <1>4 DEF MarkVictim, InTarget
  <2>2. oom' \in [Proc -> Nat] /\ owedOom' \in [Proc -> Int]
    BY <1>4 DEF MarkVictim
  <2>3. in_target' \in [Proc -> BOOLEAN] /\ scopes' \in [Proc -> SUBSET BOOLEAN]
    BY <1>4, <2>1 DEF MarkVictim
  <2> QED
    BY <1>4, <2>1, <2>2, <2>3 DEF MarkVictim
<1>5. ASSUME NEW p \in Proc, Die(p) PROVE TypeOK'
  BY <1>5 DEF Die
<1>6. ASSUME NEW p \in Proc, NEW member \in BOOLEAN, Birth(p, member) PROVE TypeOK'
  BY <1>6 DEF Birth
<1>7. CASE PollRead
  BY <1>7 DEF PollRead
<1>8. CASE PollReclaims
  BY <1>8, StaleCountType DEF PollReclaims, Nothing
<1>9. ASSUME NEW pressure \in BOOLEAN, PollVictims(pressure) PROVE TypeOK'
  <2>1. misfiled' \in BOOLEAN /\ procPrimed' \in BOOLEAN
    BY <1>9 DEF PollVictims
  <2>2. /\ in_target' \in [Proc -> BOOLEAN] /\ rawIn' \in [Proc -> BOOLEAN]
        /\ readScopes' \in [Proc -> SUBSET BOOLEAN]
    BY <1>9 DEF PollVictims
  <2>3. oomStale' \in [Proc -> Nat] /\ oom' \in [Proc -> Nat]
    BY <1>9, StaleCountType DEF PollVictims
  <2>4. prevOom' \in [Proc -> Nat] /\ owedOom' \in [Proc -> Int]
    BY <1>9 DEF PollVictims
  <2>5. baseline' \in Nat
    BY <1>9 DEF PollVictims, Baseline
  <2>6. spans' \in Int
    BY <1>9 DEF PollVictims
  <2> QED
    BY <1>9, <2>1, <2>2, <2>3, <2>4, <2>5, <2>6 DEF PollVictims, Nothing
<1>10. CASE UNCHANGED vars
  BY <1>10 DEF vars
<1> QED
  BY <1>1, <1>2, <1>3, <1>4, <1>5, <1>6, <1>7, <1>8, <1>9, <1>10 DEF Next

(* The maps and the collector keep their types. *)
THEOREM TypeCorrect == Spec => []TypeOK
BY TypeInit, TypeStep, PTL DEF Spec

----------------------------------------------------------------------------
(* The inductive invariants.                                               *)

(* What the two BPF maps of reclaim say of the processes that reclaim. *)
ReclaimMarks ==
  /\ setup = 0 => reclaim_start = {}
  /\ reclaim_start \cap reclaiming \subseteq began
  /\ setup >= 2 => reclaiming \ began \subseteq startup_tids
  /\ ~fail => began \subseteq reclaim_start /\ ~end_miss

(* A counter, its copy in a poll and the last reading are in this order. *)
ReadingsOrdered ==
  \A p \in Proc :
    /\ prev[p] <= count[p] /\ prevOom[p] <= oom[p]
    /\ pc = "reclaims" => prev[p] <= raw[p] /\ raw[p] <= count[p]
    /\ pc = "victims" => prevOom[p] <= rawOom[p] /\ rawOom[p] <= oom[p]

(* The two conservation laws. *)
ReclaimsBalance == ~fail => \A p \in Proc \ cut : owed[p] = count[p] - prev[p]
VictimsBalance == ~fail => \A p \in Proc \ cutOom : owedOom[p] = oom[p] - prevOom[p]

(* The membership kept with a victim is that of one of the victims not reported. *)
ScopesKept ==
  /\ ~misfiled
  /\ \A p \in Proc : ~targeted => FALSE \notin scopes[p] /\ FALSE \notin readScopes[p]
  /\ \A p \in Proc : oom[p] # 0 => scopes[p] = {} \/ in_target[p] \in scopes[p]
  /\ pc = "victims" =>
       \A p \in Proc : rawOom[p] # 0 => readScopes[p] = {} \/ rawIn[p] \in readScopes[p]

(* A baseline is that of the last poll. *)
BaselineFresh ==
  /\ baseline \in {0, polls} /\ spans <= 1
  /\ procPrimed <=> baseline # 0

(* All of it with the types. *)
MemInv ==
  /\ TypeOK /\ ReclaimMarks /\ ReadingsOrdered /\ ReclaimsBalance /\ VictimsBalance
  /\ ScopesKept /\ BaselineFresh

(* The invariants hold initially. *)
LEMMA MemInit == Init => MemInv
<1> SUFFICES ASSUME Init PROVE MemInv
  OBVIOUS
<1>1. TypeOK
  BY TypeInit
<1>2. ReclaimMarks /\ BaselineFresh
  BY DEF Init, ReclaimMarks, BaselineFresh
<1>3. ReadingsOrdered /\ ReclaimsBalance /\ VictimsBalance
  BY DEF Init, Nothing, ReadingsOrdered, ReclaimsBalance, VictimsBalance
<1>4. ScopesKept
  BY DEF Init, Nothing, ScopesKept
<1> QED
  BY <1>1, <1>2, <1>3, <1>4 DEF MemInv

(* The maps of reclaim agree with the processes, step by step. *)
LEMMA MarksStep == TypeOK /\ ReclaimMarks /\ [Next]_vars => ReclaimMarks'
<1> SUFFICES ASSUME TypeOK, ReclaimMarks, [Next]_vars PROVE ReclaimMarks'
  OBVIOUS
<1> USE DEF TypeOK, ReclaimMarks, world, maps, poller, ghosts
<1>0. setup \in 0 .. 5
  OBVIOUS
<1>1. CASE Attach
  <2>1. /\ setup' = setup + 1 /\ reclaim_start' = reclaim_start /\ reclaiming' = reclaiming
        /\ began' = began /\ fail' = fail /\ end_miss' = end_miss
    BY <1>1 DEF Attach
  <2>2. setup >= 2 => startup_tids' = startup_tids
    BY <1>0, <1>1, DoneSteps DEF Attach
  <2>3. setup = 1 => startup_tids' = live
    BY <1>0, <1>1, DoneSteps DEF Attach
  <2> QED
    BY <2>1, <2>2, <2>3
<1>2. ASSUME NEW p \in Proc, NEW room \in BOOLEAN, Begin(p, room) PROVE ReclaimMarks'
  <2>1. CASE Done("begin")
    <3>1. setup >= 1 /\ setup' = setup
      BY <1>0, <1>2, <2>1, DoneSteps DEF Begin
    <3>2. /\ reclaiming' = reclaiming \cup {p} /\ began' = began \cup {p}
          /\ startup_tids' = startup_tids \ {p} /\ end_miss' = end_miss
      BY <1>2, <2>1 DEF Begin
    <3>3. reclaim_start' \in {reclaim_start, reclaim_start \cup {p}}
      BY <1>2, <2>1 DEF Begin
    <3>4. ~fail' => ~fail /\ reclaim_start' = reclaim_start \cup {p}
      BY <1>2, <2>1 DEF Begin
    <3> QED
      BY <3>1, <3>2, <3>3, <3>4
  <2>2. CASE ~Done("begin")
    <3>1. setup = 0 /\ setup' = setup
      BY <1>0, <1>2, <2>2, DoneSteps DEF Begin
    <3>2. UNCHANGED <<reclaim_start, began, fail, end_miss>>
      BY <1>2, <2>2 DEF Begin
    <3> QED
      BY <3>1, <3>2
  <2> QED
    BY <2>1, <2>2
<1>3. ASSUME NEW p \in Proc, NEW room \in BOOLEAN, End(p, room) PROVE ReclaimMarks'
  <2>1. CASE Done("end")
    BY <1>0, <1>3, <2>1, DoneSteps DEF End
  <2>2. CASE ~Done("end")
    BY <1>0, <1>3, <2>2, DoneSteps DEF End
  <2> QED
    BY <2>1, <2>2
<1>4. ASSUME NEW p \in Proc, NEW room \in BOOLEAN, MarkVictim(p, room) PROVE ReclaimMarks'
  BY <1>4 DEF MarkVictim
<1>5. ASSUME NEW p \in Proc, Die(p) PROVE ReclaimMarks'
  BY <1>5 DEF Die
<1>6. ASSUME NEW p \in Proc, NEW member \in BOOLEAN, Birth(p, member) PROVE ReclaimMarks'
  BY <1>6 DEF Birth
<1>7. CASE PollRead
  BY <1>7 DEF PollRead
<1>8. CASE PollReclaims
  BY <1>8 DEF PollReclaims
<1>9. ASSUME NEW pressure \in BOOLEAN, PollVictims(pressure) PROVE ReclaimMarks'
  BY <1>9 DEF PollVictims
<1>10. CASE UNCHANGED vars
  BY <1>10 DEF vars
<1> QED
  BY <1>1, <1>2, <1>3, <1>4, <1>5, <1>6, <1>7, <1>8, <1>9, <1>10 DEF Next

(* The readings never overtake the counters. *)
LEMMA OrderStep == TypeOK /\ ReadingsOrdered /\ [Next]_vars => ReadingsOrdered'
<1> SUFFICES ASSUME TypeOK, ReadingsOrdered, [Next]_vars, NEW q \in Proc
             PROVE  /\ prev'[q] <= count'[q] /\ prevOom'[q] <= oom'[q]
                    /\ pc' = "reclaims" => prev'[q] <= raw'[q] /\ raw'[q] <= count'[q]
                    /\ pc' = "victims" => prevOom'[q] <= rawOom'[q] /\ rawOom'[q] <= oom'[q]
  BY DEF ReadingsOrdered
<1> DEFINE readings == <<pc, prev, prevOom, raw, rawOom>>
<1> USE DEF TypeOK, ReadingsOrdered, world, maps, poller, ghosts
<1>0. ASSUME UNCHANGED readings, count'[q] >= count[q], oom'[q] >= oom[q]
      PROVE  /\ prev'[q] <= count'[q] /\ prevOom'[q] <= oom'[q]
             /\ pc' = "reclaims" => prev'[q] <= raw'[q] /\ raw'[q] <= count'[q]
             /\ pc' = "victims" => prevOom'[q] <= rawOom'[q] /\ rawOom'[q] <= oom'[q]
  <2>1. count'[q] \in Nat /\ oom'[q] \in Nat
    BY TypeStep
  <2> QED
    BY <1>0, <2>1
<1>1. CASE Attach
  BY <1>1, <1>0 DEF Attach
<1>2. ASSUME NEW p \in Proc, NEW room \in BOOLEAN, Begin(p, room)
      PROVE  UNCHANGED <<pc, prev, prevOom, raw, rawOom>> /\ count'[q] >= count[q] /\ oom'[q] >= oom[q]
  BY <1>2 DEF Begin
<1>3. ASSUME NEW p \in Proc, NEW room \in BOOLEAN, End(p, room)
      PROVE  UNCHANGED <<pc, prev, prevOom, raw, rawOom>> /\ count'[q] >= count[q] /\ oom'[q] >= oom[q]
  <2>1. count'[q] >= count[q]
    BY <1>3 DEF End
  <2> QED
    BY <1>3, <2>1 DEF End
<1>4. ASSUME NEW p \in Proc, NEW room \in BOOLEAN, MarkVictim(p, room)
      PROVE  UNCHANGED <<pc, prev, prevOom, raw, rawOom>> /\ count'[q] >= count[q] /\ oom'[q] >= oom[q]
  <2>1. oom'[q] >= oom[q]
    BY <1>4 DEF MarkVictim
  <2> QED
    BY <1>4, <2>1 DEF MarkVictim
<1>5. ASSUME NEW p \in Proc, Die(p)
      PROVE  UNCHANGED <<pc, prev, prevOom, raw, rawOom>> /\ count'[q] >= count[q] /\ oom'[q] >= oom[q]
  BY <1>5 DEF Die
<1>6. ASSUME NEW p \in Proc, NEW member \in BOOLEAN, Birth(p, member)
      PROVE  UNCHANGED <<pc, prev, prevOom, raw, rawOom>> /\ count'[q] >= count[q] /\ oom'[q] >= oom[q]
  BY <1>6 DEF Birth
<1>7. CASE PollRead
  BY <1>7 DEF PollRead
<1>8. CASE PollReclaims
  BY <1>8 DEF PollReclaims
<1>9. ASSUME NEW pressure \in BOOLEAN, PollVictims(pressure)
      PROVE  /\ prev'[q] <= count'[q] /\ prevOom'[q] <= oom'[q]
             /\ pc' = "idle"
  BY <1>9 DEF PollVictims
<1>10. CASE UNCHANGED vars
  BY <1>10, <1>0 DEF vars
<1> QED
  BY <1>0, <1>1, <1>2, <1>3, <1>4, <1>5, <1>6, <1>7, <1>8, <1>9, <1>10 DEF Next

(* What was counted is what is owed, plus what was read: reclaims. *)
LEMMA ReclaimsStep ==
  TypeOK /\ ReclaimMarks /\ ReadingsOrdered /\ ReclaimsBalance /\ [Next]_vars => ReclaimsBalance'
<1> SUFFICES ASSUME TypeOK, ReclaimMarks, ReadingsOrdered, ReclaimsBalance, [Next]_vars,
                    ~fail', NEW q \in Proc, q \notin cut'
             PROVE  owed'[q] = count'[q] - prev'[q]
  BY DEF ReclaimsBalance
<1> USE DEF TypeOK, world, maps, poller, ghosts
<1>0. ASSUME fail' = fail, UNCHANGED <<owed, count, prev, cut>>
      PROVE  owed'[q] = count'[q] - prev'[q]
  BY <1>0 DEF ReclaimsBalance
<1>1. CASE Attach
  BY <1>1, <1>0 DEF Attach
<1>2. ASSUME NEW p \in Proc, NEW room \in BOOLEAN, Begin(p, room)
      PROVE  owed'[q] = count'[q] - prev'[q]
  <2>1. ~fail /\ UNCHANGED <<owed, count, prev, cut>>
    BY <1>2 DEF Begin
  <2> QED
    BY <2>1 DEF ReclaimsBalance
<1>3. ASSUME NEW p \in Proc, NEW room \in BOOLEAN, End(p, room)
      PROVE  owed'[q] = count'[q] - prev'[q]
  <2>1. ~fail /\ UNCHANGED <<prev, cut>>
    BY <1>3 DEF End
  <2>2. p \in began <=> p \in reclaim_start
    BY <1>3, <2>1 DEF End, ReclaimMarks
  <2>3. owed[q] = count[q] - prev[q]
    BY <2>1 DEF ReclaimsBalance
  <2>4. CASE Done("end") /\ p \in began
    <3>1. room \/ count[p] # 0
      BY <1>3, <2>2, <2>4 DEF End
    <3>2. owed' = [owed EXCEPT ![p] = @ + 1] /\ count' = [count EXCEPT ![p] = @ + 1]
      BY <1>3, <2>2, <2>4, <3>1 DEF End
    <3> QED
      BY <2>1, <2>3, <3>2
  <2>5. CASE ~(Done("end") /\ p \in began)
    <3>1. owed' = owed /\ count' = count
      BY <1>3, <2>2, <2>5 DEF End
    <3> QED
      BY <2>1, <2>3, <3>1
  <2> QED
    BY <2>4, <2>5
<1>4. ASSUME NEW p \in Proc, NEW room \in BOOLEAN, MarkVictim(p, room)
      PROVE  owed'[q] = count'[q] - prev'[q]
  <2>1. ~fail /\ UNCHANGED <<owed, count, prev, cut>>
    BY <1>4 DEF MarkVictim
  <2> QED
    BY <2>1 DEF ReclaimsBalance
<1>5. ASSUME NEW p \in Proc, Die(p) PROVE owed'[q] = count'[q] - prev'[q]
  BY <1>5, <1>0 DEF Die
<1>6. ASSUME NEW p \in Proc, NEW member \in BOOLEAN, Birth(p, member)
      PROVE  owed'[q] = count'[q] - prev'[q]
  BY <1>6, <1>0 DEF Birth
<1>7. CASE PollRead
  BY <1>7, <1>0 DEF PollRead
<1>8. CASE PollReclaims
  <2> DEFINE read  == {p \in Proc : raw[p] # 0}
             quiet == {p \in read : raw[p] = prev[p]}
             gone  == {p \in read : DeleteStale(stale, p, p \in quiet)}
  <2>1. ~fail /\ q \notin cut
    BY <1>8 DEF PollReclaims
  <2>2. owed[q] = count[q] - prev[q]
    BY <2>1 DEF ReclaimsBalance
  <2>3. prev[q] <= raw[q] /\ raw[q] <= count[q]
    BY <1>8 DEF PollReclaims, ReadingsOrdered
  <2>4. owed'[q] = IF raw[q] # 0 THEN owed[q] - (raw[q] - prev[q]) ELSE owed[q]
    BY <1>8 DEF PollReclaims
  <2>5. CASE q \in gone
    <3>1. raw[q] = prev[q]
      BY <2>5, MemAssumption DEF DeleteStale, StaleCount
    <3>2. count'[q] = 0 /\ prev'[q] = 0 /\ count[q] = raw[q]
      BY <1>8, <2>5 DEF PollReclaims
    <3> QED
      BY <2>2, <2>4, <3>1, <3>2
  <2>6. CASE q \notin gone
    <3>1. count'[q] = count[q] /\ prev'[q] = raw[q]
      BY <1>8, <2>6 DEF PollReclaims
    <3> QED
      BY <2>2, <2>3, <2>4, <3>1
  <2> QED
    BY <2>5, <2>6
<1>9. ASSUME NEW pressure \in BOOLEAN, PollVictims(pressure)
      PROVE  owed'[q] = count'[q] - prev'[q]
  BY <1>9, <1>0 DEF PollVictims
<1>10. CASE UNCHANGED vars
  BY <1>10, <1>0 DEF vars
<1> QED
  BY <1>1, <1>2, <1>3, <1>4, <1>5, <1>6, <1>7, <1>8, <1>9, <1>10 DEF Next

(* What was counted is what is owed, plus what was read: victims. *)
LEMMA VictimsStep ==
  TypeOK /\ ReadingsOrdered /\ VictimsBalance /\ [Next]_vars => VictimsBalance'
<1> SUFFICES ASSUME TypeOK, ReadingsOrdered, VictimsBalance, [Next]_vars,
                    ~fail', NEW q \in Proc, q \notin cutOom'
             PROVE  owedOom'[q] = oom'[q] - prevOom'[q]
  BY DEF VictimsBalance
<1> USE DEF TypeOK, world, maps, poller, ghosts
<1>0. ASSUME ~fail, UNCHANGED <<owedOom, oom, prevOom, cutOom>>
      PROVE  owedOom'[q] = oom'[q] - prevOom'[q]
  BY <1>0 DEF VictimsBalance
<1>1. CASE Attach
  BY <1>1, <1>0 DEF Attach
<1>2. ASSUME NEW p \in Proc, NEW room \in BOOLEAN, Begin(p, room)
      PROVE  ~fail /\ UNCHANGED <<owedOom, oom, prevOom, cutOom>>
  BY <1>2 DEF Begin
<1>3. ASSUME NEW p \in Proc, NEW room \in BOOLEAN, End(p, room)
      PROVE  ~fail /\ UNCHANGED <<owedOom, oom, prevOom, cutOom>>
  BY <1>3 DEF End
<1>4. ASSUME NEW p \in Proc, NEW room \in BOOLEAN, MarkVictim(p, room)
      PROVE  owedOom'[q] = oom'[q] - prevOom'[q]
  <2>1. ~fail /\ UNCHANGED <<prevOom, cutOom>>
    BY <1>4 DEF MarkVictim
  <2>2. owedOom[q] = oom[q] - prevOom[q]
    BY <2>1 DEF VictimsBalance
  <2>3. CASE Done("oom")
    <3>1. room \/ oom[p] # 0
      BY <1>4, <2>3 DEF MarkVictim
    <3>2. owedOom' = [owedOom EXCEPT ![p] = @ + 1] /\ oom' = [oom EXCEPT ![p] = @ + 1]
      BY <1>4, <2>3, <3>1 DEF MarkVictim
    <3> QED
      BY <2>1, <2>2, <3>2
  <2>4. CASE ~Done("oom")
    BY <1>4, <2>1, <2>2, <2>4 DEF MarkVictim
  <2> QED
    BY <2>3, <2>4
<1>5. ASSUME NEW p \in Proc, Die(p) PROVE ~fail /\ UNCHANGED <<owedOom, oom, prevOom, cutOom>>
  BY <1>5 DEF Die
<1>6. ASSUME NEW p \in Proc, NEW member \in BOOLEAN, Birth(p, member)
      PROVE  ~fail /\ UNCHANGED <<owedOom, oom, prevOom, cutOom>>
  BY <1>6 DEF Birth
<1>7. CASE PollRead
  BY <1>7, <1>0 DEF PollRead
<1>8. CASE PollReclaims
  BY <1>8, <1>0 DEF PollReclaims
<1>9. ASSUME NEW pressure \in BOOLEAN, PollVictims(pressure)
      PROVE  owedOom'[q] = oom'[q] - prevOom'[q]
  <2> DEFINE read == {p \in Proc : rawOom[p] # 0}
             new  == {p \in read : rawOom[p] > prevOom[p]}
             gone == {p \in read : DeleteStale(oomStale, p, p \notin new)}
  <2>1. ~fail /\ q \notin cutOom
    BY <1>9 DEF PollVictims
  <2>2. owedOom[q] = oom[q] - prevOom[q]
    BY <2>1 DEF VictimsBalance
  <2>3. prevOom[q] <= rawOom[q] /\ rawOom[q] <= oom[q]
    BY <1>9 DEF PollVictims, ReadingsOrdered
  <2>4. owedOom'[q] = IF q \in new THEN owedOom[q] - (rawOom[q] - prevOom[q]) ELSE owedOom[q]
    BY <1>9 DEF PollVictims
  <2>5. q \notin new => rawOom[q] = prevOom[q]
    BY <2>3
  <2>6. CASE q \in gone
    <3>1. q \notin new
      BY <2>6, MemAssumption DEF DeleteStale, StaleCount
    <3>2. oom'[q] = 0 /\ prevOom'[q] = 0 /\ oom[q] = rawOom[q]
      BY <1>9, <2>6 DEF PollVictims
    <3> QED
      BY <2>2, <2>4, <2>5, <3>1, <3>2
  <2>7. CASE q \notin gone
    <3>1. oom'[q] = oom[q] /\ prevOom'[q] = rawOom[q]
      BY <1>9, <2>7 DEF PollVictims
    <3> HIDE DEF new
    <3>2. CASE q \in new
      BY <2>2, <2>4, <3>1, <3>2
    <3>3. CASE q \notin new
      BY <2>2, <2>4, <2>5, <3>1, <3>3
    <3> QED
      BY <3>2, <3>3
  <2> QED
    BY <2>6, <2>7
<1>10. CASE UNCHANGED vars
  BY <1>10, <1>0 DEF vars
<1> QED
  BY <1>0, <1>1, <1>2, <1>3, <1>4, <1>5, <1>6, <1>7, <1>8, <1>9, <1>10 DEF Next

(* The membership stored last is one of those stored since the last reading. *)
LEMMA ScopesStep == TypeOK /\ ScopesKept /\ [Next]_vars => ScopesKept'
<1> SUFFICES ASSUME TypeOK, ScopesKept, [Next]_vars PROVE ScopesKept'
  OBVIOUS
<1> USE DEF TypeOK, world, maps, poller, ghosts
<1> DEFINE unread == <<targeted, misfiled, readScopes, pc, rawOom, rawIn>>
<1>0. ASSUME UNCHANGED <<unread, scopes, oom, in_target>> PROVE ScopesKept'
  BY <1>0 DEF ScopesKept
<1>1. CASE Attach
  BY <1>1, <1>0 DEF Attach
<1>2. ASSUME NEW p \in Proc, NEW room \in BOOLEAN, Begin(p, room) PROVE ScopesKept'
  BY <1>2, <1>0 DEF Begin
<1>3. ASSUME NEW p \in Proc, NEW room \in BOOLEAN, End(p, room) PROVE ScopesKept'
  BY <1>3, <1>0 DEF End
<1>4. ASSUME NEW p \in Proc, NEW room \in BOOLEAN, MarkVictim(p, room) PROVE ScopesKept'
  <2>1. UNCHANGED unread
    BY <1>4 DEF MarkVictim
  <2>2. CASE ~Done("oom")
    BY <1>0, <1>4, <2>1, <2>2 DEF MarkVictim
  <2>3. CASE Done("oom")
    <3>1. scopes' = [scopes EXCEPT ![p] = @ \cup {InTarget(p)}]
      BY <1>4, <2>3 DEF MarkVictim
    <3>2. CASE room \/ oom[p] # 0
      <4>1. oom' = [oom EXCEPT ![p] = @ + 1] /\ in_target' = [in_target EXCEPT ![p] = InTarget(p)]
        BY <1>4, <2>3, <3>2 DEF MarkVictim
      <4>2. \A s \in Proc : oom'[s] # 0 => scopes'[s] = {} \/ in_target'[s] \in scopes'[s]
        BY <3>1, <4>1 DEF ScopesKept
      <4>3. \A s \in Proc : ~targeted => FALSE \notin scopes'[s]
        BY <3>1 DEF ScopesKept, InTarget
      <4> QED
        BY <2>1, <4>2, <4>3 DEF ScopesKept
    <3>3. CASE ~(room \/ oom[p] # 0)
      <4>1. oom' = oom /\ in_target' = in_target
        BY <1>4, <2>3, <3>3 DEF MarkVictim
      <4>2. \A s \in Proc : oom'[s] # 0 => scopes'[s] = {} \/ in_target'[s] \in scopes'[s]
        BY <3>1, <3>3, <4>1 DEF ScopesKept
      <4>3. \A s \in Proc : ~targeted => FALSE \notin scopes'[s]
        BY <3>1 DEF ScopesKept, InTarget
      <4> QED
        BY <2>1, <4>2, <4>3 DEF ScopesKept
    <3> QED
      BY <3>2, <3>3
  <2> QED
    BY <2>2, <2>3
<1>5. ASSUME NEW p \in Proc, Die(p) PROVE ScopesKept'
  BY <1>5, <1>0 DEF Die
<1>6. ASSUME NEW p \in Proc, NEW member \in BOOLEAN, Birth(p, member) PROVE ScopesKept'
  BY <1>6, <1>0 DEF Birth
<1>7. CASE PollRead
  BY <1>7 DEF PollRead, ScopesKept
<1>8. CASE PollReclaims
  <2>1. UNCHANGED <<targeted, misfiled>> /\ readScopes' = scopes /\ rawOom' = oom /\ rawIn' = in_target
    BY <1>8 DEF PollReclaims
  <2>2. \A p \in Proc : scopes'[p] = {}
    BY <1>8 DEF PollReclaims
  <2> QED
    BY <2>1, <2>2 DEF ScopesKept
<1>9. ASSUME NEW pressure \in BOOLEAN, PollVictims(pressure) PROVE ScopesKept'
  <2> DEFINE read == {p \in Proc : rawOom[p] # 0}
             new  == {p \in read : rawOom[p] > prevOom[p]}
  <2>1. UNCHANGED <<targeted, scopes>> /\ pc' = "idle" /\ \A p \in Proc : readScopes'[p] = {}
    BY <1>9 DEF PollVictims
  <2>2. \A p \in Proc : oom'[p] # 0 => oom'[p] = oom[p] /\ (in_target'[p] <=> in_target[p])
    BY <1>9 DEF PollVictims
  <2>3. \A p \in new : readScopes[p] # {~Listed(p)}
    <3> SUFFICES ASSUME NEW p \in new, readScopes[p] = {~Listed(p)} PROVE FALSE
      OBVIOUS
    <3>1. readScopes[p] # {} /\ p \in Proc /\ rawOom[p] # 0 /\ pc = "victims"
      BY <1>9 DEF PollVictims
    <3>2. rawIn[p] \in readScopes[p] /\ (~targeted => FALSE \notin readScopes[p])
      BY <3>1 DEF ScopesKept
    <3>3. CASE ~targeted
      BY <3>2, <3>3 DEF Listed
    <3>4. CASE targeted
      <4>1. rawIn[p] = ~rawIn[p]
        BY <3>2, <3>4 DEF Listed
      <4> QED
        BY <4>1, <3>1
    <3> QED
      BY <3>3, <3>4
  <2>4. ~misfiled'
    BY <1>9, <2>3 DEF PollVictims, ScopesKept
  <2>5. \A p \in Proc : oom'[p] # 0 => scopes'[p] = {} \/ in_target'[p] \in scopes'[p]
    <3> SUFFICES ASSUME NEW p \in Proc, oom'[p] # 0, scopes[p] # {}
                 PROVE  in_target'[p] \in scopes[p]
      BY <2>1
    <3>1. in_target[p] \in scopes[p] /\ in_target[p] \in BOOLEAN
      BY <2>2 DEF ScopesKept
    <3>2. in_target'[p] \in BOOLEAN
      BY TypeStep
    <3>3. in_target'[p] = in_target[p]
      BY <2>2, <3>1, <3>2
    <3> QED
      BY <3>1, <3>3
  <2>6. \A p \in Proc : ~targeted' => FALSE \notin scopes'[p] /\ FALSE \notin readScopes'[p]
    BY <2>1 DEF ScopesKept
  <2>7. pc' # "victims"
    BY <2>1
  <2> QED
    BY <2>4, <2>5, <2>6, <2>7 DEF ScopesKept
<1>10. CASE UNCHANGED vars
  BY <1>10, <1>0 DEF vars
<1> QED
  BY <1>1, <1>2, <1>3, <1>4, <1>5, <1>6, <1>7, <1>8, <1>9, <1>10 DEF Next

(* Every window sets the baseline anew, or gives it up. *)
LEMMA BaselineStep == TypeOK /\ BaselineFresh /\ [Next]_vars => BaselineFresh'
<1> SUFFICES ASSUME TypeOK, BaselineFresh, [Next]_vars PROVE BaselineFresh'
  OBVIOUS
<1> USE DEF TypeOK, world, maps, poller, ghosts
<1>0. ASSUME UNCHANGED <<baseline, polls, spans, procPrimed>> PROVE BaselineFresh'
  BY <1>0 DEF BaselineFresh
<1>1. CASE Attach
  BY <1>1, <1>0 DEF Attach
<1>2. ASSUME NEW p \in Proc, NEW room \in BOOLEAN, Begin(p, room) PROVE BaselineFresh'
  BY <1>2, <1>0 DEF Begin
<1>3. ASSUME NEW p \in Proc, NEW room \in BOOLEAN, End(p, room) PROVE BaselineFresh'
  BY <1>3, <1>0 DEF End
<1>4. ASSUME NEW p \in Proc, NEW room \in BOOLEAN, MarkVictim(p, room) PROVE BaselineFresh'
  BY <1>4, <1>0 DEF MarkVictim
<1>5. ASSUME NEW p \in Proc, Die(p) PROVE BaselineFresh'
  BY <1>5, <1>0 DEF Die
<1>6. ASSUME NEW p \in Proc, NEW member \in BOOLEAN, Birth(p, member) PROVE BaselineFresh'
  BY <1>6, <1>0 DEF Birth
<1>7. CASE PollRead
  BY <1>7, <1>0 DEF PollRead
<1>8. CASE PollReclaims
  BY <1>8, <1>0 DEF PollReclaims
<1>9. ASSUME NEW pressure \in BOOLEAN, PollVictims(pressure) PROVE BaselineFresh'
  <2>1. baseline' \in {0, polls'} /\ (procPrimed' <=> baseline' # 0)
    BY <1>9 DEF PollVictims, Baseline
  <2>2. spans' <= 1
    BY <1>9 DEF PollVictims, BaselineFresh
  <2> QED
    BY <2>1, <2>2 DEF BaselineFresh
<1>10. CASE UNCHANGED vars
  BY <1>10, <1>0 DEF vars
<1> QED
  BY <1>1, <1>2, <1>3, <1>4, <1>5, <1>6, <1>7, <1>8, <1>9, <1>10 DEF Next

----------------------------------------------------------------------------
(* The invariant holds in every reachable state. *)
LEMMA MemHolds == Spec => []MemInv
<1>1. MemInv /\ [Next]_vars => MemInv'
  BY TypeStep, MarksStep, OrderStep, ReclaimsStep, VictimsStep, ScopesStep, BaselineStep
  DEF MemInv
<1> QED
  BY <1>1, MemInit, PTL DEF Spec

(* No reclaim is lost or reported twice, and none is called lost that was not, unless  *)
(* the health counters say so or Poll deleted a counter that was reused.              *)
THEOREM ReclaimsHold == Spec => []ReclaimsReported
<1>1. MemInv => ReclaimsReported
  BY DEF MemInv, ReclaimMarks, ReclaimsBalance, ReclaimsReported
<1> QED
  BY <1>1, MemHolds, PTL

(* No victim is lost or listed twice, and none under the wrong target. *)
THEOREM VictimsHold == Spec => []VictimsReported
<1>1. MemInv => VictimsReported
  BY DEF MemInv, VictimsBalance, ScopesKept, VictimsReported
<1> QED
  BY <1>1, MemHolds, PTL

(* Growth is never that of more than one window. *)
THEOREM GrowthHolds == Spec => []GrowthOfWindow
<1>1. MemInv => GrowthOfWindow
  BY DEF MemInv, BaselineFresh, GrowthOfWindow
<1> QED
  BY <1>1, MemHolds, PTL
=============================================================================
