--------------------------- MODULE Session_proofs ---------------------------
(* Proofs about Session, for any number of collectors: what is written is   *)
(* valid, and neither exit status nor verdict claims more than was seen.    *)
EXTENDS Session, TLAPS

----------------------------------------------------------------------------
(* Types.                                                                   *)

MainOK ==
  /\ all \in BOOLEAN /\ allowPartial \in BOOLEAN
  /\ output \in {"json", "report", "stream"} /\ interval \in Nat
  /\ pc \in {"stats", "init", "warmup", "select", "tick", "unwind", "exited"}
  /\ i \in 0 .. N
  /\ pc \in {"init", "warmup", "tick"} => i \in 1 .. last

TrackerOK ==
  /\ state \in [Collector -> States] /\ initialized \in [Collector -> BOOLEAN]
  /\ error \in [Collector -> BOOLEAN] /\ healthError \in [Collector -> BOOLEAN]
  /\ health \in [Collector -> BOOLEAN]
  /\ partial \in BOOLEAN /\ active \in SUBSET Collector

OutcomeOK ==
  /\ initErrors \in BOOLEAN /\ runErr \in BOOLEAN /\ reports \in BOOLEAN
  /\ emitted \in {"nothing", "session", "invalid", "findings", "no anomaly", "incomplete",
                  "stream"}
  /\ exitCode \in {-1, 0, 1}
  /\ ticker \in BOOLEAN /\ stopSignal \in BOOLEAN
  /\ dirty \in SUBSET Collector /\ stepped \in BOOLEAN /\ lossy \in SUBSET Collector

(* The type invariant, with main at one of the collectors while it goes     *)
(* through them, in the three parts the provers take one at a time.         *)
Typed == MainOK /\ TrackerOK /\ OutcomeOK

LEMMA TypedIsTypeOK == Typed => TypeOK
BY DEF Typed, TypeOK, MainOK, TrackerOK, OutcomeOK

(* The requested collectors are the first ones.                             *)
LEMMA Requested == /\ last \in 1 .. N /\ requested = 1 .. last
                   /\ requested \subseteq Collector /\ Collector = 1 .. N /\ N \in Nat
<1>1. N \in Nat /\ 1 <= N
  BY SessionAssumption
<1>2. CASE all
  BY <1>1, <1>2 DEF last, requested, Collector
<1>3. CASE ~all
  <2>1. last = 1 /\ requested = {1}
    BY <1>3 DEF last, requested
  <2>2. {1} = 1 .. 1
    BY SMT
  <2> QED
    BY <1>1, <2>1, <2>2 DEF Collector
<1> QED
  BY <1>2, <1>3

(* No step changes the flags, nor what is requested.                        *)
LEMMA FlagsKept == [Next]_vars => UNCHANGED <<all, allowPartial, output, interval, requested, last>>
<1> SUFFICES ASSUME [Next]_vars PROVE UNCHANGED config
  BY DEF config, requested, last
<1> QED
  BY DEF Next, Main, EnableStats, Initialize, Warmup, CaptureHealth, Poll, SkipInactive,
         SelectTick, SelectStop, Conclude, TickerFires, Stop, SetClock, LoseData, vars

(* Where a pass over the collectors goes on.                                *)
LEMMA Advances ==
  ASSUME NEW at, NEW remaining, Advance(at, remaining)
  PROVE  \/ pc' = at /\ i' = i + 1 /\ i < last /\ runErr' = runErr
         \/ pc' = "select" /\ i' = 1 /\ runErr' = runErr
         \/ pc' = "unwind" /\ i' = last /\ runErr' = TRUE
BY DEF Advance, PassOver

(* What becomes of the collector a step of a pass polls, and of main.       *)
Polled(at) ==
  /\ \/ /\ PollOK(i) /\ active' = active
        /\ Advance(at, active) \/ (pc' = "unwind" /\ i' = last /\ runErr' = TRUE)
     \/ PollFails(at)
  /\ lossy' \in {lossy, lossy \cup {i}}
  /\ i \in dirty \/ lossy' = lossy
  /\ UNCHANGED <<config, initErrors, emitted, exitCode, world>>

(* Warm-up and loop poll alike: the first Poll of each collector,           *)
LEMMA WarmupPolls ==
  ASSUME NEW ok \in BOOLEAN, Warmup(ok)
  PROVE  /\ pc = "warmup" /\ i \in active /\ Polled("warmup")
         /\ reports' = reports
BY DEF Warmup, Polled, PollFails, result

(* and every later one.                                                     *)
LEMMA LoopPolls ==
  ASSUME NEW ok \in BOOLEAN, NEW incident \in BOOLEAN, NEW written \in BOOLEAN,
         Poll(ok, incident, written)
  PROVE  /\ pc = "tick" /\ i \in active /\ Polled("tick")
         /\ reports' = (reports \/ incident)
BY DEF Poll, Polled, PollFails

(* A polled collector is in its types, and so is where main goes.           *)
LEMMA PollTypes ==
  ASSUME MainOK, TrackerOK, OutcomeOK, NEW at \in {"warmup", "tick"},
         i \in active, Polled(at)
  PROVE  /\ MainOK' /\ TrackerOK'
         /\ runErr' \in BOOLEAN /\ lossy' \in SUBSET Collector
<1>0. i \in Collector /\ i \in Nat
  BY Requested DEF TrackerOK
<1>1. \/ pc' = at /\ i' = i + 1 /\ i < last /\ runErr' = runErr
      \/ pc' = "select" /\ i' = 1 /\ runErr' = runErr
      \/ pc' = "unwind" /\ i' = last /\ runErr' = TRUE
  BY Advances DEF Polled, PollFails
<1>2. /\ i' \in 0 .. N
      /\ pc' \in {"init", "warmup", "tick"} => i' \in 1 .. last
  BY <1>0, <1>1, Requested
<1>3. MainOK'
  <2>1. UNCHANGED <<all, allowPartial, output, interval, last>>
    BY DEF Polled, config, last
  <2> QED
    BY <1>1, <1>2, <2>1 DEF MainOK
<1>4. ASSUME PollOK(i), active' = active PROVE TrackerOK'
  BY <1>0, <1>4 DEF TrackerOK, PollOK, States
<1>5. ASSUME PollFails(at) PROVE TrackerOK'
  <2>1. active' \in SUBSET Collector
    BY <1>5 DEF TrackerOK, PollFails, Deactivated
  <2> QED
    BY <1>0, <1>5, <2>1 DEF TrackerOK, PollFails, Failed, States
<1>6. runErr' \in BOOLEAN /\ lossy' \in SUBSET Collector
  BY <1>0, <1>1 DEF OutcomeOK, Polled
<1> QED
  BY <1>3, <1>4, <1>5, <1>6 DEF Polled

(* The initial state is well typed.                                         *)
LEMMA TypeInit == Init => Typed
<1> SUFFICES ASSUME Init PROVE MainOK /\ TrackerOK /\ OutcomeOK
  BY DEF Typed
<1>1. i \in 0 .. N
  BY Requested DEF Init
<1>2. MainOK
  BY <1>1 DEF Init, MainOK
<1>3. TrackerOK
  BY DEF Init, TrackerOK, States
<1>4. OutcomeOK
  BY DEF Init, OutcomeOK
<1> QED
  BY <1>2, <1>3, <1>4

(* Every step keeps the types.                                              *)
LEMMA TypeStep == Typed /\ [Next]_vars => Typed'
<1> SUFFICES ASSUME MainOK, TrackerOK, OutcomeOK, [Next]_vars
             PROVE  MainOK' /\ TrackerOK' /\ OutcomeOK'
  BY DEF Typed
<1>0. last' = last
  BY FlagsKept
<1>1. ASSUME NEW ok \in BOOLEAN, EnableStats(ok)
      PROVE  MainOK' /\ TrackerOK' /\ OutcomeOK'
  <2>1. i' \in 0 .. N /\ (pc' \in {"init", "warmup", "tick"} => i' \in 1 .. last)
    BY <1>1, Requested DEF EnableStats
  <2>2. MainOK'
    BY <1>0, <1>1, <2>1 DEF EnableStats, MainOK, config
  <2>3. TrackerOK'
    BY <1>1 DEF EnableStats, TrackerOK
  <2>4. OutcomeOK'
    BY <1>1 DEF EnableStats, OutcomeOK, result, world
  <2> QED
    BY <2>2, <2>3, <2>4
<1>2. ASSUME NEW ok \in BOOLEAN, Initialize(ok)
      PROVE  MainOK' /\ TrackerOK' /\ OutcomeOK'
  <2>0. i \in 1 .. last
    BY <1>2 DEF Initialize, MainOK
  <2>1. \/ pc' = "init" /\ i' \in 1 .. last /\ runErr' = runErr
        \/ pc' = "unwind" /\ i' = last /\ runErr' = TRUE
        \/ pc' = "warmup" /\ i' = 1 /\ runErr' = runErr
    BY <1>2, <2>0, Requested DEF Initialize
  <2>2. MainOK'
    <3>1. i' \in 0 .. N /\ i' \in 1 .. last
      BY <2>1, Requested
    <3> QED
      BY <1>0, <1>2, <2>1, <3>1 DEF Initialize, MainOK, config
  <2>3. TrackerOK'
    <3>1. CASE ok
      <4>1. active' \in SUBSET Collector
        BY <1>2, <2>0, <3>1, Requested DEF Initialize, TrackerOK
      <4> QED
        BY <1>2, <3>1, <4>1 DEF Initialize, TrackerOK, States
    <3>2. CASE ~ok
      BY <1>2, <3>2 DEF Initialize, Failed, TrackerOK, States
    <3> QED
      BY <3>1, <3>2
  <2>4. OutcomeOK'
    BY <1>2, <2>1 DEF Initialize, OutcomeOK, result, world
  <2> QED
    BY <2>2, <2>3, <2>4
<1>3. ASSUME NEW ok \in BOOLEAN, Warmup(ok)
      PROVE  MainOK' /\ TrackerOK' /\ OutcomeOK'
  <2>1. i \in active /\ Polled("warmup") /\ reports' = reports
    BY <1>3, WarmupPolls
  <2>2. MainOK' /\ TrackerOK' /\ runErr' \in BOOLEAN /\ lossy' \in SUBSET Collector
    BY <2>1, PollTypes
  <2>3. OutcomeOK'
    BY <2>1, <2>2 DEF OutcomeOK, Polled, world
  <2> QED
    BY <2>2, <2>3
<1>4. ASSUME NEW ok \in BOOLEAN, NEW incident \in BOOLEAN, NEW written \in BOOLEAN,
             Poll(ok, incident, written)
      PROVE  MainOK' /\ TrackerOK' /\ OutcomeOK'
  <2>1. i \in active /\ Polled("tick") /\ reports' = (reports \/ incident)
    BY <1>4, LoopPolls
  <2>2. MainOK' /\ TrackerOK' /\ runErr' \in BOOLEAN /\ lossy' \in SUBSET Collector
    BY <2>1, PollTypes
  <2>3. OutcomeOK'
    BY <2>1, <2>2 DEF OutcomeOK, Polled, world
  <2> QED
    BY <2>2, <2>3
<1>5. ASSUME NEW ok \in BOOLEAN, CaptureHealth(ok)
      PROVE  MainOK' /\ TrackerOK' /\ OutcomeOK'
  <2>1. i' \in 0 .. N /\ (pc' \in {"init", "warmup", "tick"} => i' \in 1 .. last)
    BY <1>5, Requested DEF CaptureHealth, MainOK
  <2>2. MainOK'
    BY <1>0, <1>5, <2>1 DEF CaptureHealth, MainOK, config
  <2>3. health' \in [Collector -> BOOLEAN] /\ healthError' \in [Collector -> BOOLEAN]
    BY <1>5 DEF CaptureHealth, TrackerOK
  <2>4. TrackerOK'
    BY <1>5, <2>3 DEF CaptureHealth, TrackerOK
  <2>5. OutcomeOK'
    BY <1>5 DEF CaptureHealth, OutcomeOK, result, world
  <2> QED
    BY <2>2, <2>4, <2>5
<1>6. CASE SkipInactive
  <2>0. pc \in {"warmup", "tick"} /\ i \in 1 .. last
    BY <1>6 DEF SkipInactive, MainOK
  <2>1. \/ pc' = pc /\ i' = i + 1 /\ i < last /\ runErr' = runErr
        \/ pc' = "select" /\ i' = 1 /\ runErr' = runErr
        \/ pc' = "unwind" /\ i' = last /\ runErr' = TRUE
    BY <1>6, Advances DEF SkipInactive
  <2>2. MainOK'
    <3>1. i' \in 0 .. N /\ i' \in 1 .. last
      BY <2>0, <2>1, Requested
    <3> QED
      BY <1>0, <1>6, <2>0, <2>1, <3>1 DEF SkipInactive, MainOK, config
  <2>3. TrackerOK'
    BY <1>6 DEF SkipInactive, TrackerOK, tracker
  <2>4. OutcomeOK'
    BY <1>6, <2>1 DEF SkipInactive, OutcomeOK, result, world
  <2> QED
    BY <2>2, <2>3, <2>4
<1>7. CASE SelectTick \/ SelectStop
  <2>1. i' \in 0 .. N /\ (pc' \in {"init", "warmup", "tick"} => i' \in 1 .. last)
    BY <1>7, Requested DEF SelectTick, SelectStop
  <2>2. MainOK'
    BY <1>0, <1>7, <2>1 DEF SelectTick, SelectStop, MainOK, config
  <2>3. TrackerOK'
    BY <1>7 DEF SelectTick, SelectStop, TrackerOK, tracker
  <2>4. OutcomeOK'
    BY <1>7 DEF SelectTick, SelectStop, OutcomeOK, result, world
  <2> QED
    BY <2>2, <2>3, <2>4
<1>8. CASE Conclude
  <2>1. MainOK'
    BY <1>0, <1>8 DEF Conclude, MainOK, config
  <2>2. state' \in [Collector -> States]
    BY <1>8 DEF Conclude, TrackerOK, Finished, States
  <2>3. error' \in [Collector -> BOOLEAN] /\ partial' \in BOOLEAN
    BY <1>8 DEF Conclude, FailureText
  <2>4. TrackerOK'
    BY <1>8, <2>2, <2>3 DEF Conclude, TrackerOK
  <2>5. emitted' \in {"session", "invalid", "findings", "no anomaly", "incomplete", "stream"}
    BY <1>8 DEF Conclude
  <2>6. runErr' \in BOOLEAN /\ exitCode' \in {-1, 0, 1}
    BY <1>8 DEF Conclude
  <2>7. OutcomeOK'
    BY <1>8, <2>5, <2>6 DEF Conclude, OutcomeOK, world
  <2> QED
    BY <2>1, <2>4, <2>7
<1>9. ASSUME TickerFires \/ Stop \/ SetClock \/ \E n \in Collector : LoseData(n)
      PROVE  MainOK' /\ TrackerOK' /\ OutcomeOK'
  <2>1. UNCHANGED <<config, pc, i, tracker, active, initErrors, runErr, result, lossy>>
    BY <1>9 DEF TickerFires, Stop, SetClock, LoseData
  <2>2. MainOK'
    BY <1>0, <2>1 DEF MainOK, config
  <2>3. TrackerOK'
    BY <2>1 DEF TrackerOK, tracker
  <2>4. /\ ticker' \in BOOLEAN /\ stopSignal' \in BOOLEAN
        /\ dirty' \in SUBSET Collector /\ stepped' \in BOOLEAN
    BY <1>9 DEF OutcomeOK, TickerFires, Stop, SetClock, LoseData
  <2>5. OutcomeOK'
    BY <2>1, <2>4 DEF OutcomeOK, result
  <2> QED
    BY <2>2, <2>3, <2>5
<1>10. CASE UNCHANGED vars
  <2>1. MainOK'
    BY <1>0, <1>10 DEF MainOK, vars, config
  <2>2. TrackerOK'
    BY <1>10 DEF TrackerOK, vars, tracker
  <2>3. OutcomeOK'
    BY <1>10 DEF OutcomeOK, vars, result, world
  <2> QED
    BY <2>1, <2>2, <2>3
<1> QED
  BY <1>1, <1>2, <1>3, <1>4, <1>5, <1>6, <1>7, <1>8, <1>9, <1>10 DEF Next, Main

(* The variables of the session stay in their types.                        *)
THEOREM TypeCorrect == Spec => []TypeOK
<1>1. Spec => []Typed
  BY TypeInit, TypeStep, PTL DEF Spec
<1> QED
  BY <1>1, TypedIsTypeOK, PTL

----------------------------------------------------------------------------
(* What is true of a requested collector until main concludes: it is not    *)
(* started before its turn, but then it is, ready or running only without   *)
(* an error, failed only with one that the exit status will show, polled    *)
(* only alive, and once the unwinding has passed it, its health is read.    *)

Alive(n) == state[n] \in {"ready", "running"}

Ahead(n) == pc = "stats" \/ (pc = "init" /\ i <= n)

Begun(n) ==
  /\ Ahead(n) => n \notin active /\ ~error[n]
  /\ state[n] = "not_started" <=> Ahead(n)
  /\ state[n] # "stopped"

Upright(n) ==
  /\ Alive(n) => initialized[n] /\ ~error[n]
  /\ n \in active /\ pc # "unwind" => Alive(n)

Excused(n) ==
  state[n] = "failed" =>
    error[n] /\ (allowPartial \/ runErr \/ (pc = "init" /\ initErrors))

Captured(n) ==
  /\ n \in lossy => n \in dirty
  /\ pc = "unwind" /\ i < n /\ initialized[n] =>
       (health[n] \/ healthError[n]) /\ (n \in lossy => healthError[n])

Sound(n) == Begun(n) /\ Upright(n) /\ Excused(n) /\ Captured(n)

PartialSaid == partial <=> \E n \in requested : state[n] = "failed"

Running == (\A n \in requested : Sound(n)) /\ PartialSaid /\ emitted = "nothing" /\ exitCode = -1

Verdicts == SessionValid /\ CleanExit /\ NoFalseAllClear /\ exitCode # -1

IInv == Typed /\ IF pc = "exited" THEN Verdicts ELSE Running

(* Nothing has started, and nothing is written.                             *)
LEMMA RunningInit == Init => Running
<1> SUFFICES ASSUME Init PROVE Running
  OBVIOUS
<1>1. \A n \in requested : Sound(n)
  BY Requested DEF Init, Sound, Begun, Alive, Ahead, Upright, Excused, Captured
<1>2. PartialSaid
  BY Requested DEF Init, PartialSaid
<1> QED
  BY <1>1, <1>2 DEF Init, Running

(* A collector that nothing has happened to stays sound wherever main goes. *)
LEMMA OthersSound ==
  ASSUME NEW n \in requested, Typed, Typed', Sound(n), pc # "exited", pc' # "exited",
         UNCHANGED allowPartial,
         n \in active' <=> n \in active,
         state'[n] = state[n], initialized'[n] = initialized[n], error'[n] = error[n],
         n \in lossy' <=> n \in lossy, n \in dirty => n \in dirty',
         Ahead(n)' <=> Ahead(n), pc = "unwind" => pc' = "unwind",
         runErr => runErr',
         pc = "init" /\ initErrors => (pc' = "init" /\ initErrors') \/ allowPartial \/ runErr',
         pc' = "unwind" /\ i' < n =>
           /\ pc = "unwind" /\ i < n
           /\ health[n] => health'[n]
           /\ healthError[n] => healthError'[n]
  PROVE  Sound(n)'
<1>1. Begun(n)'
  BY DEF Sound, Begun
<1>2. Upright(n)'
  BY DEF Sound, Upright, Alive
<1>3. Excused(n)'
  BY DEF Sound, Excused
<1>4. Captured(n)'
  BY DEF Sound, Captured
<1> QED
  BY <1>1, <1>2, <1>3, <1>4 DEF Sound

(* Runtime statistics change health errors only.                            *)
LEMMA StatsKeeps ==
  ASSUME Typed, Typed', Running, requested' = requested, NEW ok \in BOOLEAN, EnableStats(ok)
  PROVE  Running'
<1>1. ASSUME NEW n \in requested PROVE Sound(n)'
  <2>1. n \in Nat /\ 1 <= n
    BY Requested
  <2>2. Ahead(n)' <=> Ahead(n)
    BY <2>1 DEF EnableStats, Ahead
  <2>3. Sound(n)
    BY DEF Running
  <2> QED
    BY <2>2, <2>3, OthersSound DEF EnableStats, config, world
<1>2. PartialSaid'
  BY DEF Running, PartialSaid, EnableStats
<1> QED
  BY <1>1, <1>2 DEF Running, EnableStats, result

(* Initialisation settles the collector whose turn it is.                   *)
LEMMA InitializeKeeps ==
  ASSUME Typed, Typed', Running, requested' = requested, NEW ok \in BOOLEAN, Initialize(ok)
  PROVE  Running'
<1>1. pc = "init" /\ i \in 1 .. last /\ i \in requested /\ i \in Collector
  BY Requested DEF Initialize, Typed, MainOK
<1>2. \/ pc' = "init" /\ i' = i + 1 /\ i < last /\ runErr' = runErr
      \/ pc' = "unwind" /\ i' = last /\ i = last /\ runErr' = TRUE
      \/ /\ pc' = "warmup" /\ i = last /\ runErr' = runErr
         /\ allowPartial \/ ~initErrors'
  BY <1>1, Requested DEF Initialize
<1>3. Sound(i) /\ Ahead(i)
  BY <1>1, Requested DEF Running, Ahead
<1>4. state[i] = "not_started" /\ ~error[i]
  BY <1>3 DEF Sound, Begun
<1>5. ASSUME NEW k \in requested, k = i PROVE Sound(k)'
  <2>1. ~Ahead(k)'
    BY <1>1, <1>2, <1>5, Requested DEF Ahead
  <2>2. lossy' = lossy /\ dirty' = dirty /\ (k \in lossy => k \in dirty)
    BY <1>3, <1>5 DEF Initialize, world, Sound, Captured
  <2>3. ~(pc' = "unwind" /\ i' < k)
    BY <1>1, <1>2, <1>5, Requested
  <2>4. CASE ok
    <3>1. state'[k] = "ready" /\ initialized'[k] /\ ~error'[k]
      BY <1>1, <1>4, <1>5, <2>4 DEF Initialize, Typed, TrackerOK
    <3> QED
      BY <2>1, <2>2, <2>3, <3>1 DEF Sound, Begun, Upright, Excused, Captured, Alive
  <2>5. CASE ~ok
    <3>1. /\ state'[k] = "failed" /\ error'[k] /\ k \notin active' /\ initErrors'
          /\ allowPartial' = allowPartial
      BY <1>1, <1>3, <1>5, <2>5
         DEF Initialize, Failed, Typed, TrackerOK, config, Sound, Begun
    <3>2. allowPartial' \/ runErr' \/ (pc' = "init" /\ initErrors')
      BY <1>2, <3>1
    <3> QED
      BY <2>1, <2>2, <2>3, <3>1, <3>2 DEF Sound, Begun, Upright, Excused, Captured, Alive
  <2> QED
    BY <2>4, <2>5
<1>6. ASSUME NEW n \in requested, n # i PROVE Sound(n)'
  <2>1. Sound(n) /\ n \in 1 .. last /\ n \in Collector
    BY Requested DEF Running
  <2>2. Ahead(n)' <=> Ahead(n)
    BY <1>1, <1>2, <1>6, <2>1, Requested DEF Ahead
  <2>3. /\ n \in active' <=> n \in active
        /\ state'[n] = state[n] /\ initialized'[n] = initialized[n] /\ error'[n] = error[n]
    BY <1>1, <1>6, <2>1 DEF Initialize, Failed, Typed, TrackerOK
  <2>4. initErrors => initErrors'
    BY DEF Initialize
  <2>5. ~(pc' = "unwind" /\ i' < n)
    BY <1>2, <2>1, Requested
  <2> QED
    BY <1>1, <1>2, <2>1, <2>2, <2>3, <2>4, <2>5, OthersSound DEF Initialize, config, world
<1>7. PartialSaid'
  <2>2. CASE ok
    <3>1. ASSUME NEW n \in requested PROVE state'[n] = "failed" <=> state[n] = "failed"
      <4>1. n \in Collector
        BY Requested
      <4> QED
        BY <1>1, <1>4, <2>2, <4>1 DEF Initialize, Typed, TrackerOK
    <3>2. partial' = partial
      BY <2>2 DEF Initialize
    <3> QED
      BY <3>1, <3>2 DEF Running, PartialSaid
  <2>3. CASE ~ok
    BY <1>1, <2>3, Requested DEF Initialize, Failed, PartialSaid, Typed, TrackerOK
  <2> QED
    BY <2>2, <2>3
<1> QED
  BY <1>2, <1>5, <1>6, <1>7 DEF Running, Initialize, result

(* A Poll settles the collector it polls.                                   *)
LEMMA PollKeeps ==
  ASSUME Typed, Typed', Running, requested' = requested, NEW at \in {"warmup", "tick"},
         pc = at, i \in active, Polled(at)
  PROVE  Running'
<1>1. i \in 1 .. last /\ i \in requested /\ i \in Collector
  BY Requested DEF Typed, MainOK
<1>2. /\ pc' \in {at, "select", "unwind"}
      /\ pc' = "unwind" => i' = last /\ runErr'
      /\ runErr => runErr'
      /\ UNCHANGED <<allowPartial, dirty, initErrors>>
  BY Advances DEF Polled, PollFails, config, world
<1>3. Sound(i) /\ state[i] # "failed" /\ initialized[i] /\ ~error[i]
  BY <1>1 DEF Running, Sound, Upright, Alive
<1>4. ASSUME NEW n \in requested
      PROVE  ~Ahead(n) /\ ~Ahead(n)' /\ ~(pc' = "unwind" /\ i' < n)
  <2>1. ~Ahead(n) /\ ~Ahead(n)'
    BY <1>2 DEF Ahead
  <2>2. ~(pc' = "unwind" /\ i' < n)
    BY <1>2, Requested
  <2> QED
    BY <2>1, <2>2
<1>5. \/ PollOK(i) /\ active' = active
      \/ Failed(i) /\ lossy' = lossy
         /\ IF allowPartial THEN active' = active \ {i} ELSE pc' = "unwind" /\ active' = active
  BY DEF Polled, PollFails, Deactivated
<1>6. ASSUME NEW k \in requested, k = i PROVE Sound(k)'
  <2>1. k \in lossy' => k \in dirty'
    BY <1>2, <1>3, <1>6 DEF Polled, Sound, Captured
  <2>2. CASE PollOK(i)
    <3>1. state'[k] = "running" /\ initialized'[k] /\ ~error'[k]
      BY <1>1, <1>3, <1>6, <2>2 DEF PollOK, Typed, TrackerOK
    <3> QED
      BY <1>4, <2>1, <3>1 DEF Sound, Begun, Upright, Excused, Captured, Alive
  <2>3. CASE ~PollOK(i)
    <3>1. state'[k] = "failed" /\ error'[k] /\ (k \notin active' \/ pc' = "unwind")
      BY <1>1, <1>5, <1>6, <2>3 DEF Failed, Typed, TrackerOK
    <3>2. allowPartial' \/ runErr'
      BY <1>2, <1>5, <2>3
    <3> QED
      BY <1>4, <2>1, <3>1, <3>2 DEF Sound, Begun, Upright, Excused, Captured, Alive
  <2> QED
    BY <2>2, <2>3
<1>7. ASSUME NEW n \in requested, n # i PROVE Sound(n)'
  <2>1. Sound(n) /\ n \in Collector /\ pc # "init" /\ pc # "unwind" /\ pc # "exited"
    BY Requested DEF Running
  <2>2. /\ n \in active' <=> n \in active
        /\ state'[n] = state[n] /\ initialized'[n] = initialized[n] /\ error'[n] = error[n]
    BY <1>1, <1>5, <1>7, <2>1 DEF PollOK, Failed, Typed, TrackerOK
  <2>3. n \in lossy' <=> n \in lossy
    BY <1>7 DEF Polled
  <2>4. pc' # "exited"
    BY <1>2
  <2> QED
    BY <1>2, <1>4, <2>1, <2>2, <2>3, <2>4, OthersSound
<1>8. PartialSaid'
  <2>1. CASE PollOK(i)
    <3>1. ASSUME NEW n \in requested PROVE state'[n] = "failed" <=> state[n] = "failed"
      <4>1. n \in Collector
        BY Requested
      <4> QED
        BY <1>1, <1>3, <2>1, <4>1 DEF PollOK, Typed, TrackerOK
    <3> QED
      BY <2>1, <3>1 DEF PollOK, Running, PartialSaid
  <2>2. CASE ~PollOK(i)
    BY <1>1, <1>5, <2>2 DEF Failed, PartialSaid, Typed, TrackerOK
  <2> QED
    BY <2>1, <2>2
<1> QED
  BY <1>6, <1>7, <1>8 DEF Running, Polled

(* Main goes on, or around it the world does, and no collector is touched.  *)
LEMMA MovesKeep ==
  ASSUME Typed, Typed', Running, requested' = requested, pc # "exited",
         SkipInactive \/ SelectTick \/ SelectStop \/ TickerFires \/ Stop \/ SetClock
           \/ \E n \in Collector : LoseData(n)
  PROVE  Running'
<1>1. /\ UNCHANGED <<config, tracker, active, initErrors, result, lossy>>
      /\ dirty \subseteq dirty'
      /\ runErr => runErr'
  <2>1. CASE SkipInactive
    BY <2>1, Advances DEF SkipInactive, world
  <2>2. CASE SelectTick \/ SelectStop \/ TickerFires \/ Stop \/ SetClock
    BY <2>2 DEF SelectTick, SelectStop, TickerFires, Stop, SetClock, world
  <2>3. CASE \E n \in Collector : LoseData(n)
    BY <2>3 DEF LoseData
  <2> QED
    BY <2>1, <2>2, <2>3
<1>2. \/ UNCHANGED <<pc, i>>
      \/ /\ pc \in {"warmup", "select", "tick"} /\ pc' \in {"warmup", "select", "tick", "unwind"}
         /\ pc' = "unwind" => i' = last
  BY Advances DEF SkipInactive, SelectTick, SelectStop, TickerFires, Stop, SetClock, LoseData
<1>3. ASSUME NEW n \in requested PROVE Sound(n)'
  <2>1. Sound(n) /\ n \in 1 .. last
    BY Requested DEF Running
  <2>2. Ahead(n)' <=> Ahead(n)
    BY <1>2 DEF Ahead
  <2>3. pc' = "unwind" /\ i' < n => pc = "unwind" /\ i < n
    BY <1>2, <2>1, Requested
  <2>4. /\ pc' # "exited" /\ (pc = "unwind" => pc' = "unwind")
        /\ pc = "init" => pc' = "init"
    BY <1>2
  <2> QED
    BY <1>1, <2>1, <2>2, <2>3, <2>4, OthersSound DEF config, tracker
<1>4. PartialSaid'
  BY <1>1 DEF Running, PartialSaid, tracker
<1> QED
  BY <1>1, <1>3, <1>4 DEF Running, result

(* The unwinding reads the health of the collector it passes.               *)
LEMMA CaptureKeeps ==
  ASSUME Typed, Typed', Running, requested' = requested, NEW ok \in BOOLEAN, CaptureHealth(ok)
  PROVE  Running'
<1>1. /\ pc = "unwind" /\ pc' = "unwind" /\ i \in 1 .. N /\ i' = i - 1
      /\ UNCHANGED <<config, state, initialized, error, partial, active, initErrors, runErr,
                     result, dirty, lossy>>
  BY Requested DEF CaptureHealth, Typed, MainOK, world
<1>2. ASSUME NEW n \in requested, n # i PROVE Sound(n)'
  <2>1. Sound(n) /\ n \in 1 .. last /\ n \in Collector
    BY Requested DEF Running
  <2>2. i' < n => i < n
    BY <1>1, <1>2, <2>1, Requested
  <2>3. (health[n] => health'[n]) /\ (healthError[n] => healthError'[n])
    BY <1>1, <1>2, <2>1 DEF CaptureHealth, Typed, TrackerOK
  <2>4. Ahead(n)' <=> Ahead(n)
    BY <1>1 DEF Ahead
  <2> QED
    BY <1>1, <2>1, <2>2, <2>3, <2>4, OthersSound DEF config
<1>3. ASSUME NEW k \in requested, k = i PROVE Sound(k)'
  <2>1. Sound(k) /\ k \in Collector
    BY Requested DEF Running
  <2>2. initialized[k] => /\ health'[k] \/ healthError'[k]
                          /\ k \in dirty => healthError'[k]
    BY <1>3, <2>1 DEF CaptureHealth, BadHealth, Typed, TrackerOK
  <2>3. ~Ahead(k) /\ ~Ahead(k)'
    BY <1>1 DEF Ahead
  <2>4. Begun(k)' /\ Upright(k)'
    BY <1>1, <2>1, <2>3 DEF Sound, Begun, Upright, Alive
  <2>5. Excused(k)'
    BY <1>1, <2>1 DEF Sound, Excused, config
  <2>6. Captured(k)'
    BY <1>1, <2>1, <2>2 DEF Sound, Captured
  <2> QED
    BY <2>4, <2>5, <2>6 DEF Sound
<1>4. PartialSaid'
  BY <1>1 DEF Running, PartialSaid
<1> QED
  BY <1>1, <1>2, <1>3, <1>4 DEF Running, result

(* What main concludes from sound collectors is true of them.               *)
LEMMA ConcludeVerdicts ==
  ASSUME Typed, Typed', Running, requested' = requested, Conclude
  PROVE  Verdicts'
<1>1. /\ pc = "unwind" /\ i = 0 /\ requested \subseteq 1 .. N
      /\ UNCHANGED <<allowPartial, interval, initialized, healthError, health, lossy, stepped,
                     reports>>
  BY Requested DEF Conclude, config, world
<1>2. ASSUME NEW n \in requested
      PROVE  /\ state[n] = "failed" => error[n] /\ (allowPartial \/ runErr)
             /\ state[n] # "failed" =>
                  /\ Alive(n) /\ initialized[n] /\ ~error[n]
                  /\ health[n] \/ healthError[n]
                  /\ n \in lossy => healthError[n]
  <2>1. Sound(n) /\ ~Ahead(n) /\ i < n /\ n \in Collector
    BY <1>1, Requested DEF Running, Ahead
  <2>2. state[n] \in States
    BY <2>1 DEF Typed, TrackerOK
  <2>3. state[n] # "failed" => Alive(n)
    BY <2>1, <2>2 DEF Sound, Begun, Alive, States
  <2> QED
    BY <1>1, <2>1, <2>3 DEF Sound, Upright, Excused, Captured
<1>3. ASSUME NEW n \in requested
      PROVE  /\ state[n] = "failed" \/ healthError[n] => state'[n] = "failed"
             /\ state[n] # "failed" /\ ~healthError[n] => state'[n] = "stopped"
             /\ error'[n] <=> (error[n] \/ healthError[n])
  <2>1. n \in Collector
    BY Requested
  <2> QED
    BY <1>2, <2>1 DEF Conclude, Finished, FailureText, Alive
<1>4. ASSUME NEW n \in requested
      PROVE  state'[n] # "failed" => state'[n] = "stopped" /\ n \notin lossy'
  BY <1>1, <1>2, <1>3
<1>5. partial' <=> \E n \in requested : state'[n] = "failed"
  <2>1. partial' <=> partial \/ \E n \in requested : healthError[n]
    BY DEF Conclude
  <2>2. partial <=> \E n \in requested : state[n] = "failed"
    BY DEF Running, PartialSaid
  <2> QED
    BY <1>3, <2>1, <2>2
<1>6. SessionValid'
  <2>1. SUFFICES ASSUME ~stepped, ~(interval < 2) PROVE ValidSession
    BY <1>1 DEF Conclude, SessionValid
  <2>3. Milliseconds(interval) > 0
    BY <2>1 DEF Milliseconds, Typed, MainOK
  <2>2. ASSUME NEW n \in requested
        PROVE  \/ /\ state'[n] = "stopped" /\ initialized[n]
                  /\ ~error'[n] /\ ~healthError[n] /\ health[n]
               \/ state'[n] = "failed" /\ error'[n]
    BY <1>2, <1>3
  <2> QED
    BY <1>5, <2>1, <2>2, <2>3 DEF ValidSession, TimesAgree
<1>7. CleanExit'
  <2>1. SUFFICES ASSUME exitCode' = 0
                 PROVE  /\ emitted' # "invalid"
                        /\ ~allowPartial =>
                             \A n \in requested : state'[n] = "stopped" /\ n \notin lossy'
    BY <1>1 DEF CleanExit
  <2>2. ~runErr'
    <3>1. exitCode' = IF runErr' THEN 1 ELSE 0
      BY DEF Conclude
    <3> QED
      BY <2>1, <3>1
  <2>3. /\ emitted' # "invalid" /\ ~runErr
        /\ allowPartial \/ \A n \in requested : ~healthError[n]
    BY <2>2 DEF Conclude
  <2> QED
    BY <1>2, <1>3, <1>4, <2>3
<1>8. NoFalseAllClear'
  <2>1. emitted' = "no anomaly" => Complete
    BY DEF Conclude
  <2> QED
    BY <1>4, <2>1 DEF NoFalseAllClear, Complete
<1>9. exitCode' # -1
  <2>1. exitCode' = 0 \/ exitCode' = 1
    BY DEF Conclude
  <2> QED
    BY <2>1
<1> QED
  BY <1>6, <1>7, <1>8, <1>9 DEF Verdicts

(* Every step keeps the invariant; after the exit nothing happens.          *)
LEMMA InvStep == IInv /\ [Next]_vars => IInv'
<1> SUFFICES ASSUME IInv, [Next]_vars PROVE IInv'
  OBVIOUS
<1>1. Typed /\ Typed' /\ requested' = requested
  BY TypeStep, FlagsKept DEF IInv
<1>2. CASE UNCHANGED vars
  BY <1>1, <1>2
     DEF vars, config, tracker, result, world, IInv, Verdicts, SessionValid, CleanExit,
         NoFalseAllClear, Running, PartialSaid, Sound, Begun, Upright, Excused, Captured,
         Alive, Ahead
<1>3. CASE Next /\ pc = "exited"
  <2>1. exitCode # -1
    BY <1>3 DEF IInv, Verdicts
  <2> QED
    BY <1>3, <2>1
       DEF Next, Main, EnableStats, Initialize, Warmup, CaptureHealth, Poll, SkipInactive,
           SelectTick, SelectStop, Conclude, TickerFires, Stop, SetClock, LoseData
<1>4. CASE Next /\ pc # "exited"
  <2>1. Running
    BY <1>4 DEF IInv
  <2>2. CASE Conclude
    BY <1>1, <2>1, <2>2, ConcludeVerdicts DEF IInv, Conclude
  <2>3. CASE ~Conclude
    <3>1. Running'
      <4>1. ASSUME NEW ok \in BOOLEAN, EnableStats(ok) \/ Initialize(ok) \/ CaptureHealth(ok)
            PROVE  Running'
        BY <1>1, <2>1, <4>1, StatsKeeps, InitializeKeeps, CaptureKeeps
      <4>2. ASSUME NEW ok \in BOOLEAN, Warmup(ok) PROVE Running'
        BY <1>1, <2>1, <4>2, WarmupPolls, PollKeeps
      <4>3. ASSUME NEW ok \in BOOLEAN, NEW incident \in BOOLEAN, NEW written \in BOOLEAN,
                   Poll(ok, incident, written)
            PROVE  Running'
        BY <1>1, <2>1, <4>3, LoopPolls, PollKeeps
      <4>4. CASE SkipInactive \/ SelectTick \/ SelectStop \/ TickerFires \/ Stop \/ SetClock
                   \/ \E n \in Collector : LoseData(n)
        BY <1>1, <1>4, <2>1, <4>4, MovesKeep
      <4> QED
        BY <1>4, <2>3, <4>1, <4>2, <4>3, <4>4 DEF Next, Main
    <3>2. pc' # "exited"
      BY <3>1, <1>4, <2>3, Advances
         DEF Next, Main, EnableStats, Initialize, Warmup, CaptureHealth, Poll, PollFails,
             SkipInactive, SelectTick, SelectStop, TickerFires, Stop, SetClock, LoseData
    <3> QED
      BY <1>1, <3>1, <3>2 DEF IInv
  <2> QED
    BY <2>2, <2>3
<1> QED
  BY <1>2, <1>3, <1>4

(* The invariant holds throughout.                                          *)
LEMMA Inductive == Spec => []IInv
<1>1. Init => IInv
  BY TypeInit, RunningInit DEF Init, IInv
<1> QED
  BY <1>1, InvStep, PTL DEF Spec

(* It gives the three verdicts, before the exit because none is spoken yet. *)
LEMMA InvVerdicts == IInv => SessionValid /\ CleanExit /\ NoFalseAllClear
<1> SUFFICES ASSUME IInv PROVE SessionValid /\ CleanExit /\ NoFalseAllClear
  OBVIOUS
<1>1. CASE pc = "exited"
  BY <1>1 DEF IInv, Verdicts
<1>2. CASE pc # "exited"
  <2>1. emitted = "nothing" /\ exitCode # 0
    BY <1>2 DEF IInv, Running
  <2> QED
    BY <2>1 DEF SessionValid, CleanExit, NoFalseAllClear
<1> QED
  BY <1>1, <1>2

(* Only a wall clock set during the run and an interval below a millisecond *)
(* make the program refuse to write its session (makeDiagnosticSession,     *)
(* ValidateDiagnosticSession).                                              *)
THEOREM SessionsAreValid == Spec => []SessionValid
BY Inductive, InvVerdicts, PTL

(* Exit status 0 vouches for every collector unless partial collection was  *)
(* asked for (main, failUnhealthy).                                         *)
THEOREM ExitStatusHonest == Spec => []CleanExit
BY Inductive, InvVerdicts, PTL

(* "No anomaly" is only said over complete, lossless collection             *)
(* (RenderWithCollectors).                                                  *)
THEOREM AllClearEarned == Spec => []NoFalseAllClear
BY Inductive, InvVerdicts, PTL
=============================================================================
