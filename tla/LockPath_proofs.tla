-------------------------- MODULE LockPath_proofs --------------------------
(* Proofs about LockPath: the marks and intervals in the maps are what the    *)
(* threads do, every charged wait has its waker, no wait of the target is     *)
(* thrown away, and what was waited is reported or still in the map.          *)
EXTENDS LockPath, TLAPS

(* The order in which the programs become active. *)
LEMMA ProgramOrder ==
  ASSUME setup \in 0 .. 5
  PROVE  /\ Attached("futex_enter") => Attached("futex_exit")
         /\ Attached("switch") <=> setup = 5
         /\ setup = 5 => Attached("wakeup") /\ Attached("wakeup_new")
<1>1. Attached("futex_enter") <=> setup >= 2
  BY DEF Attached, Programs
<1>2. Attached("futex_exit") <=> setup >= 1
  BY DEF Attached, Programs
<1>3. Attached("switch") <=> setup >= 5
  BY DEF Attached, Programs
<1>4. Attached("wakeup") <=> setup >= 3
  BY DEF Attached, Programs
<1>5. Attached("wakeup_new") <=> setup >= 4
  BY DEF Attached, Programs
<1> QED
  BY <1>1, <1>2, <1>3, <1>4, <1>5

(* A key names its process and its thread id. *)
LEMMA KeyParts ==
  \A t \in Task, l \in Lock \cup {Kernel} :
    KeyOf(t, l) \in Key /\ KeyOf(t, l)[1] = ProcOf[t] /\ KeyOf(t, l)[2] = TidOf[t]
BY DEF KeyOf, Key

(* The parts of a key are a process and a thread id. *)
LEMMA PartsOfKey == \A k \in Key : k[1] \in Proc /\ k[2] \in Tid
BY DEF KeyOf, Key, Proc, Tid

(* No interval has no task, and no task that is a thread. *)
LEMMA NoIntervalFacts == NoInterval.task = None /\ NoInterval.task \notin Task
BY LockAssumption DEF NoInterval

----------------------------------------------------------------------------
(* Types.                                                                  *)

(* The initial state is well typed. *)
LEMMA TypeInit == Init => TypeOK
<1> SUFFICES ASSUME Init PROVE TypeOK
  OBVIOUS
<1>1. offcpu_start \in [Tid -> [ts : Nat, task : Task \cup {None}, woken : BOOLEAN,
                               lock : Lock \cup {Kernel, None}]]
  BY DEF Init, NoInterval
<1>2. tracked \in SUBSET Proc
  BY LockAssumption DEF Init
<1>3. targeted \in BOOLEAN /\ health \in BOOLEAN /\ nameless \in BOOLEAN /\ thrown \in BOOLEAN
  BY DEF Init
<1>4. inside \in [Task -> Lock \cup {None}] /\ futex_active \in [Tid -> Lock \cup {None}]
  BY DEF Init
<1>5. ns \in [Key -> Nat] /\ raw \in [Key -> Nat] /\ prev \in [Key -> Nat] /\ stale \in [Key -> Nat]
      /\ owed \in [Key -> Int]
  BY DEF Init, Nothing
<1>6. since \in [Task -> Nat] /\ due \in [Task -> Lock \cup {Kernel, None}]
  BY DEF Init
<1> QED
  BY <1>1, <1>2, <1>3, <1>4, <1>5, <1>6 DEF Init, TypeOK

(* What a switch stores and charges has the right type. *)
LEMMA SwitchType ==
  ASSUME TypeOK, NEW next \in Task \cup {None}, NEW how \in How, NEW room \in BOOLEAN,
         Switch(next, how, room)
  PROVE  TypeOK'
<1> USE DEF TypeOK
<1>1. now' \in Nat /\ cpu' \in Task \cup {None} /\ alive' \in SUBSET Task /\ asleep' \in SUBSET Task
  BY DEF Switch
<1>2. offcpu_start' \in [Tid -> [ts : Nat, task : Task \cup {None}, woken : BOOLEAN,
                                 lock : Lock \cup {Kernel, None}]]
  <2>1. cpu \in Task => Opened(cpu) \in [ts : Nat, task : Task \cup {None}, woken : BOOLEAN,
                                         lock : Lock \cup {Kernel, None}]
    <3> SUFFICES ASSUME cpu \in Task
                 PROVE  Opened(cpu) \in [ts : Nat, task : Task \cup {None}, woken : BOOLEAN,
                                         lock : Lock \cup {Kernel, None}]
      OBVIOUS
    <3>1. TidOf[cpu] \in Tid
      BY DEF Tid
    <3> QED
      BY <1>1, <3>1 DEF Opened
  <2>2. NoInterval \in [ts : Nat, task : Task \cup {None}, woken : BOOLEAN,
                        lock : Lock \cup {Kernel, None}]
    BY DEF NoInterval
  <2> HIDE DEF TypeOK
  <2>3. cpu \in Task \cup {None} /\ offcpu_start \in
          [Tid -> [ts : Nat, task : Task \cup {None}, woken : BOOLEAN,
                   lock : Lock \cup {Kernel, None}]]
    BY DEF TypeOK
  <2> QED
    BY <2>1, <2>2, <2>3 DEF Switch
<1>3. ns' \in [Key -> Nat]
  <2> DEFINE Closed(t) == KeyOf(t, offcpu_start[TidOf[t]].lock)
             next_   == IF next = None THEN {} ELSE {next}
             closes  == {t \in next_ : Closes(t)}
             charged == {t \in closes : room \/ ns[Closed(t)] # 0}
  <2>1. ns' = [k \in Key |-> IF \E t \in charged : Closed(t) = k
                             THEN ns[k] + (now' - offcpu_start[k[2]].ts) ELSE ns[k]]
    BY DEF Switch
  <2>2. \A t \in closes : t \in Task /\ now' > offcpu_start[TidOf[t]].ts
    BY DEF Closes
  <2>3. \A t \in Task : Closed(t)[2] = TidOf[t]
    BY DEF KeyOf
  <2>4. \A k \in Key : (\E t \in charged : Closed(t) = k) => now' - offcpu_start[k[2]].ts \in Nat
    <3> SUFFICES ASSUME NEW k \in Key, NEW t \in charged, Closed(t) = k
                 PROVE  now' - offcpu_start[k[2]].ts \in Nat
      OBVIOUS
    <3>1. k[2] = TidOf[t] /\ k[2] \in Tid
      BY <2>2, <2>3, PartsOfKey
    <3> QED
      BY <1>1, <2>2, <3>1
  <2> HIDE DEF Closed, charged
  <2> QED
    BY <2>1, <2>4
<1>4. health' \in BOOLEAN /\ nameless' \in BOOLEAN
  BY DEF Switch
<1>5. since' \in [Task -> Nat]
  BY <1>1 DEF Switch
<1>6. due' \in [Task -> Lock \cup {Kernel, None}]
  BY DEF Switch, Due
<1>7. owed' \in [Key -> Int]
  BY <1>1 DEF Switch
<1> QED
  BY <1>1, <1>2, <1>3, <1>4, <1>5, <1>6, <1>7 DEF Switch, members, poller

(* Every step keeps the types. *)
LEMMA TypeStep == TypeOK /\ [Next]_vars => TypeOK'
<1> SUFFICES ASSUME TypeOK, [Next]_vars PROVE TypeOK'
  OBVIOUS
<1>6. ASSUME NEW next \in Task \cup {None}, NEW how \in How, NEW room \in BOOLEAN,
             Switch(next, how, room)
      PROVE  TypeOK'
  BY <1>6, SwitchType
<1> USE DEF TypeOK, threads, bpf, members, poller, ghosts
<1>0. \A t \in Task : TidOf[t] \in Tid /\ ProcOf[t] \in Proc
  BY DEF Tid, Proc
<1>1. CASE Attach
  BY <1>1 DEF Attach
<1>2. ASSUME NEW t \in Task, Birth(t) PROVE TypeOK'
  BY <1>0, <1>2 DEF Birth, Admit
<1>3. ASSUME NEW t \in Task, Wake(t) PROVE TypeOK'
  <2>1. admitted' \in SUBSET Proc /\ observed' \in SUBSET Proc
    BY <1>0, <1>3 DEF Wake, Admit
  <2>2. offcpu_start' \in [Tid -> [ts : Nat, task : Task \cup {None}, woken : BOOLEAN,
                                   lock : Lock \cup {Kernel, None}]]
    <3>1. \A e \in [ts : Nat, task : Task \cup {None}, woken : BOOLEAN, lock : Lock \cup {Kernel, None}] :
            [e EXCEPT !.woken = TRUE]
              \in [ts : Nat, task : Task \cup {None}, woken : BOOLEAN, lock : Lock \cup {Kernel, None}]
      OBVIOUS
    <3>2. CASE offcpu_start' = offcpu_start
      BY <3>2
    <3>3. CASE offcpu_start' = [offcpu_start EXCEPT ![TidOf[t]] = [@ EXCEPT !.woken = TRUE]]
      BY <1>0, <3>1, <3>3
    <3> QED
      BY <1>3, <3>2, <3>3 DEF Wake
  <2> QED
    BY <1>3, <2>1, <2>2 DEF Wake
<1>4. ASSUME NEW t \in Task, FutexExit(t) PROVE TypeOK'
  BY <1>0, <1>4 DEF FutexExit
<1>5. ASSUME NEW t \in Task, NEW l \in Lock, NEW room \in BOOLEAN, FutexEnter(t, l, room)
      PROVE  TypeOK'
  <2>1. admitted' \in SUBSET Proc /\ observed' \in SUBSET Proc
    BY <1>0, <1>5 DEF FutexEnter, Admit
  <2>2. health' \in BOOLEAN
    BY <1>5 DEF FutexEnter
  <2>3. futex_active' \in [Tid -> Lock \cup {None}]
    BY <1>0, <1>5 DEF FutexEnter
  <2> QED
    BY <1>0, <1>5, <2>1, <2>2, <2>3 DEF FutexEnter
<1>7. ASSUME NEW forgotten \in SUBSET Proc, PollRefresh(forgotten) PROVE TypeOK'
  BY <1>7, LockAssumption DEF PollRefresh
<1>8. CASE PollSync
  BY <1>8 DEF PollSync
<1>9. CASE PollRead
  BY <1>9 DEF PollRead
<1>10. CASE PollSettle
  <2>1. tracked' \in SUBSET Proc /\ observed' \in SUBSET Proc /\ polls' \in Nat /\ pc' = "idle"
    BY <1>10 DEF PollSettle, Known
  <2>2. ns' \in [Key -> Nat] /\ prev' \in [Key -> Nat] /\ raw' \in [Key -> Nat]
    BY <1>10 DEF PollSettle, Nothing
  <2>3. futex_active' \in [Tid -> Lock \cup {None}]
    BY <1>10 DEF PollSettle
  <2>4. offcpu_start' \in [Tid -> [ts : Nat, task : Task \cup {None}, woken : BOOLEAN,
                                   lock : Lock \cup {Kernel, None}]]
    BY <1>10 DEF PollSettle, NoInterval
  <2>5. stale' \in [Key -> Nat]
    BY <1>10 DEF PollSettle, StaleCount
  <2>6. owed' \in [Key -> Int]
    BY <1>10 DEF PollSettle, Delta
  <2>7. cut' \in SUBSET Key /\ thrown' \in BOOLEAN
    BY <1>10 DEF PollSettle
  <2> QED
    BY <1>10, <2>1, <2>2, <2>3, <2>4, <2>5, <2>6, <2>7 DEF PollSettle
<1>11. CASE UNCHANGED vars
  BY <1>11 DEF vars
<1> HIDE DEF TypeOK, threads, bpf, members, poller, ghosts
<1> QED
  BY <1>1, <1>2, <1>3, <1>4, <1>5, <1>6, <1>7, <1>8, <1>9, <1>10, <1>11 DEF Next

(* The maps, the threads and the collector keep their types. *)
THEOREM TypeCorrect == Spec => []TypeOK
BY TypeInit, TypeStep, PTL DEF Spec

----------------------------------------------------------------------------
(* Threads, marks and intervals.                                           *)

(* One thread at a time has an id; what runs or sleeps is alive. *)
ThreadsAlive ==
  /\ cpu \in alive \cup {None} /\ asleep \subseteq alive \ {cpu}
  /\ \A s, t \in alive : TidOf[s] = TidOf[t] => s = t

(* A mark will be removed by the program at the exit of the call that it stands for. *)
MarksBracketed ==
  \A d \in Tid : futex_active[d] # None =>
    \E t \in alive \cap bracketed : TidOf[t] = d /\ inside[t] = futex_active[d]

(* The interval of a live thread that does not run; who wakes it will say so. *)
IntervalOfSleeper(d) ==
  LET e == offcpu_start[d] IN
  /\ setup = 5
  /\ e.task \in alive /\ TidOf[e.task] = d /\ cpu # e.task
  /\ e.ts = since[e.task] /\ e.lock \in {inside[e.task], Kernel}
  /\ e.woken \/ e.task \in asleep

Intervals == \A d \in Tid : offcpu_start[d] # NoInterval => IntervalOfSleeper(d)

(* The threads' part holds initially. *)
LEMMA ThreadsInit == Init => ThreadsAlive /\ MarksBracketed /\ Intervals
BY DEF Init, ThreadsAlive, MarksBracketed, Intervals

(* Threads are born under a free id, and die running. *)
LEMMA ThreadsStep == TypeOK /\ ThreadsAlive /\ [Next]_vars => ThreadsAlive'
<1> SUFFICES ASSUME TypeOK, ThreadsAlive, [Next]_vars PROVE ThreadsAlive'
  OBVIOUS
<1> USE DEF ThreadsAlive, threads, bpf, members, poller, ghosts
<1>0. ASSUME UNCHANGED <<alive, cpu, asleep>> PROVE ThreadsAlive'
  BY <1>0
<1>1. CASE Attach
  BY <1>0, <1>1 DEF Attach
<1>2. ASSUME NEW t \in Task, Birth(t) PROVE ThreadsAlive'
  BY <1>2 DEF Birth
<1>3. ASSUME NEW t \in Task, Wake(t) PROVE ThreadsAlive'
  BY <1>3 DEF Wake
<1>4. ASSUME NEW t \in Task, FutexExit(t) PROVE ThreadsAlive'
  BY <1>0, <1>4 DEF FutexExit
<1>5. ASSUME NEW t \in Task, NEW l \in Lock, NEW room \in BOOLEAN, FutexEnter(t, l, room)
      PROVE  ThreadsAlive'
  BY <1>0, <1>5 DEF FutexEnter
<1>6. ASSUME NEW next \in Task \cup {None}, NEW how \in How, NEW room \in BOOLEAN,
             Switch(next, how, room)
      PROVE  ThreadsAlive'
  <2>1. /\ alive' = IF how = "exit" THEN alive \ (IF cpu = None THEN {} ELSE {cpu}) ELSE alive
        /\ asleep' = IF Sleeps(how) THEN asleep \cup (IF cpu = None THEN {} ELSE {cpu}) ELSE asleep
        /\ cpu' = next /\ cpu # next
        /\ (IF next = None THEN {} ELSE {next}) \subseteq alive \ asleep
    BY <1>6 DEF Switch
  <2>2. None \notin alive
    BY LockAssumption DEF TypeOK
  <2> QED
    BY <2>1, <2>2 DEF Sleeps
<1>7. ASSUME NEW forgotten \in SUBSET Proc, PollRefresh(forgotten) PROVE ThreadsAlive'
  BY <1>0, <1>7 DEF PollRefresh
<1>8. CASE PollSync
  BY <1>0, <1>8 DEF PollSync
<1>9. CASE PollRead
  BY <1>0, <1>9 DEF PollRead
<1>10. CASE PollSettle
  BY <1>0, <1>10 DEF PollSettle
<1>11. CASE UNCHANGED vars
  BY <1>0, <1>11 DEF vars
<1> QED
  BY <1>1, <1>2, <1>3, <1>4, <1>5, <1>6, <1>7, <1>8, <1>9, <1>10, <1>11 DEF Next

(* Marks stay those of live threads inside a call that will remove them. *)
LEMMA MarksStep == TypeOK /\ ThreadsAlive /\ MarksBracketed /\ [Next]_vars => MarksBracketed'
<1> SUFFICES ASSUME TypeOK, ThreadsAlive, MarksBracketed, [Next]_vars PROVE MarksBracketed'
  OBVIOUS
<1> USE DEF MarksBracketed, threads, bpf, members, poller, ghosts
<1>0. ASSUME UNCHANGED <<futex_active, alive, bracketed, inside>> PROVE MarksBracketed'
  BY <1>0
<1>i. \A s, t \in alive : TidOf[s] = TidOf[t] => s = t
  BY DEF ThreadsAlive
<1>1. CASE Attach
  BY <1>0, <1>1 DEF Attach
<1>2. ASSUME NEW t \in Task, Birth(t) PROVE MarksBracketed'
  BY <1>2 DEF Birth
<1>3. ASSUME NEW t \in Task, Wake(t) PROVE MarksBracketed'
  BY <1>0, <1>3 DEF Wake
<1>4. ASSUME NEW t \in Task, FutexExit(t) PROVE MarksBracketed'
  <2>1. t \in alive /\ inside[t] # None
    BY <1>4, LockAssumption DEF FutexExit, ThreadsAlive, TypeOK
  <2>2. /\ inside' = [inside EXCEPT ![t] = None] /\ bracketed' = bracketed \ {t} /\ alive' = alive
        /\ futex_active' = IF t \in bracketed THEN [futex_active EXCEPT ![TidOf[t]] = None]
                           ELSE futex_active
    BY <1>4 DEF FutexExit
  <2> SUFFICES ASSUME NEW d \in Tid, futex_active'[d] # None
               PROVE  \E s \in alive \cap bracketed' : TidOf[s] = d /\ inside'[s] = futex_active'[d]
    BY <2>2
  <2>3. futex_active'[d] = futex_active[d] /\ (t \in bracketed => TidOf[t] # d)
    BY <2>2 DEF TypeOK
  <2>4. PICK s \in alive \cap bracketed : TidOf[s] = d /\ inside[s] = futex_active[d]
    BY <2>3
  <2>5. s # t
    BY <2>3, <2>4
  <2> QED
    BY <2>2, <2>3, <2>4, <2>5 DEF TypeOK
<1>5. ASSUME NEW t \in Task, NEW l \in Lock, NEW room \in BOOLEAN, FutexEnter(t, l, room)
      PROVE  MarksBracketed'
  <2>1. t \in alive /\ inside[t] = None
    BY <1>5, LockAssumption DEF FutexEnter, ThreadsAlive
  <2>2. futex_active[TidOf[t]] = None
    BY <1>i, <2>1 DEF Tid
  <2>3. inside' = [inside EXCEPT ![t] = l] /\ alive' = alive /\ bracketed \subseteq bracketed'
    BY <1>5 DEF FutexEnter
  <2> SUFFICES ASSUME NEW d \in Tid, futex_active'[d] # None
               PROVE  \E s \in alive \cap bracketed' : TidOf[s] = d /\ inside'[s] = futex_active'[d]
    BY <2>3
  <2>4. CASE d = TidOf[t]
    <3>1. Attached("futex_enter") /\ futex_active'[d] = l
      BY <1>5, <2>2, <2>4 DEF FutexEnter, TypeOK
    <3>2. t \in bracketed'
      BY <1>5, <3>1, ProgramOrder DEF FutexEnter, TypeOK
    <3> QED
      BY <2>1, <2>3, <2>4, <3>1, <3>2 DEF TypeOK
  <2>5. CASE d # TidOf[t]
    <3>1. futex_active'[d] = futex_active[d]
      BY <1>5, <2>5 DEF FutexEnter, TypeOK
    <3>2. PICK s \in alive \cap bracketed : TidOf[s] = d /\ inside[s] = futex_active[d]
      BY <3>1
    <3> QED
      BY <2>3, <2>5, <3>1, <3>2 DEF TypeOK
  <2> QED
    BY <2>4, <2>5
<1>6. ASSUME NEW next \in Task \cup {None}, NEW how \in How, NEW room \in BOOLEAN,
             Switch(next, how, room)
      PROVE  MarksBracketed'
  <2>1. UNCHANGED <<futex_active, bracketed, inside>>
    BY <1>6 DEF Switch
  <2>2. \A t \in alive \ alive' : inside[t] = None
    BY <1>6 DEF Switch
  <2> QED
    BY <2>1, <2>2
<1>7. ASSUME NEW forgotten \in SUBSET Proc, PollRefresh(forgotten) PROVE MarksBracketed'
  BY <1>0, <1>7 DEF PollRefresh
<1>8. CASE PollSync
  BY <1>0, <1>8 DEF PollSync
<1>9. CASE PollRead
  BY <1>0, <1>9 DEF PollRead
<1>10. CASE PollSettle
  BY <1>10 DEF PollSettle, TypeOK
<1>11. CASE UNCHANGED vars
  BY <1>0, <1>11 DEF vars
<1> QED
  BY <1>1, <1>2, <1>3, <1>4, <1>5, <1>6, <1>7, <1>8, <1>9, <1>10, <1>11 DEF Next

(* A switch opens the interval of the thread that leaves, gives up that of the one     *)
(* that arrives, and leaves the others alone.                                          *)
LEMMA SwitchIntervals ==
  ASSUME TypeOK, ThreadsAlive, MarksBracketed, Intervals,
         NEW next \in Task \cup {None}, NEW how \in How, NEW room \in BOOLEAN,
         Switch(next, how, room), NEW d \in Tid, offcpu_start'[d] # NoInterval
  PROVE  IntervalOfSleeper(d)'
<1> DEFINE prev_  == IF cpu = None THEN {} ELSE {cpu}
           next_  == IF next = None THEN {} ELSE {next}
           opens  == {t \in prev_ : Opens(t, how)}
           opened == {t \in opens : room \/ offcpu_start[TidOf[t]] # NoInterval}
<1>1. /\ cpu' = next /\ cpu # next /\ now' = now + 1 /\ UNCHANGED <<setup, inside>>
      /\ next_ \subseteq alive \ asleep
      /\ alive' = IF how = "exit" THEN alive \ prev_ ELSE alive
      /\ asleep' = IF Sleeps(how) THEN asleep \cup prev_ ELSE asleep
      /\ since' = [t \in Task |-> IF t \in prev_ /\ Sleeps(how) THEN now'
                                   ELSE IF t \in next_ THEN 0 ELSE since[t]]
  BY DEF Switch
<1>2. \A s, t \in alive : TidOf[s] = TidOf[t] => s = t
  BY DEF ThreadsAlive
<1>3. CASE \E t \in opened : TidOf[t] = d
  <2>1. offcpu_start'[d] = Opened(cpu) /\ TidOf[cpu] = d /\ cpu # None /\ Opens(cpu, how)
    BY <1>3 DEF Switch
  <2>2. cpu \in alive /\ cpu \in Task
    BY <2>1 DEF ThreadsAlive, TypeOK
  <2>3. setup = 5 /\ Sleeps(how) /\ how # "exit"
    BY <2>1, ProgramOrder DEF Opens, TypeOK, Sleeps
  <2>4. futex_active[d] # None => inside[cpu] = futex_active[d]
    <3> SUFFICES ASSUME futex_active[d] # None PROVE inside[cpu] = futex_active[d]
      OBVIOUS
    <3>1. PICK t \in alive \cap bracketed : TidOf[t] = d /\ inside[t] = futex_active[d]
      BY DEF MarksBracketed
    <3> QED
      BY <1>2, <2>1, <2>2, <3>1
  <2>5. /\ offcpu_start'[d].task = cpu /\ offcpu_start'[d].ts = now'
        /\ offcpu_start'[d].lock \in {inside[cpu], Kernel}
    BY <2>1, <2>4 DEF Opened
  <2>6. cpu \in alive' /\ cpu \in asleep' /\ since'[cpu] = now'
    BY <1>1, <2>1, <2>2, <2>3
  <2> QED
    BY <1>1, <2>1, <2>3, <2>5, <2>6 DEF IntervalOfSleeper
<1>4. CASE ~\E t \in opened : TidOf[t] = d
  <2>1. offcpu_start'[d] = offcpu_start[d] /\ \A t \in next_ : ~(TidOf[t] = d /\ GivenUp(t, TRUE))
    BY <1>4 DEF Switch, GivenUp
  <2>2. IntervalOfSleeper(d)
    BY <2>1 DEF Intervals
  <2> DEFINE e == offcpu_start[d]
  <2>3. /\ setup = 5 /\ e.task \in alive /\ TidOf[e.task] = d /\ cpu # e.task
        /\ e.ts = since[e.task] /\ e.lock \in {inside[e.task], Kernel}
        /\ e.woken \/ e.task \in asleep
    BY <2>2 DEF IntervalOfSleeper
  <2>4. e.task \notin next_
    <3> SUFFICES ASSUME e.task \in next_ PROVE FALSE
      OBVIOUS
    <3>1. Attached("switch")
      BY <2>3, ProgramOrder DEF TypeOK
    <3> QED
      BY <2>1, <2>3, <3>1 DEF GivenUp
  <2>5. e.task \notin prev_ /\ e.task \in Task
    BY <2>3 DEF TypeOK
  <2>6. e.task \in alive' /\ cpu' # e.task /\ since'[e.task] = since[e.task]
        /\ (e.task \in asleep => e.task \in asleep')
    BY <1>1, <2>3, <2>4, <2>5, LockAssumption
  <2> QED
    BY <1>1, <2>1, <2>3, <2>6 DEF IntervalOfSleeper
<1> QED
  BY <1>3, <1>4

(* Intervals stay those of threads that do not run. *)
LEMMA IntervalsStep ==
  TypeOK /\ ThreadsAlive /\ MarksBracketed /\ Intervals /\ [Next]_vars => Intervals'
<1> SUFFICES ASSUME TypeOK, ThreadsAlive, MarksBracketed, Intervals, [Next]_vars PROVE Intervals'
  OBVIOUS
<1> USE DEF threads, bpf, members, poller, ghosts
<1>0. ASSUME UNCHANGED <<offcpu_start, setup, alive, cpu, since, inside, asleep>> PROVE Intervals'
  BY <1>0 DEF Intervals, IntervalOfSleeper
<1>1. CASE Attach
  BY <1>1 DEF Attach, Intervals, IntervalOfSleeper, TypeOK
<1>2. ASSUME NEW t \in Task, Birth(t) PROVE Intervals'
  BY <1>2 DEF Birth, Intervals, IntervalOfSleeper
<1>3. ASSUME NEW t \in Task, Wake(t) PROVE Intervals'
  <2>1. UNCHANGED <<setup, alive, cpu, since, inside>> /\ asleep' = asleep \ {t}
    BY <1>3 DEF Wake
  <2>2. t \in alive
    BY <1>3 DEF Wake, ThreadsAlive
  <2> SUFFICES ASSUME NEW d \in Tid, offcpu_start'[d] # NoInterval PROVE IntervalOfSleeper(d)'
    BY DEF Intervals
  <2>3. offcpu_start[d] # NoInterval
    BY <1>3, <2>2 DEF Wake, TypeOK
  <2>4. IntervalOfSleeper(d)
    BY <2>3 DEF Intervals
  <2>5. CASE TidOf[t] = d
    <3>1. setup = 5 /\ Attached("wakeup")
      BY <2>4, ProgramOrder DEF IntervalOfSleeper, TypeOK
    <3>2. offcpu_start' = [offcpu_start EXCEPT ![d] = [@ EXCEPT !.woken = TRUE]]
      BY <1>3, <2>3, <2>5, <3>1 DEF Wake
    <3>3. offcpu_start[d] \in [ts : Nat, task : Task \cup {None}, woken : BOOLEAN,
                               lock : Lock \cup {Kernel, None}]
      BY DEF TypeOK
    <3>4. /\ offcpu_start'[d].task = offcpu_start[d].task /\ offcpu_start'[d].ts = offcpu_start[d].ts
          /\ offcpu_start'[d].lock = offcpu_start[d].lock /\ offcpu_start'[d].woken
      BY <3>2, <3>3 DEF TypeOK
    <3> QED
      BY <2>1, <2>4, <3>4 DEF IntervalOfSleeper
  <2>6. CASE TidOf[t] # d
    <3>1. offcpu_start'[d] = offcpu_start[d]
      BY <1>3, <2>6 DEF Wake, TypeOK
    <3> QED
      BY <2>1, <2>4, <2>6, <3>1 DEF IntervalOfSleeper
  <2> QED
    BY <2>5, <2>6
<1>4. ASSUME NEW t \in Task, FutexExit(t) PROVE Intervals'
  BY <1>4 DEF FutexExit, Intervals, IntervalOfSleeper, TypeOK
<1>5. ASSUME NEW t \in Task, NEW l \in Lock, NEW room \in BOOLEAN, FutexEnter(t, l, room)
      PROVE  Intervals'
  BY <1>5 DEF FutexEnter, Intervals, IntervalOfSleeper, TypeOK
<1>6. ASSUME NEW next \in Task \cup {None}, NEW how \in How, NEW room \in BOOLEAN,
             Switch(next, how, room)
      PROVE  Intervals'
  BY <1>6, SwitchIntervals DEF Intervals
<1>7. ASSUME NEW forgotten \in SUBSET Proc, PollRefresh(forgotten) PROVE Intervals'
  BY <1>0, <1>7 DEF PollRefresh
<1>8. CASE PollSync
  BY <1>0, <1>8 DEF PollSync
<1>9. CASE PollRead
  BY <1>0, <1>9 DEF PollRead
<1>10. CASE PollSettle
  <2>1. \A d \in Tid : offcpu_start'[d] # NoInterval => offcpu_start'[d] = offcpu_start[d]
    BY <1>10 DEF PollSettle
  <2>2. UNCHANGED <<setup, alive, cpu, since, inside, asleep>>
    BY <1>10 DEF PollSettle
  <2> QED
    BY <2>1, <2>2 DEF Intervals, IntervalOfSleeper
<1>11. CASE UNCHANGED vars
  BY <1>0, <1>11 DEF vars
<1> QED
  BY <1>1, <1>2, <1>3, <1>4, <1>5, <1>6, <1>7, <1>8, <1>9, <1>10, <1>11 DEF Next

(* A thread that arrives has been woken, and its interval says so. *)
LEMMA NamedStep ==
  TypeOK /\ ThreadsAlive /\ Intervals /\ ~nameless /\ [Next]_vars => ~nameless'
<1> SUFFICES ASSUME TypeOK, ThreadsAlive, Intervals, ~nameless, [Next]_vars PROVE ~nameless'
  OBVIOUS
<1> USE DEF threads, bpf, members, poller, ghosts
<1>1. ASSUME NEW next \in Task \cup {None}, NEW how \in How, NEW room \in BOOLEAN,
             Switch(next, how, room)
      PROVE  ~nameless'
  <2>1. \A t \in alive \ asleep : Closes(t) => offcpu_start[TidOf[t]].woken
    <3> SUFFICES ASSUME NEW t \in alive \ asleep, Closes(t)
                 PROVE  offcpu_start[TidOf[t]].woken
      OBVIOUS
    <3>1. t \in Task /\ TidOf[t] \in Tid
      BY DEF Tid, TypeOK
    <3>2. offcpu_start[TidOf[t]].task = t /\ offcpu_start[TidOf[t]] # NoInterval
      BY <3>1, NoIntervalFacts DEF Closes
    <3> QED
      BY <3>1, <3>2 DEF Intervals, IntervalOfSleeper
  <2>2. (IF next = None THEN {} ELSE {next}) \subseteq alive \ asleep
    BY <1>1 DEF Switch
  <2> QED
    BY <1>1, <2>1, <2>2 DEF Switch
<1>2. CASE UNCHANGED nameless
  BY <1>2
<1>3. \/ UNCHANGED nameless
      \/ \E next \in Task \cup {None}, how \in How, room \in BOOLEAN : Switch(next, how, room)
  BY DEF Next, Attach, Birth, Wake, FutexExit, FutexEnter, PollRefresh, PollSync, PollRead,
         PollSettle, vars
<1> QED
  BY <1>1, <1>2, <1>3

----------------------------------------------------------------------------
(* The target's waits.                                                     *)

(* The hooks, the statistics or a reading of them have something of process p. *)
Trace(p) ==
  \/ p \in admitted
  \/ \E t \in Task : ProcOf[t] = p /\ offcpu_start[TidOf[t]].task = t
  \/ \E k \in Key : k[1] = p /\ (ns[k] # 0 \/ raw[k] # 0)

(* User space knows the live processes of the target that have left a trace, or will be *)
(* told; before the last program is attached, membership is the only trace.             *)
TracesKnown ==
  targeted =>
    /\ \A p \in Near \cap ProcAlive : Trace(p) => p \in tracked \cup observed
    /\ setup < 5 => /\ admitted \subseteq tracked \cup observed
                    /\ pc = "idle"
                    /\ \A k \in Key : ns[k] = 0 /\ raw[k] = 0

(* The target never changes; only Poll throws keys away. *)
LEMMA UnchangedByAll ==
  ASSUME [Next]_vars
  PROVE  targeted' = targeted /\ (thrown' = thrown \/ PollSettle)
<1> USE DEF threads, bpf, members, poller, ghosts
<1>1. CASE Attach
  BY <1>1 DEF Attach
<1>2. ASSUME NEW t \in Task, Birth(t) \/ Wake(t) \/ FutexExit(t)
      PROVE  targeted' = targeted /\ thrown' = thrown
  BY <1>2 DEF Birth, Wake, FutexExit
<1>3. ASSUME NEW t \in Task, NEW l \in Lock, NEW room \in BOOLEAN, FutexEnter(t, l, room)
      PROVE  targeted' = targeted /\ thrown' = thrown
  BY <1>3 DEF FutexEnter
<1>4. ASSUME NEW next \in Task \cup {None}, NEW how \in How, NEW room \in BOOLEAN,
             Switch(next, how, room)
      PROVE  targeted' = targeted /\ thrown' = thrown
  BY <1>4 DEF Switch
<1>5. ASSUME NEW forgotten \in SUBSET Proc, PollRefresh(forgotten)
      PROVE  targeted' = targeted /\ thrown' = thrown
  BY <1>5 DEF PollRefresh
<1>6. CASE PollSync \/ PollRead
  BY <1>6 DEF PollSync, PollRead
<1>7. CASE PollSettle
  BY <1>7 DEF PollSettle
<1>8. CASE UNCHANGED vars
  BY <1>8 DEF vars
<1> HIDE DEF threads, bpf, members, poller, ghosts
<1> QED
  BY <1>1, <1>2, <1>3, <1>4, <1>5, <1>6, <1>7, <1>8 DEF Next

(* It holds initially. *)
LEMMA TracesInit == Init => TracesKnown
BY DEF Init, TracesKnown, Nothing

(* A hook that admits a process tells user space of it. *)
LEMMA AdmitTells ==
  ASSUME NEW p \in Proc, targeted, Admit(p)
  PROVE  /\ admitted \subseteq admitted' /\ observed \subseteq observed'
         /\ admitted' \subseteq admitted \cup {p}
         /\ Allowed(p) => p \in observed'
         /\ admitted' # admitted => p \in observed'
BY DEF Admit

(* What nothing but a hook's admission changes. *)
LEMMA TracesByAdmission ==
  ASSUME TypeOK, TracesKnown, NEW p \in Proc,
         UNCHANGED <<targeted, setup, ns, raw, pc, tracked, alive>>,
         \A t \in Task : offcpu_start'[TidOf[t]].task = t => offcpu_start[TidOf[t]].task = t,
         Admit(p) \/ UNCHANGED <<admitted, observed>>
  PROVE  TracesKnown'
<1> SUFFICES ASSUME targeted PROVE TracesKnown'
  BY DEF TracesKnown
<1>1. observed \subseteq observed' /\ (\A q \in admitted' \ admitted : q \in observed')
  BY AdmitTells
<1>2. \A q \in Near \cap ProcAlive' : Trace(q)' => q \in tracked' \cup observed'
  <2> SUFFICES ASSUME NEW q \in Near \cap ProcAlive, Trace(q)' PROVE q \in tracked \cup observed'
    BY DEF ProcAlive
  <2>1. CASE q \in admitted' \ admitted
    BY <1>1, <2>1
  <2>2. CASE q \notin admitted' \ admitted
    <3>1. Trace(q)
      BY <2>2 DEF Trace
    <3> QED
      BY <1>1, <3>1 DEF TracesKnown
  <2> QED
    BY <2>1, <2>2
<1>3. setup < 5 => admitted' \subseteq tracked \cup observed'
  BY <1>1 DEF TracesKnown
<1> QED
  BY <1>2, <1>3 DEF TracesKnown

(* A thread is born: its process may live again, and the wakeup hook admits it. *)
LEMMA TracesBirth ==
  ASSUME TypeOK, Intervals, TracesKnown, NEW t \in Task, Birth(t), targeted
  PROVE  TracesKnown'
<1>0. ProcOf[t] \in Proc
  BY DEF Proc
<1>1. UNCHANGED <<targeted, setup, ns, raw, pc, tracked, offcpu_start>> /\ alive' = alive \cup {t}
  BY DEF Birth, bpf, poller
<1>2. IF Attached("wakeup_new") THEN Admit(ProcOf[t]) ELSE UNCHANGED <<admitted, observed>>
  BY DEF Birth
<1>3. observed \subseteq observed' /\ (\A q \in admitted' \ admitted : q \in observed')
  BY <1>0, <1>2, AdmitTells
<1>4. ASSUME NEW q \in Near, q \in ProcAlive', Trace(q)' PROVE q \in tracked' \cup observed'
  <2>1. CASE q \in admitted' \ admitted
    BY <1>3, <2>1
  <2>2. CASE q \notin admitted' \ admitted /\ q \in ProcAlive
    <3>1. Trace(q)
      BY <1>1, <1>4, <2>2 DEF Trace
    <3> QED
      BY <1>1, <1>3, <1>4, <2>2, <3>1 DEF TracesKnown
  <2>3. CASE q \notin admitted' \ admitted /\ q \notin ProcAlive
    <3>1. q = ProcOf[t]
      BY <1>1, <1>4, <2>3 DEF ProcAlive
    <3>2. CASE setup = 5
      <4>1. Admit(q) /\ Allowed(q)
        BY <1>2, <3>1, <3>2, ProgramOrder DEF TypeOK, Allowed
      <4> QED
        BY <1>0, <3>1, <4>1, AdmitTells
    <3>3. CASE setup # 5
      <4>1. setup < 5
        BY <3>3 DEF TypeOK
      <4>2. CASE q \in admitted
        BY <1>1, <1>3, <4>1, <4>2 DEF TracesKnown
      <4>3. CASE \E s \in Task : ProcOf[s] = q /\ offcpu_start[TidOf[s]].task = s
        BY <4>1, <4>3, NoIntervalFacts DEF Intervals, IntervalOfSleeper, Tid
      <4> QED
        BY <1>1, <1>4, <2>3, <4>1, <4>2, <4>3 DEF Trace, TracesKnown
    <3> QED
      BY <3>2, <3>3
  <2> QED
    BY <2>1, <2>2, <2>3
<1>5. setup < 5 => admitted' \subseteq tracked \cup observed'
  BY <1>3 DEF TracesKnown
<1> QED
  BY <1>1, <1>4, <1>5 DEF TracesKnown

(* A switch leaves traces only of processes that have one. *)
LEMMA TracesSwitch ==
  ASSUME TypeOK, TracesKnown, targeted,
         NEW next \in Task \cup {None}, NEW how \in How, NEW room \in BOOLEAN,
         Switch(next, how, room)
  PROVE  TracesKnown'
<1> DEFINE Closed(t) == KeyOf(t, offcpu_start[TidOf[t]].lock)
           next_   == IF next = None THEN {} ELSE {next}
           closes  == {t \in next_ : Closes(t)}
           charged == {t \in closes : room \/ ns[Closed(t)] # 0}
<1>1. UNCHANGED <<targeted, setup, raw, pc, admitted, observed, tracked>> /\ alive' \subseteq alive
  BY DEF Switch, members, poller
<1>2. \A k \in Key : ns'[k] # 0 => ns[k] # 0 \/ \E t \in closes : Closed(t) = k
  BY DEF Switch
<1>3. \A t \in closes : t \in Task /\ offcpu_start[TidOf[t]].task = t /\ Attached("switch")
                        /\ Closed(t)[1] = ProcOf[t]
  BY DEF Closes, KeyOf
<1>4. \A t \in Task : offcpu_start'[TidOf[t]].task = t =>
                        offcpu_start[TidOf[t]].task = t \/ (t = cpu /\ Opens(t, how))
  <2> SUFFICES ASSUME NEW t \in Task, offcpu_start'[TidOf[t]].task = t
               PROVE  offcpu_start[TidOf[t]].task = t \/ (t = cpu /\ Opens(t, how))
    OBVIOUS
  <2>1. TidOf[t] \in Tid
    BY DEF Tid
  <2>2. \/ offcpu_start'[TidOf[t]] = NoInterval
        \/ offcpu_start'[TidOf[t]] = offcpu_start[TidOf[t]]
        \/ offcpu_start'[TidOf[t]] = Opened(cpu) /\ Opens(cpu, how)
    BY <2>1 DEF Switch
  <2> QED
    BY <2>2, NoIntervalFacts DEF Opened
<1>5. ASSUME NEW q \in Near, q \in ProcAlive', Trace(q)' PROVE q \in tracked' \cup observed'
  <2>1. q \in ProcAlive
    BY <1>1, <1>5 DEF ProcAlive
  <2>2. CASE q \in admitted \/ \E k \in Key : k[1] = q /\ (ns[k] # 0 \/ raw[k] # 0)
    BY <1>1, <2>1, <2>2 DEF TracesKnown, Trace
  <2>3. CASE \E t \in Task : ProcOf[t] = q /\ offcpu_start'[TidOf[t]].task = t
    <3>1. PICK t \in Task : ProcOf[t] = q /\ offcpu_start'[TidOf[t]].task = t
      BY <2>3
    <3>2. CASE offcpu_start[TidOf[t]].task = t
      BY <1>1, <2>1, <3>1, <3>2 DEF TracesKnown, Trace
    <3>3. CASE t = cpu /\ Opens(t, how)
      <4>1. q \in admitted
        BY <3>1, <3>3 DEF Opens, Member
      <4> QED
        BY <1>1, <2>1, <4>1 DEF TracesKnown, Trace
    <3> QED
      BY <1>4, <3>1, <3>2, <3>3
  <2>4. CASE \E k \in Key : k[1] = q /\ ns[k] = 0 /\ ns'[k] # 0
    <3>1. PICK k \in Key : k[1] = q /\ ns[k] = 0 /\ ns'[k] # 0
      BY <2>4
    <3>2. PICK t \in closes : Closed(t) = k
      BY <1>2, <3>1
    <3>3. t \in Task /\ ProcOf[t] = q /\ offcpu_start[TidOf[t]].task = t
      BY <1>3, <3>1, <3>2
    <3> QED
      BY <1>1, <2>1, <3>3 DEF TracesKnown, Trace
  <2> QED
    BY <1>1, <1>5, <2>2, <2>3, <2>4 DEF Trace
<1>6. ASSUME setup < 5 PROVE \A k \in Key : ns'[k] = 0
  <2>1. closes = {}
    BY <1>3, <1>6, ProgramOrder DEF TypeOK
  <2> QED
    BY <1>2, <1>6, <2>1 DEF TracesKnown
<1> QED
  BY <1>1, <1>5, <1>6 DEF TracesKnown

(* No step loses sight of a live process of the target that has left a trace. *)
LEMMA TracesStep == TypeOK /\ Intervals /\ TracesKnown /\ [Next]_vars => TracesKnown'
<1> SUFFICES ASSUME TypeOK, Intervals, TracesKnown, targeted, targeted', [Next]_vars PROVE TracesKnown'
  BY UnchangedByAll DEF TracesKnown
<1> USE DEF threads, bpf, members, poller, ghosts
<1>a. \A t \in Task : TidOf[t] \in Tid /\ ProcOf[t] \in Proc
  BY DEF Tid, Proc
<1>1. CASE Attach
  <2>1. setup' = setup + 1
        /\ UNCHANGED <<targeted, ns, raw, pc, tracked, observed, admitted, alive, offcpu_start>>
    BY <1>1 DEF Attach
  <2>2. setup' < 5 => setup < 5
    BY <2>1 DEF TypeOK
  <2> QED
    BY <2>1, <2>2 DEF TracesKnown, Trace, ProcAlive
<1>2. ASSUME NEW t \in Task, Birth(t) PROVE TracesKnown'
  BY <1>2, TracesBirth
<1>3. ASSUME NEW t \in Task, Wake(t) PROVE TracesKnown'
  <2>1. UNCHANGED <<targeted, setup, ns, raw, pc, tracked, alive>>
        /\ (Admit(ProcOf[t]) \/ UNCHANGED <<admitted, observed>>)
    BY <1>3 DEF Wake
  <2>2. \A d \in Tid : offcpu_start'[d].task = offcpu_start[d].task
    BY <1>3 DEF Wake, TypeOK
  <2> QED
    BY <1>a, <2>1, <2>2, TracesByAdmission
<1>4. ASSUME NEW t \in Task, FutexExit(t) PROVE TracesKnown'
  <2>1. UNCHANGED <<targeted, setup, ns, raw, pc, tracked, alive, offcpu_start, admitted, observed>>
    BY <1>4 DEF FutexExit
  <2> QED
    BY <1>a, <2>1, TracesByAdmission
<1>5. ASSUME NEW t \in Task, NEW l \in Lock, NEW room \in BOOLEAN, FutexEnter(t, l, room)
      PROVE  TracesKnown'
  <2>1. UNCHANGED <<targeted, setup, ns, raw, pc, tracked, alive, offcpu_start>>
        /\ (Admit(ProcOf[t]) \/ UNCHANGED <<admitted, observed>>)
    BY <1>5 DEF FutexEnter
  <2> QED
    BY <1>a, <2>1, TracesByAdmission
<1>6. ASSUME NEW next \in Task \cup {None}, NEW how \in How, NEW room \in BOOLEAN,
             Switch(next, how, room)
      PROVE  TracesKnown'
  BY <1>6, TracesSwitch
<1>7. ASSUME NEW forgotten \in SUBSET Proc, PollRefresh(forgotten) PROVE TracesKnown'
  <2>1. /\ setup = 5 /\ forgotten \cap ProcAlive = {}
        /\ UNCHANGED <<targeted, setup, alive>>
        /\ tracked' = ((tracked \cup (Near \cap ProcAlive)) \ forgotten) \cup observed
    BY <1>7 DEF PollRefresh
  <2>2. ProcAlive' = ProcAlive
    BY <2>1 DEF ProcAlive
  <2> QED
    BY <2>1, <2>2 DEF TracesKnown
<1>8. CASE PollSync
  <2>1. /\ pc = "sync" /\ admitted' = tracked
        /\ UNCHANGED <<targeted, setup, alive, tracked, observed, ns, raw, offcpu_start>>
    BY <1>8 DEF PollSync
  <2>2. setup = 5
    BY <2>1 DEF TracesKnown, TypeOK
  <2>3. \A q \in Near : Trace(q)' => Trace(q) \/ q \in tracked
    BY <2>1 DEF Trace
  <2> QED
    BY <2>1, <2>2, <2>3 DEF TracesKnown, ProcAlive
<1>9. CASE PollRead
  <2>1. /\ pc = "read" /\ raw' = ns
        /\ UNCHANGED <<targeted, setup, alive, tracked, observed, admitted, ns, offcpu_start>>
    BY <1>9 DEF PollRead
  <2>2. setup = 5
    BY <2>1 DEF TracesKnown, TypeOK
  <2>3. \A q \in Near : Trace(q)' => Trace(q)
    BY <2>1 DEF Trace
  <2> QED
    BY <2>1, <2>2, <2>3 DEF TracesKnown, ProcAlive
<1>10. CASE PollSettle
  <2>1. /\ pc = "settle" /\ tracked' = tracked \cup observed
        /\ UNCHANGED <<targeted, setup, alive, admitted>>
    BY <1>10 DEF PollSettle, Known
  <2>2. setup = 5
    BY <2>1 DEF TracesKnown, TypeOK
  <2>3. \A k \in Key : raw'[k] = 0 /\ (ns'[k] # 0 => ns[k] # 0)
    BY <1>10 DEF PollSettle, Nothing
  <2>4. \A d \in Tid : offcpu_start'[d] = offcpu_start[d] \/ offcpu_start'[d] = NoInterval
    BY <1>10 DEF PollSettle
  <2>5. \A q \in Near : Trace(q)' => Trace(q)
    BY <1>a, <2>1, <2>3, <2>4, NoIntervalFacts DEF Trace
  <2> QED
    BY <2>1, <2>2, <2>5 DEF TracesKnown, ProcAlive
<1>11. CASE UNCHANGED vars
  <2>1. UNCHANGED <<targeted, setup, ns, raw, pc, tracked, alive, offcpu_start, admitted, observed>>
    BY <1>11 DEF vars
  <2> QED
    BY <2>1 DEF TracesKnown, Trace, ProcAlive
<1> QED
  BY <1>1, <1>2, <1>3, <1>4, <1>5, <1>6, <1>7, <1>8, <1>9, <1>10, <1>11 DEF Next

(* What is thrown away as foreign is not of the target. *)
LEMMA ThrownStep == TypeOK /\ TracesKnown /\ ~thrown /\ [Next]_vars => ~thrown'
<1> SUFFICES ASSUME TypeOK, TracesKnown, ~thrown, [Next]_vars PROVE ~thrown'
  OBVIOUS
<1> USE DEF threads, bpf, members, poller, ghosts
<1>1. CASE PollSettle
  <2>1. \A k \in Key : raw[k] # 0 /\ targeted /\ k[1] \in Near \cap ProcAlive => k[1] \in Known
    BY DEF TracesKnown, Trace, Known
  <2> QED
    BY <1>1, <2>1 DEF PollSettle
<1>2. CASE thrown' = thrown
  BY <1>2
<1> QED
  BY <1>1, <1>2, UnchangedByAll

----------------------------------------------------------------------------
(* Waits in the books.                                                     *)

(* Poll, by a reused id or a late admission, has cut off every key of thread t. *)
CutOff(t) == \A lk \in Lock \cup {Kernel} : KeyOf(t, lk) \in cut

(* The calls whose enter event was recorded, and their marks. *)
CallsHeard ==
  /\ \A t \in heard : t \in alive /\ inside[t] # None
  /\ \A t \in alive : futex_active[TidOf[t]] # None => t \in heard
  /\ ~health => \A t \in heard :
       CutOff(t) \/ (futex_active[TidOf[t]] = inside[t] /\ Member(ProcOf[t]))

(* The interval in the map is the sleep that is due, under the lock it is due to. *)
Booked(t) == IF due[t] = None THEN offcpu_start[TidOf[t]] = NoInterval
             ELSE offcpu_start[TidOf[t]].task = t /\ offcpu_start[TidOf[t]].lock = due[t]

SleepsBooked ==
  /\ \A t \in Task : since[t] <= now
  /\ \A t \in Task \ alive : due[t] = None
  /\ ~health => \A t \in alive \ {cpu} : CutOff(t) \/ Booked(t)

(* What was reported was read, and what was read is in the map. *)
Ascending(k) ==
  /\ prev[k] <= ns[k]
  /\ pc = "settle" => prev[k] <= raw[k] /\ raw[k] <= ns[k]

StatsAscend == \A k \in Key : Ascending(k)

BooksInv == CallsHeard /\ SleepsBooked /\ StatsAscend /\ WaitsKept

(* Nothing is booked at first. *)
LEMMA BooksInit == Init => BooksInv
<1> SUFFICES ASSUME Init PROVE BooksInv
  OBVIOUS
<1>1. CallsHeard
  BY DEF Init, CallsHeard, Tid
<1>2. SleepsBooked
  <2>1. \A t \in alive : Booked(t)
    BY DEF Init, Booked, Tid
  <2> QED
    BY <2>1 DEF Init, SleepsBooked
<1>3. StatsAscend /\ WaitsKept
  BY DEF Init, StatsAscend, Ascending, WaitsKept, Nothing
<1> QED
  BY <1>1, <1>2, <1>3 DEF BooksInv

(* A call is heard with its mark, which lasts until the call ends or all keys of the   *)
(* thread are cut off.                                                                  *)
LEMMA CallsEnter ==
  ASSUME TypeOK, ThreadsAlive, CallsHeard,
         NEW t \in Task, NEW l \in Lock, NEW room \in BOOLEAN, FutexEnter(t, l, room)
  PROVE  CallsHeard'
<1>1. t \in alive /\ t \notin heard /\ futex_active[TidOf[t]] = None /\ TidOf[t] \in Tid
  BY LockAssumption DEF FutexEnter, ThreadsAlive, CallsHeard, Tid
<1>2. /\ inside' = [inside EXCEPT ![t] = l] /\ heard' \subseteq heard \cup {t}
      /\ UNCHANGED <<alive, cut, targeted>> /\ (health => health')
  BY DEF FutexEnter
<1>0. \A s \in alive : s # t => s \in Task /\ TidOf[s] # TidOf[t]
  BY <1>1 DEF TypeOK, ThreadsAlive
<1>3. \A s \in alive : s # t => futex_active'[TidOf[s]] = futex_active[TidOf[s]] /\ s \in Task
  BY <1>0 DEF FutexEnter, TypeOK, Tid
<1>4. \A q : Member(q) => Member(q)'
  BY DEF FutexEnter, Admit, Member
<1>5. l # None
  BY LockAssumption
<1>6. \A s \in heard' : s \in alive' /\ inside'[s] # None
  BY <1>1, <1>2, <1>5 DEF CallsHeard, TypeOK
<1>7. \A s \in alive' : futex_active'[TidOf[s]] # None => s \in heard'
  <2>1. heard \subseteq heard' /\ (futex_active' # futex_active => t \in heard')
    BY DEF FutexEnter
  <2> QED
    BY <1>1, <1>2, <1>3, <2>1 DEF CallsHeard
<1>8. ASSUME ~health', NEW s \in heard'
      PROVE  CutOff(s)' \/ (futex_active'[TidOf[s]] = inside'[s] /\ Member(ProcOf[s])')
  <2>1. CASE s = t
    <3>1. Attached("futex_enter") /\ Allowed(ProcOf[t])
      BY <1>1, <1>8, <2>1 DEF FutexEnter
    <3>2. futex_active' = [futex_active EXCEPT ![TidOf[t]] = l]
      BY <1>8, <3>1 DEF FutexEnter
    <3>3. Member(ProcOf[t])'
      BY <3>1 DEF FutexEnter, Admit, Member
    <3> QED
      BY <1>1, <1>2, <2>1, <3>2, <3>3 DEF TypeOK
  <2>2. CASE s # t
    <3>1. s \in heard /\ ~health /\ s \in alive /\ s \in Task
      BY <1>2, <1>3, <1>8, <2>2 DEF CallsHeard
    <3>2. CutOff(s) \/ (futex_active[TidOf[s]] = inside[s] /\ Member(ProcOf[s]))
      BY <3>1 DEF CallsHeard
    <3> QED
      BY <1>2, <1>3, <1>4, <2>2, <3>1, <3>2 DEF CutOff, TypeOK
  <2> QED
    BY <2>1, <2>2
<1> QED
  BY <1>6, <1>7, <1>8 DEF CallsHeard

(* The end of a call removes its mark, if it has one. *)
LEMMA CallsExit ==
  ASSUME TypeOK, ThreadsAlive, MarksBracketed, CallsHeard, NEW t \in Task, FutexExit(t)
  PROVE  CallsHeard'
<1>1. t \in alive /\ TidOf[t] \in Tid
  BY LockAssumption DEF FutexExit, ThreadsAlive, Tid
<1>2. /\ inside' = [inside EXCEPT ![t] = None] /\ heard' = heard \ {t}
      /\ UNCHANGED <<alive, cut, targeted, admitted, health>>
  BY DEF FutexExit, members
<1>3. futex_active'[TidOf[t]] = None
  <2>1. CASE t \in bracketed
    BY <1>1, <2>1 DEF FutexExit, TypeOK
  <2>2. CASE t \notin bracketed
    BY <1>1, <2>2 DEF FutexExit, MarksBracketed, ThreadsAlive
  <2> QED
    BY <2>1, <2>2
<1>4. \A s \in alive : s # t => futex_active'[TidOf[s]] = futex_active[TidOf[s]]
                                /\ inside'[s] = inside[s]
  BY <1>1, <1>2 DEF FutexExit, TypeOK, ThreadsAlive
<1>5. \A q : Member(q) => Member(q)'
  BY <1>2 DEF Member
<1> QED
  BY <1>1, <1>2, <1>3, <1>4, <1>5 DEF CallsHeard, CutOff

(* Nothing else parts a recorded call and its mark. *)
LEMMA CallsStep ==
  TypeOK /\ ThreadsAlive /\ MarksBracketed /\ CallsHeard /\ [Next]_vars => CallsHeard'
<1> SUFFICES ASSUME TypeOK, ThreadsAlive, MarksBracketed, CallsHeard, [Next]_vars
             PROVE  CallsHeard'
  OBVIOUS
<1> USE DEF threads, bpf, members, poller, ghosts
<1>0. ASSUME UNCHANGED <<alive, heard, inside, futex_active, health, cut, targeted>>,
             \A q : Member(q) => Member(q)'
      PROVE  CallsHeard'
  BY <1>0 DEF CallsHeard, CutOff
<1>m. ASSUME UNCHANGED <<admitted, targeted>> PROVE \A q : Member(q) => Member(q)'
  BY <1>m DEF Member
<1>1. CASE Attach
  BY <1>0, <1>m, <1>1 DEF Attach
<1>2. ASSUME NEW t \in Task, Birth(t) PROVE CallsHeard'
  <2>1. futex_active[TidOf[t]] = None
    BY <1>2 DEF Birth, MarksBracketed, Tid
  <2>2. UNCHANGED <<heard, inside, futex_active, health, cut>> /\ alive' = alive \cup {t}
    BY <1>2 DEF Birth
  <2>3. \A q : Member(q) => Member(q)'
    BY <1>2 DEF Birth, Admit, Member
  <2> QED
    BY <2>1, <2>2, <2>3 DEF CallsHeard, CutOff
<1>3. ASSUME NEW t \in Task, Wake(t) PROVE CallsHeard'
  <2>1. \A q : Member(q) => Member(q)'
    BY <1>3 DEF Wake, Admit, Member
  <2> QED
    BY <1>0, <1>3, <2>1 DEF Wake
<1>4. ASSUME NEW t \in Task, FutexExit(t) PROVE CallsHeard'
  BY <1>4, CallsExit
<1>5. ASSUME NEW t \in Task, NEW l \in Lock, NEW room \in BOOLEAN, FutexEnter(t, l, room)
      PROVE  CallsHeard'
  BY <1>5, CallsEnter
<1>6. ASSUME NEW next \in Task \cup {None}, NEW how \in How, NEW room \in BOOLEAN,
             Switch(next, how, room)
      PROVE  CallsHeard'
  <2>1. UNCHANGED <<heard, inside, futex_active, cut, targeted, admitted>> /\ (health => health')
    BY <1>6 DEF Switch
  <2>2. alive' \subseteq alive /\ \A t \in alive \ alive' : inside[t] = None
    BY <1>6 DEF Switch
  <2> QED
    BY <1>m, <2>1, <2>2 DEF CallsHeard, CutOff
<1>7. ASSUME NEW forgotten \in SUBSET Proc, PollRefresh(forgotten) PROVE CallsHeard'
  BY <1>0, <1>m, <1>7 DEF PollRefresh
<1>8. CASE PollSync
  <2>1. UNCHANGED <<alive, heard, inside, futex_active, health, targeted>>
        /\ cut' = cut \cup {k \in Key : k[1] \in admitted \ admitted'}
    BY <1>8 DEF PollSync
  <2>2. ASSUME NEW t \in Task, Member(ProcOf[t]), ~Member(ProcOf[t])' PROVE CutOff(t)'
    <3>1. ProcOf[t] \in admitted \ admitted'
      BY <2>1, <2>2 DEF Member
    <3> QED
      BY <2>1, <3>1, KeyParts DEF CutOff
  <2>3. \A t \in Task : CutOff(t) => CutOff(t)'
    BY <2>1 DEF CutOff
  <2>4. heard \subseteq Task
    BY DEF TypeOK
  <2> QED
    BY <2>1, <2>2, <2>3, <2>4 DEF CallsHeard
<1>9. CASE PollRead
  BY <1>0, <1>m, <1>9 DEF PollRead
<1>10. CASE PollSettle
  <2>1. UNCHANGED <<alive, heard, inside, health, targeted, admitted>>
    BY <1>10 DEF PollSettle
  <2>2. \A t \in Task : futex_active'[TidOf[t]] = futex_active[TidOf[t]]
                        \/ (CutOff(t)' /\ futex_active'[TidOf[t]] = None)
    <3> SUFFICES ASSUME NEW t \in Task, futex_active'[TidOf[t]] # futex_active[TidOf[t]]
                 PROVE  CutOff(t)' /\ futex_active'[TidOf[t]] = None
      OBVIOUS
    <3>1. futex_active'[TidOf[t]] = None /\ \A k \in Key : k[2] = TidOf[t] => k \in cut'
      BY <1>10 DEF PollSettle, Tid, TypeOK
    <3> QED
      BY <3>1, KeyParts DEF CutOff
  <2>3. \A t \in Task : CutOff(t) => CutOff(t)'
    BY <1>10 DEF PollSettle, CutOff
  <2>4. heard \subseteq Task /\ alive \subseteq Task
    BY DEF TypeOK
  <2> QED
    BY <1>m, <2>1, <2>2, <2>3, <2>4 DEF CallsHeard
<1>11. CASE UNCHANGED vars
  BY <1>0, <1>m, <1>11 DEF vars
<1> HIDE DEF threads, bpf, members, poller, ghosts
<1> QED
  BY <1>1, <1>2, <1>3, <1>4, <1>5, <1>6, <1>7, <1>8, <1>9, <1>10, <1>11 DEF Next

(* What a switch does to the thread that leaves: it opens the interval that is due. *)
LEMMA LeavesBooked ==
  ASSUME TypeOK, ThreadsAlive, Intervals, CallsHeard,
         NEW next \in Task \cup {None}, NEW how \in How, NEW room \in BOOLEAN,
         Switch(next, how, room), ~health', NEW t \in Task, t = cpu
  PROVE  CutOff(t)' \/ Booked(t)'
<1> DEFINE prev_  == IF cpu = None THEN {} ELSE {cpu}
           next_  == IF next = None THEN {} ELSE {next}
           opens  == {s \in prev_ : Opens(s, how)}
           opened == {s \in opens : room \/ offcpu_start[TidOf[s]] # NoInterval}
<1>1. cpu # None
  BY LockAssumption
<1>2. TidOf[t] \in Tid /\ t \in alive
  BY <1>1 DEF Tid, ThreadsAlive
<1>3. opened = opens /\ ~health
  BY DEF Switch
<1>4. offcpu_start[TidOf[t]] = NoInterval
  BY <1>1, <1>2 DEF Intervals, IntervalOfSleeper, ThreadsAlive
<1>5. offcpu_start'[TidOf[t]] = IF Opens(t, how) THEN Opened(t) ELSE NoInterval
  <2>1. offcpu_start' = [d \in Tid |->
          IF \E s \in opened : TidOf[s] = d THEN Opened(cpu)
          ELSE IF d \in {TidOf[s] : s \in {r \in next_ :
                           GivenUp(r, r \in {c \in {n \in next_ : Closes(n)} :
                             room \/ ns[KeyOf(c, offcpu_start[TidOf[c]].lock)] # 0})}}
               THEN NoInterval ELSE offcpu_start[d]]
    BY DEF Switch
  <2>2. (\E s \in opened : TidOf[s] = TidOf[t]) <=> Opens(t, how)
    BY <1>1, <1>3
  <2> HIDE DEF opened
  <2> QED
    BY <1>1, <1>2, <1>4, <2>1, <2>2
<1>6. due'[t] = Due(t, how) /\ UNCHANGED <<cut, inside>>
  BY <1>1 DEF Switch
<1>7. ASSUME ~Attached("switch") \/ ~Sleeps(how) PROVE Booked(t)'
  <2>1. due'[t] = None /\ offcpu_start'[TidOf[t]] = NoInterval
    BY <1>5, <1>6, <1>7 DEF Due, Opens
  <2> QED
    BY <2>1 DEF Booked
<1>8. ASSUME Attached("switch"), Sleeps(how), t \in heard PROVE CutOff(t) \/ Booked(t)'
  <2> SUFFICES ASSUME ~CutOff(t) PROVE Booked(t)'
    OBVIOUS
  <2>1. futex_active[TidOf[t]] = inside[t] /\ Member(ProcOf[t]) /\ inside[t] # None
    BY <1>3, <1>8 DEF CallsHeard
  <2>2. Opens(t, how) /\ Opened(t).lock = inside[t] /\ Opened(t).task = t
    BY <1>8, <2>1 DEF Opens, Opened
  <2>3. due'[t] = inside[t]
    BY <1>6, <1>8 DEF Due
  <2>4. offcpu_start'[TidOf[t]].task = t /\ offcpu_start'[TidOf[t]].lock = inside[t]
    BY <1>5, <2>2
  <2> QED
    BY <2>1, <2>3, <2>4 DEF Booked
<1>9. ASSUME Attached("switch"), Sleeps(how), t \notin heard PROVE Booked(t)'
  <2>1. futex_active[TidOf[t]] = None
    BY <1>2, <1>9 DEF CallsHeard
  <2>2. Opens(t, how) <=> how = "uninterruptible" /\ Member(ProcOf[t])
    BY <1>9, <2>1 DEF Opens
  <2>3. due'[t] = IF Opens(t, how) THEN Kernel ELSE None
    BY <1>6, <1>9, <2>2 DEF Due
  <2>4. Opened(t).lock = Kernel /\ Opened(t).task = t /\ Kernel # None
    BY <2>1, LockAssumption DEF Opened
  <2>5. CASE Opens(t, how)
    <3>1. offcpu_start'[TidOf[t]].task = t /\ offcpu_start'[TidOf[t]].lock = Kernel
      BY <1>5, <2>4, <2>5
    <3> QED
      BY <2>3, <2>4, <2>5, <3>1 DEF Booked
  <2>6. CASE ~Opens(t, how)
    BY <1>5, <2>3, <2>6 DEF Booked
  <2> QED
    BY <2>5, <2>6
<1>10. CutOff(t) => CutOff(t)'
  BY <1>6 DEF CutOff
<1> QED
  BY <1>7, <1>8, <1>9, <1>10

(* The other threads that do not run keep their intervals and what is due of them. *)
LEMMA OthersBooked ==
  ASSUME TypeOK, ThreadsAlive,
         NEW next \in Task \cup {None}, NEW how \in How, NEW room \in BOOLEAN,
         Switch(next, how, room), NEW t \in alive, t # cpu, t # next
  PROVE  due'[t] = due[t] /\ offcpu_start'[TidOf[t]] = offcpu_start[TidOf[t]]
<1> DEFINE prev_  == IF cpu = None THEN {} ELSE {cpu}
           next_  == IF next = None THEN {} ELSE {next}
<1>1. t \in Task /\ TidOf[t] \in Tid /\ prev_ \subseteq alive /\ next_ \subseteq alive
  BY DEF Tid, TypeOK, ThreadsAlive, Switch
<1>2. \A s \in prev_ \cup next_ : TidOf[s] # TidOf[t]
  BY <1>1 DEF ThreadsAlive
<1>3. due'[t] = due[t]
  BY <1>1 DEF Switch
<1>4. offcpu_start'[TidOf[t]] = offcpu_start[TidOf[t]]
  BY <1>1, <1>2 DEF Switch
<1> QED
  BY <1>3, <1>4

(* So a switch keeps all sleeps booked. *)
LEMMA SleepsSwitch ==
  ASSUME TypeOK, ThreadsAlive, Intervals, CallsHeard, SleepsBooked,
         NEW next \in Task \cup {None}, NEW how \in How, NEW room \in BOOLEAN,
         Switch(next, how, room)
  PROVE  SleepsBooked'
<1> DEFINE prev_  == IF cpu = None THEN {} ELSE {cpu}
           next_  == IF next = None THEN {} ELSE {next}
<1>1. /\ cpu' = next /\ now' = now + 1 /\ UNCHANGED cut /\ (health => health')
      /\ next_ \subseteq alive /\ alive' = IF how = "exit" THEN alive \ prev_ ELSE alive
      /\ since' = [t \in Task |-> IF t \in prev_ /\ Sleeps(how) THEN now'
                                   ELSE IF t \in next_ THEN 0 ELSE since[t]]
      /\ due' = [t \in Task |-> IF t \in prev_ THEN Due(t, how)
                                 ELSE IF t \in next_ THEN None ELSE due[t]]
  BY DEF Switch
<1>2. \A t \in Task : since'[t] <= now'
  BY <1>1 DEF SleepsBooked, TypeOK
<1>3. ASSUME NEW t \in Task, t \notin alive' PROVE due'[t] = None
  <2>1. CASE t \in prev_
    <3>1. how = "exit"
      BY <1>1, <1>3, <2>1 DEF ThreadsAlive
    <3> QED
      BY <1>1, <2>1, <3>1 DEF Due, Sleeps
  <2>2. CASE t \notin prev_
    <3>1. t \notin alive
      BY <1>1, <1>3, <2>2
    <3> QED
      BY <1>1, <2>2, <3>1 DEF SleepsBooked
  <2> QED
    BY <2>1, <2>2
<1>4. ASSUME ~health', NEW t \in alive', t # cpu' PROVE CutOff(t)' \/ Booked(t)'
  <2>1. CASE t = cpu
    <3>1. t \in Task
      BY <1>1, <1>4 DEF TypeOK
    <3> QED
      BY <1>4, <2>1, <3>1, LeavesBooked
  <2>2. CASE t # cpu
    <3>1. t \in alive /\ ~health
      BY <1>1, <1>4
    <3>2. due'[t] = due[t] /\ offcpu_start'[TidOf[t]] = offcpu_start[TidOf[t]]
      BY <1>1, <1>4, <2>2, <3>1, OthersBooked
    <3>3. CutOff(t) \/ Booked(t)
      BY <2>2, <3>1 DEF SleepsBooked
    <3> QED
      BY <1>1, <3>2, <3>3 DEF CutOff, Booked
  <2> QED
    BY <2>1, <2>2
<1> QED
  BY <1>2, <1>3, <1>4 DEF SleepsBooked

(* The sleeps stay booked. *)
LEMMA SleepsStep ==
  TypeOK /\ ThreadsAlive /\ Intervals /\ CallsHeard /\ SleepsBooked /\ [Next]_vars
    => SleepsBooked'
<1> SUFFICES ASSUME TypeOK, ThreadsAlive, Intervals, CallsHeard, SleepsBooked, [Next]_vars
             PROVE  SleepsBooked'
  OBVIOUS
<1> USE DEF threads, bpf, members, poller, ghosts
<1>0. ASSUME UNCHANGED <<alive, cpu, since, now, due, cut, offcpu_start>>, health => health'
      PROVE  SleepsBooked'
  BY <1>0 DEF SleepsBooked, CutOff, Booked
<1>1. CASE Attach
  BY <1>0, <1>1 DEF Attach
<1>2. ASSUME NEW t \in Task, Birth(t) PROVE SleepsBooked'
  <2>1. UNCHANGED <<cpu, since, now, due, cut, offcpu_start, health>> /\ alive' = alive \cup {t}
    BY <1>2 DEF Birth
  <2>2. CASE t \in alive
    BY <1>0, <2>1, <2>2
  <2>3. CASE t \notin alive
    <3>1. due[t] = None
      BY <2>3 DEF SleepsBooked
    <3>2. offcpu_start[TidOf[t]] = NoInterval
      BY <1>2 DEF Birth, Intervals, IntervalOfSleeper, Tid
    <3> QED
      BY <2>1, <3>1, <3>2 DEF SleepsBooked, CutOff, Booked
  <2> QED
    BY <2>2, <2>3
<1>3. ASSUME NEW t \in Task, Wake(t) PROVE SleepsBooked'
  <2>1. UNCHANGED <<alive, cpu, since, now, due, cut, health>>
    BY <1>3 DEF Wake
  <2>2. ASSUME NEW s \in Task, Booked(s) PROVE Booked(s)'
    <3>1. offcpu_start[TidOf[s]] \in [ts : Nat, task : Task \cup {None}, woken : BOOLEAN,
                                      lock : Lock \cup {Kernel, None}]
      BY DEF TypeOK, Tid
    <3>2. \/ offcpu_start'[TidOf[s]] = offcpu_start[TidOf[s]]
          \/ offcpu_start[TidOf[s]] # NoInterval
             /\ offcpu_start'[TidOf[s]].task = offcpu_start[TidOf[s]].task
             /\ offcpu_start'[TidOf[s]].lock = offcpu_start[TidOf[s]].lock
      BY <1>3, <3>1 DEF Wake, TypeOK, Tid
    <3> QED
      BY <2>1, <2>2, <3>2 DEF Booked
  <2>3. alive \subseteq Task
    BY DEF TypeOK
  <2> QED
    BY <2>1, <2>2, <2>3 DEF SleepsBooked, CutOff
<1>4. ASSUME NEW t \in Task, FutexExit(t) PROVE SleepsBooked'
  BY <1>0, <1>4 DEF FutexExit
<1>5. ASSUME NEW t \in Task, NEW l \in Lock, NEW room \in BOOLEAN, FutexEnter(t, l, room)
      PROVE  SleepsBooked'
  BY <1>0, <1>5 DEF FutexEnter
<1>6. ASSUME NEW next \in Task \cup {None}, NEW how \in How, NEW room \in BOOLEAN,
             Switch(next, how, room)
      PROVE  SleepsBooked'
  BY <1>6, SleepsSwitch
<1>7. ASSUME NEW forgotten \in SUBSET Proc, PollRefresh(forgotten) PROVE SleepsBooked'
  BY <1>0, <1>7 DEF PollRefresh
<1>8. CASE PollSync
  <2>1. UNCHANGED <<alive, cpu, since, now, due, offcpu_start, health>> /\ cut \subseteq cut'
    BY <1>8 DEF PollSync
  <2> QED
    BY <2>1 DEF SleepsBooked, CutOff, Booked
<1>9. CASE PollRead
  BY <1>0, <1>9 DEF PollRead
<1>10. CASE PollSettle
  <2>1. UNCHANGED <<alive, cpu, since, now, due, health>> /\ cut \subseteq cut'
    BY <1>10 DEF PollSettle
  <2>2. \A t \in Task : offcpu_start'[TidOf[t]] = offcpu_start[TidOf[t]] \/ CutOff(t)'
    <3> SUFFICES ASSUME NEW t \in Task, offcpu_start'[TidOf[t]] # offcpu_start[TidOf[t]]
                 PROVE  CutOff(t)'
      OBVIOUS
    <3>1. \A k \in Key : k[2] = TidOf[t] => k \in cut'
      BY <1>10 DEF PollSettle, Tid, TypeOK
    <3> QED
      BY <3>1, KeyParts DEF CutOff
  <2>3. \A t \in Task : CutOff(t) => CutOff(t)'
    BY <2>1 DEF CutOff
  <2>4. alive \subseteq Task
    BY DEF TypeOK
  <2> QED
    BY <2>1, <2>2, <2>3, <2>4 DEF SleepsBooked, Booked
<1>11. CASE UNCHANGED vars
  BY <1>0, <1>11 DEF vars
<1> HIDE DEF threads, bpf, members, poller, ghosts
<1> QED
  BY <1>1, <1>2, <1>3, <1>4, <1>5, <1>6, <1>7, <1>8, <1>9, <1>10, <1>11 DEF Next

(* What a switch adds to a key, to the statistics and to what is owed. *)
LEMMA ArrivalCharged ==
  ASSUME TypeOK, ThreadsAlive, Intervals, SleepsBooked, ~health',
         NEW next \in Task \cup {None}, NEW how \in How, NEW room \in BOOLEAN,
         Switch(next, how, room), NEW k \in Key, k \notin cut
  PROVE  owed'[k] - owed[k] = ns'[k] - ns[k]
<1> DEFINE Closed(t) == KeyOf(t, offcpu_start[TidOf[t]].lock)
           next_   == IF next = None THEN {} ELSE {next}
           closes  == {t \in next_ : Closes(t)}
           charged == {t \in closes : room \/ ns[Closed(t)] # 0}
<1>1. /\ charged = closes /\ ~health /\ now' = now + 1
      /\ next_ \subseteq alive \ asleep /\ cpu # next
      /\ ns' = [j \in Key |-> IF \E t \in charged : Closed(t) = j
                              THEN ns[j] + (now' - offcpu_start[j[2]].ts) ELSE ns[j]]
      /\ owed' = [j \in Key |-> IF \E t \in next_ : due[t] # None /\ KeyOf(t, due[t]) = j
                                THEN owed[j] + (now' - since[next]) ELSE owed[j]]
  BY DEF Switch
<1> HIDE DEF charged
<1>2. CASE next = None
  BY <1>1, <1>2 DEF TypeOK
<1>3. CASE next # None
  <2>1. PICK t \in Task : t = next
    BY <1>3
  <2>2. TidOf[t] \in Tid /\ t \in alive \ {cpu}
    BY <1>1, <1>3, <2>1 DEF Tid
  <2>3. /\ ns'[k] = IF Closes(t) /\ Closed(t) = k
                    THEN ns[k] + (now' - offcpu_start[k[2]].ts) ELSE ns[k]
        /\ owed'[k] = IF due[t] # None /\ KeyOf(t, due[t]) = k
                      THEN owed[k] + (now' - since[t]) ELSE owed[k]
    BY <1>1, <1>3, <2>1
  <2>4. CASE CutOff(t)
    <3>1. Closed(t) # k
      BY <2>4 DEF CutOff, KeyOf, Key
    <3>2. due[t] # None => KeyOf(t, due[t]) # k
      BY <2>4 DEF CutOff, TypeOK
    <3> QED
      BY <2>3, <3>1, <3>2 DEF TypeOK
  <2>5. CASE Booked(t) /\ due[t] = None
    <3>1. ~Closes(t)
      BY <2>5, NoIntervalFacts DEF Booked, Closes
    <3> QED
      BY <2>3, <2>5, <3>1 DEF TypeOK
  <2>6. CASE Booked(t) /\ due[t] # None
    <3>1. offcpu_start[TidOf[t]].task = t /\ offcpu_start[TidOf[t]].lock = due[t]
      BY <2>6 DEF Booked
    <3>2. IntervalOfSleeper(TidOf[t])
      BY <2>2, <3>1, NoIntervalFacts DEF Intervals
    <3>3. offcpu_start[TidOf[t]].ts = since[t] /\ Attached("switch")
      BY <3>1, <3>2, ProgramOrder DEF IntervalOfSleeper
    <3>4. Closes(t)
      BY <1>1, <3>1, <3>3 DEF Closes, SleepsBooked, TypeOK
    <3>5. KeyOf(t, due[t]) = k => k[2] = TidOf[t]
      BY DEF KeyOf
    <3> QED
      BY <1>1, <2>3, <2>6, <3>1, <3>3, <3>4, <3>5 DEF TypeOK
  <2> QED
    BY <1>1, <2>2, <2>4, <2>5, <2>6 DEF SleepsBooked
<1> QED
  BY <1>2, <1>3

(* A switch only adds to the statistics. *)
LEMMA SwitchAdds ==
  ASSUME TypeOK, NEW next \in Task \cup {None}, NEW how \in How, NEW room \in BOOLEAN,
         Switch(next, how, room), NEW k \in Key
  PROVE  ns[k] <= ns'[k]
<1> DEFINE Closed(t) == KeyOf(t, offcpu_start[TidOf[t]].lock)
           next_   == IF next = None THEN {} ELSE {next}
           closes  == {t \in next_ : Closes(t)}
           charged == {t \in closes : room \/ ns[Closed(t)] # 0}
<1>1. ns'[k] = IF \E t \in charged : Closed(t) = k
               THEN ns[k] + (now' - offcpu_start[k[2]].ts) ELSE ns[k]
  BY DEF Switch
<1>2. ASSUME NEW t \in charged, Closed(t) = k PROVE now' > offcpu_start[k[2]].ts
  BY <1>2 DEF Closes, KeyOf
<1>3. now' \in Nat /\ offcpu_start[k[2]].ts \in Nat /\ ns[k] \in Nat
  BY PartsOfKey DEF Switch, TypeOK
<1> HIDE DEF charged, Closed
<1>4. CASE \E t \in charged : Closed(t) = k
  BY <1>1, <1>2, <1>3, <1>4
<1>5. CASE ~\E t \in charged : Closed(t) = k
  BY <1>1, <1>3, <1>5
<1> QED
  BY <1>4, <1>5

(* What the end of a poll does to a key that is not cut off. *)
LEMMA SettleKey ==
  ASSUME TypeOK, StatsAscend, PollSettle, NEW k \in Key, k \notin cut'
  PROVE  /\ owed'[k] - (ns'[k] - prev'[k]) = owed[k] - (ns[k] - prev[k])
         /\ prev'[k] <= ns'[k]
<1> DEFINE read    == {j \in Key : raw[j] # 0}
           foreign == {j \in read : IF targeted THEN j[1] \notin Known ELSE j[1] \in Self}
           old     == {j \in read \ foreign : Delta(j) = 0 /\ Evicted(j)}
<1>1. /\ ns'[k] = IF k \in foreign \cup old THEN 0 ELSE ns[k]
      /\ prev'[k] = IF k \in foreign \cup old THEN 0 ELSE raw[k]
      /\ owed'[k] = IF k \in read \ foreign THEN owed[k] - Delta(k) ELSE owed[k]
      /\ k \notin foreign /\ (k \in old => ns[k] = raw[k])
  BY DEF PollSettle
<1>2. prev[k] <= raw[k] /\ raw[k] <= ns[k] /\ pc = "settle"
  BY DEF StatsAscend, Ascending, PollSettle
<1>3. ns[k] \in Nat /\ raw[k] \in Nat /\ prev[k] \in Nat /\ owed[k] \in Int
  BY DEF TypeOK
<1>4. Delta(k) = raw[k] - prev[k] /\ (k \in read <=> raw[k] # 0) /\ (k \in old => Delta(k) = 0 /\ k \in read)
  BY DEF Delta
<1> HIDE DEF read, foreign, old
<1>5. CASE k \in old
  BY <1>1, <1>2, <1>3, <1>4, <1>5
<1>6. CASE k \notin old
  BY <1>1, <1>2, <1>3, <1>4, <1>6
<1> QED
  BY <1>5, <1>6

(* Readings and statistics only grow, except where a key is deleted. *)
LEMMA AscendStep == TypeOK /\ StatsAscend /\ [Next]_vars => StatsAscend'
<1> SUFFICES ASSUME TypeOK, StatsAscend, [Next]_vars, NEW k \in Key PROVE Ascending(k)'
  BY DEF StatsAscend
<1> USE DEF threads, bpf, members, poller, ghosts
<1>a. /\ prev[k] \in Nat /\ raw[k] \in Nat /\ ns[k] \in Nat
      /\ prev[k] <= ns[k] /\ (pc = "settle" => prev[k] <= raw[k] /\ raw[k] <= ns[k])
  BY DEF TypeOK, StatsAscend, Ascending
<1>0. ASSUME UNCHANGED <<prev, raw, ns>>, pc' # "settle" \/ pc' = pc PROVE Ascending(k)'
  BY <1>0, <1>a DEF Ascending
<1>1. ASSUME NEW next \in Task \cup {None}, NEW how \in How, NEW room \in BOOLEAN,
             Switch(next, how, room)
      PROVE  Ascending(k)'
  <2>1. ns[k] <= ns'[k] /\ UNCHANGED <<prev, raw, pc>>
    BY <1>1, SwitchAdds DEF Switch
  <2>2. ns'[k] \in Nat
    BY TypeStep DEF TypeOK
  <2> QED
    BY <1>a, <2>1, <2>2 DEF Ascending
<1>2. CASE PollRead
  BY <1>2, <1>a DEF PollRead, Ascending
<1>3. CASE PollSettle
  BY <1>3, <1>a DEF PollSettle, Ascending
<1> QED
  BY <1>0, <1>1, <1>2, <1>3
  DEF Next, Attach, Birth, Wake, FutexEnter, FutexExit, PollRefresh, PollSync, vars

(* What was waited stays reported or in the map. *)
LEMMA WaitsStep ==
  /\ TypeOK /\ ThreadsAlive /\ Intervals /\ SleepsBooked /\ StatsAscend /\ WaitsKept
  /\ [Next]_vars
  => WaitsKept'
<1> SUFFICES ASSUME TypeOK, ThreadsAlive, Intervals, SleepsBooked, StatsAscend, WaitsKept,
                    [Next]_vars, ~health', NEW k \in Key \ cut'
             PROVE  owed'[k] = ns'[k] - prev'[k]
  BY Zenon DEF WaitsKept
<1> USE DEF threads, bpf, members, poller, ghosts
<1>a. ns[k] \in Nat /\ prev[k] \in Nat /\ owed[k] \in Int
  BY DEF TypeOK
<1>0. ASSUME UNCHANGED <<owed, ns, prev>>, cut \subseteq cut', health => health'
      PROVE  owed'[k] = ns'[k] - prev'[k]
  BY <1>0 DEF WaitsKept
<1>1. ASSUME NEW next \in Task \cup {None}, NEW how \in How, NEW room \in BOOLEAN,
             Switch(next, how, room)
      PROVE  owed'[k] = ns'[k] - prev'[k]
  <2>1. UNCHANGED <<cut, prev>> /\ ~health
    BY <1>1 DEF Switch
  <2>2. owed'[k] - owed[k] = ns'[k] - ns[k]
    BY <1>1, <2>1, ArrivalCharged
  <2>3. owed[k] = ns[k] - prev[k]
    BY <2>1 DEF WaitsKept
  <2>4. ns'[k] \in Nat /\ owed'[k] \in Int
    BY TypeStep DEF TypeOK
  <2> QED
    BY <1>a, <2>1, <2>2, <2>3, <2>4
<1>2. CASE PollSettle
  <2>1. health' = health /\ cut \subseteq cut'
    BY <1>2 DEF PollSettle
  <2>2. owed[k] = ns[k] - prev[k]
    BY <2>1 DEF WaitsKept
  <2>3. owed'[k] - (ns'[k] - prev'[k]) = owed[k] - (ns[k] - prev[k])
    BY <1>2, SettleKey
  <2>4. owed'[k] \in Int /\ ns'[k] \in Nat /\ prev'[k] \in Nat
    BY TypeStep DEF TypeOK
  <2> QED
    BY <1>a, <2>2, <2>3, <2>4
<1>3. CASE Attach \/ PollSync \/ PollRead \/ UNCHANGED vars
  BY <1>0, <1>3 DEF Attach, PollSync, PollRead, vars
<1>4. ASSUME NEW t \in Task, Birth(t) \/ Wake(t) \/ FutexExit(t)
      PROVE  owed'[k] = ns'[k] - prev'[k]
  BY <1>0, <1>4 DEF Birth, Wake, FutexExit
<1>5. ASSUME NEW t \in Task, NEW l \in Lock, NEW room \in BOOLEAN, FutexEnter(t, l, room)
      PROVE  owed'[k] = ns'[k] - prev'[k]
  BY <1>0, <1>5 DEF FutexEnter
<1>6. ASSUME NEW forgotten \in SUBSET Proc, PollRefresh(forgotten)
      PROVE  owed'[k] = ns'[k] - prev'[k]
  BY <1>0, <1>6 DEF PollRefresh
<1> HIDE DEF threads, bpf, members, poller, ghosts
<1> QED
  BY <1>1, <1>2, <1>3, <1>4, <1>5, <1>6 DEF Next

----------------------------------------------------------------------------
(* The inductive invariant, and what follows from it. *)
LockInv ==
  /\ TypeOK /\ ThreadsAlive /\ MarksBracketed /\ Intervals /\ TracesKnown
  /\ BooksInv
  /\ ~nameless /\ ~thrown

(* It holds in every reachable state. *)
LEMMA LockHolds == Spec => []LockInv
<1>1. Init => LockInv
  BY TypeInit, ThreadsInit, TracesInit, BooksInit DEF Init, LockInv, BooksInv
<1>2. LockInv /\ [Next]_vars => LockInv'
  BY TypeStep, ThreadsStep, MarksStep, IntervalsStep, TracesStep, NamedStep, ThrownStep,
     CallsStep, SleepsStep, AscendStep, WaitsStep
  DEF LockInv, BooksInv
<1> QED
  BY <1>1, <1>2, PTL DEF Spec

(* Marks in futex_active are those of live threads inside do_futex. *)
THEOREM MarksHold == Spec => []FutexMarks
<1>1. LockInv => FutexMarks
  BY DEF LockInv, MarksBracketed, FutexMarks
<1> QED
  BY <1>1, LockHolds, PTL

(* Intervals in offcpu_start are the present sleeps of live threads. *)
THEOREM IntervalsHold == Spec => []IntervalsOpen
<1>1. LockInv => IntervalsOpen
  BY DEF LockInv, Intervals, IntervalOfSleeper, IntervalsOpen
<1> QED
  BY <1>1, LockHolds, PTL

(* No wait of the target is thrown away, however late user space hears of it. *)
THEOREM TargetHolds == Spec => []TargetKept
<1>1. LockInv => TargetKept
  BY DEF LockInv, TargetKept
<1> QED
  BY <1>1, LockHolds, PTL

(* Every wait that is charged has its waker. *)
THEOREM WakersHold == Spec => []WakerKnown
<1>1. LockInv => WakerKnown
  BY DEF LockInv, WakerKnown
<1> QED
  BY <1>1, LockHolds, PTL

(* No wait disappears unless a health counter says so, and none counts twice: under every *)
(* key that Poll did not cut off, what was waited is reported or still in the map.         *)
THEOREM WaitsHold == Spec => []WaitsKept
<1>1. LockInv => WaitsKept
  BY DEF LockInv, BooksInv
<1> QED
  BY <1>1, LockHolds, PTL
=============================================================================
