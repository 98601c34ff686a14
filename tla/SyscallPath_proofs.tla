------------------------- MODULE SyscallPath_proofs -------------------------
(* Proofs about SyscallPath, for any number of processes and threads, any    *)
(* map sizes and stale windows: no call is charged twice or dropped, a miss   *)
(* is counted exactly when data was lost, and the dead give their slots up.   *)
EXTENDS SyscallPath, TLAPS

----------------------------------------------------------------------------
(* Types.                                                                    *)

ThreadsOK ==
  /\ now \in Nat /\ setup \in {"loaded", "enter", "seeded", "exit"} /\ targeted \in BOOLEAN
  /\ deep \in SUBSET Proc
  /\ owner \in [Tid -> Proc \cup {Nobody}] /\ call \in [Tid -> {"none", "inside", "child"}]
  /\ since \in [Tid -> Nat] /\ arrivals \in Nat /\ start \in [Tid -> Nat]
  /\ startup_tids \in SUBSET Tid /\ admitted \in SUBSET Proc
  /\ seen \in SUBSET Tid /\ masked \in SUBSET Tid /\ deaf \in SUBSET Tid
  /\ evicted \in SUBSET Tid

StatsOK ==
  /\ entries \in SUBSET Proc /\ count \in [Proc -> Nat] /\ total_ns \in [Proc -> Nat]
  /\ exit_miss \in BOOLEAN /\ map_update_fail \in BOOLEAN
  /\ hidden \in BOOLEAN /\ unfounded \in BOOLEAN
  /\ matched \in [Proc -> Nat] /\ spent \in [Proc -> Nat] /\ haunted \in SUBSET Proc

PollOK ==
  /\ pc \in {"idle", "sync", "read", "settle"} /\ members \in SUBSET Proc
  /\ raw \in [Proc -> Nat \cup {-1}] /\ rawTotal \in [Proc -> Nat]
  /\ prev \in [Proc -> Nat] /\ prevTotal \in [Proc -> Nat] /\ stale \in [Proc -> Nat]
  /\ polls \in Nat
  /\ reported \in [Proc -> Nat] /\ reportedTotal \in [Proc -> Nat]
  /\ cut \in SUBSET Proc /\ deadPolls \in [Proc -> Nat]

(* No timestamp lies in the future, and a call has a thread that makes it:   *)
(* what a settled call adds to the statistics is a natural number.           *)
Timely(t) ==
  /\ start[t] <= now /\ since[t] <= now
  /\ call[t] # "none" => owner[t] # Nobody

(* The type invariant, in the parts the provers take one at a time.          *)
Typed == ThreadsOK /\ StatsOK /\ PollOK /\ now >= 1 /\ \A t \in Tid : Timely(t)

(***************************************************************************)
(* What makes the judgement of a return right.  A thread whose enter event  *)
(* was recorded is inside that call, in a process that counts, and its      *)
(* timestamp is the one of that call or was given up; a marker it still has *)
(* was set during the call.  Once the threads are seeded, every thread      *)
(* inside a call has a marker or had its enter event handled.               *)
(***************************************************************************)
Judged(t) ==
  /\ t \in seen => /\ call[t] = "inside" /\ since[t] # 0
                   /\ start[t] = since[t] \/ (start[t] = 0 /\ t \in evicted)
                   /\ targeted => owner[t] \in admitted \/ t \in masked
  /\ t \in evicted => t \in seen
  /\ t \in seen \ masked => t \notin startup_tids
  /\ setup \in {"seeded", "exit"} /\ call[t] = "inside" => t \in startup_tids \cup seen \cup deaf

Verdicts ==
  /\ (targeted => admitted \subseteq Tree) /\ members \subseteq Tree
  /\ pc \in {"sync", "read"} => targeted
  /\ deaf # {} => targeted
  /\ \A t \in Tid : Judged(t)
  /\ ~hidden /\ ~unfounded

(***************************************************************************)
(* The order of a counter's three copies, as in the CPU accounting: what    *)
(* the last poll kept, what this poll read, what the kernel has now.  Calls *)
(* and their time move together.                                            *)
(***************************************************************************)
Ordered(p) ==
  /\ prev[p] <= count[p] /\ prevTotal[p] <= total_ns[p]
  /\ prev[p] = count[p] => prevTotal[p] = total_ns[p]
  /\ p \notin entries => count[p] = 0 /\ total_ns[p] = 0

Copied(p) ==
  /\ p \in Read => /\ p \in entries
                   /\ prev[p] <= raw[p] /\ raw[p] <= count[p]
                   /\ prevTotal[p] <= rawTotal[p] /\ rawTotal[p] <= total_ns[p]
                   /\ prev[p] = raw[p] => prevTotal[p] = rawTotal[p]
                   /\ raw[p] = count[p] => rawTotal[p] = total_ns[p]
  /\ p \notin Read => prev[p] = 0 /\ prevTotal[p] = 0

(* CallsConserved of one process.                                            *)
Balanced(p) ==
  p \in haunted \cup cut \/ map_update_fail \/
    /\ reported[p] + (count[p] - prev[p]) = matched[p]
    /\ reportedTotal[p] + (total_ns[p] - prevTotal[p]) = spent[p]

(* A process that was gone at the last settle has not run since; from the    *)
(* second such settle on its counters stand still and its windows are        *)
(* counted.                                                                  *)
Fading(p) ==
  /\ deadPolls[p] >= 1 => p \notin Alive
  /\ deadPolls[p] >= 1 /\ p \in Read => raw[p] = count[p]
  /\ deadPolls[p] >= 2 /\ p \in entries =>
       /\ prev[p] = count[p]
       /\ stale[p] + 2 >= deadPolls[p] /\ deadPolls[p] < StaleWindows + 2

Book(p) == Ordered(p) /\ (pc = "settle" => Copied(p)) /\ Balanced(p) /\ Fading(p)
Books == (pc # "settle" => Read = {}) /\ \A p \in Proc : Book(p)

PathInv == Typed /\ Verdicts /\ Books

LEMMA TypedIsTypeOK == Typed => TypeOK
BY DEF Typed, TypeOK, ThreadsOK, StatsOK, PollOK

LEMMA TypedInit == Init => Typed
<1> SUFFICES ASSUME Init PROVE Typed
  OBVIOUS
<1> USE SyscallAssumption
<1>1. ThreadsOK
  <2>1. deep \in SUBSET Proc /\ Near \subseteq Proc
    BY DEF Init
  <2>2. owner \in [Tid -> Proc \cup {Nobody}] /\ admitted \in SUBSET Proc
    BY <2>1 DEF Init, Tree
  <2> QED
    BY <2>1, <2>2 DEF Init, ThreadsOK
<1>2. StatsOK /\ PollOK
  BY DEF Init, StatsOK, PollOK, NoCount
<1>3. now >= 1 /\ \A t \in Tid : Timely(t)
  BY DEF Init, Timely
<1> QED
  BY <1>1, <1>2, <1>3 DEF Typed

(* Steps that neither move the clock back nor touch threads or statistics.   *)
LEMMA TypedAttach == Typed /\ (AttachEnter \/ Seed \/ AttachExit \/ Tick) => Typed'
<1> SUFFICES ASSUME Typed, AttachEnter \/ Seed \/ AttachExit \/ Tick PROVE Typed'
  OBVIOUS
<1> USE DEF AttachEnter, Seed, AttachExit, Tick, threads, maps, stats, poller, calls, outcome,
            probes
<1>1. ThreadsOK'
  BY DEF Typed, ThreadsOK
<1>2. StatsOK' /\ PollOK'
  BY DEF Typed, StatsOK, PollOK
<1>3. now' >= 1 /\ \A t \in Tid : Timely(t)'
  BY DEF Typed, ThreadsOK, Timely
<1> QED
  BY <1>1, <1>2, <1>3 DEF Typed

LEMMA TypedEnter == ASSUME Typed, NEW t \in Tid, Enter(t) PROVE Typed'
<1> USE SyscallAssumption
<1> DEFINE p == owner[t]
           heard == setup # "loaded" /\ Allowed(p)
<1>1. /\ p \in Proc /\ call[t] = "none"
      /\ arrivals' = arrivals + 1 /\ call' = [call EXCEPT ![t] = "inside"]
      /\ since' = [since EXCEPT ![t] = now]
      /\ UNCHANGED <<now, probes, owner, stats, poller, masked, hidden, unfounded, matched,
                     spent, haunted, outcome>>
  BY DEF Enter, Typed, ThreadsOK
<1>2. /\ start' \in [Tid -> Nat] /\ \A d \in Tid : start'[d] <= now
      /\ startup_tids' \in SUBSET Tid /\ admitted' \in SUBSET Proc
      /\ seen' \in SUBSET Tid /\ deaf' \in SUBSET Tid /\ evicted' \in SUBSET Tid
  <2>1. CASE heard
    <3>1. PICK v : /\ start' = [d \in Tid |-> IF d = t THEN now ELSE IF d = v THEN 0 ELSE start[d]]
                   /\ evicted' = evicted \cup ({v} \cap seen)
                   /\ startup_tids' = MarkerCleared(t)
                   /\ admitted' = IF targeted THEN admitted \cup {p} ELSE admitted
                   /\ seen' = seen \cup {t}
                   /\ UNCHANGED deaf
      BY <2>1 DEF Enter
    <3>2. start' \in [Tid -> Nat] /\ \A d \in Tid : start'[d] <= now
      BY <3>1 DEF Typed, ThreadsOK, Timely
    <3> QED
      BY <1>1, <3>1, <3>2 DEF Typed, ThreadsOK, MarkerCleared
  <2>2. CASE ~heard
    BY <2>2 DEF Enter, Typed, ThreadsOK, Timely, maps
  <2> QED
    BY <2>1, <2>2
<1> HIDE DEF p, heard
<1>3. ThreadsOK'
  <2>1. /\ call' \in [Tid -> {"none", "inside", "child"}] /\ since' \in [Tid -> Nat]
        /\ arrivals' \in Nat
    BY <1>1 DEF Typed, ThreadsOK
  <2> QED
    BY <1>1, <1>2, <2>1 DEF Typed, ThreadsOK, probes
<1>4. StatsOK' /\ PollOK'
  BY <1>1 DEF Typed, StatsOK, PollOK, stats, poller, outcome
<1>5. now' >= 1 /\ \A d \in Tid : Timely(d)'
  BY <1>1, <1>2, SyscallAssumption DEF Typed, ThreadsOK, Timely, p
<1> QED
  BY <1>3, <1>4, <1>5 DEF Typed

(* Whatever a return settles, no thread but its own is touched.              *)
LEMMA ReturnEffect ==
  ASSUME Typed, NEW t \in Tid, Return(t)
  PROVE  /\ owner[t] \in Proc /\ call[t] # "none"
         /\ call' = [call EXCEPT ![t] = "none"] /\ since' = [since EXCEPT ![t] = 0]
         /\ start' \in {start, [start EXCEPT ![t] = 0]}
         /\ startup_tids' \in {startup_tids, startup_tids \ {t}}
         /\ seen' = seen \ {t} /\ masked' = masked \ {t}
         /\ deaf' = deaf \ {t} /\ evicted' = evicted \ {t}
         /\ UNCHANGED <<now, setup, targeted, deep, owner, arrivals, admitted, pc, members,
                        raw, rawTotal, prev, prevTotal, stale, polls, reported,
                        reportedTotal, cut, deadPolls>>
<1>1. owner[t] \in Proc /\ call[t] # "none"
  BY SyscallAssumption DEF Return, Typed, ThreadsOK, Timely
<1>2. UNCHANGED <<start, startup_tids>> \/ Settle(t) \/ Unmatched(t)
  BY DEF Return
<1>3. start' \in {start, [start EXCEPT ![t] = 0]}
  BY <1>2 DEF Settle, Unmatched
<1>4. startup_tids' \in {startup_tids, startup_tids \ {t}}
  BY <1>2 DEF Settle, Unmatched
<1> QED
  BY <1>1, <1>3, <1>4 DEF Return, probes, poller, outcome

(* The statistics a settled call leaves.                                     *)
LEMMA SettleStats ==
  ASSUME Typed, NEW t \in Tid, owner[t] \in Proc, Settle(t)
  PROVE  StatsOK'
<1> DEFINE p == owner[t]
           room == p \in entries \/ Cardinality(entries) < StatsCap
<1>1. now - start[t] \in Nat /\ now - since[t] \in Nat
  BY DEF Typed, ThreadsOK, Timely
<1>2. count' \in [Proc -> Nat] /\ total_ns' \in [Proc -> Nat] /\ entries' \in SUBSET Proc
  <2>1. count \in [Proc -> Nat] /\ total_ns \in [Proc -> Nat] /\ entries \in SUBSET Proc
    BY DEF Typed, StatsOK
  <2>2. /\ entries' = IF room THEN entries \cup {p} ELSE entries
        /\ count' = IF room THEN [count EXCEPT ![p] = @ + 1] ELSE count
        /\ total_ns' = IF room THEN [total_ns EXCEPT ![p] = @ + (now - start[t])] ELSE total_ns
    BY DEF Settle
  <2> HIDE DEF room
  <2> QED
    BY <1>1, <2>1, <2>2
<1>3. map_update_fail' \in BOOLEAN
  BY DEF Settle
<1>4. /\ matched' \in [Proc -> Nat] /\ spent' \in [Proc -> Nat] /\ haunted' \in SUBSET Proc
  BY <1>1 DEF Settle, Typed, StatsOK
<1> QED
  BY <1>2, <1>3, <1>4 DEF Settle, Typed, StatsOK

LEMMA TypedReturn == ASSUME Typed, NEW t \in Tid, Return(t) PROVE Typed'
<1>1. StatsOK'
  <2>1. CASE setup # "exit"
    BY <2>1 DEF Return, Typed, StatsOK, stats
  <2>2. CASE setup = "exit" /\ start[t] # 0
    BY <2>2, ReturnEffect, SettleStats DEF Return
  <2>3. CASE setup = "exit" /\ start[t] = 0
    <3>1. Unmatched(t)
      BY <2>3 DEF Return
    <3>2. exit_miss' \in BOOLEAN /\ hidden' \in BOOLEAN /\ unfounded' \in BOOLEAN
      BY <3>1 DEF Unmatched
    <3> QED
      BY <3>1, <3>2 DEF Unmatched, Typed, StatsOK
  <2> QED
    BY <2>1, <2>2, <2>3
<1>2. ThreadsOK'
  BY ReturnEffect DEF Typed, ThreadsOK
<1>3. PollOK'
  BY ReturnEffect DEF Typed, PollOK
<1>4. now' >= 1 /\ \A d \in Tid : Timely(d)'
  BY ReturnEffect DEF Typed, ThreadsOK, Timely
<1> QED
  BY <1>1, <1>2, <1>3, <1>4 DEF Typed

LEMMA TypedDie == ASSUME Typed, NEW t \in Tid, Die(t) PROVE Typed'
<1> USE DEF Die, probes, maps, stats, poller, outcome
<1>1. ThreadsOK'
  BY DEF Typed, ThreadsOK
<1>2. StatsOK' /\ PollOK'
  BY DEF Typed, StatsOK, PollOK
<1>3. now' >= 1 /\ \A d \in Tid : Timely(d)'
  BY DEF Typed, ThreadsOK, Timely
<1> QED
  BY <1>1, <1>2, <1>3 DEF Typed

LEMMA TypedClone == ASSUME Typed, NEW t \in Tid, NEW p \in Proc, Clone(t, p) PROVE Typed'
<1> USE DEF Clone, probes, maps, stats, poller, calls
<1>0. PICK c \in {"none", "child"} : call' = [call EXCEPT ![t] = c]
  OBVIOUS
<1>1. ThreadsOK'
  BY <1>0 DEF Typed, ThreadsOK
<1>2. StatsOK' /\ PollOK'
  BY DEF Typed, StatsOK, PollOK
<1>3. now' >= 1 /\ \A d \in Tid : Timely(d)'
  BY <1>0, SyscallAssumption DEF Typed, ThreadsOK, Timely
<1> QED
  BY <1>1, <1>2, <1>3 DEF Typed

LEMMA TypedPollTarget == Typed /\ (PollRefresh \/ PollSync) => Typed'
<1> SUFFICES ASSUME Typed, PollRefresh \/ PollSync PROVE Typed'
  OBVIOUS
<1> USE DEF PollRefresh, PollSync, probes, threads, maps, stats, calls, outcome
<1>1. ThreadsOK'
  BY DEF Typed, ThreadsOK, PollOK
<1>2. StatsOK'
  BY DEF Typed, StatsOK
<1>3. PollOK'
  <2>1. members' \in SUBSET Proc
    BY SyscallAssumption DEF Typed, ThreadsOK, Tree
  <2> QED
    BY <2>1 DEF Typed, PollOK
<1>4. now' >= 1 /\ \A d \in Tid : Timely(d)'
  BY DEF Typed, ThreadsOK, Timely
<1> QED
  BY <1>1, <1>2, <1>3, <1>4 DEF Typed

LEMMA TypedPollRead == Typed /\ PollRead => Typed'
<1> SUFFICES ASSUME Typed, PollRead PROVE Typed'
  OBVIOUS
<1> USE DEF PollRead, probes, threads, maps, stats, calls, outcome
<1>1. ThreadsOK'
  BY DEF Typed, ThreadsOK
<1>2. StatsOK' /\ PollOK'
  BY DEF Typed, StatsOK, PollOK
<1>3. now' >= 1 /\ \A d \in Tid : Timely(d)'
  BY DEF Typed, ThreadsOK, Timely
<1> QED
  BY <1>1, <1>2, <1>3 DEF Typed

LEMMA TypedPollSettle == ASSUME Typed, NEW forgotten \in SUBSET Proc, PollSettle(forgotten)
                         PROVE  Typed'
<1> USE DEF probes, threads, maps, calls
<1> DEFINE foreign == {p \in Read : Foreign(p, forgotten)}
           old     == {p \in Read \ foreign : StaleCount(p) >= StaleWindows}
           gone    == foreign \cup old
<1>1. foreign \subseteq Proc /\ old \subseteq Proc /\ gone \subseteq Proc
  BY DEF Read
<1>2. /\ entries' = entries \ gone
      /\ count' = [p \in Proc |-> IF p \in gone THEN 0 ELSE count[p]]
      /\ total_ns' = [p \in Proc |-> IF p \in gone THEN 0 ELSE total_ns[p]]
      /\ stale' = [p \in Proc |-> IF p \in Read \ foreign THEN StaleCount(p) ELSE stale[p]]
      /\ prev' = [p \in Proc |-> PrevAfter(gone, p)]
      /\ prevTotal' = [p \in Proc |-> IF p \in Read \ gone THEN rawTotal[p] ELSE 0]
      /\ reported' = [p \in Proc |-> IF p \in Read \ gone THEN reported[p] + Delta(p)
                                     ELSE reported[p]]
      /\ reportedTotal' = [p \in Proc |-> IF p \in Read \ gone /\ Delta(p) > 0
                                          THEN reportedTotal[p] + DeltaTotal(p)
                                          ELSE reportedTotal[p]]
      /\ cut' = cut \cup foreign \cup {p \in old : count[p] # raw[p]}
      /\ deadPolls' = [p \in Proc |-> IF p \in Read \ Alive THEN deadPolls[p] + 1 ELSE 0]
      /\ polls' = polls + 1
      /\ pc' = "idle" /\ raw' = [p \in Proc |-> -1] /\ rawTotal' = NoCount
      /\ UNCHANGED <<now, probes, threads, maps, exit_miss, map_update_fail, members, calls>>
  BY DEF PollSettle
<1> HIDE DEF foreign, old, gone
<1>3. \A p \in Proc : /\ Delta(p) \in Nat /\ DeltaTotal(p) \in Nat /\ StaleCount(p) \in Nat
                      /\ PrevAfter(gone, p) \in Nat
  <2> SUFFICES ASSUME NEW p \in Proc
               PROVE  /\ Delta(p) \in Nat /\ DeltaTotal(p) \in Nat /\ StaleCount(p) \in Nat
                      /\ PrevAfter(gone, p) \in Nat
    OBVIOUS
  <2>1. /\ raw[p] \in Nat \cup {-1} /\ prev[p] \in Nat /\ rawTotal[p] \in Nat
        /\ prevTotal[p] \in Nat /\ stale[p] \in Nat
    BY DEF Typed, PollOK
  <2> QED
    BY <2>1 DEF Delta, DeltaTotal, StaleCount, PrevAfter, Read
<1>4. ThreadsOK'
  BY <1>2 DEF Typed, ThreadsOK
<1>5. StatsOK'
  BY <1>2 DEF Typed, StatsOK
<1>6. PollOK'
  <2>1. prev' \in [Proc -> Nat] /\ stale' \in [Proc -> Nat]
    BY <1>2, <1>3 DEF Typed, PollOK
  <2>2. /\ prevTotal' \in [Proc -> Nat] /\ reported' \in [Proc -> Nat]
        /\ reportedTotal' \in [Proc -> Nat] /\ deadPolls' \in [Proc -> Nat]
    BY <1>2, <1>3 DEF Typed, PollOK
  <2>3. /\ raw' \in [Proc -> Nat \cup {-1}] /\ rawTotal' \in [Proc -> Nat]
        /\ pc' = "idle" /\ members' \in SUBSET Proc /\ polls' \in Nat /\ cut' \in SUBSET Proc
    BY <1>1, <1>2 DEF Typed, PollOK, NoCount
  <2> QED
    BY <2>1, <2>2, <2>3 DEF PollOK
<1>7. now' >= 1 /\ \A d \in Tid : Timely(d)'
  BY <1>2 DEF Typed, ThreadsOK, Timely
<1> QED
  BY <1>4, <1>5, <1>6, <1>7 DEF Typed

LEMMA TypedStep == Typed /\ [Next]_vars => Typed'
<1> SUFFICES ASSUME Typed, [Next]_vars PROVE Typed'
  OBVIOUS
<1>1. CASE UNCHANGED vars
  BY <1>1 DEF vars, probes, threads, maps, stats, poller, calls, outcome,
              Typed, ThreadsOK, StatsOK, PollOK, Timely
<1>2. CASE Next
  BY <1>2, TypedAttach, TypedEnter, TypedReturn, TypedDie, TypedClone, TypedPollTarget,
     TypedPollRead, TypedPollSettle DEF Next
<1> QED
  BY <1>1, <1>2

(***************************************************************************)
(* Every variable keeps its type, however attaching, events and polls       *)
(* interleave.                                                              *)
(***************************************************************************)
THEOREM TypeCorrect == Spec => []TypeOK
BY TypedInit, TypedStep, TypedIsTypeOK, PTL DEF Spec

----------------------------------------------------------------------------
(* The judgement of a return.                                                *)

LEMMA VerdictsInit == Init => Verdicts
BY DEF Init, Verdicts, Judged

(* The steps of NewSyscallCollector, and the clock: only Seed sets markers.   *)
LEMMA VerdictsAttach ==
  Typed /\ Verdicts /\ (AttachEnter \/ Seed \/ AttachExit \/ Tick) => Verdicts'
<1> SUFFICES ASSUME Typed, Verdicts, AttachEnter \/ Seed \/ AttachExit \/ Tick PROVE Verdicts'
  OBVIOUS
<1> USE DEF threads, maps, stats, poller, calls, outcome, probes
<1>1. CASE AttachEnter \/ AttachExit \/ Tick
  BY <1>1 DEF AttachEnter, AttachExit, Tick, Verdicts, Judged, Tree
<1>2. CASE Seed
  <2>1. ASSUME NEW t \in Tid PROVE Judged(t)'
    <3>1. call[t] # "none" => owner[t] # Nobody
      BY DEF Typed, Timely
    <3>2. t \in seen => owner[t] # Nobody
      BY <3>1 DEF Verdicts, Judged
    <3> QED
      BY <1>2, <3>1, <3>2 DEF Seed, Verdicts, Judged
  <2> QED
    BY <1>2, <2>1 DEF Seed, Verdicts, Tree
<1> QED
  BY <1>1, <1>2

LEMMA VerdictsEnter == ASSUME Typed, Verdicts, NEW t \in Tid, Enter(t) PROVE Verdicts'
<1> USE SyscallAssumption
<1> DEFINE p == owner[t]
           heard == setup # "loaded" /\ Allowed(p)
<1>1. /\ p \in Proc /\ call[t] = "none" /\ t \notin seen /\ t \notin evicted
      /\ call' = [call EXCEPT ![t] = "inside"] /\ since' = [since EXCEPT ![t] = now]
      /\ UNCHANGED <<setup, targeted, deep, owner, pc, members, masked, hidden, unfounded>>
  BY DEF Enter, Typed, ThreadsOK, Verdicts, Judged, probes, poller
<1>2. /\ call \in [Tid -> {"none", "inside", "child"}] /\ since \in [Tid -> Nat]
      /\ start \in [Tid -> Nat] /\ now # 0
  BY DEF Typed, ThreadsOK
<1>3. CASE heard
  <2>1. PICK v : /\ start' = [d \in Tid |-> IF d = t THEN now ELSE IF d = v THEN 0 ELSE start[d]]
                 /\ evicted' = evicted \cup ({v} \cap seen)
                 /\ startup_tids' = MarkerCleared(t)
                 /\ admitted' = IF targeted THEN admitted \cup {p} ELSE admitted
                 /\ seen' = seen \cup {t}
                 /\ UNCHANGED deaf
    BY <1>3 DEF Enter
  <2>2. ASSUME NEW d \in Tid PROVE Judged(d)'
    <3> HIDE DEF p
    <3>1. CASE d = t
      BY <1>1, <1>2, <2>1, <3>1 DEF Judged, MarkerCleared, p
    <3>2. CASE d # t
      <4>1. Judged(d)
        BY DEF Verdicts
      <4>2. UNCHANGED <<call[d], since[d], setup, targeted, owner[d]>> /\ (d \in masked' <=> d \in masked)
        BY <1>1, <1>2, <3>2
      <4>3. /\ d \in seen' <=> d \in seen
            /\ d \in startup_tids' <=> d \in startup_tids
            /\ d \in deaf' <=> d \in deaf
            /\ d \in evicted => d \in evicted'
            /\ d \in evicted' => d \in seen \/ d \in evicted
        BY <2>1, <3>2 DEF MarkerCleared
      <4>4. d \in seen => start'[d] = start[d] \/ (start'[d] = 0 /\ d \in evicted')
        BY <1>2, <2>1, <3>2
      <4>5. admitted \subseteq admitted'
        BY <2>1
      <4> QED
        BY <4>1, <4>2, <4>3, <4>4, <4>5 DEF Judged
    <3> QED
      BY <3>1, <3>2
  <2>3. targeted' => admitted' \subseteq Tree'
    BY <1>1, <1>3, <2>1 DEF Verdicts, Allowed, Tree
  <2> QED
    BY <1>1, <2>1, <2>2, <2>3 DEF Verdicts, Tree
<1>4. CASE ~heard
  <2>1. UNCHANGED <<start, startup_tids, admitted, seen, evicted>>
    BY <1>4 DEF Enter, maps
  <2>2. deaf' = IF setup = "loaded" THEN deaf ELSE deaf \cup {t}
    BY <1>4 DEF Enter
  <2>3. setup # "loaded" => targeted
    BY <1>4 DEF Allowed
  <2>4. ASSUME NEW d \in Tid PROVE Judged(d)'
    BY <1>1, <1>2, <2>1, <2>2 DEF Judged, Verdicts
  <2> QED
    BY <1>1, <2>1, <2>2, <2>3, <2>4 DEF Verdicts, Tree
<1> QED
  BY <1>3, <1>4

(* A return that finds no timestamp is judged right.                         *)
LEMMA UnmatchedRight ==
  ASSUME Typed, Verdicts, NEW t \in Tid, setup = "exit", call[t] # "none", start[t] = 0,
         Unmatched(t)
  PROVE  ~hidden' /\ ~unfounded'
<1> DEFINE missed == t \notin startup_tids /\ Counts(owner[t])
<1>1. Judged(t) /\ ~hidden /\ ~unfounded
  BY DEF Verdicts
<1>2. t \in evicted \ masked => missed
  BY <1>1 DEF Judged, Counts
<1>3. missed /\ t \notin evicted /\ call[t] # "child" => t \in deaf /\ owner[t] \in Tree
  <2>1. SUFFICES ASSUME missed, t \notin evicted, call[t] # "child"
                 PROVE  t \in deaf /\ owner[t] \in Tree
    OBVIOUS
  <2>2. call[t] = "inside"
    BY <2>1 DEF Typed, ThreadsOK
  <2>3. t \in deaf
    BY <1>1, <2>1, <2>2 DEF Judged
  <2> QED
    BY <2>1, <2>3 DEF Verdicts, Counts
<1> QED
  BY <1>1, <1>2, <1>3 DEF Unmatched

LEMMA VerdictsReturn == ASSUME Typed, Verdicts, NEW t \in Tid, Return(t) PROVE Verdicts'
<1>1. ~hidden' /\ ~unfounded'
  <2>1. CASE setup # "exit"
    BY <2>1 DEF Return, Verdicts
  <2>2. CASE setup = "exit" /\ start[t] # 0
    BY <2>2 DEF Return, Settle, Verdicts
  <2>3. CASE setup = "exit" /\ start[t] = 0
    BY <2>3, UnmatchedRight DEF Return
  <2> QED
    BY <2>1, <2>2, <2>3
<1>2. ASSUME NEW d \in Tid PROVE Judged(d)'
  <2>1. Judged(d) /\ Judged(t)
    BY DEF Verdicts
  <2>2. CASE d = t
    BY <2>1, <2>2, ReturnEffect DEF Judged, Typed, ThreadsOK
  <2>3. CASE d # t
    BY <2>1, <2>3, ReturnEffect DEF Judged, Typed, ThreadsOK
  <2> QED
    BY <2>2, <2>3
<1> QED
  BY <1>1, <1>2, ReturnEffect DEF Verdicts, Tree

LEMMA VerdictsDie == ASSUME Typed, Verdicts, NEW t \in Tid, Die(t) PROVE Verdicts'
BY DEF Die, probes, maps, stats, poller, outcome, Typed, ThreadsOK, Verdicts, Judged, Tree

LEMMA VerdictsClone ==
  ASSUME Typed, Verdicts, NEW t \in Tid, NEW p \in Proc, Clone(t, p) PROVE Verdicts'
<1> USE DEF Clone, probes, maps, stats, poller, calls
<1>1. PICK c \in {"none", "child"} : call' = [call EXCEPT ![t] = c]
  OBVIOUS
<1>2. call[t] = "none" /\ t \notin seen
  BY DEF Typed, Timely, Verdicts, Judged, ThreadsOK
<1>3. admitted' \subseteq admitted /\ members' \subseteq members
  OBVIOUS
<1>4. ASSUME NEW d \in Tid PROVE Judged(d)'
  <2>1. Judged(d)
    BY DEF Verdicts
  <2>2. CASE d = t
    BY <1>1, <1>2, <2>1, <2>2 DEF Judged, Typed, ThreadsOK
  <2>3. CASE d # t
    <3>1. d \in seen /\ owner[d] \in admitted => owner[d] \in admitted'
      <4>1. d \in seen => owner[d] \in Alive
        BY <2>1 DEF Judged, Typed, Timely, Alive
      <4> QED
        BY <4>1
    <3> QED
      BY <1>1, <2>1, <2>3, <3>1 DEF Judged, Typed, ThreadsOK
  <2> QED
    BY <2>2, <2>3
<1> QED
  BY <1>3, <1>4 DEF Verdicts, Tree

(* Only syncTargetTGIDMap takes a process out of target_tgids, and it masks   *)
(* the calls that this leaves uncounted.                                      *)
LEMMA VerdictsPoll ==
  ASSUME Typed, Verdicts,
         \/ PollRefresh \/ PollSync \/ PollRead
         \/ \E forgotten \in SUBSET Proc : PollSettle(forgotten)
  PROVE  Verdicts'
<1> USE DEF probes, threads, maps, stats, calls, outcome
<1>1. CASE PollRefresh
  BY <1>1 DEF PollRefresh, Verdicts, Judged, Tree
<1>2. CASE PollSync
  <2>1. admitted' \subseteq Tree' /\ members' \subseteq Tree' /\ targeted'
    BY <1>2 DEF PollSync, Verdicts, Tree
  <2>2. ASSUME NEW t \in Tid PROVE Judged(t)'
    <3>1. t \in seen => owner[t] \in admitted' \/ t \in masked'
      BY <1>2 DEF PollSync
    <3>2. masked \subseteq masked'
      BY <1>2 DEF PollSync
    <3> QED
      BY <1>2, <3>1, <3>2 DEF PollSync, Verdicts, Judged
  <2> QED
    BY <1>2, <2>1, <2>2 DEF PollSync, Verdicts
<1>3. CASE PollRead
  BY <1>3 DEF PollRead, Verdicts, Judged, Tree
<1>4. CASE \E forgotten \in SUBSET Proc : PollSettle(forgotten)
  BY <1>4 DEF PollSettle, Verdicts, Judged, Tree
<1> QED
  BY <1>1, <1>2, <1>3, <1>4

LEMMA VerdictsStep == Typed /\ Verdicts /\ [Next]_vars => Verdicts'
<1> SUFFICES ASSUME Typed, Verdicts, [Next]_vars PROVE Verdicts'
  OBVIOUS
<1>1. CASE UNCHANGED vars
  BY <1>1 DEF vars, probes, threads, maps, stats, poller, calls, outcome, Verdicts, Judged, Tree
<1>2. CASE Next
  BY <1>2, VerdictsAttach, VerdictsEnter, VerdictsReturn, VerdictsDie, VerdictsClone,
     VerdictsPoll DEF Next
<1> QED
  BY <1>1, <1>2

LEMMA VerdictsHold == Spec => [](~hidden /\ ~unfounded)
<1>1. Init => Typed /\ Verdicts
  BY TypedInit, VerdictsInit
<1>2. Typed /\ Verdicts /\ [Next]_vars => (Typed /\ Verdicts)'
  BY TypedStep, VerdictsStep
<1>3. Typed /\ Verdicts => ~hidden /\ ~unfounded
  BY DEF Verdicts
<1> QED
  BY <1>1, <1>2, <1>3, PTL DEF Spec

(***************************************************************************)
(* handle_exit (syscall.bpf.c) counts a miss only for a call whose data was *)
(* lost: whatever the order in which the probes attach, the threads are     *)
(* seeded, enter and leave their calls and the target's members are         *)
(* refreshed.                                                               *)
(***************************************************************************)
THEOREM NoFalseMisses == Spec => []NoFalseMiss
BY VerdictsHold, PTL DEF NoFalseMiss

(***************************************************************************)
(* A call whose timestamp the LRU map gave up never returns uncounted: its  *)
(* thread's marker cannot outlive its enter event.                          *)
(***************************************************************************)
THEOREM LossesShown == Spec => []LossShown
BY VerdictsHold, PTL DEF LossShown

----------------------------------------------------------------------------
(* The books of a process: what the kernel counted, what Poll kept and said. *)

LEMMA BookTypes ==
  ASSUME Typed, NEW p \in Proc
  PROVE  /\ count[p] \in Nat /\ total_ns[p] \in Nat /\ prev[p] \in Nat /\ prevTotal[p] \in Nat
         /\ raw[p] \in Nat \cup {-1} /\ rawTotal[p] \in Nat /\ stale[p] \in Nat
         /\ reported[p] \in Nat /\ reportedTotal[p] \in Nat /\ deadPolls[p] \in Nat
         /\ matched[p] \in Nat /\ spent[p] \in Nat
         /\ StaleWindows \in Nat \ {0}
BY SyscallAssumption DEF Typed, StatsOK, PollOK

LEMMA BooksInit == Init => Books
<1> SUFFICES ASSUME Init PROVE Books
  OBVIOUS
<1>1. Read = {}
  BY DEF Init, Read
<1>2. ASSUME NEW p \in Proc PROVE Book(p)
  <2>1. /\ count[p] = 0 /\ total_ns[p] = 0 /\ prev[p] = 0 /\ prevTotal[p] = 0
        /\ reported[p] = 0 /\ reportedTotal[p] = 0 /\ matched[p] = 0 /\ spent[p] = 0
        /\ deadPolls[p] = 0 /\ pc = "idle"
    BY DEF Init, NoCount
  <2> QED
    BY <2>1 DEF Book, Ordered, Balanced, Fading
<1> QED
  BY <1>1, <1>2 DEF Books

bookVars == <<entries, count, total_ns, map_update_fail, raw, rawTotal, prev, prevTotal, stale,
              matched, spent, haunted, outcome>>

(* Books depend on these variables and, for the dead, on who is alive.       *)
LEMMA BooksKept ==
  ASSUME Books, UNCHANGED bookVars, Alive' \subseteq Alive, pc' = "settle" <=> pc = "settle"
  PROVE  Books'
BY DEF Books, bookVars, outcome, Book, Ordered, Copied, Balanced, Fading, Read

(* The settled call is its process's; every other process's book is shut.    *)
LEMMA BooksSettle ==
  ASSUME Typed, Verdicts, Books, NEW t \in Tid, owner[t] \in Proc, start[t] # 0, Settle(t),
         UNCHANGED <<owner, poller, outcome>>
  PROVE  Books'
<1> DEFINE p == owner[t]
           room == p \in entries \/ Cardinality(entries) < StatsCap
<1>1. /\ entries' = IF room THEN entries \cup {p} ELSE entries
      /\ count' = IF room THEN [count EXCEPT ![p] = @ + 1] ELSE count
      /\ total_ns' = IF room THEN [total_ns EXCEPT ![p] = @ + (now - start[t])] ELSE total_ns
      /\ map_update_fail' = (map_update_fail \/ ~room)
      /\ t \in seen => /\ matched' = [matched EXCEPT ![p] = @ + 1]
                       /\ spent' = [spent EXCEPT ![p] = @ + (now - since[t])]
                       /\ UNCHANGED haunted
      /\ t \notin seen => haunted' = haunted \cup {p} /\ UNCHANGED <<matched, spent>>
  BY DEF Settle
<1>2. now - start[t] \in Nat /\ now - since[t] \in Nat
  BY DEF Typed, ThreadsOK, Timely
<1>3. t \in seen => start[t] = since[t]
  BY DEF Verdicts, Judged
<1>4. /\ pc' = pc /\ Read' = Read /\ Alive' = Alive /\ p \in Alive
      /\ UNCHANGED <<raw, rawTotal, prev, prevTotal, stale, reported, reportedTotal, cut,
                     deadPolls>>
  BY SyscallAssumption DEF poller, outcome, Read, Alive
<1>5. /\ count \in [Proc -> Nat] /\ total_ns \in [Proc -> Nat]
      /\ matched \in [Proc -> Nat] /\ spent \in [Proc -> Nat] /\ p \in Proc
  BY DEF Typed, StatsOK
<1> HIDE DEF p, room
<1>6. ASSUME NEW q \in Proc, q # p PROVE Book(q)'
  <2>1. /\ count'[q] = count[q] /\ total_ns'[q] = total_ns[q]
        /\ matched'[q] = matched[q] /\ spent'[q] = spent[q]
        /\ q \in entries' <=> q \in entries
        /\ q \in haunted' <=> q \in haunted
        /\ map_update_fail => map_update_fail'
    BY <1>1, <1>5, <1>6
  <2>2. Book(q)
    BY DEF Books
  <2>3. Ordered(q)' /\ (pc' = "settle" => Copied(q)')
    BY <1>4, <2>1, <2>2 DEF Book, Ordered, Copied
  <2>4. Balanced(q)' /\ Fading(q)'
    BY <1>4, <2>1, <2>2 DEF Book, Balanced, Fading
  <2> QED
    BY <2>3, <2>4 DEF Book
<1>7. ASSUME NEW q \in Proc, q = p PROVE Book(q)'
  <2>1. Book(q)
    BY DEF Books
  <2>2. deadPolls[q] = 0
    BY <1>4, <1>7, <2>1, BookTypes DEF Book, Fading
  <2>3. CASE room
    <3>1. /\ count'[q] = count[q] + 1 /\ total_ns'[q] = total_ns[q] + (now - start[t])
          /\ q \in entries'
      BY <1>1, <1>5, <1>7, <2>3
    <3>2. Ordered(q)' /\ (pc' = "settle" => Copied(q)')
      BY <1>2, <1>4, <2>1, <3>1, BookTypes DEF Book, Ordered, Copied
    <3>3. Balanced(q)'
      <4>1. t \in seen => /\ matched'[q] = matched[q] + 1
                          /\ spent'[q] = spent[q] + (now - start[t])
                          /\ haunted' = haunted
        BY <1>1, <1>3, <1>5, <1>7
      <4>2. map_update_fail => map_update_fail'
        BY <1>1
      <4>3. t \notin seen => q \in haunted'
        BY <1>1, <1>7
      <4> QED
        BY <1>2, <1>4, <2>1, <3>1, <4>1, <4>2, <4>3, BookTypes DEF Book, Balanced, Ordered
    <3> QED
      BY <1>4, <2>2, <3>2, <3>3 DEF Book, Fading
  <2>4. CASE ~room
    <3>1. count' = count /\ total_ns' = total_ns /\ entries' = entries /\ map_update_fail'
      BY <1>1, <2>4
    <3>2. Ordered(q)' /\ (pc' = "settle" => Copied(q)') /\ Balanced(q)'
      BY <1>4, <2>1, <3>1 DEF Book, Ordered, Copied, Balanced
    <3> QED
      BY <1>4, <2>2, <3>2 DEF Book, Fading
  <2> QED
    BY <2>3, <2>4
<1> QED
  BY <1>4, <1>6, <1>7 DEF Books

LEMMA BooksReturn == ASSUME Typed, Verdicts, Books, NEW t \in Tid, Return(t) PROVE Books'
<1>1. owner[t] \in Proc /\ UNCHANGED <<owner, poller, outcome>>
  BY ReturnEffect DEF poller, outcome
<1>2. CASE setup = "exit" /\ start[t] # 0
  BY <1>1, <1>2, BooksSettle DEF Return
<1>3. CASE ~(setup = "exit" /\ start[t] # 0)
  <2>1. UNCHANGED bookVars /\ pc' = pc
    BY <1>1, <1>3 DEF Return, Unmatched, stats, bookVars, poller
  <2> QED
    BY <1>1, <2>1, BooksKept DEF Alive
<1> QED
  BY <1>2, <1>3

(* A new thread may bring a dead process's id back.                          *)
LEMMA BooksClone ==
  ASSUME Typed, Books, NEW t \in Tid, NEW p \in Proc, Clone(t, p) PROVE Books'
<1>1. /\ UNCHANGED <<stats, pc, raw, rawTotal, prev, prevTotal, stale, matched, spent, haunted,
                     reported, reportedTotal, cut>>
      /\ deadPolls' = [deadPolls EXCEPT ![p] = 0]
      /\ deadPolls \in [Proc -> Nat]
  BY DEF Clone, maps, calls, Typed, PollOK
<1>2. Alive' \subseteq Alive \cup {p}
  BY DEF Clone, Alive, Typed, ThreadsOK
<1>3. ASSUME NEW q \in Proc PROVE Book(q)'
  <2>1. Book(q)
    BY DEF Books
  <2>2. Ordered(q)' /\ (pc' = "settle" => Copied(q)') /\ Balanced(q)'
    BY <1>1, <2>1 DEF Book, Ordered, Copied, Balanced, stats, Read
  <2>3. Fading(q)'
    <3>1. CASE q = p
      BY <1>1, <3>1 DEF Fading
    <3>2. CASE q # p
      BY <1>1, <1>2, <2>1, <3>2 DEF Book, Fading, stats, Read
    <3> QED
      BY <3>1, <3>2
  <2> QED
    BY <2>2, <2>3 DEF Book
<1> QED
  BY <1>1, <1>3 DEF Books, Read

LEMMA BooksPollRead == ASSUME Typed, Books, PollRead PROVE Books'
<1>1. /\ raw' = [p \in Proc |-> IF p \in entries THEN count[p] ELSE -1]
      /\ rawTotal' = total_ns /\ pc # "settle" /\ pc' = "settle"
      /\ UNCHANGED <<entries, count, total_ns, map_update_fail, prev, prevTotal, stale,
                     matched, spent, haunted, reported, reportedTotal, cut, deadPolls>>
      /\ Alive' = Alive
  BY DEF PollRead, stats, calls, outcome, threads, Alive
<1>2. ASSUME NEW p \in Proc PROVE Book(p)'
  <2>1. Book(p)
    BY DEF Books
  <2>2. p \in Read' => p \in entries /\ raw'[p] = count[p]
    BY <1>1 DEF Read
  <2>3. p \notin Read' => p \notin entries
    BY <1>1, BookTypes DEF Read
  <2>4. Ordered(p)' /\ Balanced(p)'
    BY <1>1, <2>1 DEF Book, Ordered, Balanced
  <2>5. Copied(p)'
    BY <1>1, <2>1, <2>2, <2>3, BookTypes DEF Book, Ordered, Copied
  <2>6. Fading(p)'
    BY <1>1, <2>1, <2>2 DEF Book, Fading
  <2> QED
    BY <2>4, <2>5, <2>6 DEF Book
<1> QED
  BY <1>1, <1>2 DEF Books

LEMMA BooksPollSettle ==
  ASSUME Typed, Books, NEW forgotten \in SUBSET Proc, PollSettle(forgotten)
  PROVE  Books'
<1> DEFINE foreign == {p \in Read : Foreign(p, forgotten)}
           old     == {p \in Read \ foreign : StaleCount(p) >= StaleWindows}
           gone    == foreign \cup old
<1>1. ASSUME NEW p \in Proc PROVE Book(p)'
  <2>1. /\ p \in entries' <=> p \in entries \ gone
        /\ count'[p] = IF p \in gone THEN 0 ELSE count[p]
        /\ total_ns'[p] = IF p \in gone THEN 0 ELSE total_ns[p]
        /\ stale'[p] = IF p \in Read \ foreign THEN StaleCount(p) ELSE stale[p]
        /\ prev'[p] = PrevAfter(gone, p)
        /\ prevTotal'[p] = IF p \in Read \ gone THEN rawTotal[p] ELSE 0
        /\ deadPolls'[p] = IF p \in Read \ Alive THEN deadPolls[p] + 1 ELSE 0
        /\ pc = "settle" /\ pc' = "idle" /\ Alive' = Alive
    BY DEF PollSettle, threads, Alive
  <2>2. /\ reported'[p] = IF p \in Read \ gone THEN reported[p] + Delta(p) ELSE reported[p]
        /\ reportedTotal'[p] = IF p \in Read \ gone /\ Delta(p) > 0
                               THEN reportedTotal[p] + DeltaTotal(p)
                               ELSE reportedTotal[p]
        /\ p \in cut' <=> p \in cut \/ p \in foreign \/ (p \in old /\ count[p] # raw[p])
        /\ UNCHANGED <<matched, spent, haunted, map_update_fail>>
    BY DEF PollSettle, calls
  <2>3. Ordered(p) /\ Copied(p) /\ Balanced(p) /\ Fading(p)
    BY <2>1 DEF Books, Book
  <2>4. /\ p \in Read => raw[p] \in Nat
        /\ p \in foreign => p \in Read
        /\ p \in old <=> p \in Read /\ p \notin foreign /\ StaleCount(p) >= StaleWindows
        /\ p \in gone <=> p \in foreign \/ p \in old
    BY BookTypes DEF Read
  <2> HIDE DEF foreign, old, gone
  <2>5. /\ p \in Read => Delta(p) = raw[p] - prev[p] /\ DeltaTotal(p) = rawTotal[p] - prevTotal[p]
    BY <2>3, <2>4, BookTypes DEF Copied, Delta, DeltaTotal
  <2>6. StaleCount(p) \in Nat /\ (StaleCount(p) >= StaleWindows => Delta(p) = 0)
    BY BookTypes DEF StaleCount, Stale
  <2>7. PrevAfter(gone, p) = IF p \in Read \ gone THEN raw[p] ELSE 0
    BY DEF PrevAfter
  <2>8. Ordered(p)'
    BY <2>1, <2>3, <2>4, <2>7, BookTypes DEF Ordered, Copied
  <2>9. Balanced(p)'
    <3>1. CASE p \notin Read
      BY <2>1, <2>2, <2>3, <2>4, <2>7, <3>1, BookTypes DEF Balanced, Copied
    <3>2. CASE p \in Read \ gone
      BY <2>1, <2>2, <2>3, <2>4, <2>5, <2>7, <3>2, BookTypes DEF Balanced, Copied
    <3>3. CASE p \in foreign
      BY <2>2, <3>3 DEF Balanced
    <3>4. CASE p \in old
      <4>1. raw[p] = prev[p] /\ prevTotal[p] = rawTotal[p]
        BY <2>3, <2>4, <2>5, <2>6, <3>4, BookTypes DEF Copied
      <4>2. CASE count[p] # raw[p]
        BY <2>2, <3>4, <4>2 DEF Balanced
      <4>3. CASE count[p] = raw[p]
        BY <2>1, <2>2, <2>3, <2>4, <2>7, <3>4, <4>1, <4>3, BookTypes DEF Balanced, Copied
      <4> QED
        BY <4>2, <4>3
    <3> QED
      BY <2>4, <3>1, <3>2, <3>3, <3>4
  <2>10. Fading(p)'
    <3>0. Read' = {}
      BY DEF PollSettle, Read
    <3>1. CASE p \notin Read \ Alive
      BY <2>1, <3>1 DEF Fading
    <3>2. CASE p \in Read \ Alive /\ p \in gone
      BY <2>1, <3>0, <3>2 DEF Fading
    <3>3. CASE p \in Read \ Alive /\ p \notin gone /\ deadPolls[p] = 0
      <4>1. deadPolls'[p] = 1
        BY <2>1, <3>3
      <4> QED
        BY <2>1, <3>0, <3>3, <4>1 DEF Fading
    <3>4. CASE p \in Read \ Alive /\ p \notin gone /\ deadPolls[p] >= 1
      <4>1. raw[p] = count[p] /\ deadPolls'[p] = deadPolls[p] + 1
        BY <2>1, <2>3, <3>4 DEF Fading
      <4>2. prev'[p] = count'[p]
        BY <2>1, <2>7, <3>4, <4>1
      <4>3. stale'[p] = StaleCount(p) /\ StaleCount(p) < StaleWindows
        BY <2>1, <2>4, <2>6, <3>4, BookTypes
      <4>4. stale'[p] + 2 >= deadPolls'[p]
        <5>1. CASE deadPolls[p] = 1
          BY <2>6, <4>1, <4>3, <5>1
        <5>2. CASE deadPolls[p] >= 2
          <6>1. prev[p] = count[p] /\ stale[p] + 2 >= deadPolls[p]
            BY <2>3, <3>4, <5>2 DEF Fading, Copied
          <6>2. StaleCount(p) = stale[p] + 1
            BY <2>5, <3>4, <4>1, <6>1, BookTypes DEF StaleCount, Stale
          <6> QED
            BY <4>1, <4>3, <6>1, <6>2, BookTypes
        <5> QED
          BY <3>4, <5>1, <5>2, BookTypes
      <4>5. deadPolls'[p] < StaleWindows + 2
        BY <2>6, <4>1, <4>3, <4>4, BookTypes
      <4>6. p \notin Alive' /\ Read' = {}
        BY <2>1, <3>0, <3>4
      <4> QED
        BY <4>2, <4>4, <4>5, <4>6 DEF Fading
    <3> QED
      BY <3>1, <3>2, <3>3, <3>4, BookTypes
  <2> QED
    BY <2>1, <2>8, <2>9, <2>10 DEF Book
<1>2. Read' = {}
  BY DEF PollSettle, Read
<1> QED
  BY <1>1, <1>2 DEF Books

LEMMA BooksStep == Typed /\ Verdicts /\ Books /\ [Next]_vars => Books'
<1> SUFFICES ASSUME Typed, Verdicts, Books, [Next]_vars PROVE Books'
  OBVIOUS
<1>1. CASE \/ AttachEnter \/ Seed \/ AttachExit \/ Tick \/ UNCHANGED vars
           \/ \E t \in Tid : Enter(t)
  <2>1. UNCHANGED <<bookVars, owner, pc>>
    BY <1>1 DEF AttachEnter, Seed, AttachExit, Tick, Enter, vars, threads, maps, stats, calls,
                poller, bookVars
  <2> QED
    BY <2>1, BooksKept DEF Alive
<1>2. ASSUME NEW t \in Tid, Die(t) PROVE Books'
  <2>1. UNCHANGED <<bookVars, pc>>
    BY <1>2 DEF Die, stats, poller, bookVars
  <2>2. Alive' \subseteq Alive
    BY <1>2 DEF Die, Alive, Typed, ThreadsOK
  <2> QED
    BY <2>1, <2>2, BooksKept
<1>3. CASE PollRefresh \/ PollSync
  <2>1. /\ UNCHANGED <<bookVars, owner>>
        /\ pc # "settle" /\ pc' # "settle"
    BY <1>3 DEF PollRefresh, PollSync, threads, maps, stats, calls, outcome, bookVars
  <2> QED
    BY <2>1, BooksKept DEF Alive
<1> QED
  BY <1>1, <1>2, <1>3, BooksReturn, BooksClone, BooksPollRead, BooksPollSettle DEF Next

LEMMA PathInvariant == Spec => []PathInv
<1>1. Init => PathInv
  BY TypedInit, VerdictsInit, BooksInit DEF PathInv
<1>2. PathInv /\ [Next]_vars => PathInv'
  BY TypedStep, VerdictsStep, BooksStep DEF PathInv
<1> QED
  BY <1>1, <1>2, PTL DEF Spec

(***************************************************************************)
(* Every settled call is reported once, with the time it took, or still     *)
(* waits in the map: Poll's steps may have any number of exits between  *)
(* them.                                                                    *)
(***************************************************************************)
THEOREM CallsAreConserved == Spec => []CallsConserved
<1>1. PathInv => CallsConserved
  BY DEF PathInv, Books, Book, Balanced, CallsConserved
<1> QED
  BY <1>1, PathInvariant, PTL

(***************************************************************************)
(* A process that is gone has its slot of syscall_stats for at most         *)
(* staleWindowsBeforeDelete polls and two, whichever path deletes it.       *)
(***************************************************************************)
THEOREM SlotsAreFreed == Spec => []SlotsFreed
<1>1. PathInv => SlotsFreed
  <2> SUFFICES ASSUME PathInv, NEW p \in Proc, deadPolls[p] >= StaleWindows + 2, p \in entries
               PROVE  FALSE
    BY DEF SlotsFreed
  <2>1. Typed /\ Fading(p)
    BY DEF PathInv, Books, Book
  <2> QED
    BY <2>1, BookTypes DEF Fading
<1> QED
  BY <1>1, PathInvariant, PTL
=============================================================================
