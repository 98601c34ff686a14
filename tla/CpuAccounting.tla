--------------------------- MODULE CpuAccounting ---------------------------
(***************************************************************************)
(* CPU time accounting across the kernel/user boundary.                    *)
(*                                                                         *)
(* bpf/cpu.bpf.c credits a run interval to stats[t].run_ns only when the   *)
(* task is switched out; until then the interval exists as oncpu_start.    *)
(* CPUCollector.Poll copies the two maps one after the other while the     *)
(* scheduler keeps running, reports a still-running interval in advance    *)
(* and keeps what it advanced as debt (liveRunCredit.outstandingNS).       *)
(*                                                                         *)
(* A switch is two steps, because nothing stops Poll on another CPU from   *)
(* reading between them: the run is added to stats, then the oncpu_start   *)
(* entry is deleted and the next task's written.  Poll is four steps: read *)
(* stats, read the clock, read oncpu_start, settle.  Each reading step     *)
(* takes all keys at once: no property relates the readings of two keys.   *)
(***************************************************************************)
EXTENDS CpuStats

CONSTANTS
  StaleWindows,  \* staleWindowsBeforeDelete (3 in the program)
  MaxPolls       \* bound: number of polls

ASSUME CpuAssumption ==
  /\ TidOf \in [Task -> Tid]
  /\ Idle \notin Task
  /\ Self \subseteq Task
  /\ StatsCap \in Nat /\ MaxTime \in Nat /\ MaxPolls \in Nat
  /\ StaleWindows \in Nat \ {0}

VARIABLES
  sw,               \* sw[c]: the switch handler in flight on c (at = 0: none)
  run_ns,           \* stats[t].run_ns
  ctxMoved,         \* stats[t].ctx moved since the last reading of stats
  oncpu_start,      \* tid -> [task, start_ns]; start_ns = 0: no entry
  pc, rawKeys, raw, rawCtx, nowNS, running,  \* the poll in progress
  prev, liveRuns, stale, lastPoll, polls,    \* CPUCollector's fields
  ran, since,       \* history: completed CPU time; start of the run (of the idle stretch)
  reported, base,   \* history: CPU time reported in all; up to the last eviction
  straddled,        \* history: tasks read while their switch-out was half done
  witnessed,        \* history: tasks that were off CPU when the probes attached
  cut,              \* history: tasks whose oncpu_start entry a deletion removed
  deadPolls         \* history: polls settled since the task died and left its CPU

kernelVars == <<alive, cpu, sw, entries, run_ns, ctxMoved, oncpu_start, map_update_fail>>
pollVars   == <<pc, rawKeys, raw, rawCtx, nowNS, running, prev, liveRuns, stale,
                lastPoll, polls>>
runHistory == <<ran, since>>
pollHistory == <<reported, base, straddled, cut, deadPolls>>
vars == <<now, kernelVars, pollVars, runHistory, pollHistory, witnessed>>

NoStart  == [task |-> Idle, start_ns |-> 0]
NoSwitch == [at |-> 0, prev |-> Idle]
NoCredit == [startNS |-> 0, reportedAtNS |-> 0, outstandingNS |-> 0]
NoRuns   == [t \in Task |-> 0]

Least(a, b) == IF a <= b THEN a ELSE b
OnCPU == {cpu[c] : c \in CPU}
Leaving == {sw[c].prev : c \in CPU}
HasStart(t) == oncpu_start[TidOf[t]].start_ns > 0

----------------------------------------------------------------------------
(* The kernel side: bpf/cpu.bpf.c.                                         *)

\* What handle_switch adds to run_ns of the outgoing task.
RunOf(t) ==
  IF HasStart(t) /\ now > oncpu_start[TidOf[t]].start_ns
  THEN now - oncpu_start[TidOf[t]].start_ns
  ELSE 0

\* First half of handle_switch, for the outgoing task: its run is settled.  A
\* run, and an idle stretch, takes at least one unit of the clock.  A task exits with its
\* last switch-out: /proc forgets it within that unit.
SwitchOut(c, n, exits) ==
  LET p == cpu[c] IN
  /\ sw[c].at = 0
  /\ n # p
  /\ n # Idle => n \in alive /\ n \notin OnCPU \cup Leaving
  /\ p = Idle => ~exits
  /\ now > since[p]
  /\ sw' = [sw EXCEPT ![c] = [at |-> now, prev |-> p]]
  /\ cpu' = [cpu EXCEPT ![c] = n]
  /\ alive' = IF exits THEN alive \ {p} ELSE alive
  /\ IF p = Idle
     THEN UNCHANGED <<entries, run_ns, ctxMoved, map_update_fail, ran>>
     ELSE /\ entries' = WithStat(entries, p)
          /\ map_update_fail' = (map_update_fail \/ ~StatAvailable(entries, p))
          /\ IF StatAvailable(entries, p)
             THEN /\ run_ns' = [run_ns EXCEPT ![p] = @ + RunOf(p)]
                  /\ ctxMoved' = ctxMoved \cup {p}
             ELSE UNCHANGED <<run_ns, ctxMoved>>
          /\ ran' = [ran EXCEPT ![p] = @ + (now - since[p])]
  /\ since' = [since EXCEPT ![p] = 0, ![n] = now]
  /\ UNCHANGED <<now, oncpu_start, pollVars, pollHistory, witnessed>>

\* oncpu_start after the second half: prev's entry deleted, next's written.
Handover(p, n, at) ==
  [d \in Tid |->
     IF n # Idle /\ d = TidOf[n] THEN [task |-> n, start_ns |-> at]
     ELSE IF p # Idle /\ d = TidOf[p] THEN NoStart
     ELSE oncpu_start[d]]

\* Second half of handle_switch, for the incoming task, stamped with the time
\* the handler took at its start.  oncpu_start may refuse the entry (it is full,
\* or its bucket is busy) and is then left as by a switch to the idle task.
SwitchIn(c, stored) ==
  LET n == cpu[c] IN
  /\ sw[c].at # 0
  /\ n = Idle => stored
  /\ oncpu_start' = Handover(sw[c].prev, IF stored THEN n ELSE Idle, sw[c].at)
  /\ IF n = Idle
     THEN UNCHANGED <<entries, map_update_fail>>
     ELSE /\ entries' = WithStat(entries, n)
          /\ map_update_fail' = (map_update_fail \/ ~StatAvailable(entries, n) \/ ~stored)
  /\ sw' = [sw EXCEPT ![c] = NoSwitch]
  /\ UNCHANGED <<now, alive, cpu, run_ns, ctxMoved, pollVars, runHistory,
                 pollHistory, witnessed>>

\* The heartbeat seeds only an interval that is missing.
SeedGuardDropped(t) == TRUE
SeedNeeded(t) == ~HasStart(t)

\* handle_seed_oncpu: the 10 Hz perf event interrupts the task running on c;
\* a switch in flight has interrupts off.  Its entry, too, may be refused.
Seed(c, stored) ==
  LET t == cpu[c] IN
  /\ t # Idle
  /\ sw[c].at = 0
  /\ SeedNeeded(t)
  /\ entries' = WithStat(entries, t)
  /\ map_update_fail' = (map_update_fail \/ ~StatAvailable(entries, t) \/ ~stored)
  /\ oncpu_start' = IF stored
                    THEN [oncpu_start EXCEPT ![TidOf[t]] = [task |-> t, start_ns |-> now]]
                    ELSE oncpu_start
  /\ UNCHANGED <<now, alive, cpu, sw, run_ns, ctxMoved, pollVars, runHistory,
                 pollHistory, witnessed>>

\* A new task, possibly on the tid of one that is gone.
Spawn(t) ==
  /\ t \notin alive \cup entries
  /\ ran[t] = 0
  /\ \A u \in alive \cup ((OnCPU \cup Leaving) \ {Idle}) : TidOf[u] # TidOf[t]
  /\ alive' = alive \cup {t}
  /\ UNCHANGED <<now, cpu, sw, entries, run_ns, ctxMoved, oncpu_start,
                 map_update_fail, pollVars, runHistory, pollHistory, witnessed>>

Tick ==
  /\ now < MaxTime
  /\ now' = now + 1
  /\ UNCHANGED <<kernelVars, pollVars, runHistory, pollHistory, witnessed>>

----------------------------------------------------------------------------
(* The collector side: internal/collector/collector.go.                    *)

\* Poll copies stats; a poll needs time to have passed since the last one.
PollStats ==
  /\ pc = "idle"
  /\ polls < MaxPolls
  /\ now > lastPoll
  /\ rawKeys' = entries
  /\ raw' = run_ns
  /\ rawCtx' = ctxMoved
  /\ ctxMoved' = {}
  /\ lastPoll' = now
  /\ pc' = "clock"
  /\ UNCHANGED <<now, alive, cpu, sw, entries, run_ns, oncpu_start, map_update_fail,
                 nowNS, running, prev, liveRuns, stale, polls, runHistory,
                 pollHistory, witnessed>>

PollClock ==
  /\ pc = "clock"
  /\ nowNS' = now
  /\ pc' = "oncpu"
  /\ UNCHANGED <<now, kernelVars, rawKeys, raw, rawCtx, running, prev, liveRuns,
                 stale, lastPoll, polls, runHistory, pollHistory, witnessed>>

\* Poll copies oncpu_start; a task whose switch-out is half done is remembered.
PollOncpu ==
  /\ pc = "oncpu"
  /\ running' = oncpu_start
  /\ straddled' = straddled \cup
       {t \in Task : t \in Leaving /\ oncpu_start[TidOf[t]].task = t}
  /\ pc' = "settle"
  /\ UNCHANGED <<now, kernelVars, rawKeys, raw, rawCtx, nowNS, prev, liveRuns,
                 stale, lastPoll, polls, runHistory, reported, base, cut,
                 deadPolls, witnessed>>

CounterDelta(current, previous) ==
  IF current >= previous THEN current - previous ELSE current

\* Debt is repaid out of the kernel's delta, as far as the delta goes.
RepaidUnclamped(outstanding, delta) == delta
Repaid(outstanding, delta) == Least(outstanding, delta)

\* What of a live run has not been advanced yet: all of it, when it is another
\* interval than the one the credit speaks of.
SyntheticAnew(credit, start, total) == total
Synthetic(credit, start, total) ==
  IF credit.startNS = start /\ total >= credit.reportedAtNS
  THEN total - credit.reportedAtNS
  ELSE total

\* Debt after a live run was advanced.
DebtReplaced(debt, synthetic) == synthetic
DebtAfter(debt, synthetic) == debt + synthetic

\* liveRunDelta: what a poll reports for a task and the credit it keeps; start
\* is 0 when oncpu_start showed no entry of the task.
LiveRunDelta(credit, current, previous, start, at) ==
  LET carried   == IF current < previous THEN NoCredit ELSE credit
      delta     == CounterDelta(current, previous)
      repaid    == Repaid(carried.outstandingNS, delta)
      debt      == carried.outstandingNS - repaid
      synthetic == Synthetic(carried, start, at - start)
  IN IF start # 0 /\ at > start
     THEN [report |-> (delta - repaid) + synthetic,
           credit |-> [startNS |-> start, reportedAtNS |-> at - start,
                       outstandingNS |-> DebtAfter(debt, synthetic)]]
     ELSE [report |-> delta - repaid,
           credit |-> [startNS |-> 0, reportedAtNS |-> 0, outstandingNS |-> debt]]

StartSeen(t) == IF running[TidOf[t]].task = t THEN running[TidOf[t]].start_ns ELSE 0

Settled(t) == LiveRunDelta(liveRuns[t], raw[t], prev[t], StartSeen(t), nowNS)

\* No activity in the window.  runqCount moves only at a dispatch, whose
\* switch-out moves ctx, so ctx stands for both.
Inactive(t) == Settled(t).report = 0 /\ t \notin rawCtx

\* shouldDeleteTask: windows in a row without activity or a /proc entry.
StaleNotCounted(t) == IF Inactive(t) /\ t \notin alive THEN 1 ELSE 0
StaleCount(t) == IF Inactive(t) /\ t \notin alive THEN stale[t] + 1 ELSE 0

Evicted == {t \in rawKeys \ Self : StaleCount(t) >= StaleWindows}

\* Deletion is by key from stats but by tid from oncpu_start.
Dropped == Evicted \cup (rawKeys \cap Self)

PollSettle ==
  LET gone == Dropped
      kept == rawKeys \ gone
      tids == {TidOf[t] : t \in gone} IN
  /\ pc = "settle"
  /\ entries' = entries \ gone
  /\ run_ns' = [t \in Task |-> IF t \in gone THEN 0 ELSE run_ns[t]]
  /\ ctxMoved' = ctxMoved \ gone
  /\ oncpu_start' = [d \in Tid |-> IF d \in tids THEN NoStart ELSE oncpu_start[d]]
  /\ prev' = [t \in Task |-> IF t \in kept THEN raw[t] ELSE 0]
  /\ liveRuns' = [t \in Task |->
       IF t \in gone THEN NoCredit
       ELSE IF t \in kept THEN Settled(t).credit
       ELSE liveRuns[t]]
  /\ stale' = [t \in Task |->
       IF t \in rawKeys \cap Self THEN 0
       ELSE IF t \in rawKeys THEN StaleCount(t)
       ELSE stale[t]]
  /\ reported' = [t \in Task |->
       IF t \in kept THEN reported[t] + Settled(t).report ELSE reported[t]]
  /\ base' = [t \in Task |-> IF t \in gone THEN reported[t] ELSE base[t]]
  /\ cut' = cut \cup {u \in Task : TidOf[u] \in tids /\ oncpu_start[TidOf[u]].task = u}
  /\ deadPolls' = [t \in Task |->
       IF t \in rawKeys \ (alive \cup Leaving) THEN deadPolls[t] + 1 ELSE 0]
  /\ polls' = polls + 1
  /\ pc' = "idle"
  /\ rawKeys' = {} /\ raw' = NoRuns /\ rawCtx' = {}
  /\ nowNS' = 0 /\ running' = [d \in Tid |-> NoStart]
  /\ UNCHANGED <<now, alive, cpu, sw, map_update_fail, lastPoll, runHistory,
                 straddled, witnessed>>

----------------------------------------------------------------------------
\* The probes attach at time 1, to any assignment of tasks to processors.
Init ==
  /\ now = 1
  /\ alive \in SUBSET Task
  /\ \A t, u \in alive : TidOf[t] = TidOf[u] => t = u
  /\ cpu \in [CPU -> alive \cup {Idle}]
  /\ \A c, d \in CPU : cpu[c] = cpu[d] /\ cpu[c] # Idle => c = d
  /\ sw = [c \in CPU |-> NoSwitch]
  /\ entries = {} /\ run_ns = NoRuns /\ ctxMoved = {}
  /\ oncpu_start = [d \in Tid |-> NoStart]
  /\ map_update_fail = FALSE
  /\ pc = "idle" /\ rawKeys = {} /\ raw = NoRuns /\ rawCtx = {}
  /\ nowNS = 0 /\ running = [d \in Tid |-> NoStart]
  /\ prev = NoRuns /\ stale = NoRuns /\ lastPoll = 0 /\ polls = 0
  /\ liveRuns = [t \in Task |-> NoCredit]
  /\ ran = NoRuns /\ since = [t \in Task \cup {Idle} |-> IF t \in OnCPU THEN 1 ELSE 0]
  /\ reported = NoRuns /\ base = NoRuns /\ straddled = {} /\ cut = {}
  /\ witnessed = Task \ OnCPU
  /\ deadPolls = NoRuns

Poll == PollStats \/ PollClock \/ PollOncpu \/ PollSettle

Next ==
  \/ Tick
  \/ \E c \in CPU : \/ \E n \in Task \cup {Idle}, exits \in BOOLEAN : SwitchOut(c, n, exits)
                    \/ \E stored \in BOOLEAN : SwitchIn(c, stored) \/ Seed(c, stored)
  \/ \E t \in Task : Spawn(t)
  \/ Poll

Spec == Init /\ [][Next]_vars

----------------------------------------------------------------------------
(* Properties.                                                             *)

TypeOK ==
  /\ now \in Nat
  /\ alive \in SUBSET Task
  /\ cpu \in [CPU -> Task \cup {Idle}]
  /\ sw \in [CPU -> [at : Nat, prev : Task \cup {Idle}]]
  /\ entries \in SUBSET Task
  /\ run_ns \in [Task -> Nat]
  /\ ctxMoved \in SUBSET Task
  /\ oncpu_start \in [Tid -> [task : Task \cup {Idle}, start_ns : Nat]]
  /\ map_update_fail \in BOOLEAN
  /\ pc \in {"idle", "clock", "oncpu", "settle"}
  /\ rawKeys \in SUBSET Task /\ raw \in [Task -> Nat] /\ rawCtx \in SUBSET Task
  /\ nowNS \in Nat
  /\ running \in [Tid -> [task : Task \cup {Idle}, start_ns : Nat]]
  /\ prev \in [Task -> Nat]
  /\ liveRuns \in [Task -> [startNS : Nat, reportedAtNS : Nat, outstandingNS : Nat]]
  /\ stale \in [Task -> Nat] /\ lastPoll \in Nat /\ polls \in Nat
  /\ ran \in [Task -> Nat] /\ since \in [Task \cup {Idle} -> Nat]
  /\ reported \in [Task -> Nat] /\ base \in [Task -> Nat]
  /\ straddled \in SUBSET Task /\ witnessed \in SUBSET Task /\ cut \in SUBSET Task
  /\ deadPolls \in [Task -> Nat]

\* CPU time the task has really had since the probes attached.
TrueRun(t) == ran[t] + (IF t \in OnCPU THEN now - since[t] ELSE 0)

\* Everything reported for a task beyond the counter last read is exactly the
\* debt that liveRunDelta carries: nothing advanced is forgotten or repaid twice.
DebtLedger ==
  \A t \in Task : reported[t] = base[t] + prev[t] + liveRuns[t].outstandingNS

\* A task is never reported more CPU time than it had, unless some poll read
\* its interval between the two halves of the handler that closed it.
NoOvercount == \A t \in Task : t \notin straddled => reported[t] <= TrueRun(t)

\* The maps account for every nanosecond of a task seen from its first dispatch,
\* heartbeat or not, while no update failed and no deletion hit its interval.
KernelExact ==
  (\A c \in CPU : sw[c].at = 0) =>
    \A t \in (entries \cap witnessed) \ (cut \cup Self) :
      map_update_fail \/
      TrueRun(t) = run_ns[t] + (IF oncpu_start[TidOf[t]].task = t
                                THEN now - oncpu_start[TidOf[t]].start_ns ELSE 0)

\* An exited task holds its slot of the stats map for a bounded number of polls:
\* two that may still see its last run, then the stale windows.
EvictionBound ==
  \A t \in Task : deadPolls[t] >= StaleWindows + 2 => t \notin entries
=============================================================================
