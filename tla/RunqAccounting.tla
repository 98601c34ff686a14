--------------------------- MODULE RunqAccounting ---------------------------
(***************************************************************************)
(* Run-queue wait accounting: enqueue_ts and stats[t].runq_ns/runq_count   *)
(* of bpf/cpu.bpf.c, over the scheduler whose tracepoints feed them.       *)
(*                                                                         *)
(* The scheduler serialises the events of one task (they run under its     *)
(* run-queue lock), so a handler is one step here.  What it does not give  *)
(* is a one-to-one match of wakeups and waits: a wakeup is reported        *)
(* whenever the task's state is not TASK_RUNNING, which includes a task    *)
(* that is still on a CPU or was preempted on its way to sleep.            *)
(***************************************************************************)
EXTENDS CpuStats, FiniteSetsExt

CONSTANT
  QueueCap   \* max_entries of enqueue_ts (16384 in the program)

ASSUME RunqAssumption ==
  /\ IsFiniteSet(Task) /\ TidOf \in [Task -> Tid]
  /\ Idle \notin Task
  /\ Self \subseteq Task
  /\ StatsCap \in Nat /\ QueueCap \in Nat /\ MaxTime \in Nat

VARIABLES
  queued,           \* tasks that wait on a run queue
  blocking,         \* tasks whose state is not TASK_RUNNING
  switched,         \* switched[c]: when c last switched tasks
  runq_ns,          \* stats[t].runq_ns
  runq_count,       \* stats[t].runq_count
  enqueue_ts,       \* tid -> timestamp; 0: no entry
  queuedAt,         \* history: when a waiting task was queued; 0: before attach
  waited,           \* history: time spent waiting, over the dispatches counted
  dispatches,       \* history: dispatches of waits that began after attach
  raced,            \* history: tids woken while their task was on a CPU
  cutTids           \* history: tids whose entry a deletion of a poll removed

sched   == <<alive, cpu, queued, blocking, switched>>
maps    == <<entries, runq_ns, runq_count, enqueue_ts, map_update_fail>>
history == <<queuedAt, waited, dispatches, raced, cutTids>>
runqVars == <<now, sched, maps, history>>

Dispatched == {cpu[c] : c \in CPU} \ {Idle}
NoCount == [t \in Task |-> 0]

----------------------------------------------------------------------------
(* Operations of the handlers on the maps.                                 *)

HasRoom(q) == Cardinality({d \in Tid : q[d] # 0}) < QueueCap

\* record_enqueue without BPF_NOEXIST and the lookup before it.
OverwriteEnqueue(q, d) == [q EXCEPT ![d] = now]

\* record_enqueue: the earliest timestamp of a tid stays.
RecordEnqueue(q, d) == IF q[d] = 0 /\ HasRoom(q) THEN [q EXCEPT ![d] = now] ELSE q

EnqueueLost(q, d) == q[d] = 0 /\ ~HasRoom(q)

\* enqueue_ts after a task was dispatched.
Dequeued(q, n) == IF n = Idle THEN q ELSE [q EXCEPT ![TidOf[n]] = 0]

----------------------------------------------------------------------------
(* Tracepoints.  The state changes of tasks are the kernel's.              *)

\* A running task declares that it is about to sleep (set_current_state), or
\* takes it back (finish_wait); neither is traced.
SetState(c) ==
  /\ cpu[c] # Idle
  /\ \/ blocking' = blocking \cup {cpu[c]}
     \/ blocking' = blocking \ {cpu[c]}
  /\ UNCHANGED <<now, alive, cpu, queued, switched, maps, history>>

\* handle_wakeup.
Wakeup(t) ==
  /\ t \in alive \cap blocking
  /\ blocking' = blocking \ {t}
  /\ IF t \in Dispatched \cup queued
     THEN UNCHANGED <<queued, queuedAt>>
     ELSE queued' = queued \cup {t} /\ queuedAt' = [queuedAt EXCEPT ![t] = now]
  /\ enqueue_ts' = RecordEnqueue(enqueue_ts, TidOf[t])
  /\ map_update_fail' = (map_update_fail \/ EnqueueLost(enqueue_ts, TidOf[t]))
  /\ raced' = IF t \in Dispatched THEN raced \cup {TidOf[t]} ELSE raced
  /\ UNCHANGED <<now, alive, cpu, switched, entries, runq_ns, runq_count, waited,
                 dispatches, cutTids>>

\* handle_wakeup_new: a new task, possibly on the tid of one that is gone.
WakeupNew(t) ==
  /\ t \notin alive \cup entries
  /\ dispatches[t] = 0
  /\ \A u \in alive : TidOf[u] # TidOf[t]
  /\ alive' = alive \cup {t}
  /\ queued' = queued \cup {t}
  /\ queuedAt' = [queuedAt EXCEPT ![t] = now]
  /\ enqueue_ts' = RecordEnqueue(enqueue_ts, TidOf[t])
  /\ map_update_fail' = (map_update_fail \/ EnqueueLost(enqueue_ts, TidOf[t]))
  /\ UNCHANGED <<now, cpu, blocking, switched, entries, runq_ns, runq_count, waited,
                 dispatches, raced, cutTids>>

\* handle_switch.  The outgoing task goes back to the queue when it is preempted
\* or still runnable; otherwise it sleeps, or exits.  A run, and an idle stretch,
\* takes at least one unit of the clock.
Switch(c, n, preempt, exits) ==
  LET p       == cpu[c]
      stays   == p # Idle /\ ~exits /\ (preempt \/ p \notin blocking)
      lost    == stays /\ EnqueueLost(enqueue_ts, TidOf[p])
      waiting == IF stays THEN RecordEnqueue(enqueue_ts, TidOf[p]) ELSE enqueue_ts
      keys    == IF p = Idle THEN entries ELSE WithStat(entries, p)
      full    == \/ p # Idle /\ ~StatAvailable(entries, p)
                 \/ n # Idle /\ ~StatAvailable(keys, n)
      charged == n # Idle /\ StatAvailable(keys, n) /\ waiting[TidOf[n]] # 0 IN
  /\ n # p
  /\ now > switched[c]
  /\ n # Idle => n \in queued
  /\ exits => p # Idle /\ ~preempt
  /\ cpu' = [cpu EXCEPT ![c] = n]
  /\ switched' = [switched EXCEPT ![c] = now]
  /\ alive' = IF exits THEN alive \ {p} ELSE alive
  /\ blocking' = IF exits THEN blocking \ {p} ELSE blocking
  /\ queued' = (queued \ {n}) \cup (IF stays THEN {p} ELSE {})
  /\ entries' = IF n = Idle THEN keys ELSE WithStat(keys, n)
  /\ runq_ns' = IF charged
                THEN [runq_ns EXCEPT ![n] = @ + (now - waiting[TidOf[n]])] ELSE runq_ns
  /\ runq_count' = IF charged THEN [runq_count EXCEPT ![n] = @ + 1] ELSE runq_count
  /\ enqueue_ts' = Dequeued(waiting, n)
  /\ map_update_fail' = (map_update_fail \/ lost \/ full)
  /\ queuedAt' = [t \in Task |-> IF t = n THEN 0
                                 ELSE IF stays /\ t = p THEN now ELSE queuedAt[t]]
  /\ IF n # Idle /\ queuedAt[n] # 0
     THEN /\ waited' = [waited EXCEPT ![n] = @ + (now - queuedAt[n])]
          /\ dispatches' = [dispatches EXCEPT ![n] = @ + 1]
     ELSE UNCHANGED <<waited, dispatches>>
  /\ UNCHANGED <<now, raced, cutTids>>

----------------------------------------------------------------------------
\* What CPUCollector.Poll does to these maps: it drops its own tasks at once and
\* dead ones some windows later (CpuAccounting counts them), stats by key and
\* enqueue_ts by tid.
RunqPoll(gone) ==
  /\ gone \subseteq entries /\ entries \cap Self \subseteq gone
  /\ gone \cap alive \subseteq Self
  /\ gone # {}
  /\ entries' = entries \ gone
  /\ runq_ns' = [t \in Task |-> IF t \in gone THEN 0 ELSE runq_ns[t]]
  /\ runq_count' = [t \in Task |-> IF t \in gone THEN 0 ELSE runq_count[t]]
  /\ LET tids == {TidOf[t] : t \in gone} IN
     /\ enqueue_ts' = [d \in Tid |-> IF d \in tids THEN 0 ELSE enqueue_ts[d]]
     /\ cutTids' = cutTids \cup {d \in tids : enqueue_ts[d] # 0}
  /\ UNCHANGED <<now, sched, map_update_fail, queuedAt, waited, dispatches, raced>>

RunqTick ==
  /\ now < MaxTime
  /\ now' = now + 1
  /\ UNCHANGED <<sched, maps, history>>

\* The probes attach at time 1 to any state of the scheduler.
RunqInit ==
  /\ now = 1
  /\ alive \in SUBSET Task
  /\ \A t, u \in alive : TidOf[t] = TidOf[u] => t = u
  /\ cpu \in [CPU -> alive \cup {Idle}]
  /\ \A c, d \in CPU : cpu[c] = cpu[d] /\ cpu[c] # Idle => c = d
  /\ queued \in SUBSET (alive \ Dispatched)
  /\ switched = [c \in CPU |-> 0]
  /\ blocking = alive \ (queued \cup Dispatched)
  /\ entries = {} /\ runq_ns = NoCount /\ runq_count = NoCount
  /\ enqueue_ts = [d \in Tid |-> 0]
  /\ map_update_fail = FALSE
  /\ queuedAt = NoCount /\ waited = NoCount /\ dispatches = NoCount
  /\ raced = {} /\ cutTids = {}

RunqNext ==
  \/ RunqTick
  \/ \E t \in Task : Wakeup(t) \/ WakeupNew(t)
  \/ \E c \in CPU : \/ SetState(c)
                    \/ \E n \in Task \cup {Idle}, preempt, exits \in BOOLEAN :
                         Switch(c, n, preempt, exits)
  \/ \E gone \in SUBSET Task : RunqPoll(gone)

RunqSpec == RunqInit /\ [][RunqNext]_runqVars

----------------------------------------------------------------------------
(* Properties.                                                             *)

RunqTypeOK ==
  /\ now \in Nat
  /\ alive \in SUBSET Task /\ queued \in SUBSET Task /\ blocking \in SUBSET Task
  /\ cpu \in [CPU -> Task \cup {Idle}] /\ switched \in [CPU -> Nat]
  /\ entries \in SUBSET Task
  /\ runq_ns \in [Task -> Nat] /\ runq_count \in [Task -> Nat]
  /\ enqueue_ts \in [Tid -> Nat]
  /\ map_update_fail \in BOOLEAN
  /\ queuedAt \in [Task -> Nat] /\ waited \in [Task -> Nat] /\ dispatches \in [Task -> Nat]
  /\ raced \in SUBSET Tid /\ cutTids \in SUBSET Tid

\* runq_ns and runq_count are the waits the task really had and their number,
\* through duplicate wakeups, preemptions on the way to sleep and tid reuse, as
\* long as nobody with its tid was woken while on a CPU; and even then the waits
\* charged to the holders of one tid never overlap.
RunqExact ==
  /\ \A t \in entries \ Self :
       \/ map_update_fail \/ TidOf[t] \in raced \cup cutTids
       \/ runq_ns[t] = waited[t] /\ runq_count[t] = dispatches[t]
  /\ \A d \in Tid :
       MapThenSumSet(LAMBDA t : runq_ns[t], {t \in Task : TidOf[t] = d}) < now
=============================================================================
