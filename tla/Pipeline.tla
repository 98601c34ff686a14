------------------------------ MODULE Pipeline ------------------------------
(***************************************************************************)
(* One scenario of ebpf-rca from the samples of a window to incidents:     *)
(* what a collector's Poll returns goes through the detector, whose        *)
(* signals become reports, which the aggregator folds (cmd/ebpf-rca,       *)
(* runCPU, runIO, runMem, runLock, runSyscall).                            *)
(*                                                                         *)
(* Composes Detectors and Aggregator, conjoining their actions, with the   *)
(* operators of LockSamples, MemPressure and Reports in between.  The      *)
(* facts of a window are chosen freely among those the constants allow;    *)
(* truth and guilty record what they mean, told without grouping, sorting, *)
(* priming or cutting.                                                     *)
(***************************************************************************)
EXTENDS Detectors, Aggregator, LockSamples, MemPressure

CONSTANTS
  Windows,    \* bound: [scenario -> number of windows]
  Period,     \* wall-clock length of a window
  CpuPolls,   \* sets of samples that CPUCollector.Poll may return
  IoPolls,    \* ... IOCollector.Poll
  CallPolls,  \* ... SyscallCollector.Poll
  Facts       \* functions from Proc to what the processes did in a window

ASSUME PipelineAssumption == Period \in Nat /\ Period > Tolerance

\* The idle task (thread 0) waits for no lock.
ASSUME WaitsAssumption ==
  \A w \in Waits :
    /\ IsFiniteSet(DOMAIN w)
    /\ \A k \in DOMAIN w : /\ w[k] \in Nat /\ k.pid # 0 /\ k.tid \in Nat \ {0}
                            /\ identityOfLock(k) \in MapKey

VARIABLES
  scenario,                    \* --scenario
  targeted, includeBlocking,   \* --target-pid is given; --lock-include-blocking
  procPrimed,                  \* MemCollector: the last window read /proc
  start, end,                  \* start[n], end[n]: the wall-clock window n
  truth,                       \* history: truth[n]: what is over its threshold in n
  guilty                       \* history: <<lock, pid, tid>> the last window's reports may blame

flags == <<scenario, targeted, includeBlocking>>
times == <<start, end>>
pipelineVars == <<vars, aggVars, flags, procPrimed, times, truth, guilty>>

----------------------------------------------------------------------------
(* A window of any scenario.                                               *)

Runs(name) == scenario = name /\ Len(hot) < Windows[name]

\* The window's start may lie behind the last one's end by the sampling error,
\* where start is computed from a monotonic clock.
NextWindow(gap) ==
  LET from == IF end = <<>> THEN 0 ELSE Last(end) + gap IN
  /\ start' = Append(start, from)
  /\ end' = Append(end, from + Period)

\* Extend: from the first hot window through the last.
Span(signal) == [start |-> start'[signal.first], end |-> end'[signal.last],
                 elapsed |-> end'[signal.last] - start'[signal.first]]

\* Poll and Detect.
Tick(gap, active, pressure, oom) ==
  /\ NextWindow(gap)
  /\ Observe(active, pressure, oom)
  /\ UNCHANGED flags

\* The handler is given the reports of the signals in the order they come.
HandOn(reports) ==
  \E order \in SetToSeqs({finalizeReport(r) : r \in reports}) : AddAll(order)

----------------------------------------------------------------------------
(* CPU, I/O and system calls: a sample is hot by itself.                   *)

CpuKey(s) == <<"cpu", s.pid, 0, 0>>
IoKey(s) == <<"io", s.dev, 0, 0>>
CallKey(s) == <<"syscall", s.pid, s.call, 0>>

\* The idle task (thread 0) makes no samples, a device is never without a name
\* (devString), and a window has finitely many samples.
ASSUME PollsAssumption ==
  /\ \A samples \in CpuPolls \cup IoPolls \cup CallPolls : IsFiniteSet(samples)
  /\ \A s \in UNION CpuPolls : CpuKey(s) \in MapKey /\ s.pid # 0 /\ s.tid # 0
  /\ \A s \in UNION IoPolls : IoKey(s) \in MapKey /\ s.device # ""
  /\ \A s \in UNION CallPolls :
       CallKey(s) \in MapKey /\ s.pid # 0 /\ s.totalMs \in Nat /\ s.calls \in Nat

HotCpu(s) == s.cores >= threshold.cpu
HotIo(s) == s.p99 >= threshold.io

\* Waiting calls are hot by their rate only, others also by the time they take; those of
\* a command that is ignored by default are never hot.
HotCall(s) ==
  /\ ~s.ignored
  /\ s.calls >= threshold.syscall \/ (s.call \notin waitingCalls /\ s.totalMs >= 300)

CpuTick(samples) ==
  /\ Runs("cpu")
  /\ \E active \in {{CpuKey(s) : s \in {t \in samples : HotCpu(t)}}} :
       Tick(0, active, FALSE, FALSE)
  /\ HandOn({BuildCPUReport(CHOOSE s \in samples : CpuKey(s) = g.key, Span(g)) : g \in signals'})
  /\ truth' = Append(truth, hot'[window]) /\ guilty' = {}
  /\ UNCHANGED procPrimed

IoTick(samples) ==
  /\ Runs("io")
  /\ \E active \in {{IoKey(s) : s \in {t \in samples : HotIo(t)}}} :
       Tick(0, active, FALSE, FALSE)
  /\ HandOn({BuildIOReport(CHOOSE s \in samples : IoKey(s) = g.key, Span(g)) : g \in signals'})
  /\ truth' = Append(truth, hot'[window]) /\ guilty' = {}
  /\ UNCHANGED procPrimed

CallTick(gap, samples) ==
  /\ Runs("syscall")
  /\ \E active \in {{CallKey(s) : s \in {t \in samples : HotCall(t)}}} :
       Tick(gap, active, FALSE, FALSE)
  /\ HandOn({BuildSyscallReport(CHOOSE s \in samples : CallKey(s) = g.key, targeted, Span(g)) :
              g \in signals'})
  /\ truth' = Append(truth, hot'[window]) /\ guilty' = {}
  /\ UNCHANGED procPrimed

----------------------------------------------------------------------------
(* Locks.                                                                  *)

\* What the waits mean: the keys at a lock, the threads and the time waited there.
KeysAt(waits, id) ==
  {k \in DOMAIN waits : /\ k.pid = id[2] /\ k.address = id[3]
                        /\ id[3] = 0 => k.stack = id[4]}
ThreadsAt(waits, id) == {k.tid : k \in KeysAt(waits, id)}
TimeOf(waits, keys) == MapThenSumSet(LAMBDA k : waits[k], keys)
TimeBy(waits, id, tid) == TimeOf(waits, {k \in KeysAt(waits, id) : k.tid = tid})
LongestAt(waits, id) ==
  {t \in ThreadsAt(waits, id) :
     \A u \in ThreadsAt(waits, id) : TimeBy(waits, id, u) <= TimeBy(waits, id, t)}

LockIds == {id \in MapKey : id[1] = "lock"}

\* What main lets through, and a lock's key is what identityOfLock makes.
ASSUME LockAssumption ==
  /\ threshold.lock \in Nat /\ topN \in Nat \ {0}
  /\ \A id \in LockIds :
       id = identityOfLock([pid |-> id[2], address |-> id[3], stack |-> id[4]])

\* The locks waited at for long.
LongAt(waits) ==
  {id \in LockIds : /\ KeysAt(waits, id) # {}
                    /\ 100 * TimeOf(waits, KeysAt(waits, id)) >= threshold.lock * Period}

\* The locks waited at for long in a window are no more than --lock-topn.
FitsTopN == \A w \in Waits : Cardinality(LongAt(w)) <= topN

\* A lock is contended: waited at for long, a futex by two threads, a kernel
\* lock with a stack that says so, unless every long wait is asked for.
TrulyContended(waits) ==
  {id \in LongAt(waits) : IF id[3] # 0 THEN Cardinality(ThreadsAt(waits, id)) >= 2
                                       ELSE includeBlocking \/ Stack[id[4]].hint}

LockTick(gap, waits) ==
  /\ Runs("lock")
  /\ \E groups \in Groupings[waits] :
       \E samples \in {Candidates(LockSamplesOf(groups, targeted, Period), includeBlocking)} :
         \E kept \in Kept(samples) :
           /\ \E active \in {{s.id : s \in {t \in kept : Contended(t)}}} :
                Tick(gap, active, FALSE, FALSE)
           /\ HandOn({BuildLockReport(CHOOSE s \in kept : s.id = g.key, Span(g)) : g \in signals'})
  /\ truth' = Append(truth, TrulyContended(waits))
  /\ guilty' = UNION {{<<g.key, g.key[2], t>> : t \in LongestAt(waits, g.key)} : g \in signals'}
  /\ UNCHANGED procPrimed

----------------------------------------------------------------------------
(* Memory.                                                                 *)

\* A host has finitely many processes; only memory may also shrink.  The time of a
\* reclaim comes with its count: of a copy of mem_stats between the two additions only
\* the first half, the count without the time, is among the facts.
ASSUME FactsAssumption ==
  /\ IsFiniteSet(Proc)
  /\ \A f \in Facts : \A p \in Proc :
       /\ f[p] \in [stalls : Nat, reclaim : Nat, growth : Int, faults : Nat, marked : Nat]
       /\ f[p].reclaim > 0 => f[p].stalls > 0

\* Evidence against a process, the stronger the higher.
Strength(f) == IF f.stalls > 0 THEN 3 ELSE IF f.growth >= GrowthSignal THEN 2
               ELSE IF f.faults >= FaultSignal THEN 1 ELSE 0

InScope == IF targeted THEN Tree ELSE Proc

\* The processes in scope with the strongest evidence; nobody (0) without any.
Suspects(facts) ==
  LET best == {p \in InScope : /\ Strength(facts[p]) > 0
                               /\ \A q \in InScope : Strength(facts[q]) <= Strength(facts[p])}
  IN IF best = {} THEN {0} ELSE best

SuspectVictims(facts) ==
  IF Victims(facts) \cap InScope = {} THEN {0} ELSE Victims(facts) \cap InScope

TrulyPressed(gauge, facts) ==
  IF Victims(facts) = {} /\ SystemPressure(gauge, facts) /\ \E p \in Proc : Contributes(facts[p])
  THEN {Mem} ELSE {}

Culprit(snap) == IF snap.oom THEN pickOOMVictim(snap.victims) ELSE pickCulprit(snap.procs)

MemTick(gap, gauge, facts) ==
  /\ Runs("mem")
  /\ procPrimed' = NeedProcAttribution(gauge, facts)
  /\ \E snap \in {MemSnapshot(gauge, facts, procPrimed', procPrimed, targeted)} :
       /\ \E pressure \in {hasOrdinaryMemPressure(snap)} : Tick(gap, {}, pressure, snap.oom)
       /\ HandOn({BuildMemReport(snap.oom, Culprit(snap), targeted, Span(g)) :
                   g \in signals' \cup (IF snap.oom THEN {Incident(Mem, window, window)} ELSE {})})
  /\ truth' = Append(truth, TrulyPressed(gauge, facts))
  /\ guilty' = {<<"mem", p, 0>> : p \in IF Victims(facts) # {} THEN SuspectVictims(facts)
                                        ELSE IF signals' # {} THEN Suspects(facts) ELSE {}}

----------------------------------------------------------------------------
\* The warm-up Poll, which no detector sees, may have read /proc.
PipelineInit ==
  /\ Init /\ AggInit
  /\ scenario \in DOMAIN Windows
  /\ targeted \in BOOLEAN /\ includeBlocking \in BOOLEAN /\ procPrimed \in BOOLEAN
  /\ scenario # "lock" => ~includeBlocking
  /\ scenario # "mem" => ~procPrimed
  /\ start = <<>> /\ end = <<>> /\ truth = <<>> /\ guilty = {}

PipelineNext ==
  \/ \E samples \in CpuPolls : CpuTick(samples)
  \/ \E samples \in IoPolls : IoTick(samples)
  \/ \E gap \in 0 .. Tolerance :
       \/ \E samples \in CallPolls : CallTick(gap, samples)
       \/ \E waits \in Waits : LockTick(gap, waits)
       \/ \E gauge \in BOOLEAN, facts \in Facts : MemTick(gap, gauge, facts)

PipelineSpec == PipelineInit /\ [][PipelineNext]_pipelineVars

----------------------------------------------------------------------------
(* Properties.                                                             *)

\* A detector counts a window for what the window's facts put over the threshold,
\* in whatever order they were gathered and whatever was cut: no lock by one
\* thread's waits on two paths, no process's waits at another's.  Memory growth
\* shows from the second window of pressure on.
HotIsTrue ==
  \A n \in DOMAIN hot :
    /\ hot[n] \ {Mem} = truth[n] \ {Mem}
    /\ Mem \in hot[n] => Mem \in truth[n]
    /\ n > 1 /\ Mem \in truth[n - 1] \cap truth[n] => Mem \in hot[n]

Place(r) == IF isLockReport(r)
            THEN identityOfLock([pid |-> r.object.pid, address |-> r.object.address,
                                 stack |-> r.stack])
            ELSE "mem"

\* A lock report names a thread that waited longest at that lock, a memory report
\* a process of the target's tree with the strongest evidence (design.md:105:
\* culprits come from the target's tree only), and the system only if none has any.
BlameEarned ==
  \A r \in added :
    r.end = Last(end) /\ r.code \in LockCodes \cup MemCodes
      => <<Place(r), r.object.pid, r.object.tid>> \in guilty

CodesOf(name) ==
  CASE name = "cpu" -> CpuCodes [] name = "io" -> IoCodes [] name = "mem" -> MemCodes
    [] name = "lock" -> LockCodes [] name = "syscall" -> CallCodes

\* Every report and every incident folded from them may be written: one that may
\* not takes the whole session with it.
ReportsValid ==
  \A r \in added \cup Incidents : ValidateAnomalyReport(r) /\ r.code \in CodesOf(scenario)

\* README.md:60 and the usage text: --lock-topn limits what a window puts out.  A
\* window that puts out less leaves no lock unreported that was contended for long
\* enough.
CutOnlyOutput ==
  LET n == Len(truth)
      out == {r \in added : r.end = Last(end)} IN
  n >= SustainTicks /\ Cardinality(out) < topN =>
    \A id \in LockIds :
      (\A i \in (n - SustainTicks + 1) .. n : id \in truth[i])
        => \E r \in added : Place(r) = id
=============================================================================
