# A TLA+ model of ebpf-rca

`ebpf-rca` (`src/ebpf-rca`) watches a Linux host with five groups of BPF programs, turns what they count
into per-window samples, detects sustained anomalies, explains each by a rule, and writes a session or a
report. This directory holds specifications of the parts where order, timing or loss decides whether the
numbers are true, the TLC configurations that check them on small instances, and proofs, checked by TLAPS, of
theorems that hold for every instance.

Contents: [inventory](#1-inventory), [modules](#2-modules), [runs](#3-runs-and-bounds),
[findings](#4-what-the-runs-that-end-in-a-violation-show), [fairness](#5-fairness), [proofs](#6-proofs),
[not modelled](#7-what-is-not-modelled), [plan](#8-plan).

## 1. Inventory

```
kernel events -> BPF handlers -> BPF maps -> collectors (Poll, one per window) -> detectors -> rca -> session
                      ^                           |                                             report
                      +--- target membership -----+
```

A handler runs on the CPU of the event, concurrently with every other CPU and with the collectors, which
read the maps key by key and delete keys in them. The collectors run one after the other in the main
goroutine. Nothing is persisted, so there is no crash recovery; an exit ends everything.

| part | state | operations | talks to | hard about it | must hold |
|---|---|---|---|---|---|
| CPU time: `bpf/cpu.bpf.c`, `collector.go` | `stats`, `oncpu_start`; `prev`, `liveRuns`, `stale` | switch, seed, `Poll` | detectors by samples | `Poll` reads between the writes of a handler; a run is reported before it is complete | time is reported once; debt balances; slots come back |
| run-queue wait: same files | `enqueue_ts`, `stats` | wakeup, wakeup of a new task, switch | as above | wakeups of tasks that are not asleep, thread-id reuse | a wait is charged once, from its start to its dispatch |
| block I/O: `bpf/block.bpf.c`, `io.go` | `start`, `dev_stats`, `startup_boundary_ns`; `prev` | attach, issue, complete, `Poll` | as above | requests under way at attach; stamps and locks in different orders | the gauge, the area and the misses agree with the requests |
| system calls: `bpf/syscall.bpf.c`, `syscall.go` | `start` (LRU), `startup_tids`, `syscall_stats`, `prev`, `stale` | attach, enter, exit, `Poll` | membership, detectors | calls under way at attach; lost timestamps; ids reused | calls are reported once; losses are seen, and only losses |
| locks: `bpf/lock.bpf.c`, `lock.go` | `offcpu_start`, `futex_active`, `lock_stats`, `prev` | futex enter and exit, switch, wakeup, `Poll` | membership, detectors | a thread's interval outlives its membership; the thread dies inside | a wait is charged to its lock and thread |
| memory: `bpf/mem.bpf.c`, `mem.go` | `direct_start`, `mem_stats`, `oom_stats`; PSI, vmstat, RSS baselines | reclaim begin and end, kswapd, OOM victim, `Poll` | membership, detectors | an OOM victim dies with its entry; attribution is primed only under pressure | every victim is reported, reclaim is attributed once |
| target: `target.go`, `allowed_task`, `in_target`, `allowed_tgid` | `target_pid`, `target_tgids`, `observed_tgids`; active, retired and observed members | refresh, drain, sync; admission in the hooks | lock, memory and system-call paths | process ids are reused at any time; user space learns late | only the target's processes, and all of them |
| detectors: `internal/detector` | per key a counter, a first window, a flag | `Detect`, once a window | collectors, rca | OOM events in a streak, absent keys | one announcement an episode |
| session: `cmd/ebpf-rca` | tracker (states, errors, health), active collectors | init, warm-up, tick, stop, capture, conclude | everything | failures at any point, signals, partial collection | exit status and output never claim more than was seen |
| rules: `internal/rca`, `schema/validate.go` | none | one report from one signal; validation | detectors, aggregation | one report that is not valid costs the whole session | every report may be written, and blames who the facts blame |
| aggregation: `internal/report`, `rca-report-compact` | incidents, latest incident, count and threads of each key | `Add` | session | random arrival order, two clocks, aggregation of what is aggregated | counts and windows are those of the reports |
| scenario: `runCPU` ... `runSyscall` in `cmd/ebpf-rca` | none of its own | `Poll`, prepare, `Detect`, build, hand on | all of the above | Go maps in any order; evidence, culprit and target tree come from different readings | a fact over its threshold is counted, and nothing else |
| `ksym`, `syscalls`, strict JSON, health readers, test programs | none, or read-only tables | pure functions | | | see [section 7](#7-what-is-not-modelled) |

The hazards, each at its line, with the properties that cover it, are in `PROJECT.json`.

## 2. Modules

Names are the source's wherever TLA+ allows. Every module names its bounds in `CONSTANTS`; a variable marked
*history* exists for the properties and guards nothing.

**CpuAccounting** models `handle_switch` (as far as it concerns CPU time) and `handle_seed_oncpu` with
`CPUCollector.Poll` and `liveRunDelta`. A switch is two actions, `SwitchOut` (stats) and `SwitchIn`
(`oncpu_start`), because `Poll` on another CPU may read between the two writes; two tasks' handlers on two CPUs
touch different keys. An insertion into `oncpu_start` may be refused, by a switch or a seed (`stored`): the run is then
not known, and `map_update_fail` says so. `Poll` is four: `PollStats`, `PollClock`, `PollOncpu`, `PollSettle`, in the order of
`collector.go:245-384`. Reading one map is one action: no property relates readings of two keys. Tasks
are `(tgid, tid)`; `TidOf` lets two of them have the same thread id over time, which is how the maps keyed by thread
id meet reuse. `LiveRunDelta` is a pure operator, split into the ideas it is made of.

**RunqAccounting** has the other half of the same handlers. What the two modules share is in **CpuStats**: the tasks, the clock,
and the keys of `stats` with `get_stat`, since one value of that map holds both accounts. Events of one task are serialised by its run-queue
lock, so a handler is one action here; `SetState` (a task declares that it will sleep) is what makes
the wakeup of a running task possible. `RunqPoll` is the deletions of `Poll` only, with any set of dead keys: `CpuAccounting` says which.

**BlockIO** has the startup handshake (`AttachComplete`, `AttachIssue`, `ReadBoundary`, `Arm`), a request's life
(`Allocate`, `Issue`, `IssueAccount`, `Requeue`, `Complete`, `CompleteAccount`) and `IOCollector.Poll`
(`PollStart`, `PollLookup` for each device, `PollCommit`). Handlers that account are two actions, since the timestamp is
taken before the device's lock. Capacity is `startRoom` and `devRoom`: what other requests and devices leave free.
`todo` are the devices that the iteration has yet to visit: `dev_stats` is never deleted from, so a poll visits every device that was there when it
began, and may or may not visit one that comes meanwhile.

**SyscallPath** has the attachment in its three steps, `Enter` and `Return` of threads, their death and birth, and
`Poll` in four steps: `PollRefresh` makes the list of the members and `PollSync` writes it to `target_tgids` (both under a target only), `PollRead`
copies `syscall_stats`, `PollSettle` takes the differences; the hooks admit processes and settle calls between any two of them. One call number stands for all. The start map gives up any entry when it is full, as LRU
order depends on hash buckets. `deep` are members of the target's tree beyond the 16 levels of the
hooks' walk, known from `/proc` alone.

**LockPath** has the attachment of the five programs in the order of `lock.go:110-124` (`Programs`), `do_futex` bracketed by
`FutexEnter` and `FutexExit`, `Wake`, `Birth`, and the whole of `handle_switch` as one action, `Switch(next, how, room)`: the
thread on the CPU leaves it in one of four ways and another arrives, with the clock of the switch. A call that entered
`do_futex` before the exit program was attached returns without it (`bracketed`). `Poll` is four actions,
`PollRefresh`, `PollSync`, `PollRead`, `PollSettle`, since the hooks admit processes between any two of them. `due` is the key a
sleeping thread itself would name, `owed` what was waited under a key and is not reported yet; both are taken from the
threads and never from the maps, so that `WaitsKept` compares the program with something outside of it.

**MemPath** has the steps of `NewMemCollector` (`Attach`; the markers are set between the begin and the end probe), reclaim
(`Begin`, `End`), `MarkVictim`, death and birth of processes, and `Poll` in `PollRead`, `PollReclaims`, `PollVictims`, one
for each map that is read. A process stands for its threads: they share a counter that is added to atomically. The
process attribution is its priming: `baseline` is the poll that filled `prevRSS` and `prevFault`.

In both, `room` says whether a new key still fits: the maps are hash maps that the whole host shares, so an insertion may
fail at any time, and every time it does a health counter must move.

**TargetTracker** has `refresh` in its four reading and writing steps, both drains, `PutRoot`, `Sync`, and the hooks,
with processes born and dying in between. A process is its birth number, so the /proc seed and the exact
identity of one process are the same value and the conversion between ticks and nanoseconds is left out.

**EpisodeSpec** is the abstract specification of a sustained-threshold detector: it speaks of the history of hot
windows only. **Detectors** has the counters, first windows and flags of the four map detectors (one machine, as their
`Detect` differ only in key and threshold) and of `MemDetector`, and implements `EpisodeSpec`
(`ImplementsEpisodes`, by `announced <- signals`). An OOM event is announced outside of episodes (`oomSignal`) and ends one.

**Session** has `main`, `runX`, `runAll`, `runLoop`, the tracker, deferred `captureHealth`, `failUnhealthy`, `finish`, the
lifecycle part of `ValidateDiagnosticSession` and the verdict of `RenderWithCollectors`, at the grain of one collector's
step. `--interval` counts in half milliseconds, so that one of them is cut to nothing by `Milliseconds`. Around it events are lost,
the ticker fires and a signal comes at any time.

**Reports** has the rules of `internal/rca` (`classifyCPU` ... `classifySyscall`), the report each builder makes, `finalizeReport`, and
`ValidateAnomalyReport`. Thresholds, the calls that wait for events, and what a kernel stack shows are constants.

**Aggregator** has `Add`, with `aggregateKey`, `windowsTouch`, `moreSevere`, `mergeReport` and `setAggregationMetrics`, and compaction as a
fold of `Add` over what it produced. `peak` is the metric merged by maximum and weighed first (`offcpu_ratio`,
`total_ms_per_sec`) in the weighted sum of `severity`, `total` the other (`total_wait_ms`, summed; `calls_per_sec`, maximum).

**LockSamples** is `LockCollector.Poll` behind the differences, which `LockPath` has: keys are grouped by lock in any order
a Go map may give (`Groupings`), a group becomes a sample, `prepareLockSamples` filters and cuts them (`Kept`). The longest
wait and the number of waits, by which the cut orders locks of equal share, are not among the data: such locks may fall on either side. A key
whose number of waits alone has grown joins its group with a time of 0.
**MemPressure** is `MemCollector.Poll` behind the differences, which `MemPath` has: the decision to read /proc, the evidence of pressure
from all processes, the candidates from the target's tree, and the detector's choice among them: by the time in direct reclaim and then the number of times (`MostStalled`).

**Pipeline** composes `Detectors`, `Aggregator`, `LockSamples`, `MemPressure` and `Reports` into `runCPU`, `runIO`, `runMem`, `runLock` and
`runSyscall`, one action a window each. What a window brings (waits under keys, what each process did, samples) is chosen freely from
constants; `Tick` conjoins the detector's `Observe` and the aggregator's `AddAll`. The two clocks of a window are in `NextWindow`: windows whose
start is computed from a monotonic clock may lie `gap` behind the last one. Two histories say what the facts mean, and take nothing from the
program's operators for grouping, sorting, priming, cutting and choosing: `truth`, what is over its threshold, and `guilty`, whom a report may blame.

## 3. Runs and bounds

| run | configuration | what it shows |
|---|---|---|
| `cpu` | 2 tasks on one thread id, one of them the collector's, 1 CPU, map of 1 entry, 5 time units, 4 polls, 2 stale windows | `TypeOK`; `DebtLedger`: reported = counter read + debt; `NoOvercount` unless a poll fell into a half-done switch-out; `KernelExact`: stats and `oncpu_start` together are the time run; `EvictionBound` |
| `runq` | 3 tasks, 2 thread ids, 1 CPU, 2 stats entries, 1 queue entry, 4 time units | `RunqExact`: sum and number of waits, unless a wakeup found its task on a CPU; even then no time is charged twice |
| `io` | 2 requests, 1 device, 1 or 2 request slots, 0 or 1 device slots, 4 time units, 2 polls, and a third where one request and its device fit and the clock has come to 3 (`Bound`), symmetric requests | `InflightConserved`, `NoFalseMiss`, `QueueAreaExact`, `ReportedIsTrue`, `StableQueueShown` |
| `syscall` | 2 threads, 2 processes, LRU map of 1 entry, 1 stats entry, with and without a target, 3 calls or births, 3 polls, symmetric threads | `CallsConserved`, `NoFalseMiss`, `LossShown`, `SlotsFreed` |
| `lock` | `MCInit`: two threads of two processes, either with one thread id, one after the other, 7 switches, 2 polls, or side by side from the start, 4 switches, 1 poll, no failing insertion and attachment before the first switch (`Bound`); one process the collector's or both in the target; 1 lock, 1 stale window | `FutexMarks`, `IntervalsOpen`: what is in the maps is what the threads do; `WaitsKept`, `TargetKept`, `WakerKnown`: what is charged |
| `mem` | 1 process id, 3 lives, 2 reclaims, 4 polls, 1 stale window | `ReclaimsReported`, `VictimsReported`, `GrowthOfWindow` |
| `target` | 3 process ids, 4 births, walk of 2, grace of 2, symmetric children | `OnlyLineage`, `RootStaysDropped`, `HeardKept`, `GraceEnds` |
| `session` | 2 collectors, all flags and outputs, intervals of half a millisecond and of one, no bound on polls | `SessionValid` unless the wall clock was set or the interval is below a millisecond, `CleanExit`, `NoFalseAllClear`, `Terminates`: after a signal, and when the last collector has failed |
| `pipeline` | windows of 2 time units, clocks that differ by 1 at most, sustain 2; CPU and I/O 5 windows, system calls 3, locks 4: 2 threads, 5 keys at 3 locks (a futex on two paths, two kernel stacks that look alike), `--lock-topn` 2; memory 3: 3 processes, 2 of them the target's, 2 things that happen in a window; with and without a target and `--lock-include-blocking` | `StreaksCounted`, `ImplementsEpisodes`: episodes; `HotIsTrue`: a window counts for what the facts put over the threshold; `BlameEarned`: whom the reports name; `ReportsValid`; `ReportsConserved`, `GapsSeparate`, `SurestSpeaks`, `CompactStable`: incidents |

Why these bounds are enough to meet the cases that matter:

- A capacity one below the number of claimants makes every full-map branch happen; `StaleWindows` of 1 or 2
  in place of 3 lets an eviction, and a second life of the key, fit into the polls.
- Two keys under one id give every reuse; a third id in `target` gives a grandchild whose parent dies.
- Time has to pass three times for a wait, a run and another wait to have lengths of their own;
  4 or 5 units allow each to be 1 or 2.
- Five windows contain an episode of two, the gap after it and another. Four windows of locks contain two episodes, of one
  lock after another or at once, whose reports share a key: a merge over the gap of the clocks, a merge that displaces the leader,
  and separate incidents. Three windows of memory contain pressure before, at and after the second reading of /proc.
- `--lock-topn` 2 with three locks makes the cut happen; what `HotIsTrue` checks in `pipeline` is that it takes away nothing that is
  contended there, since the two threads are long at no more than two locks in a window (`FitsTopN`). With 1 it does: that is `lock_topn`.
- In `cpu`, `syscall`, `session` and `pipeline`, the largest runs, TLC finds 1,682,847, 1,161,490, 138,736 and 28,708 distinct states (those of `pipeline` are
  costly ones); a bound one larger takes `syscall` to 4.8 million, without a violation.
- Two collectors are enough for one to fail while another goes on; no property compares two healthy ones.
- One CPU is enough in `cpu` and `runq`: handlers on two CPUs touch different tasks, and the poll, which is
  the other processor, interleaves with all of them. The proofs do not depend on it.

The deadlock check is off where time, polls or processes are bounded (the bound stops the model) and in
`session`, which ends when the process exits.

Every property of a passing run has a mutant in `PROJECT.json`: a plausible bug in a modelled definition
(a dropped guard, a missing reset, a swapped order) under which the same run finds it violated.

## 4. What the runs that end in a violation show

These check a statement of the repository's own comments or documents that the code does not keep.

- `io_overtaken`, `DepthWithinRequests`: `docs/design.md:81-82`. A completion that is stamped before a poll's clock and takes
  the lock after its lookup makes the area smaller than the poll has seen. The next poll takes that for a counter
  reset and reports the lifetime area as one window's: an average depth above the number of requests.
- `target_reuse`, `ReuseNeverRetargets`: `target.go:232-235`. If the root's number is reborn before the next poll, a child of
  the new process is admitted by ancestry with its exact identity and is kept afterwards.
- `lock_topn`, `CutOnlyOutput`: `README.md:60` and the usage text (`main.go:85`) call `--lock-topn` a limit of what a window puts out.
  `prepareLockSamples` cuts before detection (`main.go:750`), so a cut lock's streak starts anew: a lock that is contended in every window is
  never reported when others are hotter in some of them, though no window puts out anything. The instance is that of `pipeline` with `topN` 1, a lock
  threshold of half a thread, and waits of which no tie decides which lock is cut.

Three more deviations are written into the invariants as exemptions, so that these say how far they go:

- `NoOvercount` lets off a task while a poll has fallen into its half-done switch-out. A poll that reads `stats` after
  `cpu.bpf.c:255` and `oncpu_start` before line 262 counts one run twice, against `collector.go:256-259`. The excess is
  carried as debt and repaid if the task runs again; the invariant shows that this window is the only one.
- `RunqExact` lets off a thread id of which a task was woken on its CPU. Such a wakeup leaves a timestamp that
  survives the switch-out, so running and sleeping time becomes run-queue wait, against `docs/design.md:43-44,56`.
- `SessionValid` lets off a run in which the wall clock was set. `makeDiagnosticSession` takes `elapsed_ms` from the monotonic reading of two
  `time.Time`s and formats their wall readings (`runtime_state.go:178-180`); the validation recomputes one from the other
  (`validate.go:130-132`), so the session of such a run is not written, against `docs/design.md:144-145`. `CleanExit` shows that the exit status says so.
  It lets off an interval below a millisecond as well: `main.go:113` accepts any `--interval` above zero, `runtime_state.go:184` cuts it to whole
  milliseconds, and `validate.go:147` refuses a session whose interval is 0. With 500us every collector may stop soundly and still no session is written;
  again the exit status says so.

`SyscallPath` has two exemptions that are limits of what the hooks can know. `NoFalseMiss` lets off two returns: of a child from the `clone` that it
never entered, and of a process that `/proc` placed in the tree during the call, so that its entry was not heard (`deaf`). `LossShown` lets off a thread that was
marked inside its call, by the attachment or because its process was born between `PollRefresh` and `PollSync` and so taken out of `target_tgids` again:
`handle_exit` takes a return without a timestamp for a loss of known members only, so one lost meanwhile is not counted. TLC finds this race if that exemption is left out.

## 5. Fairness

Only `Session` has a liveness property. `WF_vars(Main)`: the Go scheduler runs the main goroutine whenever it can proceed,
and no modelled call blocks for ever (`Poll` and the map operations return). `SF_vars(SelectStop)`: `select` chooses
at random among the ready cases of `runLoop`, so a signal that stays ready is taken in the end although the ticker
is ready too, again and again. The environment (ticker, signal, lost data) has no fairness: `Terminates` is conditional on the signal.

## 6. Proofs

Constants are arbitrary under the `ASSUME`s of the modules (capacities are naturals, maps of constants have their
types, stale windows are at least 1), bounds included: the theorems hold for every value of the bounds, so for any
number of polls and any time. TLC evaluates the assumptions in every run.

**CpuAccounting_proofs.** `TypeCorrect` and `LedgerHolds` (`Spec => []DebtLedger`) come from `LedgerInv`: the type, the ledger, and the
order of the three copies of a counter, `prev <= raw <= run_ns` for the keys a poll has read, with `prev = 0` for
the others. The order is what makes the ledger inductive: only `PollSettle` changes the ledger's terms, and as no reading lies
below the last one, `LiveRunDeltaBalance` applies (counter before + debt before + report = counter after +
debt after, all of them naturals because a repayment is clamped to the debt and to the delta). An
evicted key's terms restart from what was reported. The order also shows that the branch of `liveRunDelta` for a counter
that went back is never taken in this protocol. The other three stand on `World`: a task is in one place, and an entry of `oncpu_start` is
of the task that runs there or is leaving. `KernelIsExact`: but for failures and cuts, `run_ns` is what the task has run before
its present run, whose start the entry has (`ExactInv`). `NeverOvercounted`: what has been reported and what is still to be reported of the run
under way (`Rest`) never exceed the time run (`OvercountInv`, at each step of a poll), since `Rest` grows no faster than the run and
`PollSettle` pays a report out of it; a poll that falls into a half-done switch-out breaks just this. `SlotsFreedInTime`: `FadingInv` follows a
dead task from poll to poll: in the first its counter has been read for the last time, from the second on it is quiet, and `stale` counts.

The same module proves the other account of `cpu.bpf.c`: `RunqHolds` (`RunqSpec => []RunqExact`, for finitely
many tasks on any number of processors). `RunqInv` has four parts besides the type. `RunqPlaces`: a task is on one CPU, in a queue or asleep, live tasks
have different thread ids, and only a task that was preempted on its way to sleep is in a queue and yet may be woken: it has its timestamp by then, which is why the wakeup that
follows must not replace it. `RunqWaits`: unless disturbed (a failed update, a wakeup on a CPU, a deletion), the timestamp of a thread id is that of the wait of its
live holder, and 0 without one, so a reused id starts clean. `RunqCharges`: what is charged is what was waited, for a live task even before it has an entry.
`RunqBudget`, disturbed or not: the charges of a thread id sum up to less than its timestamp, if it has one, and else to less than the clock.
This is the strengthening that makes "never overlap" inductive: a dispatch adds the time since the timestamp, and deletions only lower the sum (`SumAtMost`).
`Recorded` says what `record_enqueue` does, `SwitchIs` what one switch hands from one map operation to the next; there is one lemma per handler.

**Pipeline_proofs**, first of the detectors, for any windows. `StreaksHold` (`Spec => []StreaksCounted`) says what the counters mean in
terms of the history; it is inductive with `TypeOK`. `EpisodesRefined` (`Spec => ImplementsEpisodes`): a map detector fires in a window iff
its counter, a streak's length by the invariant, reaches `SustainTicks` there, which is `Ripe`; the first window it
gives is `Len(hot) - SustainTicks + 1`. The memory detector needs the cases of an OOM event, which makes
its key not hot, and of pressure. Each step of a scenario is one of its detector's (`PipeObserves`), so both hold of `PipelineSpec`
(`StreaksHoldInPipeline`, `EpisodesInPipeline`).

Then of the incidents. `Accounts(i, C)` says what it is for an incident to stand for a set of reports: window, highest confidence, peak, sum, number of
reports and threads, no hole, and the object of one of them. `AccountsGrow` is the case analysis of `mergeReport`: if the next report of the key touches the incident, the merged
one stands for one report more. `AggInv` says of all incidents that each stands for the reports it covers, that the latest of a key is the one the
aggregator has open, with its count and threads, and that the earlier ones lie further back than the sampling error. `Add` keeps it, provided
that a report comes after those of its key or in their window (`Follows`). That the pipeline provides this is `PipeInv`: windows follow one another
(`Ordered`), and each report ends with the window it was issued in and reaches as far back as its kind does (`Dated`), so that in later windows
reports both start and end later. `Add` in a row over a window's reports, in any order, is a fold over a sequence
(`AddAllInv`). From `AggInv` follow `Conserved`, `ApartHold`, `SurestHold` and `StableHold`; the last because a compaction adds incidents that are
apart already, and so merges none.

`ValidHold`: every builder's verdict has a code of the scenario and a confidence in range, and names the object that this code has to name
(`Sound`); the signal spans at least one window, which is not empty (`Built`); an incident takes its object and code from
its reports (`ValidBy`). This rests on what the collectors promise of a sample, which the constants assume: no sample is of the idle task, which `cpu.bpf.c`
leaves out and which never blocks (`WaitsAssumption`, `PollsAssumption`), and a device has a name (`devString`). For locks that a futex's
report has an address and every report a waiting thread is proved, through the grouping of the waits (`GroupsMade`, `SamplesMade`), for
any order in which the map gives them; for memory nothing is assumed.

Last, that all of this is true of the world, not only of the samples. `HotHolds` (`HotIsTrue`) stands on `TruthInv`: what the detectors were shown in a window is what
its facts put over the threshold. For CPU time, I/O and system calls that is the thresholds; for locks it is the whole way from the waits:
`GroupsExact` (a fold over the map, in any order, leaves groups that hold exactly the waits at their lock, with each thread's own time), `SampleSays` (what a sample
says of them), `CutSpares` (by their share of the window the locks waited at for long come before the others, so the cut leaves all of them in if they
fit), `ActiveIsTrue`. Its hypothesis is `FitsTopN`: in no window are more than `--lock-topn` locks waited at for long. It holds in the instance of `pipeline` and
fails in that of `lock_topn`, where TLC shows what happens without it. `NoFalseHeat` needs no hypothesis: nothing is ever hot that should not be, so the cut can only hide a lock. For memory `PressureIsTrue`: the pressure that is seen is that of the facts, whatever was primed.
`BlameHolds` (`BlameEarned`) adds `PrimedInv`: after a window of memory pressure every growth has a baseline. Its hypothesis is `--sustain` of 2 or more (3 by default, `main.go`):
with 1, a report may come from the first window, in which growth is not known yet, and TLC finds one that names the system while a process of the target grew.
Only pressure needs it: `LocksBlamed` has the property of locks for any `--sustain`.
The lock's report names a thread of the longest wait because the groups have each thread's time; the memory report's candidates are scanned for the most
(`MostIs`), among those in scope (`ScopeIs`). Beyond the earlier assumptions these use `LockAssumption` (thresholds and `--lock-topn` as `main.go:126,273`
let them through, and keys as `identityOfLock` makes them) and `FactsAssumption` (finitely many processes; the facts of a process are naturals but growth, which may be negative, and the time of a reclaim comes with its count).

**TargetTracker_proofs.** `TypeCorrect`, and `RootDropped` (`Spec => []RootStaysDropped`). The property is about the end of a poll; the
inductive invariant follows a dead root through the poll: from `ReadRootStart` the snapshot is empty, after `Identify` the fresh map
is, after `Update` no grace or heartbeat of the root's number is left and `Heeds` admits no new one, after `PutRoot` the walk looks for
`NoPid`, which is no process, after `Sync` the map has no entry for the root. Hooks cannot put it back, since each way of admission is gone.
`GraceIsBounded`: grace left and refreshes of silence add up to no more than `Stale` (`GraceInv`). `HeardIsKept`, an action property, needs
that an id drained as heard is not active yet and that a retired id still has the process it was retired with (`HeardInv`).
`OnlyLineageObserved`: children have the lineage of their parents (`Kin`), the root is who it was (`RootKnown`), and every identity kept
anywhere, in BPF or in user space, is dead or of the lineage (`Identities`). The walk over the parents is covered for every depth by induction: the
least depth at which an admitted process is not of the lineage (`Least`, `Inherits`) cannot exist.

**LockPath_proofs.** `LockInv` has four parts. `ThreadsAlive`: one live thread to an id. `MarksBracketed`: the thread behind a mark
is in a call that the exit program will see, which needs the order of attachment. `Intervals`: an interval is that of a live
thread that does not run, and that thread is asleep unless the interval has its waker; so a thread that arrives finds its
interval complete, and a thread that leaves finds none. `TracesKnown`: a live process of the target that is a member, has an
interval or has statistics is known to user space or in `observed_tgids`; a process that the last hook did not see has left none
of these. From these follow `MarksHold`, `IntervalsHold`, `WakersHold` and `TargetHolds`. `WaitsHold` needs the fifth, `BooksInv`: as long as health is
quiet, a thread whose entry was heard has its mark and its membership (`CallsHeard`), a thread off the CPU has the interval that
is due to it and no other (`SleepsBooked`), and no reading lies below the last (`StatsAscend`). Then a switch-in charges what is owed, under
the key that is due, and `WaitsKept` itself is kept.

**SyscallPath_proofs.** `PathInv` has three parts. `Typed`. `Verdicts`: a call that both probes can see (`seen`) has its timestamp, or has lost it to the LRU
map, and is marked only if the marking came after its entry; once the markers are set, a thread inside a call is marked, seen, or was turned
away at its entry (`Judged`). From these `handle_exit` judges every return rightly: `NoFalseMisses` and `LossesShown`. `Books`:
`prev <= raw <= count`, with equal times where the counts are equal, and the balance; as with locks, this makes the difference that `Poll` takes
the rest that was unreported (`CallsAreConserved`). The part for dead processes is that of `CpuAccounting` (`SlotsAreFreed`).

**BlockIO_proofs.** A chain of invariants, each on the one before. `RequestInv` (`MissesAreTrue`): a start is of a request under way and stamped after the
attachment of the issue hook, and a request that the driver has but the map has not was started before the boundary, unless a map was full.
`GaugeInv` (`GaugeIsRight`): a device without an entry has nothing in flight as long as there is room, else the entry would have been made. `AreaInv`
(`AreaIsExact`): area minus last stamp times gauge is the true area minus the stamps of the requests in flight and of those completing, which
no advance of the clock and no event in order changes. `ReportInv` (`DeltasAreTrue`): what was reported is the last reading, and no reading
exceeds the area extended to its time, which only grows. `StableInv` (`FlightIsShown`): the area covers the ages of the requests in
flight, so a reading does too. The lemmas before it say what a sum over a finite set is when an element joins, leaves or changes. That needs induction: the provers cannot use the library's theorems on
induction, which take an operator, but they can use that of `NatLessThanWellFounded` in the form of a least member of a set of naturals, and with that
the least cardinality of a set for which a statement fails (`SubsetInduction`).

The attempt at `DeltasAreTrue` corrected the model: it had let a poll pass over a device it has known for long, under which the next poll but one
reports too much, which two polls cannot show. Go's iteration over a BPF hash map in which nothing is deleted visits every key that it finds there, which `todo` says now.

**MemPath_proofs.** `MemInv`: `ReclaimMarks` (a thread in reclaim has a start, or a startup marker once these are set),
`ReadingsOrdered` (`prev <= raw <= count`, so that no difference is negative and a quiet counter is one that was read whole),
the two balances, `ScopesKept` (the membership stored with a victim is one of those not yet reported) and `BaselineFresh` (a
baseline is that of the last poll). `ReclaimsHold`, `VictimsHold` and `GrowthHolds` follow.

**Session_proofs.** The verdicts are about the end of a run, so the inductive invariant `IInv` says, until main concludes, what
is true of each requested collector (`Sound`): it is not started before its turn (`Begun`), ready, running or polled only without
an error (`Upright`), failed only with one that reaches the exit status or was excused by `--allow-partial` (`Excused`), and
once the unwinding has passed it its health is read, and bad if it was polled over lost data (`Captured`); and `partial` is set exactly when one has
failed. `ConcludeVerdicts` draws `SessionValid` (theorem `SessionsAreValid`, with its two exemptions), `CleanExit` and `NoFalseAllClear` from this in one step, and after the exit nothing moves.
A collector that a step does not touch stays sound by one lemma, `OthersSound`. Only `N >= 1` is assumed.

The lemmas on sums and folds are in `BlockIO_proofs`, `Pipeline_proofs` and `CpuAccounting_proofs`, each for the library operator that its model uses.

What is only model-checked: `Terminates`, which cannot be proved with the installed provers (fairness). Every other property of a passing run is
stated by a theorem; two of the theorems have a hypothesis that the property has not, `FitsTopN` of `HotHolds` and `--sustain` of `BlameHolds`.

## 7. What is not modelled

- In `LockPath`: kernel stacks (one stands for all) and thread names; `LockSamples` has stacks. A process is not reborn there; `TargetTracker` has that.
- In `MemPath` and `MemPressure`: the system's own counters (PSI, vmstat, `kswapd_wake`), which are read once a poll and subtracted; whether they
  show pressure is chosen freely.
- In `Pipeline`: the differences themselves, which the modules of the paths have; a snapshot in which a process of the target has left the
  tree meanwhile (`TargetTracker`); several OOM kills of one id in one window; windows that are not valid (`ObservationWindow.Valid`).
- In `Reports`: wording, the evidence chain and the metrics that nothing is decided by.
- Histograms, percentiles, bytes, stacks, symbols, names, formats: data that no modelled property depends on.
- Errors of single map operations in `Poll`: each ends the collector, which `Session` has as a failed `Poll`.
- Torn reads of one map value: the addends are independent counters; the effect lasts one window. So the time of a reclaim never
  shows in `Pipeline` without its count (`FactsAssumption`); the count without the time does.
- `*_bpfel.go` (generated), `cmd/rca-testload`, `cmd/rca-testcheck`, `scripts/`, `tests/`, `outputs/`: not part of the running program.
- Steps of the wall clock in the windows of `Pipeline`, which move forwards; `Session` has what a step does to the session.

## 8. Plan

Done, in this order: CPU time, run queue, detectors, session, block I/O, target, aggregation, system calls, locks, memory;
theorems on eight of them; rules, validation and the composition from samples to incidents; theorems for all that the runs check of these eight but `Terminates`;
theorems on the incidents and on the validity of what is written, for any run of the pipeline; that the detectors see and the reports blame what is true;
the run-queue account. Next:

1. Compositions: `SyscallPath` and `LockPath` with the membership of `TargetTracker`, in place of `Near` and `admitted`.
2. Abstract specifications: a counter that is read by differences (never loses, never repeats), implemented by `SyscallPath`,
   `LockPath` and `MemPath`, whose conservation invariants have one form.
