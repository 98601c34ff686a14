------------------------------ MODULE Reports ------------------------------
(***************************************************************************)
(* From the sample of a fired detector to a report (internal/rca), and     *)
(* what a report must be to be written (internal/schema).  Wording and the *)
(* evidence chain are left out; cores, ratios and confidences are in       *)
(* percent.  A name stands for the thread or process it belongs to, so the *)
(* comm fields are left out as well.                                       *)
(***************************************************************************)
EXTENDS Integers

CONSTANTS
  threshold,   \* the thresholds of the flags: [cpu, io, mem, lock, syscall]
  waitingCalls, \* system calls with IsWaitingName
  Stack        \* [stack id -> [top, hint]]: four top frames, 0 if not resolved; a lock's name

GrowthSignal == 2  \* MemAnonRSSGrowthSignalKBPerSec, in half signals
FaultSignal == 2   \* MemMajorFaultSignalPerSec, in half signals

Greater(a, b) == IF a >= b THEN a ELSE b
Lesser(a, b) == IF a <= b THEN a ELSE b

\* m[k] = v on a Go map.
Put(m, k, v) == [j \in DOMAIN m \cup {k} |-> IF j = k THEN v ELSE m[j]]

Object(pid, tid, device, address, scope) ==
  [pid |-> pid, tid |-> tid, device |-> device, address |-> address, scope |-> scope]

Metrics(what, stack, peak, total) ==
  [what |-> what, stack |-> stack, peak |-> peak, total |-> total]
NoMetrics == Metrics(0, 0, 0, 0)

Verdict(code, confidence) == [code |-> code, confidence |-> confidence]

\* AnomalyReport; one report stands for itself.
AnomalyReport(verdict, object, w, metrics) ==
  [code |-> verdict.code, confidence |-> verdict.confidence, object |-> object,
   start |-> w.start, end |-> w.end, elapsed |-> w.elapsed,
   what |-> metrics.what, stack |-> metrics.stack,
   peak |-> metrics.peak, total |-> metrics.total, merged |-> 1, tids |-> 1]

----------------------------------------------------------------------------
(* The rules.                                                              *)

\* Waiting for a processor speaks for the scheduler, context switches for nothing.
classifyCPU(s) ==
  Verdict(IF s.runqCount > 0 /\ s.runqWaitUs >= 1000
          THEN "cpu.scheduler_pressure" ELSE "cpu.compute_hotspot",
          IF s.cores >= Greater(threshold.cpu, 95) THEN 93 ELSE 85)

BuildCPUReport(s, w) ==
  AnomalyReport(classifyCPU(s), Object(s.pid, s.tid, "", 0, "process"), w, NoMetrics)

\* The depth averaged over the window counts, not the one at its end.
classifyIO(s) ==
  IF s.averageDepth >= 16 THEN Verdict("io.queue_congestion", 90)
                          ELSE Verdict("io.device_latency", 86)

BuildIOReport(s, w) ==
  AnomalyReport(classifyIO(s), Object(0, 0, s.device, 0, ""), w, NoMetrics)

\* Only an address proves a lock; a stack makes it likely.
classifyLock(s) ==
  IF s.futex THEN Verdict("lock.futex_contention", 95)
  ELSE Verdict("lock.kernel_sync_wait",
               IF Stack[s.stack].hint THEN 88 ELSE IF Stack[s.stack].top = 0 THEN 50 ELSE 62)

BuildLockReport(s, w) ==
  AnomalyReport(classifyLock(s),
    Object(s.pid, s.tid, "", s.address, IF s.targeted THEN "target_tree" ELSE "process"),
    w, Metrics(0, s.stack, s.ratio, s.total))

\* The culprit's evidence in the order of causality.
classifyMem(oom, culprit) ==
  IF oom THEN Verdict("mem.oom_victim", IF culprit.pid # 0 THEN 99 ELSE 95)
  ELSE Verdict("mem.reclaim_pressure",
         IF culprit.stalls > 0 \/ culprit.reclaim > 0 THEN 92
         ELSE IF culprit.growth >= GrowthSignal THEN 86
         ELSE IF culprit.faults >= FaultSignal THEN 80 ELSE 65)

\* Nobody named: the report is about the system.
BuildMemReport(oom, culprit, targeted, w) ==
  AnomalyReport(classifyMem(oom, culprit),
    IF culprit.pid = 0 THEN Object(0, 0, "", 0, "system")
    ELSE Object(culprit.pid, 0, "", 0, IF targeted THEN "target_tree" ELSE "process"),
    w, NoMetrics)

classifySyscall(s) ==
  IF s.call \in waitingCalls THEN Verdict("syscall.high_frequency", 82)
  ELSE IF s.avgLatUs >= 1000 THEN Verdict("syscall.high_latency", 88)
  ELSE Verdict("syscall.high_frequency", 85)

BuildSyscallReport(s, targeted, w) ==
  AnomalyReport(classifySyscall(s),
    Object(s.pid, 0, "", 0, IF targeted THEN "target_tree" ELSE "process"),
    w, Metrics(s.call, 0, s.totalMs, s.calls))

\* The clocks that elapsed and the two ends of the window were read from differ.
finalizeReport(r) ==
  IF r.end > r.start THEN [r EXCEPT !.elapsed = r.end - r.start] ELSE r

----------------------------------------------------------------------------
(* What may be written.                                                    *)

CpuCodes == {"cpu.compute_hotspot", "cpu.scheduler_pressure"}
IoCodes == {"io.queue_congestion", "io.device_latency"}
MemCodes == {"mem.reclaim_pressure", "mem.oom_victim"}
LockCodes == {"lock.futex_contention", "lock.kernel_sync_wait"}
CallCodes == {"syscall.high_frequency", "syscall.high_latency"}

\* related_object names what a report of this code has to name, and no more.
ValidObject(code, o) ==
  /\ o.pid # 0 \/ o.tid # 0 \/ o.device # "" \/ o.address # 0 \/ o.scope # ""
  /\ o.scope \in {"", "process", "target_tree", "system"}
  /\ o.scope = "system" => o.pid = 0 /\ o.tid = 0 /\ o.address = 0
  /\ code \in CpuCodes \cup LockCodes => o.pid # 0 /\ o.tid # 0
  /\ code \in IoCodes => o.device # ""
  /\ code = "lock.futex_contention" => o.address # 0
  /\ code \in CallCodes => o.pid # 0

ValidateAnomalyReport(r) ==
  /\ r.code \in CpuCodes \cup IoCodes \cup MemCodes \cup LockCodes \cup CallCodes
  /\ ValidObject(r.code, r.object)
  /\ r.end > r.start /\ r.elapsed = r.end - r.start
  /\ r.confidence \in 0 .. 100
=============================================================================
