----------------------------- MODULE Aggregator -----------------------------
(***************************************************************************)
(* Folding reports into incidents (internal/report, Aggregator.Add), live  *)
(* during a run and again over a written session (rca-report-compact).     *)
(*                                                                         *)
(* A component: Pipeline makes the reports and gives them to AddAll, in    *)
(* any order, as the samples they are made of come out of Go maps.         *)
(***************************************************************************)
EXTENDS Reports, SequencesExt

CONSTANTS
  Tolerance  \* clockSamplingTolerance: what two clocks may differ by (10 ms)

ASSUME AggregatorAssumption == Tolerance \in Nat

VARIABLES
  agg,    \* the Aggregator: [reports, entries]
  added   \* history: every report handed to Add

aggVars == <<agg, added>>

isLockReport(r) == r.code \in LockCodes
isCallReport(r) == r.code \in CallCodes

----------------------------------------------------------------------------
(* One report joins the incidents.                                         *)

\* New: nothing collected, no entry for any key.
NewAggregator == [reports |-> <<>>, entries |-> <<>>]

\* stackSignature: the top frames, or the id where there are none.
stackSignature(r) == IF Stack[r.stack].top = 0 THEN <<"id", r.stack>>
                     ELSE <<"frames", Stack[r.stack].top>>

\* aggregateKey: kind, root cause and object, as far as the kind distinguishes.
aggregateKey(r) ==
  IF isLockReport(r)
  THEN [code |-> r.code, pid |-> r.object.pid, tid |-> 0, device |-> "",
        at |-> IF r.object.address # 0 THEN <<"address", r.object.address>>
               ELSE stackSignature(r)]
  ELSE [code |-> r.code, pid |-> r.object.pid, tid |-> r.object.tid,
        device |-> r.object.device, at |-> <<"call", r.what>>]

\* windowsTouch as it was before the tolerance.
WindowsOverlap(a, b) == b.start <= a.end /\ a.start <= b.end

\* windowsTouch: overlapping, or adjacent up to the sampling error of the clocks.
WindowsTouch(a, b) == b.start <= a.end + Tolerance /\ a.start <= b.end + Tolerance

\* severity: total_ms_per_sec and, a million times lighter, calls_per_sec.  Of a lock,
\* offcpu_ratio and the waits; their total stands for the longest ones and the number
\* as well.
Severity(r) == 1000000 * r.peak + r.total

\* moreSevere by the metrics alone.
WorseMetrics(a, b) == Severity(a) > Severity(b)

MoreSevere(a, b) ==
  \/ a.confidence > b.confidence
  \/ a.confidence = b.confidence /\ (isLockReport(a) \/ isCallReport(a))
       /\ Severity(a) > Severity(b)

\* maxMetric and sumMetric, for the metrics of the incident's kind.
Peak(r, b) == IF isLockReport(r) \/ isCallReport(r) THEN Greater(r.peak, b.peak) ELSE r.peak

\* sumMetric forgotten: the more severe report's own total.
TotalOfWorst(r, b) == r.total

Total(r, b) == IF isLockReport(r) THEN r.total + b.total
               ELSE IF isCallReport(r) THEN Greater(r.total, b.total) ELSE r.total

\* mergeWindow that leaves elapsed_ms as it was.
OnlyEnds(a, b) == [a EXCEPT !.start = Lesser(@, b.start), !.end = Greater(@, b.end)]

\* mergeWindow.
MergeWindow(a, b) ==
  [a EXCEPT !.start = Lesser(@, b.start), !.end = Greater(@, b.end),
            !.elapsed = Greater(a.end, b.end) - Lesser(a.start, b.start)]

\* mergeReport: the more severe report speaks for both.
MergeReport(old, next) ==
  LET worst == IF MoreSevere(next, old) THEN next ELSE old
      other == IF MoreSevere(next, old) THEN old ELSE next IN
  [MergeWindow(worst, other) EXCEPT !.peak = Peak(worst, other), !.total = Total(worst, other)]

\* setAggregationMetrics that writes every count.
CountedAnew(r, count, affected) == [r EXCEPT !.merged = count, !.tids = Cardinality(affected)]

\* setAggregationMetrics; a count of one leaves what the report says.
WithMetrics(r, count, affected) ==
  [r EXCEPT !.merged = IF count > 1 THEN count ELSE @,
            !.tids   = IF Cardinality(affected) > 1 /\ isLockReport(r)
                       THEN Cardinality(affected) ELSE @]

\* addAffected: the thread, or else the process.
Affected(r) == {IF r.object.tid # 0 THEN r.object.tid ELSE r.object.pid} \ {0}

\* The latest incident of the key takes the report in if their windows touch.
Open(a, r) ==
  /\ aggregateKey(r) \in DOMAIN a.entries
  /\ WindowsTouch(a.reports[a.entries[aggregateKey(r)].index], r)

\* Add.
Added(a, r) ==
  LET k    == aggregateKey(r)
      open == Open(a, r)
      e    == IF open
              THEN [a.entries[k] EXCEPT !.count = @ + 1, !.affected = @ \cup Affected(r)]
              ELSE [index |-> Len(a.reports) + 1, count |-> 1, affected |-> Affected(r)]
      new  == WithMetrics(IF open THEN MergeReport(a.reports[e.index], r) ELSE r,
                          e.count, e.affected) IN
  [reports |-> IF open THEN [a.reports EXCEPT ![e.index] = new] ELSE Append(a.reports, new),
   entries |-> Put(a.entries, k, e)]

\* rca-report-compact, given the reports of a session.
Compacted(reports) == FoldLeft(Added, NewAggregator, reports).reports

----------------------------------------------------------------------------
(* The component's part of a step.                                         *)

\* The handler gets the reports of one window, in the order rs.
AddAll(rs) ==
  /\ agg' = FoldLeft(Added, agg, rs)
  /\ added' = added \cup ToSet(rs)

AggInit == agg = NewAggregator /\ added = {}

----------------------------------------------------------------------------
(* Properties.                                                             *)

Incidents == ToSet(agg.reports)
Covers(i, r) == aggregateKey(i) = aggregateKey(r) /\ i.start <= r.start /\ r.end <= i.end
Members(i) == {r \in added : Covers(i, r)}

\* Every report is in one incident, and the incident's count, window, peak and
\* total are those of its reports, in whatever order and however the more severe
\* ones displaced the others.
ReportsConserved ==
  /\ \A r \in added : Cardinality({n \in DOMAIN agg.reports : Covers(agg.reports[n], r)}) = 1
  /\ \A i \in Incidents :
       LET M == Members(i) IN
       /\ i.merged = Cardinality(M)
       /\ i.start = Min({r.start : r \in M}) /\ i.end = Max({r.end : r \in M})
       /\ isLockReport(i) \/ isCallReport(i) => i.peak = Max({r.peak : r \in M})
       /\ isLockReport(i) => /\ i.total = MapThenSumSet(LAMBDA r : r.total, M)
                             /\ i.tids = Cardinality({r.object.tid : r \in M})

\* Incidents are what design.md:153-156 says: two of one key are separated in time,
\* and within one no stretch is uncovered beyond the clocks' sampling error.
GapsSeparate ==
  /\ \A m, n \in DOMAIN agg.reports :
       m # n /\ aggregateKey(agg.reports[m]) = aggregateKey(agg.reports[n])
         => \/ agg.reports[m].start > agg.reports[n].end + Tolerance
            \/ agg.reports[n].start > agg.reports[m].end + Tolerance
  /\ \A i \in Incidents : \A r \in Members(i) :
       r.start = i.start \/ \E q \in Members(i) :
                              q.start < r.start /\ r.start <= q.end + Tolerance

\* The confidence an incident is shown with is the highest of its reports'.
SurestSpeaks == \A i \in Incidents : i.confidence = Max({r.confidence : r \in Members(i)})

\* Compacting what a run has written changes nothing: no incident is merged again,
\* and each keeps the counts of the reports that went into it.
CompactStable == Compacted(agg.reports) = agg.reports
=============================================================================
