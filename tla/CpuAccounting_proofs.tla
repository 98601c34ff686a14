------------------------ MODULE CpuAccounting_proofs ------------------------
(***************************************************************************)
(* For every set of tasks and processors, every capacity and every bound:  *)
(* the type invariant and the debt ledger of CpuAccounting, and, from them *)
(* and from where tasks can be (World), that the kernel counts exactly,    *)
(* that no task is overcounted and that exited tasks give their slots up.  *)
(* The second account of bpf/cpu.bpf.c, the waits of RunqAccounting, is    *)
(* proved exact at the end.                                                *)
(***************************************************************************)
EXTENDS CpuAccounting, RunqAccounting, FiniteSetTheorems, WellFoundedInduction, TLAPS

Credit == [startNS : Nat, reportedAtNS : Nat, outstandingNS : Nat]
Interval == [task : Task \cup {Idle}, start_ns : Nat]

(***************************************************************************)
(* liveRunDelta (collector.go:388): whatever the interval it is shown, the *)
(* amount it reports and the debt it keeps balance the counter's progress. *)
(***************************************************************************)
LEMMA LiveRunDeltaBalance ==
  ASSUME NEW credit \in Credit, NEW current \in Nat, NEW previous \in Nat,
         NEW start \in Nat, NEW at \in Nat,
         previous <= current
  PROVE  LET r == LiveRunDelta(credit, current, previous, start, at) IN
         /\ r.report \in Nat
         /\ r.credit \in Credit
         /\ previous + credit.outstandingNS + r.report = current + r.credit.outstandingNS
<1> DEFINE out   == credit.outstandingNS
           delta == current - previous
           paid  == Repaid(out, delta)
           synth == Synthetic(credit, start, at - start)
<1>1. /\ out \in Nat /\ delta \in Nat
      /\ credit.startNS \in Nat /\ credit.reportedAtNS \in Nat
  BY DEF Credit
<1>2. paid \in Nat /\ paid <= out /\ paid <= delta
  BY <1>1 DEF Repaid, Least
<1>3. at > start => synth \in Nat
  BY <1>1 DEF Synthetic
<1>4. CounterDelta(current, previous) = delta
  BY DEF CounterDelta
<1>5. ~(current < previous)
  OBVIOUS
<1> DEFINE r == LiveRunDelta(credit, current, previous, start, at)
<1>6. CASE start # 0 /\ at > start
  <2>1. r = [report |-> (delta - paid) + synth,
             credit |-> [startNS |-> start, reportedAtNS |-> at - start,
                         outstandingNS |-> (out - paid) + synth]]
    BY <1>4, <1>5, <1>6 DEF LiveRunDelta, DebtAfter
  <2> HIDE DEF r, paid, synth, delta, out
  <2>2. /\ at - start \in Nat /\ synth \in Nat
        /\ (delta - paid) + synth \in Nat
        /\ (out - paid) + synth \in Nat
    BY <1>1, <1>2, <1>3, <1>6
  <2>3. /\ r.report \in Nat
        /\ r.credit \in Credit
    BY <2>1, <2>2 DEF Credit
  <2>4. previous + out + r.report = current + r.credit.outstandingNS
    BY <1>1, <1>2, <2>1, <2>2 DEF delta
  <2>5. QED
    BY <2>3, <2>4 DEF r, out
<1>7. CASE ~(start # 0 /\ at > start)
  <2>1. r = [report |-> delta - paid,
             credit |-> [startNS |-> 0, reportedAtNS |-> 0, outstandingNS |-> out - paid]]
    BY <1>4, <1>5, <1>7 DEF LiveRunDelta
  <2> HIDE DEF r, paid, synth, delta, out
  <2>2. delta - paid \in Nat /\ out - paid \in Nat
    BY <1>1, <1>2
  <2>3. r.report \in Nat /\ r.credit \in Credit
    BY <2>1, <2>2 DEF Credit
  <2>4. previous + out + r.report = current + r.credit.outstandingNS
    BY <1>1, <1>2, <2>1, <2>2 DEF delta
  <2>5. QED
    BY <2>3, <2>4 DEF r, out
<1>8. QED
  BY <1>6, <1>7

(***************************************************************************)
(* The ledger is inductive together with the order of the counter's three  *)
(* copies: what the last poll kept, what this poll read, what the kernel   *)
(* has now.                                                                *)
(***************************************************************************)
LedgerInv ==
  /\ TypeOK
  /\ DebtLedger
  /\ \A t \in Task : prev[t] <= run_ns[t]
  /\ \A t \in Task : t \notin entries => run_ns[t] = 0
  /\ pc # "idle" => \A t \in rawKeys : prev[t] <= raw[t] /\ raw[t] <= run_ns[t]
  /\ pc # "idle" => \A t \in Task \ rawKeys : prev[t] = 0

(* The invariant holds initially. *)
LEMMA LedgerInit == Init => LedgerInv
<1> SUFFICES ASSUME Init PROVE LedgerInv
  OBVIOUS
<1> USE CpuAssumption
<1>1. TypeOK
  BY DEF Init, TypeOK, NoRuns, NoStart, NoSwitch, NoCredit, OnCPU
<1>2. QED
  BY <1>1 DEF Init, LedgerInv, DebtLedger, NoRuns, NoCredit

(* The initial state is well typed. *)
LEMMA TypeInit == Init => TypeOK
BY LedgerInit DEF LedgerInv

(* What a settle computes, for a task whose readings are in order.         *)
LEMMA SettledBalance ==
  ASSUME TypeOK, NEW t \in Task, prev[t] <= raw[t]
  PROVE  /\ Settled(t).report \in Nat
         /\ Settled(t).credit \in Credit
         /\ prev[t] + liveRuns[t].outstandingNS + Settled(t).report
              = raw[t] + Settled(t).credit.outstandingNS
<1>1. /\ liveRuns[t] \in Credit
      /\ raw[t] \in Nat /\ prev[t] \in Nat /\ nowNS \in Nat
      /\ StartSeen(t) \in Nat
  BY CpuAssumption DEF TypeOK, Credit, StartSeen
<1> DEFINE s == LiveRunDelta(liveRuns[t], raw[t], prev[t], StartSeen(t), nowNS)
<1>2. /\ s.report \in Nat
      /\ s.credit \in Credit
      /\ prev[t] + liveRuns[t].outstandingNS + s.report = raw[t] + s.credit.outstandingNS
  BY <1>1, LiveRunDeltaBalance, Z3
<1>3. QED
  BY <1>2 DEF Settled

(* A run that poll sees has not begun in the future. *)
LEMMA RunOfNat == ASSUME TypeOK, NEW t \in Task PROVE RunOf(t) \in Nat
BY CpuAssumption DEF TypeOK, RunOf, HasStart

(* get_stat adds at most the key it was asked for, and has it if it succeeds. *)
LEMMA WithStatSubset ==
  ASSUME NEW keys \in SUBSET Task, NEW t \in Task
  PROVE  /\ WithStat(keys, t) \in SUBSET Task
         /\ keys \subseteq WithStat(keys, t)
         /\ StatAvailable(keys, t) \in BOOLEAN
         /\ StatAvailable(keys, t) => t \in WithStat(keys, t)
BY DEF WithStat, StatAvailable

(* A switch leaves intervals in oncpu_start. *)
LEMMA HandoverType ==
  ASSUME TypeOK, NEW p \in Task \cup {Idle}, NEW n \in Task \cup {Idle}, NEW at \in Nat
  PROVE  Handover(p, n, at) \in [Tid -> Interval]
BY DEF TypeOK, Handover, Interval, NoStart

(* Every step keeps the invariant. *)
LEMMA LedgerStep == LedgerInv /\ [Next]_vars => LedgerInv'
<1> SUFFICES ASSUME LedgerInv, [Next]_vars PROVE LedgerInv'
  OBVIOUS
<1> USE CpuAssumption
<1>t. TypeOK
  BY DEF LedgerInv
<1>1. CASE Tick
  BY <1>1 DEF Tick, LedgerInv, DebtLedger, TypeOK, kernelVars, pollVars,
       runHistory, pollHistory
<1>2. ASSUME NEW c \in CPU, NEW n \in Task \cup {Idle},
         NEW exits \in BOOLEAN, SwitchOut(c, n, exits)
  PROVE  LedgerInv'
  <2> DEFINE p == cpu[c]
  <2>1. p \in Task \cup {Idle} /\ now \in Nat /\ since[p] \in Nat /\ now > since[p]
    BY <1>2, <1>t DEF TypeOK, SwitchOut
  <2>2. p # Idle => RunOf(p) \in Nat
    BY <1>t, <2>1, RunOfNat
  <2>r. \/ UNCHANGED <<run_ns, ctxMoved>>
        \/ /\ p # Idle /\ StatAvailable(entries, p)
           /\ run_ns' = [run_ns EXCEPT ![p] = @ + RunOf(p)]
           /\ ctxMoved' = ctxMoved \cup {p}
    BY <1>2 DEF SwitchOut
  <2>s. p # Idle => ran' = [ran EXCEPT ![p] = @ + (now - since[p])]
    BY <1>2 DEF SwitchOut
  <2> HIDE DEF p
  <2>3. TypeOK'
    <3>1. CASE p = Idle
      BY <1>2, <1>t, <2>1, <3>1 DEF SwitchOut, TypeOK, pollVars, pollHistory, p
    <3>2. CASE p # Idle
      <4>1. p \in Task
        BY <2>1, <3>2
      <4>2. entries' \in SUBSET Task /\ map_update_fail' \in BOOLEAN
        BY <1>2, <1>t, <3>2, <4>1, WithStatSubset DEF SwitchOut, TypeOK, p
      <4>3. ran' \in [Task -> Nat]
        <5>1. ran \in [Task -> Nat] /\ now - since[p] \in Nat
          BY <1>t, <2>1 DEF TypeOK
        <5>2. QED
          BY <2>s, <3>2, <4>1, <5>1
      <4>5. run_ns' \in [Task -> Nat] /\ ctxMoved' \in SUBSET Task
        <5>1. run_ns \in [Task -> Nat] /\ ctxMoved \in SUBSET Task /\ RunOf(p) \in Nat
          BY <1>t, <2>2, <3>2 DEF TypeOK
        <5>2. CASE UNCHANGED <<run_ns, ctxMoved>>
          BY <5>1, <5>2
        <5>3. CASE /\ run_ns' = [run_ns EXCEPT ![p] = @ + RunOf(p)]
                   /\ ctxMoved' = ctxMoved \cup {p}
          BY <4>1, <5>1, <5>3
        <5>4. QED
          BY <2>r, <5>2, <5>3
      <4>4. QED
        BY <1>2, <1>t, <2>1, <4>2, <4>3, <4>5 DEF SwitchOut, TypeOK, pollVars, pollHistory, p
    <3>3. QED
      BY <3>1, <3>2
  <2>4. \A t \in Task : run_ns[t] <= run_ns'[t] /\ run_ns[t] \in Nat /\ run_ns'[t] \in Nat
    <3>1. run_ns \in [Task -> Nat] /\ run_ns' \in [Task -> Nat]
      BY <1>t, <2>3 DEF TypeOK
    <3>2. CASE UNCHANGED <<run_ns, ctxMoved>>
      BY <3>1, <3>2
    <3>3. CASE p # Idle /\ run_ns' = [run_ns EXCEPT ![p] = @ + RunOf(p)]
      BY <2>1, <2>2, <3>1, <3>3
    <3>4. QED
      BY <2>r, <3>2, <3>3
  <2>5. \A t \in Task : t \notin entries' => run_ns'[t] = 0
    <3>1. CASE p = Idle
      BY <1>2, <3>1 DEF SwitchOut, LedgerInv, p
    <3>2. CASE p # Idle
      <4>1. entries \subseteq entries' /\ (StatAvailable(entries, p) => p \in entries')
        BY <1>2, <1>t, <2>1, <3>2, WithStatSubset DEF SwitchOut, TypeOK, p
      <4>2. QED
        BY <1>t, <2>1, <2>r, <3>2, <4>1 DEF LedgerInv, TypeOK
    <3>3. QED
      BY <3>1, <3>2
  <2>6. UNCHANGED <<pc, rawKeys, raw, prev, liveRuns, reported, base>>
    BY <1>2 DEF SwitchOut, pollVars, pollHistory
  <2>7. \A t \in Task : prev[t] \in Nat /\ raw[t] \in Nat
    BY <1>t DEF TypeOK
  <2>8. QED
    BY <1>t, <2>3, <2>4, <2>5, <2>6, <2>7 DEF LedgerInv, DebtLedger, TypeOK
<1>3. ASSUME NEW c \in CPU, NEW stored \in BOOLEAN, SwitchIn(c, stored) PROVE LedgerInv'
  <2> DEFINE n == cpu[c]
  <2>1. /\ n \in Task \cup {Idle} /\ sw[c].prev \in Task \cup {Idle}
        /\ sw[c].at \in Nat /\ NoSwitch \in [at : Nat, prev : Task \cup {Idle}]
    BY <1>t DEF TypeOK, NoSwitch
  <2>2. oncpu_start' \in [Tid -> Interval]
    BY <1>3, <1>t, <2>1, HandoverType DEF SwitchIn
  <2>3. /\ entries' \in SUBSET Task /\ entries \subseteq entries'
        /\ map_update_fail' \in BOOLEAN
    <3>1. CASE n = Idle
      BY <1>3, <1>t, <3>1 DEF SwitchIn, TypeOK
    <3>2. CASE n # Idle
      <4>1. /\ WithStat(entries, n) \in SUBSET Task
            /\ entries \subseteq WithStat(entries, n)
            /\ StatAvailable(entries, n) \in BOOLEAN
        BY <1>t, <2>1, <3>2, WithStatSubset DEF TypeOK
      <4>2. QED
        BY <1>3, <1>t, <3>2, <4>1 DEF SwitchIn, TypeOK
    <3>3. QED
      BY <3>1, <3>2
  <2>4. TypeOK'
    BY <1>3, <1>t, <2>1, <2>2, <2>3
       DEF SwitchIn, TypeOK, Interval, pollVars, pollHistory, runHistory
  <2>5. QED
    BY <1>3, <2>3, <2>4
       DEF SwitchIn, LedgerInv, DebtLedger, pollVars, pollHistory
<1>4. ASSUME NEW c \in CPU, NEW stored \in BOOLEAN, Seed(c, stored) PROVE LedgerInv'
  <2> DEFINE n == cpu[c]
  <2>1. n \in Task
    BY <1>4, <1>t DEF Seed, TypeOK
  <2>2. /\ entries' \in SUBSET Task /\ entries \subseteq entries'
        /\ map_update_fail' \in BOOLEAN
    BY <1>4, <1>t, <2>1, WithStatSubset DEF Seed, TypeOK
  <2>3. TypeOK'
    BY <1>4, <1>t, <2>1, <2>2 DEF Seed, TypeOK, pollVars, pollHistory, runHistory
  <2>4. QED
    BY <1>4, <2>2, <2>3 DEF Seed, LedgerInv, DebtLedger, pollVars, pollHistory
<1>5. ASSUME NEW t \in Task, Spawn(t) PROVE LedgerInv'
  BY <1>5, <1>t DEF Spawn, LedgerInv, DebtLedger, TypeOK, pollVars,
       runHistory, pollHistory
<1>6. CASE PollStats
  BY <1>6, <1>t DEF PollStats, LedgerInv, DebtLedger, TypeOK, runHistory, pollHistory
<1>7. CASE PollClock
  BY <1>7, <1>t DEF PollClock, LedgerInv, DebtLedger, TypeOK, kernelVars, runHistory,
       pollHistory
<1>8. CASE PollOncpu
  BY <1>8, <1>t DEF PollOncpu, LedgerInv, DebtLedger, TypeOK, kernelVars, runHistory
<1>9. CASE PollSettle
  <2> DEFINE gone == Dropped
             kept == rawKeys \ gone
  <2>1. gone \subseteq rawKeys /\ rawKeys \subseteq Task /\ kept \subseteq Task
    BY <1>t DEF Dropped, Evicted, TypeOK
  <2>2. \A t \in rawKeys : prev[t] <= raw[t] /\ raw[t] <= run_ns[t]
    BY <1>9 DEF PollSettle, LedgerInv
  <2>3. \A t \in kept :
          /\ Settled(t).report \in Nat
          /\ Settled(t).credit \in Credit
          /\ prev[t] + liveRuns[t].outstandingNS + Settled(t).report
               = raw[t] + Settled(t).credit.outstandingNS
    BY <1>t, <2>1, <2>2, SettledBalance
  <2> HIDE DEF gone
  <2>4. /\ prev' = [t \in Task |-> IF t \in kept THEN raw[t] ELSE 0]
        /\ run_ns' = [t \in Task |-> IF t \in gone THEN 0 ELSE run_ns[t]]
        /\ reported' = [t \in Task |->
             IF t \in kept THEN reported[t] + Settled(t).report ELSE reported[t]]
        /\ base' = [t \in Task |-> IF t \in gone THEN reported[t] ELSE base[t]]
        /\ liveRuns' = [t \in Task |->
             IF t \in gone THEN NoCredit
             ELSE IF t \in kept THEN Settled(t).credit ELSE liveRuns[t]]
        /\ entries' = entries \ gone /\ pc' = "idle"
    BY <1>9 DEF PollSettle, gone
  <2>5. /\ prev' \in [Task -> Nat] /\ run_ns' \in [Task -> Nat]
        /\ reported' \in [Task -> Nat] /\ base' \in [Task -> Nat]
        /\ liveRuns' \in [Task -> Credit]
    <3>1. /\ raw \in [Task -> Nat] /\ run_ns \in [Task -> Nat] /\ reported \in [Task -> Nat]
          /\ base \in [Task -> Nat] /\ liveRuns \in [Task -> Credit]
          /\ NoCredit \in Credit
      BY <1>t DEF TypeOK, Credit, NoCredit
    <3>2. \A t \in Task : t \in kept => reported[t] + Settled(t).report \in Nat
      BY <2>1, <2>3, <3>1
    <3>3. QED
      BY <2>3, <2>4, <3>1, <3>2
  <2>6. stale' \in [Task -> Nat] /\ deadPolls' \in [Task -> Nat]
    <3>1. \A t \in Task : StaleCount(t) \in Nat
      BY <1>t DEF StaleCount, TypeOK
    <3>2. QED
      BY <1>9, <1>t, <3>1 DEF PollSettle, TypeOK
  <2>7. TypeOK'
    <3>1. /\ oncpu_start' \in [Tid -> Interval] /\ running' \in [Tid -> Interval]
          /\ cut' \in SUBSET Task /\ raw' \in [Task -> Nat]
      BY <1>9, <1>t DEF PollSettle, TypeOK, NoStart, NoRuns, Interval
    <3>2. /\ entries' \in SUBSET Task /\ ctxMoved' \in SUBSET Task
          /\ polls' \in Nat /\ nowNS' \in Nat /\ pc' \in {"idle", "clock", "oncpu", "settle"}
          /\ rawKeys' \in SUBSET Task /\ rawCtx' \in SUBSET Task
      BY <1>9, <1>t DEF PollSettle, TypeOK
    <3>3. UNCHANGED <<now, alive, cpu, sw, map_update_fail, lastPoll, ran, since,
                      straddled, witnessed>>
      BY <1>9 DEF PollSettle, runHistory
    <3>4. QED
      BY <1>t, <2>5, <2>6, <3>1, <3>2, <3>3 DEF TypeOK, Interval, Credit
  <2>8. DebtLedger'
    <3> SUFFICES ASSUME NEW t \in Task
                 PROVE  reported'[t] = base'[t] + prev'[t] + liveRuns'[t].outstandingNS
      BY DEF DebtLedger
    <3>1. reported[t] = base[t] + prev[t] + liveRuns[t].outstandingNS
      BY DEF LedgerInv, DebtLedger
    <3>2. /\ reported[t] \in Nat /\ base[t] \in Nat /\ prev[t] \in Nat /\ raw[t] \in Nat
          /\ liveRuns[t].outstandingNS \in Nat
      BY <1>t DEF TypeOK
    <3>3. CASE t \in gone
      BY <2>4, <3>2, <3>3 DEF NoCredit
    <3>4. CASE t \in kept
      <4>1. /\ reported'[t] = reported[t] + Settled(t).report /\ base'[t] = base[t]
            /\ prev'[t] = raw[t] /\ liveRuns'[t] = Settled(t).credit
        BY <2>4, <3>4
      <4>2. Settled(t).report \in Nat /\ Settled(t).credit.outstandingNS \in Nat
        BY <2>3, <3>4 DEF Credit
      <4>3. prev[t] + liveRuns[t].outstandingNS + Settled(t).report
              = raw[t] + Settled(t).credit.outstandingNS
        BY <2>3, <3>4
      <4> HIDE DEF kept
      <4>4. QED
        BY <3>1, <3>2, <4>1, <4>2, <4>3
    <3>5. CASE t \notin gone \cup kept
      <4>1. prev[t] = 0
        BY <1>9, <3>5 DEF LedgerInv, PollSettle
      <4>2. QED
        BY <2>4, <3>1, <3>5, <4>1
    <3>6. QED
      BY <3>3, <3>4, <3>5
  <2>9. \A t \in Task : prev'[t] <= run_ns'[t] /\ (t \notin entries' => run_ns'[t] = 0)
    <3>1. \A t \in Task : run_ns[t] \in Nat /\ raw[t] \in Nat
      BY <1>t DEF TypeOK
    <3>2. QED
      BY <2>1, <2>2, <2>4, <3>1 DEF LedgerInv
  <2>10. QED
    BY <2>4, <2>7, <2>8, <2>9 DEF LedgerInv
<1>10. CASE UNCHANGED vars
  BY <1>10 DEF vars, kernelVars, pollVars, runHistory, pollHistory, LedgerInv,
       DebtLedger, TypeOK
<1>11. QED
  BY <1>1, <1>2, <1>3, <1>4, <1>5, <1>6, <1>7, <1>8, <1>9, <1>10 DEF Next, Poll

(***************************************************************************)
(* Every variable keeps its type, in every behaviour of the accounting.    *)
(***************************************************************************)
THEOREM TypeCorrect == Spec => []TypeOK
<1>1. LedgerInv => TypeOK
  BY DEF LedgerInv
<1>2. QED
  BY <1>1, LedgerInit, LedgerStep, PTL DEF Spec

(***************************************************************************)
(* liveRunDelta (collector.go:388) never loses or double-counts debt: what *)
(* was reported is what the counter shows plus what was advanced.          *)
(***************************************************************************)
THEOREM LedgerHolds == Spec => []DebtLedger
<1>1. LedgerInv => DebtLedger
  BY DEF LedgerInv
<1>2. QED
  BY <1>1, LedgerInit, LedgerStep, PTL DEF Spec

----------------------------------------------------------------------------
(***************************************************************************)
(* The kernel's world: a task runs on one processor, no two tasks hold the  *)
(* same thread id at once, and an entry of oncpu_start is about a task that *)
(* runs since before it was stamped, or whose switch-out is half done.      *)
(***************************************************************************)
Running(t) == \E c \in CPU : cpu[c] = t /\ sw[c].at = 0
Arriving(t) == \E c \in CPU : cpu[c] = t /\ sw[c].at # 0

OnePlace ==
  /\ \A c, d \in CPU : cpu[c] = cpu[d] /\ cpu[c] # Idle => c = d
  /\ \A c \in CPU : cpu[c] # Idle => cpu[c] \in alive
  /\ \A c \in CPU : sw[c].prev # Idle => sw[c].prev \notin OnCPU
  /\ \A c \in CPU : sw[c].at = 0 => sw[c].prev = Idle
  /\ \A c \in CPU : sw[c].at # 0 /\ cpu[c] # Idle => since[cpu[c]] = sw[c].at
  /\ \A t, u \in alive \cup (Leaving \ {Idle}) : TidOf[t] = TidOf[u] => t = u

Entered(d) ==
  LET t == oncpu_start[d].task IN
  IF oncpu_start[d].start_ns = 0 THEN t = Idle
  ELSE /\ t \in Task /\ TidOf[t] = d /\ oncpu_start[d].start_ns <= now
       /\ t \in Leaving \/ (Running(t) /\ since[t] <= oncpu_start[d].start_ns)

World ==
  /\ OnePlace
  /\ \A d \in Tid : Entered(d)
  /\ now >= 1 /\ \A t \in Task \cup {Idle} : since[t] <= now

(***************************************************************************)
(* What the maps will still credit a task for the time up to now, given the *)
(* credit the collector keeps: all of a run whose entry is yet to be        *)
(* written, the part of a run in oncpu_start that was not advanced.         *)
(***************************************************************************)
Rest(t, credit) ==
  IF Arriving(t) THEN now - since[t]
  ELSE IF Running(t) /\ oncpu_start[TidOf[t]].task = t
       THEN Synthetic(credit, oncpu_start[TidOf[t]].start_ns,
                      now - oncpu_start[TidOf[t]].start_ns)
       ELSE 0

(* An amount that, with all that is still to be credited, is within the CPU  *)
(* time the task has had.                                                    *)
Affordable(t, amount, credit) == amount + Rest(t, credit) <= TrueRun(t)

(* The collector never advanced beyond the clock it had read.                *)
CreditPast(t) ==
  /\ liveRuns[t].startNS + liveRuns[t].reportedAtNS <= now
  /\ pc \in {"oncpu", "settle"} =>
       liveRuns[t].startNS + liveRuns[t].reportedAtNS <= nowNS /\ nowNS <= now

(* Both what has been reported and what the kernel has counted are           *)
(* affordable, and so is what the poll in progress is about to report.       *)
Budget(t) ==
  t \in straddled \/
    /\ Affordable(t, reported[t], liveRuns[t])
    /\ Affordable(t, base[t] + run_ns[t], NoCredit)
    /\ pc = "settle" /\ t \in rawKeys =>
         Affordable(t, reported[t] + Settled(t).report, Settled(t).credit)

OvercountInv == \A t \in Task : CreditPast(t) /\ Budget(t)

(***************************************************************************)
(* The maps of a witnessed task that no failure or deletion touched: its    *)
(* present run is stamped with its start, and all others are counted.       *)
(***************************************************************************)
Exact(t) ==
  t \in cut \cup Self \/ t \notin witnessed \/ map_update_fail \/
    /\ Running(t) => t \in entries /\ oncpu_start[TidOf[t]] = [task |-> t, start_ns |-> since[t]]
    /\ t \in entries \cup alive => run_ns[t] = ran[t]

ExactInv == \A t \in Task : Exact(t)

(***************************************************************************)
(* A task that was gone at the last settle has not run since; from the      *)
(* second such settle on its counters stand still.                          *)
(***************************************************************************)
Fading(t) ==
  /\ pc # "idle" /\ t \in rawKeys => t \in entries
  /\ t \in entries => t \in alive \/ ran[t] > 0
  /\ deadPolls[t] >= 1 =>
       /\ t \notin alive \cup Leaving /\ ran[t] > 0
       /\ pc # "idle" /\ t \in rawKeys => raw[t] = run_ns[t] /\ t \notin ctxMoved
       /\ pc = "settle" => StartSeen(t) = 0
  /\ deadPolls[t] >= 2 /\ t \in entries =>
       /\ prev[t] = run_ns[t] /\ t \notin ctxMoved
       /\ pc # "idle" => t \notin rawCtx
       /\ stale[t] + 2 >= deadPolls[t] /\ deadPolls[t] < StaleWindows + 2

FadingInv == \A t \in Task : Fading(t)

LEMMA WorldInit == Init => World
<1> SUFFICES ASSUME Init PROVE World
  OBVIOUS
<1> USE CpuAssumption
<1>1. Leaving \subseteq {Idle}
  BY DEF Init, Leaving, NoSwitch
<1>2. OnePlace
  BY <1>1 DEF Init, OnePlace, NoSwitch
<1>3. \A d \in Tid : Entered(d)
  BY DEF Init, Entered, NoStart
<1>4. now >= 1 /\ \A t \in Task \cup {Idle} : since[t] <= now
  BY DEF Init
<1> QED
  BY <1>2, <1>3, <1>4 DEF World

(* A switch-out leaves its task's entry behind it, for the second half.      *)
LEMMA WorldSwitchOut ==
  ASSUME TypeOK, World, NEW c \in CPU, NEW n \in Task \cup {Idle}, NEW exits \in BOOLEAN,
         SwitchOut(c, n, exits)
  PROVE  World'
<1> USE CpuAssumption
<1> DEFINE p == cpu[c]
<1>1. /\ sw[c].at = 0 /\ n # p /\ now > since[p] /\ p \in Task \cup {Idle}
      /\ n # Idle => n \in alive /\ n \notin OnCPU \cup Leaving
      /\ sw' = [sw EXCEPT ![c] = [at |-> now, prev |-> p]]
      /\ cpu' = [cpu EXCEPT ![c] = n]
      /\ alive' \in {alive, alive \ {p}}
      /\ since' = [since EXCEPT ![p] = 0, ![n] = now]
      /\ UNCHANGED <<now, oncpu_start>>
  BY DEF SwitchOut, TypeOK
<1>2. /\ cpu \in [CPU -> Task \cup {Idle}] /\ sw \in [CPU -> [at : Nat, prev : Task \cup {Idle}]]
      /\ since \in [Task \cup {Idle} -> Nat] /\ now \in Nat /\ alive \in SUBSET Task
  BY DEF TypeOK
<1>3. /\ cpu'[c] = n /\ sw'[c].at = now /\ sw'[c].prev = p
      /\ \A d \in CPU \ {c} : cpu'[d] = cpu[d] /\ sw'[d] = sw[d]
  BY <1>1, <1>2
<1>4. /\ since'[n] = now /\ since'[p] = 0
      /\ \A t \in Task \cup {Idle} : t # n /\ t # p => since'[t] = since[t]
  BY <1>1, <1>2
<1> HIDE DEF p
<1>5. OnePlace'
  <2>1. \A d, e \in CPU : cpu'[d] = cpu'[e] /\ cpu'[d] # Idle => d = e
    BY <1>1, <1>3 DEF World, OnePlace, OnCPU
  <2>2. \A d \in CPU : cpu'[d] # Idle => cpu'[d] \in alive'
    BY <1>1, <1>3 DEF World, OnePlace, p
  <2>3. \A d \in CPU : sw'[d].prev # Idle => sw'[d].prev \notin OnCPU'
    <3> SUFFICES ASSUME NEW d \in CPU, NEW e \in CPU, sw'[d].prev # Idle, sw'[d].prev = cpu'[e]
                 PROVE  FALSE
      BY DEF OnCPU
    <3>1. CASE d = c
      BY <1>1, <1>3, <3>1 DEF World, OnePlace, p
    <3>2. CASE d # c
      BY <1>1, <1>3, <3>2 DEF World, OnePlace, OnCPU, Leaving
    <3> QED
      BY <3>1, <3>2
  <2>4. \A d \in CPU : sw'[d].at = 0 => sw'[d].prev = Idle
    BY <1>3 DEF World, OnePlace
  <2>5. \A d \in CPU : sw'[d].at # 0 /\ cpu'[d] # Idle => since'[cpu'[d]] = sw'[d].at
    <3> SUFFICES ASSUME NEW d \in CPU, sw'[d].at # 0, cpu'[d] # Idle
                 PROVE  since'[cpu'[d]] = sw'[d].at
      OBVIOUS
    <3>1. CASE d = c
      BY <1>3, <1>4, <3>1
    <3>2. CASE d # c
      <4>1. cpu[d] # n /\ cpu[d] # p /\ cpu[d] \in Task \cup {Idle}
        BY <1>1, <1>2, <1>3, <3>2 DEF World, OnePlace, OnCPU, p
      <4> QED
        BY <1>3, <1>4, <3>2, <4>1 DEF World, OnePlace
    <3> QED
      BY <3>1, <3>2
  <2>6. \A t, u \in alive' \cup (Leaving' \ {Idle}) : TidOf[t] = TidOf[u] => t = u
    <3>1. alive' \cup (Leaving' \ {Idle}) \subseteq alive \cup (Leaving \ {Idle})
      BY <1>1, <1>3 DEF Leaving, World, OnePlace, p
    <3> QED
      BY <3>1 DEF World, OnePlace
  <2> QED
    BY <2>1, <2>2, <2>3, <2>4, <2>5, <2>6 DEF OnePlace
<1>6. ASSUME NEW d \in Tid PROVE Entered(d)'
  <2>1. Entered(d)
    BY DEF World
  <2>2. CASE oncpu_start[d].start_ns = 0
    BY <1>1, <2>1, <2>2 DEF Entered
  <2>3. CASE oncpu_start[d].start_ns # 0
    <3>1. PICK t \in Task : t = oncpu_start[d].task
      BY <2>1, <2>3 DEF Entered
    <3>2. TidOf[t] = d /\ oncpu_start[d].start_ns <= now
      BY <2>1, <2>3, <3>1 DEF Entered
    <3>3. CASE t \in Leaving
      <4>1. t \in Leaving'
        BY <1>1, <1>3, <3>3 DEF Leaving, World, OnePlace
      <4> QED
        BY <1>1, <2>3, <3>1, <3>2, <4>1 DEF Entered
    <3>4. CASE Running(t) /\ since[t] <= oncpu_start[d].start_ns
      <4>1. CASE t = p
        <5>1. t \in Leaving'
          BY <1>3, <4>1 DEF Leaving
        <5> QED
          BY <1>1, <2>3, <3>1, <3>2, <5>1 DEF Entered
      <4>2. CASE t # p
        <5>1. t # n
          BY <1>1, <3>4 DEF Running, OnCPU
        <5>2. Running(t)' /\ since'[t] = since[t]
          BY <1>3, <1>4, <3>4, <4>2, <5>1 DEF Running, p
        <5> QED
          BY <1>1, <2>3, <3>1, <3>2, <3>4, <5>2 DEF Entered
      <4> QED
        BY <4>1, <4>2
    <3> QED
      BY <2>1, <2>3, <3>1, <3>3, <3>4 DEF Entered
  <2> QED
    BY <2>2, <2>3
<1>7. now' >= 1 /\ \A t \in Task \cup {Idle} : since'[t] <= now'
  BY <1>1, <1>2, <1>4 DEF World
<1> QED
  BY <1>5, <1>6, <1>7 DEF World

LEMMA WorldSwitchIn == ASSUME TypeOK, World, NEW c \in CPU, NEW stored \in BOOLEAN, SwitchIn(c, stored) PROVE World'
<1> USE CpuAssumption
<1> DEFINE n == cpu[c]
           m == IF stored THEN n ELSE Idle
           p == sw[c].prev
<1>1. /\ sw[c].at # 0 /\ oncpu_start' = Handover(p, m, sw[c].at)
      /\ sw' = [sw EXCEPT ![c] = NoSwitch]
      /\ UNCHANGED <<now, alive, cpu, since>>
  BY DEF SwitchIn, runHistory
<1>2. /\ cpu \in [CPU -> Task \cup {Idle}] /\ sw \in [CPU -> [at : Nat, prev : Task \cup {Idle}]]
      /\ since \in [Task \cup {Idle} -> Nat] /\ now \in Nat /\ alive \in SUBSET Task
  BY DEF TypeOK
<1>3. /\ sw'[c].at = 0 /\ sw'[c].prev = Idle /\ \A d \in CPU \ {c} : sw'[d] = sw[d]
      /\ OnCPU' = OnCPU /\ Leaving' \ {Idle} \subseteq Leaving
  BY <1>1, <1>2 DEF NoSwitch, OnCPU, Leaving
<1>4. OnePlace'
  BY <1>1, <1>3 DEF World, OnePlace
<1>5. ASSUME NEW d \in Tid PROVE Entered(d)'
  <2>1. Entered(d)
    BY DEF World
  <2>2. CASE m # Idle /\ d = TidOf[m]
    <3>1. m = n /\ \E u \in Task : u = n
      BY <1>2, <2>2
    <3>0. PICK t \in Task : t = n
      BY <3>1
    <3>2. /\ oncpu_start'[d].task = t /\ oncpu_start'[d].start_ns = sw[c].at
          /\ TidOf[t] = d /\ sw[c].at \in Nat
      BY <1>1, <1>2, <2>2, <3>0, <3>1 DEF Handover
    <3>3. since'[t] = sw[c].at /\ sw[c].at <= now'
      BY <1>1, <1>2, <2>2, <3>0, <3>1 DEF World, OnePlace
    <3>4. Running(t)'
      BY <1>1, <1>3, <3>0 DEF Running
    <3> HIDE DEF m, n, p
    <3> QED
      BY <1>1, <3>2, <3>3, <3>4 DEF Entered
  <2>3. CASE ~(m # Idle /\ d = TidOf[m]) /\ p # Idle /\ d = TidOf[p]
    BY <1>1, <2>3 DEF Handover, NoStart, Entered
  <2>4. CASE ~(m # Idle /\ d = TidOf[m]) /\ ~(p # Idle /\ d = TidOf[p])
    <3>1. oncpu_start'[d] = oncpu_start[d]
      BY <1>1, <2>4 DEF Handover
    <3>2. CASE oncpu_start[d].start_ns = 0
      BY <2>1, <3>1, <3>2 DEF Entered
    <3>3. CASE oncpu_start[d].start_ns # 0
      <4>1. PICK t \in Task : t = oncpu_start[d].task
        BY <2>1, <3>3 DEF Entered
      <4>2. TidOf[t] = d /\ oncpu_start[d].start_ns <= now /\ t # p /\ t # Idle
        BY <2>1, <2>4, <3>3, <4>1 DEF Entered
      <4>3. t \in Leaving => t \in Leaving'
        BY <1>3, <4>2 DEF Leaving
      <4>4. Running(t) => Running(t)'
        BY <1>1, <1>3 DEF Running
      <4> QED
        BY <1>1, <2>1, <3>1, <3>3, <4>1, <4>2, <4>3, <4>4 DEF Entered
    <3> QED
      BY <3>2, <3>3
  <2> QED
    BY <2>2, <2>3, <2>4
<1>6. now' >= 1 /\ \A t \in Task \cup {Idle} : since'[t] <= now'
  BY <1>1 DEF World
<1> QED
  BY <1>4, <1>5, <1>6 DEF World

(* The steps that leave processors and switches alone.                       *)
LEMMA WorldOther ==
  ASSUME TypeOK, World,
         \/ Tick \/ (\E c \in CPU, stored \in BOOLEAN : Seed(c, stored)) \/ (\E t \in Task : Spawn(t))
         \/ Poll \/ UNCHANGED vars
  PROVE  World'
<1> USE CpuAssumption
<1>1. UNCHANGED <<cpu, sw, since>>
  BY DEF Tick, Seed, Spawn, Poll, PollStats, PollClock, PollOncpu, PollSettle, vars, kernelVars,
         runHistory
<1>2. /\ OnCPU' = OnCPU /\ Leaving' = Leaving
      /\ \A t \in Task : Running(t)' <=> Running(t)
  BY <1>1 DEF OnCPU, Leaving, Running
<1>3. now' \in {now, now + 1} /\ now \in Nat /\ \A t \in Task \cup {Idle} : since[t] \in Nat
  BY DEF TypeOK, Tick, Seed, Spawn, Poll, PollStats, PollClock, PollOncpu, PollSettle, vars
<1>4. now' >= 1 /\ \A t \in Task \cup {Idle} : since'[t] <= now'
  BY <1>1, <1>3 DEF World
<1>5. OnePlace'
  <2>1. CASE \E t \in Task : Spawn(t)
    <3>1. PICK t \in Task : Spawn(t)
      BY <2>1
    <3>2. alive' = alive \cup {t}
          /\ \A u \in alive \cup ((OnCPU \cup Leaving) \ {Idle}) : TidOf[u] # TidOf[t]
      BY <3>1 DEF Spawn
    <3> QED
      BY <1>1, <1>2, <3>2 DEF World, OnePlace
  <2>2. CASE alive' = alive
    BY <1>1, <1>2, <2>2 DEF World, OnePlace
  <2> QED
    BY <2>1, <2>2 DEF Tick, Seed, Poll, PollStats, PollClock, PollOncpu, PollSettle, vars,
                      kernelVars
<1>6. ASSUME NEW d \in Tid PROVE Entered(d)'
  <2>1. Entered(d) /\ oncpu_start[d].start_ns \in Nat
    BY DEF World, TypeOK
  <2>2. CASE oncpu_start'[d] = oncpu_start[d]
    BY <1>1, <1>2, <1>3, <2>1, <2>2 DEF Entered
  <2>3. CASE oncpu_start'[d] = NoStart
    BY <2>3 DEF Entered, NoStart
  <2>4. CASE \E c \in CPU, stored \in BOOLEAN : Seed(c, stored) /\ d = TidOf[cpu[c]]
    <3>1. PICK c \in CPU, stored \in BOOLEAN : Seed(c, stored) /\ d = TidOf[cpu[c]]
      BY <2>4
    <3>2. PICK t \in Task : t = cpu[c]
      BY <3>1 DEF Seed, TypeOK
    <3>3. CASE stored
      <4>1. /\ oncpu_start'[d].task = t /\ oncpu_start'[d].start_ns = now' /\ TidOf[t] = d
        BY <3>1, <3>2, <3>3 DEF Seed, TypeOK
      <4>2. since'[t] <= now' /\ Running(t)'
        BY <1>1, <1>2, <1>4, <3>1, <3>2 DEF Seed, Running
      <4> QED
        BY <1>3, <1>4, <4>1, <4>2 DEF Entered
    <3>4. CASE ~stored
      BY <2>2, <3>1, <3>4 DEF Seed
    <3> QED
      BY <3>3, <3>4
  <2>5. CASE \E c \in CPU, stored \in BOOLEAN : Seed(c, stored) /\ d # TidOf[cpu[c]]
    BY <2>2, <2>5 DEF Seed, TypeOK
  <2>6. CASE PollSettle
    BY <2>2, <2>3, <2>6 DEF PollSettle
  <2>7. CASE UNCHANGED oncpu_start
    BY <2>2, <2>7
  <2> QED
    BY <2>4, <2>5, <2>6, <2>7
       DEF Tick, Spawn, Poll, PollStats, PollClock, PollOncpu, vars, kernelVars
<1> QED
  BY <1>4, <1>5, <1>6 DEF World

LEMMA WorldStep == TypeOK /\ World /\ [Next]_vars => World'
<1> SUFFICES ASSUME TypeOK, World, [Next]_vars PROVE World'
  OBVIOUS
<1>1. ASSUME NEW c \in CPU, NEW n \in Task \cup {Idle}, NEW exits \in BOOLEAN,
             SwitchOut(c, n, exits)
      PROVE  World'
  BY <1>1, WorldSwitchOut
<1>2. ASSUME NEW c \in CPU, NEW stored \in BOOLEAN, SwitchIn(c, stored) PROVE World'
  BY <1>2, WorldSwitchIn
<1>3. CASE \/ Tick \/ (\E c \in CPU, stored \in BOOLEAN : Seed(c, stored)) \/ (\E t \in Task : Spawn(t))
           \/ Poll \/ UNCHANGED vars
  BY <1>3, WorldOther
<1> QED
  BY <1>1, <1>2, <1>3 DEF Next

----------------------------------------------------------------------------
(* What the maps count is what the tasks run.                                *)

(* A processor's running task is the one its entry of oncpu_start is about.  *)
LEMMA OwnEntry ==
  ASSUME TypeOK, World, NEW t \in Task, Running(t), HasStart(t)
  PROVE  /\ oncpu_start[TidOf[t]].task = t
         /\ since[t] <= oncpu_start[TidOf[t]].start_ns
         /\ oncpu_start[TidOf[t]].start_ns <= now
<1> USE CpuAssumption
<1>1. /\ TidOf[t] \in Tid /\ oncpu_start[TidOf[t]].start_ns # 0
      /\ Entered(TidOf[t])
  BY DEF HasStart, World
<1>2. t \in alive /\ t \notin Leaving
  BY DEF World, OnePlace, Running, OnCPU, Leaving
<1>3. PICK u \in Task : u = oncpu_start[TidOf[t]].task
  BY <1>1 DEF Entered
<1>4. /\ TidOf[u] = TidOf[t] /\ oncpu_start[TidOf[t]].start_ns <= now
      /\ u \in Leaving \/ (Running(u) /\ since[u] <= oncpu_start[TidOf[t]].start_ns)
  BY <1>1, <1>3 DEF Entered
<1>5. u \in alive \cup (Leaving \ {Idle})
  BY <1>4 DEF World, OnePlace, Running
<1>6. u = t
  BY <1>2, <1>4, <1>5 DEF World, OnePlace
<1> QED
  BY <1>2, <1>3, <1>4, <1>6

LEMMA ExactInit == Init => ExactInv
<1> SUFFICES ASSUME Init, NEW t \in Task PROVE Exact(t)
  BY DEF ExactInv
<1>1. t \in witnessed => ~Running(t)
  BY DEF Init, Running, OnCPU
<1> QED
  BY <1>1 DEF Init, Exact, NoRuns

LEMMA ExactSwitchOut ==
  ASSUME TypeOK, World, ExactInv, NEW c \in CPU, NEW n \in Task \cup {Idle},
         NEW exits \in BOOLEAN, SwitchOut(c, n, exits), NEW t \in Task
  PROVE  Exact(t)'
<1> USE CpuAssumption
<1> DEFINE p == cpu[c]
<1>1. /\ sw[c].at = 0 /\ n # p /\ now > since[p] /\ now # 0
      /\ n # Idle => n \in alive /\ n \notin OnCPU
      /\ sw' = [sw EXCEPT ![c] = [at |-> now, prev |-> p]]
      /\ cpu' = [cpu EXCEPT ![c] = n]
      /\ alive' \subseteq alive
      /\ since' = [since EXCEPT ![p] = 0, ![n] = now]
      /\ UNCHANGED <<now, oncpu_start, cut, witnessed>>
  BY DEF SwitchOut, pollHistory, World
<1>2. /\ cpu \in [CPU -> Task \cup {Idle}] /\ sw \in [CPU -> [at : Nat, prev : Task \cup {Idle}]]
      /\ since \in [Task \cup {Idle} -> Nat] /\ now \in Nat /\ alive \in SUBSET Task
      /\ run_ns \in [Task -> Nat] /\ ran \in [Task -> Nat] /\ entries \in SUBSET Task
      /\ map_update_fail \in BOOLEAN
  BY DEF TypeOK
<1>3. Exact(t)
  BY DEF ExactInv
<1>4. CASE t # p
  <2>1. Running(t)' => Running(t) /\ since'[t] = since[t]
    <3>1. Running(t)' => Running(t) /\ t # n
      BY <1>1, <1>2 DEF Running, OnCPU
    <3> QED
      BY <1>1, <1>2, <1>4, <3>1
  <2>2. run_ns'[t] = run_ns[t] /\ ran'[t] = ran[t]
    BY <1>2, <1>4 DEF SwitchOut
  <2>3. (t \in entries' <=> t \in entries) /\ (map_update_fail => map_update_fail')
    BY <1>4 DEF SwitchOut, WithStat
  <2> QED
    BY <1>1, <1>3, <2>1, <2>2, <2>3 DEF Exact
<1>5. CASE t = p
  <2>1. ~Running(t)' /\ Running(t)
    BY <1>1, <1>2, <1>5 DEF Running, World, OnePlace
  <2>2. t # Idle /\ t \in alive
    BY <1>2, <1>5 DEF World, OnePlace
  <2>3. CASE StatAvailable(entries, t)
    <3>1. run_ns'[t] = run_ns[t] + RunOf(t) /\ ran'[t] = ran[t] + (now - since[t])
      BY <1>2, <1>5, <2>2, <2>3 DEF SwitchOut
    <3>2. /\ oncpu_start[TidOf[t]] = [task |-> t, start_ns |-> since[t]] /\ since[t] # 0
          => RunOf(t) = now - since[t]
      BY <1>1, <1>2, <1>5 DEF RunOf, HasStart
    <3>3. Entered(TidOf[t])
      BY DEF World
    <3>4. oncpu_start[TidOf[t]] = [task |-> t, start_ns |-> since[t]] => since[t] # 0
      BY <2>2, <3>3 DEF Entered
    <3>5. map_update_fail => map_update_fail'
      BY <1>5, <2>2 DEF SwitchOut
    <3> QED
      BY <1>1, <1>3, <2>1, <2>2, <3>1, <3>2, <3>4, <3>5 DEF Exact
  <2>4. CASE ~StatAvailable(entries, t)
    <3>1. map_update_fail'
      BY <1>5, <2>2, <2>4 DEF SwitchOut
    <3> QED
      BY <3>1 DEF Exact
  <2> QED
    BY <2>3, <2>4
<1> QED
  BY <1>4, <1>5

LEMMA ExactSwitchIn ==
  ASSUME TypeOK, World, ExactInv, NEW c \in CPU, NEW stored \in BOOLEAN, SwitchIn(c, stored), NEW t \in Task
  PROVE  Exact(t)'
<1> USE CpuAssumption
<1> DEFINE n == cpu[c]
           m == IF stored THEN n ELSE Idle
           p == sw[c].prev
<1>1. /\ sw[c].at # 0 /\ oncpu_start' = Handover(p, m, sw[c].at)
      /\ sw' = [sw EXCEPT ![c] = NoSwitch]
      /\ UNCHANGED <<now, alive, cpu, since, ran, run_ns, cut, witnessed>>
  BY DEF SwitchIn, runHistory, pollHistory
<1>2. /\ cpu \in [CPU -> Task \cup {Idle}] /\ sw \in [CPU -> [at : Nat, prev : Task \cup {Idle}]]
      /\ entries \in SUBSET Task /\ TidOf[t] \in Tid
  BY DEF TypeOK
<1>3. sw'[c].at = 0 /\ \A d \in CPU \ {c} : sw'[d] = sw[d]
  BY <1>1, <1>2 DEF NoSwitch
<1>4. Exact(t)
  BY DEF ExactInv
<1>5. CASE t = n
  <2>1. /\ n # Idle /\ entries' = WithStat(entries, n)
        /\ map_update_fail' = (map_update_fail \/ ~StatAvailable(entries, n) \/ ~stored)
    BY <1>5 DEF SwitchIn
  <2>2. /\ stored => oncpu_start'[TidOf[t]] = [task |-> t, start_ns |-> since'[t]]
        /\ t \in alive
    <3>1. since[n] = sw[c].at /\ n \in alive
      BY <1>1, <2>1 DEF World, OnePlace
    <3> QED
      BY <1>1, <1>2, <1>5, <2>1, <3>1 DEF Handover
  <2>3. StatAvailable(entries, n) => t \in entries'
    BY <1>5, <2>1 DEF WithStat
  <2> HIDE DEF m, n
  <2> QED
    BY <1>1, <1>4, <2>1, <2>2, <2>3 DEF Exact
<1>6. CASE t # n
  <2>1. Running(t)' <=> Running(t)
    BY <1>1, <1>2, <1>3, <1>6 DEF Running
  <2>2. (t \in entries' <=> t \in entries) /\ (map_update_fail => map_update_fail')
    BY <1>6 DEF SwitchIn, WithStat
  <2>3. Running(t) => oncpu_start'[TidOf[t]] = oncpu_start[TidOf[t]]
    <3>1. SUFFICES ASSUME Running(t)
                   PROVE  ~(m # Idle /\ TidOf[t] = TidOf[m]) /\ ~(p # Idle /\ TidOf[t] = TidOf[p])
      BY <1>1, <1>2 DEF Handover
    <3>2. t \in alive /\ t # p
      BY <3>1 DEF World, OnePlace, Running, OnCPU
    <3>3. m # Idle => m = n /\ n \in alive
      BY DEF World, OnePlace
    <3>4. p \in Leaving
      BY DEF Leaving
    <3> HIDE DEF m, n, p
    <3> QED
      BY <1>6, <3>2, <3>3, <3>4 DEF World, OnePlace
  <2> QED
    BY <1>1, <1>4, <2>1, <2>2, <2>3 DEF Exact
<1> QED
  BY <1>5, <1>6

LEMMA ExactSeed ==
  ASSUME TypeOK, World, ExactInv, NEW c \in CPU, NEW stored \in BOOLEAN, Seed(c, stored), NEW t \in Task
  PROVE  Exact(t)'
<1> USE CpuAssumption
<1>1. PICK s \in Task : s = cpu[c]
  BY DEF Seed, TypeOK
<1>2. /\ sw[c].at = 0 /\ ~HasStart(s) /\ entries' = WithStat(entries, s)
      /\ map_update_fail' = (map_update_fail \/ ~StatAvailable(entries, s) \/ ~stored)
      /\ oncpu_start' \in {oncpu_start,
                           [oncpu_start EXCEPT ![TidOf[s]] = [task |-> s, start_ns |-> now]]}
      /\ stored \/ oncpu_start' = oncpu_start
      /\ UNCHANGED <<now, alive, cpu, sw, run_ns, ran, since, cut, witnessed>>
  BY <1>1 DEF Seed, SeedNeeded, runHistory, pollHistory
<1>3. Exact(t) /\ Running(s) /\ (Running(t)' <=> Running(t)) /\ s \in alive
  BY <1>1, <1>2 DEF ExactInv, Running, World, OnePlace
<1>4. CASE t = s
  <2>1. oncpu_start[TidOf[t]] # [task |-> t, start_ns |-> since[t]]
    <3>1. Entered(TidOf[t]) /\ ~(oncpu_start[TidOf[t]].start_ns > 0)
      BY <1>2, <1>4 DEF World, HasStart
    <3>2. oncpu_start[TidOf[t]].start_ns = 0
      BY <3>1 DEF TypeOK
    <3> QED
      BY <3>1, <3>2 DEF Entered
  <2> QED
    BY <1>2, <1>3, <1>4, <2>1 DEF Exact
<1>5. CASE t # s
  <2>1. Running(t) => TidOf[t] # TidOf[s]
    BY <1>3, <1>5 DEF World, OnePlace, Running
  <2>2. Running(t) => oncpu_start'[TidOf[t]] = oncpu_start[TidOf[t]]
    BY <1>2, <2>1 DEF TypeOK
  <2>3. (t \in entries' <=> t \in entries) /\ (map_update_fail => map_update_fail')
    BY <1>2, <1>5 DEF WithStat
  <2> QED
    BY <1>2, <1>3, <2>2, <2>3 DEF Exact
<1> QED
  BY <1>4, <1>5

LEMMA ExactPollSettle ==
  ASSUME TypeOK, World, ExactInv, PollSettle, NEW t \in Task
  PROVE  Exact(t)'
<1> USE CpuAssumption
<1>1. /\ entries' = entries \ Dropped
      /\ run_ns'[t] = IF t \in Dropped THEN 0 ELSE run_ns[t]
      /\ oncpu_start' = [d \in Tid |-> IF d \in {TidOf[u] : u \in Dropped} THEN NoStart
                                       ELSE oncpu_start[d]]
      /\ cut' = cut \cup {u \in Task : /\ TidOf[u] \in {TidOf[v] : v \in Dropped}
                                       /\ oncpu_start[TidOf[u]].task = u}
      /\ UNCHANGED <<now, alive, cpu, sw, map_update_fail, ran, since, witnessed>>
  BY DEF PollSettle, runHistory
<1>2. Exact(t) /\ (Running(t)' <=> Running(t))
  BY <1>1 DEF ExactInv, Running
<1>3. t \in Dropped => t \in Self \/ t \notin alive
  BY DEF Dropped, Evicted, StaleCount, TypeOK
<1>4. CASE t \in cut' \cup Self \/ t \notin witnessed \/ map_update_fail
  BY <1>1, <1>4 DEF Exact
<1>5. CASE ~(t \in cut' \cup Self \/ t \notin witnessed \/ map_update_fail)
  <2>1. Running(t) => oncpu_start'[TidOf[t]] = oncpu_start[TidOf[t]]
    <3>1. SUFFICES ASSUME Running(t) PROVE TidOf[t] \notin {TidOf[u] : u \in Dropped}
      BY <1>1
    <3>2. oncpu_start[TidOf[t]].task = t
      BY <1>1, <1>2, <1>5, <3>1 DEF Exact
    <3> QED
      BY <1>1, <1>5, <3>2
  <2>2. Running(t) => t \notin Dropped
    BY <1>3, <1>5 DEF World, OnePlace, Running
  <2> QED
    BY <1>1, <1>2, <1>3, <1>5, <2>1, <2>2 DEF Exact
<1> QED
  BY <1>4, <1>5

LEMMA ExactStep == LedgerInv /\ World /\ ExactInv /\ [Next]_vars => ExactInv'
<1> SUFFICES ASSUME LedgerInv, World, ExactInv, [Next]_vars, NEW t \in Task PROVE Exact(t)'
  BY DEF ExactInv
<1>0. TypeOK
  BY DEF LedgerInv
<1>1. ASSUME NEW c \in CPU, NEW n \in Task \cup {Idle}, NEW exits \in BOOLEAN,
             SwitchOut(c, n, exits)
      PROVE  Exact(t)'
  BY <1>0, <1>1, ExactSwitchOut
<1>2. ASSUME NEW c \in CPU, NEW stored \in BOOLEAN, SwitchIn(c, stored) PROVE Exact(t)'
  BY <1>0, <1>2, ExactSwitchIn
<1>3. ASSUME NEW c \in CPU, NEW stored \in BOOLEAN, Seed(c, stored) PROVE Exact(t)'
  BY <1>0, <1>3, ExactSeed
<1>4. ASSUME NEW u \in Task, Spawn(u) PROVE Exact(t)'
  <2>1. /\ u \notin entries /\ ran[u] = 0 /\ run_ns[u] = 0
        /\ alive' = alive \cup {u}
        /\ UNCHANGED <<cpu, sw, entries, run_ns, oncpu_start, map_update_fail, ran, since, cut,
                       witnessed>>
    BY <1>4 DEF Spawn, runHistory, pollHistory, LedgerInv
  <2> QED
    BY <2>1 DEF ExactInv, Exact, Running
<1>5. CASE Tick \/ PollStats \/ PollClock \/ PollOncpu \/ UNCHANGED vars
  <2>1. UNCHANGED <<alive, cpu, sw, entries, run_ns, oncpu_start, map_update_fail, ran, since,
                    cut, witnessed>>
    BY <1>5 DEF Tick, PollStats, PollClock, PollOncpu, vars, kernelVars, pollVars, runHistory,
                pollHistory
  <2> QED
    BY <2>1 DEF ExactInv, Exact, Running
<1>6. CASE PollSettle
  BY <1>0, <1>6, ExactPollSettle
<1> QED
  BY <1>1, <1>2, <1>3, <1>4, <1>5, <1>6 DEF Next, Poll

(***************************************************************************)
(* cpu.bpf.c counts every nanosecond of a task it sees from its first       *)
(* dispatch: switches, heartbeats, evictions and reused thread ids in any   *)
(* order lose nothing, unless a map update failed or a deletion hit the     *)
(* task's own interval.                                                     *)
(***************************************************************************)
THEOREM KernelIsExact == Spec => []KernelExact
<1> DEFINE IInv == LedgerInv /\ World /\ ExactInv
<1>1. Init => IInv
  BY LedgerInit, WorldInit, ExactInit
<1>2. IInv /\ [Next]_vars => IInv'
  BY LedgerStep, WorldStep, ExactStep DEF LedgerInv
<1>3. IInv => KernelExact
  <2> SUFFICES ASSUME LedgerInv, World, ExactInv, \A c \in CPU : sw[c].at = 0,
                      NEW t \in (entries \cap witnessed) \ (cut \cup Self)
               PROVE  \/ map_update_fail
                      \/ TrueRun(t) = run_ns[t] + (IF oncpu_start[TidOf[t]].task = t
                                                   THEN now - oncpu_start[TidOf[t]].start_ns
                                                   ELSE 0)
    BY Zenon DEF KernelExact
  <2>a. SUFFICES ASSUME ~map_update_fail
                 PROVE  TrueRun(t) = run_ns[t] + (IF oncpu_start[TidOf[t]].task = t
                                                  THEN now - oncpu_start[TidOf[t]].start_ns
                                                  ELSE 0)
    OBVIOUS
  <2>0. t \in Task /\ TypeOK
    BY DEF LedgerInv, TypeOK
  <2>1. run_ns[t] = ran[t] /\ run_ns[t] \in Nat /\ (t \in OnCPU <=> Running(t))
    BY <2>0, <2>a DEF ExactInv, Exact, TypeOK, Running, OnCPU
  <2>2. CASE Running(t)
    <3>0. Exact(t) /\ t \notin cut \cup Self /\ t \in witnessed
      BY <2>0 DEF ExactInv
    <3>1. oncpu_start[TidOf[t]] = [task |-> t, start_ns |-> since[t]]
      BY <2>2, <2>a, <3>0 DEF Exact
    <3>2. TrueRun(t) = ran[t] + (now - since[t])
      BY <2>1, <2>2 DEF TrueRun
    <3> QED
      BY <3>1, <3>2, <2>1
  <2>3. CASE ~Running(t)
    <3>1. Entered(TidOf[t]) /\ t \notin Leaving /\ t # Idle
      BY <2>0, CpuAssumption DEF World, OnePlace, Leaving
    <3>2. oncpu_start[TidOf[t]].task # t
      BY <2>3, <3>1 DEF Entered
    <3> QED
      BY <2>1, <2>3, <3>2 DEF TrueRun
  <2> QED
    BY <2>2, <2>3
<1> QED
  BY <1>1, <1>2, <1>3, PTL DEF Spec

----------------------------------------------------------------------------
(* What is reported is within what the tasks have run.                       *)

(* A running task whose entry is there is not arriving.                      *)
LEMMA OnePlaceEach ==
  ASSUME World, NEW t \in Task
  PROVE  /\ ~(Running(t) /\ Arriving(t))
         /\ t \in OnCPU <=> Running(t) \/ Arriving(t)
BY CpuAssumption DEF World, OnePlace, Running, Arriving, OnCPU

(* What is left to credit, case by case.                                     *)
LEMMA RestCases ==
  ASSUME TypeOK, World, NEW t \in Task, NEW credit \in Credit
  PROVE  LET at == oncpu_start[TidOf[t]].start_ns IN
         /\ Rest(t, credit) \in Nat /\ TrueRun(t) \in Nat
         /\ Arriving(t) => Rest(t, credit) = now - since[t]
         /\ Running(t) /\ oncpu_start[TidOf[t]].task = t =>
              /\ at # 0 /\ since[t] <= at /\ at <= now
              /\ Rest(t, credit) = Synthetic(credit, at, now - at)
         /\ ~Arriving(t) /\ ~(Running(t) /\ oncpu_start[TidOf[t]].task = t) => Rest(t, credit) = 0
<1> USE CpuAssumption
<1> DEFINE at == oncpu_start[TidOf[t]].start_ns
<1>1. /\ since[t] \in Nat /\ since[t] <= now /\ now \in Nat /\ ran[t] \in Nat /\ at \in Nat
      /\ credit.startNS \in Nat /\ credit.reportedAtNS \in Nat /\ TidOf[t] \in Tid
  BY DEF TypeOK, World, Credit
<1>2. Running(t) /\ oncpu_start[TidOf[t]].task = t => at # 0
  BY <1>1 DEF World, Entered
<1>3. Running(t) /\ oncpu_start[TidOf[t]].task = t => since[t] <= at /\ at <= now
  BY <1>1, <1>2, OwnEntry DEF HasStart
<1>4. TrueRun(t) \in Nat
  BY <1>1 DEF TrueRun
<1>5. Running(t) /\ oncpu_start[TidOf[t]].task = t => Synthetic(credit, at, now - at) \in Nat
  BY <1>1, <1>3 DEF Synthetic
<1>6. Running(t) => ~Arriving(t)
  BY OnePlaceEach
<1> QED
  BY <1>1, <1>2, <1>3, <1>4, <1>5, <1>6 DEF Rest

(* The types of the two sides of an affordable amount, before and after.     *)
Countable == \A t \in Task, credit \in Credit : Rest(t, credit) \in Nat /\ TrueRun(t) \in Nat

LEMMA CountableNow == TypeOK /\ World => Countable
BY RestCases DEF Countable

LEMMA CountableNext == TypeOK' /\ World' => Countable'
BY CountableNow, PTL

(* Kernel steps: as a task runs on, no more becomes creditable than it runs. *)
KernelStep ==
  \/ Tick
  \/ \E c \in CPU : \/ \E n \in Task \cup {Idle}, exits \in BOOLEAN : SwitchOut(c, n, exits)
                    \/ \E stored \in BOOLEAN : SwitchIn(c, stored) \/ Seed(c, stored)
  \/ \E t \in Task : Spawn(t)

Thrifty(t, credit) ==
  Rest(t, credit)' + TrueRun(t) <= Rest(t, credit) + TrueRun(t)'

LEMMA ThriftySwitchOut ==
  ASSUME TypeOK, World, TypeOK', World', NEW c \in CPU, NEW n \in Task \cup {Idle},
         NEW exits \in BOOLEAN, SwitchOut(c, n, exits), NEW t \in Task, NEW credit \in Credit
  PROVE  Thrifty(t, credit)
<1> USE CpuAssumption
<1> DEFINE p == cpu[c]
<1>1. /\ sw[c].at = 0 /\ n # p /\ now > since[p] /\ now # 0
      /\ n # Idle => n \notin OnCPU
      /\ sw' = [sw EXCEPT ![c] = [at |-> now, prev |-> p]]
      /\ cpu' = [cpu EXCEPT ![c] = n]
      /\ since' = [since EXCEPT ![p] = 0, ![n] = now]
      /\ UNCHANGED <<now, oncpu_start>>
      /\ p = Idle => ran' = ran
      /\ p # Idle => ran' = [ran EXCEPT ![p] = @ + (now - since[p])]
  BY DEF SwitchOut, World
<1>2. /\ cpu \in [CPU -> Task \cup {Idle}] /\ sw \in [CPU -> [at : Nat, prev : Task \cup {Idle}]]
      /\ since \in [Task \cup {Idle} -> Nat] /\ now \in Nat /\ ran \in [Task -> Nat]
  BY DEF TypeOK
<1>3. /\ Rest(t, credit) \in Nat /\ TrueRun(t) \in Nat
      /\ Rest(t, credit)' \in Nat /\ TrueRun(t)' \in Nat
  BY CountableNow, CountableNext DEF Countable
<1>4. CASE t = p
  <2>1. /\ t \in OnCPU /\ t \notin OnCPU' /\ ran'[t] = ran[t] + (now - since[t])
    BY <1>1, <1>2, <1>4 DEF OnCPU, World, OnePlace
  <2>2. ~Running(t)' /\ ~Arriving(t)'
    BY <2>1 DEF Running, Arriving, OnCPU
  <2>3. TrueRun(t)' = TrueRun(t)
    BY <1>2, <2>1 DEF TrueRun, TypeOK
  <2>4. Rest(t, credit)' = 0
    BY <2>2 DEF Rest
  <2> QED
    BY <1>3, <2>3, <2>4 DEF Thrifty
<1>5. CASE t = n
  <2>1. /\ t \notin OnCPU /\ Arriving(t)' /\ since'[t] = now /\ ran'[t] = ran[t]
    BY <1>1, <1>2, <1>5 DEF Arriving
  <2>2. TrueRun(t)' = TrueRun(t)
    BY <1>1, <1>2, <2>1 DEF TrueRun
  <2>3. Rest(t, credit)' = 0
    BY <1>1, <1>2, <2>1 DEF Rest
  <2> QED
    BY <1>3, <2>2, <2>3 DEF Thrifty
<1>6. CASE t # p /\ t # n
  <2>1. since'[t] = since[t] /\ ran'[t] = ran[t]
    BY <1>1, <1>2, <1>6
  <2>2. (Running(t)' <=> Running(t)) /\ (Arriving(t)' <=> Arriving(t)) /\ (t \in OnCPU' <=> t \in OnCPU)
    BY <1>1, <1>2, <1>6 DEF Running, Arriving, OnCPU
  <2>3. TrueRun(t)' = TrueRun(t) /\ Rest(t, credit)' = Rest(t, credit)
    BY <1>1, <2>1, <2>2 DEF TrueRun, Rest
  <2> QED
    BY <1>3, <2>3 DEF Thrifty
<1> QED
  BY <1>4, <1>5, <1>6

LEMMA ThriftySwitchIn ==
  ASSUME TypeOK, World, TypeOK', World', NEW c \in CPU, NEW stored \in BOOLEAN, SwitchIn(c, stored),
         NEW t \in Task, NEW credit \in Credit
  PROVE  Thrifty(t, credit)
<1> USE CpuAssumption
<1> DEFINE n == cpu[c]
           m == IF stored THEN n ELSE Idle
<1>1. /\ sw[c].at # 0 /\ oncpu_start' = Handover(sw[c].prev, m, sw[c].at)
      /\ sw' = [sw EXCEPT ![c] = NoSwitch]
      /\ UNCHANGED <<now, cpu, since, ran>>
  BY DEF SwitchIn, runHistory
<1>2. /\ cpu \in [CPU -> Task \cup {Idle}] /\ sw \in [CPU -> [at : Nat, prev : Task \cup {Idle}]]
      /\ now \in Nat /\ TidOf[t] \in Tid
      /\ credit.startNS \in Nat /\ credit.reportedAtNS \in Nat
  BY DEF TypeOK, Credit
<1>3. /\ Rest(t, credit) \in Nat /\ TrueRun(t) \in Nat
      /\ Rest(t, credit)' \in Nat /\ TrueRun(t)' \in Nat
  BY CountableNow, CountableNext DEF Countable
<1>4. TrueRun(t)' = TrueRun(t)
  BY <1>1 DEF TrueRun, OnCPU
<1>5. CASE t = n
  <2>1. Arriving(t) /\ Running(t)' /\ ~Arriving(t)'
    BY <1>1, <1>2, <1>5 DEF Arriving, Running, NoSwitch, World, OnePlace
  <2>2. Rest(t, credit) = now - since[t] /\ since[t] \in Nat /\ since[t] <= now
    BY <1>2, <2>1 DEF Rest, World, TypeOK
  <2>3. CASE oncpu_start'[TidOf[t]].task = t
    <3> DEFINE at == oncpu_start'[TidOf[t]].start_ns
    <3>1. t \notin Leaving' /\ t # Idle
      BY <1>5, <2>1 DEF World, OnePlace, Leaving, OnCPU, Running
    <3>2. Entered(TidOf[t])'
      BY <1>2 DEF World
    <3>3. at \in Nat /\ since[t] <= at /\ at <= now
      BY <1>1, <1>2, <2>3, <3>1, <3>2 DEF Entered, TypeOK
    <3>4. Rest(t, credit)' = Synthetic(credit, at, now - at)
      BY <1>1, <2>1, <2>3 DEF Rest
    <3>5. Synthetic(credit, at, now - at) <= now - at
      BY <1>2, <3>3 DEF Synthetic
    <3> HIDE DEF at
    <3> QED
      BY <1>2, <1>3, <1>4, <2>2, <3>3, <3>4, <3>5 DEF Thrifty
  <2>4. CASE oncpu_start'[TidOf[t]].task # t
    <3>1. Rest(t, credit)' = 0
      BY <2>1, <2>4 DEF Rest
    <3> QED
      BY <1>3, <1>4, <3>1 DEF Thrifty
  <2> QED
    BY <2>3, <2>4
<1>6. CASE t # n
  <2>1. (Running(t)' <=> Running(t)) /\ (Arriving(t)' <=> Arriving(t))
    BY <1>1, <1>2, <1>6 DEF Running, Arriving
  <2>2. oncpu_start'[TidOf[t]].task = t => oncpu_start'[TidOf[t]] = oncpu_start[TidOf[t]]
    BY <1>1, <1>2, <1>6 DEF Handover, NoStart
  <2>3. Rest(t, credit)' \in {0, Rest(t, credit)}
    BY <1>1, <2>1, <2>2 DEF Rest
  <2> QED
    BY <1>3, <1>4, <2>3 DEF Thrifty
<1> QED
  BY <1>5, <1>6

LEMMA ThriftyOther ==
  ASSUME TypeOK, World, TypeOK', World',
         Tick \/ (\E c \in CPU, stored \in BOOLEAN : Seed(c, stored)) \/ (\E u \in Task : Spawn(u)),
         NEW t \in Task, NEW credit \in Credit
  PROVE  Thrifty(t, credit)
<1> USE CpuAssumption
<1>1. UNCHANGED <<cpu, sw, since, ran>>
  BY DEF Tick, Seed, Spawn, kernelVars, runHistory
<1>2. /\ (Running(t)' <=> Running(t)) /\ (Arriving(t)' <=> Arriving(t))
      /\ (t \in OnCPU' <=> t \in OnCPU) /\ (t \in OnCPU <=> Running(t) \/ Arriving(t))
      /\ ~(Running(t) /\ Arriving(t))
  BY <1>1, OnePlaceEach DEF Running, Arriving, OnCPU
<1>3. /\ Rest(t, credit) \in Nat /\ TrueRun(t) \in Nat
      /\ Rest(t, credit)' \in Nat /\ TrueRun(t)' \in Nat
  BY CountableNow, CountableNext DEF Countable
<1>a. /\ now \in Nat /\ since[t] \in Nat /\ ran[t] \in Nat /\ since[t] <= now
      /\ credit.startNS \in Nat /\ credit.reportedAtNS \in Nat /\ TidOf[t] \in Tid
      /\ oncpu_start[TidOf[t]].start_ns \in Nat
  BY DEF TypeOK, Credit, World
<1>4. CASE Tick
  <2>1. now' = now + 1 /\ oncpu_start' = oncpu_start
    BY <1>4 DEF Tick, kernelVars
  <2>2. CASE Arriving(t)
    BY <1>1, <1>2, <1>3, <1>a, <2>1, <2>2 DEF Rest, TrueRun, Thrifty
  <2>3. CASE Running(t)
    <3> DEFINE at == oncpu_start[TidOf[t]].start_ns
    <3>1. TrueRun(t)' = TrueRun(t) + 1
      BY <1>1, <1>2, <1>3, <1>a, <2>1, <2>3 DEF TrueRun
    <3>2. CASE oncpu_start[TidOf[t]].task = t
      <4>1. Rest(t, credit) = Synthetic(credit, at, now - at) /\ at <= now
        BY <1>2, <2>3, <3>2, RestCases
      <4>2. Rest(t, credit)' = Synthetic(credit, at, (now + 1) - at)
        <5>1. ~Arriving(t)' /\ Running(t)' /\ oncpu_start'[TidOf[t]] = oncpu_start[TidOf[t]]
          BY <1>2, <2>1, <2>3
        <5>2. Rest(t, credit)' = Synthetic(credit, oncpu_start'[TidOf[t]].start_ns,
                                           now' - oncpu_start'[TidOf[t]].start_ns)
          BY <3>2, <5>1 DEF Rest
        <5>3. now' - oncpu_start'[TidOf[t]].start_ns = (now + 1) - at
          BY <2>1, <5>1
        <5> QED
          BY <5>1, <5>2, <5>3
      <4>3. Synthetic(credit, at, (now + 1) - at) <= Synthetic(credit, at, now - at) + 1
        BY <1>3, <1>a, <4>1 DEF Synthetic
      <4> HIDE DEF at
      <4> QED
        BY <1>3, <1>a, <3>1, <4>1, <4>2, <4>3 DEF Thrifty
    <3>3. CASE oncpu_start[TidOf[t]].task # t
      BY <1>2, <1>3, <1>a, <2>1, <2>3, <3>1, <3>3 DEF Rest, Thrifty
    <3> QED
      BY <3>2, <3>3
  <2>4. CASE ~Running(t) /\ ~Arriving(t)
    BY <1>1, <1>2, <1>3, <1>a, <2>4 DEF Rest, TrueRun, Thrifty
  <2> QED
    BY <2>2, <2>3, <2>4
<1>5. CASE \E c \in CPU, stored \in BOOLEAN : Seed(c, stored)
  <2>1. PICK c \in CPU, stored \in BOOLEAN : Seed(c, stored)
    BY <1>5
  <2>2. PICK s \in Task : s = cpu[c]
    BY <2>1 DEF Seed, TypeOK
  <2>3. /\ \/ oncpu_start' = oncpu_start
           \/ oncpu_start' = [oncpu_start EXCEPT ![TidOf[s]] = [task |-> s, start_ns |-> now]]
        /\ now' = now
    BY <2>1, <2>2 DEF Seed
  <2>4. TrueRun(t)' = TrueRun(t)
    BY <1>1, <1>2, <2>3 DEF TrueRun
  <2>0. CASE oncpu_start' = oncpu_start
    BY <1>1, <1>2, <1>3, <2>0, <2>3, <2>4 DEF Rest, Thrifty
  <2>5. CASE t = s /\ oncpu_start' # oncpu_start
    <3>1. oncpu_start'[TidOf[t]] = [task |-> t, start_ns |-> now]
      BY <2>3, <2>5 DEF TypeOK
    <3>2. Running(t) /\ ~Arriving(t)
      BY <1>2, <2>1, <2>2, <2>5 DEF Seed, Running
    <3>3. Rest(t, credit)' = Synthetic(credit, now, now - now)
      BY <1>2, <2>3, <3>1, <3>2 DEF Rest
    <3>4. Synthetic(credit, now, now - now) = 0
      BY <1>a DEF Synthetic
    <3> QED
      BY <1>3, <1>a, <2>4, <3>3, <3>4 DEF Thrifty
  <2>6. CASE t # s /\ oncpu_start' # oncpu_start
    <3>1. oncpu_start'[TidOf[t]].task = t => oncpu_start'[TidOf[t]] = oncpu_start[TidOf[t]]
      BY <2>3, <2>6 DEF TypeOK
    <3>2. Rest(t, credit)' \in {0, Rest(t, credit)}
      BY <1>1, <1>2, <2>3, <3>1 DEF Rest
    <3> QED
      BY <1>3, <1>a, <2>4, <3>2 DEF Thrifty
  <2> QED
    BY <2>0, <2>5, <2>6
<1>6. CASE \E u \in Task : Spawn(u)
  <2>1. UNCHANGED <<now, oncpu_start>>
    BY <1>6 DEF Spawn
  <2> QED
    BY <1>1, <1>2, <1>3, <1>a, <2>1 DEF Rest, TrueRun, Thrifty
<1> QED
  BY <1>4, <1>5, <1>6

LEMMA KernelThrifty ==
  ASSUME TypeOK, World, TypeOK', World', KernelStep, NEW t \in Task, NEW credit \in Credit
  PROVE  Thrifty(t, credit)
<1>1. ASSUME NEW c \in CPU, NEW n \in Task \cup {Idle}, NEW exits \in BOOLEAN,
             SwitchOut(c, n, exits)
      PROVE  Thrifty(t, credit)
  BY <1>1, ThriftySwitchOut
<1>2. ASSUME NEW c \in CPU, NEW stored \in BOOLEAN, SwitchIn(c, stored) PROVE Thrifty(t, credit)
  BY <1>2, ThriftySwitchIn
<1>3. CASE Tick \/ (\E c \in CPU, stored \in BOOLEAN : Seed(c, stored)) \/ (\E u \in Task : Spawn(u))
  BY <1>3, ThriftyOther
<1> QED
  BY <1>1, <1>2, <1>3 DEF KernelStep

(* liveRunDelta: with the debt it keeps, what is reported is either what is   *)
(* advanced beyond the old debt or beyond the kernel's delta; the credit is   *)
(* about the run that was seen.                                               *)
Advanced(credit, start, at) ==
  IF start # 0 /\ at > start THEN Synthetic(credit, start, at - start) ELSE 0

Split(r, credit, current, previous, start, at) ==
  /\ r.report \in Nat /\ r.credit \in Credit /\ Advanced(credit, start, at) \in Nat
  /\ \/ r.report = Advanced(credit, start, at)
     \/ previous + credit.outstandingNS + r.report = current + Advanced(credit, start, at)
  /\ start # 0 /\ at > start => r.credit.startNS = start /\ r.credit.reportedAtNS = at - start
  /\ ~(start # 0 /\ at > start) => r.credit.startNS = 0 /\ r.credit.reportedAtNS = 0

LEMMA LiveRunDeltaSplit ==
  ASSUME NEW credit \in Credit, NEW current \in Nat, NEW previous \in Nat,
         NEW start \in Nat, NEW at \in Nat, previous <= current
  PROVE  Split(LiveRunDelta(credit, current, previous, start, at),
               credit, current, previous, start, at)
<1> DEFINE out   == credit.outstandingNS
           delta == current - previous
           paid  == Repaid(out, delta)
           syn   == Advanced(credit, start, at)
           r     == LiveRunDelta(credit, current, previous, start, at)
<1>1. /\ out \in Nat /\ delta \in Nat
      /\ credit.startNS \in Nat /\ credit.reportedAtNS \in Nat
  BY DEF Credit
<1>2. paid \in Nat /\ (paid = delta \/ paid = out)
  BY <1>1 DEF Repaid, Least
<1>3. syn \in Nat
  BY <1>1 DEF Advanced, Synthetic
<1>4. CounterDelta(current, previous) = delta /\ ~(current < previous)
  BY DEF CounterDelta
<1>5. r.report \in Nat /\ r.credit \in Credit
  BY LiveRunDeltaBalance, Z3
<1>6. CASE start # 0 /\ at > start
  <2>1. /\ r.report = (delta - paid) + syn
        /\ r.credit.startNS = start /\ r.credit.reportedAtNS = at - start
    BY <1>4, <1>6 DEF LiveRunDelta, Advanced
  <2> HIDE DEF r, paid, syn
  <2> QED
    BY <1>1, <1>2, <1>3, <1>5, <1>6, <2>1 DEF r, syn, Split
<1>7. CASE ~(start # 0 /\ at > start)
  <2>1. r.report = delta - paid /\ r.credit.startNS = 0 /\ r.credit.reportedAtNS = 0 /\ syn = 0
    BY <1>4, <1>7 DEF LiveRunDelta, Advanced
  <2> HIDE DEF r, paid, syn
  <2> QED
    BY <1>1, <1>2, <1>3, <1>5, <1>7, <2>1 DEF r, syn, Split
<1> QED
  BY <1>6, <1>7

(* PollOncpu's reading of a task's entry; a task read mid-switch is remembered. *)
LEMMA EntryRead ==
  ASSUME TypeOK, World, PollOncpu, NEW t \in Task, t \notin straddled'
  PROVE  LET e == oncpu_start[TidOf[t]] IN
         /\ StartSeen(t)' = IF e.task = t THEN e.start_ns ELSE 0
         /\ e.task = t => Running(t) /\ e.start_ns # 0
<1> USE CpuAssumption
<1> DEFINE e == oncpu_start[TidOf[t]]
<1>1. StartSeen(t)' = IF e.task = t THEN e.start_ns ELSE 0
  BY DEF PollOncpu, StartSeen
<1>2. ASSUME e.task = t PROVE Running(t) /\ e.start_ns # 0
  <2>1. Entered(TidOf[t]) /\ TidOf[t] \in Tid
    BY DEF World
  <2>2. e.start_ns # 0
    BY <1>2, <2>1 DEF Entered
  <2>3. t \notin Leaving
    BY <1>2 DEF PollOncpu
  <2> QED
    BY <1>2, <2>1, <2>2, <2>3 DEF Entered
<1> QED
  BY <1>1, <1>2

(* What is about to be reported is affordable when the maps have been read.  *)
LEMMA BudgetRead ==
  ASSUME LedgerInv, World, PollOncpu, NEW t \in Task, t \notin straddled', t \in rawKeys,
         CreditPast(t), Budget(t),
         NEW start, start = StartSeen(t)'
  PROVE  LET r == LiveRunDelta(liveRuns[t], raw[t], prev[t], start, nowNS) IN
         Affordable(t, reported[t] + r.report, r.credit)
<1> USE CpuAssumption
<1> DEFINE e   == oncpu_start[TidOf[t]]
           lr  == liveRuns[t]
           r   == LiveRunDelta(lr, raw[t], prev[t], start, nowNS)
           syn == Advanced(lr, start, nowNS)
<1>0. TypeOK /\ t \notin straddled /\ pc = "oncpu"
  BY DEF LedgerInv, PollOncpu
<1>1. /\ start = (IF e.task = t THEN e.start_ns ELSE 0)
      /\ e.task = t => Running(t) /\ e.start_ns # 0
  BY <1>0, EntryRead
<1>2. /\ lr \in Credit /\ raw[t] \in Nat /\ prev[t] \in Nat /\ nowNS \in Nat /\ start \in Nat
      /\ run_ns[t] \in Nat /\ base[t] \in Nat /\ reported[t] \in Nat /\ now \in Nat
      /\ e.start_ns \in Nat
      /\ lr.startNS \in Nat /\ lr.reportedAtNS \in Nat /\ lr.outstandingNS \in Nat
  BY <1>0, <1>1 DEF TypeOK, Credit
<1>3. prev[t] <= raw[t] /\ raw[t] <= run_ns[t]
  BY <1>0 DEF LedgerInv
<1>4. reported[t] = base[t] + prev[t] + lr.outstandingNS
  BY DEF LedgerInv, DebtLedger
<1>5. /\ r.report \in Nat /\ r.credit \in Credit /\ syn \in Nat
      /\ r.report = syn \/ prev[t] + lr.outstandingNS + r.report = raw[t] + syn
      /\ start # 0 /\ nowNS > start => r.credit.startNS = start /\ r.credit.reportedAtNS = nowNS - start
      /\ ~(start # 0 /\ nowNS > start) => r.credit.startNS = 0 /\ r.credit.reportedAtNS = 0
  <2>1. Split(r, lr, raw[t], prev[t], start, nowNS)
    BY <1>2, <1>3, LiveRunDeltaSplit
  <2> HIDE DEF r
  <2> QED
    BY <2>1 DEF Split
<1>6. /\ lr.startNS + lr.reportedAtNS <= nowNS /\ nowNS <= now
  BY <1>0 DEF CreditPast
<1>7. /\ reported[t] + Rest(t, lr) <= TrueRun(t)
      /\ base[t] + run_ns[t] + Rest(t, NoCredit) <= TrueRun(t)
  BY <1>0 DEF Budget, Affordable
<1>8. NoCredit \in Credit /\ NoCredit.startNS = 0 /\ NoCredit.reportedAtNS = 0
  BY DEF Credit, NoCredit
<1> DEFINE cr == r.credit
<1> HIDE DEF r, syn, lr
<1>9. /\ Rest(t, lr) \in Nat /\ Rest(t, NoCredit) \in Nat /\ Rest(t, cr) \in Nat /\ TrueRun(t) \in Nat
  BY <1>0, <1>2, <1>5, <1>8, RestCases
<1>10. syn + Rest(t, cr) <= Rest(t, lr) /\ syn + Rest(t, cr) <= Rest(t, NoCredit)
  <2>1. CASE e.task = t
    <3>1. /\ Rest(t, lr) = Synthetic(lr, start, now - start)
          /\ Rest(t, NoCredit) = Synthetic(NoCredit, start, now - start)
          /\ Rest(t, cr) = Synthetic(cr, start, now - start)
          /\ start # 0 /\ start <= now
      BY <1>0, <1>1, <1>2, <1>5, <1>8, <2>1, RestCases
    <3>2. Rest(t, NoCredit) = now - start
      BY <1>2, <1>8, <3>1 DEF Synthetic
    <3>3. CASE nowNS > start
      <4>1. syn = Synthetic(lr, start, nowNS - start)
        BY <3>1, <3>3 DEF Advanced, syn
      <4>2. Rest(t, cr) = now - nowNS
        BY <1>2, <1>5, <1>6, <3>1, <3>3 DEF Synthetic
      <4>3. Synthetic(lr, start, nowNS - start) + (now - nowNS) <= Synthetic(lr, start, now - start)
        BY <1>2, <1>6, <3>1, <3>3 DEF Synthetic
      <4>4. Synthetic(lr, start, nowNS - start) <= nowNS - start
        BY <1>2, <3>3 DEF Synthetic
      <4> QED
        BY <1>2, <1>5, <1>6, <1>9, <3>1, <3>2, <4>1, <4>2, <4>3, <4>4
    <3>4. CASE ~(nowNS > start)
      <4>1. syn = 0
        BY <3>4 DEF Advanced, syn
      <4>2. Rest(t, cr) = now - start
        BY <1>2, <1>5, <3>1, <3>4 DEF Synthetic
      <4>3. Rest(t, lr) = now - start
        BY <1>2, <1>6, <3>1, <3>4 DEF Synthetic
      <4> QED
        BY <1>2, <3>1, <3>2, <4>1, <4>2, <4>3
    <3> QED
      BY <3>3, <3>4
  <2>2. CASE e.task # t
    <3>1. syn = 0
      BY <1>1, <2>2 DEF Advanced, syn
    <3>2. Rest(t, cr) = Rest(t, lr) /\ Rest(t, cr) = Rest(t, NoCredit)
      BY <2>2 DEF Rest
    <3> QED
      BY <1>9, <3>1, <3>2
  <2> QED
    BY <2>1, <2>2
<1>11. reported[t] + r.report + Rest(t, cr) <= TrueRun(t)
  <2>1. CASE r.report = syn
    BY <1>2, <1>5, <1>7, <1>9, <1>10, <2>1
  <2>2. CASE prev[t] + lr.outstandingNS + r.report = raw[t] + syn
    <3>1. reported[t] + r.report = base[t] + raw[t] + syn
      BY <1>2, <1>4, <1>5, <2>2 DEF lr
    <3> QED
      BY <1>2, <1>3, <1>5, <1>7, <1>9, <1>10, <3>1
  <2> QED
    BY <1>5, <2>1, <2>2
<1> QED
  BY <1>11 DEF Affordable, r, lr

(* A settle removes entries, never adds one: nothing more becomes creditable. *)
LEMMA RestAtSettle ==
  ASSUME TypeOK, World, PollSettle, NEW t \in Task, NEW credit \in Credit
  PROVE  /\ Rest(t, credit)' <= Rest(t, credit) /\ Rest(t, credit)' \in Nat
         /\ TrueRun(t)' = TrueRun(t)
         /\ t \in Dropped => \A other \in Credit : Rest(t, credit)' <= Rest(t, other)
<1> USE CpuAssumption
<1>1. /\ UNCHANGED <<now, cpu, sw, since, ran>>
      /\ oncpu_start' = [d \in Tid |-> IF d \in {TidOf[u] : u \in Dropped} THEN NoStart
                                       ELSE oncpu_start[d]]
  BY DEF PollSettle, runHistory
<1>2. (Running(t)' <=> Running(t)) /\ (Arriving(t)' <=> Arriving(t)) /\ TrueRun(t)' = TrueRun(t)
  BY <1>1 DEF Running, Arriving, TrueRun, OnCPU
<1>3. oncpu_start'[TidOf[t]] \in {NoStart, oncpu_start[TidOf[t]]}
  BY <1>1
<1>4. oncpu_start'[TidOf[t]].task = t => oncpu_start'[TidOf[t]] = oncpu_start[TidOf[t]]
  BY <1>3 DEF NoStart
<1>5. Rest(t, credit)' \in {0, Rest(t, credit)}
  BY <1>1, <1>2, <1>4 DEF Rest
<1>6. \A other \in Credit : Rest(t, other) \in Nat
  BY RestCases
<1>7. ASSUME t \in Dropped, NEW other \in Credit PROVE Rest(t, credit)' <= Rest(t, other)
  <2>1. oncpu_start'[TidOf[t]].task # t
    BY <1>1, <1>7 DEF NoStart
  <2>2. Rest(t, credit)' = IF Arriving(t) THEN now - since[t] ELSE 0
    BY <1>1, <1>2, <2>1 DEF Rest
  <2>3. Arriving(t) => Rest(t, other) = now - since[t]
    BY DEF Rest
  <2> QED
    BY <1>6, <2>2, <2>3
<1> QED
  BY <1>2, <1>5, <1>6, <1>7

LEMMA BudgetSettle ==
  ASSUME LedgerInv, World, PollSettle, NEW t \in Task, CreditPast(t), Budget(t)
  PROVE  CreditPast(t)' /\ Budget(t)'
<1> USE CpuAssumption
<1> DEFINE gone == Dropped
           s == Settled(t)
<1>0. TypeOK
  BY DEF LedgerInv
<1>1. /\ gone \subseteq rawKeys /\ pc = "settle" /\ pc' = "idle"
      /\ UNCHANGED <<now, straddled>>
      /\ run_ns'[t] = IF t \in gone THEN 0 ELSE run_ns[t]
      /\ base'[t] = IF t \in gone THEN reported[t] ELSE base[t]
      /\ reported'[t] = IF t \in rawKeys \ gone THEN reported[t] + s.report ELSE reported[t]
      /\ liveRuns'[t] = IF t \in gone THEN NoCredit
                        ELSE IF t \in rawKeys THEN s.credit ELSE liveRuns[t]
  BY DEF PollSettle, Dropped, Evicted
<1>2. /\ liveRuns[t] \in Credit /\ raw[t] \in Nat /\ prev[t] \in Nat /\ nowNS \in Nat
      /\ StartSeen(t) \in Nat /\ now \in Nat /\ reported[t] \in Nat /\ base[t] \in Nat
      /\ run_ns[t] \in Nat /\ NoCredit \in Credit
  BY <1>0 DEF TypeOK, StartSeen, Credit, NoCredit
<1>3. t \in rawKeys => /\ s.report \in Nat /\ s.credit \in Credit
                       /\ s.credit.startNS + s.credit.reportedAtNS <= nowNS
  <2> SUFFICES ASSUME t \in rawKeys
               PROVE  /\ s.report \in Nat /\ s.credit \in Credit
                      /\ s.credit.startNS + s.credit.reportedAtNS <= nowNS
    OBVIOUS
  <2>1. prev[t] <= raw[t]
    BY <1>1 DEF LedgerInv
  <2> DEFINE r == LiveRunDelta(liveRuns[t], raw[t], prev[t], StartSeen(t), nowNS)
  <2>2. /\ r.report \in Nat /\ r.credit \in Credit
        /\ StartSeen(t) # 0 /\ nowNS > StartSeen(t)
             => r.credit.startNS = StartSeen(t) /\ r.credit.reportedAtNS = nowNS - StartSeen(t)
        /\ ~(StartSeen(t) # 0 /\ nowNS > StartSeen(t))
             => r.credit.startNS = 0 /\ r.credit.reportedAtNS = 0
    <3>1. Split(r, liveRuns[t], raw[t], prev[t], StartSeen(t), nowNS)
      BY <1>2, <2>1, LiveRunDeltaSplit
    <3> HIDE DEF r
    <3> QED
      BY <3>1 DEF Split
  <2> QED
    BY <1>2, <2>2 DEF Settled
<1> HIDE DEF gone, s
<1>4. nowNS <= now
  BY <1>1 DEF CreditPast
<1>5. CreditPast(t)'
  BY <1>1, <1>2, <1>3, <1>4 DEF CreditPast, NoCredit, Credit
<1>6. CASE t \in straddled
  BY <1>1, <1>5, <1>6 DEF Budget
<1>7. CASE t \notin straddled
  <2>1. /\ reported[t] + Rest(t, liveRuns[t]) <= TrueRun(t)
        /\ base[t] + run_ns[t] + Rest(t, NoCredit) <= TrueRun(t)
        /\ t \in rawKeys => reported[t] + s.report + Rest(t, s.credit) <= TrueRun(t)
    BY <1>1, <1>7 DEF Budget, Affordable, s
  <2>2. /\ TrueRun(t)' = TrueRun(t) /\ TrueRun(t) \in Nat
        /\ Rest(t, NoCredit)' <= Rest(t, NoCredit) /\ Rest(t, NoCredit)' \in Nat
        /\ Rest(t, NoCredit) \in Nat /\ Rest(t, liveRuns[t]) \in Nat
        /\ t \in gone => Rest(t, NoCredit)' <= Rest(t, liveRuns[t])
    <3>1. TrueRun(t)' = TrueRun(t) /\ Rest(t, NoCredit)' <= Rest(t, NoCredit)
          /\ Rest(t, NoCredit)' \in Nat
          /\ (t \in Dropped => Rest(t, NoCredit)' <= Rest(t, liveRuns[t]))
      BY <1>0, <1>2, RestAtSettle DEF NoCredit
    <3>2. TrueRun(t) \in Nat /\ Rest(t, NoCredit) \in Nat /\ Rest(t, liveRuns[t]) \in Nat
      BY <1>0, <1>2, RestCases
    <3> QED
      BY <3>1, <3>2 DEF gone
  <2>3. Affordable(t, reported[t], liveRuns[t])'
    <3> SUFFICES ASSUME NEW cr \in Credit, cr = liveRuns'[t]
                 PROVE  reported'[t] + Rest(t, cr)' <= TrueRun(t)'
      <4>1. liveRuns'[t] \in Credit
        BY <1>1, <1>2, <1>3
      <4>2. (\A cr \in Credit : cr = liveRuns'[t] => reported'[t] + Rest(t, cr)' <= TrueRun(t)')
            => Affordable(t, reported[t], liveRuns[t])'
        BY <4>1 DEF Affordable, Rest
      <4> QED
        BY <4>2
    <3>1. Rest(t, cr)' <= Rest(t, cr) /\ Rest(t, cr)' \in Nat /\ Rest(t, cr) \in Nat
      BY <1>0, RestAtSettle, RestCases
    <3>2. CASE t \in gone
      BY <1>1, <1>2, <2>1, <2>2, <3>1, <3>2
    <3>3. CASE t \in rawKeys \ gone
      BY <1>1, <1>2, <1>3, <2>1, <2>2, <3>1, <3>3
    <3>4. CASE t \notin rawKeys
      BY <1>1, <1>2, <2>1, <2>2, <3>1, <3>4
    <3> QED
      BY <3>2, <3>3, <3>4
  <2>4. Affordable(t, base[t] + run_ns[t], NoCredit)'
    <3>1. base'[t] + run_ns'[t] + Rest(t, NoCredit)' <= TrueRun(t)'
      BY <1>1, <1>2, <2>1, <2>2
    <3> QED
      BY <3>1 DEF Affordable, Rest, NoCredit
  <2> QED
    BY <1>1, <1>5, <2>3, <2>4 DEF Budget
<1> QED
  BY <1>6, <1>7

LEMMA OvercountInit == Init => OvercountInv
<1> SUFFICES ASSUME Init, NEW t \in Task PROVE CreditPast(t) /\ Budget(t)
  BY DEF OvercountInv
<1>0. TypeOK /\ World
  BY TypeInit, WorldInit
<1>1. /\ liveRuns[t] = NoCredit /\ reported[t] = 0 /\ base[t] = 0 /\ run_ns[t] = 0
      /\ pc = "idle" /\ now = 1
  BY DEF Init, NoRuns
<1>2. ~Arriving(t) /\ oncpu_start[TidOf[t]].task # t
  BY CpuAssumption DEF Init, Arriving, NoSwitch, NoStart
<1>3. Rest(t, NoCredit) = 0
  BY <1>2 DEF Rest
<1>4. TrueRun(t) \in Nat
  BY <1>0 DEF TrueRun, TypeOK, World
<1> QED
  BY <1>1, <1>3, <1>4 DEF CreditPast, Budget, Affordable, NoCredit

(* What the kernel counts at a switch-out had been creditable.               *)
CountThrifty(t) ==
  run_ns'[t] + Rest(t, NoCredit)' + TrueRun(t) <= run_ns[t] + Rest(t, NoCredit) + TrueRun(t)'

LEMMA CountsThrifty ==
  ASSUME TypeOK, World, TypeOK', World', KernelStep, NEW t \in Task
  PROVE  CountThrifty(t)
<1> USE CpuAssumption
<1>1. NoCredit \in Credit /\ NoCredit.startNS = 0 /\ NoCredit.reportedAtNS = 0
  BY DEF Credit, NoCredit
<1>2. Thrifty(t, NoCredit)
  BY <1>1, KernelThrifty
<1>3. /\ Rest(t, NoCredit) \in Nat /\ TrueRun(t) \in Nat
      /\ Rest(t, NoCredit)' \in Nat /\ TrueRun(t)' \in Nat
      /\ run_ns[t] \in Nat /\ run_ns'[t] \in Nat
  BY <1>1, CountableNow, CountableNext DEF Countable, TypeOK
<1>4. CASE run_ns'[t] = run_ns[t]
  BY <1>2, <1>3, <1>4 DEF Thrifty, CountThrifty
<1>5. CASE run_ns'[t] # run_ns[t]
  <2>1. PICK c \in CPU, n \in Task \cup {Idle}, exits \in BOOLEAN : SwitchOut(c, n, exits)
    BY <1>5 DEF KernelStep, Tick, SwitchIn, Seed, Spawn, kernelVars
  <2>2. t = cpu[c] /\ run_ns'[t] = run_ns[t] + RunOf(t)
    BY <1>5, <2>1 DEF SwitchOut, TypeOK
  <2>3. /\ sw[c].at = 0 /\ n # t /\ now > since[t] /\ now' = now
        /\ cpu' = [cpu EXCEPT ![c] = n] /\ ran'[t] = ran[t] + (now - since[t])
    BY <2>1, <2>2 DEF SwitchOut, TypeOK
  <2>4. Running(t) /\ t \in OnCPU /\ t \notin OnCPU'
    BY <2>2, <2>3 DEF Running, OnCPU, TypeOK, World, OnePlace
  <2>5. ~Running(t)' /\ ~Arriving(t)'
    BY <2>4 DEF Running, Arriving, OnCPU
  <2>6. Rest(t, NoCredit)' = 0
    BY <2>5 DEF Rest
  <2>7. TrueRun(t)' = TrueRun(t)
    BY <2>3, <2>4 DEF TrueRun, TypeOK
  <2>8. RunOf(t) <= Rest(t, NoCredit)
    <3>1. CASE HasStart(t)
      <4> DEFINE at == oncpu_start[TidOf[t]].start_ns
      <4>1. Rest(t, NoCredit) = Synthetic(NoCredit, at, now - at) /\ at # 0 /\ at <= now
        BY <1>1, <2>4, <3>1, OwnEntry, RestCases
      <4>2. at \in Nat /\ now \in Nat
        BY DEF TypeOK
      <4>3. Rest(t, NoCredit) = now - at
        BY <1>1, <4>1, <4>2 DEF Synthetic
      <4>4. RunOf(t) <= now - at
        BY <4>1, <4>2 DEF RunOf
      <4> QED
        BY <4>3, <4>4
    <3>2. CASE ~HasStart(t)
      BY <1>3, <3>2 DEF RunOf
    <3> QED
      BY <3>1, <3>2
  <2>9. RunOf(t) \in Nat
    BY RunOfNat
  <2> QED
    BY <1>3, <2>2, <2>6, <2>7, <2>8, <2>9 DEF CountThrifty
<1> QED
  BY <1>4, <1>5

LEMMA BudgetKernel ==
  ASSUME LedgerInv, World, LedgerInv', World', KernelStep, NEW t \in Task,
         CreditPast(t), Budget(t)
  PROVE  CreditPast(t)' /\ Budget(t)'
<1> USE CpuAssumption
<1>0. TypeOK /\ TypeOK'
  BY DEF LedgerInv
<1>1. /\ UNCHANGED <<reported, liveRuns, base, straddled, raw, prev, running, nowNS, pc, rawKeys>>
      /\ now' \in {now, now + 1}
  BY DEF KernelStep, Tick, SwitchOut, SwitchIn, Seed, Spawn, pollVars, pollHistory
<1>2. /\ liveRuns[t] \in Credit /\ reported[t] \in Nat /\ base[t] \in Nat /\ now \in Nat
      /\ nowNS \in Nat /\ run_ns[t] \in Nat /\ run_ns'[t] \in Nat /\ NoCredit \in Credit
  BY <1>0 DEF TypeOK, Credit, NoCredit
<1>3. CreditPast(t)'
  BY <1>1, <1>2 DEF CreditPast, Credit
<1>4. UNCHANGED Settled(t)
  BY <1>1 DEF Settled, StartSeen
<1>5. ASSUME NEW amount \in Nat, NEW credit \in Credit, Affordable(t, amount, credit)
      PROVE  amount + Rest(t, credit)' <= TrueRun(t)'
  <2>1. /\ Rest(t, credit) \in Nat /\ TrueRun(t) \in Nat
        /\ Rest(t, credit)' \in Nat /\ TrueRun(t)' \in Nat
    BY <1>0, CountableNow, CountableNext DEF Countable
  <2>2. Thrifty(t, credit)
    BY <1>0, KernelThrifty
  <2> QED
    BY <1>5, <2>1, <2>2 DEF Thrifty, Affordable
<1>6. CASE t \in straddled
  BY <1>1, <1>3, <1>6 DEF Budget
<1>7. CASE t \notin straddled
  <2>1. Affordable(t, reported[t], liveRuns[t])'
    <3>1. PICK amount \in Nat, credit \in Credit : amount = reported[t] /\ credit = liveRuns[t]
      BY <1>2
    <3>2. amount + Rest(t, credit)' <= TrueRun(t)'
      BY <1>5, <1>7, <3>1 DEF Budget
    <3>3. Rest(t, credit)' = Rest(t, liveRuns[t])'
      BY <1>1, <3>1 DEF Rest
    <3> QED
      BY <1>1, <3>1, <3>2, <3>3 DEF Affordable
  <2>2. Affordable(t, base[t] + run_ns[t], NoCredit)'
    <3>1. CountThrifty(t)
      BY <1>0, CountsThrifty
    <3>2. /\ Rest(t, NoCredit) \in Nat /\ TrueRun(t) \in Nat
          /\ Rest(t, NoCredit)' \in Nat /\ TrueRun(t)' \in Nat
      BY <1>0, <1>2, CountableNow, CountableNext DEF Countable
    <3>3. base[t] + run_ns[t] + Rest(t, NoCredit) <= TrueRun(t)
      BY <1>7 DEF Budget, Affordable
    <3>4. base'[t] + run_ns'[t] + Rest(t, NoCredit)' <= TrueRun(t)'
      BY <1>1, <1>2, <3>1, <3>2, <3>3 DEF CountThrifty
    <3> QED
      BY <3>4 DEF Affordable, Rest, NoCredit
  <2>3. ASSUME pc = "settle", t \in rawKeys
        PROVE  Affordable(t, reported[t] + Settled(t).report, Settled(t).credit)'
    <3>1. Settled(t).report \in Nat /\ Settled(t).credit \in Credit
      BY <1>0, <2>3, SettledBalance DEF LedgerInv
    <3>2. PICK amount \in Nat, credit \in Credit :
            amount = reported[t] + Settled(t).report /\ credit = Settled(t).credit
      BY <1>2, <3>1
    <3>3. amount + Rest(t, credit)' <= TrueRun(t)'
      BY <1>5, <1>7, <2>3, <3>2 DEF Budget
    <3>4. Rest(t, credit)' = Rest(t, Settled(t).credit)'
      BY <1>4, <3>2 DEF Rest
    <3> QED
      BY <1>1, <1>4, <3>2, <3>3, <3>4 DEF Affordable
  <2> QED
    BY <1>1, <1>3, <2>1, <2>2, <2>3 DEF Budget
<1> QED
  BY <1>6, <1>7

(* Poll's reading steps leave the kernel and the books alone.                *)
LEMMA BudgetReading ==
  ASSUME LedgerInv, World, PollStats \/ PollClock \/ PollOncpu \/ UNCHANGED vars,
         NEW t \in Task, CreditPast(t), Budget(t)
  PROVE  CreditPast(t)' /\ Budget(t)'
<1>0. TypeOK
  BY DEF LedgerInv
<1>1. /\ UNCHANGED <<now, cpu, sw, oncpu_start, ran, since, reported, liveRuns, base, run_ns>>
      /\ straddled \subseteq straddled'
  BY DEF PollStats, PollClock, PollOncpu, vars, kernelVars, pollVars, runHistory, pollHistory
<1>2. CreditPast(t)'
  BY <1>0, <1>1 DEF PollStats, PollClock, PollOncpu, vars, pollVars, CreditPast, TypeOK
<1>3. /\ Affordable(t, reported[t], liveRuns[t])' <=> Affordable(t, reported[t], liveRuns[t])
      /\ Affordable(t, base[t] + run_ns[t], NoCredit)'
           <=> Affordable(t, base[t] + run_ns[t], NoCredit)
  BY <1>1 DEF Affordable, Rest, TrueRun, OnCPU, Running, Arriving, NoCredit
<1>4. CASE PollStats \/ PollClock
  BY <1>1, <1>2, <1>3, <1>4 DEF PollStats, PollClock, Budget
<1>5. CASE UNCHANGED vars
  <2>1. UNCHANGED <<rawKeys, pc, straddled>> /\ UNCHANGED Settled(t)
    BY <1>5 DEF vars, pollVars, pollHistory, Settled, StartSeen
  <2>2. Affordable(t, reported[t] + Settled(t).report, Settled(t).credit)'
           <=> Affordable(t, reported[t] + Settled(t).report, Settled(t).credit)
    BY <1>1, <2>1 DEF Affordable, Rest, TrueRun, OnCPU, Running, Arriving
  <2> QED
    BY <1>1, <1>2, <1>3, <2>1, <2>2 DEF Budget
<1>6. CASE PollOncpu
  <2>1. CASE t \in straddled'
    BY <1>2, <2>1 DEF Budget
  <2>2. CASE t \notin straddled'
    <3>1. ASSUME t \in rawKeys
          PROVE  Affordable(t, reported[t] + Settled(t).report, Settled(t).credit)'
      <4>1. PICK start : start = StartSeen(t)'
        OBVIOUS
      <4> DEFINE r == LiveRunDelta(liveRuns[t], raw[t], prev[t], start, nowNS)
      <4>2. Affordable(t, reported[t] + r.report, r.credit)
        BY <1>6, <2>2, <3>1, <4>1, BudgetRead
      <4>3. Settled(t)' = r
        BY <1>6, <4>1 DEF PollOncpu, Settled
      <4> HIDE DEF r
      <4>4. Rest(t, Settled(t).credit)' = Rest(t, r.credit) /\ TrueRun(t)' = TrueRun(t)
        BY <1>1, <4>3 DEF Rest, TrueRun, OnCPU, Running, Arriving
      <4>5. (reported[t] + Settled(t).report)' = reported[t] + r.report
        BY <1>1, <4>3
      <4> QED
        BY <4>2, <4>4, <4>5 DEF Affordable
    <3>2. rawKeys' = rawKeys
      BY <1>6 DEF PollOncpu
    <3> QED
      BY <1>1, <1>2, <1>3, <2>2, <3>1, <3>2 DEF Budget
  <2> QED
    BY <2>1, <2>2
<1> QED
  BY <1>4, <1>5, <1>6

LEMMA OvercountStep ==
  LedgerInv /\ World /\ LedgerInv' /\ World' /\ OvercountInv /\ [Next]_vars => OvercountInv'
<1> SUFFICES ASSUME LedgerInv, World, LedgerInv', World', OvercountInv, [Next]_vars, NEW t \in Task
             PROVE  CreditPast(t)' /\ Budget(t)'
  BY DEF OvercountInv
<1>1. CreditPast(t) /\ Budget(t)
  BY DEF OvercountInv
<1>2. CASE KernelStep
  BY <1>1, <1>2, BudgetKernel
<1>3. CASE PollStats \/ PollClock \/ PollOncpu \/ UNCHANGED vars
  BY <1>1, <1>3, BudgetReading
<1>4. CASE PollSettle
  BY <1>1, <1>4, BudgetSettle
<1> QED
  BY <1>2, <1>3, <1>4 DEF Next, Poll, KernelStep

(***************************************************************************)
(* CPUCollector never reports more CPU time for a task than it had, however *)
(* polls, switches, heartbeats and evictions interleave, unless some poll   *)
(* read the task between the two halves of handle_switch.                   *)
(***************************************************************************)
THEOREM NeverOvercounted == Spec => []NoOvercount
<1> DEFINE IInv == LedgerInv /\ World /\ OvercountInv
<1>1. Init => IInv
  BY LedgerInit, WorldInit, OvercountInit
<1>2. IInv /\ [Next]_vars => IInv'
  <2> SUFFICES ASSUME LedgerInv, World, OvercountInv, [Next]_vars PROVE IInv'
    OBVIOUS
  <2>1. LedgerInv' /\ World'
    BY LedgerStep, WorldStep DEF LedgerInv
  <2> QED
    BY <2>1, OvercountStep
<1>3. IInv => NoOvercount
  <2> SUFFICES ASSUME LedgerInv, World, OvercountInv, NEW t \in Task, t \notin straddled
               PROVE  reported[t] <= TrueRun(t)
    BY DEF NoOvercount
  <2>1. TypeOK /\ Affordable(t, reported[t], liveRuns[t])
    BY DEF LedgerInv, OvercountInv, Budget
  <2>2. liveRuns[t] \in Credit /\ reported[t] \in Nat
    BY <2>1 DEF TypeOK, Credit
  <2>3. Rest(t, liveRuns[t]) \in Nat /\ TrueRun(t) \in Nat
    BY <2>1, <2>2, RestCases
  <2> QED
    BY <2>1, <2>2, <2>3 DEF Affordable
<1> QED
  BY <1>1, <1>2, <1>3, PTL DEF Spec

----------------------------------------------------------------------------
(* The slots of the dead.                                                    *)

LEMMA FadingInit == Init => FadingInv
BY DEF Init, FadingInv, Fading, NoRuns

(* What a kernel step can do to a task's statistics: only to a live task's.  *)
LEMMA OnlyAliveMove ==
  ASSUME TypeOK, World, KernelStep, NEW t \in Task
  PROVE  /\ t \in entries => t \in entries'
         /\ t \in entries' => t \in entries \/ t \in alive' \/ ran'[t] > 0
         /\ ran[t] > 0 => ran'[t] > 0
         /\ t \in alive => t \in alive' \/ ran'[t] > 0
         /\ t \notin alive \cup Leaving /\ ran[t] > 0 =>
              /\ t \notin alive' \cup Leaving'
              /\ t \in entries' <=> t \in entries
              /\ run_ns'[t] = run_ns[t] /\ (t \in ctxMoved' <=> t \in ctxMoved)
<1> USE CpuAssumption
<1>0. /\ entries \in SUBSET Task /\ alive \in SUBSET Task /\ ctxMoved \in SUBSET Task
      /\ run_ns \in [Task -> Nat] /\ ran \in [Task -> Nat] /\ now \in Nat
      /\ cpu \in [CPU -> Task \cup {Idle}] /\ sw \in [CPU -> [at : Nat, prev : Task \cup {Idle}]]
      /\ since \in [Task \cup {Idle} -> Nat]
  BY DEF TypeOK
<1>1. ASSUME NEW c \in CPU, NEW n \in Task \cup {Idle}, NEW exits \in BOOLEAN,
             SwitchOut(c, n, exits)
      PROVE  /\ t \in entries => t \in entries'
             /\ t \in entries' => t \in entries \/ t \in alive' \/ ran'[t] > 0
             /\ ran[t] > 0 => ran'[t] > 0
             /\ t \in alive => t \in alive' \/ ran'[t] > 0
             /\ t \notin alive \cup Leaving /\ ran[t] > 0 =>
                  /\ t \notin alive' \cup Leaving'
                  /\ t \in entries' <=> t \in entries
                  /\ run_ns'[t] = run_ns[t] /\ (t \in ctxMoved' <=> t \in ctxMoved)
  <2> DEFINE p == cpu[c]
  <2>1. /\ p = Idle \/ p \in alive
        /\ now > since[p]
        /\ alive' \in {alive, alive \ {p}}
        /\ \A d \in CPU : sw'[d].prev \in {sw[d].prev, p}
    BY <1>0, <1>1 DEF SwitchOut, World, OnePlace
  <2>2. Leaving' \subseteq Leaving \cup {p}
    BY <2>1 DEF Leaving
  <2>3. CASE t # p
    <3>1. /\ t \in entries' <=> t \in entries
          /\ run_ns'[t] = run_ns[t] /\ (t \in ctxMoved' <=> t \in ctxMoved)
          /\ ran'[t] = ran[t]
      BY <1>0, <1>1, <2>3 DEF SwitchOut, WithStat
    <3> QED
      BY <2>1, <2>2, <2>3, <3>1
  <2>4. CASE t = p
    <3>1. t # Idle /\ t \in alive
      BY <2>1, <2>4
    <3>2. ran'[t] = ran[t] + (now - since[t]) /\ entries \subseteq entries'
      BY <1>0, <1>1, <2>4, <3>1 DEF SwitchOut, WithStat
    <3> HIDE DEF p
    <3> QED
      BY <1>0, <2>1, <2>4, <3>1, <3>2
  <2> QED
    BY <2>3, <2>4
<1>2. ASSUME NEW c \in CPU, NEW stored \in BOOLEAN, SwitchIn(c, stored) \/ Seed(c, stored)
      PROVE  /\ entries' \in {entries, WithStat(entries, cpu[c])}
             /\ cpu[c] \in alive \/ entries' = entries
             /\ UNCHANGED <<alive, run_ns, ctxMoved, ran>>
             /\ \A d \in CPU : sw'[d].prev \in {sw[d].prev, Idle}
  BY <1>0, <1>2 DEF SwitchIn, Seed, World, OnePlace, runHistory, NoSwitch
<1>3. ASSUME NEW c \in CPU, NEW stored \in BOOLEAN, SwitchIn(c, stored) \/ Seed(c, stored)
      PROVE  /\ t \in entries => t \in entries'
             /\ t \in entries' => t \in entries \/ t \in alive'
             /\ t \notin alive => (t \in entries' <=> t \in entries)
             /\ t \in Leaving' => t \in Leaving
  BY <1>2, <1>3 DEF WithStat, Leaving
<1>4. ASSUME NEW u \in Task, Spawn(u)
      PROVE  /\ UNCHANGED <<entries, run_ns, ctxMoved, ran, sw>>
             /\ alive' = alive \cup {u} /\ ran[u] = 0
  BY <1>4 DEF Spawn, runHistory
<1>5. ASSUME Tick PROVE UNCHANGED <<entries, run_ns, ctxMoved, ran, sw, alive>>
  BY <1>5 DEF Tick, kernelVars, runHistory
<1>6. CASE \E c \in CPU, stored \in BOOLEAN : SwitchIn(c, stored) \/ Seed(c, stored)
  BY <1>2, <1>3, <1>6
<1>7. CASE (\E u \in Task : Spawn(u)) \/ Tick
  BY <1>0, <1>4, <1>5, <1>7 DEF Leaving
<1> QED
  BY <1>1, <1>6, <1>7 DEF KernelStep

LEMMA FadingKernel ==
  ASSUME TypeOK, World, KernelStep, NEW t \in Task, Fading(t) PROVE Fading(t)'
<1>1. UNCHANGED <<pc, rawKeys, raw, rawCtx, running, prev, stale, deadPolls>>
  BY DEF KernelStep, Tick, SwitchOut, SwitchIn, Seed, Spawn, pollVars, pollHistory
<1>2. UNCHANGED StartSeen(t)
  BY <1>1 DEF StartSeen
<1>3. deadPolls[t] \in Nat
  BY DEF TypeOK
<1>4. deadPolls[t] >= 2 => deadPolls[t] >= 1
  BY <1>3
<1> QED
  BY <1>1, <1>2, <1>4, OnlyAliveMove DEF Fading

LEMMA FadingReading ==
  ASSUME TypeOK, World, PollStats \/ PollClock \/ PollOncpu \/ UNCHANGED vars,
         NEW t \in Task, Fading(t)
  PROVE  Fading(t)'
<1> USE CpuAssumption
<1>1. /\ UNCHANGED <<alive, sw, entries, ran, run_ns, prev, stale, deadPolls>> /\ Leaving' = Leaving
  BY DEF PollStats, PollClock, PollOncpu, vars, kernelVars, pollVars, runHistory, pollHistory,
         Leaving
<1>2. deadPolls[t] \in Nat /\ (deadPolls[t] >= 2 => deadPolls[t] >= 1)
  BY DEF TypeOK
<1>3. CASE PollStats
  BY <1>1, <1>2, <1>3 DEF PollStats, Fading
<1>4. CASE PollClock
  BY <1>1, <1>2, <1>4 DEF PollClock, kernelVars, Fading
<1>5. CASE PollOncpu
  <2>1. t \notin alive \cup Leaving => StartSeen(t)' = 0
    <3>1. SUFFICES ASSUME t \notin alive \cup Leaving PROVE oncpu_start[TidOf[t]].task # t
      BY <1>5 DEF PollOncpu, StartSeen
    <3>2. ~Running(t)
      BY <3>1 DEF World, OnePlace, Running
    <3>3. Entered(TidOf[t])
      BY DEF World
    <3> QED
      BY <3>1, <3>2, <3>3 DEF Entered
  <2> QED
    BY <1>1, <1>2, <1>5, <2>1 DEF PollOncpu, kernelVars, Fading
<1>6. CASE UNCHANGED vars
  BY <1>1, <1>6 DEF vars, pollVars, kernelVars, Fading, StartSeen
<1> QED
  BY <1>3, <1>4, <1>5, <1>6

(* liveRunDelta reports nothing for a counter that stands still off CPU.     *)
LEMMA NothingNew ==
  ASSUME NEW credit \in Credit, NEW current \in Nat, NEW at \in Nat
  PROVE  LiveRunDelta(credit, current, current, 0, at).report = 0
BY DEF LiveRunDelta, CounterDelta, Repaid, Least, Credit

LEMMA FadingSettle ==
  ASSUME LedgerInv, World, PollSettle, NEW t \in Task, Fading(t) PROVE Fading(t)'
<1> USE CpuAssumption
<1> DEFINE gone == Dropped
<1>0. TypeOK
  BY DEF LedgerInv
<1>1. /\ pc = "settle" /\ pc' = "idle" /\ UNCHANGED <<alive, sw, ran>> /\ Leaving' = Leaving
      /\ t \in entries' <=> t \in entries \ gone
      /\ run_ns'[t] = IF t \in gone THEN 0 ELSE run_ns[t]
      /\ t \in ctxMoved' => t \in ctxMoved
      /\ prev'[t] = IF t \in rawKeys \ gone THEN raw[t] ELSE 0
      /\ stale'[t] = IF t \in rawKeys \cap Self THEN 0
                     ELSE IF t \in rawKeys THEN StaleCount(t) ELSE stale[t]
      /\ deadPolls'[t] = IF t \in rawKeys \ (alive \cup Leaving) THEN deadPolls[t] + 1 ELSE 0
  BY DEF PollSettle, runHistory, Leaving
<1>2. t \in gone <=> (t \in rawKeys \ Self /\ StaleCount(t) >= StaleWindows)
                     \/ (t \in rawKeys /\ t \in Self)
  BY <1>0 DEF Dropped, Evicted, TypeOK
<1>3. /\ deadPolls[t] \in Nat /\ stale[t] \in Nat /\ StaleCount(t) \in Nat
      /\ StaleWindows \in Nat \ {0} /\ raw[t] \in Nat /\ prev[t] \in Nat /\ nowNS \in Nat
      /\ liveRuns[t] \in Credit
  BY <1>0 DEF TypeOK, StaleCount, Credit
<1> HIDE DEF gone
<1>4. CASE ~(t \in rawKeys \ (alive \cup Leaving))
  BY <1>1, <1>4 DEF Fading
<1>5. CASE t \in rawKeys \ (alive \cup Leaving) /\ t \in gone
  BY <1>1, <1>5 DEF Fading
<1>6. CASE t \in rawKeys \ (alive \cup Leaving) /\ t \notin gone
  <2>1. /\ t \in entries /\ ran[t] > 0 /\ deadPolls'[t] = deadPolls[t] + 1
        /\ stale'[t] = StaleCount(t) /\ StaleCount(t) < StaleWindows
        /\ prev'[t] = raw[t] /\ run_ns'[t] = run_ns[t]
    BY <1>1, <1>2, <1>3, <1>6 DEF Fading
  <2>2. CASE deadPolls[t] = 0
    <3>1. deadPolls'[t] = 1
      BY <2>1, <2>2
    <3> QED
      BY <1>1, <1>6, <2>1, <3>1 DEF Fading
  <2>3. CASE deadPolls[t] >= 1
    <3>1. raw[t] = run_ns[t] /\ t \notin ctxMoved /\ StartSeen(t) = 0
      BY <1>1, <1>6, <2>3 DEF Fading
    <3>2. stale'[t] + 2 >= deadPolls'[t]
      <4>1. CASE deadPolls[t] = 1
        BY <1>3, <2>1, <4>1
      <4>2. CASE deadPolls[t] >= 2
        <5>1. prev[t] = run_ns[t] /\ t \notin rawCtx /\ stale[t] + 2 >= deadPolls[t]
          BY <1>1, <2>1, <4>2 DEF Fading
        <5>2. Settled(t).report = 0
          BY <1>3, <3>1, <5>1, NothingNew DEF Settled
        <5>3. StaleCount(t) = stale[t] + 1
          BY <1>6, <5>1, <5>2 DEF StaleCount, Inactive
        <5> QED
          BY <1>3, <2>1, <5>1, <5>3
      <4> QED
        BY <1>3, <2>3, <4>1, <4>2
    <3>3. deadPolls'[t] < StaleWindows + 2
      BY <1>3, <2>1, <3>2
    <3> QED
      BY <1>1, <1>6, <2>1, <3>1, <3>2, <3>3 DEF Fading
  <2> QED
    BY <1>3, <2>2, <2>3
<1> QED
  BY <1>4, <1>5, <1>6

LEMMA FadingStep == LedgerInv /\ World /\ FadingInv /\ [Next]_vars => FadingInv'
<1> SUFFICES ASSUME LedgerInv, World, FadingInv, [Next]_vars, NEW t \in Task PROVE Fading(t)'
  BY DEF FadingInv
<1>1. Fading(t) /\ TypeOK
  BY DEF FadingInv, LedgerInv
<1>2. CASE KernelStep
  BY <1>1, <1>2, FadingKernel
<1>3. CASE PollStats \/ PollClock \/ PollOncpu \/ UNCHANGED vars
  BY <1>1, <1>3, FadingReading
<1>4. CASE PollSettle
  BY <1>1, <1>4, FadingSettle
<1> QED
  BY <1>2, <1>3, <1>4 DEF Next, Poll, KernelStep

(***************************************************************************)
(* shouldDeleteTask frees the slot of an exited task after at most           *)
(* staleWindowsBeforeDelete polls and two, debt or not.                     *)
(***************************************************************************)
THEOREM SlotsFreedInTime == Spec => []EvictionBound
<1> DEFINE IInv == LedgerInv /\ World /\ FadingInv
<1>1. Init => IInv
  BY LedgerInit, WorldInit, FadingInit
<1>2. IInv /\ [Next]_vars => IInv'
  BY LedgerStep, WorldStep, FadingStep DEF LedgerInv
<1>3. IInv => EvictionBound
  <2> SUFFICES ASSUME LedgerInv, FadingInv, NEW t \in Task, deadPolls[t] >= StaleWindows + 2,
                      t \in entries
               PROVE  FALSE
    BY DEF EvictionBound
  <2>1. deadPolls[t] \in Nat /\ StaleWindows \in Nat \ {0} /\ Fading(t)
    BY CpuAssumption DEF LedgerInv, TypeOK, FadingInv
  <2> QED
    BY <2>1 DEF Fading
<1> QED
  BY <1>1, <1>2, <1>3, PTL DEF Spec

----------------------------------------------------------------------------
(* Sums over finite sets.                                                  *)

SumOver(f, S) == MapThenSumSet(LAMBDA x : f[x], S)

First(s) == CHOOSE x \in s : TRUE

Ints(f, S) == \A x \in S : f[x] \in Int

(* The sum of f over s if g has that of the smaller subsets. *)
Adds(g, f, s) == IF s = {} THEN 0 ELSE f[First(s)] + g[s \ {First(s)}]

IsSum(g, f, S) == g = [s \in SUBSET S |-> Adds(g, f, s)]

(* A set of naturals that is not empty has a least member. *)
LEMMA LeastOf ==
  ASSUME NEW S \in SUBSET Nat, S # {}
  PROVE  \E i \in S : \A j \in S : i <= j
<1> DEFINE R == OpToRel(<, Nat)
<1>1. \E i \in S : \A j \in S : <<j, i>> \notin R
  BY WFMin, NatLessThanWellFounded
<1>2. \A i, j \in Nat : j < i => <<j, i>> \in R
  BY DEF OpToRel
<1> HIDE DEF R
<1>3. PICK i \in S : \A j \in S : <<j, i>> \notin R
  BY <1>1
<1>4. \A j \in S : ~(j < i)
  BY <1>2, <1>3
<1> QED
  BY <1>3, <1>4

(* What the library's fold computes. *)
LEMMA SumIs == ASSUME NEW f, NEW S
  PROVE SumOver(f, S) = (CHOOSE g : IsSum(g, f, S))[S]
BY DEF SumOver, MapThenSumSet, MapThenFoldSet, IsSum, Adds, First

(* The member taken first leaves a smaller subset. *)
LEMMA Smaller ==
  ASSUME NEW S, IsFiniteSet(S), NEW s \in SUBSET S, NEW x \in s
  PROVE  /\ IsFiniteSet(s) /\ IsFiniteSet(s \ {x})
         /\ Cardinality(s) \in Nat /\ Cardinality(s \ {x}) \in Nat
         /\ Cardinality(s \ {x}) = Cardinality(s) - 1
<1>1. IsFiniteSet(s)
  BY FS_Subset
<1>2. IsFiniteSet(s \ {x})
  BY <1>1, FS_RemoveElement
<1> QED
  BY <1>1, <1>2, FS_RemoveElement, FS_CardinalityType

LEMMA FirstOf == ASSUME NEW s, s # {} PROVE First(s) \in s
BY DEF First

(* The sum exists: one more application of its equation reaches subsets one larger. *)
LEMMA SumExists ==
  ASSUME NEW S, IsFiniteSet(S), NEW f, Ints(f, S)
  PROVE  \E g \in [SUBSET S -> Int] : IsSum(g, f, S)
<1> DEFINE Up(n) == {s \in SUBSET S : Cardinality(s) <= n}
           Good(n) == \E g \in [SUBSET S -> Int] : \A s \in Up(n) : g[s] = Adds(g, f, s)
           bad == {n \in Nat : ~Good(n)}
<1>1. Good(0)
  <2> DEFINE g == [s \in SUBSET S |-> 0]
  <2>1. \A s \in Up(0) : s = {}
    <3> SUFFICES ASSUME NEW s \in Up(0), s # {} PROVE FALSE
      OBVIOUS
    <3>1. First(s) \in s
      BY FirstOf
    <3>2. /\ Cardinality(s) \in Nat /\ Cardinality(s \ {First(s)}) \in Nat
          /\ Cardinality(s \ {First(s)}) = Cardinality(s) - 1
      BY <3>1, Smaller
    <3>3. Cardinality(s) <= 0
      OBVIOUS
    <3> QED
      BY <3>2, <3>3
  <2>2. g \in [SUBSET S -> Int] /\ \A s \in Up(0) : g[s] = Adds(g, f, s)
    BY <2>1 DEF Adds
  <2> QED
    BY <2>2
<1>2. ASSUME NEW n \in Nat, Good(n) PROVE Good(n + 1)
  <2>1. PICK g \in [SUBSET S -> Int] : \A s \in Up(n) : g[s] = Adds(g, f, s)
    BY <1>2
  <2> DEFINE h == [s \in SUBSET S |-> Adds(g, f, s)]
  <2>2. \A s \in SUBSET S : Adds(g, f, s) \in Int
    BY FirstOf DEF Adds, Ints
  <2>3. h \in [SUBSET S -> Int]
    BY <2>2
  <2>4. ASSUME NEW s \in Up(n + 1) PROVE h[s] = Adds(h, f, s)
    <3>1. CASE s = {}
      BY <3>1 DEF Adds
    <3>2. CASE s # {}
      <4>1. First(s) \in s
        BY <3>2, FirstOf
      <4>2. s \ {First(s)} \in Up(n)
        <5>1. /\ Cardinality(s) \in Nat /\ Cardinality(s \ {First(s)}) \in Nat
              /\ Cardinality(s \ {First(s)}) = Cardinality(s) - 1
          BY <4>1, Smaller
        <5>2. Cardinality(s) <= n + 1
          OBVIOUS
        <5> QED
          BY <5>1, <5>2
      <4>3. h[s \ {First(s)}] = g[s \ {First(s)}]
        BY <2>1, <4>2
      <4> QED
        BY <3>2, <4>3 DEF Adds
    <3> QED
      BY <3>1, <3>2
  <2> HIDE DEF h
  <2> QED
    BY <2>3, <2>4
<1> HIDE DEF Good
<1>3. bad = {}
  <2> SUFFICES ASSUME bad # {} PROVE FALSE
    OBVIOUS
  <2>1. PICK n \in bad : \A m \in bad : n <= m
    BY LeastOf
  <2>2. n # 0 /\ n - 1 \in Nat /\ n - 1 \notin bad
    BY <1>1, <2>1
  <2>3. Good((n - 1) + 1)
    BY <1>2, <2>2
  <2> QED
    BY <2>1, <2>2, <2>3
<1>4. Cardinality(S) \in Nat /\ \A s \in SUBSET S : Cardinality(s) <= Cardinality(S)
  BY FS_CardinalityType, FS_Subset
<1>5. Good(Cardinality(S))
  BY <1>3, <1>4
<1>6. PICK g \in [SUBSET S -> Int] : \A s \in Up(Cardinality(S)) : g[s] = Adds(g, f, s)
  BY <1>5 DEF Good
<1>7. g = [s \in SUBSET S |-> Adds(g, f, s)]
  BY <1>4, <1>6
<1> QED
  BY <1>7 DEF IsSum

(* The sum of a subset does not depend on the set it is taken from. *)
LEMMA SumUnique ==
  ASSUME NEW S, IsFiniteSet(S), NEW U \in SUBSET S, NEW f, NEW g, NEW h,
         IsSum(g, f, S), IsSum(h, f, U)
  PROVE  g[U] = h[U]
<1> DEFINE bad == {Cardinality(s) : s \in {t \in SUBSET U : g[t] # h[t]}}
<1>1. \A s \in SUBSET U : s \in SUBSET S /\ Cardinality(s) \in Nat
  BY FS_CardinalityType, FS_Subset
<1>2. bad = {}
  <2> SUFFICES ASSUME bad # {} PROVE FALSE
    OBVIOUS
  <2>0. bad \in SUBSET Nat
    BY <1>1
  <2>1. PICK n \in bad : \A m \in bad : n <= m
    <3> HIDE DEF bad
    <3> QED
      BY <2>0, LeastOf
  <2>2. PICK s \in SUBSET U : g[s] # h[s] /\ Cardinality(s) = n
    BY <2>1
  <2>3. g[s] = Adds(g, f, s) /\ h[s] = Adds(h, f, s)
    BY <1>1 DEF IsSum
  <2>4. s # {} /\ First(s) \in s
    BY <2>2, <2>3, FirstOf DEF Adds
  <2>5. Cardinality(s \ {First(s)}) = n - 1 /\ n \in Nat
    BY <1>1, <2>2, <2>4, Smaller
  <2>6. g[s \ {First(s)}] = h[s \ {First(s)}]
    <3> SUFFICES ASSUME g[s \ {First(s)}] # h[s \ {First(s)}] PROVE FALSE
      OBVIOUS
    <3>1. Cardinality(s \ {First(s)}) \in bad
      OBVIOUS
    <3> HIDE DEF bad
    <3> QED
      BY <2>1, <2>5, <3>1
  <2> QED
    BY <2>2, <2>3, <2>4, <2>6 DEF Adds
<1> QED
  BY <1>2

Sums(g, f, S) ==
  /\ g \in [SUBSET S -> Int] /\ IsSum(g, f, S)
  /\ \A U \in SUBSET S : SumOver(f, U) = g[U]

(* Any member may be taken first. *)
LEMMA SumAnyFirst ==
  ASSUME NEW S, IsFiniteSet(S), NEW f, Ints(f, S), NEW g, Sums(g, f, S)
  PROVE  \A y \in S : g[S] = f[y] + g[S \ {y}]
<1> DEFINE Good(s) == \A x \in s : g[s] = f[x] + g[s \ {x}]
           bad == {Cardinality(s) : s \in {t \in SUBSET S : ~Good(t)}}
<1>0. g \in [SUBSET S -> Int] /\ IsSum(g, f, S)
  BY DEF Sums
<1>1. \A s \in SUBSET S : Cardinality(s) \in Nat
  BY FS_CardinalityType, FS_Subset
<1>2. bad = {}
  <2> SUFFICES ASSUME bad # {} PROVE FALSE
    OBVIOUS
  <2>0. bad \in SUBSET Nat
    BY <1>1
  <2>1. PICK n \in bad : \A m \in bad : n <= m
    <3> HIDE DEF bad
    <3> QED
      BY <2>0, LeastOf
  <2>2. PICK s \in SUBSET S : ~Good(s) /\ Cardinality(s) = n
    BY <2>1
  <2>3. \A t \in SUBSET S : Cardinality(t) = n - 1 => Good(t)
    <3> SUFFICES ASSUME NEW t \in SUBSET S, Cardinality(t) = n - 1, ~Good(t) PROVE FALSE
      OBVIOUS
    <3>1. n - 1 \in bad
      OBVIOUS
    <3>2. n \in Nat
      BY <1>1, <2>2
    <3> HIDE DEF bad
    <3> QED
      BY <2>1, <3>1, <3>2
  <2>4. PICK x \in s : g[s] # f[x] + g[s \ {x}]
    BY <2>2
  <2> DEFINE c == First(s)
  <2>5. c \in s /\ g[s] = f[c] + g[s \ {c}]
    BY <1>0, FirstOf DEF IsSum, Adds
  <2> HIDE DEF c
  <2>6. x # c
    BY <2>4, <2>5
  <2>7. Cardinality(s \ {c}) = n - 1 /\ Cardinality(s \ {x}) = n - 1
    BY <2>2, <2>5, Smaller
  <2>8. g[s \ {c}] = f[x] + g[(s \ {c}) \ {x}] /\ g[s \ {x}] = f[c] + g[(s \ {x}) \ {c}]
    BY <2>3, <2>5, <2>6, <2>7
  <2>9. (s \ {c}) \ {x} = (s \ {x}) \ {c}
    OBVIOUS
  <2>10. f[x] \in Int /\ f[c] \in Int /\ g[(s \ {x}) \ {c}] \in Int
    BY <1>0, <2>5 DEF Ints
  <2>11. \A a, b, e \in Int : a + (b + e) = b + (a + e)
    OBVIOUS
  <2>12. g[s] = f[c] + (f[x] + g[(s \ {x}) \ {c}])
    BY <2>5, <2>8, <2>9
  <2>13. f[x] + g[s \ {x}] = f[x] + (f[c] + g[(s \ {x}) \ {c}])
    BY <2>8
  <2>14. g[s] = f[x] + g[s \ {x}]
    <3> HIDE DEF bad, Good
    <3> QED
      BY <2>10, <2>11, <2>12, <2>13
  <2> QED
    BY <2>4, <2>14
<1>3. S \in SUBSET S
  OBVIOUS
<1> QED
  BY <1>2, <1>3

(* Sums of the subsets of S agree with one function. *)
LEMMA SumsOf ==
  ASSUME NEW S, IsFiniteSet(S), NEW f, Ints(f, S)
  PROVE  \E g : Sums(g, f, S)
<1>1. PICK g \in [SUBSET S -> Int] : IsSum(g, f, S)
  BY SumExists
<1>2. ASSUME NEW U \in SUBSET S PROVE SumOver(f, U) = g[U]
  <2> DEFINE h == CHOOSE h : IsSum(h, f, U)
  <2>1. IsFiniteSet(U) /\ Ints(f, U)
    BY FS_Subset DEF Ints
  <2>2. IsSum(h, f, U)
    <3>1. \E k : IsSum(k, f, U)
      BY <2>1, SumExists
    <3> QED
      BY <3>1
  <2>3. SumOver(f, U) = h[U]
    BY SumIs
  <2> HIDE DEF h
  <2> QED
    BY <1>1, <2>2, <2>3, SumUnique
<1>3. Sums(g, f, S)
  BY <1>1, <1>2 DEF Sums
<1> QED
  BY <1>3

LEMMA SumType ==
  ASSUME NEW S, IsFiniteSet(S), NEW f, Ints(f, S)
  PROVE  SumOver(f, S) \in Int
<1>1. PICK g : Sums(g, f, S)
  BY SumsOf
<1> QED
  BY <1>1 DEF Sums

LEMMA SumEmpty == ASSUME NEW f PROVE SumOver(f, {}) = 0
<1>1. IsFiniteSet({}) /\ Ints(f, {})
  BY FS_EmptySet DEF Ints
<1>2. PICK g : Sums(g, f, {})
  BY <1>1, SumsOf
<1> QED
  BY <1>2 DEF Sums, IsSum, Adds

LEMMA SumRemove ==
  ASSUME NEW S, IsFiniteSet(S), NEW f, Ints(f, S), NEW y \in S
  PROVE  SumOver(f, S) = f[y] + SumOver(f, S \ {y})
<1>1. PICK g : Sums(g, f, S)
  BY SumsOf
<1>2. S \in SUBSET S /\ S \ {y} \in SUBSET S
  OBVIOUS
<1>3. g[S] = f[y] + g[S \ {y}]
  BY <1>1, SumAnyFirst
<1> QED
  BY <1>1, <1>2, <1>3 DEF Sums

LEMMA SumAdd ==
  ASSUME NEW S, IsFiniteSet(S), NEW f, NEW y, y \notin S, Ints(f, S \cup {y})
  PROVE  SumOver(f, S \cup {y}) = f[y] + SumOver(f, S)
<1>1. IsFiniteSet(S \cup {y})
  BY FS_AddElement
<1>2. (S \cup {y}) \ {y} = S
  OBVIOUS
<1> QED
  BY <1>1, <1>2, SumRemove

(* The sum depends on the values in the set only. *)
LEMMA SumSame ==
  ASSUME NEW S, IsFiniteSet(S), NEW f, Ints(f, S), NEW h, \A x \in S : h[x] = f[x]
  PROVE  SumOver(h, S) = SumOver(f, S)
<1>1. PICK g : Sums(g, f, S)
  BY SumsOf
<1>2. Ints(h, S)
  BY DEF Ints
<1>3. PICK k : Sums(k, h, S)
  BY <1>2, SumsOf
<1>4. IsSum(g, h, S)
  <2>1. \A s \in SUBSET S : Adds(g, h, s) = Adds(g, f, s)
    BY FirstOf DEF Adds
  <2> QED
    BY <1>1, <2>1 DEF Sums, IsSum
<1>5. g[S] = k[S]
  BY <1>3, <1>4, SumUnique DEF Sums
<1> QED
  BY <1>1, <1>3, <1>5 DEF Sums

LEMMA SumZero ==
  ASSUME NEW S, IsFiniteSet(S), NEW f, \A x \in S : f[x] = 0
  PROVE  SumOver(f, S) = 0
<1> DEFINE k == [s \in SUBSET S |-> 0]
<1>1. Ints(f, S)
  BY DEF Ints
<1>2. PICK g : Sums(g, f, S)
  BY <1>1, SumsOf
<1>3. IsSum(k, f, S)
  <2>1. \A s \in SUBSET S : Adds(k, f, s) = 0
    BY FirstOf DEF Adds
  <2> QED
    BY <2>1 DEF IsSum
<1> HIDE DEF k
<1>4. g[S] = k[S]
  BY <1>2, <1>3, SumUnique DEF Sums
<1> QED
  BY <1>2, <1>4 DEF Sums, k

(* Smaller values have a smaller sum. *)
LEMMA SumAtMost ==
  ASSUME NEW S, IsFiniteSet(S), NEW f, Ints(f, S), NEW h, Ints(h, S),
         \A x \in S : h[x] <= f[x]
  PROVE  SumOver(h, S) <= SumOver(f, S)
<1>1. PICK g : Sums(g, f, S)
  BY SumsOf
<1>2. PICK k : Sums(k, h, S)
  BY SumsOf
<1> DEFINE bad == {Cardinality(s) : s \in {t \in SUBSET S : ~(k[t] <= g[t])}}
<1>3. \A s \in SUBSET S : Cardinality(s) \in Nat
  BY FS_CardinalityType, FS_Subset
<1>4. bad = {}
  <2> SUFFICES ASSUME bad # {} PROVE FALSE
    OBVIOUS
  <2>0. bad \in SUBSET Nat
    BY <1>3
  <2>1. PICK n \in bad : \A m \in bad : n <= m
    <3> HIDE DEF bad
    <3> QED
      BY <2>0, LeastOf
  <2>2. PICK s \in SUBSET S : ~(k[s] <= g[s]) /\ Cardinality(s) = n
    BY <2>1
  <2>3. g[s] = Adds(g, f, s) /\ k[s] = Adds(k, h, s)
    BY <1>1, <1>2 DEF Sums, IsSum
  <2>4. s # {} /\ First(s) \in s
    BY <2>2, <2>3, FirstOf DEF Adds
  <2> DEFINE c == First(s)
             t == s \ {c}
  <2>5. Cardinality(t) = n - 1 /\ n \in Nat
    BY <1>3, <2>2, <2>4, Smaller
  <2>6. k[t] <= g[t]
    <3> SUFFICES ASSUME ~(k[t] <= g[t]) PROVE FALSE
      OBVIOUS
    <3>1. Cardinality(t) \in bad
      OBVIOUS
    <3> HIDE DEF bad
    <3> QED
      BY <2>1, <2>5, <3>1
  <2>7. g[s] = f[c] + g[t] /\ k[s] = h[c] + k[t]
    BY <2>3, <2>4 DEF Adds
  <2>8. /\ f[c] \in Int /\ h[c] \in Int /\ h[c] <= f[c]
        /\ g[t] \in Int /\ k[t] \in Int
    BY <1>1, <1>2, <2>4 DEF Sums, Ints
  <2> HIDE DEF c, t, bad
  <2> QED
    BY <2>2, <2>6, <2>7, <2>8
<1>5. S \in SUBSET S
  OBVIOUS
<1>6. k[S] <= g[S]
  BY <1>4, <1>5
<1> QED
  BY <1>1, <1>2, <1>6 DEF Sums

(* One value raised. *)
LEMMA SumRaised ==
  ASSUME NEW S, IsFiniteSet(S), NEW f, Ints(f, S), NEW y \in S, NEW x \in Int,
         NEW h, h[y] = f[y] + x, \A z \in S : z # y => h[z] = f[z]
  PROVE  SumOver(h, S) = SumOver(f, S) + x
<1> DEFINE T == S \ {y}
<1>1. IsFiniteSet(T) /\ Ints(f, T) /\ f[y] \in Int
  BY FS_RemoveElement DEF Ints
<1>2. Ints(h, S)
  BY <1>1 DEF Ints
<1>3. SumOver(h, T) = SumOver(f, T) /\ SumOver(f, T) \in Int
  BY <1>1, SumSame, SumType
<1>4. SumOver(f, S) = f[y] + SumOver(f, T) /\ SumOver(h, S) = h[y] + SumOver(h, T)
  BY <1>2, SumRemove
<1> QED
  BY <1>1, <1>3, <1>4

----------------------------------------------------------------------------
(* Run-queue wait accounting.                                              *)

\* The tasks with the thread id d, over time.
On(d) == {t \in Task : TidOf[t] = d}

\* Nothing is known to have gone wrong with the timestamps of d.
Undisturbed(d) == ~map_update_fail /\ d \notin raced \cup cutTids

\* Where tasks can be; only one that was preempted sleeps in a queue.
RunqPlaces ==
  /\ \A t, u \in alive : TidOf[t] = TidOf[u] => t = u
  /\ \A c \in CPU : cpu[c] # Idle => cpu[c] \in alive \ queued
  /\ \A c, d \in CPU : cpu[c] = cpu[d] /\ cpu[c] # Idle => c = d
  /\ queued \subseteq alive
  /\ \A t \in queued \cap blocking : queuedAt[t] # 0
  /\ \A t \in Task \ queued : queuedAt[t] = 0
  /\ \A t \in Task : queuedAt[t] <= now

\* A timestamp says since when its task waits.
RunqWaits ==
  /\ \A t \in alive : Undisturbed(TidOf[t]) => enqueue_ts[TidOf[t]] = queuedAt[t]
  /\ \A d \in Tid : Undisturbed(d) /\ (\A t \in alive : TidOf[t] # d) => enqueue_ts[d] = 0

\* What was charged so far is what the tasks waited.
RunqCharges ==
  /\ \A t \in Task \ entries : runq_ns[t] = 0 /\ runq_count[t] = 0
  /\ \A t \in Task : dispatches[t] = 0 => waited[t] = 0
  /\ \A t \in (alive \cup entries) \ Self :
       Undisturbed(TidOf[t]) => runq_ns[t] = waited[t] /\ runq_count[t] = dispatches[t]

\* The waits charged to a thread id fit in the time before its timestamp.
Within(d) == SumOver(runq_ns, On(d)) < IF enqueue_ts[d] # 0 THEN enqueue_ts[d] ELSE now

RunqBudget ==
  /\ now > 0 /\ \A d \in Tid : enqueue_ts[d] <= now /\ Within(d)

RunqInv == RunqTypeOK /\ RunqPlaces /\ RunqWaits /\ RunqCharges /\ RunqBudget

(* The earliest timestamp stays. *)
LEMMA Recorded ==
  ASSUME NEW q \in [Tid -> Nat], NEW d \in Tid, now \in Nat,
         NEW r, r = RecordEnqueue(q, d)
  PROVE  /\ r \in [Tid -> Nat] /\ \A e \in Tid : e # d => r[e] = q[e]
         /\ r[d] = (IF q[d] = 0 /\ ~EnqueueLost(q, d) THEN now ELSE q[d])
BY DEF RecordEnqueue, EnqueueLost

(* The parts of a switch. *)
Stays(c, preempt, exits) == cpu[c] # Idle /\ ~exits /\ (preempt \/ cpu[c] \notin blocking)
Waiting(c, stays) ==
  IF stays THEN RecordEnqueue(enqueue_ts, TidOf[cpu[c]]) ELSE enqueue_ts
KeysAfter(c) == IF cpu[c] = Idle THEN entries ELSE WithStat(entries, cpu[c])
Charged(n, keys, waiting) ==
  n # Idle /\ StatAvailable(keys, n) /\ waiting[TidOf[n]] # 0

SwitchPlaces(c, n, stays, exits) ==
  /\ n # cpu[c] /\ (n # Idle => n \in queued) /\ (exits => cpu[c] # Idle /\ ~stays)
  /\ cpu' = [cpu EXCEPT ![c] = n]
  /\ alive' = (IF exits THEN alive \ {cpu[c]} ELSE alive)
  /\ blocking' = (IF exits THEN blocking \ {cpu[c]} ELSE blocking)
  /\ queued' = (queued \ {n}) \cup (IF stays THEN {cpu[c]} ELSE {})
  /\ queuedAt' = [t \in Task |-> IF t = n THEN 0
                                 ELSE IF stays /\ t = cpu[c] THEN now ELSE queuedAt[t]]
  /\ switched' = [switched EXCEPT ![c] = now]
  /\ UNCHANGED <<now, raced, cutTids>>

SwitchMaps(c, n, stays, keys, waiting) ==
  /\ entries' = (IF n = Idle THEN keys ELSE WithStat(keys, n))
  /\ runq_ns' = (IF Charged(n, keys, waiting)
                 THEN [runq_ns EXCEPT ![n] = @ + (now - waiting[TidOf[n]])] ELSE runq_ns)
  /\ runq_count' = (IF Charged(n, keys, waiting)
                    THEN [runq_count EXCEPT ![n] = @ + 1] ELSE runq_count)
  /\ enqueue_ts' = Dequeued(waiting, n)
  /\ map_update_fail' = (\/ map_update_fail
                         \/ stays /\ EnqueueLost(enqueue_ts, TidOf[cpu[c]])
                         \/ \/ cpu[c] # Idle /\ ~StatAvailable(entries, cpu[c])
                            \/ n # Idle /\ ~StatAvailable(keys, n))
  /\ IF n # Idle /\ queuedAt[n] # 0
     THEN /\ waited' = [waited EXCEPT ![n] = @ + (now - queuedAt[n])]
          /\ dispatches' = [dispatches EXCEPT ![n] = @ + 1]
     ELSE UNCHANGED <<waited, dispatches>>

LEMMA SwitchIs ==
  ASSUME NEW c \in CPU, NEW n \in Task \cup {Idle}, NEW preempt \in BOOLEAN, NEW exits \in BOOLEAN,
         Switch(c, n, preempt, exits), NEW stays, stays = Stays(c, preempt, exits),
         NEW keys, keys = KeysAfter(c), NEW waiting, waiting = Waiting(c, stays)
  PROVE  SwitchPlaces(c, n, stays, exits) /\ SwitchMaps(c, n, stays, keys, waiting)
<1>1. SwitchPlaces(c, n, stays, exits)
  BY DEF Switch, Stays, SwitchPlaces
<1>2. SwitchMaps(c, n, stays, keys, waiting)
  BY DEF Switch, Stays, KeysAfter, Waiting, Charged, SwitchMaps
<1> QED
  BY <1>1, <1>2

(* What a switch hands from one map operation to the next. *)
SwitchArgs(c, stays, keys, waiting) ==
  /\ stays \in BOOLEAN /\ (stays => cpu[c] # Idle)
  /\ entries \subseteq keys /\ keys \subseteq Task /\ keys \subseteq entries \cup {cpu[c]}
  /\ waiting \in [Tid -> Nat] /\ \A d \in Tid : waiting[d] <= now
  /\ \A d \in Tid : (stays /\ d = TidOf[cpu[c]]) \/ waiting[d] = enqueue_ts[d]
  /\ stays => waiting[TidOf[cpu[c]]] =
                IF enqueue_ts[TidOf[cpu[c]]] = 0
                   /\ ~EnqueueLost(enqueue_ts, TidOf[cpu[c]])
                THEN now ELSE enqueue_ts[TidOf[cpu[c]]]

LEMMA SwitchArgsAre ==
  ASSUME RunqTypeOK, RunqBudget, NEW c \in CPU, NEW preempt \in BOOLEAN, NEW exits \in BOOLEAN,
         NEW stays, stays = Stays(c, preempt, exits),
         NEW keys, keys = KeysAfter(c), NEW waiting, waiting = Waiting(c, stays)
  PROVE  SwitchArgs(c, stays, keys, waiting)
<1>1. stays \in BOOLEAN /\ (stays => cpu[c] # Idle)
  BY DEF Stays
<1>2. /\ cpu[c] \in Task \cup {Idle} /\ entries \in SUBSET Task /\ now \in Nat
      /\ enqueue_ts \in [Tid -> Nat] /\ TidOf \in [Task -> Tid]
      /\ \A d \in Tid : enqueue_ts[d] <= now
  BY RunqAssumption DEF RunqTypeOK, RunqBudget
<1>3. entries \subseteq keys /\ keys \subseteq Task /\ keys \subseteq entries \cup {cpu[c]}
  BY <1>2 DEF KeysAfter, WithStat
<1>4. CASE stays
  <2> DEFINE e == TidOf[cpu[c]]
  <2>1. e \in Tid
    BY <1>1, <1>2, <1>4
  <2>2. waiting = RecordEnqueue(enqueue_ts, e)
    BY <1>4 DEF Waiting
  <2> HIDE DEF e
  <2>3. /\ waiting \in [Tid -> Nat] /\ \A d \in Tid : d # e => waiting[d] = enqueue_ts[d]
        /\ waiting[e] = (IF enqueue_ts[e] = 0 /\ ~EnqueueLost(enqueue_ts, e)
                         THEN now ELSE enqueue_ts[e])
    BY <1>2, <2>1, <2>2, Recorded
  <2>4. \A d \in Tid : waiting[d] <= now
    BY <1>2, <2>3
  <2>5. \A d \in Tid : (stays /\ d = e) \/ waiting[d] = enqueue_ts[d]
    BY <1>4, <2>3
  <2> QED
    BY <1>1, <1>3, <2>3, <2>4, <2>5 DEF SwitchArgs, e
<1>5. CASE ~stays
  <2>1. waiting = enqueue_ts
    BY <1>5 DEF Waiting
  <2> QED
    BY <1>1, <1>2, <1>3, <1>5, <2>1 DEF SwitchArgs
<1> QED
  BY <1>1, <1>4, <1>5

(* A switch moves its tasks. *)
LEMMA SwitchPlacesKept ==
  ASSUME RunqTypeOK, RunqPlaces, RunqBudget, NEW c \in CPU, NEW n \in Task \cup {Idle},
         NEW stays \in BOOLEAN, NEW exits \in BOOLEAN, SwitchPlaces(c, n, stays, exits),
         stays => cpu[c] # Idle
  PROVE  RunqPlaces'
<1> DEFINE p == cpu[c]
<1>0. /\ Idle \notin Task /\ cpu \in [CPU -> Task \cup {Idle}] /\ now \in Nat /\ now > 0
      /\ queued \subseteq alive /\ alive \subseteq Task /\ queuedAt \in [Task -> Nat]
  BY RunqAssumption DEF RunqTypeOK, RunqPlaces, RunqBudget
<1>1. /\ n # p /\ (n # Idle => n \in queued) /\ (exits => p # Idle /\ ~stays)
      /\ cpu' = [cpu EXCEPT ![c] = n]
      /\ alive' = (IF exits THEN alive \ {p} ELSE alive)
      /\ blocking' = (IF exits THEN blocking \ {p} ELSE blocking)
      /\ queued' = (queued \ {n}) \cup (IF stays THEN {p} ELSE {})
      /\ queuedAt' = [t \in Task |-> IF t = n THEN 0
                                     ELSE IF stays /\ t = p THEN now ELSE queuedAt[t]]
      /\ now' = now
  BY DEF SwitchPlaces
<1>2. /\ p # Idle => p \in alive \ queued
      /\ \A b \in CPU : cpu[b] # Idle => cpu[b] \in alive \ queued
      /\ \A b \in CPU : b # c /\ cpu[b] # Idle => cpu[b] # p
      /\ \A b, d \in CPU : cpu[b] = cpu[d] /\ cpu[b] # Idle => b = d
  BY <1>0 DEF RunqPlaces
<1>3. /\ cpu'[c] = n /\ \A b \in CPU : b # c => cpu'[b] = cpu[b]
  BY <1>0, <1>1
<1> HIDE DEF p
<1>4. \A t, u \in alive' : TidOf[t] = TidOf[u] => t = u
  BY <1>1 DEF RunqPlaces
<1>5. \A b \in CPU : cpu'[b] # Idle => cpu'[b] \in alive' \ queued'
  <2>1. n # Idle => n \in alive' \ queued'
    BY <1>0, <1>1
  <2>2. \A b \in CPU : b # c /\ cpu[b] # Idle => cpu[b] \in alive' \ queued'
    BY <1>1, <1>2
  <2> QED
    BY <1>3, <2>1, <2>2
<1>6. \A b, d \in CPU : cpu'[b] = cpu'[d] /\ cpu'[b] # Idle => b = d
  BY <1>1, <1>2, <1>3
<1>7. queued' \subseteq alive'
  BY <1>0, <1>1, <1>2, stays => p # Idle DEF p
<1>8. ASSUME NEW t \in queued', t \in blocking' PROVE queuedAt'[t] # 0
  <2>1. t # n
    BY <1>1
  <2>2. t \in Task
    BY <1>0, <1>1, <1>7
  <2>3. CASE stays /\ t = p
    BY <1>0, <1>1, <2>1, <2>2, <2>3
  <2>4. CASE ~(stays /\ t = p)
    <3>1. t \in queued /\ t \in blocking
      BY <1>1, <1>8, <2>4
    <3> QED
      BY <1>1, <2>1, <2>2, <2>4, <3>1 DEF RunqPlaces
  <2> QED
    BY <2>3, <2>4
<1>9. ASSUME NEW t \in Task, t \notin queued' PROVE queuedAt'[t] = 0
  <2>1. t = n \/ t \notin queued
    BY <1>1, <1>9
  <2>2. ~(stays /\ t = p)
    BY <1>1, <1>9
  <2> QED
    BY <1>1, <2>1, <2>2 DEF RunqPlaces
<1>10. \A t \in Task : queuedAt'[t] <= now'
  BY <1>0, <1>1 DEF RunqPlaces
<1> QED
  BY <1>4, <1>5, <1>6, <1>7, <1>8, <1>9, <1>10 DEF RunqPlaces

(* What the proofs about one switch use of the state before it. *)
LEMMA Scheduled ==
  ASSUME RunqTypeOK, RunqPlaces, RunqBudget, NEW c \in CPU
  PROVE  /\ Idle \notin Task /\ TidOf \in [Task -> Tid] /\ now \in Nat /\ now > 0
         /\ queued \subseteq alive /\ alive \subseteq Task /\ entries \subseteq Task
         /\ cpu[c] # Idle => cpu[c] \in alive \ queued /\ queuedAt[cpu[c]] = 0
         /\ \A t, u \in alive : TidOf[t] = TidOf[u] => t = u
         /\ queuedAt \in [Task -> Nat] /\ \A t \in Task : queuedAt[t] <= now
         /\ enqueue_ts \in [Tid -> Nat] /\ \A d \in Tid : enqueue_ts[d] <= now
<1>1. /\ Idle \notin Task /\ TidOf \in [Task -> Tid] /\ now \in Nat /\ now > 0
      /\ queued \subseteq alive /\ alive \subseteq Task /\ entries \subseteq Task
      /\ queuedAt \in [Task -> Nat] /\ enqueue_ts \in [Tid -> Nat]
      /\ \A d \in Tid : enqueue_ts[d] <= now
  BY RunqAssumption DEF RunqTypeOK, RunqPlaces, RunqBudget
<1>2. cpu[c] # Idle => cpu[c] \in alive \ queued
  BY DEF RunqPlaces
<1>3. cpu[c] # Idle => queuedAt[cpu[c]] = 0
  BY <1>1, <1>2 DEF RunqPlaces
<1>4. /\ \A t, u \in alive : TidOf[t] = TidOf[u] => t = u
      /\ \A t \in Task : queuedAt[t] <= now
  BY DEF RunqPlaces
<1> QED
  BY <1>1, <1>2, <1>3, <1>4

(* The task dispatched has a thread id of its own, and nobody else's timestamp goes. *)
LEMMA SwitchStamps ==
  ASSUME RunqTypeOK, RunqPlaces, RunqBudget, NEW c \in CPU, NEW n \in Task \cup {Idle},
         NEW stays \in BOOLEAN, NEW exits \in BOOLEAN, NEW keys, NEW waiting,
         SwitchArgs(c, stays, keys, waiting),
         SwitchPlaces(c, n, stays, exits), SwitchMaps(c, n, stays, keys, waiting)
  PROVE  /\ n # Idle => /\ n \in alive /\ n \in alive' /\ TidOf[n] \in Tid
                        /\ waiting[TidOf[n]] = enqueue_ts[TidOf[n]]
                        /\ enqueue_ts'[TidOf[n]] = 0
         /\ \A d \in Tid : (n # Idle /\ d = TidOf[n]) \/ enqueue_ts'[d] = waiting[d]
<1> DEFINE p == cpu[c]
<1>1. /\ Idle \notin Task /\ TidOf \in [Task -> Tid]
      /\ queued \subseteq alive /\ alive \subseteq Task
      /\ p # Idle => p \in alive \ queued
      /\ \A t, u \in alive : TidOf[t] = TidOf[u] => t = u
  BY Scheduled
<1>2. /\ n # p /\ (n # Idle => n \in queued)
      /\ alive' = (IF exits THEN alive \ {p} ELSE alive)
  BY DEF SwitchPlaces
<1>3. enqueue_ts' = Dequeued(waiting, n)
  BY DEF SwitchMaps
<1>4. /\ stays => p # Idle
      /\ waiting \in [Tid -> Nat]
      /\ \A d \in Tid : (stays /\ d = TidOf[p]) \/ waiting[d] = enqueue_ts[d]
  BY DEF SwitchArgs
<1> HIDE DEF p
<1>5. n # Idle => /\ n \in alive /\ n \in alive' /\ TidOf[n] \in Tid
                  /\ waiting[TidOf[n]] = enqueue_ts[TidOf[n]]
  BY <1>1, <1>2, <1>4
<1>6. n # Idle => enqueue_ts'[TidOf[n]] = 0
  BY <1>3, <1>4, <1>5 DEF Dequeued
<1>7. \A d \in Tid : (n # Idle /\ d = TidOf[n]) \/ enqueue_ts'[d] = waiting[d]
  BY <1>3, <1>4 DEF Dequeued
<1> QED
  BY <1>5, <1>6, <1>7

(* A switch starts the wait of the task it preempts and ends that of the next. *)
LEMMA SwitchWaitsKept ==
  ASSUME RunqTypeOK, RunqPlaces, RunqBudget, RunqWaits,
         NEW c \in CPU, NEW n \in Task \cup {Idle},
         NEW stays \in BOOLEAN, NEW exits \in BOOLEAN, NEW keys, NEW waiting,
         SwitchArgs(c, stays, keys, waiting),
         SwitchPlaces(c, n, stays, exits), SwitchMaps(c, n, stays, keys, waiting)
  PROVE  RunqWaits'
<1> DEFINE p == cpu[c]
           e == TidOf[p]
<1>1. /\ Idle \notin Task /\ TidOf \in [Task -> Tid]
      /\ queued \subseteq alive /\ alive \subseteq Task
      /\ p # Idle => p \in alive \ queued /\ queuedAt[p] = 0
      /\ \A t, u \in alive : TidOf[t] = TidOf[u] => t = u
  BY Scheduled
<1>2. /\ n # Idle => /\ n \in alive /\ n \in alive' /\ TidOf[n] \in Tid
                     /\ enqueue_ts'[TidOf[n]] = 0
      /\ \A d \in Tid : (n # Idle /\ d = TidOf[n]) \/ enqueue_ts'[d] = waiting[d]
  BY SwitchStamps
<1>3. /\ n # p
      /\ (exits => p # Idle /\ ~stays)
      /\ alive' = (IF exits THEN alive \ {p} ELSE alive)
      /\ queuedAt' = [t \in Task |-> IF t = n THEN 0
                                     ELSE IF stays /\ t = p THEN now ELSE queuedAt[t]]
      /\ raced' = raced /\ cutTids' = cutTids
  BY DEF SwitchPlaces
<1>4. /\ stays => p # Idle
      /\ \A d \in Tid : (stays /\ d = e) \/ waiting[d] = enqueue_ts[d]
      /\ stays => waiting[e] = IF enqueue_ts[e] = 0 /\ ~EnqueueLost(enqueue_ts, e)
                               THEN now ELSE enqueue_ts[e]
  BY DEF SwitchArgs
<1>5. \A d \in Tid : Undisturbed(d)' =>
         Undisturbed(d) /\ ~(stays /\ EnqueueLost(enqueue_ts, e))
  BY <1>3 DEF Undisturbed, SwitchMaps
<1>6. \A t \in alive : Undisturbed(TidOf[t]) => enqueue_ts[TidOf[t]] = queuedAt[t]
  BY DEF RunqWaits
<1>7. \A d \in Tid : Undisturbed(d) /\ (\A t \in alive : TidOf[t] # d) => enqueue_ts[d] = 0
  BY DEF RunqWaits
<1> HIDE DEF p, e
<1>8. ASSUME NEW t \in alive', Undisturbed(TidOf[t])'
      PROVE  enqueue_ts'[TidOf[t]] = queuedAt'[t]
  <2>1. t \in alive /\ t \in Task /\ TidOf[t] \in Tid
    BY <1>1, <1>3
  <2>2. Undisturbed(TidOf[t])' <=> Undisturbed(TidOf[t])'
    OBVIOUS
  <2>3. Undisturbed(TidOf[t]) /\ ~(stays /\ EnqueueLost(enqueue_ts, e))
    BY <1>5, <1>8, <2>1
  <2>4. CASE t = n
    BY <1>1, <1>2, <1>3, <2>1, <2>4
  <2>5. CASE t # n
    <3>1. enqueue_ts'[TidOf[t]] = waiting[TidOf[t]]
      BY <1>1, <1>2, <2>1, <2>5
    <3>2. CASE stays /\ t = p
      <4>1. enqueue_ts[e] = 0 /\ e = TidOf[t]
        BY <1>1, <1>4, <1>6, <2>1, <2>3, <3>2 DEF e
      <4>2. waiting[e] = now
        BY <1>4, <2>3, <3>2, <4>1
      <4>3. queuedAt'[t] = now
        BY <1>3, <2>1, <2>5, <3>2
      <4> QED
        BY <3>1, <4>1, <4>2, <4>3
    <3>3. CASE ~(stays /\ t = p)
      <4>1. ~(stays /\ TidOf[t] = e)
        BY <1>1, <1>4, <2>1, <3>3 DEF e
      <4>2. waiting[TidOf[t]] = queuedAt[t]
        BY <1>4, <1>6, <2>1, <2>3, <4>1
      <4>3. queuedAt'[t] = queuedAt[t]
        BY <1>3, <2>1, <2>5, <3>3
      <4> QED
        BY <3>1, <4>2, <4>3
    <3> QED
      BY <3>2, <3>3
  <2> QED
    BY <2>4, <2>5
<1>9. ASSUME NEW d \in Tid, Undisturbed(d)', \A t \in alive' : TidOf[t] # d
      PROVE  enqueue_ts'[d] = 0
  <2>1. enqueue_ts'[d] = waiting[d]
    BY <1>2, <1>9
  <2>2. ~(stays /\ d = e)
    BY <1>1, <1>3, <1>4, <1>9 DEF e
  <2>3. enqueue_ts'[d] = enqueue_ts[d]
    BY <1>4, <2>1, <2>2
  <2>4. Undisturbed(d)
    BY <1>5, <1>9
  <2>5. CASE \A t \in alive : TidOf[t] # d
    BY <1>7, <2>3, <2>4, <2>5
  <2>6. CASE \E t \in alive : TidOf[t] = d
    <3>1. p \in alive /\ TidOf[p] = d /\ queuedAt[p] = 0
      BY <1>1, <1>3, <1>9, <2>6
    <3> QED
      BY <1>6, <2>3, <2>4, <3>1
  <2> QED
    BY <2>5, <2>6
<1> QED
  BY <1>8, <1>9 DEF RunqWaits

(* What a switch charges: the wait of the task dispatched. *)
SwitchCharge(n, keys, waiting) ==
  /\ \A t \in Task \ {n} : /\ runq_ns'[t] = runq_ns[t] /\ runq_count'[t] = runq_count[t]
                           /\ waited'[t] = waited[t] /\ dispatches'[t] = dispatches[t]
  /\ n \in Task /\ Charged(n, keys, waiting) =>
       /\ runq_ns'[n] = runq_ns[n] + (now - waiting[TidOf[n]])
       /\ runq_count'[n] = runq_count[n] + 1
  /\ n \in Task /\ ~Charged(n, keys, waiting) =>
       runq_ns'[n] = runq_ns[n] /\ runq_count'[n] = runq_count[n]
  /\ n \in Task /\ queuedAt[n] # 0 => /\ waited'[n] = waited[n] + (now - queuedAt[n])
                                      /\ dispatches'[n] = dispatches[n] + 1
  /\ n \in Task /\ queuedAt[n] = 0 =>
       waited'[n] = waited[n] /\ dispatches'[n] = dispatches[n]

LEMMA SwitchChargeIs ==
  ASSUME RunqTypeOK, NEW c \in CPU, NEW n \in Task \cup {Idle}, NEW stays, NEW keys, NEW waiting,
         SwitchMaps(c, n, stays, keys, waiting)
  PROVE  SwitchCharge(n, keys, waiting)
<1>1. /\ runq_ns \in [Task -> Nat] /\ runq_count \in [Task -> Nat]
      /\ waited \in [Task -> Nat] /\ dispatches \in [Task -> Nat] /\ Idle \notin Task
  BY RunqAssumption DEF RunqTypeOK
<1>2. CASE Charged(n, keys, waiting)
  <2>1. /\ runq_ns' = [runq_ns EXCEPT ![n] = @ + (now - waiting[TidOf[n]])]
        /\ runq_count' = [runq_count EXCEPT ![n] = @ + 1]
    BY <1>2 DEF SwitchMaps
  <2>2. /\ n \in Task
        /\ \A t \in Task \ {n} : runq_ns'[t] = runq_ns[t] /\ runq_count'[t] = runq_count[t]
        /\ runq_ns'[n] = runq_ns[n] + (now - waiting[TidOf[n]])
        /\ runq_count'[n] = runq_count[n] + 1
    BY <1>1, <1>2, <2>1 DEF Charged
  <2>3. CASE queuedAt[n] # 0
    <3>1. /\ waited' = [waited EXCEPT ![n] = @ + (now - queuedAt[n])]
          /\ dispatches' = [dispatches EXCEPT ![n] = @ + 1]
      BY <1>1, <2>2, <2>3 DEF SwitchMaps
    <3> QED
      BY <1>1, <1>2, <2>2, <2>3, <3>1 DEF SwitchCharge
  <2>4. CASE queuedAt[n] = 0
    <3>1. waited' = waited /\ dispatches' = dispatches
      BY <1>1, <2>2, <2>4 DEF SwitchMaps
    <3> QED
      BY <1>2, <2>2, <2>4, <3>1 DEF SwitchCharge
  <2> QED
    BY <2>3, <2>4
<1>3. CASE ~Charged(n, keys, waiting)
  <2>1. runq_ns' = runq_ns /\ runq_count' = runq_count
    BY <1>3 DEF SwitchMaps
  <2>2. CASE n \in Task /\ queuedAt[n] # 0
    <3>1. /\ waited' = [waited EXCEPT ![n] = @ + (now - queuedAt[n])]
          /\ dispatches' = [dispatches EXCEPT ![n] = @ + 1]
      BY <1>1, <2>2 DEF SwitchMaps
    <3> QED
      BY <1>1, <1>3, <2>1, <2>2, <3>1 DEF SwitchCharge
  <2>3. CASE ~(n \in Task /\ queuedAt[n] # 0)
    <3>1. waited' = waited /\ dispatches' = dispatches
      BY <1>1, <2>3 DEF SwitchMaps
    <3> QED
      BY <1>3, <2>1, <2>3, <3>1 DEF SwitchCharge
  <2> QED
    BY <2>2, <2>3
<1> QED
  BY <1>2, <1>3

LEMMA SwitchChargesKept ==
  ASSUME RunqTypeOK, RunqPlaces, RunqBudget, RunqWaits, RunqCharges,
         NEW c \in CPU, NEW n \in Task \cup {Idle},
         NEW stays \in BOOLEAN, NEW exits \in BOOLEAN, NEW keys, NEW waiting,
         SwitchArgs(c, stays, keys, waiting),
         SwitchPlaces(c, n, stays, exits), SwitchMaps(c, n, stays, keys, waiting)
  PROVE  RunqCharges'
<1> DEFINE p == cpu[c]
<1>1. /\ Idle \notin Task /\ TidOf \in [Task -> Tid] /\ now \in Nat
      /\ queued \subseteq alive /\ alive \subseteq Task
      /\ p # Idle => p \in alive \ queued
  BY Scheduled
<1>2. n # Idle => /\ n \in alive /\ TidOf[n] \in Tid
                  /\ waiting[TidOf[n]] = enqueue_ts[TidOf[n]]
  BY SwitchStamps
<1>3. /\ entries \subseteq keys /\ keys \subseteq Task /\ keys \subseteq entries \cup {p}
  BY DEF SwitchArgs
<1>4. /\ alive' = (IF exits THEN alive \ {p} ELSE alive) /\ (exits => p # Idle)
      /\ raced' = raced /\ cutTids' = cutTids
  BY DEF SwitchPlaces
<1>5. entries' = (IF n = Idle THEN keys ELSE WithStat(keys, n))
  BY DEF SwitchMaps
<1>6. \A d \in Tid : Undisturbed(d)' =>
         Undisturbed(d) /\ ~(n # Idle /\ ~StatAvailable(keys, n))
  BY <1>4 DEF Undisturbed, SwitchMaps
<1>7. SwitchCharge(n, keys, waiting)
  BY SwitchChargeIs
<1>8. dispatches \in [Task -> Nat] /\ runq_ns \in [Task -> Nat] /\ waited \in [Task -> Nat]
  BY DEF RunqTypeOK
<1> HIDE DEF p
<1>9. keys \subseteq entries' /\ (Charged(n, keys, waiting) => n \in entries')
  BY <1>5 DEF WithStat, Charged
<1>10. ASSUME NEW t \in Task \ entries' PROVE runq_ns'[t] = 0 /\ runq_count'[t] = 0
  <2>1. runq_ns[t] = 0 /\ runq_count[t] = 0
    BY <1>3, <1>9 DEF RunqCharges
  <2>2. runq_ns'[t] = runq_ns[t] /\ runq_count'[t] = runq_count[t]
    BY <1>7, <1>9 DEF SwitchCharge
  <2> QED
    BY <2>1, <2>2
<1>11. ASSUME NEW t \in Task, dispatches'[t] = 0 PROVE waited'[t] = 0
  <2>1. t # n \/ queuedAt[n] = 0
    BY <1>7, <1>8, <1>11 DEF SwitchCharge
  <2>2. waited'[t] = waited[t] /\ dispatches'[t] = dispatches[t]
    BY <1>7, <2>1 DEF SwitchCharge
  <2> QED
    BY <1>11, <2>2 DEF RunqCharges
<1>12. ASSUME NEW t \in (alive' \cup entries') \ Self, Undisturbed(TidOf[t])'
       PROVE  runq_ns'[t] = waited'[t] /\ runq_count'[t] = dispatches'[t]
  <2>1. t \in (alive \cup entries) \ Self /\ t \in Task /\ TidOf[t] \in Tid
    <3>1. entries' \subseteq Task /\ entries' \subseteq entries \cup alive
      <4>1. keys \subseteq entries \cup alive
        BY <1>1, <1>3
      <4>2. n # Idle => n \in alive
        BY <1>2
      <4>3. entries' \subseteq entries \cup alive
        BY <1>5, <4>1, <4>2 DEF WithStat
      <4>4. entries \subseteq Task
        BY <1>3
      <4> QED
        BY <1>1, <4>3, <4>4
    <3>2. alive' \subseteq alive
      BY <1>4
    <3> QED
      BY <1>1, <1>12, <3>1, <3>2
  <2>2. Undisturbed(TidOf[t]) /\ ~(n # Idle /\ ~StatAvailable(keys, n))
    BY <1>6, <1>12, <2>1
  <2>3. runq_ns[t] = waited[t] /\ runq_count[t] = dispatches[t]
    BY <2>1, <2>2 DEF RunqCharges
  <2>4. CASE t # n
    BY <1>7, <2>1, <2>3, <2>4 DEF SwitchCharge
  <2>5. CASE t = n
    <3>1. n # Idle /\ StatAvailable(keys, n)
      BY <1>1, <2>1, <2>2, <2>5
    <3>2. waiting[TidOf[n]] = queuedAt[n]
      <4>1. enqueue_ts[TidOf[n]] = queuedAt[n]
        BY <1>2, <2>2, <2>5, <3>1 DEF RunqWaits
      <4> QED
        BY <1>2, <3>1, <4>1
    <3>3. Charged(n, keys, waiting) <=> queuedAt[n] # 0
      BY <3>1, <3>2 DEF Charged
    <3>4. CASE queuedAt[n] # 0
      <4>1. /\ runq_ns'[n] = runq_ns[n] + (now - queuedAt[n])
            /\ runq_count'[n] = runq_count[n] + 1
        BY <1>7, <2>1, <2>5, <3>2, <3>3, <3>4 DEF SwitchCharge
      <4>2. /\ waited'[n] = waited[n] + (now - queuedAt[n])
            /\ dispatches'[n] = dispatches[n] + 1
        BY <1>7, <2>1, <2>5, <3>4 DEF SwitchCharge
      <4> QED
        BY <2>3, <2>5, <4>1, <4>2
    <3>5. CASE queuedAt[n] = 0
      BY <1>7, <2>1, <2>3, <2>5, <3>3, <3>5 DEF SwitchCharge
    <3> QED
      BY <3>4, <3>5
  <2> QED
    BY <2>4, <2>5
<1> QED
  BY <1>10, <1>11, <1>12 DEF RunqCharges

(* Sums of charges are of natural numbers over finite sets. *)
LEMMA ChargeSums ==
  ASSUME RunqTypeOK, NEW d
  PROVE  IsFiniteSet(On(d)) /\ Ints(runq_ns, On(d)) /\ SumOver(runq_ns, On(d)) \in Int
<1>1. IsFiniteSet(On(d))
  <2>1. IsFiniteSet(Task)
    BY RunqAssumption
  <2> QED
    BY <2>1, FS_Subset DEF On
<1>2. Ints(runq_ns, On(d))
  BY DEF RunqTypeOK, On, Ints
<1> QED
  BY <1>1, <1>2, SumType

(* A new charge takes the time since the timestamp, which the earlier ones do not reach. *)
LEMMA SwitchBudgetKept ==
  ASSUME RunqTypeOK, RunqPlaces, RunqBudget,
         NEW c \in CPU, NEW n \in Task \cup {Idle},
         NEW stays \in BOOLEAN, NEW exits \in BOOLEAN, NEW keys, NEW waiting,
         SwitchArgs(c, stays, keys, waiting),
         SwitchPlaces(c, n, stays, exits), SwitchMaps(c, n, stays, keys, waiting)
  PROVE  RunqBudget'
<1>1. now' = now /\ now \in Nat /\ now > 0 /\ Idle \notin Task
  BY Scheduled DEF SwitchPlaces
<1>2. /\ n # Idle => /\ TidOf[n] \in Tid /\ waiting[TidOf[n]] = enqueue_ts[TidOf[n]]
                     /\ enqueue_ts'[TidOf[n]] = 0
      /\ \A d \in Tid : (n # Idle /\ d = TidOf[n]) \/ enqueue_ts'[d] = waiting[d]
  BY SwitchStamps
<1>3. SwitchCharge(n, keys, waiting)
  BY SwitchChargeIs
<1>4. /\ waiting \in [Tid -> Nat] /\ \A d \in Tid : waiting[d] <= now
      /\ \A d \in Tid : waiting[d] = enqueue_ts[d] \/ waiting[d] = now
  <2>1. /\ \A d \in Tid : (stays /\ d = TidOf[cpu[c]]) \/ waiting[d] = enqueue_ts[d]
        /\ stays => waiting[TidOf[cpu[c]]] = now
                    \/ waiting[TidOf[cpu[c]]] = enqueue_ts[TidOf[cpu[c]]]
    BY DEF SwitchArgs
  <2> QED
    BY <2>1 DEF SwitchArgs
<1>5. ASSUME NEW d \in Tid PROVE enqueue_ts'[d] <= now' /\ Within(d)'
  <2>1. SumOver(runq_ns, On(d)) < IF enqueue_ts[d] # 0 THEN enqueue_ts[d] ELSE now
    BY DEF RunqBudget, Within
  <2>2. SumOver(runq_ns, On(d)) \in Int /\ IsFiniteSet(On(d)) /\ Ints(runq_ns, On(d))
    BY ChargeSums
  <2>3. enqueue_ts[d] \in Nat /\ enqueue_ts[d] <= now
    BY DEF RunqTypeOK, RunqBudget
  <2>4. CASE n # Idle /\ d = TidOf[n]
    <3>1. n \in On(d) /\ n \in Task
      BY <1>1, <2>4 DEF On
    <3>2. enqueue_ts'[d] = 0
      BY <1>2, <2>4
    <3>3. CASE Charged(n, keys, waiting)
      <4>1. waiting[d] # 0 /\ waiting[d] = enqueue_ts[d]
        BY <1>2, <2>4, <3>3 DEF Charged
      <4>2. runq_ns'[n] = runq_ns[n] + (now - enqueue_ts[d])
        BY <1>3, <2>4, <3>1, <3>3, <4>1 DEF SwitchCharge
      <4>3. now - enqueue_ts[d] \in Int
        BY <1>1, <2>3
      <4>4. \A z \in On(d) : z # n => runq_ns'[z] = runq_ns[z]
        BY <1>3 DEF SwitchCharge, On
      <4>5. SumOver(runq_ns', On(d)) = SumOver(runq_ns, On(d)) + (now - enqueue_ts[d])
        BY <2>2, <3>1, <4>2, <4>3, <4>4, SumRaised
      <4>6. SumOver(runq_ns', On(d)) < now
        BY <1>1, <2>1, <2>2, <2>3, <4>1, <4>5
      <4> QED
        BY <1>1, <3>2, <4>6 DEF Within
    <3>4. CASE ~Charged(n, keys, waiting)
      <4>1. \A z \in On(d) : runq_ns'[z] = runq_ns[z]
        BY <1>3, <3>1, <3>4 DEF SwitchCharge, On
      <4>2. SumOver(runq_ns', On(d)) = SumOver(runq_ns, On(d))
        BY <2>2, <4>1, SumSame
      <4>3. SumOver(runq_ns', On(d)) < now
        BY <1>1, <2>1, <2>2, <2>3, <4>2
      <4> QED
        BY <1>1, <3>2, <4>3 DEF Within
    <3> QED
      BY <3>3, <3>4
  <2>5. CASE ~(n # Idle /\ d = TidOf[n])
    <3>1. enqueue_ts'[d] = waiting[d] /\ n \notin On(d)
      BY <1>1, <1>2, <2>5 DEF On
    <3>2. \A z \in On(d) : runq_ns'[z] = runq_ns[z]
      BY <1>3, <3>1 DEF SwitchCharge, On
    <3>3. SumOver(runq_ns', On(d)) = SumOver(runq_ns, On(d))
      BY <2>2, <3>2, SumSame
    <3>4. enqueue_ts'[d] <= now /\ (enqueue_ts'[d] = enqueue_ts[d] \/ enqueue_ts'[d] = now)
      BY <1>4, <3>1
    <3>5. SumOver(runq_ns', On(d)) < IF enqueue_ts'[d] # 0 THEN enqueue_ts'[d] ELSE now
      BY <1>1, <2>1, <2>2, <2>3, <3>3, <3>4
    <3> QED
      BY <1>1, <3>4, <3>5 DEF Within
  <2> QED
    BY <2>4, <2>5
<1> QED
  BY <1>1, <1>5 DEF RunqBudget

LEMMA SwitchTypedKept ==
  ASSUME RunqTypeOK, RunqPlaces, RunqBudget,
         NEW c \in CPU, NEW n \in Task \cup {Idle},
         NEW stays \in BOOLEAN, NEW exits \in BOOLEAN, NEW keys, NEW waiting,
         SwitchArgs(c, stays, keys, waiting),
         SwitchPlaces(c, n, stays, exits), SwitchMaps(c, n, stays, keys, waiting)
  PROVE  RunqTypeOK'
<1>1. /\ now \in Nat /\ alive \in SUBSET Task /\ queued \in SUBSET Task
      /\ blocking \in SUBSET Task /\ cpu \in [CPU -> Task \cup {Idle}]
      /\ switched \in [CPU -> Nat] /\ entries \in SUBSET Task
      /\ raced \in SUBSET Tid /\ cutTids \in SUBSET Tid
  BY DEF RunqTypeOK
<1>2. /\ runq_ns \in [Task -> Nat] /\ runq_count \in [Task -> Nat]
      /\ waited \in [Task -> Nat] /\ dispatches \in [Task -> Nat]
      /\ queuedAt \in [Task -> Nat] /\ map_update_fail \in BOOLEAN
  BY DEF RunqTypeOK
<1>3. cpu[c] # Idle => cpu[c] \in Task
  BY <1>1
<1>4. /\ waiting \in [Tid -> Nat] /\ \A d \in Tid : waiting[d] <= now
      /\ keys \subseteq Task /\ (stays => cpu[c] # Idle)
  BY DEF SwitchArgs
<1>5. (\A t \in Task : queuedAt[t] <= now) /\ (\A t \in Task : TidOf[t] \in Tid)
  BY RunqAssumption DEF RunqPlaces
<1>6. now' \in Nat /\ raced' \in SUBSET Tid /\ cutTids' \in SUBSET Tid
  BY <1>1 DEF SwitchPlaces
<1>7. /\ alive' \in SUBSET Task /\ blocking' \in SUBSET Task /\ queued' \in SUBSET Task
  BY <1>1, <1>3, <1>4 DEF SwitchPlaces
<1>8. /\ cpu' \in [CPU -> Task \cup {Idle}] /\ switched' \in [CPU -> Nat]
  BY <1>1 DEF SwitchPlaces
<1>9. queuedAt' \in [Task -> Nat]
  BY <1>1, <1>2 DEF SwitchPlaces
<1>10. entries' \in SUBSET Task /\ map_update_fail' \in BOOLEAN
  <2>1. entries' \in SUBSET Task
    BY <1>4 DEF SwitchMaps, WithStat
  <2>2. map_update_fail' \in BOOLEAN
    BY <1>2 DEF SwitchMaps
  <2> QED
    BY <2>1, <2>2
<1>11. enqueue_ts' \in [Tid -> Nat]
  BY <1>4 DEF SwitchMaps, Dequeued
<1>12. runq_ns' \in [Task -> Nat] /\ runq_count' \in [Task -> Nat]
  <2>1. CASE Charged(n, keys, waiting)
    <3>1. /\ runq_ns' = [runq_ns EXCEPT ![n] = @ + (now - waiting[TidOf[n]])]
          /\ runq_count' = [runq_count EXCEPT ![n] = @ + 1]
      BY <2>1 DEF SwitchMaps
    <3>2. n \in Task /\ now - waiting[TidOf[n]] \in Nat
      BY <1>1, <1>4, <1>5, <2>1 DEF Charged
    <3> QED
      BY <1>2, <3>1, <3>2
  <2>2. CASE ~Charged(n, keys, waiting)
    BY <1>2, <2>2 DEF SwitchMaps
  <2> QED
    BY <2>1, <2>2
<1>13. waited' \in [Task -> Nat] /\ dispatches' \in [Task -> Nat]
  <2>1. CASE n # Idle /\ queuedAt[n] # 0
    <3>1. /\ waited' = [waited EXCEPT ![n] = @ + (now - queuedAt[n])]
          /\ dispatches' = [dispatches EXCEPT ![n] = @ + 1]
      BY <2>1 DEF SwitchMaps
    <3>2. n \in Task /\ now - queuedAt[n] \in Nat
      BY <1>1, <1>2, <1>5, <2>1
    <3> QED
      BY <1>2, <3>1, <3>2
  <2>2. CASE ~(n # Idle /\ queuedAt[n] # 0)
    BY <1>2, <2>2 DEF SwitchMaps
  <2> QED
    BY <2>1, <2>2
<1> QED
  BY <1>6, <1>7, <1>8, <1>9, <1>10, <1>11, <1>12, <1>13 DEF RunqTypeOK

(* handle_switch keeps the invariant. *)
LEMMA SwitchKept ==
  ASSUME RunqInv, NEW c \in CPU, NEW n \in Task \cup {Idle},
         NEW preempt \in BOOLEAN, NEW exits \in BOOLEAN, Switch(c, n, preempt, exits)
  PROVE  RunqInv'
<1> DEFINE stays   == Stays(c, preempt, exits)
           keys    == KeysAfter(c)
           waiting == Waiting(c, stays)
<1>1. stays = Stays(c, preempt, exits) /\ keys = KeysAfter(c) /\ waiting = Waiting(c, stays)
  OBVIOUS
<1> HIDE DEF stays, keys, waiting
<1>2. RunqTypeOK /\ RunqPlaces /\ RunqWaits /\ RunqCharges /\ RunqBudget
  BY DEF RunqInv
<1>3. SwitchPlaces(c, n, stays, exits) /\ SwitchMaps(c, n, stays, keys, waiting)
  BY <1>1, SwitchIs
<1>4. SwitchArgs(c, stays, keys, waiting)
  BY <1>1, <1>2, SwitchArgsAre
<1>5. stays \in BOOLEAN /\ (stays => cpu[c] # Idle)
  BY <1>4 DEF SwitchArgs
<1>6. RunqTypeOK'
  BY <1>2, <1>3, <1>4, <1>5, SwitchTypedKept
<1>7. RunqPlaces'
  BY <1>2, <1>3, <1>5, SwitchPlacesKept
<1>8. RunqWaits'
  BY <1>2, <1>3, <1>4, <1>5, SwitchWaitsKept
<1>9. RunqCharges'
  BY <1>2, <1>3, <1>4, <1>5, SwitchChargesKept
<1>10. RunqBudget'
  BY <1>2, <1>3, <1>4, <1>5, SwitchBudgetKept
<1> QED
  BY <1>6, <1>7, <1>8, <1>9, <1>10 DEF RunqInv

(* Charges and their sums stay; time passes or timestamps are set to now. *)
LEMMA BudgetStays ==
  ASSUME RunqTypeOK, RunqBudget, now' \in Nat, now <= now', runq_ns' = runq_ns,
         \A d \in Tid : \/ enqueue_ts'[d] = enqueue_ts[d]
                        \/ enqueue_ts[d] = 0 /\ enqueue_ts'[d] = now'
  PROVE  RunqBudget'
<1>1. now \in Nat /\ now > 0 /\ enqueue_ts \in [Tid -> Nat]
  BY DEF RunqTypeOK, RunqBudget
<1>2. ASSUME NEW d \in Tid PROVE enqueue_ts'[d] <= now' /\ Within(d)'
  <2>1. SumOver(runq_ns, On(d)) < IF enqueue_ts[d] # 0 THEN enqueue_ts[d] ELSE now
    BY DEF RunqBudget, Within
  <2>2. SumOver(runq_ns, On(d)) \in Int
    BY ChargeSums
  <2>3. enqueue_ts[d] \in Nat /\ enqueue_ts[d] <= now
    BY <1>1 DEF RunqBudget
  <2>4. SumOver(runq_ns', On(d)) = SumOver(runq_ns, On(d))
    OBVIOUS
  <2>5. SumOver(runq_ns', On(d)) < IF enqueue_ts'[d] # 0 THEN enqueue_ts'[d] ELSE now'
    BY <1>1, <2>1, <2>2, <2>3, <2>4
  <2>6. enqueue_ts'[d] <= now'
    BY <1>1, <2>3
  <2> QED
    BY <2>5, <2>6 DEF Within
<1> QED
  BY <1>1, <1>2 DEF RunqBudget

(* Charges and their histories stay, for no task that was not there before. *)
LEMMA ChargesStay ==
  ASSUME RunqCharges, runq_ns' = runq_ns, runq_count' = runq_count, waited' = waited,
         dispatches' = dispatches, entries' = entries, alive' = alive,
         map_update_fail => map_update_fail', raced \subseteq raced', cutTids' = cutTids
  PROVE  RunqCharges'
<1>1. \A d : Undisturbed(d)' => Undisturbed(d)
  BY DEF Undisturbed
<1> QED
  BY <1>1 DEF RunqCharges

LEMMA RunqTickKept == ASSUME RunqInv, RunqTick PROVE RunqInv'
<1>1. RunqTypeOK /\ RunqPlaces /\ RunqWaits /\ RunqCharges /\ RunqBudget
  BY DEF RunqInv
<1>2. /\ now' = now + 1
      /\ alive' = alive /\ cpu' = cpu /\ queued' = queued /\ blocking' = blocking
      /\ switched' = switched /\ entries' = entries /\ runq_ns' = runq_ns
      /\ runq_count' = runq_count /\ enqueue_ts' = enqueue_ts
      /\ map_update_fail' = map_update_fail /\ queuedAt' = queuedAt /\ waited' = waited
      /\ dispatches' = dispatches /\ raced' = raced /\ cutTids' = cutTids
  BY DEF RunqTick, sched, maps, history
<1>3. now \in Nat /\ queuedAt \in [Task -> Nat]
  BY <1>1 DEF RunqTypeOK
<1>4. RunqTypeOK'
  BY <1>1, <1>2, <1>3 DEF RunqTypeOK
<1>5. RunqPlaces'
  <2>1. \A t \in Task : queuedAt'[t] <= now'
    BY <1>1, <1>2, <1>3 DEF RunqPlaces
  <2> QED
    BY <1>1, <1>2, <2>1 DEF RunqPlaces
<1>6. RunqWaits'
  BY <1>1, <1>2 DEF RunqWaits, Undisturbed
<1>7. RunqCharges'
  BY <1>1, <1>2, ChargesStay
<1>8. RunqBudget'
  BY <1>1, <1>2, <1>3, BudgetStays
<1> QED
  BY <1>4, <1>5, <1>6, <1>7, <1>8 DEF RunqInv

LEMMA RunqIdleKept == ASSUME RunqInv, UNCHANGED runqVars PROVE RunqInv'
<1>1. RunqTypeOK /\ RunqPlaces /\ RunqWaits /\ RunqCharges /\ RunqBudget
  BY DEF RunqInv
<1>2. /\ now' = now
      /\ alive' = alive /\ cpu' = cpu /\ queued' = queued /\ blocking' = blocking
      /\ switched' = switched /\ entries' = entries /\ runq_ns' = runq_ns
      /\ runq_count' = runq_count /\ enqueue_ts' = enqueue_ts
      /\ map_update_fail' = map_update_fail /\ queuedAt' = queuedAt /\ waited' = waited
      /\ dispatches' = dispatches /\ raced' = raced /\ cutTids' = cutTids
  BY DEF runqVars, sched, maps, history
<1>3. now \in Nat
  BY <1>1 DEF RunqTypeOK
<1>4. RunqTypeOK'
  BY <1>1, <1>2 DEF RunqTypeOK
<1>5. RunqPlaces'
  BY <1>1, <1>2 DEF RunqPlaces
<1>6. RunqWaits'
  BY <1>1, <1>2 DEF RunqWaits, Undisturbed
<1>7. RunqCharges'
  BY <1>1, <1>2, ChargesStay
<1>8. RunqBudget'
  BY <1>1, <1>2, <1>3, BudgetStays
<1> QED
  BY <1>4, <1>5, <1>6, <1>7, <1>8 DEF RunqInv

LEMMA SetStateKept == ASSUME RunqInv, NEW c \in CPU, SetState(c) PROVE RunqInv'
<1>1. RunqTypeOK /\ RunqPlaces /\ RunqWaits /\ RunqCharges /\ RunqBudget
  BY DEF RunqInv
<1>2. /\ cpu[c] # Idle
      /\ blocking' = blocking \cup {cpu[c]} \/ blocking' = blocking \ {cpu[c]}
      /\ now' = now /\ alive' = alive /\ cpu' = cpu /\ queued' = queued
      /\ switched' = switched /\ entries' = entries /\ runq_ns' = runq_ns
      /\ runq_count' = runq_count /\ enqueue_ts' = enqueue_ts
      /\ map_update_fail' = map_update_fail /\ queuedAt' = queuedAt /\ waited' = waited
      /\ dispatches' = dispatches /\ raced' = raced /\ cutTids' = cutTids
  BY DEF SetState, maps, history
<1>3. now \in Nat
  BY <1>1 DEF RunqTypeOK
<1>4. cpu[c] \in alive \ queued /\ alive \subseteq Task
  BY <1>1, <1>2, Scheduled
<1>5. RunqTypeOK'
  <2>1. blocking' \in SUBSET Task
    BY <1>1, <1>2, <1>4 DEF RunqTypeOK
  <2> QED
    BY <1>1, <1>2, <2>1 DEF RunqTypeOK
<1>6. RunqPlaces'
  <2>1. \A t \in queued \cap blocking' : queuedAt[t] # 0
    BY <1>1, <1>2, <1>4 DEF RunqPlaces
  <2> QED
    BY <1>1, <1>2, <2>1 DEF RunqPlaces
<1>7. RunqWaits'
  BY <1>1, <1>2 DEF RunqWaits, Undisturbed
<1>8. RunqCharges'
  BY <1>1, <1>2, ChargesStay
<1>9. RunqBudget'
  BY <1>1, <1>2, <1>3, BudgetStays
<1> QED
  BY <1>5, <1>6, <1>7, <1>8, <1>9 DEF RunqInv

(* handle_wakeup: a wait starts, unless the task is on a CPU or waits already. *)
LEMMA WakeupKept == ASSUME RunqInv, NEW t \in Task, Wakeup(t) PROVE RunqInv'
<1> DEFINE e == TidOf[t]
<1>1. RunqTypeOK /\ RunqPlaces /\ RunqWaits /\ RunqCharges /\ RunqBudget
  BY DEF RunqInv
<1>2. /\ t \in alive /\ t \in blocking /\ blocking' = blocking \ {t}
      /\ t \in Dispatched \cup queued => queued' = queued /\ queuedAt' = queuedAt
      /\ t \notin Dispatched \cup queued =>
           queued' = queued \cup {t} /\ queuedAt' = [queuedAt EXCEPT ![t] = now]
      /\ enqueue_ts' = RecordEnqueue(enqueue_ts, e)
      /\ map_update_fail' = (map_update_fail \/ EnqueueLost(enqueue_ts, e))
      /\ raced' = (IF t \in Dispatched THEN raced \cup {e} ELSE raced)
      /\ now' = now /\ alive' = alive /\ cpu' = cpu /\ switched' = switched
      /\ entries' = entries /\ runq_ns' = runq_ns /\ runq_count' = runq_count
      /\ waited' = waited /\ dispatches' = dispatches /\ cutTids' = cutTids
  BY DEF Wakeup
<1>3. /\ now \in Nat /\ now > 0 /\ queuedAt \in [Task -> Nat] /\ enqueue_ts \in [Tid -> Nat]
      /\ alive \subseteq Task /\ queued \subseteq alive /\ TidOf \in [Task -> Tid]
      /\ raced \subseteq Tid /\ map_update_fail \in BOOLEAN
  BY <1>1, RunqAssumption DEF RunqTypeOK, RunqPlaces, RunqBudget
<1>4. e \in Tid
  BY <1>3
<1>5. /\ enqueue_ts' \in [Tid -> Nat] /\ \A d \in Tid : d # e => enqueue_ts'[d] = enqueue_ts[d]
      /\ enqueue_ts'[e] = (IF enqueue_ts[e] = 0 /\ ~EnqueueLost(enqueue_ts, e)
                           THEN now ELSE enqueue_ts[e])
  <2> DEFINE r == RecordEnqueue(enqueue_ts, e)
  <2>1. r = RecordEnqueue(enqueue_ts, e)
    OBVIOUS
  <2> HIDE DEF r, e
  <2>2. /\ r \in [Tid -> Nat] /\ \A d \in Tid : d # e => r[d] = enqueue_ts[d]
        /\ r[e] = (IF enqueue_ts[e] = 0 /\ ~EnqueueLost(enqueue_ts, e)
                   THEN now ELSE enqueue_ts[e])
    BY <1>3, <1>4, <2>1, Recorded
  <2>3. enqueue_ts' = r
    BY <1>2, <2>1
  <2> QED
    BY <2>2, <2>3
<1>6. /\ \A u, w \in alive : TidOf[u] = TidOf[w] => u = w
      /\ \A u \in alive : Undisturbed(TidOf[u]) => enqueue_ts[TidOf[u]] = queuedAt[u]
      /\ \A d \in Tid : Undisturbed(d) /\ (\A u \in alive : TidOf[u] # d) => enqueue_ts[d] = 0
      /\ \A u \in Task \ queued : queuedAt[u] = 0
      /\ t \in queued => queuedAt[t] # 0
  BY <1>1, <1>2 DEF RunqPlaces, RunqWaits
<1>7. \A u \in Task : queuedAt'[u] = (IF u = t /\ t \notin Dispatched \cup queued
                                      THEN now ELSE queuedAt[u])
  BY <1>2, <1>3
<1>8. RunqTypeOK'
  <2>1. queued' \in SUBSET Task /\ blocking' \in SUBSET Task /\ queuedAt' \in [Task -> Nat]
    BY <1>1, <1>2, <1>3 DEF RunqTypeOK
  <2>2. map_update_fail' \in BOOLEAN
    BY <1>2, <1>3
  <2>3. raced' \in SUBSET Tid
    BY <1>2, <1>3, <1>4
  <2> HIDE DEF e
  <2> QED
    BY <1>1, <1>2, <1>5, <2>1, <2>2, <2>3 DEF RunqTypeOK
<1>9. RunqPlaces'
  <2>1. \A b \in CPU : cpu'[b] # Idle => cpu'[b] \in alive' \ queued'
    <3>1. \A b \in CPU : cpu[b] # Idle => cpu[b] \in alive \ queued /\ cpu[b] \in Dispatched
      BY <1>1 DEF RunqPlaces, Dispatched
    <3> QED
      BY <1>2, <3>1
  <2>2. queued' \subseteq alive'
    BY <1>2, <1>3
  <2>3. \A u \in queued' \cap blocking' : queuedAt'[u] # 0
    <3>1. \A u \in queued' \cap blocking' : u # t /\ u \in queued \cap blocking /\ u \in Task
      BY <1>2, <1>3
    <3>2. \A u \in queued \cap blocking : queuedAt[u] # 0
      BY <1>1 DEF RunqPlaces
    <3> QED
      BY <1>7, <3>1, <3>2
  <2>4. \A u \in Task \ queued' : queuedAt'[u] = 0
    BY <1>2, <1>6, <1>7
  <2>5. \A u \in Task : queuedAt'[u] <= now'
    BY <1>1, <1>2, <1>3, <1>7 DEF RunqPlaces
  <2>6. \A b, d \in CPU : cpu'[b] = cpu'[d] /\ cpu'[b] # Idle => b = d
    BY <1>1, <1>2 DEF RunqPlaces
  <2>7. \A u, w \in alive' : TidOf[u] = TidOf[w] => u = w
    BY <1>2, <1>6
  <2> QED
    BY <2>1, <2>2, <2>3, <2>4, <2>5, <2>6, <2>7 DEF RunqPlaces
<1>10. \A d \in Tid : Undisturbed(d)' =>
         /\ Undisturbed(d) /\ ~EnqueueLost(enqueue_ts, e)
         /\ d = e => t \notin Dispatched
  BY <1>2 DEF Undisturbed
<1> HIDE DEF e
<1>11. ASSUME NEW u \in alive', Undisturbed(TidOf[u])'
       PROVE  enqueue_ts'[TidOf[u]] = queuedAt'[u]
  <2>1. u \in alive /\ u \in Task /\ TidOf[u] \in Tid
    BY <1>2, <1>3
  <2>2. Undisturbed(TidOf[u]) /\ ~EnqueueLost(enqueue_ts, e)
    BY <1>10, <1>11, <2>1
  <2>3. CASE u # t
    BY <1>2, <1>5, <1>6, <1>7, <2>1, <2>2, <2>3 DEF e
  <2>4. CASE u = t
    <3>1. t \notin Dispatched
      BY <1>10, <1>11, <2>1, <2>4 DEF e
    <3>2. enqueue_ts[e] = queuedAt[t]
      BY <1>6, <2>1, <2>2, <2>4 DEF e
    <3>3. CASE t \in queued
      BY <1>5, <1>6, <1>7, <2>1, <2>4, <3>2, <3>3 DEF e
    <3>4. CASE t \notin queued
      <4>1. enqueue_ts[e] = 0
        BY <1>6, <2>1, <2>4, <3>2, <3>4
      <4> QED
        BY <1>5, <1>7, <2>1, <2>2, <2>4, <3>1, <3>4, <4>1 DEF e
    <3> QED
      BY <3>3, <3>4
  <2> QED
    BY <2>3, <2>4
<1>12. ASSUME NEW d \in Tid, Undisturbed(d)', \A u \in alive' : TidOf[u] # d
       PROVE  enqueue_ts'[d] = 0
  <2>1. d # e
    BY <1>2, <1>12 DEF e
  <2> QED
    BY <1>2, <1>5, <1>6, <1>10, <1>12, <2>1
<1>13. RunqWaits'
  BY <1>11, <1>12 DEF RunqWaits
<1>14. RunqCharges'
  <2>1. raced \subseteq raced' /\ (map_update_fail => map_update_fail')
    BY <1>2
  <2> QED
    BY <1>1, <1>2, <2>1, ChargesStay
<1>15. RunqBudget'
  <2>1. \A d \in Tid : \/ enqueue_ts'[d] = enqueue_ts[d]
                       \/ enqueue_ts[d] = 0 /\ enqueue_ts'[d] = now'
    BY <1>2, <1>5
  <2>2. now' \in Nat /\ now <= now'
    BY <1>2, <1>3
  <2> QED
    BY <1>1, <1>2, <2>1, <2>2, BudgetStays
<1> QED
  BY <1>8, <1>9, <1>13, <1>14, <1>15 DEF RunqInv

(* handle_wakeup_new: the first wait of a task, whose thread id nobody holds. *)
LEMMA WakeupNewKept == ASSUME RunqInv, NEW t \in Task, WakeupNew(t) PROVE RunqInv'
<1> DEFINE e == TidOf[t]
<1>1. RunqTypeOK /\ RunqPlaces /\ RunqWaits /\ RunqCharges /\ RunqBudget
  BY DEF RunqInv
<1>2. /\ t \notin alive \cup entries /\ dispatches[t] = 0
      /\ \A u \in alive : TidOf[u] # e
      /\ alive' = alive \cup {t} /\ queued' = queued \cup {t}
      /\ queuedAt' = [queuedAt EXCEPT ![t] = now]
      /\ enqueue_ts' = RecordEnqueue(enqueue_ts, e)
      /\ map_update_fail' = (map_update_fail \/ EnqueueLost(enqueue_ts, e))
      /\ now' = now /\ cpu' = cpu /\ switched' = switched /\ blocking' = blocking
      /\ entries' = entries /\ runq_ns' = runq_ns /\ runq_count' = runq_count
      /\ waited' = waited /\ dispatches' = dispatches /\ cutTids' = cutTids /\ raced' = raced
  BY DEF WakeupNew
<1>3. /\ now \in Nat /\ now > 0 /\ queuedAt \in [Task -> Nat] /\ enqueue_ts \in [Tid -> Nat]
      /\ alive \subseteq Task /\ queued \subseteq alive /\ TidOf \in [Task -> Tid]
      /\ map_update_fail \in BOOLEAN
  BY <1>1, RunqAssumption DEF RunqTypeOK, RunqPlaces, RunqBudget
<1>4. e \in Tid
  BY <1>3
<1>5. /\ enqueue_ts' \in [Tid -> Nat] /\ \A d \in Tid : d # e => enqueue_ts'[d] = enqueue_ts[d]
      /\ enqueue_ts'[e] = (IF enqueue_ts[e] = 0 /\ ~EnqueueLost(enqueue_ts, e)
                           THEN now ELSE enqueue_ts[e])
  <2> DEFINE r == RecordEnqueue(enqueue_ts, e)
  <2>1. r = RecordEnqueue(enqueue_ts, e)
    OBVIOUS
  <2> HIDE DEF r, e
  <2>2. /\ r \in [Tid -> Nat] /\ \A d \in Tid : d # e => r[d] = enqueue_ts[d]
        /\ r[e] = (IF enqueue_ts[e] = 0 /\ ~EnqueueLost(enqueue_ts, e)
                   THEN now ELSE enqueue_ts[e])
    BY <1>3, <1>4, <2>1, Recorded
  <2>3. enqueue_ts' = r
    BY <1>2, <2>1
  <2> QED
    BY <2>2, <2>3
<1>6. /\ \A u, w \in alive : TidOf[u] = TidOf[w] => u = w
      /\ \A u \in alive : Undisturbed(TidOf[u]) => enqueue_ts[TidOf[u]] = queuedAt[u]
      /\ \A d \in Tid : Undisturbed(d) /\ (\A u \in alive : TidOf[u] # d) => enqueue_ts[d] = 0
      /\ \A u \in Task \ queued : queuedAt[u] = 0
  BY <1>1 DEF RunqPlaces, RunqWaits
<1>7. \A u \in Task : queuedAt'[u] = (IF u = t THEN now ELSE queuedAt[u])
  BY <1>2, <1>3
<1>8. RunqTypeOK'
  <2>1. queued' \in SUBSET Task /\ alive' \in SUBSET Task /\ queuedAt' \in [Task -> Nat]
    BY <1>2, <1>3
  <2>2. map_update_fail' \in BOOLEAN
    BY <1>2, <1>3
  <2> HIDE DEF e
  <2> QED
    BY <1>1, <1>2, <1>5, <2>1, <2>2 DEF RunqTypeOK
<1>9. RunqPlaces'
  <2>1. \A b \in CPU : cpu'[b] # Idle => cpu'[b] \in alive' \ queued'
    <3>1. \A b \in CPU : cpu[b] # Idle => cpu[b] \in alive \ queued
      BY <1>1 DEF RunqPlaces
    <3> QED
      BY <1>2, <3>1
  <2>2. queued' \subseteq alive'
    BY <1>2, <1>3
  <2>3. \A u \in queued' \cap blocking' : queuedAt'[u] # 0
    <3>1. \A u \in queued' \cap blocking' : u \in Task /\ (u = t \/ u \in queued \cap blocking)
      BY <1>2, <1>3
    <3>2. \A u \in queued \cap blocking : queuedAt[u] # 0
      BY <1>1 DEF RunqPlaces
    <3> QED
      BY <1>3, <1>7, <3>1, <3>2
  <2>4. \A u \in Task \ queued' : queuedAt'[u] = 0
    BY <1>2, <1>6, <1>7
  <2>5. \A u \in Task : queuedAt'[u] <= now'
    BY <1>1, <1>2, <1>3, <1>7 DEF RunqPlaces
  <2>6. \A b, d \in CPU : cpu'[b] = cpu'[d] /\ cpu'[b] # Idle => b = d
    BY <1>1, <1>2 DEF RunqPlaces
  <2>7. \A u, w \in alive' : TidOf[u] = TidOf[w] => u = w
    BY <1>2, <1>6
  <2> QED
    BY <2>1, <2>2, <2>3, <2>4, <2>5, <2>6, <2>7 DEF RunqPlaces
<1>10. \A d \in Tid : Undisturbed(d)' => Undisturbed(d) /\ ~EnqueueLost(enqueue_ts, e)
  BY <1>2 DEF Undisturbed
<1> HIDE DEF e
<1>11. ASSUME NEW u \in alive', Undisturbed(TidOf[u])'
       PROVE  enqueue_ts'[TidOf[u]] = queuedAt'[u]
  <2>1. u \in Task /\ TidOf[u] \in Tid /\ (u = t \/ u \in alive)
    BY <1>2, <1>3
  <2>2. Undisturbed(TidOf[u]) /\ ~EnqueueLost(enqueue_ts, e)
    BY <1>10, <1>11, <2>1
  <2>3. CASE u # t
    <3>1. TidOf[u] # e /\ enqueue_ts[TidOf[u]] = queuedAt[u]
      BY <1>2, <1>6, <2>1, <2>2, <2>3
    <3> QED
      BY <1>5, <1>7, <2>1, <2>3, <3>1
  <2>4. CASE u = t
    <3>1. enqueue_ts[e] = 0
      BY <1>2, <1>4, <1>6, <2>2, <2>4 DEF e
    <3> QED
      BY <1>5, <1>7, <2>2, <2>4, <3>1 DEF e
  <2> QED
    BY <2>3, <2>4
<1>12. ASSUME NEW d \in Tid, Undisturbed(d)', \A u \in alive' : TidOf[u] # d
       PROVE  enqueue_ts'[d] = 0
  <2>1. d # e /\ \A u \in alive : TidOf[u] # d
    BY <1>2, <1>12 DEF e
  <2> QED
    BY <1>5, <1>6, <1>10, <1>12, <2>1
<1>13. RunqWaits'
  BY <1>11, <1>12 DEF RunqWaits
<1>14. RunqCharges'
  <2>1. runq_ns[t] = 0 /\ runq_count[t] = 0 /\ waited[t] = 0
    BY <1>1, <1>2 DEF RunqCharges
  <2>2. \A d : Undisturbed(d)' => Undisturbed(d)
    BY <1>2 DEF Undisturbed
  <2>3. ASSUME NEW u \in (alive' \cup entries') \ Self, Undisturbed(TidOf[u])'
        PROVE  runq_ns[u] = waited[u] /\ runq_count[u] = dispatches[u]
    <3>1. u = t \/ u \in (alive \cup entries) \ Self
      BY <1>2
    <3>2. Undisturbed(TidOf[u])
      BY <2>2, <2>3
    <3> QED
      BY <1>1, <1>2, <2>1, <3>1, <3>2 DEF RunqCharges
  <2> QED
    BY <1>1, <1>2, <2>3 DEF RunqCharges
<1>15. RunqBudget'
  <2>1. \A d \in Tid : \/ enqueue_ts'[d] = enqueue_ts[d]
                       \/ enqueue_ts[d] = 0 /\ enqueue_ts'[d] = now'
    BY <1>2, <1>5
  <2>2. now' \in Nat /\ now <= now'
    BY <1>2, <1>3
  <2> QED
    BY <1>1, <1>2, <2>1, <2>2, BudgetStays
<1> QED
  BY <1>8, <1>9, <1>13, <1>14, <1>15 DEF RunqInv

(* The collector's deletions: what is left is charged as before, to tasks still there. *)
LEMMA RunqPollKept == ASSUME RunqInv, NEW gone \in SUBSET Task, RunqPoll(gone) PROVE RunqInv'
<1> DEFINE tids == {TidOf[t] : t \in gone}
<1>1. RunqTypeOK /\ RunqPlaces /\ RunqWaits /\ RunqCharges /\ RunqBudget
  BY DEF RunqInv
<1>2. /\ gone \subseteq entries /\ gone \cap alive \subseteq Self
      /\ entries' = entries \ gone
      /\ runq_ns' = [t \in Task |-> IF t \in gone THEN 0 ELSE runq_ns[t]]
      /\ runq_count' = [t \in Task |-> IF t \in gone THEN 0 ELSE runq_count[t]]
      /\ enqueue_ts' = [d \in Tid |-> IF d \in tids THEN 0 ELSE enqueue_ts[d]]
      /\ cutTids' = cutTids \cup {d \in tids : enqueue_ts[d] # 0}
  BY DEF RunqPoll
<1>3. /\ now' = now /\ alive' = alive /\ cpu' = cpu /\ queued' = queued /\ blocking' = blocking
      /\ switched' = switched /\ map_update_fail' = map_update_fail /\ queuedAt' = queuedAt
      /\ waited' = waited /\ dispatches' = dispatches /\ raced' = raced
  BY DEF RunqPoll, sched
<1>4. /\ now \in Nat /\ now > 0 /\ runq_ns \in [Task -> Nat] /\ runq_count \in [Task -> Nat]
      /\ enqueue_ts \in [Tid -> Nat] /\ entries \subseteq Task /\ alive \subseteq Task
      /\ TidOf \in [Task -> Tid] /\ cutTids \subseteq Tid
  BY <1>1, RunqAssumption DEF RunqTypeOK, RunqBudget
<1>5. tids \subseteq Tid
  BY <1>4
<1> HIDE DEF tids
<1>6. RunqTypeOK'
  <2>1. /\ entries' \in SUBSET Task /\ runq_ns' \in [Task -> Nat]
        /\ runq_count' \in [Task -> Nat] /\ enqueue_ts' \in [Tid -> Nat]
        /\ cutTids' \in SUBSET Tid
    BY <1>2, <1>4, <1>5
  <2> QED
    BY <1>1, <1>3, <2>1 DEF RunqTypeOK
<1>7. RunqPlaces'
  BY <1>1, <1>3 DEF RunqPlaces
<1>8. \A d \in Tid : Undisturbed(d)' => Undisturbed(d) /\ enqueue_ts'[d] = enqueue_ts[d]
  BY <1>2, <1>3 DEF Undisturbed
<1>9. RunqWaits'
  <2>1. \A t \in alive : TidOf[t] \in Tid
    BY <1>4
  <2> QED
    BY <1>1, <1>3, <1>8, <2>1 DEF RunqWaits
<1>10. RunqCharges'
  <2>1. \A t \in Task \ entries' : runq_ns'[t] = 0 /\ runq_count'[t] = 0
    BY <1>1, <1>2 DEF RunqCharges
  <2>2. ASSUME NEW t \in (alive' \cup entries') \ Self, Undisturbed(TidOf[t])'
        PROVE  runq_ns'[t] = waited'[t] /\ runq_count'[t] = dispatches'[t]
    <3>1. t \in (alive \cup entries) \ Self /\ t \notin gone /\ t \in Task
      BY <1>2, <1>3, <1>4
    <3>2. Undisturbed(TidOf[t])
      BY <1>4, <1>8, <2>2, <3>1
    <3>3. runq_ns[t] = waited[t] /\ runq_count[t] = dispatches[t]
      BY <1>1, <3>1, <3>2 DEF RunqCharges
    <3> QED
      BY <1>2, <1>3, <3>1, <3>3
  <2>3. \A t \in Task : dispatches'[t] = 0 => waited'[t] = 0
    BY <1>1, <1>3 DEF RunqCharges
  <2> QED
    BY <2>1, <2>2, <2>3 DEF RunqCharges
<1>11. ASSUME NEW d \in Tid PROVE enqueue_ts'[d] <= now' /\ Within(d)'
  <2>1. SumOver(runq_ns, On(d)) < IF enqueue_ts[d] # 0 THEN enqueue_ts[d] ELSE now
    BY <1>1 DEF RunqBudget, Within
  <2>2. SumOver(runq_ns, On(d)) \in Int /\ IsFiniteSet(On(d)) /\ Ints(runq_ns, On(d))
    BY <1>1, ChargeSums
  <2>3. \A x \in On(d) : runq_ns'[x] <= runq_ns[x] /\ runq_ns'[x] \in Int
    BY <1>2, <1>4 DEF On
  <2>4. Ints(runq_ns', On(d))
    BY <2>3 DEF Ints
  <2>5. SumOver(runq_ns', On(d)) \in Int
    BY <2>2, <2>4, SumType
  <2>6. SumOver(runq_ns', On(d)) <= SumOver(runq_ns, On(d))
    BY <2>2, <2>3, <2>4, SumAtMost
  <2>7. enqueue_ts'[d] = 0 \/ enqueue_ts'[d] = enqueue_ts[d]
    BY <1>2
  <2>8. enqueue_ts[d] \in Nat /\ enqueue_ts[d] <= now
    BY <1>1, <1>4 DEF RunqBudget
  <2>9. SumOver(runq_ns', On(d)) < IF enqueue_ts'[d] # 0 THEN enqueue_ts'[d] ELSE now
    BY <1>4, <2>1, <2>2, <2>5, <2>6, <2>7, <2>8
  <2> QED
    BY <1>3, <1>4, <2>7, <2>8, <2>9 DEF Within
<1>12. RunqBudget'
  BY <1>3, <1>4, <1>11 DEF RunqBudget
<1> QED
  BY <1>6, <1>7, <1>9, <1>10, <1>12 DEF RunqInv

(* At attach nobody has a timestamp, a charge or a wait on record. *)
LEMMA RunqStarts == ASSUME RunqInit PROVE RunqInv
<1>1. /\ now = 1 /\ alive \in SUBSET Task /\ cpu \in [CPU -> alive \cup {Idle}]
      /\ queued \in SUBSET (alive \ Dispatched) /\ switched = [c \in CPU |-> 0]
      /\ blocking = alive \ (queued \cup Dispatched)
      /\ entries = {} /\ enqueue_ts = [d \in Tid |-> 0] /\ map_update_fail = FALSE
      /\ raced = {} /\ cutTids = {}
  BY DEF RunqInit
<1>2. /\ runq_ns = [t \in Task |-> 0] /\ runq_count = [t \in Task |-> 0]
      /\ queuedAt = [t \in Task |-> 0] /\ waited = [t \in Task |-> 0]
      /\ dispatches = [t \in Task |-> 0]
  BY DEF RunqInit, NoCount
<1>3. RunqTypeOK
  <2>1. /\ now \in Nat /\ alive \in SUBSET Task /\ queued \in SUBSET Task
        /\ blocking \in SUBSET Task /\ cpu \in [CPU -> Task \cup {Idle}]
        /\ switched \in [CPU -> Nat] /\ entries \in SUBSET Task
        /\ raced \in SUBSET Tid /\ cutTids \in SUBSET Tid
    BY <1>1
  <2>2. /\ runq_ns \in [Task -> Nat] /\ runq_count \in [Task -> Nat]
        /\ queuedAt \in [Task -> Nat] /\ waited \in [Task -> Nat]
        /\ dispatches \in [Task -> Nat] /\ enqueue_ts \in [Tid -> Nat]
    BY <1>1, <1>2
  <2>3. map_update_fail \in BOOLEAN
    BY <1>1
  <2> QED
    BY <2>1, <2>2, <2>3 DEF RunqTypeOK
<1>4. RunqPlaces
  <2>1. \A c \in CPU : cpu[c] # Idle => cpu[c] \in alive \ queued
    BY <1>1 DEF Dispatched
  <2>2. queued \subseteq alive /\ queued \cap blocking = {}
    BY <1>1
  <2>3. \A t \in Task : queuedAt[t] = 0 /\ queuedAt[t] <= now
    BY <1>1, <1>2
  <2> QED
    BY <2>1, <2>2, <2>3 DEF RunqPlaces, RunqInit
<1>5. RunqWaits
  <2>1. \A t \in alive : TidOf[t] \in Tid /\ t \in Task
    BY <1>1, RunqAssumption
  <2> QED
    BY <1>1, <1>2, <2>1 DEF RunqWaits
<1>6. RunqCharges
  BY <1>1, <1>2 DEF RunqCharges
<1>7. RunqBudget
  <2>1. ASSUME NEW d \in Tid PROVE enqueue_ts[d] <= now /\ Within(d)
    <3>1. IsFiniteSet(On(d)) /\ \A t \in On(d) : runq_ns[t] = 0
      BY <1>2, <1>3, ChargeSums DEF On
    <3>2. SumOver(runq_ns, On(d)) = 0
      BY <3>1, SumZero
    <3>3. enqueue_ts[d] = 0
      BY <1>1
    <3> QED
      BY <1>1, <3>2, <3>3 DEF Within
  <2> QED
    BY <1>1, <2>1 DEF RunqBudget
<1> QED
  BY <1>3, <1>4, <1>5, <1>6, <1>7 DEF RunqInv

LEMMA RunqKept == ASSUME RunqInv, [RunqNext]_runqVars PROVE RunqInv'
<1>1. CASE RunqTick
  BY <1>1, RunqTickKept
<1>2. ASSUME NEW t \in Task, Wakeup(t) PROVE RunqInv'
  BY <1>2, WakeupKept
<1>3. ASSUME NEW t \in Task, WakeupNew(t) PROVE RunqInv'
  BY <1>3, WakeupNewKept
<1>4. ASSUME NEW c \in CPU, SetState(c) PROVE RunqInv'
  BY <1>4, SetStateKept
<1>5. ASSUME NEW c \in CPU, NEW n \in Task \cup {Idle}, NEW preempt \in BOOLEAN,
             NEW exits \in BOOLEAN, Switch(c, n, preempt, exits)
      PROVE  RunqInv'
  BY <1>5, SwitchKept
<1>6. ASSUME NEW gone \in SUBSET Task, RunqPoll(gone) PROVE RunqInv'
  BY <1>6, RunqPollKept
<1>7. CASE UNCHANGED runqVars
  BY <1>7, RunqIdleKept
<1> QED
  BY <1>1, <1>2, <1>3, <1>4, <1>5, <1>6, <1>7 DEF RunqNext

(* runq_ns and runq_count are the waits a task had (bpf/cpu.bpf.c: record_enqueue,   *)
(* handle_switch), through duplicate wakeups, preemptions on the way to sleep and    *)
(* reused thread ids, as long as no update failed and no holder of its tid was       *)
(* woken on a CPU or had its timestamp deleted; the charges of one tid never overlap.*)
LEMMA RunqFollows == ASSUME RunqInv PROVE RunqExact
<1>1. RunqTypeOK /\ RunqCharges /\ RunqBudget
  BY DEF RunqInv
<1>2. ASSUME NEW t \in entries \ Self
      PROVE  \/ map_update_fail \/ TidOf[t] \in raced \cup cutTids
             \/ runq_ns[t] = waited[t] /\ runq_count[t] = dispatches[t]
  BY <1>1 DEF RunqCharges, Undisturbed
<1>3. ASSUME NEW d \in Tid PROVE SumOver(runq_ns, On(d)) < now
  <2>1. SumOver(runq_ns, On(d)) < IF enqueue_ts[d] # 0 THEN enqueue_ts[d] ELSE now
    BY <1>1 DEF RunqBudget, Within
  <2>2. SumOver(runq_ns, On(d)) \in Int
    BY <1>1, ChargeSums
  <2>3. enqueue_ts[d] \in Nat /\ enqueue_ts[d] <= now /\ now \in Nat
    BY <1>1 DEF RunqTypeOK, RunqBudget
  <2> QED
    BY <2>1, <2>2, <2>3
<1>4. ASSUME NEW d \in Tid
      PROVE  MapThenSumSet(LAMBDA t : runq_ns[t], {t \in Task : TidOf[t] = d}) < now
  BY <1>3 DEF SumOver, On
<1> QED
  BY <1>2, <1>4 DEF RunqExact

THEOREM RunqHolds == RunqSpec => []RunqExact
<1>1. RunqInit => RunqInv
  BY RunqStarts
<1>2. RunqInv /\ [RunqNext]_runqVars => RunqInv'
  BY RunqKept
<1>3. RunqInv => RunqExact
  BY RunqFollows
<1> QED
  BY <1>1, <1>2, <1>3, PTL DEF RunqSpec
=============================================================================
