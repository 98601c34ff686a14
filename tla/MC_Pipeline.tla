---------------------------- MODULE MC_Pipeline ----------------------------
(***************************************************************************)
(* A small instance of Pipeline.  Two threads of process 1 wait at a       *)
(* futex, one of them on two paths, and at two kernel locks whose stacks   *)
(* look alike, only one of which names a lock; processes 1 and 2 are the   *)
(* target's tree, 3 is not.                                                *)
(***************************************************************************)
EXTENDS Pipeline

CONSTANTS MaxWait, MaxFacts

MCThreshold == [cpu |-> 80, io |-> 10, mem |-> 15, lock |-> 100, syscall |-> 1000]
MCHalfThreshold == [MCThreshold EXCEPT !.lock = 50]
MCStack == <<[top |-> 1, hint |-> FALSE], [top |-> 1, hint |-> FALSE],
             [top |-> 3, hint |-> TRUE], [top |-> 3, hint |-> FALSE]>>

WaitKey(tid, address, stack) == [pid |-> 1, tid |-> tid, address |-> address, stack |-> stack]

WaitKeys == {WaitKey(1, 9, 1), WaitKey(1, 9, 2), WaitKey(2, 9, 1),
             WaitKey(2, 0, 3), WaitKey(1, 0, 4)}

\* A thread waits MaxWait at most, at all its locks together; one of its waits may be
\* too short for the clock.
MCWaits ==
  {w \in UNION {[keys -> 0 .. MaxWait] : keys \in SUBSET WaitKeys} :
     /\ \A t \in {1, 2} :
          MapThenSumSet(LAMBDA k : w[k], {k \in DOMAIN w : k.tid = t}) <= MaxWait
     /\ \A k \in DOMAIN w :
          w[k] = 0 => k = WaitKey(2, 9, 1) /\ WaitKey(2, 0, 3) \notin DOMAIN w}

\* Waits that no tie decides: of two locks, one is waited at longer.
MCUnequalWaits ==
  {w \in MCWaits : \A i, j \in LockIds :
     i # j => TimeOf(w, KeysAt(w, i)) # TimeOf(w, KeysAt(w, j)) \/ TimeOf(w, KeysAt(w, i)) = 0}

\* At most MaxFacts things happen in a window, to all the processes together.
MCFacts ==
  LET Fact == {f \in [stalls : 0 .. 1, reclaim : 0 .. 2, growth : {0, 2}, faults : 0 .. 2,
                       marked : 0 .. 1] : f.reclaim > 0 => f.stalls > 0}
      Things(f) == Cardinality({n \in DOMAIN f \ {"reclaim"} : f[n] > 0}) IN
  {f \in [Proc -> Fact] : MapThenSumSet(LAMBDA p : Things(f[p]), Proc) <= MaxFacts}

MCCpuPolls ==
  {{[pid |-> 1, tid |-> t, cores |-> c, runqCount |-> q, runqWaitUs |-> 1000 * q]} :
     t \in {1, 2}, c \in {79, 80, 95}, q \in {0, 1}}

MCIoPolls ==
  {{[dev |-> 1, device |-> "sda", p99 |-> p, averageDepth |-> d]} : p \in {9, 10}, d \in {15, 16}}

Call(call, calls, total, avg) ==
  [pid |-> 1, call |-> call, calls |-> calls, totalMs |-> total, avgLatUs |-> avg,
   ignored |-> FALSE]

\* Call 1 waits for events, call 2 does not; or the last one to make it is ignored.
MCCallPolls ==
  {{Call(1, n, 300, 1000), Call(2, m, t, a)} :
     n \in {10, 1000}, m \in {10, 1000}, t \in {10, 300}, a \in {10, 1000}}
    \cup {{Call(1, 1000, 300, 1000), [Call(2, 1000, 300, 1000) EXCEPT !.ignored = TRUE]}}

MCMapKey ==
  {<<"cpu", 1, 0, 0>>, <<"io", 1, 0, 0>>, <<"syscall", 1, 1, 0>>, <<"syscall", 1, 2, 0>>}
    \cup {identityOfLock(k) : k \in WaitKeys}

MCWindows == [cpu |-> 5, io |-> 5, syscall |-> 3, lock |-> 4, mem |-> 3]
=============================================================================
