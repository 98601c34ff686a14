---------------------------- MODULE LockSamples ----------------------------
(***************************************************************************)
(* From the waits of one window to the samples the lock detector sees:     *)
(* LockCollector.Poll groups the differences of its keys, which LockPath   *)
(* models, and prepareLockSamples filters and cuts the groups.             *)
(*                                                                         *)
(* A wait key is [pid, tid, address, stack]; waits[k] is the time a thread *)
(* waited under k in the window, 0 if only its number of waits has grown.  *)
(***************************************************************************)
EXTENDS Reports, SequencesExt

CONSTANTS
  Waits, \* functions from wait keys with a difference to time waited in a window
  topN   \* --lock-topn

\* identityOfLock: the address, or else the kernel stack, within a process.
\* Poll's lockGroupKey is the same.
identityOfLock(k) == <<"lock", k.pid, k.address, IF k.address = 0 THEN k.stack ELSE 0>>

\* ratio is in percent of the window.
Ratio(total, elapsed) == (100 * total) \div elapsed

----------------------------------------------------------------------------
(* LockCollector.Poll, given the differences.                              *)

NewGroup(k) == [waiters |-> <<>>, total |-> 0, stack |-> k.stack, top |-> 0]

\* Waiters are told apart by their stacks as well.
WaiterPerKey(k) == 1000 * k.stack + k.tid

\* Waiters are told apart by thread.
WaiterOf(k) == k.tid

\* A key joins the group of its lock; the key with the most time, the first
\* one of equals, says where the lock is taken.
Joined(groups, k, ns) ==
  LET g == IF identityOfLock(k) \in DOMAIN groups THEN groups[identityOfLock(k)]
                                                 ELSE NewGroup(k)
      w == WaiterOf(k)
      before == IF w \in DOMAIN g.waiters THEN g.waiters[w] ELSE 0 IN
  Put(groups, identityOfLock(k),
      [waiters |-> Put(g.waiters, w, before + ns),
       total   |-> g.total + ns,
       stack   |-> IF ns > g.top THEN k.stack ELSE g.stack,
       top     |-> Greater(g.top, ns)])

Grouped(waits, order) ==
  FoldLeft(LAMBDA groups, k : Joined(groups, k, waits[k]), <<>>, order)

\* Keys without a difference are passed over; a Go map gives the rest in any order.
Groupings == [w \in Waits |-> {Grouped(w, order) : order \in SetToSeqs(DOMAIN w)}]

\* The longest wait comes first, the smaller thread id among equals.
TopWaiter(waiters) ==
  CHOOSE w \in DOMAIN waiters :
    \A v \in DOMAIN waiters : \/ waiters[w] > waiters[v]
                              \/ waiters[w] = waiters[v] /\ w <= v

SampleOf(id, g, targeted, elapsed) ==
  [id |-> id, pid |-> id[2], tid |-> TopWaiter(g.waiters), address |-> id[3],
   stack |-> g.stack, futex |-> id[3] # 0, targeted |-> targeted,
   waiterCount |-> Cardinality(DOMAIN g.waiters),
   ratio |-> Ratio(g.total, elapsed), total |-> g.total]

LockSamplesOf(groups, targeted, elapsed) ==
  {SampleOf(id, groups[id], targeted, elapsed) : id \in DOMAIN groups}

----------------------------------------------------------------------------
(* prepareLockSamples.                                                     *)

\* A futex, or a stack with a lock's name in it, unless every wait is asked for.
Candidates(samples, includeBlocking) ==
  {s \in samples : includeBlocking \/ s.futex \/ Stack[s.stack].hint}

\* The cut to the first topN by the share of the window.  What sorts equals, the longest
\* wait first, is not in the samples: they may fall on either side.
Kept(candidates) ==
  {S \in SUBSET candidates :
     /\ Cardinality(S) = Lesser(topN, Cardinality(candidates))
     /\ \A s \in S, t \in candidates \ S : s.ratio >= t.ratio}

----------------------------------------------------------------------------
(* LockDetector.                                                           *)

\* One waiting thread proves synchronisation, two on one futex contention.
Contended(s) == s.ratio >= threshold.lock /\ (s.futex => s.waiterCount >= 2)
=============================================================================
