--------------------------- MODULE TargetTracker ---------------------------
(***************************************************************************)
(* Who is observed with --target-pid: the tracker of one process tree      *)
(* (internal/collector/target.go), the membership maps it shares with the  *)
(* BPF hooks, and the hooks' admission of a task (allowed_task in          *)
(* bpf/lock.bpf.c, bpf/mem.bpf.c and bpf/syscall.bpf.c).                   *)
(*                                                                         *)
(* The kernel reuses process ids.  A process is identified by its start    *)
(* time, here its birth number; the USER_HZ rounding of /proc and the tick *)
(* of tolerance it needs are left out, so a seed and an exact identity of  *)
(* a process are one value.  Threads (activeTIDs) are left out too.        *)
(***************************************************************************)
EXTENDS Integers, FiniteSets

CONSTANTS
  Tgid,       \* process ids; 0 is the parent of orphans and of unrelated processes
  Root,       \* --target-pid
  NoPid,      \* ^uint32(0)
  Depth,      \* processes an ancestry walk looks at (16 in the program)
  Stale,      \* staleWindowsBeforeDelete (3 in the program)
  MaxBirths   \* bound: processes ever born

ASSUME TargetAssumption ==
  /\ IsFiniteSet(Tgid) /\ Root \in Tgid /\ 0 \notin Tgid /\ NoPid \notin Tgid
  /\ Depth \in Nat \ {0} /\ Stale \in Nat \ {0} /\ MaxBirths \in Nat

VARIABLES
  start, parent,                \* the kernel's processes; start 0: no process
  born,                         \* births so far
  target_pid, target_tgids, observed_tgids,     \* BPF maps; 0: no entry
  rootAlive, activeStarts, retiredTGIDs, retiredStarts,  \* targetTracker
  observed, observedStarts,     \* observedTGIDs: remaining and bpfStart
  pc,                           \* the step of refreshTargetTGIDs and Poll
  snap, fresh, entries,         \* their local variables
  lineage,                      \* history: born of the target, or the target itself
  rootReused,                   \* history: Root was reborn before BPF was told
  reusedMidPoll,                \* history: an id was reborn during a poll
  quiet                         \* history: refreshes since an id was active or heard

kernel  == <<start, parent, born, lineage>>
maps    == <<target_pid, target_tgids, observed_tgids>>
tracked == <<activeStarts, retiredTGIDs, retiredStarts>>
heard   == <<observed, observedStarts>>
locals  == <<snap, fresh, entries>>
reuse   == <<rootReused, reusedMidPoll>>
vars    == <<kernel, maps, rootAlive, tracked, heard, pc, locals, reuse, quiet>>

Nobody == [p \in Tgid |-> 0]
RootStart == 1  \* the target is the first process born
Alive(p) == start[p] # 0

----------------------------------------------------------------------------
(* The kernel.                                                             *)

\* A walk up the parents leads from p to root within n processes, both included.
Descends(p, root, n) ==
  \E len \in 1..n : \E walk \in [1..len -> Tgid] :
    /\ walk[1] = p /\ walk[len] = root
    /\ \A i \in 1..(len - 1) : parent[walk[i]] = walk[i + 1]

Fork(p, by) ==
  /\ ~Alive(p) /\ born < MaxBirths
  /\ by # 0 => Alive(by)
  /\ born' = born + 1
  /\ start' = [start EXCEPT ![p] = born + 1]
  /\ parent' = [parent EXCEPT ![p] = by]
  /\ lineage' = [lineage EXCEPT ![p] = by # 0 /\ lineage[by]]
  /\ rootReused' = (rootReused \/ (p = Root /\ target_pid = Root))
  /\ reusedMidPoll' = (reusedMidPoll \/ pc # "idle")
  /\ UNCHANGED <<maps, rootAlive, tracked, heard, pc, locals, quiet>>

Exit(p) ==
  /\ Alive(p)
  /\ start' = [start EXCEPT ![p] = 0]
  /\ parent' = [q \in Tgid |-> IF q = p \/ parent[q] = p THEN 0 ELSE parent[q]]
  /\ lineage' = [lineage EXCEPT ![p] = FALSE]
  /\ UNCHANGED <<born, maps, rootAlive, tracked, heard, pc, locals, reuse, quiet>>

----------------------------------------------------------------------------
(* allowed_task.                                                           *)

\* Membership by number alone.
NumberAdmitted(p) == target_tgids[p] # 0
Admitted(p) == target_tgids[p] = start[p]

ByAncestry(p) == Descends(p, target_pid, Depth)

Allowed(p) == Alive(p) /\ (Admitted(p) \/ ByAncestry(p))

\* A task of p reaches a hook: admitted, it is put in both maps with its identity.
Hook(p) ==
  /\ Allowed(p)
  /\ target_tgids' = [target_tgids EXCEPT ![p] = start[p]]
  /\ observed_tgids' = [observed_tgids EXCEPT ![p] = start[p]]
  /\ UNCHANGED <<kernel, target_pid, rootAlive, tracked, heard, pc, locals, reuse, quiet>>

----------------------------------------------------------------------------
(* refresh.                                                                *)

\* collectTargetTGIDs: the processes below Root, at any depth.
Tree == {p \in Tgid : Alive(p) /\ Descends(p, Root, Cardinality(Tgid))}

Snapshot ==
  /\ pc = "idle" /\ pc' = "root"
  /\ snap' = IF Alive(Root) THEN Tree ELSE {}
  /\ UNCHANGED <<kernel, maps, rootAlive, tracked, heard, fresh, entries, reuse, quiet>>

ReadRootStart ==
  /\ pc = "root" /\ pc' = "identify"
  /\ rootAlive' = (start[Root] = RootStart)
  /\ snap' = IF start[Root] = RootStart THEN snap ELSE {}
  /\ UNCHANGED <<kernel, maps, tracked, heard, fresh, entries, reuse, quiet>>

\* The start times of the tree; a process that is gone drops out.
Identify ==
  /\ pc = "identify" /\ pc' = "update"
  /\ fresh' = [p \in Tgid |-> IF p \in snap THEN start[p] ELSE 0]
  /\ snap' = {}
  /\ UNCHANGED <<kernel, maps, rootAlive, tracked, heard, entries, reuse, quiet>>

\* A process that keeps its grace for ever.
NoDecay(n) == n
Decay(n) == IF n > 0 THEN n - 1 ELSE 0

\* advanceTargetMembership.
Retired(p) == IF fresh[p] # 0 THEN 0
              ELSE IF activeStarts[p] # 0 THEN Stale ELSE Decay(retiredTGIDs[p])
RetiredStart(p) == IF activeStarts[p] # 0 THEN activeStarts[p] ELSE retiredStarts[p]

\* Grace kept without looking at the process that has the id now.
KeepsGrace(p) == p # Root \/ rootAlive
\* The grace is the old process's, and never the root's.
StillSame(p) == /\ Alive(p) => start[p] = RetiredStart(p)
                /\ p # Root \/ rootAlive

StillHeard(p) == /\ fresh[p] = 0
                 /\ Alive(p) => start[p] = observedStarts[p]
                 /\ observed[p] > 1
                 /\ p # Root \/ rootAlive

Update ==
  /\ pc = "update" /\ pc' = "drain"
  /\ LET keep == {p \in Tgid : Retired(p) # 0 /\ StillSame(p)} IN
     /\ retiredTGIDs' = [p \in Tgid |-> IF p \in keep THEN Retired(p) ELSE 0]
     /\ retiredStarts' = [p \in Tgid |-> IF p \in keep THEN RetiredStart(p) ELSE 0]
  /\ activeStarts' = fresh
  /\ observed' = [p \in Tgid |-> IF StillHeard(p) THEN observed[p] - 1 ELSE 0]
  /\ observedStarts' = [p \in Tgid |-> IF StillHeard(p) THEN observedStarts[p] ELSE 0]
  /\ quiet' = [p \in Tgid |-> IF fresh[p] # 0 THEN 0
                              ELSE IF quiet[p] <= Stale THEN quiet[p] + 1 ELSE quiet[p]]
  /\ fresh' = Nobody
  /\ UNCHANGED <<kernel, maps, rootAlive, snap, entries, reuse>>

----------------------------------------------------------------------------
(* drainObservedTGIDs: at the end of the refresh and again once the        *)
(* statistics are read.                                                    *)

\* A heartbeat of a dead root is taken like any other.
HeedsAll(p) == TRUE
Heeds(p) == p = Root => rootAlive

\* observeTGID.
Observes(p) == /\ observed_tgids[p] # 0
               /\ Heeds(p)
               /\ activeStarts[p] = 0
               /\ Alive(p) => start[p] = observed_tgids[p]

DrainRead(from, to) ==
  /\ pc = from /\ pc' = to
  /\ entries' = {p \in Tgid : observed_tgids[p] # 0}
  /\ observed' = [p \in Tgid |-> IF Observes(p) THEN Stale ELSE observed[p]]
  /\ observedStarts' =
       [p \in Tgid |-> IF Observes(p) THEN observed_tgids[p] ELSE observedStarts[p]]
  /\ quiet' = [p \in Tgid |-> IF Observes(p) THEN 0 ELSE quiet[p]]
  /\ UNCHANGED <<kernel, maps, rootAlive, tracked, snap, fresh, reuse>>

DrainDelete(from, to) ==
  /\ pc = from /\ pc' = to
  /\ observed_tgids' = [p \in Tgid |-> IF p \in entries THEN 0 ELSE observed_tgids[p]]
  /\ entries' = {}
  /\ UNCHANGED <<kernel, target_pid, target_tgids, rootAlive, tracked, heard, snap, fresh,
                 reuse, quiet>>

----------------------------------------------------------------------------
(* The membership handed to BPF.                                           *)

ContainsTGID(p) ==
  \/ activeStarts[p] # 0
  \/ observed[p] # 0 /\ (Alive(p) => start[p] = observedStarts[p])
  \/ observed[p] = 0 /\ retiredTGIDs[p] # 0 /\ (Alive(p) => start[p] = retiredStarts[p])

\* targetTGIDSeeds.
Desired(p) == IF ~ContainsTGID(p) THEN 0
              ELSE IF activeStarts[p] # 0 THEN activeStarts[p]
              ELSE IF retiredTGIDs[p] # 0 THEN retiredStarts[p] ELSE observedStarts[p]

PutRoot ==
  /\ pc = "put" /\ pc' = "sync"
  /\ target_pid' = IF rootAlive THEN Root ELSE NoPid  \* bpfFilterRoot
  /\ UNCHANGED <<kernel, target_tgids, observed_tgids, rootAlive, tracked, heard, locals,
                 reuse, quiet>>

\* syncTargetTGIDMap.
Sync ==
  /\ pc = "sync" /\ pc' = "read"
  /\ target_tgids' = [p \in Tgid |-> Desired(p)]
  /\ UNCHANGED <<kernel, target_pid, observed_tgids, rootAlive, tracked, heard, locals,
                 reuse, quiet>>

----------------------------------------------------------------------------
\* initialize found Root alive; BPF was given its number and the hooks are attached.
Init ==
  /\ start = [Nobody EXCEPT ![Root] = RootStart] /\ parent = Nobody /\ born = 1
  /\ target_pid = Root /\ observed_tgids = Nobody
  /\ target_tgids = [Nobody EXCEPT ![Root] = RootStart]
  /\ rootAlive = TRUE /\ activeStarts = [Nobody EXCEPT ![Root] = RootStart]
  /\ retiredTGIDs = Nobody /\ retiredStarts = Nobody
  /\ observed = Nobody /\ observedStarts = Nobody
  /\ pc = "idle" /\ snap = {} /\ fresh = Nobody /\ entries = {}
  /\ lineage = [p \in Tgid |-> p = Root]
  /\ rootReused = FALSE /\ reusedMidPoll = FALSE
  /\ quiet = [p \in Tgid |-> IF p = Root THEN 0 ELSE Stale + 1]

Poll ==
  \/ Snapshot \/ ReadRootStart \/ Identify \/ Update
  \/ DrainRead("drain", "drained") \/ DrainDelete("drained", "put")
  \/ PutRoot \/ Sync
  \/ DrainRead("read", "reread") \/ DrainDelete("reread", "idle")

Next ==
  \/ \E p \in Tgid : Exit(p) \/ Hook(p) \/ (\E by \in Tgid \cup {0} : Fork(p, by))
  \/ Poll

Spec == Init /\ [][Next]_vars

----------------------------------------------------------------------------
(* Properties.                                                             *)

TypeOK ==
  /\ start \in [Tgid -> Nat] /\ parent \in [Tgid -> Tgid \cup {0}] /\ born \in Nat
  /\ target_pid \in {Root, NoPid}
  /\ target_tgids \in [Tgid -> Nat] /\ observed_tgids \in [Tgid -> Nat]
  /\ rootAlive \in BOOLEAN
  /\ activeStarts \in [Tgid -> Nat] /\ retiredStarts \in [Tgid -> Nat]
  /\ observedStarts \in [Tgid -> Nat]
  /\ retiredTGIDs \in [Tgid -> 0..Stale] /\ observed \in [Tgid -> 0..Stale]
  /\ pc \in {"idle", "root", "identify", "update", "drain", "drained", "put", "sync",
             "read", "reread"}
  /\ snap \in SUBSET Tgid /\ fresh \in [Tgid -> Nat] /\ entries \in SUBSET Tgid

\* BPF admits only processes born of the target, unless the root's id was reborn
\* before BPF was told of its death, or an id was reborn in the middle of a poll.
OnlyLineage == ~rootReused /\ ~reusedMidPoll =>
  \A p \in Tgid : Allowed(p) => lineage[p]

\* Once a refresh has found the root dead, its number is admitted by nothing: not by a
\* queued heartbeat, not by a grace, not by ancestry.
RootStaysDropped == ~rootAlive /\ pc = "idle" =>
  /\ target_pid = NoPid
  /\ target_tgids[Root] = 0 /\ ~ContainsTGID(Root)

\* A process of the tree that was heard during the last window is in the membership
\* when the poll has written it, though it left the tree with its parent.
HeardKept == [][pc = "sync" /\ pc' = "read" /\ ~reusedMidPoll =>
  \A p \in Tgid : /\ Alive(p) /\ lineage[p] /\ observed[p] = Stale
                  /\ observedStarts[p] = start[p]
                  => target_tgids'[p] = start[p]]_vars

\* The grace of an id that is neither active nor heard ends after Stale refreshes.
GraceEnds == \A p \in Tgid :
  quiet[p] > Stale => retiredTGIDs[p] = 0 /\ observed[p] = 0

\* The reuse of the root's number does not bring another tree into the session: when
\* a poll that found the root dead is over, only processes of the target are admitted.
ReuseNeverRetargets == ~rootAlive /\ pc = "idle" /\ ~reusedMidPoll =>
  \A p \in Tgid : Allowed(p) => lineage[p]
=============================================================================
