---------------------------- MODULE SyscallPath ----------------------------
(***************************************************************************)
(* System-call latency: bpf/syscall.bpf.c and SyscallCollector.            *)
(*                                                                         *)
(* The enter event leaves a timestamp in an LRU map under the thread's id, *)
(* the exit event settles it into the process's statistics, Poll reports   *)
(* differences.  An exit that finds no timestamp is either a call that was *)
(* entered before the probes were there (the thread then has a marker in   *)
(* startup_tids) or lost data, which fails the whole collector.            *)
(*                                                                         *)
(* One system call number stands for all: a key of syscall_stats is its    *)
(* process.  A handler runs on its thread's CPU between two steps of Poll; *)
(* nothing it touches is touched by another handler of the same thread.    *)
(***************************************************************************)
EXTENDS Integers, FiniteSets

CONSTANTS
  Proc,         \* process ids
  Near,         \* processes whose ancestor walk reaches the target's root
  Self,         \* the collector's own process, if it shows up
  Tid,          \* thread ids
  Nobody,       \* no process
  StartCap,     \* max_entries of start, an LRU map (16384 in the program)
  StatsCap,     \* max_entries of syscall_stats (16384 in the program)
  StaleWindows, \* staleWindowsBeforeDelete (3 in the program)
  MaxTime,      \* bound: last value of the clock
  MaxPolls,     \* bound: number of polls
  MaxArrivals   \* bound: number of calls entered and threads born

ASSUME SyscallAssumption ==
  /\ Nobody \notin Proc \cup Tid /\ Near \subseteq Proc /\ Self \subseteq Proc
  /\ StartCap \in Nat \ {0} /\ StatsCap \in Nat /\ StaleWindows \in Nat \ {0}
  /\ MaxTime \in Nat /\ MaxPolls \in Nat /\ MaxArrivals \in Nat

VARIABLES
  now,             \* bpf_ktime_get_ns; 0 is never a timestamp
  setup,           \* "loaded", then "enter" attached, "seeded", "exit" attached
  targeted,        \* --target-pid was given
  deep,            \* processes of its tree more than 16 levels down: /proc alone shows them
  owner,           \* owner[t]: the process of thread t
  call,            \* call[t]: "none", "inside" a call, or a "child" on its way out of clone
  since,           \* when the call was entered; 0: none, or before the probes
  arrivals,        \* calls entered and threads born so far
  start,           \* tid -> timestamp; 0: no entry
  startup_tids,    \* tids marked as possibly inside a call at attach
  admitted,        \* processes in target_tgids
  entries, count, total_ns,  \* syscall_stats
  exit_miss, map_update_fail, \* whether the health counters are not 0
  pc, members, raw, rawTotal, prev, prevTotal, stale, polls, \* Poll
  seen,            \* history: threads whose present call's enter event was recorded
  masked,          \* history: threads marked, or whose process was taken out of
                   \* target_tgids, while such a call was on
  deaf,            \* history: threads whose enter event was not for us, but whose process now is
  evicted,         \* history: threads whose timestamp the LRU map gave up
  hidden,          \* history: such a call returned and nobody counted it
  unfounded,       \* history: a return was counted though its thread lost nothing
  matched, spent,  \* history: calls settled per process; time they really took
  reported, reportedTotal,  \* history: what Poll reported
  haunted, cut,    \* history: processes charged a dead thread's call; cut off by a deletion
  deadPolls        \* history: polls settled since the process was gone

probes  == <<setup, targeted, deep>>
threads == <<owner, call, since, arrivals>>
maps    == <<start, startup_tids, admitted>>
stats   == <<entries, count, total_ns, exit_miss, map_update_fail>>
poller  == <<pc, members, raw, rawTotal, prev, prevTotal, stale, polls>>
calls   == <<seen, masked, deaf, evicted, hidden, unfounded, matched, spent, haunted>>
outcome == <<reported, reportedTotal, cut, deadPolls>>
vars    == <<now, probes, threads, maps, stats, poller, calls, outcome>>

NoCount == [p \in Proc |-> 0]
Tree == Near \cup deep
Alive == {owner[t] : t \in Tid} \ {Nobody}

----------------------------------------------------------------------------
(* NewSyscallCollector: three steps while threads run.                     *)

AttachEnter ==
  /\ setup = "loaded"
  /\ setup' = "enter"
  /\ UNCHANGED <<now, targeted, deep, threads, maps, stats, poller, calls, outcome>>

\* seedStartupTIDs marks every thread that /proc shows.
Seed ==
  LET live == {t \in Tid : owner[t] # Nobody} IN
  /\ setup = "enter"
  /\ setup' = "seeded"
  /\ startup_tids' = startup_tids \cup live
  /\ masked' = masked \cup (live \cap seen)
  /\ UNCHANGED <<now, targeted, deep, threads, start, admitted, stats, poller, seen, deaf,
                 evicted, hidden, unfounded, matched, spent, haunted, outcome>>

AttachExit ==
  /\ setup = "seeded"
  /\ setup' = "exit"
  /\ UNCHANGED <<now, targeted, deep, threads, maps, stats, poller, calls, outcome>>

----------------------------------------------------------------------------
(* Threads and the handlers of their events.                               *)

\* allowed_tgid: a known member of the target's tree, or one the walk finds.
Allowed(p) == ~targeted \/ p \in admitted \/ p \in Near

\* handle_enter that leaves the marker to the exit handler.
MarkerLeft(t) == startup_tids

\* An enter event proves the thread's marker stale.
MarkerCleared(t) == startup_tids \ {t}

\* handle_enter.  A full start map gives up an entry of its choice.
Enter(t) ==
  LET p     == owner[t]
      heard == setup # "loaded" /\ Allowed(p)
      full  == Cardinality({d \in Tid \ {t} : start[d] # 0}) >= StartCap IN
  /\ p # Nobody /\ call[t] = "none"
  /\ arrivals < MaxArrivals /\ arrivals' = arrivals + 1
  /\ call' = [call EXCEPT ![t] = "inside"]
  /\ since' = [since EXCEPT ![t] = now]
  /\ IF heard
     THEN \E v \in IF full THEN {d \in Tid \ {t} : start[d] # 0} ELSE {Nobody} :
            /\ start' = [d \in Tid |-> IF d = t THEN now ELSE IF d = v THEN 0 ELSE start[d]]
            /\ evicted' = evicted \cup ({v} \cap seen)
            /\ startup_tids' = MarkerCleared(t)
            /\ admitted' = IF targeted THEN admitted \cup {p} ELSE admitted
            /\ seen' = seen \cup {t}
            /\ UNCHANGED deaf
     ELSE /\ deaf' = IF setup = "loaded" THEN deaf ELSE deaf \cup {t}
          /\ UNCHANGED <<maps, seen, evicted>>
  /\ UNCHANGED <<now, probes, owner, stats, poller, masked, hidden, unfounded, matched,
                 spent, haunted, outcome>>

\* handle_exit with a timestamp: the call is settled.
Settle(t) ==
  LET p    == owner[t]
      room == p \in entries \/ Cardinality(entries) < StatsCap IN
  /\ entries' = IF room THEN entries \cup {p} ELSE entries
  /\ count' = IF room THEN [count EXCEPT ![p] = @ + 1] ELSE count
  /\ total_ns' = IF room THEN [total_ns EXCEPT ![p] = @ + (now - start[t])] ELSE total_ns
  /\ map_update_fail' = (map_update_fail \/ ~room)
  /\ start' = [start EXCEPT ![t] = 0]
  /\ startup_tids' = startup_tids \ {t}
  /\ IF t \in seen
     THEN /\ matched' = [matched EXCEPT ![p] = @ + 1]
          /\ spent' = [spent EXCEPT ![p] = @ + (now - since[t])]
          /\ UNCHANGED haunted
     ELSE haunted' = haunted \cup {p} /\ UNCHANGED <<matched, spent>>
  /\ UNCHANGED <<exit_miss, hidden, unfounded>>

\* Only a member of the target's tree can have lost data: without that test.
Anybody(p) == TRUE
Counts(p) == ~targeted \/ p \in admitted

\* handle_exit without one.
Unmatched(t) ==
  LET marked == t \in startup_tids
      missed == ~marked /\ Counts(owner[t]) IN
  /\ startup_tids' = startup_tids \ {t}
  /\ exit_miss' = (exit_miss \/ missed)
  /\ hidden' = (hidden \/ (t \in evicted \ masked /\ ~missed))
  /\ unfounded' = (unfounded \/ (missed /\ t \notin evicted /\ call[t] # "child"
                                 /\ (t \in deaf => owner[t] \notin Tree)))
  /\ UNCHANGED <<start, entries, count, total_ns, map_update_fail, matched, spent, haunted>>

\* A thread returns from a call.
Return(t) ==
  /\ call[t] # "none"
  /\ call' = [call EXCEPT ![t] = "none"]
  /\ IF setup # "exit"
     THEN UNCHANGED <<start, startup_tids, stats, hidden, unfounded, matched, spent, haunted>>
     ELSE IF start[t] # 0 THEN Settle(t) ELSE Unmatched(t)
  /\ since' = [since EXCEPT ![t] = 0]
  /\ seen' = seen \ {t} /\ masked' = masked \ {t}
  /\ deaf' = deaf \ {t} /\ evicted' = evicted \ {t}
  /\ UNCHANGED <<now, probes, owner, arrivals, admitted, poller, outcome>>

\* A thread is gone, killed or in the middle of exit: its map entries stay.
Die(t) ==
  /\ owner[t] # Nobody
  /\ owner' = [owner EXCEPT ![t] = Nobody]
  /\ call' = [call EXCEPT ![t] = "none"]
  /\ since' = [since EXCEPT ![t] = 0]
  /\ seen' = seen \ {t} /\ masked' = masked \ {t}
  /\ deaf' = deaf \ {t} /\ evicted' = evicted \ {t}
  /\ UNCHANGED <<now, probes, arrivals, maps, stats, poller, hidden, unfounded, matched,
                 spent, haunted, outcome>>

\* A new thread takes a free id.  The kernel may show its return from clone as an
\* exit event; there was no enter.  The first one of a process is a new instance of it,
\* which the identity kept for the old one does not match.
Clone(t, p) ==
  /\ owner[t] = Nobody
  /\ arrivals < MaxArrivals /\ arrivals' = arrivals + 1
  /\ owner' = [owner EXCEPT ![t] = p]
  /\ call' \in {[call EXCEPT ![t] = c] : c \in {"none", "child"}}
  /\ LET outdated == IF p \in Alive THEN {} ELSE {p} IN
       admitted' = admitted \ outdated /\ members' = members \ outdated
  /\ deadPolls' = [deadPolls EXCEPT ![p] = 0]
  /\ UNCHANGED <<now, probes, since, start, startup_tids, stats, pc, raw, rawTotal, prev,
                 prevTotal, stale, polls, calls, reported, reportedTotal, cut>>

Tick ==
  /\ now < MaxTime
  /\ now' = now + 1
  /\ UNCHANGED <<probes, threads, maps, stats, poller, calls, outcome>>

----------------------------------------------------------------------------
(* SyscallCollector.Poll, in four steps, two without a target: events come *)
(* in between.                                                             *)

\* refreshTargetTGIDs reads /proc and what the handlers heard,
PollRefresh ==
  /\ pc = "idle" /\ setup = "exit" /\ polls < MaxPolls /\ targeted
  /\ members' = Tree \cap Alive
  /\ pc' = "sync"
  /\ UNCHANGED <<now, probes, threads, maps, stats, raw, rawTotal, prev, prevTotal, stale,
                 polls, calls, outcome>>

\* then syncTargetTGIDMap takes a process out that was born and admitted since.
PollSync ==
  /\ pc = "sync"
  /\ admitted' = members
  /\ masked' = masked \cup {t \in seen : owner[t] \notin members}
  /\ members' = {}
  /\ pc' = "read"
  /\ UNCHANGED <<now, probes, threads, start, startup_tids, stats, raw, rawTotal, prev,
                 prevTotal, stale, polls, seen, deaf, evicted, hidden, unfounded, matched,
                 spent, haunted, outcome>>

\* syscall_stats is copied.
PollRead ==
  /\ pc = IF targeted THEN "read" ELSE "idle"
  /\ setup = "exit" /\ polls < MaxPolls
  /\ raw' = [p \in Proc |-> IF p \in entries THEN count[p] ELSE -1]
  /\ rawTotal' = total_ns
  /\ pc' = "settle"
  /\ UNCHANGED <<now, probes, threads, maps, stats, members, prev, prevTotal, stale, polls,
                 calls, outcome>>

Delta(p) == IF raw[p] > prev[p] THEN raw[p] - prev[p] ELSE 0
DeltaTotal(p) == IF rawTotal[p] > prevTotal[p] THEN rawTotal[p] - prevTotal[p] ELSE 0

Read == {p \in Proc : raw[p] # -1}

\* The /proc test the wrong way round.
IdleAlive(p) == Delta(p) = 0 /\ p \in Alive
Stale(p) == Delta(p) = 0 /\ p \notin Alive
StaleCount(p) == IF Stale(p) THEN stale[p] + 1 ELSE 0

\* Keys that no report is about: the collector's own and, under a target, those that
\* containsTGID does not know, or has forgotten.
Foreign(p, forgotten) == IF targeted THEN p \notin Tree \/ p \in forgotten ELSE p \in Self

\* c.prev that still holds the keys just deleted.
PrevKept(gone, p) == IF p \in Read THEN raw[p] ELSE 0

\* c.prev = cur, from which deleted keys are gone.
PrevAfter(gone, p) == IF p \in Read \ gone THEN raw[p] ELSE 0

PollSettle(forgotten) ==
  LET foreign == {p \in Read : Foreign(p, forgotten)}
      old     == {p \in Read \ foreign : StaleCount(p) >= StaleWindows}
      gone    == foreign \cup old IN
  /\ pc = "settle"
  /\ forgotten \subseteq Read \ Alive
  /\ ~targeted => forgotten = {}
  /\ entries' = entries \ gone
  /\ count' = [p \in Proc |-> IF p \in gone THEN 0 ELSE count[p]]
  /\ total_ns' = [p \in Proc |-> IF p \in gone THEN 0 ELSE total_ns[p]]
  /\ stale' = [p \in Proc |-> IF p \in Read \ foreign THEN StaleCount(p) ELSE stale[p]]
  /\ prev' = [p \in Proc |-> PrevAfter(gone, p)]
  /\ prevTotal' = [p \in Proc |-> IF p \in Read \ gone THEN rawTotal[p] ELSE 0]
  /\ reported' = [p \in Proc |-> IF p \in Read \ gone THEN reported[p] + Delta(p)
                                 ELSE reported[p]]
  /\ reportedTotal' = [p \in Proc |-> IF p \in Read \ gone /\ Delta(p) > 0
                                      THEN reportedTotal[p] + DeltaTotal(p)
                                      ELSE reportedTotal[p]]
  /\ cut' = cut \cup foreign \cup {p \in old : count[p] # raw[p]}
  /\ deadPolls' = [p \in Proc |-> IF p \in Read \ Alive THEN deadPolls[p] + 1 ELSE 0]
  /\ polls' = polls + 1
  /\ pc' = "idle" /\ raw' = [p \in Proc |-> -1] /\ rawTotal' = NoCount
  /\ UNCHANGED <<now, probes, threads, maps, exit_miss, map_update_fail, members, calls>>

----------------------------------------------------------------------------
\* The program starts among threads inside and outside system calls.
Init ==
  /\ now = 1 /\ setup = "loaded" /\ targeted \in BOOLEAN
  /\ deep \in IF targeted THEN SUBSET (Proc \ Near) ELSE {{}}
  /\ owner \in [Tid -> Proc \cup {Nobody}]
  /\ call \in [Tid -> {"none", "inside"}]
  /\ \A t \in Tid : owner[t] = Nobody => call[t] = "none"
  /\ since = [t \in Tid |-> 0] /\ arrivals = 0
  /\ start = [t \in Tid |-> 0] /\ startup_tids = {}
  /\ admitted = IF targeted THEN Tree \cap Alive ELSE {}
  /\ entries = {} /\ count = NoCount /\ total_ns = NoCount
  /\ exit_miss = FALSE /\ map_update_fail = FALSE
  /\ pc = "idle" /\ members = {} /\ raw = [p \in Proc |-> -1] /\ rawTotal = NoCount
  /\ prev = NoCount /\ prevTotal = NoCount /\ stale = NoCount /\ polls = 0
  /\ seen = {} /\ masked = {} /\ deaf = {} /\ evicted = {} /\ hidden = FALSE /\ unfounded = FALSE
  /\ matched = NoCount /\ spent = NoCount /\ reported = NoCount /\ reportedTotal = NoCount
  /\ haunted = {} /\ cut = {} /\ deadPolls = NoCount

Next ==
  \/ AttachEnter \/ Seed \/ AttachExit \/ Tick
  \/ \E t \in Tid : Enter(t) \/ Return(t) \/ Die(t) \/ \E p \in Proc : Clone(t, p)
  \/ PollRefresh \/ PollSync \/ PollRead \/ \E forgotten \in SUBSET Proc : PollSettle(forgotten)

Spec == Init /\ [][Next]_vars

----------------------------------------------------------------------------
(* Properties.                                                             *)

TypeOK ==
  /\ now \in Nat /\ setup \in {"loaded", "enter", "seeded", "exit"} /\ targeted \in BOOLEAN
  /\ deep \in SUBSET Proc
  /\ owner \in [Tid -> Proc \cup {Nobody}] /\ call \in [Tid -> {"none", "inside", "child"}]
  /\ since \in [Tid -> Nat] /\ arrivals \in Nat /\ start \in [Tid -> Nat]
  /\ startup_tids \in SUBSET Tid /\ admitted \in SUBSET Proc /\ entries \in SUBSET Proc
  /\ count \in [Proc -> Nat] /\ total_ns \in [Proc -> Nat]
  /\ exit_miss \in BOOLEAN /\ map_update_fail \in BOOLEAN
  /\ pc \in {"idle", "sync", "read", "settle"} /\ members \in SUBSET Proc
  /\ raw \in [Proc -> Nat \cup {-1}] /\ rawTotal \in [Proc -> Nat]
  /\ prev \in [Proc -> Nat] /\ prevTotal \in [Proc -> Nat] /\ stale \in [Proc -> Nat]
  /\ polls \in Nat
  /\ seen \in SUBSET Tid /\ masked \in SUBSET Tid /\ deaf \in SUBSET Tid
  /\ evicted \in SUBSET Tid /\ hidden \in BOOLEAN /\ unfounded \in BOOLEAN
  /\ matched \in [Proc -> Nat] /\ spent \in [Proc -> Nat]
  /\ reported \in [Proc -> Nat] /\ reportedTotal \in [Proc -> Nat]
  /\ haunted \in SUBSET Proc /\ cut \in SUBSET Proc /\ deadPolls \in [Proc -> Nat]

\* Every settled call is reported once, with the time it took, or still waits in the
\* map: through evictions of its key and processes that take over a dead one's id.
CallsConserved ==
  \A p \in Proc \ (haunted \cup cut) : map_update_fail \/
    /\ reported[p] + (count[p] - prev[p]) = matched[p]
    /\ reportedTotal[p] + (total_ns[p] - prevTotal[p]) = spent[p]

\* A data-loss miss is never counted for a call that was entered before the probes
\* attached, nor for a process outside the target's tree, nor for a call whose timestamp
\* is where handle_enter put it.  Two returns are let off: of a child from the clone it
\* never entered, and of a process that /proc placed in the tree during the call.
NoFalseMiss == ~unfounded

\* A call whose timestamp the LRU map gave up is always counted, startup markers
\* notwithstanding, unless its thread was marked after it had entered, or its process,
\* born while Poll read /proc, was taken out of the target again.
LossShown == ~hidden

\* A process that is gone holds its slot of syscall_stats for a bounded number of polls:
\* two that may still see its last calls, then the stale windows.
SlotsFreed == \A p \in Proc : deadPolls[p] >= StaleWindows + 2 => p \notin entries
=============================================================================
