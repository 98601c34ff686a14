------------------------------ MODULE MemPath ------------------------------
(***************************************************************************)
(* Memory reclaim and OOM victims: bpf/mem.bpf.c and MemCollector.         *)
(*                                                                         *)
(* Direct reclaim is bracketed per thread and counted per process; an OOM  *)
(* victim is counted, with its membership, when the kernel picks it, as it *)
(* may be gone before the next poll.  Poll reports differences, and reads  *)
(* /proc for growth only in windows that show pressure.                    *)
(*                                                                         *)
(* One thread stands for those of its process: they share a counter, added *)
(* to atomically.  Reclaim time moves with the count.  Left out are the    *)
(* system's own counters (PSI, vmstat, kswapd), read once a poll: whether  *)
(* they show pressure is chosen freely.  The maps are hash maps shared by  *)
(* the host: the insertion of a new key may fail at any time (room).       *)
(***************************************************************************)
EXTENDS Integers

CONSTANTS
  Proc,         \* process ids, which are the ids of their threads, too
  StaleWindows, \* staleWindowsBeforeDelete (3 in the program)
  MaxPolls,     \* bound: number of polls
  MaxReclaims,  \* bound: number of reclaims
  MaxBirths     \* bound: number of processes born

ASSUME MemAssumption ==
  /\ StaleWindows \in Nat \ {0}
  /\ MaxPolls \in Nat /\ MaxReclaims \in Nat /\ MaxBirths \in Nat

VARIABLES
  setup,         \* steps of NewMemCollector taken
  targeted,      \* --target-pid was given
  live, inTree,  \* processes, and those of them that are in the target's tree
  victims,       \* processes that were picked and still live
  reclaiming, reclaims, births,
  reclaim_start, startup_tids,  \* BPF maps: threads with an entry
  count,         \* mem_stats: direct_reclaim_count; 0: no entry
  oom, in_target, \* oom_stats: count (0: no entry) and membership of the last victim
  fail,          \* a health counter of a failed insertion is not 0
  end_miss,      \* MEM_HEALTH_RECLAIM_END_MISS is not 0
  pc, raw, rawOom, rawIn, prev, prevOom, stale, oomStale, polls,  \* Poll
  procPrimed, baseline,  \* prevRSS and prevFault were filled by poll number baseline
  began,         \* history: threads whose present reclaim began under the probe
  owed, owedOom, \* history: reclaims and victims not reported yet
  scopes,        \* history: memberships of the victims oom_stats was not read for yet
  readScopes,    \* history: the same for the copy
  cut, cutOom,   \* history: ids for which a deletion took an event along
  misfiled,      \* history: a victim was listed under the target, or not, wrongly
  spans          \* history: windows in the growth the last poll reported; 0: none

world  == <<live, inTree, victims, reclaiming, reclaims, births>>
maps   == <<reclaim_start, startup_tids, count, oom, in_target, fail, end_miss>>
poller == <<pc, raw, rawOom, rawIn, prev, prevOom, stale, oomStale, polls, procPrimed, baseline>>
ghosts == <<began, owed, owedOom, scopes, readScopes, cut, cutOom, misfiled, spans>>
vars   == <<setup, targeted, world, maps, poller, ghosts>>

Nothing == [p \in Proc |-> 0]

----------------------------------------------------------------------------
(* NewMemCollector.                                                        *)

\* Markers first, begin second.
SeedFirst == <<"seed", "begin", "end", "kswapd", "oom">>

\* The begin probe is there before the markers are set, the end probe after.
Steps == <<"begin", "seed", "end", "kswapd", "oom">>

Done(step) == \E i \in 1 .. setup : Steps[i] = step

Attach ==
  /\ setup < 5
  /\ setup' = setup + 1
  /\ startup_tids' = IF Steps[setup + 1] = "seed" THEN live ELSE startup_tids
  /\ UNCHANGED <<targeted, world, reclaim_start, count, oom, in_target, fail, end_miss,
                 poller, ghosts>>

----------------------------------------------------------------------------
(* Reclaim.                                                                *)

\* handle_direct_begin.
Begin(p, room) ==
  LET done == room \/ p \in reclaim_start IN
  /\ p \in live \ reclaiming
  /\ reclaims < MaxReclaims /\ reclaims' = reclaims + 1
  /\ reclaiming' = reclaiming \cup {p}
  /\ IF Done("begin")
     THEN /\ startup_tids' = startup_tids \ {p}
          /\ reclaim_start' = IF done THEN reclaim_start \cup {p} ELSE reclaim_start
          /\ fail' = (fail \/ ~done)
          /\ began' = began \cup {p}
     ELSE UNCHANGED <<startup_tids, reclaim_start, fail, began>>
  /\ UNCHANGED <<setup, targeted, live, inTree, victims, births, count, oom, in_target,
                 end_miss, poller, owed, owedOom, scopes, readScopes, cut, cutOom, misfiled,
                 spans>>

\* handle_direct_end.
End(p, room) ==
  LET known   == p \in reclaim_start
      counted == known /\ (room \/ count[p] # 0) IN
  /\ p \in reclaiming
  /\ reclaiming' = reclaiming \ {p}
  /\ began' = began \ {p}
  /\ IF Done("end")
     THEN /\ reclaim_start' = reclaim_start \ {p}
          /\ startup_tids' = startup_tids \ {p}
          /\ count' = IF counted THEN [count EXCEPT ![p] = @ + 1] ELSE count
          /\ fail' = (fail \/ (known /\ ~counted))
          /\ end_miss' = (end_miss \/ (~known /\ p \notin startup_tids))
          /\ owed' = IF p \in began THEN [owed EXCEPT ![p] = @ + 1] ELSE owed
     ELSE UNCHANGED <<reclaim_start, startup_tids, count, fail, end_miss, owed>>
  /\ UNCHANGED <<setup, targeted, live, inTree, victims, reclaims, births, oom, in_target,
                 poller, owedOom, scopes, readScopes, cut, cutOom, misfiled, spans>>

----------------------------------------------------------------------------
(* Victims and other deaths.                                               *)

\* in_target(), which TargetTracker has in detail.
InTarget(p) == ~targeted \/ p \in inTree

\* handle_mark_victim; the kernel picks a process once.
MarkVictim(p, room) ==
  LET done == room \/ oom[p] # 0 IN
  /\ p \in live \ victims
  /\ victims' = victims \cup {p}
  /\ IF Done("oom")
     THEN /\ oom' = IF done THEN [oom EXCEPT ![p] = @ + 1] ELSE oom
          /\ in_target' = IF done THEN [in_target EXCEPT ![p] = InTarget(p)] ELSE in_target
          /\ fail' = (fail \/ ~done)
          /\ owedOom' = [owedOom EXCEPT ![p] = @ + 1]
          /\ scopes' = [scopes EXCEPT ![p] = @ \cup {InTarget(p)}]
     ELSE UNCHANGED <<oom, in_target, fail, owedOom, scopes>>
  /\ UNCHANGED <<setup, targeted, live, inTree, reclaiming, reclaims, births, reclaim_start,
                 startup_tids, count, end_miss, poller, began, owed, readScopes, cut, cutOom,
                 misfiled, spans>>

\* A process dies, picked or not; direct reclaim returns first.
Die(p) ==
  /\ p \in live \ reclaiming
  /\ live' = live \ {p} /\ inTree' = inTree \ {p} /\ victims' = victims \ {p}
  /\ UNCHANGED <<setup, targeted, reclaiming, reclaims, births, maps, poller, ghosts>>

Birth(p, member) ==
  /\ p \notin live
  /\ births < MaxBirths /\ births' = births + 1
  /\ live' = live \cup {p}
  /\ inTree' = IF member THEN inTree \cup {p} ELSE inTree
  /\ UNCHANGED <<setup, targeted, victims, reclaiming, reclaims, maps, poller, ghosts>>

----------------------------------------------------------------------------
(* MemCollector.Poll.                                                      *)

\* mem_stats is copied.
PollRead ==
  /\ pc = "idle" /\ setup = 5 /\ polls < MaxPolls
  /\ raw' = count
  /\ pc' = "reclaims"
  /\ UNCHANGED <<setup, targeted, world, maps, rawOom, rawIn, prev, prevOom, stale, oomStale,
                 polls, procPrimed, baseline, ghosts>>

\* shouldDeleteStale: the count of quiet windows of a process that is gone.
StaleCount(before, p, inactive) == IF inactive /\ p \notin live THEN before[p] + 1 ELSE 0

DeleteStale(before, p, inactive) == StaleCount(before, p, inactive) >= StaleWindows

\* The loop over reclaims; then oom_stats is copied.
PollReclaims ==
  LET read  == {p \in Proc : raw[p] # 0}
      quiet == {p \in read : raw[p] = prev[p]}
      gone  == {p \in read : DeleteStale(stale, p, p \in quiet)} IN
  /\ pc = "reclaims"
  /\ stale' = [p \in Proc |-> IF p \in read THEN StaleCount(stale, p, p \in quiet) ELSE stale[p]]
  /\ count' = [p \in Proc |-> IF p \in gone THEN 0 ELSE count[p]]
  /\ prev' = [p \in Proc |-> IF p \in gone THEN 0 ELSE raw[p]]
  /\ owed' = [p \in Proc |-> IF p \in read THEN owed[p] - (raw[p] - prev[p]) ELSE owed[p]]
  /\ cut' = cut \cup {p \in gone : count[p] # raw[p]}
  /\ raw' = Nothing
  /\ rawOom' = oom /\ rawIn' = in_target
  /\ readScopes' = scopes /\ scopes' = [p \in Proc |-> {}]
  /\ pc' = "victims"
  /\ UNCHANGED <<setup, targeted, world, reclaim_start, startup_tids, oom, in_target, fail,
                 end_miss, prevOom, oomStale, polls, procPrimed, baseline, began, owedOom,
                 cutOom, misfiled, spans>>

\* The membership of a victim as /proc shows it at the time of the poll.
ListedIfFound(p) == InTarget(p)

\* OOMVictims: everybody's, or the target's as they were when they were picked.
Listed(p) == ~targeted \/ rawIn[p]

\* A baseline that a window without pressure does not take away.
KeptBaseline(need) == IF need THEN polls + 1 ELSE baseline

\* prevRSS and prevFault after a window: its own values, or nothing.
Baseline(need) == IF need THEN polls + 1 ELSE 0

\* The loop over victims, and the attribution if the window needs one.
PollVictims(pressure) ==
  LET read   == {p \in Proc : rawOom[p] # 0}
      new    == {p \in read : rawOom[p] > prevOom[p]}
      gone   == {p \in read : DeleteStale(oomStale, p, p \notin new)}
      need   == pressure \/ new # {} IN
  /\ pc = "victims"
  /\ oomStale' = [p \in Proc |-> IF p \in read THEN StaleCount(oomStale, p, p \notin new)
                                 ELSE oomStale[p]]
  /\ oom' = [p \in Proc |-> IF p \in gone THEN 0 ELSE oom[p]]
  /\ in_target' = [p \in Proc |-> p \notin gone /\ in_target[p]]
  /\ prevOom' = [p \in Proc |-> IF p \in gone THEN 0 ELSE rawOom[p]]
  /\ owedOom' = [p \in Proc |-> IF p \in new THEN owedOom[p] - (rawOom[p] - prevOom[p])
                                ELSE owedOom[p]]
  /\ misfiled' = (misfiled \/ \E p \in new : readScopes[p] = {~Listed(p)})
  /\ cutOom' = cutOom \cup {p \in gone : oom[p] # rawOom[p]}
  /\ rawOom' = Nothing /\ rawIn' = [p \in Proc |-> FALSE]
  /\ readScopes' = [p \in Proc |-> {}]
  /\ spans' = IF need /\ procPrimed THEN polls + 1 - baseline ELSE 0
  /\ baseline' = Baseline(need)
  /\ procPrimed' = (baseline' # 0)
  /\ polls' = polls + 1
  /\ pc' = "idle"
  /\ UNCHANGED <<setup, targeted, world, reclaim_start, startup_tids, count, fail, end_miss,
                 raw, prev, stale, began, owed, scopes, cut>>

----------------------------------------------------------------------------
\* Some processes are there before the program, in reclaim perhaps.
Init ==
  /\ setup = 0 /\ targeted \in BOOLEAN
  /\ live \in SUBSET Proc /\ inTree \in SUBSET live /\ reclaiming \in SUBSET live
  /\ victims = {} /\ reclaims = 0 /\ births = 0
  /\ reclaim_start = {} /\ startup_tids = {}
  /\ count = Nothing /\ oom = Nothing /\ in_target = [p \in Proc |-> FALSE]
  /\ fail = FALSE /\ end_miss = FALSE
  /\ pc = "idle" /\ raw = Nothing /\ rawOom = Nothing /\ rawIn = [p \in Proc |-> FALSE]
  /\ prev = Nothing /\ prevOom = Nothing /\ stale = Nothing /\ oomStale = Nothing
  /\ polls = 0 /\ procPrimed = FALSE /\ baseline = 0
  /\ began = {} /\ owed = Nothing /\ owedOom = Nothing
  /\ scopes = [p \in Proc |-> {}] /\ readScopes = [p \in Proc |-> {}]
  /\ cut = {} /\ cutOom = {} /\ misfiled = FALSE /\ spans = 0

Next ==
  \/ Attach
  \/ \E p \in Proc, room \in BOOLEAN : Begin(p, room) \/ End(p, room) \/ MarkVictim(p, room)
  \/ \E p \in Proc : Die(p) \/ \E member \in BOOLEAN : Birth(p, member)
  \/ PollRead \/ PollReclaims \/ \E pressure \in BOOLEAN : PollVictims(pressure)

Spec == Init /\ [][Next]_vars

----------------------------------------------------------------------------
(* Properties.                                                             *)

TypeOK ==
  /\ setup \in 0 .. 5 /\ targeted \in BOOLEAN
  /\ live \in SUBSET Proc /\ inTree \in SUBSET live /\ victims \in SUBSET live
  /\ reclaiming \in SUBSET live /\ reclaims \in Nat /\ births \in Nat
  /\ reclaim_start \in SUBSET Proc /\ startup_tids \in SUBSET Proc
  /\ count \in [Proc -> Nat] /\ oom \in [Proc -> Nat] /\ in_target \in [Proc -> BOOLEAN]
  /\ fail \in BOOLEAN /\ end_miss \in BOOLEAN
  /\ pc \in {"idle", "reclaims", "victims"}
  /\ raw \in [Proc -> Nat] /\ rawOom \in [Proc -> Nat] /\ rawIn \in [Proc -> BOOLEAN]
  /\ prev \in [Proc -> Nat] /\ prevOom \in [Proc -> Nat]
  /\ stale \in [Proc -> Nat] /\ oomStale \in [Proc -> Nat] /\ polls \in Nat
  /\ procPrimed \in BOOLEAN /\ baseline \in Nat
  /\ began \in SUBSET reclaiming /\ owed \in [Proc -> Int] /\ owedOom \in [Proc -> Int]
  /\ scopes \in [Proc -> SUBSET BOOLEAN] /\ readScopes \in [Proc -> SUBSET BOOLEAN]
  /\ cut \in SUBSET Proc /\ cutOom \in SUBSET Proc /\ misfiled \in BOOLEAN /\ spans \in Int

\* A reclaim that began under the probe and ended is reported once or still in the map,
\* and one that began before the probes is never called lost.  Exempt are insertions
\* that failed, which health shows, and a process that reclaims in a life that begins
\* while Poll deletes the counter of the one before.
ReclaimsReported ==
  ~fail => /\ \A p \in Proc \ cut : owed[p] = count[p] - prev[p]
           /\ ~end_miss

\* Every OOM victim is reported once, with the same two exemptions, and listed under
\* the target exactly if it was in its tree when it was picked, though it and its place
\* in /proc are gone by the time of the poll (mem.bpf.c:85-87); victims of two lives of
\* one id in one window, in the tree and out of it, are let off.
VictimsReported ==
  /\ ~fail => \A p \in Proc \ cutOom :
                owedOom[p] = oom[p] - prevOom[p]
  /\ ~misfiled

\* Growth and faults that a snapshot gives for its window are of that window, also
\* after windows without pressure, in which nothing is read.
GrowthOfWindow == spans <= 1
=============================================================================
