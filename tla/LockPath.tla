------------------------------ MODULE LockPath ------------------------------
(***************************************************************************)
(* Lock and synchronisation waits: bpf/lock.bpf.c and LockCollector.       *)
(*                                                                         *)
(* do_futex is bracketed by an entry in futex_active; a thread that goes   *)
(* to sleep inside it, or uninterruptibly outside, opens an interval in    *)
(* offcpu_start; its next switch-in closes the interval and charges it to  *)
(* (process, thread, lock) in lock_stats; Poll reports differences.        *)
(*                                                                         *)
(* The time charged stands for the count, which moves with it.  One kernel *)
(* stack stands for all: waits without a futex address share the key       *)
(* Kernel.  A process is never reborn here; TargetTracker has that.  The   *)
(* maps are hash maps that all threads of the host share, so the insertion *)
(* of a new key may fail at any time (room).                               *)
(***************************************************************************)
EXTENDS Integers

CONSTANTS
  Task,         \* threads, each an instance of its own
  TidOf,        \* [Task -> thread id]: reused by threads that follow one another
  ProcOf,       \* [Task -> process]
  Near,         \* processes of the target's tree
  Self,         \* the collector's own process, if it shows up
  Lock,         \* futex addresses
  Kernel,       \* the wait without an address
  None,         \* nobody, nothing
  StaleWindows, \* staleWindowsBeforeDelete (3 in the program)
  MaxTime,      \* bound: number of context switches
  MaxPolls      \* bound: number of polls

Tid == {TidOf[t] : t \in Task}
Proc == {ProcOf[t] : t \in Task}
KeyOf(t, l) == <<ProcOf[t], TidOf[t], l>>  \* struct lock_key
Key == {KeyOf(t, l) : t \in Task, l \in Lock \cup {Kernel}}

ASSUME LockAssumption ==
  /\ None \notin Task \cup Lock /\ Kernel \notin Lock \cup {None}
  /\ Near \subseteq Proc /\ Self \subseteq Proc
  /\ StaleWindows \in Nat \ {0} /\ MaxTime \in Nat /\ MaxPolls \in Nat

VARIABLES
  now,            \* the clock of the switches, each later than the last; 0: never
  setup,          \* number of programs attached
  targeted,       \* --target-pid was given
  alive, unborn,  \* threads
  cpu,            \* the running thread
  asleep,         \* threads that have to be woken
  inside,         \* inside[t]: the futex t is in do_futex for
  bracketed,      \* threads whose call entered through a trampoline with the exit program
  futex_active,   \* BPF map: tid -> lock
  offcpu_start,   \* BPF map: tid -> interval
  ns,             \* lock_stats: key -> offcpu_ns; 0: no entry
  health,         \* some health counter is not 0
  admitted, observed, \* processes in target_tgids, observed_tgids
  tracked,        \* processes that containsTGID knows
  pc, raw, prev, stale, polls,  \* Poll
  since,          \* history: when t last went to sleep
  due,            \* history: the key t's present sleep has to be charged to
  heard,          \* history: threads whose present call's enter event was recorded
  owed,           \* history: time waited under a key and not reported
  cut,            \* history: keys that a deletion by id or a late admission cut off
  nameless,       \* history: a wait was charged without its waker
  thrown          \* history: a key of a live process of the target was thrown away

threads == <<alive, unborn, cpu, asleep, inside, bracketed>>
bpf     == <<futex_active, offcpu_start, ns, health>>
members == <<admitted, observed, tracked>>
poller  == <<pc, raw, prev, stale, polls>>
ghosts  == <<since, due, heard, owed, cut, nameless, thrown>>
vars    == <<now, setup, targeted, threads, bpf, members, poller, ghosts>>

NoInterval == [ts |-> 0, task |-> None, lock |-> None, woken |-> FALSE]
Nothing == [k \in Key |-> 0]
ProcAlive == {ProcOf[t] : t \in alive}

----------------------------------------------------------------------------
(* NewLockCollector attaches one program after the other.                  *)

\* The order of the events, which is not the one to attach in.
EventOrder == <<"futex_enter", "futex_exit", "switch", "wakeup", "wakeup_new">>

\* What cleans up or completes comes before what produces.
Programs == <<"futex_exit", "futex_enter", "wakeup", "wakeup_new", "switch">>

Attached(program) == \E i \in 1 .. setup : Programs[i] = program

Attach ==
  /\ setup < 5
  /\ setup' = setup + 1
  /\ UNCHANGED <<now, targeted, threads, bpf, members, poller, ghosts>>

----------------------------------------------------------------------------
(* Hooks outside of the scheduler's switch.                                *)

\* allowed_task: a known member, or one whose ancestors include the root.
Allowed(p) == ~targeted \/ p \in admitted \/ p \in Near

\* Its effect: the process becomes a member, and user space will hear of it.
Admit(p) ==
  IF targeted /\ Allowed(p)
  THEN /\ admitted' = admitted \cup {p}
       /\ observed' = observed \cup {p}
  ELSE UNCHANGED <<admitted, observed>>

\* sched_wakeup_new.
Birth(t) ==
  /\ t \in unborn /\ \A s \in alive : TidOf[s] # TidOf[t]
  /\ unborn' = unborn \ {t} /\ alive' = alive \cup {t}
  /\ IF Attached("wakeup_new") THEN Admit(ProcOf[t]) ELSE UNCHANGED <<admitted, observed>>
  /\ UNCHANGED <<now, setup, targeted, cpu, asleep, inside, bracketed, bpf, tracked,
                 poller, ghosts>>

\* handle_futex_enter for an operation that can wait.
FutexEnter(t, l, room) ==
  LET d    == TidOf[t]
      runs == Attached("futex_enter") /\ Allowed(ProcOf[t])
      done == room \/ futex_active[d] # None IN
  /\ cpu = t /\ inside[t] = None
  /\ inside' = [inside EXCEPT ![t] = l]
  /\ bracketed' = IF Attached("futex_exit") THEN bracketed \cup {t} ELSE bracketed
  /\ IF runs
     THEN /\ Admit(ProcOf[t])
          /\ futex_active' = IF done THEN [futex_active EXCEPT ![d] = l] ELSE futex_active
          /\ health' = (health \/ ~done)
          /\ heard' = heard \cup {t}
     ELSE UNCHANGED <<admitted, observed, futex_active, health, heard>>
  /\ UNCHANGED <<now, setup, targeted, alive, unborn, cpu, asleep, offcpu_start, ns, tracked,
                 poller, since, due, owed, cut, nameless, thrown>>

\* handle_futex_exit, whoever the thread belongs to.
FutexExit(t) ==
  /\ cpu = t /\ inside[t] # None
  /\ inside' = [inside EXCEPT ![t] = None]
  /\ bracketed' = bracketed \ {t}
  /\ heard' = heard \ {t}
  /\ futex_active' = IF t \in bracketed THEN [futex_active EXCEPT ![TidOf[t]] = None]
                     ELSE futex_active
  /\ UNCHANGED <<now, setup, targeted, alive, unborn, cpu, asleep, offcpu_start, ns, health,
                 members, poller, since, due, owed, cut, nameless, thrown>>

\* handle_wakeup.
Wake(t) ==
  /\ t \in asleep
  /\ asleep' = asleep \ {t}
  /\ IF Attached("wakeup")
     THEN /\ Admit(ProcOf[t])
          /\ offcpu_start' = IF offcpu_start[TidOf[t]] # NoInterval
                             THEN [offcpu_start EXCEPT ![TidOf[t]].woken = TRUE]
                             ELSE offcpu_start
     ELSE UNCHANGED <<admitted, observed, offcpu_start>>
  /\ UNCHANGED <<now, setup, targeted, alive, unborn, cpu, inside, bracketed, futex_active,
                 ns, health, tracked, poller, ghosts>>

----------------------------------------------------------------------------
(* handle_switch.                                                          *)

How == {"preempted", "interruptible", "uninterruptible", "exit"}
Sleeps(how) == how \in {"interruptible", "uninterruptible"}

\* admitted_task looks at the known members only.
Member(p) == ~targeted \/ p \in admitted

\* Any switch-out inside do_futex or in state D, preemption included.
OpensAnyway(t, how) ==
  /\ Attached("switch") /\ Member(ProcOf[t])
  /\ futex_active[TidOf[t]] # None \/ how = "uninterruptible"

\* The thread that leaves opens an interval.
Opens(t, how) ==
  /\ Attached("switch") /\ Sleeps(how) /\ Member(ProcOf[t])
  /\ futex_active[TidOf[t]] # None \/ how = "uninterruptible"

Opened(t) ==
  [ts |-> now', task |-> t, woken |-> FALSE,
   lock |-> IF futex_active[TidOf[t]] = None THEN Kernel ELSE futex_active[TidOf[t]]]

\* account_next: the thread that arrives has an interval, and it is its own.
Closes(t) ==
  /\ Attached("switch")
  /\ offcpu_start[TidOf[t]].task = t /\ now' > offcpu_start[TidOf[t]].ts

\* The interval that is only given up once it is charged.
GivenUpIfCharged(t, charged) == charged

\* The interval is gone when its thread has run: charged, lost, or another thread's.
GivenUp(t, charged) == Attached("switch") /\ offcpu_start[TidOf[t]] # NoInterval

\* The key a sleep belongs to, as the thread itself would say.
Due(t, how) ==
  IF ~Attached("switch") \/ ~Sleeps(how) THEN None
  ELSE IF t \in heard THEN inside[t]
  ELSE IF how = "uninterruptible" /\ Member(ProcOf[t]) THEN Kernel ELSE None

\* The running thread (if any) leaves, another one (if any) takes the CPU.
Switch(next, how, room) ==
  LET prev_  == IF cpu = None THEN {} ELSE {cpu}
      next_  == IF next = None THEN {} ELSE {next}
      opens  == {t \in prev_ : Opens(t, how)}
      opened == {t \in opens : room \/ offcpu_start[TidOf[t]] # NoInterval}
      closes == {t \in next_ : Closes(t)}
      Closed(t) == KeyOf(t, offcpu_start[TidOf[t]].lock)
      charged == {t \in closes : room \/ ns[Closed(t)] # 0}
      gone   == {TidOf[t] : t \in {s \in next_ : GivenUp(s, s \in charged)}} IN
  /\ now < MaxTime /\ now' = now + 1
  /\ cpu # next
  /\ next_ \subseteq alive \ asleep
  /\ cpu = None => how = "preempted"
  /\ how = "exit" => inside[cpu] = None
  /\ cpu' = next
  /\ alive' = IF how = "exit" THEN alive \ prev_ ELSE alive
  /\ asleep' = IF Sleeps(how) THEN asleep \cup prev_ ELSE asleep
  /\ offcpu_start' = [d \in Tid |->
       IF \E t \in opened : TidOf[t] = d THEN Opened(cpu)
       ELSE IF d \in gone THEN NoInterval ELSE offcpu_start[d]]
  /\ ns' = [k \in Key |-> IF \E t \in charged : Closed(t) = k
                          THEN ns[k] + (now' - offcpu_start[k[2]].ts) ELSE ns[k]]
  /\ health' = (health \/ opened # opens \/ charged # closes)
  /\ since' = [t \in Task |-> IF t \in prev_ /\ Sleeps(how) THEN now'
                              ELSE IF t \in next_ THEN 0 ELSE since[t]]
  /\ due' = [t \in Task |-> IF t \in prev_ THEN Due(t, how)
                            ELSE IF t \in next_ THEN None ELSE due[t]]
  /\ owed' = [k \in Key |-> IF \E t \in next_ : due[t] # None /\ KeyOf(t, due[t]) = k
                            THEN owed[k] + (now' - since[next]) ELSE owed[k]]
  /\ nameless' = (nameless \/ \E t \in charged : ~offcpu_start[TidOf[t]].woken)
  /\ UNCHANGED <<setup, targeted, unborn, inside, bracketed, futex_active, members, poller,
                 heard, cut, thrown>>

----------------------------------------------------------------------------
(* LockCollector.Poll.                                                     *)

\* refresh and the first drain: /proc shows the live processes of the tree; some of the
\* dead are forgotten, their grace over.
PollRefresh(forgotten) ==
  /\ pc = "idle" /\ setup = 5 /\ polls < MaxPolls
  /\ forgotten \subseteq tracked \ ProcAlive
  /\ tracked' = IF targeted THEN ((tracked \cup (Near \cap ProcAlive)) \ forgotten) \cup observed
                ELSE tracked
  /\ observed' = {}
  /\ pc' = "sync"
  /\ UNCHANGED <<now, setup, targeted, threads, bpf, admitted, raw, prev, stale, polls, ghosts>>

\* syncTargetTGIDMap: a process that a hook has admitted since is taken out again.
PollSync ==
  /\ pc = "sync"
  /\ admitted' = IF targeted THEN tracked ELSE admitted
  /\ cut' = cut \cup {k \in Key : k[1] \in admitted \ admitted'}
  /\ pc' = "read"
  /\ UNCHANGED <<now, setup, targeted, threads, bpf, observed, tracked, raw, prev, stale,
                 polls, since, due, heard, owed, nameless, thrown>>

PollRead ==
  /\ pc = "read"
  /\ raw' = ns
  /\ pc' = "settle"
  /\ UNCHANGED <<now, setup, targeted, threads, bpf, members, prev, stale, polls, ghosts>>

Delta(k) == raw[k] - prev[k]
TaskExists(k) == \E t \in alive : ProcOf[t] = k[1] /\ TidOf[t] = k[2]
StaleCount(k) == IF Delta(k) = 0 /\ ~TaskExists(k) THEN stale[k] + 1 ELSE 0

\* Statistics whose thread is gone and has been quiet long enough.
Evicted(k) == StaleCount(k) >= StaleWindows

\* What the hooks had heard of before this poll began.
KnownBefore == tracked

\* drainObservedTGIDs after lock_stats was read: its processes are all known now.
Known == tracked \cup observed

\* The loop over the copy: foreign keys take the maps' entries of their thread id along.
PollSettle ==
  LET read    == {k \in Key : raw[k] # 0}
      foreign == {k \in read : IF targeted THEN k[1] \notin Known ELSE k[1] \in Self}
      old     == {k \in read \ foreign : Delta(k) = 0 /\ Evicted(k)}
      gone    == foreign \cup old
      tids    == {k[2] : k \in foreign} IN
  /\ pc = "settle"
  /\ tracked' = Known /\ observed' = {}
  /\ ns' = [k \in Key |-> IF k \in gone THEN 0 ELSE ns[k]]
  /\ futex_active' = [d \in Tid |-> IF d \in tids THEN None ELSE futex_active[d]]
  /\ offcpu_start' = [d \in Tid |-> IF d \in tids THEN NoInterval ELSE offcpu_start[d]]
  /\ prev' = [k \in Key |-> IF k \in gone THEN 0 ELSE raw[k]]
  /\ stale' = [k \in Key |-> IF k \in gone THEN 0
                             ELSE IF k \in read THEN StaleCount(k) ELSE stale[k]]
  /\ owed' = [k \in Key |-> IF k \in read \ foreign THEN owed[k] - Delta(k) ELSE owed[k]]
  /\ cut' = cut \cup {k \in Key : k[2] \in tids} \cup {k \in old : ns[k] # raw[k]}
  /\ thrown' = (thrown \/ \E k \in foreign : targeted /\ k[1] \in Near \cap ProcAlive)
  /\ raw' = Nothing
  /\ pc' = "idle" /\ polls' = polls + 1
  /\ UNCHANGED <<now, setup, targeted, threads, health, admitted, since, due, heard, nameless>>

----------------------------------------------------------------------------
\* Some threads are there before the program; they may already be inside do_futex.
Init ==
  /\ now = 0 /\ setup = 0 /\ targeted \in BOOLEAN
  /\ alive \in SUBSET Task /\ unborn \in SUBSET (Task \ alive)
  /\ \A s, t \in alive : TidOf[s] = TidOf[t] => s = t
  /\ cpu = None
  /\ inside \in [Task -> Lock \cup {None}] /\ \A t \in Task \ alive : inside[t] = None
  /\ asleep = {} /\ bracketed = {}
  /\ futex_active = [d \in Tid |-> None] /\ offcpu_start = [d \in Tid |-> NoInterval]
  /\ ns = Nothing /\ health = FALSE
  /\ tracked = IF targeted THEN Near \cap ProcAlive ELSE {}
  /\ admitted = tracked /\ observed = {}
  /\ pc = "idle" /\ raw = Nothing /\ prev = Nothing /\ stale = Nothing /\ polls = 0
  /\ since = [t \in Task |-> 0] /\ due = [t \in Task |-> None] /\ heard = {}
  /\ owed = Nothing /\ cut = {} /\ nameless = FALSE /\ thrown = FALSE

Next ==
  \/ Attach
  \/ \E t \in Task : Birth(t) \/ Wake(t) \/ FutexExit(t) \/ \E l \in Lock, room \in BOOLEAN : FutexEnter(t, l, room)
  \/ \E next \in Task \cup {None}, how \in How, room \in BOOLEAN : Switch(next, how, room)
  \/ \E forgotten \in SUBSET Proc : PollRefresh(forgotten)
  \/ PollSync \/ PollRead \/ PollSettle

Spec == Init /\ [][Next]_vars

----------------------------------------------------------------------------
(* Properties.                                                             *)

TypeOK ==
  /\ now \in Nat /\ setup \in 0 .. 5 /\ targeted \in BOOLEAN
  /\ alive \in SUBSET Task /\ unborn \in SUBSET Task /\ cpu \in Task \cup {None}
  /\ asleep \in SUBSET Task /\ inside \in [Task -> Lock \cup {None}]
  /\ bracketed \in SUBSET Task
  /\ futex_active \in [Tid -> Lock \cup {None}]
  /\ offcpu_start \in [Tid -> [ts : Nat, task : Task \cup {None}, woken : BOOLEAN,
                               lock : Lock \cup {Kernel, None}]]
  /\ ns \in [Key -> Nat] /\ health \in BOOLEAN
  /\ admitted \in SUBSET Proc /\ observed \in SUBSET Proc /\ tracked \in SUBSET Proc
  /\ pc \in {"idle", "sync", "read", "settle"} /\ raw \in [Key -> Nat] /\ prev \in [Key -> Nat]
  /\ stale \in [Key -> Nat] /\ polls \in Nat
  /\ since \in [Task -> Nat] /\ due \in [Task -> Lock \cup {Kernel, None}]
  /\ heard \in SUBSET Task /\ owed \in [Key -> Int] /\ cut \in SUBSET Key
  /\ nameless \in BOOLEAN /\ thrown \in BOOLEAN

\* An entry of futex_active is of a live thread that is inside do_futex for that lock,
\* whatever was entered while the programs were being attached (lock.go:112-114).
FutexMarks ==
  \A d \in Tid : futex_active[d] # None =>
    \E t \in alive : TidOf[t] = d /\ inside[t] = futex_active[d]

\* An open interval is the present sleep of a live thread that does not run: it began
\* when the thread went to sleep and is charged to the lock it sleeps at, or to none.
IntervalsOpen ==
  \A d \in Tid : offcpu_start[d] # NoInterval =>
    LET e == offcpu_start[d] IN
    /\ e.task \in alive /\ TidOf[e.task] = d /\ cpu # e.task
    /\ e.ts = since[e.task] /\ e.lock \in {inside[e.task], Kernel}

\* Waits do not disappear without a health signal (lock.bpf.c:98-99), nor count twice:
\* what has been waited under a key is reported or still in the map.  Exempt are keys
\* that Poll deleted by a reused thread id, keys of the collector, and those of a process
\* that a hook admitted in the middle of a synchronisation of the members.
WaitsKept == ~health => \A k \in Key \ cut : owed[k] = ns[k] - prev[k]

\* No wait of a process of the target is thrown away as somebody else's, however late
\* user space hears of the process.
TargetKept == ~thrown

\* Every wait that is charged knows who ended it (lock.go:117-118).
WakerKnown == ~nameless
=============================================================================
