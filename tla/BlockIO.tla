------------------------------ MODULE BlockIO ------------------------------
(***************************************************************************)
(* Block I/O: request matching, in-flight count and queue area             *)
(* (bpf/block.bpf.c), the startup handshake and the poll that derives      *)
(* window deltas (internal/collector/io.go).                               *)
(*                                                                         *)
(* A handler takes its timestamp first and the device's lock later, so a   *)
(* handler of another request, or a poll, may pass between: a handler that *)
(* accounts is two steps.  Counts, bytes, the histogram and their deltas   *)
(* are left out, and partial completions, which change nothing else.       *)
(***************************************************************************)
EXTENDS Integers, FiniteSets, FiniteSetsExt

CONSTANTS
  Request,   \* request structures, reused over time
  Device,    \* devices
  DevOf,     \* [Request -> Device]
  StartRooms, DevRooms, \* entries the maps may have left for Request and Device
  MaxTime,   \* bound: last value of the clock
  MaxPolls   \* bound: number of polls

ASSUME BlockAssumption ==
  /\ IsFiniteSet(Request) /\ IsFiniteSet(Device)
  /\ DevOf \in [Request -> Device]
  /\ StartRooms \subseteq Nat /\ DevRooms \subseteq Nat
  /\ MaxTime \in Nat /\ MaxPolls \in Nat

VARIABLES
  now,                     \* CLOCK_MONOTONIC; 0 is never a timestamp
  setup,                   \* progress of NewIOCollector
  boundaryNS,              \* its reading of the clock
  startup_boundary_ns,     \* the map; 0 until armed
  phase,                   \* phase[r]: the kernel's view of a request
  start_time_ns,           \* allocation time, 0 if the queue keeps none
  stamp,                   \* the timestamp of the handler in flight for r
  start,                   \* start[r]: the request_state, or NoState
  devs,                    \* keys of dev_stats
  startRoom, devRoom,      \* entries of start and dev_stats others do not hold; fixed
  inflight, queue_area_ns, queue_last_ns,  \* dev_stats[d]
  completion_miss, map_update_fail,       \* health, as "not 0"
  pollMono, todo, looked, cur, \* the poll in progress; pollMono = 0: none
  prev, lastPoll, polls,   \* IOCollector
  reported,                \* history: sum of the queue-area deltas
  trueArea,                \* history: time in flight of the requests done
  shownUpTo,               \* history: the pollMono a lookup last extended d to
  overtaken                \* history: devices with a handler passed by a later event

kernelState == <<phase, start_time_ns, stamp>>
health   == <<completion_miss, map_update_fail>>
devStats == <<devs, startRoom, devRoom, inflight, queue_area_ns, queue_last_ns>>
pollVars == <<pollMono, todo, looked, cur, prev, lastPoll, polls>>
vars == <<now, setup, boundaryNS, startup_boundary_ns, kernelState, start, devStats,
          health, pollVars, reported, trueArea, shownUpTo, overtaken>>

NoState == [first_issue_ns |-> 0, tracked |-> FALSE]
Zero == [d \in Device |-> 0]
Started == {r \in Request : start[r] # NoState}
OnDevice(d) == {r \in Request : DevOf[r] = d}

----------------------------------------------------------------------------
(* NewIOCollector.                                                         *)

\* The boundary read before the issue hook is there.
EitherHook == setup \in {"complete", "issue"}
BothHooks == setup = "issue"

AttachComplete ==
  /\ setup = "loaded" /\ setup' = "complete"
  /\ UNCHANGED <<now, boundaryNS, startup_boundary_ns, kernelState, start, devStats, health,
                 pollVars, reported, trueArea, shownUpTo, overtaken>>

\* Attaching takes longer than a tick of the clock.
AttachIssue ==
  /\ setup = "complete" /\ setup' = "issue"
  /\ now < MaxTime /\ now' = now + 1
  /\ UNCHANGED <<boundaryNS, startup_boundary_ns, kernelState, start, devStats, health,
                 pollVars, reported, trueArea, shownUpTo, overtaken>>

ReadBoundary ==
  /\ BothHooks /\ boundaryNS = 0
  /\ boundaryNS' = now
  /\ UNCHANGED <<now, setup, startup_boundary_ns, kernelState, start, devStats, health,
                 pollVars, reported, trueArea, shownUpTo, overtaken>>

Arm ==
  /\ setup = "issue" /\ boundaryNS # 0
  /\ startup_boundary_ns' = boundaryNS
  /\ setup' = "armed"
  /\ UNCHANGED <<now, boundaryNS, kernelState, start, devStats, health, pollVars, reported,
                 trueArea, shownUpTo, overtaken>>

CompleteAttached == setup # "loaded"
IssueAttached == setup \in {"issue", "armed"}

----------------------------------------------------------------------------
(* block.bpf.c.                                                            *)

\* The area grown as if one request were in flight.
UnweightedArea(d, at) ==
  IF queue_last_ns[d] # 0 /\ at > queue_last_ns[d] /\ inflight[d] > 0
  THEN queue_area_ns[d] + (at - queue_last_ns[d]) ELSE queue_area_ns[d]

\* account_queue_locked: the area grows by the time since the last event.
Area(d, at) ==
  IF queue_last_ns[d] # 0 /\ at > queue_last_ns[d] /\ inflight[d] > 0
  THEN queue_area_ns[d] + (at - queue_last_ns[d]) * inflight[d]
  ELSE queue_area_ns[d]

\* A stamp older than what was accounted or shown already.
Overtakes(d, at) == IF at < queue_last_ns[d] \/ at < shownUpTo[d]
                    THEN overtaken \cup {d} ELSE overtaken

\* A request is allocated; the block layer resets start_time_ns.
Allocate(r) ==
  /\ phase[r] = "free"
  /\ phase' = [phase EXCEPT ![r] = "allocated"]
  /\ \E at \in {0, now} : start_time_ns' = [start_time_ns EXCEPT ![r] = at]
  /\ UNCHANGED <<now, setup, boundaryNS, startup_boundary_ns, stamp, start, devStats,
                 health, pollVars, reported, trueArea, shownUpTo, overtaken>>

\* The driver hands the request back; it will be issued again.  No handler runs.
Requeue(r) ==
  /\ phase[r] = "issued"
  /\ phase' = [phase EXCEPT ![r] = "requeued"]
  /\ UNCHANGED <<now, setup, boundaryNS, startup_boundary_ns, start_time_ns, stamp, start,
                 devStats, health, pollVars, reported, trueArea, shownUpTo, overtaken>>

\* A request that has a state keeps its first issue (duplicate_issue).
NewIssue(r) == IssueAttached /\ start[r] = NoState

\* handle_issue up to the device: the state is recorded, or its loss is counted.
Issue(r) ==
  /\ phase[r] \in {"allocated", "requeued"}
  /\ LET armed == startup_boundary_ns # 0
         room == Cardinality(Started) < startRoom
         account == NewIssue(r) /\ room /\ armed IN
     /\ start' = IF NewIssue(r) /\ room
                 THEN [start EXCEPT ![r] = [first_issue_ns |-> now, tracked |-> armed]]
                 ELSE start
     /\ map_update_fail' = (map_update_fail \/ (NewIssue(r) /\ ~room))
     /\ phase' = [phase EXCEPT ![r] = IF account THEN "issuing" ELSE "issued"]
     /\ stamp' = [stamp EXCEPT ![r] = IF account THEN now ELSE 0]
  /\ UNCHANGED <<now, setup, boundaryNS, startup_boundary_ns, start_time_ns, devStats,
                 completion_miss, pollVars, reported, trueArea, shownUpTo, overtaken>>

\* handle_issue at the device: get_dev, then under its lock.
IssueAccount(r) ==
  LET d == DevOf[r] IN
  /\ phase[r] = "issuing"
  /\ phase' = [phase EXCEPT ![r] = "issued"]
  /\ stamp' = [stamp EXCEPT ![r] = 0]
  /\ \/ /\ Cardinality(devs \cup {d}) <= devRoom
        /\ devs' = devs \cup {d}
        /\ queue_area_ns' = [queue_area_ns EXCEPT ![d] = Area(d, stamp[r])]
        /\ queue_last_ns' = [queue_last_ns EXCEPT ![d] = stamp[r]]
        /\ inflight' = [inflight EXCEPT ![d] = @ + 1]
        /\ overtaken' = Overtakes(d, stamp[r])
        /\ UNCHANGED map_update_fail
     \/ /\ Cardinality(devs \cup {d}) > devRoom
        /\ map_update_fail' = TRUE
        /\ UNCHANGED <<devs, queue_area_ns, queue_last_ns, inflight, overtaken>>
  /\ UNCHANGED <<now, setup, boundaryNS, startup_boundary_ns, start_time_ns, start, startRoom,
                 devRoom, completion_miss, pollVars, reported, trueArea, shownUpTo>>

\* A completion without state is a miss only when the request was allocated after
\* both hooks were attached.
ProvableMiss(r) ==
  /\ startup_boundary_ns # 0
  /\ start_time_ns[r] # 0
  /\ start_time_ns[r] >= startup_boundary_ns

\* handle_complete of the last part, up to the device: timestamp, state deleted.  The
\* allocation time is read no more.
Complete(r) ==
  /\ phase[r] = "issued"
  /\ IF CompleteAttached /\ start[r] # NoState /\ start[r].tracked
     THEN /\ phase' = [phase EXCEPT ![r] = "completing"]
          /\ stamp' = [stamp EXCEPT ![r] = now]
          /\ trueArea' = [trueArea EXCEPT ![DevOf[r]] = @ + (now - start[r].first_issue_ns)]
          /\ UNCHANGED completion_miss
     ELSE /\ phase' = [phase EXCEPT ![r] = "free"]
          /\ completion_miss' = (completion_miss \/ (CompleteAttached /\ start[r] = NoState
                                                     /\ ProvableMiss(r)))
          /\ UNCHANGED <<stamp, trueArea>>
  /\ start_time_ns' = [start_time_ns EXCEPT ![r] = 0]
  /\ start' = IF CompleteAttached THEN [start EXCEPT ![r] = NoState] ELSE start
  /\ UNCHANGED <<now, setup, boundaryNS, startup_boundary_ns, devStats,
                 map_update_fail, pollVars, reported, shownUpTo, overtaken>>

\* A completion that does not take the request off the in-flight count.
StillInflight(n) == n
Decremented(n) == IF n > 0 THEN n - 1 ELSE n

\* handle_complete at the device.
CompleteAccount(r) ==
  LET d == DevOf[r] IN
  /\ phase[r] = "completing"
  /\ phase' = [phase EXCEPT ![r] = "free"]
  /\ stamp' = [stamp EXCEPT ![r] = 0]
  /\ IF d \in devs
     THEN /\ queue_area_ns' = [queue_area_ns EXCEPT ![d] = Area(d, stamp[r])]
          /\ queue_last_ns' = [queue_last_ns EXCEPT ![d] = stamp[r]]
          /\ inflight' = [inflight EXCEPT ![d] = Decremented(@)]
          /\ overtaken' = Overtakes(d, stamp[r])
          /\ UNCHANGED map_update_fail
     ELSE /\ map_update_fail' = TRUE
          /\ UNCHANGED <<queue_area_ns, queue_last_ns, inflight, overtaken>>
  /\ UNCHANGED <<now, setup, boundaryNS, startup_boundary_ns, start_time_ns, start, devs, startRoom,
                 devRoom, completion_miss, pollVars, reported, trueArea, shownUpTo>>

----------------------------------------------------------------------------
(* IOCollector.Poll.                                                       *)

PollStart ==
  /\ setup = "armed" /\ pollMono = 0 /\ polls < MaxPolls
  /\ pollMono' = now
  /\ todo' = devs /\ looked' = {} /\ cur' = Zero
  /\ UNCHANGED <<now, setup, boundaryNS, startup_boundary_ns, kernelState, start, devStats,
                 health, prev, lastPoll, polls, reported, trueArea, shownUpTo, overtaken>>

\* The area as of the lookup, without the stretch up to the poll's time.
NotExtended(d) == queue_area_ns[d]

\* The locked lookup of one device, extended to the poll's time.
Extended(d) ==
  IF pollMono > queue_last_ns[d] /\ inflight[d] > 0
  THEN queue_area_ns[d] + (pollMono - queue_last_ns[d]) * inflight[d]
  ELSE queue_area_ns[d]

PollLookup(d) ==
  /\ pollMono # 0 /\ d \in devs \ looked
  /\ cur' = [cur EXCEPT ![d] = Extended(d)]
  /\ looked' = looked \cup {d} /\ todo' = todo \ {d}
  /\ shownUpTo' = [shownUpTo EXCEPT ![d] = pollMono]
  /\ UNCHANGED <<now, setup, boundaryNS, startup_boundary_ns, kernelState, start, devStats,
                 health, pollMono, prev, lastPoll, polls, reported, trueArea, overtaken>>

\* A delta that forgets the previous value.
WholeCounter(current, previous) == current

\* counterDelta: a counter that went back is taken for a new one.
CounterDelta(current, previous) ==
  IF current >= previous THEN current - previous ELSE current

\* The deltas of the poll.  The iteration visits every device that was there when it
\* began: nothing deletes from dev_stats.  One that appears meanwhile may be missed.
PollCommit ==
  /\ pollMono # 0 /\ todo = {}
  /\ reported' = [d \in Device |->
       IF d \in looked THEN reported[d] + CounterDelta(cur[d], prev[d]) ELSE reported[d]]
  /\ prev' = [d \in Device |-> IF d \in looked THEN cur[d] ELSE 0]
  /\ lastPoll' = pollMono /\ polls' = polls + 1
  /\ pollMono' = 0 /\ looked' = {} /\ cur' = Zero
  /\ UNCHANGED <<now, setup, boundaryNS, startup_boundary_ns, kernelState, start, devStats,
                 health, todo, trueArea, shownUpTo, overtaken>>

Tick ==
  /\ now < MaxTime
  /\ now' = now + 1
  /\ UNCHANGED <<setup, boundaryNS, startup_boundary_ns, kernelState, start, devStats,
                 health, pollVars, reported, trueArea, shownUpTo, overtaken>>

----------------------------------------------------------------------------
\* The program is loaded at time 1, with requests already under way.
Init ==
  /\ now = 1
  /\ setup = "loaded" /\ boundaryNS = 0 /\ startup_boundary_ns = 0
  /\ phase \in [Request -> {"free", "issued"}]
  /\ start_time_ns = [r \in Request |-> IF phase[r] = "free" THEN 0 ELSE 1]
  /\ stamp = [r \in Request |-> 0]
  /\ start = [r \in Request |-> NoState]
  /\ devs = {} /\ startRoom \in StartRooms /\ devRoom \in DevRooms
  /\ inflight = Zero /\ queue_area_ns = Zero /\ queue_last_ns = Zero
  /\ completion_miss = FALSE /\ map_update_fail = FALSE
  /\ pollMono = 0 /\ todo = {} /\ looked = {} /\ cur = Zero /\ prev = Zero /\ lastPoll = 0 /\ polls = 0
  /\ reported = Zero /\ trueArea = Zero
  /\ shownUpTo = Zero /\ overtaken = {}

Next ==
  \/ AttachComplete \/ AttachIssue \/ ReadBoundary \/ Arm
  \/ \E r \in Request : \/ Allocate(r) \/ Issue(r) \/ IssueAccount(r) \/ Requeue(r)
                        \/ Complete(r) \/ CompleteAccount(r)
  \/ PollStart \/ PollCommit
  \/ \E d \in Device : PollLookup(d)
  \/ Tick

Spec == Init /\ [][Next]_vars

----------------------------------------------------------------------------
(* Properties.                                                             *)

Phases == {"free", "allocated", "issuing", "issued", "requeued", "completing"}
RequestState == [first_issue_ns : Nat, tracked : BOOLEAN]

ClockTyped ==
  /\ now \in Nat /\ boundaryNS \in Nat /\ startup_boundary_ns \in Nat
  /\ setup \in {"loaded", "complete", "issue", "armed"}
RequestsTyped ==
  /\ phase \in [Request -> Phases]
  /\ start_time_ns \in [Request -> Nat] /\ stamp \in [Request -> Nat]
  /\ start \in [Request -> RequestState]
DevicesTyped ==
  /\ devs \subseteq Device /\ startRoom \in Nat /\ devRoom \in Nat
  /\ inflight \in [Device -> Nat] /\ queue_area_ns \in [Device -> Nat]
  /\ queue_last_ns \in [Device -> Nat]
PollTyped ==
  /\ pollMono \in Nat /\ lastPoll \in Nat /\ polls \in Nat
  /\ todo \subseteq Device /\ looked \subseteq Device
  /\ cur \in [Device -> Nat] /\ prev \in [Device -> Nat]
HistoryTyped ==
  /\ completion_miss \in BOOLEAN /\ map_update_fail \in BOOLEAN
  /\ reported \in [Device -> Nat] /\ trueArea \in [Device -> Int]
  /\ shownUpTo \in [Device -> Nat] /\ overtaken \subseteq Device

\* Every variable has its type.
TypeOK == ClockTyped /\ RequestsTyped /\ DevicesTyped /\ PollTyped /\ HistoryTyped

InPhase(d, p) == {r \in OnDevice(d) : phase[r] = p}
InFlight(d) == {r \in OnDevice(d) : start[r].tracked}

\* The request time of d up to now, from the requests themselves.
TrueArea(d) == trueArea[d] + MapThenSumSet(LAMBDA r : now - start[r].first_issue_ns, InFlight(d))

\* No handler is between its timestamp and the lock of d.
Settled(d) == InPhase(d, "issuing") \cup InPhase(d, "completing") = {}

\* The gauge counts the tracked requests handed to the driver and not yet accounted as
\* complete, whatever was issued before the hooks, requeued, completed in parts or
\* refused by a full map.
InflightConserved == \A d \in devs :
  inflight[d] = Cardinality(InFlight(d) \ InPhase(d, "issuing"))
                + Cardinality(InPhase(d, "completing"))

\* A completion is called a miss only if a full map lost the state of some request:
\* requests that were under way during the attachment are never misses.
NoFalseMiss == completion_miss => map_update_fail

\* Between handlers, the integral kept by the events is the request time the requests
\* really spent, on a device whose handlers took the lock in the order of their stamps.
QueueAreaExact == \A d \in devs \ overtaken :
  Settled(d) => queue_area_ns[d] + (now - queue_last_ns[d]) * inflight[d] = TrueArea(d)

\* The deltas of all polls add up to no more than the true request time, on a device
\* whose handlers were not passed by a later handler or a poll.
ReportedIsTrue == \A d \in Device \ overtaken : Settled(d) => reported[d] <= TrueArea(d)

\* A request in flight at a poll's time is in the sum of the deltas up to that time,
\* with or without an event since it was issued.
StableQueueShown == [][polls' # polls => \A d \in looked \ overtaken :
  reported'[d] >= MapThenSumSet(
    LAMBDA r : pollMono - start[r].first_issue_ns,
    {r \in InFlight(d) \ InPhase(d, "issuing") : start[r].first_issue_ns < pollMono})]_vars

\* The average queue depth of a window is at most the number of requests there are.
DepthWithinRequests == [][polls' # polls /\ lastPoll # 0 => \A d \in looked :
  reported'[d] - reported[d] <= (pollMono - lastPoll) * Cardinality(OnDevice(d))]_vars
=============================================================================
