------------------------------ MODULE Session ------------------------------
(***************************************************************************)
(* The lifecycle of one run of ebpf-rca (cmd/ebpf-rca): collectors are     *)
(* initialised, warmed up, polled by a ticker loop until a signal or the   *)
(* deadline, their health is captured as the deferred calls unwind, and    *)
(* main turns the tracker into an exit status and a session or a report.   *)
(*                                                                         *)
(* The main goroutine is the only writer of the tracker; around it the     *)
(* data paths in the kernel may lose events, the ticker fires, a signal or *)
(* the deadline arrives, and the wall clock may be set, at any time.       *)
(***************************************************************************)
EXTENDS Integers

CONSTANTS
  N  \* number of collectors of scenario "all" (5 in the program)

ASSUME SessionAssumption == N \in Nat \ {0}

VARIABLES
  all, allowPartial, output,      \* the flags: scenario all; --allow-partial; the output
  interval,                       \* --interval, in half milliseconds
  pc, i,                          \* where main is; the collector it is at
  state, initialized,             \* CollectorStatus fields; error, healthError: text present
  error, healthError, health,
  partial,                        \* tracker.partial
  active,                         \* allCollectorTick.active
  initErrors, runErr,             \* some initialisation failed; runErr is not nil
  reports,                        \* some incident was handed to the handler
  emitted, exitCode,              \* what was written; the exit status, -1 while running
  ticker, stopSignal,             \* a tick is due; a signal or the deadline has come
  dirty,                          \* collectors whose health counts lost data
  stepped,                        \* the wall clock was set (or stopped by a suspend) in the run
  lossy                           \* history: collectors polled with data already lost

config  == <<all, allowPartial, output, interval>>
tracker == <<state, initialized, error, healthError, health, partial>>
world   == <<ticker, stopSignal, dirty, stepped>>
result  == <<reports, emitted, exitCode>>
vars == <<config, pc, i, tracker, active, initErrors, runErr, result, world, lossy>>

Collector == 1 .. N

\* newCollectorTracker: scenario "all" requests every collector, another one.
requested == IF all THEN Collector ELSE {1}
last == IF all THEN N ELSE 1

----------------------------------------------------------------------------
(* The tracker.                                                            *)

Failed(n) ==
  /\ state' = [state EXCEPT ![n] = "failed"]
  /\ error' = [error EXCEPT ![n] = TRUE]
  /\ partial' = TRUE
  /\ UNCHANGED <<initialized, healthError, health>>

PollOK(n) ==
  /\ state' = [state EXCEPT ![n] = "running"]
  /\ UNCHANGED <<initialized, error, healthError, health, partial>>

\* captureHealth with the counters that healthIntegrityError is not asked about.
ReadOnly(n, readable) == ~readable

\* A snapshot is bad when it cannot be read or when it counts lost data.
BadHealth(n, readable) == ~readable \/ n \in dirty

\* failUnhealthy that leaves the collectors' error text alone.
NoErrorText == error

\* failUnhealthy writes an error for every collector it fails.
FailureText == [n \in Collector |-> error[n] \/ healthError[n]]

\* finish.
Finished(s) == [n \in Collector |-> IF s[n] \in {"ready", "running"} THEN "stopped" ELSE s[n]]

----------------------------------------------------------------------------
(* Around main.                                                            *)

\* A data path of a loaded collector loses an event (map full, unmatched
\* completion) and counts it.
LoseData(n) ==
  /\ n \in requested /\ initialized[n] /\ exitCode = -1
  /\ dirty' = dirty \cup {n}
  /\ UNCHANGED <<config, pc, i, tracker, active, initErrors, runErr, result, ticker,
                 stopSignal, stepped, lossy>>

\* The ticker's channel holds one tick.
TickerFires ==
  /\ pc \in {"select", "tick"} /\ ~ticker
  /\ ticker' = TRUE
  /\ UNCHANGED <<config, pc, i, tracker, active, initErrors, runErr, result, stopSignal,
                 dirty, stepped, lossy>>

\* SIGINT, SIGTERM or --duration.
Stop ==
  /\ ~stopSignal /\ exitCode = -1
  /\ stopSignal' = TRUE
  /\ UNCHANGED <<config, pc, i, tracker, active, initErrors, runErr, result, ticker,
                 dirty, stepped, lossy>>

\* The wall clock is set while the monotonic clock goes on, by more than the
\* validation tolerates (0.1% of the run).
SetClock ==
  /\ ~stepped /\ exitCode = -1
  /\ stepped' = TRUE
  /\ UNCHANGED <<config, pc, i, tracker, active, initErrors, runErr, result, ticker,
                 stopSignal, dirty, lossy>>

----------------------------------------------------------------------------
(* main, runX and runAll.                                                  *)

\* BPF runtime statistics cannot be enabled: no collector's health will do.
EnableStats(ok) ==
  /\ pc = "stats"
  /\ healthError' = IF ok THEN healthError
                    ELSE [n \in Collector |-> n \in requested]
  /\ pc' = "init" /\ i' = 1
  /\ UNCHANGED <<config, state, initialized, error, health, partial, active, initErrors,
                 runErr, result, world, lossy>>

\* runAll initialises every collector whatever becomes of the others; any failure
\* ends the preflight unless partial collection was asked for.
Initialize(ok) ==
  /\ pc = "init"
  /\ IF ok
     THEN /\ state' = [state EXCEPT ![i] = "ready"]
          /\ initialized' = [initialized EXCEPT ![i] = TRUE]
          /\ active' = active \cup {i}
          /\ UNCHANGED <<error, healthError, health, partial, initErrors>>
     ELSE /\ Failed(i)
          /\ initErrors' = TRUE
          /\ UNCHANGED active
  /\ IF i < last
     THEN pc' = "init" /\ i' = i + 1 /\ UNCHANGED runErr
     ELSE IF initErrors' /\ ~allowPartial
     THEN pc' = "unwind" /\ i' = last /\ runErr' = TRUE
     ELSE pc' = "warmup" /\ i' = 1 /\ UNCHANGED runErr
  /\ UNCHANGED <<config, result, world, lossy>>

\* A failed Poll takes the collector out of the loop when partial collection is on.
Deactivated(n) == active \ {n}

\* A pass that does not look at what is left.
LoopsOn(remaining) == pc' = "select" /\ i' = 1 /\ UNCHANGED runErr

\* The pass over the collectors is over: none left is an error.
PassOver(remaining) ==
  IF remaining = {} THEN pc' = "unwind" /\ i' = last /\ runErr' = TRUE
                    ELSE pc' = "select" /\ i' = 1 /\ UNCHANGED runErr

Advance(at, remaining) ==
  IF i < last THEN pc' = at /\ i' = i + 1 /\ UNCHANGED runErr ELSE PassOver(remaining)

\* The collector at i fails its Poll: the end of the run, or of the collector.
PollFails(at) ==
  /\ Failed(i)
  /\ IF allowPartial
     THEN active' = Deactivated(i) /\ Advance(at, Deactivated(i))
     ELSE pc' = "unwind" /\ i' = last /\ runErr' = TRUE /\ UNCHANGED active
  /\ UNCHANGED lossy

\* The first Poll of each collector; no detector sees it.
Warmup(ok) ==
  /\ pc = "warmup" /\ i \in active
  /\ IF ok
     THEN /\ PollOK(i) /\ Advance("warmup", active)
          /\ UNCHANGED <<active, lossy>>
     ELSE PollFails("warmup")
  /\ UNCHANGED <<config, initErrors, result, world>>

\* One pass of the ticker loop polls each active collector, detects and hands
\* incidents to the handler, whose own failure ends the run.
Poll(ok, incident, written) ==
  /\ pc = "tick" /\ i \in active
  /\ ~ok => ~incident
  /\ ~incident \/ output # "stream" => written
  /\ IF ok
     THEN /\ PollOK(i)
          /\ lossy' = IF i \in dirty THEN lossy \cup {i} ELSE lossy
          /\ UNCHANGED active
          /\ IF written THEN Advance("tick", active)
             ELSE pc' = "unwind" /\ i' = last /\ runErr' = TRUE
     ELSE PollFails("tick")
  /\ reports' = (reports \/ incident)
  /\ UNCHANGED <<config, initErrors, emitted, exitCode, world>>

SkipInactive ==
  /\ pc \in {"warmup", "tick"} /\ i \notin active
  /\ Advance(pc, active)
  /\ UNCHANGED <<config, tracker, active, initErrors, result, world, lossy>>

\* The select of runLoop.
SelectTick ==
  /\ pc = "select" /\ ticker
  /\ ticker' = FALSE
  /\ pc' = "tick" /\ i' = 1
  /\ UNCHANGED <<config, tracker, active, initErrors, runErr, result, stopSignal, dirty,
                 stepped, lossy>>

SelectStop ==
  /\ pc = "select" /\ stopSignal
  /\ pc' = "unwind" /\ i' = last
  /\ UNCHANGED <<config, tracker, active, initErrors, runErr, result, world, lossy>>

\* The deferred calls, last collector first: captureHealth, then Close.
CaptureHealth(readable) ==
  /\ pc = "unwind" /\ i > 0
  /\ initialized[i] \/ readable
  /\ IF initialized[i]
     THEN /\ health' = [health EXCEPT ![i] = @ \/ readable]
          /\ healthError' = [healthError EXCEPT ![i] = @ \/ BadHealth(i, readable)]
     ELSE UNCHANGED <<health, healthError>>
  /\ i' = i - 1
  /\ UNCHANGED <<config, pc, state, initialized, error, partial, active, initErrors,
                 runErr, result, world, lossy>>

----------------------------------------------------------------------------
(* The end of main.                                                        *)

\* makeDiagnosticSession takes elapsed_ms from the monotonic clock, started_at and
\* ended_at from the wall clock.
TimesAgree == ~stepped

\* Duration.Milliseconds, which cuts off what is less.
Milliseconds(halves) == halves \div 2

\* ValidateDiagnosticSession, of the time range, interval_ms and the lifecycle fields.
ValidSession ==
  /\ TimesAgree
  /\ Milliseconds(interval) > 0
  /\ \A n \in requested :
       \/ /\ state'[n] = "stopped" /\ initialized[n]
          /\ ~error'[n] /\ ~healthError[n] /\ health[n]
       \/ state'[n] = "failed" /\ error'[n]
  /\ partial' <=> \E n \in requested : state'[n] = "failed"

\* RenderWithCollectors with the states left out.
AlwaysComplete == TRUE

\* RenderWithCollectors: no failed collector, health error or missing snapshot.
Complete ==
  \A n \in requested : state'[n] # "failed" /\ ~healthError[n] /\ health[n]

\* failUnhealthy, finish, and the session or report.
Conclude ==
  /\ pc = "unwind" /\ i = 0
  /\ LET unhealthy == {n \in requested : healthError[n]}
         failing   == runErr \/ (unhealthy # {} /\ ~allowPartial) IN
     /\ state' = Finished([n \in Collector |->
                             IF n \in unhealthy THEN "failed" ELSE state[n]])
     /\ error' = FailureText
     /\ partial' = (partial \/ unhealthy # {})
     /\ \/ /\ output = "json"
           /\ emitted' = IF ValidSession THEN "session" ELSE "invalid"
        \/ /\ output = "report"
           /\ emitted' = IF reports THEN "findings"
                         ELSE IF Complete THEN "no anomaly" ELSE "incomplete"
        \/ output = "stream" /\ emitted' = "stream"
     /\ runErr' = (failing \/ emitted' = "invalid")
  /\ exitCode' = IF runErr' THEN 1 ELSE 0
  /\ pc' = "exited"
  /\ UNCHANGED <<config, i, initialized, healthError, health, active, initErrors, reports,
                 world, lossy>>

\* main lets any positive interval through; two stands for all from a millisecond on.
Init ==
  /\ all \in BOOLEAN /\ allowPartial \in BOOLEAN
  /\ allowPartial => all
  /\ output \in {"json", "report", "stream"}
  /\ interval \in 1 .. 2
  /\ pc = "stats" /\ i = 0
  /\ state = [n \in Collector |-> "not_started"]
  /\ initialized = [n \in Collector |-> FALSE]
  /\ error = [n \in Collector |-> FALSE]
  /\ healthError = [n \in Collector |-> FALSE]
  /\ health = [n \in Collector |-> FALSE]
  /\ partial = FALSE /\ active = {} /\ initErrors = FALSE /\ runErr = FALSE
  /\ reports = FALSE /\ emitted = "nothing" /\ exitCode = -1
  /\ ticker = FALSE /\ stopSignal = FALSE /\ dirty = {} /\ stepped = FALSE
  /\ lossy = {}

Main ==
  \/ \E ok \in BOOLEAN : EnableStats(ok) \/ Initialize(ok) \/ Warmup(ok) \/ CaptureHealth(ok)
  \/ \E ok, incident, written \in BOOLEAN : Poll(ok, incident, written)
  \/ SkipInactive \/ SelectTick \/ SelectStop \/ Conclude

Next == Main \/ TickerFires \/ Stop \/ SetClock \/ \E n \in Collector : LoseData(n)

Spec == Init /\ [][Next]_vars

\* Go runs the main goroutine, and select picks among its ready cases at random.
FairSpec == Spec /\ WF_vars(Main) /\ SF_vars(SelectStop)

----------------------------------------------------------------------------
(* Properties.                                                             *)

States == {"not_started", "ready", "running", "failed", "stopped"}

TypeOK ==
  /\ all \in BOOLEAN /\ allowPartial \in BOOLEAN
  /\ output \in {"json", "report", "stream"} /\ interval \in Nat
  /\ pc \in {"stats", "init", "warmup", "select", "tick", "unwind", "exited"}
  /\ i \in 0 .. N
  /\ state \in [Collector -> States] /\ initialized \in [Collector -> BOOLEAN]
  /\ error \in [Collector -> BOOLEAN] /\ healthError \in [Collector -> BOOLEAN]
  /\ health \in [Collector -> BOOLEAN]
  /\ partial \in BOOLEAN /\ active \in SUBSET Collector
  /\ initErrors \in BOOLEAN /\ runErr \in BOOLEAN /\ reports \in BOOLEAN
  /\ emitted \in {"nothing", "session", "invalid", "findings", "no anomaly", "incomplete",
                  "stream"}
  /\ exitCode \in {-1, 0, 1}
  /\ ticker \in BOOLEAN /\ stopSignal \in BOOLEAN
  /\ dirty \in SUBSET Collector /\ stepped \in BOOLEAN /\ lossy \in SUBSET Collector

\* However a run ends (failed preflight, failed first Poll, unhealthy data path,
\* signal at any point), the session it writes passes its own validation.  Only two
\* things make makeDiagnosticSession contradict it: a wall clock that was set
\* meanwhile, and an interval below a millisecond.
SessionValid == emitted = "invalid" => stepped \/ interval < 2

\* Exit status 0 vouches for the output, and without --allow-partial for every
\* requested collector: none failed and none was ever polled with data already lost.
CleanExit ==
  exitCode = 0 =>
    /\ emitted # "invalid"
    /\ ~allowPartial => \A n \in requested : state[n] = "stopped" /\ n \notin lossy

\* "No anomaly" is never printed over a failed collector or lost data.
NoFalseAllClear ==
  emitted = "no anomaly" => \A n \in requested : state[n] = "stopped" /\ n \notin lossy

\* A signal or the deadline ends the run, however fast the ticker is, and so does the
\* failure of the last collector: no loop goes on with nothing left to poll.
Terminates ==
  (stopSignal \/ \A n \in requested : state[n] = "failed") ~> exitCode # -1
=============================================================================
