------------------------------ MODULE Watchdog ------------------------------
(***************************************************************************)
(* Liveness probes over time (connector/liveness.go, health.go, the /livez *)
(* verdict of internal/telemetry/probes.go and the systemd petter of       *)
(* cmd/qdb-nats-connector/sdnotify.go).  The goroutines of the pipeline    *)
(* bracket their blocking stages with Begin and End; the monitor samples   *)
(* the ages of the stages and reports one stuck past the threshold; while  *)
(* one is reported the petter withholds its pets, and systemd kills a      *)
(* process that has not petted for WatchdogTimeout.                        *)
(*                                                                         *)
(* Time is counted in ticks.  A call to NATS or to the cluster takes at    *)
(* most its timeout, except for a push that is wedged, which never         *)
(* returns.  A goroutine whose sleep or call is over runs up to Latency    *)
(* ticks later: a sample may fall in between (sink.go, retryWithBackoff).  *)
(***************************************************************************)
EXTENDS Integers, FiniteSets

CONSTANTS
  Workers,          \* the worker goroutines
  StuckThreshold,   \* health-stuck-threshold
  MonitorInterval,  \* ticks between two evaluations of the monitor
  PetInterval,      \* ticks between two pets: half of WatchdogSec
  RetryBase, RetryMax, RetryAttempts,  \* the sink's retry ladder
  FetchTime,        \* longest FetchBatch call
  RestTime,         \* pause of the fetch loop after an empty or failed fetch
  PushTime,         \* longest push that is not wedged
  Latency,          \* longest delay of a goroutine that is due to run
  MayWedge          \* may a push block for ever

FetchLoop == "fetch-loop"
Owners == Workers \cup {FetchLoop}

ASSUME WatchdogAssumption ==
  /\ IsFiniteSet(Workers) /\ Workers # {} /\ FetchLoop \notin Workers
  /\ {StuckThreshold, MonitorInterval, PetInterval, RetryBase, RetryAttempts} \subseteq Nat \ {0}
  /\ {RetryMax, FetchTime, RestTime, PushTime, Latency} \subseteq Nat
  /\ RetryBase <= RetryMax
  /\ MayWedge \in BOOLEAN

WorkChCapacity == 2 * Cardinality(Workers)
WatchdogTimeout == 2 * PetInterval

(* Bound on how long a wedged stage can go on: see WedgeIsKilled. *)
KillBound == StuckThreshold + MonitorInterval + WatchdogTimeout + 1

VARIABLES
  probe,    \* each owner's Probe: stage ("" when cleared) and its age
  fetch,    \* the fetch loop: step, and ticks left of a call or a pause,
            \* the delay of the goroutine included
  depth,    \* batches in workCh
  work,     \* each worker: step, ticks left, attempt and backoff of the sink
  stuck,    \* owners with an active stage-stuck condition
  evalDue,  \* ticks to the monitor's next evaluation
  petDue,   \* ticks to the petter's next tick
  petAge,   \* ticks since systemd last got a pet
  cluster   \* does the cluster answer pushes (external)

vars == <<probe, fetch, depth, work, stuck, evalDue, petDue, petAge, cluster>>

timers == <<stuck, evalDue, petDue, petAge>>

NoStage == ""
Cleared == [stage |-> NoStage, age |-> 0]
Resting == [step |-> "idle", left |-> 0, attempt |-> 0, backoff |-> RetryBase]

Lesser(a, b) == IF a < b THEN a ELSE b

-----------------------------------------------------------------------------
(* Probe.                                                                   *)

Begin(stage) == [stage |-> stage, age |-> 0]

(* Fault: Touch leaves the age as it is. *)
TouchNothing(p) == p

(* Refreshes the age; a cleared probe stays cleared. *)
Touch(p) == IF p.stage = NoStage THEN p ELSE [p EXCEPT !.age = 0]

(* The goroutines as RunWithContext starts them; the monitor evaluates at   *)
(* once.                                                                    *)
StartProbe == [o \in Owners |-> IF o = FetchLoop THEN Begin("fetch") ELSE Cleared]
StartFetch == [step |-> "fetching", left |-> FetchTime + Latency]
StartWork == [w \in Workers |-> Resting]

Init ==
  /\ probe = StartProbe /\ fetch = StartFetch /\ work = StartWork
  /\ depth = 0
  /\ stuck = {}
  /\ evalDue = 0 /\ petDue = PetInterval /\ petAge = 0
  /\ cluster = "up"

-----------------------------------------------------------------------------
(* The fetch loop.                                                          *)

FetchAgain ==
  /\ fetch' = StartFetch
  /\ probe' = [probe EXCEPT ![FetchLoop] = Begin("fetch")]

(* FetchBatch returned messages: on to dispatch. *)
FetchReturns ==
  /\ fetch.step = "fetching"
  /\ fetch' = [step |-> "dispatching", left |-> 0]
  /\ probe' = [probe EXCEPT ![FetchLoop] = Begin("dispatch")]
  /\ UNCHANGED <<depth, work, timers, cluster>>

(* Fault: the probe is left running. *)
FetchPausesProbed ==
  /\ fetch.step = "fetching"
  /\ fetch' = [step |-> "resting", left |-> RestTime + Latency]
  /\ UNCHANGED <<probe, depth, work, timers, cluster>>

(* FetchBatch returned none or an error: idleSleep, a backoff, a re-bind;   *)
(* none of them is probed.                                                  *)
FetchPauses ==
  /\ fetch.step = "fetching"
  /\ fetch' = [step |-> "resting", left |-> RestTime + Latency]
  /\ probe' = [probe EXCEPT ![FetchLoop] = Cleared]
  /\ UNCHANGED <<depth, work, timers, cluster>>

PauseOver ==
  /\ fetch.step = "resting" /\ fetch.left <= Latency
  /\ FetchAgain
  /\ UNCHANGED <<depth, work, timers, cluster>>

Dispatch ==
  /\ fetch.step = "dispatching"
  /\ depth < WorkChCapacity
  /\ depth' = depth + 1
  /\ FetchAgain
  /\ UNCHANGED <<work, timers, cluster>>

-----------------------------------------------------------------------------
(* A worker and its sink.                                                   *)

(* A batch is received; parsing takes no time, and the breaker admits it. *)
Receive(w) ==
  /\ work[w].step = "idle"
  /\ depth > 0
  /\ depth' = depth - 1
  /\ work' = [work EXCEPT ![w] = [step |-> "pushing", left |-> PushTime + Latency,
                                  attempt |-> 1, backoff |-> RetryBase]]
  /\ probe' = [probe EXCEPT ![w] = Begin("process")]
  /\ UNCHANGED <<fetch, timers, cluster>>

(* The batch is done with: it was written, or it was handed back. *)
Finish(w) ==
  /\ work' = [work EXCEPT ![w] = Resting]
  /\ probe' = [probe EXCEPT ![w] = Cleared]

(* The breaker refuses the write, or the batch has nothing to write. *)
ReceiveUnwritten(w) ==
  /\ work[w].step = "idle"
  /\ depth > 0
  /\ depth' = depth - 1
  /\ UNCHANGED <<probe, fetch, work, timers, cluster>>

PushSucceeds(w) ==
  /\ work[w].step = "pushing"
  /\ cluster = "up"
  /\ Finish(w)
  /\ UNCHANGED <<fetch, depth, timers, cluster>>

NextBackoff(b) == Lesser(2 * b, RetryMax)

(* A retryable error with attempts left: progress is reported, then sleep. *)
PushRetries(w) ==
  /\ work[w].step = "pushing"
  /\ work[w].attempt < RetryAttempts
  /\ work' = [work EXCEPT ![w].step = "waiting",
                          ![w].left = work[w].backoff + Latency]
  /\ probe' = [probe EXCEPT ![w] = Touch(@)]
  /\ UNCHANGED <<fetch, depth, timers, cluster>>

(* Any other error, or the last attempt: the batch is handed back. *)
PushFails(w) ==
  /\ work[w].step = "pushing"
  /\ Finish(w)
  /\ UNCHANGED <<fetch, depth, timers, cluster>>

(* Progress is reported on waking, and the push is tried again. *)
Wake(w) ==
  /\ work[w].step = "waiting" /\ work[w].left <= Latency
  /\ work' = [work EXCEPT ![w].step = "pushing", ![w].left = PushTime + Latency,
                          ![w].attempt = work[w].attempt + 1,
                          ![w].backoff = NextBackoff(@)]
  /\ probe' = [probe EXCEPT ![w] = Touch(@)]
  /\ UNCHANGED <<fetch, depth, timers, cluster>>

(* A push that will never return. *)
Wedge(w) ==
  /\ MayWedge
  /\ work[w].step = "pushing"
  /\ work' = [work EXCEPT ![w].step = "wedged", ![w].left = 0]
  /\ UNCHANGED <<probe, fetch, depth, timers, cluster>>

-----------------------------------------------------------------------------
(* The monitor, the petter, systemd, the cluster and time.                  *)

(* Fault: the probes are not compared with the threshold. *)
OverThresholdNever(p) == FALSE

OverThreshold(p) == p.stage # NoStage /\ p.age > StuckThreshold

Evaluate ==
  /\ evalDue = 0
  /\ stuck' = {o \in Owners : OverThreshold(probe[o])}
  /\ evalDue' = MonitorInterval
  /\ UNCHANGED <<probe, fetch, depth, work, petDue, petAge, cluster>>

(* The /livez verdict; the monitor's heartbeat is never stale here. *)
Alive == stuck = {}

Pet ==
  /\ petDue = 0
  /\ petAge' = IF Alive THEN 0 ELSE petAge
  /\ petDue' = PetInterval
  /\ UNCHANGED <<probe, fetch, depth, work, stuck, evalDue, cluster>>

(* systemd kills the process and starts it again. *)
Kill ==
  /\ petAge > WatchdogTimeout
  /\ probe' = StartProbe /\ fetch' = StartFetch /\ work' = StartWork
  /\ depth' = 0
  /\ stuck' = {}
  /\ evalDue' = 0 /\ petDue' = PetInterval /\ petAge' = 0
  /\ UNCHANGED cluster

ClusterChanges ==
  /\ cluster' = IF cluster = "up" THEN "down" ELSE "up"
  /\ UNCHANGED <<probe, fetch, depth, work, timers>>

(* Nothing has to run now.  A sleep or a call has to be over when its time  *)
(* and the goroutine's delay are used up; a goroutine that a channel wakes   *)
(* runs within the tick.                                                    *)
Quiet ==
  /\ evalDue > 0 /\ petDue > 0 /\ petAge <= WatchdogTimeout
  /\ fetch.step = "dispatching" \/ fetch.left > 0
  /\ fetch.step = "dispatching" => depth = WorkChCapacity
  /\ \A w \in Workers :
       /\ work[w].step \in {"pushing", "waiting"} => work[w].left > 0
       /\ work[w].step = "idle" => depth = 0

Later(t) == IF t.left > 0 THEN [t EXCEPT !.left = @ - 1] ELSE t

Tick ==
  /\ Quiet
  /\ probe' = [o \in Owners |-> IF probe[o].stage = NoStage THEN probe[o]
                                ELSE [probe[o] EXCEPT !.age = Lesser(@ + 1, KillBound + 1)]]
  /\ fetch' = Later(fetch)
  /\ work' = [w \in Workers |-> Later(work[w])]
  /\ evalDue' = evalDue - 1
  /\ petDue' = petDue - 1
  /\ petAge' = petAge + 1
  /\ UNCHANGED <<depth, stuck, cluster>>

-----------------------------------------------------------------------------
Next ==
  \/ FetchReturns \/ FetchPauses \/ PauseOver \/ Dispatch
  \/ \E w \in Workers :
       \/ Receive(w) \/ ReceiveUnwritten(w)
       \/ PushSucceeds(w) \/ PushRetries(w) \/ PushFails(w)
       \/ Wake(w) \/ Wedge(w)
  \/ Evaluate \/ Pet \/ Kill
  \/ ClusterChanges
  \/ Tick

Spec == Init /\ [][Next]_vars

-----------------------------------------------------------------------------
(* How long the backoff or the push that a worker is in, or the fetch of     *)
(* the fetch loop, has lasted.                                               *)
Span(t) == (IF t.step = "waiting" THEN t.backoff ELSE PushTime) + Latency
Lasted(t) == Span(t) - t.left
FetchLasted == FetchTime + Latency - fetch.left

(* As with the defaults: no backoff (300s) and no push is meant to outlast   *)
(* the threshold (5 minutes, but any positive value is accepted), and the    *)
(* monitor samples more often than that.                                     *)
SpansFit ==
  /\ RetryMax <= StuckThreshold /\ PushTime <= StuckThreshold
  /\ Latency <= MonitorInterval /\ MonitorInterval <= StuckThreshold

(* Retry progress (OnRetryProgress, Touch): a worker deep in the retry       *)
(* ladder, whose stage is far older than the threshold, is reported stuck    *)
(* only for the one backoff or push it is in, when that alone has outlasted  *)
(* the threshold; and where they fit the threshold, so that only a late      *)
(* goroutine can be caught, the next evaluation clears the report again.     *)
RetryReportIsMarginal ==
  [][Evaluate =>
       \A w \in Workers \cap stuck' :
         \/ work[w].step = "wedged"
         \/ Lasted(work[w]) > StuckThreshold /\ (SpansFit => w \notin stuck)]_vars

(* The fetch loop is reported stuck only for a batch it cannot hand over     *)
(* (dispatch: the signal that the whole pool is blocked) or for one fetch    *)
(* that alone has outlasted the threshold, never for its pauses or its       *)
(* re-binds, however long NATS fails.                                        *)
FetchLoopStuckInDispatch ==
  [][(FetchLoop \in stuck' \ stuck) =>
       \/ fetch.step = "dispatching"
       \/ fetch.step = "fetching" /\ FetchLasted > StuckThreshold]_vars

(* A wedged stage gets the process killed: at most the threshold, one        *)
(* interval of the monitor and the watchdog's timeout (a pet may just have   *)
(* been sent) after it began or last made progress.                          *)
WedgeIsKilled ==
  \A o \in Owners : probe[o].age <= KillBound

-----------------------------------------------------------------------------
(* What a comment of the code says, and the code does not keep.              *)

(* watchdogPetter: "dependency outages (NATS/QDB down) never stop pets".     *)
OutagesNeverStopPets ==
  (\A w \in Workers : work[w].step # "wedged") => Alive
=============================================================================
