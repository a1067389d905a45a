----------------------------- MODULE FetchLoop -----------------------------
(***************************************************************************)
(* The fetch goroutine of connector/connector.go and the part of the       *)
(* health monitor that watches it.  A fetch error is either transient      *)
(* (back off, fetch again) or means that the pull subscription is dead     *)
(* (re-bind to the durable on a bounded ladder; past it, the process ends).*)
(*                                                                         *)
(* healthState is shared with the monitor goroutine under h.mu, one        *)
(* critical section per call: what the monitor read may be out of date     *)
(* when it acts on it, so evaluate takes three steps here.                 *)
(*                                                                         *)
(* RunWithContext reads one error from errCh at most, and then waits for   *)
(* every goroutine: the channel has to hold what the others still send.    *)
(***************************************************************************)
EXTENDS Naturals

CONSTANTS
  RebindAttempts,  \* rebindMaxAttempts
  WorkerCount      \* the workers, which report to errCh too

ASSUME RebindAssumption == RebindAttempts \in Nat \ {0} /\ WorkerCount \in Nat \ {0}

VARIABLES
  step,          \* where the fetch goroutine is
  attempt,       \* attempt of rebindSubscription
  subscription,  \* is the pull subscription able to deliver
  durable,       \* does the durable exist on the server (external)
  fetchAge,      \* lastFetchSuccess: past the stuck threshold ("stale") or not
  active,        \* healthState.active: the conditions that are set
  monitor,       \* where the monitor's evaluate is
  errCh,         \* errors in the channel
  connecting,    \* workers whose Run has not connected its sink yet
  reporting,     \* workers that failed to, and send the error to errCh
  ctx,           \* RunWithContext's context
  failing        \* history: the last fetch returned an error

vars == <<step, attempt, subscription, durable, fetchAge, active, monitor, errCh,
          connecting, reporting, ctx, failing>>

external == <<subscription, durable>>
workers == <<connecting, reporting>>

Conditions == {"rebinding", "fetch-stalled"}

(* Fault: no room for the error of the fetch loop. *)
ErrChCapacityOfWorkers == WorkerCount

ErrChCapacity == WorkerCount + 1

Init ==
  /\ step = "fetching"
  /\ attempt = 0
  /\ subscription = "alive"
  /\ durable = "present"
  /\ fetchAge = "fresh"   \* armed by RunWithContext
  /\ active = {}
  /\ monitor = "asleep"
  /\ errCh = 0
  /\ connecting = WorkerCount
  /\ reporting = 0
  /\ ctx = "live"
  /\ failing = FALSE

-----------------------------------------------------------------------------
(* The server and time.                                                     *)

(* The consumer is deleted, or only the subscription is torn down. *)
SubscriptionDies ==
  /\ subscription' = "dead"
  /\ durable' \in {durable, "absent"}
  /\ UNCHANGED <<step, attempt, fetchAge, active, monitor, errCh, workers, ctx, failing>>

DurableCreated ==
  /\ durable = "absent"
  /\ durable' = "present"
  /\ UNCHANGED <<step, attempt, subscription, fetchAge, active, monitor, errCh, workers, ctx, failing>>

(* The stuck threshold passes without a successful fetch. *)
FetchAges ==
  /\ fetchAge = "fresh"
  /\ fetchAge' = "stale"
  /\ UNCHANGED <<step, attempt, external, active, monitor, errCh, workers, ctx, failing>>

-----------------------------------------------------------------------------
(* fetchLoop, recoverFetch, dispatch.                                       *)

LoopTop == IF ctx = "live" THEN "fetching" ELSE "exited"

(* FetchBatch returned messages, or none within MaxWait. *)
FetchSucceeds ==
  /\ step = "fetching" /\ subscription = "alive"
  /\ step' \in {"dispatching", "idling"}
  /\ fetchAge' = "fresh"
  /\ failing' = FALSE
  /\ UNCHANGED <<attempt, external, active, monitor, errCh, workers, ctx>>

(* Fault: a dead subscription is taken for a quiet stream. *)
FetchDeadMasked ==
  /\ step = "fetching" /\ subscription = "dead"
  /\ step' = "idling"
  /\ fetchAge' = "fresh"
  /\ failing' = FALSE
  /\ UNCHANGED <<attempt, external, active, monitor, errCh, workers, ctx>>

(* FetchBatch returned SubscriptionFailed: on to rebindSubscription. *)
FetchDead ==
  /\ step = "fetching" /\ subscription = "dead"
  /\ failing' = TRUE
  /\ IF ctx = "live"
     THEN /\ active' = active \cup {"rebinding"}
          /\ attempt' = 1
          /\ step' = "binding"
     ELSE /\ step' = "exited"
          /\ UNCHANGED <<active, attempt>>
  /\ UNCHANGED <<external, fetchAge, monitor, errCh, workers, ctx>>

(* Any other error of FetchBatch. *)
FetchFails ==
  /\ step = "fetching" /\ subscription = "alive"
  /\ failing' = TRUE
  /\ step' = IF ctx = "live" THEN "backoff" ELSE "exited"
  /\ UNCHANGED <<attempt, external, fetchAge, active, monitor, errCh, workers, ctx>>

(* idleSleep, a backoff or a send on workCh came to its end. *)
WaitOver ==
  /\ step \in {"idling", "dispatching", "backoff"}
  /\ step' = LoopTop
  /\ UNCHANGED <<attempt, external, fetchAge, active, monitor, errCh, workers, ctx, failing>>

(* ... or ctx.Done() won the select around it, or around the backoff of the *)
(* ladder.                                                                  *)
WaitCancelled ==
  /\ step \in {"idling", "dispatching", "backoff", "ladder"}
  /\ ctx = "cancelled"
  /\ step' = "exited"
  /\ UNCHANGED <<attempt, external, fetchAge, active, monitor, errCh, workers, ctx, failing>>

-----------------------------------------------------------------------------
(* rebindSubscription.                                                      *)

RebindSucceeds ==
  /\ step = "binding" /\ durable = "present"
  /\ subscription' = "alive"
  /\ step' = "bound"
  /\ UNCHANGED <<attempt, durable, fetchAge, active, monitor, errCh, workers, ctx, failing>>

(* health.recordFetchSuccess() *)
RecordRebind ==
  /\ step = "bound"
  /\ fetchAge' = "fresh"
  /\ failing' = FALSE
  /\ step' = "recorded"
  /\ UNCHANGED <<attempt, external, active, monitor, errCh, workers, ctx>>

(* Fault: the condition is left set. *)
ClearRebindingForgotten ==
  /\ step = "recorded"
  /\ step' = LoopTop
  /\ UNCHANGED <<attempt, external, fetchAge, active, monitor, errCh, workers, ctx, failing>>

(* health.clear(condRebinding) *)
ClearRebinding ==
  /\ step = "recorded"
  /\ active' = active \ {"rebinding"}
  /\ step' = LoopTop
  /\ UNCHANGED <<attempt, external, fetchAge, monitor, errCh, workers, ctx, failing>>

(* Fault: the last failed attempt is not reported. *)
RebindFailsSilently ==
  /\ step = "binding"
  /\ step' = IF attempt < RebindAttempts /\ ctx = "live" THEN "ladder" ELSE "exited"
  /\ UNCHANGED <<attempt, external, fetchAge, active, monitor, errCh, workers, ctx, failing>>

(* Rebind returned an error: back off, or report that the budget is used up, *)
(* unless ctx is cancelled.                                                  *)
RebindFails ==
  /\ step = "binding"
  /\ step' = IF ctx = "cancelled" THEN "exited"
             ELSE IF attempt < RebindAttempts THEN "ladder" ELSE "fatal"
  /\ UNCHANGED <<attempt, external, fetchAge, active, monitor, errCh, workers, ctx, failing>>

(* The backoff is over; its timer may win over a ctx that is cancelled. *)
NextAttempt ==
  /\ step = "ladder"
  /\ attempt' = attempt + 1
  /\ step' = "binding"
  /\ UNCHANGED <<external, fetchAge, active, monitor, errCh, workers, ctx, failing>>

(* errCh <- MaxRetriesExceeded: blocks while the channel is full. *)
SendFatal ==
  /\ step = "fatal" /\ errCh < ErrChCapacity
  /\ errCh' = errCh + 1
  /\ step' = "exited"
  /\ UNCHANGED <<attempt, external, fetchAge, active, monitor, workers, ctx, failing>>

-----------------------------------------------------------------------------
(* Worker.Run: a worker whose sink does not connect sends its error and is   *)
(* gone; once connected it returns nil or context.Canceled only.             *)

WorkerConnects ==
  /\ connecting > 0
  /\ connecting' = connecting - 1
  /\ UNCHANGED <<step, attempt, external, fetchAge, active, monitor, errCh, reporting, ctx, failing>>

WorkerFails ==
  /\ connecting > 0
  /\ connecting' = connecting - 1
  /\ reporting' = reporting + 1
  /\ UNCHANGED <<step, attempt, external, fetchAge, active, monitor, errCh, ctx, failing>>

(* errCh <- err, in the goroutine of the worker. *)
WorkerSends ==
  /\ reporting > 0 /\ errCh < ErrChCapacity
  /\ reporting' = reporting - 1
  /\ errCh' = errCh + 1
  /\ UNCHANGED <<step, attempt, external, fetchAge, active, monitor, connecting, ctx, failing>>

-----------------------------------------------------------------------------
(* healthMonitor.evaluate, the fetch staleness part.                        *)

ReadFetchAge ==
  /\ monitor = "asleep"
  /\ monitor' = IF fetchAge = "stale" THEN "saw-stale" ELSE "saw-fresh"
  /\ UNCHANGED <<step, attempt, external, fetchAge, active, errCh, workers, ctx, failing>>

ReadRebinding ==
  /\ monitor \in {"saw-stale", "saw-fresh"}
  /\ monitor' = IF monitor = "saw-stale" /\ "rebinding" \notin active THEN "stalled" ELSE "fine"
  /\ UNCHANGED <<step, attempt, external, fetchAge, active, errCh, workers, ctx, failing>>

(* Fault: a condition once set is never cleared. *)
SetOrClearNeverClears ==
  /\ monitor \in {"stalled", "fine"}
  /\ active' = IF monitor = "stalled" THEN active \cup {"fetch-stalled"} ELSE active
  /\ monitor' = "asleep"
  /\ UNCHANGED <<step, attempt, external, fetchAge, errCh, workers, ctx, failing>>

(* Fault: the branches of the decision are the same. *)
SetOrClearNeverSets ==
  /\ monitor \in {"stalled", "fine"}
  /\ active' = active \ {"fetch-stalled"}
  /\ monitor' = "asleep"
  /\ UNCHANGED <<step, attempt, external, fetchAge, errCh, workers, ctx, failing>>

SetOrClear ==
  /\ monitor \in {"stalled", "fine"}
  /\ active' = IF monitor = "stalled" THEN active \cup {"fetch-stalled"}
                                      ELSE active \ {"fetch-stalled"}
  /\ monitor' = "asleep"
  /\ UNCHANGED <<step, attempt, external, fetchAge, errCh, workers, ctx, failing>>

MonitorExits ==
  /\ monitor = "asleep" /\ ctx = "cancelled"
  /\ monitor' = "exited"
  /\ UNCHANGED <<step, attempt, external, fetchAge, active, errCh, workers, ctx, failing>>

-----------------------------------------------------------------------------
(* RunWithContext: an error arrives, or a signal.                           *)

ReadError ==
  /\ ctx = "live" /\ errCh > 0
  /\ errCh' = errCh - 1
  /\ ctx' = "cancelled"
  /\ UNCHANGED <<step, attempt, external, fetchAge, active, monitor, workers, failing>>

Signal ==
  /\ ctx = "live"
  /\ ctx' = "cancelled"
  /\ UNCHANGED <<step, attempt, external, fetchAge, active, monitor, errCh, workers, failing>>

(* The goroutines that report and the monitor returned: the process is over. *)
Returned == step = "exited" /\ monitor = "exited" /\ connecting = 0 /\ reporting = 0

Done == Returned /\ UNCHANGED vars

-----------------------------------------------------------------------------
LoopStep ==
  \/ FetchSucceeds \/ FetchDead \/ FetchFails
  \/ WaitOver \/ WaitCancelled
  \/ RebindSucceeds \/ RecordRebind \/ ClearRebinding
  \/ RebindFails \/ NextAttempt \/ SendFatal

MonitorStep == ReadFetchAge \/ ReadRebinding \/ SetOrClear \/ MonitorExits

WorkerStep == WorkerConnects \/ WorkerFails \/ WorkerSends

Next ==
  \/ SubscriptionDies \/ DurableCreated \/ FetchAges
  \/ LoopStep
  \/ MonitorStep
  \/ WorkerStep
  \/ ReadError \/ Signal
  \/ Done

Spec == Init /\ [][Next]_vars

(* The fetch goroutine's calls return (a send on workCh once a worker takes *)
(* a batch), and so do the workers' calls of sink.Connect; the monitor's    *)
(* ticker fires, main reads errCh and, while fetches keep failing, the      *)
(* stuck threshold passes.  A send on a full errCh is promised nothing.     *)
Fairness ==
  /\ WF_vars(LoopStep)
  /\ WF_vars(MonitorStep)
  /\ SF_vars(MonitorExits)
  /\ WF_vars(WorkerConnects \/ WorkerFails) /\ WF_vars(WorkerSends)
  /\ WF_vars(ReadError)
  /\ WF_vars(failing /\ FetchAges)

LiveSpec == Spec /\ Fairness

-----------------------------------------------------------------------------
(* condRebinding (rebindSubscription): the condition is set exactly while    *)
(* the goroutine is on the re-bind ladder, unless it left it to end the      *)
(* process.                                                                  *)
RebindingReported ==
  step # "exited" =>
    ("rebinding" \in active <=> step \in {"binding", "bound", "recorded", "ladder", "fatal"})

(* A dead subscription (isSubscriptionDead: "must never be masked as empty   *)
(* batches") does not stay unnoticed: it is reported, or the process ends.   *)
DeadIsNoticed ==
  subscription = "dead" ~> ("rebinding" \in active \/ subscription = "alive" \/ step = "exited")

(* rebindSubscription ends: the subscription is bound again, or the process  *)
(* is told to stop and the fetch loop has returned; no ladder lasts for ever *)
(* and none ends unreported.                                                 *)
LadderEnds ==
  step \in {"binding", "ladder", "fatal"} ~> (step = "bound" \/ (step = "exited" /\ ctx = "cancelled"))

(* condFetchStalled (evaluate): fetches that fail for ever get reported,     *)
(* unless a re-bind is.                                                      *)
StallIsReported ==
  <>[](failing /\ ctx = "live")
    => []<>("fetch-stalled" \in active \/ "rebinding" \in active)

(* ... and the report goes away for good when fetches succeed in time again. *)
StallIsCleared ==
  <>[](fetchAge = "fresh" /\ ctx = "live") => <>[]("fetch-stalled" \notin active)

(* Shutdown (fetchLoop, run, Worker.Run): once ctx is cancelled the fetch    *)
(* loop, the monitor and the workers that fail to start return, whatever     *)
(* they are waiting for; nobody is left sending to an errCh that nobody      *)
(* reads any more.                                                           *)
Shutdown == ctx = "cancelled" ~> Returned

-----------------------------------------------------------------------------
(* What a comment of the code says, and the code does not keep.              *)

Raised(c) == c \notin active /\ c \in active'

(* evaluate: "Fetch staleness only counts when not already reported as a     *)
(* re-bind in progress -- one incident, one condition".                      *)
OneIncidentOneCondition ==
  [][Raised("fetch-stalled") => "rebinding" \notin active]_vars
=============================================================================
