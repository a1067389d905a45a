----------------------------- MODULE Connector -----------------------------
(***************************************************************************)
(* The workers of Pipeline.tla writing through the shared circuit breaker  *)
(* of CircuitBreaker.tla: Execute asks the breaker before the sink's retry *)
(* loop and tells it how the loop ended.  What the breaker does to a batch *)
(* (NACK, redelivery, another try), and what the batches do to the breaker *)
(* (which write ends unavailable, and when), is settled here by the two    *)
(* components together; Pipeline alone lets the breaker refuse at will.    *)
(***************************************************************************)
EXTENDS Pipeline

CONSTANTS FailureThreshold, HalfOpenBase, HalfOpenMax, MaxInt64, CounterCap

(* What CircuitBreaker assumes of its thresholds. *)
ASSUME ConnectorAssumption ==
  /\ FailureThreshold \in Nat \ {0} /\ HalfOpenBase \in Nat \ {0}
  /\ {HalfOpenMax, MaxInt64, CounterCap} \subseteq Nat
  /\ HalfOpenMax = 0 \/ HalfOpenMax >= HalfOpenBase
  /\ MaxInt64 >= HalfOpenMax /\ MaxInt64 >= HalfOpenBase
  /\ CounterCap >= FailureThreshold /\ CounterCap >= 2 * MaxInt64

VARIABLES cb, ticket, unclaimed, evidence, wins   \* see CircuitBreaker

breaker == <<cb, ticket, unclaimed, evidence, wins>>
connector == <<vars, breaker>>

Breaker == INSTANCE CircuitBreaker WITH Callers <- Workers

ConnectorInit == Init /\ Breaker!Init

-----------------------------------------------------------------------------
(* processBatchFromChannel, the call of w.circuitBreaker.Execute.           *)

ExecuteRefused(w) == Refuse(w) /\ Breaker!Reject(w)

ExecuteAdmitted(w) == Admit(w) /\ Breaker!Admit(w)

(* The write succeeded. *)
ExecuteSucceeds(w) == PushSucceeds(w) /\ Breaker!RecordResult(w, FALSE)

(* The push failed.  When it was the last of the retry loop, the breaker is *)
(* told the error of the last push, which may be one for which              *)
(* IsClusterUnavailable holds, or another one: that counts as a success.    *)
ExecuteFails(w) ==
  /\ PushFails(w)
  /\ IF pc'[w] = "nack"
     THEN \E unavailable \in BOOLEAN : Breaker!RecordResult(w, unavailable)
     ELSE UNCHANGED breaker

(* Fault: a cancelled write leaves without telling the breaker. *)
ExecuteCancelledUnrecorded(w) == AttemptCancelled(w) /\ UNCHANGED breaker

(* The retry loop ended because of ctx: its error is not the cluster's. *)
ExecuteCancelled(w) == AttemptCancelled(w) /\ Breaker!RecordResult(w, FALSE)

Execute(w) ==
  \/ ExecuteRefused(w) \/ ExecuteAdmitted(w)
  \/ ExecuteSucceeds(w) \/ ExecuteFails(w) \/ ExecuteCancelled(w)

(* Everything else a worker does. *)
OutsideExecute(w) ==
  /\ \/ Receive(w) \/ WorkerExit(w)
     \/ MergeFails(w) \/ Parse(w)
     \/ Attempt(w)
     \/ NackBatch(w) \/ AckBatch(w)
  /\ UNCHANGED breaker

ConnectorWorkerStep(w) == Execute(w) \/ OutsideExecute(w)

-----------------------------------------------------------------------------
(* The process.  The breaker lives as long as the process does: NewConnector *)
(* builds a new one.                                                         *)

NewBreaker ==
  /\ cb' = [state |-> "closed", failures |-> 0, successes |-> 0,
            allowed |-> HalfOpenBase, active |-> 0, age |-> "expired"]
  /\ ticket' = [w \in Workers |-> "idle"]
  /\ unclaimed' = 0
  /\ evidence' = 0
  /\ wins' = 0

StepOutsideWorkers ==
  /\ \/ \E m \in Messages : AckWaitExpires(m)
     \/ FetchStep
     \/ Cancel
  /\ UNCHANGED breaker

(* RunWithContext returns, and the process is started again. *)
Supervised ==
  \/ Terminate /\ NewBreaker
  \/ Restart /\ UNCHANGED breaker

ConnectorNext ==
  \/ StepOutsideWorkers
  \/ \E w \in Workers : ConnectorWorkerStep(w)
  \/ Breaker!Tick /\ UNCHANGED vars
  \/ Crash /\ NewBreaker
  \/ Supervised

ConnectorSpec == ConnectorInit /\ [][ConnectorNext]_connector

(* FetchBatch returns within BatchTimeout, a worker's calls return, time    *)
(* passes, wg.Wait and the select of RunWithContext return, and a           *)
(* supervisor starts the process again.                                     *)
Fairness ==
  /\ WF_connector(FetchStep /\ UNCHANGED breaker)
  /\ \A w \in Workers : WF_connector(ConnectorWorkerStep(w))
  /\ WF_connector(Breaker!Tick /\ UNCHANGED vars)
  /\ WF_connector(\/ Supervised
                  \/ fetcher.step = "failed" /\ Cancel /\ UNCHANGED breaker)

Handled(m, A(_)) == \E w \in Workers : m \in batch[w] /\ A(w)

Arrives(w) ==
  /\ AckBatch(w) /\ \A m \in Valid(batch[w]) : consumer'[m] \in {"acked", "dead"}
  /\ UNCHANGED breaker

Parsed(w) == Parse(w) /\ UNCHANGED breaker

(* Of each message that can be written: JetStream delivers it again and     *)
(* again, AckWait runs out, and neither the merge, nor the cluster, nor the *)
(* network fails it every time.  Nothing is assumed of the breaker.         *)
DeliveryFairness ==
  \A m \in {x \in Messages : ~Failed(x)} :
    /\ WF_connector(AckWaitExpires(m) /\ UNCHANGED breaker)
    /\ SF_connector(\E S \in SUBSET Messages : m \in S /\ Fetch(S) /\ UNCHANGED breaker)
    /\ SF_connector(Handled(m, Parsed))
    /\ SF_connector(Handled(m, Arrives))
    /\ HasRows(m) => SF_connector(Handled(m, ExecuteSucceeds))

LiveSpec == ConnectorSpec /\ Fairness /\ DeliveryFairness

-----------------------------------------------------------------------------
(* Execute pairs canProceed with recordResult on every way out of a write    *)
(* (success, the last failed push, a cancelled retry loop): the requests the *)
(* breaker takes to be in flight are exactly the writes that are, so no slot *)
(* of a half-open period leaks.                                              *)
InFlightIsTicketed ==
  \A w \in Workers : ticket[w] # "idle" <=> pc[w] \in {"attempt", "push"}

-----------------------------------------------------------------------------
(* What the documentation says, and the code does not keep.                  *)

(* An outage of the cluster and nothing else: the process stays up, AckWait  *)
(* does not run out, and no message, ACK or NACK is lost on the way, so that *)
(* the messages outstanding at the server are those the connector holds.     *)
Held ==
  fetcher.batch \cup UNION {workCh[i] : i \in DOMAIN workCh} \cup UNION {batch[w] : w \in Workers}

Undisturbed ==
  /\ run = "up" /\ fetcher.step # "failed"
  /\ Held = {m \in Messages : consumer[m] = "outstanding"}

OutageSpec == ConnectorInit /\ [][ConnectorNext /\ Undisturbed']_connector

(* adr/002-data-flow.md: "No data loss: Explicit ACK only after successful   *)
(* write".  Handing back a batch while the circuit is open                   *)
(* (handleWriteFailure) never makes JetStream give up a message whose rows   *)
(* were not stored.                                                          *)
NoDataLoss ==
  [][\A w \in Workers : cb.state = "open" /\ NackBatch(w) =>
       \A m \in Rows(batch[w]) \ stored : consumer'[m] # "dead"]_connector
=============================================================================
