------------------------------ MODULE Pipeline ------------------------------
(***************************************************************************)
(* The message path of one connector process: the fetch loop pulls batches *)
(* from a JetStream durable and sends them over workCh to the workers;     *)
(* each worker parses and filters its batch, writes the surviving rows     *)
(* under the circuit breaker, and acknowledges (ACK) or hands back (NACK)  *)
(* the messages.  The process may be told to stop, may give up its         *)
(* subscription, may crash at any point, and is started again.             *)
(*                                                                         *)
(* External, modelled as the code uses them: the JetStream consumer (a     *)
(* message delivered and not acknowledged is delivered again on NACK or    *)
(* when AckWait runs out, at most MaxDeliver times; an acknowledgment may  *)
(* be lost) and the cluster (a push may fail after it stored some of the   *)
(* rows).  The breaker is CircuitBreaker.tla; here it may refuse or admit  *)
(* any write, and Connector.tla puts the two together.                     *)
(***************************************************************************)
EXTENDS Integers, Sequences, FiniteSets

CONSTANTS
  Messages,          \* the messages of the stream
  Workers,           \* the worker goroutines
  QueuedPerWorker,   \* batches workCh holds for each worker (2 in the code)
  BatchSize,         \* most messages one fetch returns
  RetryAttempts,     \* pushes the sink tries for one write
  MaxDeliver,        \* deliveries of a message before JetStream gives it up,
                     \* 0 for no limit
  Outcome,           \* how the parser classifies each message
  Matching,          \* messages with at least one row that passes the filter
  ParseErrorAction   \* the parse-error-action option

Outcomes == {"ok", "partial", "unusable", "error"}

ASSUME PipelineAssumption ==
  /\ IsFiniteSet(Messages)
  /\ Workers # {} /\ IsFiniteSet(Workers)
  /\ QueuedPerWorker \in Nat \ {0}
  /\ BatchSize \in Nat \ {0}
  /\ RetryAttempts \in Nat \ {0}
  /\ MaxDeliver \in Nat
  /\ Outcome \in [Messages -> Outcomes]
  /\ Matching \subseteq Messages
  /\ ParseErrorAction \in {"drop", "fail"}

VARIABLES
  consumer,    \* JetStream: where each message stands
  deliveries,  \* JetStream: times each message was delivered, if limited
  stored,      \* QuasarDB: messages whose rows were stored at least once
  run,         \* the process: up, ctx cancelled ("stopping"), not running
  fetcher,     \* the fetch loop: its step, and the batch it dispatches
  workCh,      \* batches waiting for a worker
  pc,          \* each worker's step in processBatchFromChannel
  batch,       \* each worker's batch
  attempt      \* each worker's attempt in retryWithBackoff

vars == <<consumer, deliveries, stored, run, fetcher, workCh, pc, batch, attempt>>

server == <<consumer, deliveries>>
process == <<run, fetcher, workCh>>
worker == <<pc, batch, attempt>>

Standings == {"pending", "outstanding", "acked", "dead"}
FetchSteps == {"fetching", "dispatching", "exited", "failed"}
Steps == {"idle", "parse", "write", "attempt", "push", "ack", "nack", "exited"}

WorkChCapacity == QueuedPerWorker * Cardinality(Workers)

-----------------------------------------------------------------------------
(* parseMessages and the row filter: what becomes of a message.             *)

(* Handed back for redelivery at once. *)
Failed(m) ==
  \/ Outcome[m] = "error"
  \/ ParseErrorAction = "fail" /\ Outcome[m] # "ok"

(* Yields rows that have to be written.  The others of the valid messages   *)
(* (dropped as unusable, exploded to zero rows, filtered out) do not.       *)
HasRows(m) ==
  /\ ~Failed(m)
  /\ Outcome[m] # "unusable"
  /\ m \in Matching

Valid(B) == {m \in B : ~Failed(m)}
Rows(B) == {m \in B : HasRows(m)}

-----------------------------------------------------------------------------
(* The JetStream consumer.                                                  *)

(* Where a message stands once it was handed back or its AckWait ran out. *)
Returned(m) ==
  IF MaxDeliver # 0 /\ deliveries[m] = MaxDeliver THEN "dead" ELSE "pending"

(* NACKs of the messages in S reach the server. *)
Nak(S) ==
  consumer' = [m \in Messages |->
    IF m \in S /\ consumer[m] = "outstanding" THEN Returned(m) ELSE consumer[m]]

(* ACKs of the messages in S reach the server, of an old delivery as well. *)
Ack(S) ==
  consumer' = [m \in Messages |->
    IF m \in S /\ consumer[m] # "dead" THEN "acked" ELSE consumer[m]]

(* The server answers a pull request with the messages in S. *)
Deliver(S) ==
  /\ \A m \in S : consumer[m] = "pending"
  /\ consumer' = [m \in Messages |-> IF m \in S THEN "outstanding" ELSE consumer[m]]
  /\ deliveries' = [m \in Messages |->
       IF m \in S /\ MaxDeliver # 0 THEN deliveries[m] + 1 ELSE deliveries[m]]

AckWaitExpires(m) ==
  /\ consumer[m] = "outstanding"
  /\ consumer' = [consumer EXCEPT ![m] = Returned(m)]
  /\ UNCHANGED <<deliveries, stored, process, worker>>

-----------------------------------------------------------------------------
Init ==
  /\ consumer = [m \in Messages |-> "pending"]
  /\ deliveries = [m \in Messages |-> 0]
  /\ stored = {}
  /\ run = "up"
  /\ fetcher = [step |-> "fetching", batch |-> {}]
  /\ workCh = <<>>
  /\ pc = [w \in Workers |-> "idle"]
  /\ batch = [w \in Workers |-> {}]
  /\ attempt = [w \in Workers |-> 0]

-----------------------------------------------------------------------------
(* The fetch loop.                                                          *)

(* The loop condition, ctx.Err() == nil: fetch again, or return, which      *)
(* closes workCh.                                                           *)
LoopTop ==
  [step |-> IF run = "up" THEN "fetching" ELSE "exited", batch |-> {}]

(* FetchBatch returned messages. *)
Fetch(S) ==
  /\ fetcher.step = "fetching"
  /\ S # {} /\ Cardinality(S) <= BatchSize
  /\ Deliver(S)
  /\ fetcher' = [step |-> "dispatching", batch |-> S]
  /\ UNCHANGED <<stored, run, workCh, worker>>

(* FetchBatch returned an empty batch, or an error that recoverFetch got    *)
(* over; messages the server sent may have been lost on the way.            *)
FetchNothing(S) ==
  /\ fetcher.step = "fetching"
  /\ Cardinality(S) <= BatchSize
  /\ Deliver(S)
  /\ fetcher' = LoopTop
  /\ UNCHANGED <<stored, run, workCh, worker>>

(* rebindSubscription used up its attempts: the error is in errCh. *)
FetchGivesUp ==
  /\ fetcher.step = "fetching" /\ run = "up"
  /\ fetcher' = [step |-> "failed", batch |-> {}]
  /\ UNCHANGED <<server, stored, run, workCh, worker>>

(* dispatch: the batch went into workCh. *)
Dispatch ==
  /\ fetcher.step = "dispatching"
  /\ Len(workCh) < WorkChCapacity
  /\ workCh' = Append(workCh, fetcher.batch)
  /\ fetcher' = LoopTop
  /\ UNCHANGED <<server, stored, run, worker>>

(* Fault: dispatch waits for room in workCh and for nothing else. *)
DispatchCancelledNever == FALSE /\ UNCHANGED vars

(* dispatch: ctx.Done() won the select, the batch is dropped. *)
DispatchCancelled ==
  /\ fetcher.step = "dispatching"
  /\ run = "stopping"
  /\ fetcher' = [step |-> "exited", batch |-> {}]
  /\ UNCHANGED <<server, stored, run, workCh, worker>>

-----------------------------------------------------------------------------
(* A worker.                                                                *)

Goto(w, step) == pc' = [pc EXCEPT ![w] = step]

(* The batch is done with: back to the select of Run. *)
Finish(w) ==
  /\ Goto(w, "idle")
  /\ batch' = [batch EXCEPT ![w] = {}]
  /\ attempt' = [attempt EXCEPT ![w] = 0]

Receive(w) ==
  /\ pc[w] = "idle"
  /\ workCh # <<>>
  /\ batch' = [batch EXCEPT ![w] = Head(workCh)]
  /\ workCh' = Tail(workCh)
  /\ Goto(w, "parse")
  /\ UNCHANGED <<server, stored, run, fetcher, attempt>>

(* Run returns: ctx was cancelled, or workCh is closed and drained. *)
WorkerExit(w) ==
  /\ pc[w] = "idle"
  /\ \/ run = "stopping"
     \/ fetcher.step \in {"exited", "failed"} /\ workCh = <<>>
  /\ Goto(w, "exited")
  /\ UNCHANGED <<server, stored, process, batch, attempt>>

(* MergeWriterTables failed: neither ACK nor NACK. *)
MergeFails(w) ==
  /\ pc[w] = "parse"
  /\ Rows(batch[w]) # {}
  /\ Finish(w)
  /\ UNCHANGED <<server, stored, process>>

(* Fault: a batch without rows is taken for a batch without valid messages. *)
ParseSkipsUnwritten(w) ==
  /\ pc[w] = "parse"
  /\ \E S \in SUBSET (batch[w] \ Valid(batch[w])) : Nak(S)
  /\ \/ /\ Rows(batch[w]) # {}
        /\ Goto(w, "write")
        /\ UNCHANGED <<batch, attempt>>
     \/ /\ Rows(batch[w]) = {}
        /\ Finish(w)
  /\ UNCHANGED <<deliveries, stored, process>>

(* Messages that failed to parse are handed back; nackMessages stops at the *)
(* first error, and what it published may be lost.  A batch without rows    *)
(* skips the write.                                                         *)
Parse(w) ==
  /\ pc[w] = "parse"
  /\ \E S \in SUBSET (batch[w] \ Valid(batch[w])) : Nak(S)
  /\ \/ /\ Rows(batch[w]) # {}
        /\ Goto(w, "write")
        /\ UNCHANGED <<batch, attempt>>
     \/ /\ Rows(batch[w]) = {} /\ Valid(batch[w]) # {}
        /\ Goto(w, "ack")
        /\ UNCHANGED <<batch, attempt>>
     \/ /\ Valid(batch[w]) = {}
        /\ Finish(w)
  /\ UNCHANGED <<deliveries, stored, process>>

(* Execute: the breaker refuses the write. *)
Refuse(w) ==
  /\ pc[w] = "write"
  /\ Goto(w, "nack")
  /\ UNCHANGED <<server, stored, process, batch, attempt>>

(* Execute: the breaker admits it, and the sink's retry loop begins. *)
Admit(w) ==
  /\ pc[w] = "write"
  /\ Goto(w, "attempt")
  /\ UNCHANGED <<server, stored, process, batch, attempt>>

(* retryWithBackoff: the ctx checks before an attempt, during the backoff   *)
(* and after it.                                                            *)
AttemptCancelled(w) ==
  /\ pc[w] = "attempt"
  /\ run = "stopping"
  /\ Goto(w, "nack")
  /\ UNCHANGED <<server, stored, process, batch, attempt>>

Attempt(w) ==
  /\ pc[w] = "attempt"
  /\ run = "up"
  /\ Goto(w, "push")
  /\ attempt' = [attempt EXCEPT ![w] = @ + 1]
  /\ UNCHANGED <<server, stored, process, batch>>

PushSucceeds(w) ==
  /\ pc[w] = "push"
  /\ stored' = stored \cup Rows(batch[w])
  /\ Goto(w, "ack")
  /\ UNCHANGED <<server, process, batch, attempt>>

(* Fault: off by one. *)
AfterFailedPushOneMore(w, retryable) ==
  IF retryable /\ attempt[w] <= RetryAttempts THEN "attempt" ELSE "nack"

AfterFailedPush(w, retryable) ==
  IF retryable /\ attempt[w] < RetryAttempts THEN "attempt" ELSE "nack"

(* The push returned an error; the cluster may have stored rows of it.      *)
PushFails(w) ==
  /\ pc[w] = "push"
  /\ \E S \in SUBSET Rows(batch[w]) : stored' = stored \cup S
  /\ \E retryable \in BOOLEAN : Goto(w, AfterFailedPush(w, retryable))
  /\ UNCHANGED <<server, process, batch, attempt>>

(* handleWriteFailure: every valid message is handed back. *)
NackBatch(w) ==
  /\ pc[w] = "nack"
  /\ \E S \in SUBSET Valid(batch[w]) : Nak(S)
  /\ Finish(w)
  /\ UNCHANGED <<deliveries, stored, process>>

(* Fault: the messages that failed to parse are acknowledged with the rest. *)
AckBatchWhole(w) ==
  /\ pc[w] = "ack"
  /\ \E S \in SUBSET batch[w] : Ack(S)
  /\ Finish(w)
  /\ UNCHANGED <<deliveries, stored, process>>

(* AckFunc: every valid message; it too stops at the first error, and the   *)
(* messages whose ACK is lost will be delivered again.                      *)
AckBatch(w) ==
  /\ pc[w] = "ack"
  /\ \E S \in SUBSET Valid(batch[w]) : Ack(S)
  /\ Finish(w)
  /\ UNCHANGED <<deliveries, stored, process>>

-----------------------------------------------------------------------------
(* The process.                                                             *)

(* RunWithContext: a signal, an error in errCh or the caller's ctx. *)
Cancel ==
  /\ run = "up"
  /\ run' = "stopping"
  /\ UNCHANGED <<server, stored, fetcher, workCh, worker>>

Stopped ==
  /\ run' = "down"
  /\ fetcher' = [step |-> "exited", batch |-> {}]
  /\ workCh' = <<>>
  /\ pc' = [w \in Workers |-> "exited"]
  /\ batch' = [w \in Workers |-> {}]
  /\ attempt' = [w \in Workers |-> 0]
  /\ UNCHANGED <<server, stored>>

(* wg.Wait() returned. *)
Terminate ==
  /\ run = "stopping"
  /\ fetcher.step \in {"exited", "failed"}
  /\ \A w \in Workers : pc[w] = "exited"
  /\ Stopped

Crash ==
  /\ run # "down"
  /\ Stopped

Restart ==
  /\ run = "down"
  /\ run' = "up"
  /\ fetcher' = [step |-> "fetching", batch |-> {}]
  /\ pc' = [w \in Workers |-> "idle"]
  /\ UNCHANGED <<server, stored, workCh, batch, attempt>>

-----------------------------------------------------------------------------
WorkerStep(w) ==
  \/ Receive(w) \/ WorkerExit(w)
  \/ MergeFails(w) \/ Parse(w)
  \/ Refuse(w) \/ Admit(w)
  \/ AttemptCancelled(w) \/ Attempt(w)
  \/ PushSucceeds(w) \/ PushFails(w)
  \/ NackBatch(w) \/ AckBatch(w)

FetchStep ==
  \/ \E S \in SUBSET Messages : Fetch(S) \/ FetchNothing(S)
  \/ FetchGivesUp
  \/ Dispatch
  \/ DispatchCancelled

Next ==
  \/ \E m \in Messages : AckWaitExpires(m)
  \/ FetchStep
  \/ \E w \in Workers : WorkerStep(w)
  \/ Cancel \/ Terminate \/ Crash \/ Restart

Spec == Init /\ [][Next]_vars

-----------------------------------------------------------------------------
(* Types, of the process and of what it uses. *)
TypeOK ==
  /\ consumer \in [Messages -> Standings]
  /\ deliveries \in [Messages -> 0..MaxDeliver]
  /\ stored \in SUBSET Messages
  /\ run \in {"up", "stopping", "down"}
  /\ fetcher \in [step : FetchSteps, batch : SUBSET Messages]
  /\ workCh \in Seq(SUBSET Messages) /\ Len(workCh) <= WorkChCapacity
  /\ pc \in [Workers -> Steps]
  /\ batch \in [Workers -> SUBSET Messages]
  /\ attempt \in [Workers -> 0..RetryAttempts]

Acked == {m \in Messages : consumer[m] = "acked"}

Delivery == INSTANCE AtLeastOnce
  WITH Carrying <- Rows(Messages), Refused <- Messages \ Valid(Messages), settled <- Acked

(* The connector as a whole (fetchLoop, processBatchFromChannel,             *)
(* handleWriteFailure, ackMessages) delivers at least once: the rows of a    *)
(* message are in QuasarDB before an ACK of it, of whichever delivery, makes *)
(* the stream forget it, and a message that failed to parse is never ACKed,  *)
(* through redelivery, concurrent copies, failed pushes, stops and crashes.  *)
DeliversAtLeastOnce == Delivery!Spec

(* Shutdown (RunWithContext): once ctx is cancelled, or the fetch loop       *)
(* reported its fatal error, every goroutine returns and the process ends,   *)
(* also when workCh is full and the workers have gone.                       *)
ShutdownCompletes ==
  (run = "stopping" \/ fetcher.step = "failed") ~> run = "down"

(* Progress (processBatchFromChannel): if the process stays up in the end,   *)
(* every message that parses is acknowledged, whatever happened before and   *)
(* although messages that fail to parse come back for ever.                  *)
EverySettled ==
  <>[](run = "up") =>
    \A m \in Messages : ~Failed(m) => <>(consumer[m] = "acked")

-----------------------------------------------------------------------------
(* The inductive invariant behind the theorems of ConnectorProofs.           *)

(* A worker that is about to ACK has its rows stored. *)
ReadyToAck == \A w \in Workers : pc[w] = "ack" => Rows(batch[w]) \subseteq stored

AckedIsStored ==
  \A m \in Messages : consumer[m] = "acked" =>
    ~Failed(m) /\ (HasRows(m) => m \in stored)

(* A message waiting to be delivered, and a worker before an attempt, have   *)
(* not used up their number.                                                 *)
DeliveriesLeft ==
  \A m \in Messages :
    MaxDeliver # 0 /\ consumer[m] = "pending" => deliveries[m] < MaxDeliver

AttemptsLeft ==
  \A w \in Workers :
    /\ pc[w] \in {"idle", "parse", "write", "exited"} => attempt[w] = 0
    /\ pc[w] = "attempt" => attempt[w] < RetryAttempts

(* A process that is not running has no worker at work. *)
Halted == run = "down" => \A w \in Workers : pc[w] = "exited"

IInv ==
  /\ TypeOK
  /\ ReadyToAck
  /\ AckedIsStored
  /\ DeliveriesLeft
  /\ AttemptsLeft
  /\ Halted
=============================================================================
