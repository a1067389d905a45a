-------------------------- MODULE ConnectorProofs --------------------------
(***************************************************************************)
(* The connector delivers at least once, for any messages, workers, batch  *)
(* size, retry attempts and redelivery limit: Pipeline implements          *)
(* AtLeastOnce.  The inductive invariant is IInv of Pipeline.              *)
(*                                                                         *)
(* The composition of Connector.tla keeps what its two parts promise: it   *)
(* is a Pipeline whose breaker refuses for a reason, so what was proved of *)
(* Pipeline holds of it, and the breaker's invariant survives being driven *)
(* by the workers, being cancelled with them, and being built anew.        *)
(***************************************************************************)
EXTENDS Connector, FiniteSetTheorems, TLAPS

Shared == INSTANCE CircuitBreakerProofs WITH Callers <- Workers

-----------------------------------------------------------------------------
(* Pipeline on its own.                                                      *)

(* The work channel has room for a whole number of batches. *)
LEMMA CapacityIsNat == WorkChCapacity \in Nat
BY FS_CardinalityType, PipelineAssumption DEF WorkChCapacity

(* A process as it starts satisfies the invariant. *)
LEMMA InitInv == Init => IInv
BY CapacityIsNat, PipelineAssumption DEF Init, IInv, TypeOK, Standings, FetchSteps, Steps,
   ReadyToAck, AckedIsStored, DeliveriesLeft, AttemptsLeft, Halted

(* Steps of the JetStream consumer on its own. *)
LEMMA ServerInv ==
  ASSUME IInv, NEW m \in Messages, AckWaitExpires(m)
  PROVE  IInv'
BY PipelineAssumption DEF IInv, TypeOK, Standings, AckWaitExpires, Returned, process, worker,
   ReadyToAck, AckedIsStored, DeliveriesLeft, AttemptsLeft, Halted

(* Steps of the fetch loop: they touch neither what is stored nor what is    *)
(* acknowledged, and a delivery is counted only while it is allowed.         *)
LEMMA FetchInv ==
  ASSUME IInv, FetchStep
  PROVE  IInv'
<1> USE DEF IInv, TypeOK, process, server, worker, LoopTop
<1>1. ASSUME NEW S \in SUBSET Messages, Fetch(S) \/ FetchNothing(S)
      PROVE  IInv'
  <2>1. Deliver(S) /\ UNCHANGED <<stored, run, workCh, worker>>
    BY <1>1 DEF Fetch, FetchNothing
  <2>2. fetcher' \in [step : FetchSteps, batch : SUBSET Messages]
    BY <1>1 DEF Fetch, FetchNothing, FetchSteps
  <2>3. deliveries' \in [Messages -> 0..MaxDeliver] /\ consumer' \in [Messages -> Standings]
    BY <2>1, PipelineAssumption DEF Deliver, Standings, DeliveriesLeft
  <2>4. TypeOK'
    BY <2>1, <2>2, <2>3
  <2>5. ReadyToAck' /\ AckedIsStored' /\ DeliveriesLeft' /\ AttemptsLeft' /\ Halted'
    BY <2>1, PipelineAssumption
       DEF Deliver, ReadyToAck, AckedIsStored, DeliveriesLeft, AttemptsLeft, Halted
  <2> QED
    BY <2>4, <2>5
<1>2. CASE FetchGivesUp \/ DispatchCancelled
  BY <1>2 DEF FetchGivesUp, DispatchCancelled, FetchSteps, ReadyToAck, AckedIsStored,
     DeliveriesLeft, AttemptsLeft, Halted
<1>3. CASE Dispatch
  BY <1>3, CapacityIsNat DEF Dispatch, FetchSteps, ReadyToAck, AckedIsStored,
     DeliveriesLeft, AttemptsLeft, Halted
<1> QED
  BY <1>1, <1>2, <1>3 DEF FetchStep

(* Steps of a worker, one per action.  Only AckBatch acknowledges, and only  *)
(* a worker whose rows were all stored (ReadyToAck) gets there.              *)
LEMMA WorkerInv ==
  ASSUME IInv, NEW w \in Workers, WorkerStep(w)
  PROVE  IInv'
<1> USE PipelineAssumption DEF IInv, TypeOK, Steps, Goto, process, server, worker,
    ReadyToAck, AckedIsStored, DeliveriesLeft, AttemptsLeft, Halted
<1>1. CASE Receive(w)
  <2>1. Head(workCh) \in SUBSET Messages /\ Tail(workCh) \in Seq(SUBSET Messages)
        /\ Len(Tail(workCh)) <= WorkChCapacity
    BY <1>1, CapacityIsNat DEF Receive
  <2>2. TypeOK'
    BY <1>1, <2>1 DEF Receive
  <2>3. ReadyToAck' /\ AckedIsStored' /\ DeliveriesLeft' /\ AttemptsLeft' /\ Halted'
    BY <1>1 DEF Receive
  <2> QED
    BY <2>2, <2>3
<1>2. CASE WorkerExit(w)
  BY <1>2 DEF WorkerExit
<1>3. CASE MergeFails(w)
  BY <1>3 DEF MergeFails, Finish
<1>4. CASE Parse(w)
  <2>1. PICK S \in SUBSET (batch[w] \ Valid(batch[w])) : Nak(S)
    BY <1>4 DEF Parse
  <2>2. /\ consumer' \in [Messages -> Standings]
        /\ AckedIsStored' /\ DeliveriesLeft'
    BY <1>4, <2>1 DEF Parse, Nak, Returned, Standings
  <2>3. /\ pc' \in [Workers -> Steps]
        /\ batch' \in [Workers -> SUBSET Messages]
        /\ attempt' \in [Workers -> 0..RetryAttempts]
        /\ AttemptsLeft' /\ Halted'
    <3>1. CASE UNCHANGED <<batch, attempt>> /\ (Goto(w, "write") \/ Goto(w, "ack"))
      BY <1>4, <3>1 DEF Parse
    <3>2. CASE Finish(w)
      BY <1>4, <3>2 DEF Parse, Finish
    <3> QED
      BY <1>4, <3>1, <3>2 DEF Parse
  <2>4. ReadyToAck'
    BY <1>4 DEF Parse, Finish
  <2> QED
    BY <1>4, <2>2, <2>3, <2>4 DEF Parse
<1>5. CASE Refuse(w)
  BY <1>5 DEF Refuse
<1>6. CASE Admit(w)
  BY <1>6 DEF Admit
<1>7. CASE AttemptCancelled(w)
  BY <1>7 DEF AttemptCancelled
<1>8. CASE Attempt(w)
  BY <1>8 DEF Attempt
<1>9. CASE PushSucceeds(w)
  BY <1>9 DEF PushSucceeds, Rows
<1>10. CASE PushFails(w)
  BY <1>10 DEF PushFails, Rows, AfterFailedPush
<1>11. CASE NackBatch(w)
  BY <1>11 DEF NackBatch, Nak, Returned, Finish, Valid, Standings
<1>12. CASE AckBatch(w)
  BY <1>12 DEF AckBatch, Ack, Finish, Valid, Rows, Standings
<1> QED
  BY <1>1, <1>2, <1>3, <1>4, <1>5, <1>6, <1>7, <1>8, <1>9, <1>10, <1>11, <1>12 DEF WorkerStep

(* Cancellation, the end of the process by itself or by a crash, restart:     *)
(* what the process held in memory is gone, which only makes workers idle.   *)
LEMMA ProcessInv ==
  ASSUME IInv, Cancel \/ Terminate \/ Crash \/ Restart
  PROVE  IInv'
<1> USE PipelineAssumption, CapacityIsNat
    DEF IInv, TypeOK, Steps, FetchSteps, process, server, worker,
    ReadyToAck, AckedIsStored, DeliveriesLeft, AttemptsLeft, Halted
<1>1. CASE Cancel
  BY <1>1 DEF Cancel
<1>2. CASE Terminate \/ Crash
  <2>1. Stopped
    BY <1>2 DEF Terminate, Crash
  <2>2. TypeOK'
    BY <2>1 DEF Stopped
  <2>3. ReadyToAck' /\ AckedIsStored' /\ DeliveriesLeft' /\ AttemptsLeft' /\ Halted'
    BY <2>1 DEF Stopped
  <2> QED
    BY <2>2, <2>3
<1>3. CASE Restart
  BY <1>3 DEF Restart
<1> QED
  BY <1>1, <1>2, <1>3

(* IInv holds of every reachable state. *)
THEOREM Invariance == Spec => []IInv
<1>1. IInv /\ UNCHANGED vars => IInv'
  BY DEF vars, IInv, TypeOK, ReadyToAck, AckedIsStored, DeliveriesLeft, AttemptsLeft, Halted
<1>2. IInv /\ [Next]_vars => IInv'
  BY <1>1, ServerInv, FetchInv, WorkerInv, ProcessInv DEF Next
<1> QED
  BY <1>2, InitInv, PTL DEF Spec

(* Every variable of the process keeps its type: no message is delivered     *)
(* more than MaxDeliver times, no write is tried more than RetryAttempts     *)
(* times and workCh never holds more than two batches per worker.            *)
THEOREM TypeCorrect == Spec => []TypeOK
<1>1. IInv => TypeOK
  BY DEF IInv
<1> QED
  BY <1>1, Invariance, PTL

(* The worker's steps, seen from AtLeastOnce. *)
LEMMA WorkerRefines ==
  ASSUME IInv, NEW w \in Workers, WorkerStep(w)
  PROVE  [Delivery!Next]_(Delivery!vars)
<1> USE DEF IInv, TypeOK, Standings, process, server, worker
<1>1. CASE PushSucceeds(w) \/ PushFails(w)
  <2>1. PICK S \in SUBSET Rows(batch[w]) : stored' = stored \cup S
    BY <1>1 DEF PushSucceeds, PushFails
  <2>2. S \in SUBSET Rows(Messages)
    BY <2>1 DEF Rows
  <2>3. Acked' = Acked
    BY <1>1 DEF PushSucceeds, PushFails, Acked
  <2> QED
    BY <2>1, <2>2, <2>3 DEF Delivery!Next, Delivery!Store
<1>2. CASE AckBatch(w)
  <2>1. PICK S \in SUBSET Valid(batch[w]) : Ack(S)
    BY <1>2 DEF AckBatch
  <2> DEFINE T == {m \in S : consumer[m] # "dead"}
  <2>2. T \in SUBSET (Messages \ (Messages \ Valid(Messages)))
    BY <2>1 DEF Valid
  <2>3. T \cap Rows(Messages) \subseteq stored
    BY <1>2, <2>1 DEF Valid, Rows, ReadyToAck, AckBatch
  <2>4. Acked' = Acked \cup T
    BY <2>1 DEF Ack, Acked, Valid
  <2>5. UNCHANGED stored
    BY <1>2 DEF AckBatch
  <2> QED
    BY <2>2, <2>3, <2>4, <2>5 DEF Delivery!Next, Delivery!Settle
<1>3. CASE Parse(w) \/ NackBatch(w)
  <2>1. PICK S \in SUBSET Messages : Nak(S)
    BY <1>3 DEF Parse, NackBatch, Valid
  <2>2. Acked' = Acked
    BY <2>1 DEF Nak, Returned, Acked
  <2>3. UNCHANGED stored
    BY <1>3 DEF Parse, NackBatch
  <2> QED
    BY <2>2, <2>3 DEF Delivery!vars
<1>4. CASE Receive(w) \/ WorkerExit(w) \/ MergeFails(w) \/ Refuse(w) \/ Admit(w)
           \/ AttemptCancelled(w) \/ Attempt(w)
  BY <1>4 DEF Receive, WorkerExit, MergeFails, Refuse, Admit, AttemptCancelled, Attempt,
     Acked, Delivery!vars
<1> QED
  BY <1>1, <1>2, <1>3, <1>4 DEF WorkerStep

(* The steps of the consumer, the fetch loop and the process are not steps   *)
(* of AtLeastOnce.                                                           *)
LEMMA OthersStutter ==
  ASSUME IInv, \/ \E m \in Messages : AckWaitExpires(m)
               \/ FetchStep
               \/ Cancel \/ Terminate \/ Crash \/ Restart
  PROVE  UNCHANGED Delivery!vars
<1> USE DEF IInv, TypeOK, process, server, worker, Acked, Delivery!vars
<1>1. CASE \E m \in Messages : AckWaitExpires(m)
  BY <1>1 DEF AckWaitExpires, Returned
<1>2. ASSUME NEW S \in SUBSET Messages, Fetch(S) \/ FetchNothing(S)
      PROVE  UNCHANGED Delivery!vars
  BY <1>2 DEF Fetch, FetchNothing, Deliver
<1>3. CASE FetchGivesUp \/ Dispatch \/ DispatchCancelled
  BY <1>3 DEF FetchGivesUp, Dispatch, DispatchCancelled
<1>4. CASE Cancel \/ Terminate \/ Crash \/ Restart
  BY <1>4 DEF Cancel, Terminate, Crash, Restart, Stopped
<1> QED
  BY <1>1, <1>2, <1>3, <1>4 DEF FetchStep

(* The connector implements AtLeastOnce: no ACK of any delivery reaches the  *)
(* stream before the rows of its message reached the cluster.                *)
THEOREM AtLeastOnceImplemented == Spec => DeliversAtLeastOnce
<1>1. Init => Delivery!Init
  BY DEF Init, Delivery!Init, Acked
<1>2. IInv /\ [Next]_vars => [Delivery!Next]_(Delivery!vars)
  <2>1. IInv /\ UNCHANGED vars => UNCHANGED Delivery!vars
    BY DEF vars, Delivery!vars, Acked
  <2> QED
    BY <2>1, WorkerRefines, OthersStutter DEF Next
<1> QED
  BY <1>1, <1>2, Invariance, PTL DEF Spec, DeliversAtLeastOnce, Delivery!Spec

-----------------------------------------------------------------------------
(* The pipeline of the composition.                                          *)

(* Each step of the composition is a step of Pipeline, or of the breaker     *)
(* alone.                                                                    *)
LEMMA StepsOfPipeline ==
  ASSUME ConnectorNext
  PROVE  [Next]_vars
<1>1. ASSUME NEW w \in Workers, ConnectorWorkerStep(w) PROVE WorkerStep(w)
  BY <1>1 DEF ConnectorWorkerStep, Execute, ExecuteRefused, ExecuteAdmitted, ExecuteSucceeds,
     ExecuteFails, ExecuteCancelled, OutsideExecute, WorkerStep
<1>2. CASE StepOutsideWorkers
  BY <1>2 DEF StepOutsideWorkers, Next
<1>3. CASE Breaker!Tick /\ UNCHANGED vars
  BY <1>3
<1>4. CASE Supervised \/ Crash
  BY <1>4 DEF Supervised, Next
<1>5. CASE \E w \in Workers : ConnectorWorkerStep(w)
  BY <1>1, <1>5 DEF Next
<1> QED
  BY <1>2, <1>3, <1>4, <1>5 DEF ConnectorNext

(* The composition implements Pipeline: whatever was shown of workers that   *)
(* a breaker may refuse at will holds of workers that this breaker refuses.  *)
THEOREM ConnectorIsPipeline == ConnectorSpec => Spec
<1>1. ConnectorInit => Init
  BY DEF ConnectorInit
<1>2. [ConnectorNext]_connector => [Next]_vars
  BY StepsOfPipeline DEF connector
<1> QED
  BY <1>1, <1>2, PTL DEF ConnectorSpec, Spec

(* The connector with its breaker delivers at least once: a write that the   *)
(* breaker refused, or that was cancelled, is never acknowledged.            *)
THEOREM ConnectorDeliversAtLeastOnce == ConnectorSpec => DeliversAtLeastOnce
BY ConnectorIsPipeline, AtLeastOnceImplemented

-----------------------------------------------------------------------------
(* The breaker of the composition.                                           *)

(* The thresholds of the shared breaker are those its own proofs assume. *)
LEMMA ThresholdsAsAssumed == Shared!BreakerAssumption
<1>1. Shared!IsFiniteSet(Workers)
  BY PipelineAssumption DEF IsFiniteSet, Shared!IsFiniteSet
<1>2. /\ Workers # {}
      /\ FailureThreshold \in Nat \ {0} /\ HalfOpenBase \in Nat \ {0}
      /\ HalfOpenMax \in Nat /\ MaxInt64 \in Nat /\ CounterCap \in Nat
      /\ HalfOpenMax = 0 \/ HalfOpenMax >= HalfOpenBase
      /\ MaxInt64 >= HalfOpenMax /\ MaxInt64 >= HalfOpenBase
      /\ CounterCap >= FailureThreshold /\ CounterCap >= 2 * MaxInt64
  BY PipelineAssumption, ConnectorAssumption
<1> QED
  BY <1>1, <1>2

(* The breaker the workers drive is the one CircuitBreakerProofs is about.   *)
LEMMA SameBreaker ==
  /\ \A w \in Workers :
       /\ Breaker!Admit(w) => Shared!Admit(w)
       /\ Breaker!Reject(w) => Shared!Reject(w)
       /\ \A u \in BOOLEAN : Breaker!RecordResult(w, u) => Shared!RecordResult(w, u)
  /\ Breaker!Tick => Shared!Tick
  /\ Breaker!Init => Shared!Init
<1> USE DEF Breaker!Aged, Shared!Aged, Breaker!Enters, Shared!Enters,
    Breaker!ShouldTransitionToHalfOpen, Shared!ShouldTransitionToHalfOpen,
    Breaker!UpdateState, Shared!UpdateState, Breaker!TransitionTo, Shared!TransitionTo,
    Breaker!UpdateHalfOpenState, Shared!UpdateHalfOpenState,
    Breaker!ProgressToNextLevel, Shared!ProgressToNextLevel,
    Breaker!ResetHalfOpen, Shared!ResetHalfOpen, Breaker!Doubled, Shared!Doubled
<1>1. ASSUME NEW w \in Workers, Breaker!Admit(w) PROVE Shared!Admit(w)
  BY <1>1 DEF Breaker!Admit, Shared!Admit, Breaker!Admits, Shared!Admits,
     Breaker!CanProceedHalfOpen, Shared!CanProceedHalfOpen,
     Breaker!Claim, Shared!Claim, Breaker!TicketFor, Shared!TicketFor
<1>2. ASSUME NEW w \in Workers, Breaker!Reject(w) PROVE Shared!Reject(w)
  BY <1>2 DEF Breaker!Reject, Shared!Reject, Breaker!Admits, Shared!Admits,
     Breaker!CanProceedHalfOpen, Shared!CanProceedHalfOpen
<1>3. ASSUME NEW w \in Workers, NEW u \in BOOLEAN, Breaker!RecordResult(w, u)
      PROVE  Shared!RecordResult(w, u)
  BY <1>3 DEF Breaker!RecordResult, Shared!RecordResult, Breaker!Record, Shared!Record,
     Breaker!ReleaseSlot, Shared!ReleaseSlot, Breaker!OnFailure, Shared!OnFailure,
     Breaker!OnSuccess, Shared!OnSuccess, Breaker!Incr, Shared!Incr
<1>4. Breaker!Tick => Shared!Tick
  BY DEF Breaker!Tick, Shared!Tick
<1>5. Breaker!Init => Shared!Init
  BY DEF Breaker!Init, Shared!Init
<1> QED
  BY <1>1, <1>2, <1>3, <1>4, <1>5

(* A breaker that was just built satisfies its invariant. *)
LEMMA NewBreakerInv ==
  ASSUME NewBreaker
  PROVE  Shared!IInv'
<1> USE ThresholdsAsAssumed
<1>1. cb' \in Shared!Breaker /\ cb'.state = "closed" /\ cb'.failures = 0
  BY DEF NewBreaker, Shared!Breaker, Shared!States, Shared!Ages
<1>2. ticket' \in [Workers -> Shared!Tickets]
  BY DEF NewBreaker, Shared!Tickets
<1> QED
  BY <1>1, <1>2 DEF NewBreaker, Shared!IInv, Shared!TypeOK, Shared!Settled,
     Shared!FailuresAreEvidence, Shared!LadderClimbed, Shared!SlotAccounting, Shared!SlotsBounded

(* Steps that leave the breaker alone. *)
LEMMA SharedStutter ==
  ASSUME Shared!IInv, UNCHANGED breaker
  PROVE  Shared!IInv'
<1>1. Shared!Breaker' = Shared!Breaker /\ Shared!Holders' = Shared!Holders
  BY DEF breaker, Shared!Holders
<1> QED
  BY <1>1 DEF breaker, Shared!IInv, Shared!TypeOK, Shared!Settled, Shared!Holders,
     Shared!FailuresAreEvidence, Shared!LadderClimbed, Shared!SlotAccounting, Shared!SlotsBounded

-----------------------------------------------------------------------------
(* The two together.                                                         *)

(* InFlightIsTicketed is not inductive by itself: that Restart finds no      *)
(* ticket needs Halted, of the pipeline's invariant, and that a ticket is    *)
(* a function on the workers needs the breaker's.                            *)
ConnectorIInv == IInv /\ Shared!IInv /\ InFlightIsTicketed

InFlight(w) == pc[w] \in {"attempt", "push"}

(* What the critical sections of the breaker do to the tickets of others:    *)
(* they may age, and none is taken or lost.                                  *)
LEMMA OthersKeepTickets ==
  ASSUME NEW b, Shared!TypeOK
  PROVE  /\ Breaker!Aged(b, ticket) = [w \in Workers |-> Breaker!Aged(b, ticket)[w]]
         /\ \A w \in Workers : Breaker!Aged(b, ticket)[w] = "idle" <=> ticket[w] = "idle"
BY DEF Breaker!Aged, Shared!TypeOK

(* An admission gives its worker a ticket, and no other. *)
LEMMA AdmitTakesTicket ==
  ASSUME Shared!TypeOK, NEW w \in Workers, Breaker!Admit(w)
  PROVE  /\ ticket'[w] # "idle"
         /\ \A v \in Workers \ {w} : ticket'[v] = "idle" <=> ticket[v] = "idle"
<1>1. PICK t \in Breaker!ShouldTransitionToHalfOpen(cb) :
        /\ Breaker!Admits(Breaker!UpdateState(cb, t))
        /\ ticket' = [Breaker!Aged(Breaker!UpdateState(cb, t), ticket)
                        EXCEPT ![w] = Breaker!TicketFor(Breaker!UpdateState(cb, t))]
  BY DEF Breaker!Admit
<1>2. PICK b : b = Breaker!UpdateState(cb, t)
  OBVIOUS
<1>3. Breaker!TicketFor(b) # "idle"
  BY <1>1, <1>2 DEF Breaker!Admits, Breaker!TicketFor
<1> QED
  BY <1>1, <1>2, <1>3, OthersKeepTickets

(* A refusal gives and takes no ticket. *)
LEMMA RejectTakesNone ==
  ASSUME Shared!TypeOK, NEW w \in Workers, Breaker!Reject(w)
  PROVE  \A v \in Workers : ticket'[v] = "idle" <=> ticket[v] = "idle"
<1>1. PICK b : ticket' = Breaker!Aged(b, ticket)
  BY DEF Breaker!Reject
<1> QED
  BY <1>1, OthersKeepTickets

(* A result takes back the ticket of its worker, and no other. *)
LEMMA ResultReturnsTicket ==
  ASSUME Shared!TypeOK, NEW w \in Workers, NEW u \in BOOLEAN, Breaker!RecordResult(w, u)
  PROVE  /\ ticket'[w] = "idle"
         /\ \A v \in Workers \ {w} : ticket'[v] = "idle" <=> ticket[v] = "idle"
<1>1. PICK b : ticket' = [Breaker!Aged(b, ticket) EXCEPT ![w] = "idle"]
  BY DEF Breaker!RecordResult
<1> QED
  BY <1>1, OthersKeepTickets

(* A worker's write is in flight exactly between canProceed and              *)
(* recordResult.                                                             *)
LEMMA ExecuteKeepsInv ==
  ASSUME IInv, Shared!IInv, InFlightIsTicketed, NEW w \in Workers, Execute(w)
  PROVE  Shared!IInv' /\ InFlightIsTicketed'
<1> USE ThresholdsAsAssumed
<1>0. Shared!TypeOK /\ pc \in [Workers -> Steps]
  BY DEF Shared!IInv, IInv, TypeOK
<1>1. CASE ExecuteRefused(w)
  <2>1. Shared!IInv'
    BY <1>1, SameBreaker, Shared!RejectStep DEF ExecuteRefused
  <2>2. \A v \in Workers : ticket'[v] = "idle" <=> ticket[v] = "idle"
    BY <1>0, <1>1, RejectTakesNone DEF ExecuteRefused
  <2>3. \A v \in Workers : InFlight(v)' <=> InFlight(v)
    BY <1>0, <1>1 DEF ExecuteRefused, Refuse, Goto, InFlight
  <2> QED
    BY <2>1, <2>2, <2>3 DEF InFlightIsTicketed, InFlight
<1>2. CASE ExecuteAdmitted(w)
  <2>1. Shared!IInv'
    BY <1>2, SameBreaker, Shared!AdmitStep DEF ExecuteAdmitted
  <2>2. /\ ticket'[w] # "idle"
        /\ \A v \in Workers \ {w} : ticket'[v] = "idle" <=> ticket[v] = "idle"
    BY <1>0, <1>2, AdmitTakesTicket DEF ExecuteAdmitted
  <2>3. /\ InFlight(w)'
        /\ \A v \in Workers \ {w} : InFlight(v)' <=> InFlight(v)
    BY <1>0, <1>2 DEF ExecuteAdmitted, Admit, Goto, InFlight
  <2> QED
    BY <2>1, <2>2, <2>3 DEF InFlightIsTicketed, InFlight
<1>3. ASSUME NEW u \in BOOLEAN, Breaker!RecordResult(w, u), pc' = [pc EXCEPT ![w] = "ack"]
                                                     \/ pc' = [pc EXCEPT ![w] = "nack"]
      PROVE  Shared!IInv' /\ InFlightIsTicketed'
  <2>1. Shared!RecordResult(w, TRUE) \/ Shared!RecordResult(w, FALSE)
    BY <1>3, SameBreaker
  <2>2. Shared!IInv'
    BY <2>1, Shared!FailureStep, Shared!SuccessStep
  <2>3. /\ ticket'[w] = "idle"
        /\ \A v \in Workers \ {w} : ticket'[v] = "idle" <=> ticket[v] = "idle"
    BY <1>0, <1>3, ResultReturnsTicket
  <2>4. /\ ~InFlight(w)'
        /\ \A v \in Workers \ {w} : InFlight(v)' <=> InFlight(v)
    BY <1>0, <1>3 DEF InFlight
  <2> QED
    BY <2>2, <2>3, <2>4 DEF InFlightIsTicketed, InFlight
<1>4. CASE ExecuteSucceeds(w)
  BY <1>3, <1>4 DEF ExecuteSucceeds, PushSucceeds, Goto
<1>5. CASE ExecuteCancelled(w)
  BY <1>3, <1>5 DEF ExecuteCancelled, AttemptCancelled, Goto
<1>6. CASE ExecuteFails(w) /\ pc'[w] = "nack"
  <2>1. pc' = [pc EXCEPT ![w] = "nack"]
    BY <1>0, <1>6 DEF ExecuteFails, PushFails, Goto, AfterFailedPush
  <2>2. PICK u \in BOOLEAN : Breaker!RecordResult(w, u)
    BY <1>6 DEF ExecuteFails
  <2> QED
    BY <1>3, <2>1, <2>2
<1>7. CASE ExecuteFails(w) /\ pc'[w] # "nack"
  <2>1. pc[w] = "push" /\ pc' = [pc EXCEPT ![w] = "attempt"] /\ UNCHANGED breaker
    BY <1>0, <1>7 DEF ExecuteFails, PushFails, Goto, AfterFailedPush
  <2>2. Shared!IInv'
    BY <2>1, SharedStutter
  <2> QED
    BY <1>0, <2>1, <2>2 DEF InFlightIsTicketed, breaker
<1> QED
  BY <1>1, <1>2, <1>4, <1>5, <1>6, <1>7 DEF Execute

(* The rest of a worker's steps neither begin nor end a write. *)
LEMMA OutsideExecuteKeepsInv ==
  ASSUME IInv, Shared!IInv, InFlightIsTicketed, NEW w \in Workers, OutsideExecute(w)
  PROVE  Shared!IInv' /\ InFlightIsTicketed'
<1>1. UNCHANGED breaker /\ pc \in [Workers -> Steps]
  BY DEF OutsideExecute, IInv, TypeOK
<1>2. \A v \in Workers : InFlight(v)' <=> InFlight(v)
  BY <1>1 DEF OutsideExecute, Receive, WorkerExit, MergeFails, Parse, Attempt, NackBatch, AckBatch,
     Finish, Goto, InFlight
<1>3. Shared!IInv'
  BY <1>1, SharedStutter
<1> QED
  BY <1>1, <1>2, <1>3 DEF InFlightIsTicketed, InFlight, breaker

(* Neither do the fetch loop, the server and time; a process that ends, in   *)
(* whichever way, takes its breaker with it.                                 *)
LEMMA ProcessKeepsInv ==
  ASSUME IInv, Shared!IInv, InFlightIsTicketed,
         \/ StepOutsideWorkers
         \/ Breaker!Tick /\ UNCHANGED vars
         \/ Crash /\ NewBreaker
         \/ Supervised
  PROVE  Shared!IInv' /\ InFlightIsTicketed'
<1>1. CASE StepOutsideWorkers
  <2>1. UNCHANGED breaker
    BY <1>1 DEF StepOutsideWorkers
  <2>2. UNCHANGED pc
    BY <1>1 DEF StepOutsideWorkers, AckWaitExpires, FetchStep, Fetch, FetchNothing, FetchGivesUp,
       Dispatch, DispatchCancelled, Cancel, worker
  <2>3. Shared!IInv'
    BY <2>1, SharedStutter
  <2> QED
    BY <2>1, <2>2, <2>3 DEF InFlightIsTicketed, breaker
<1>2. CASE Breaker!Tick /\ UNCHANGED vars
  <2>1. Shared!Tick /\ UNCHANGED <<ticket, pc>>
    BY <1>2, SameBreaker DEF Breaker!Tick, vars
  <2>2. Shared!IInv'
    BY <2>1, ThresholdsAsAssumed, Shared!TickStep
  <2> QED
    BY <2>1, <2>2 DEF InFlightIsTicketed
<1>3. CASE (Crash \/ Terminate) /\ NewBreaker
  <2>1. Shared!IInv'
    BY <1>3, NewBreakerInv
  <2> QED
    BY <1>3, <2>1 DEF Crash, Terminate, Stopped, NewBreaker, InFlightIsTicketed
<1>4. CASE Restart /\ UNCHANGED breaker
  <2>1. Shared!IInv'
    BY <1>4, SharedStutter
  <2>2. \A w \in Workers : pc[w] = "exited"
    BY <1>4 DEF Restart, IInv, Halted
  <2> QED
    BY <1>4, <2>1, <2>2 DEF Restart, InFlightIsTicketed, breaker
<1> QED
  BY <1>1, <1>2, <1>3, <1>4 DEF Supervised

(* The joint invariant holds of the connector with its breaker. *)
THEOREM ConnectorInvariant == ConnectorSpec => []ConnectorIInv
<1>1. ConnectorInit => Shared!IInv /\ InFlightIsTicketed
  <2>1. ConnectorInit => Shared!IInv
    BY ThresholdsAsAssumed, SameBreaker, Shared!InitIInv DEF ConnectorInit
  <2> QED
    BY <2>1 DEF ConnectorInit, Init, Breaker!Init, InFlightIsTicketed
<1>2. IInv /\ Shared!IInv /\ InFlightIsTicketed /\ [ConnectorNext]_connector
        => Shared!IInv' /\ InFlightIsTicketed'
  <2>1. IInv /\ Shared!IInv /\ InFlightIsTicketed /\ UNCHANGED connector
          => Shared!IInv' /\ InFlightIsTicketed'
    BY SharedStutter DEF connector, breaker, vars, InFlightIsTicketed
  <2> QED
    BY <2>1, ExecuteKeepsInv, OutsideExecuteKeepsInv, ProcessKeepsInv
    DEF ConnectorNext, ConnectorWorkerStep
<1> QED
  BY <1>1, <1>2, ConnectorIsPipeline, Invariance, PTL DEF ConnectorSpec, ConnectorIInv

(* Execute pairs canProceed with recordResult on every way out of a write,   *)
(* for any number of workers: no slot of a half-open period leaks.           *)
THEOREM WritesInFlightAreTicketed == ConnectorSpec => []InFlightIsTicketed
BY ConnectorInvariant, PTL DEF ConnectorIInv

(* The half-open slots that the shared breaker counts as taken, driven by    *)
(* the workers and not by arbitrary callers, are the writes of this period   *)
(* that are in flight, less the slots that writes of other periods gave      *)
(* back, and are bounded by the level plus these.                            *)
THEOREM SharedBreakerAccounts == ConnectorSpec => [](Breaker!SlotAccounting /\ Breaker!AdmissionBound)
<1>1. Shared!IInv => Breaker!SlotAccounting /\ Breaker!AdmissionBound
  <2> SUFFICES ASSUME Shared!IInv PROVE Breaker!SlotAccounting /\ Breaker!AdmissionBound
    OBVIOUS
  <2>1. Breaker!Holders = Shared!Holders
    BY DEF Breaker!Holders, Shared!Holders
  <2>2. Breaker!Cardinality(Breaker!Holders) = Shared!Cardinality(Shared!Holders)
    BY <2>1 DEF Breaker!Cardinality, Shared!Cardinality
  <2>3. Shared!Cardinality(Shared!Holders) \in Nat
    BY ThresholdsAsAssumed, Shared!HoldersFinite
  <2> QED
    BY <2>2, <2>3, ThresholdsAsAssumed DEF Shared!IInv, Shared!TypeOK, Shared!Breaker,
       Shared!SlotAccounting, Shared!SlotsBounded, Breaker!SlotAccounting, Breaker!AdmissionBound
<1> QED
  BY <1>1, ConnectorInvariant, PTL DEF ConnectorIInv
=============================================================================
