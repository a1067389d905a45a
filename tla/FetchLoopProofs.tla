-------------------------- MODULE FetchLoopProofs --------------------------
(***************************************************************************)
(* The re-bind ladder of the fetch loop, for any length of the ladder and  *)
(* any interleaving with the health monitor, the server and a shutdown.    *)
(***************************************************************************)
EXTENDS FetchLoop, TLAPS

(* The ladder counts its attempts from 1; it waits for another one only as   *)
(* long as one is left, and its error is sent after the last one only.       *)
LadderBounded ==
  /\ attempt \in 0..RebindAttempts
  /\ step = "binding" => attempt > 0
  /\ step = "ladder" => attempt < RebindAttempts
  /\ step = "fatal" => attempt = RebindAttempts

(* errCh has room for what is in it and for the one error that each worker   *)
(* still starting, and a fetch loop still running, may send.                 *)
RoomToReport ==
  /\ {errCh, connecting, reporting} \subseteq Nat
  /\ errCh + connecting + reporting + (IF step = "exited" THEN 0 ELSE 1) <= ErrChCapacity

(* No goroutine that has an error to report finds errCh full. *)
SendsNeverBlock ==
  (step = "fatal" \/ reporting > 0) => errCh < ErrChCapacity

(* RebindingReported has to say what it says of the goroutine as long as it  *)
(* runs; that the senders not done yet are counted is what keeps errCh from  *)
(* filling up.                                                               *)
IInv == RebindingReported /\ LadderBounded /\ RoomToReport

(* A fetch loop as RunWithContext starts it. *)
LEMMA InitInv == Init => IInv
BY RebindAssumption DEF Init, IInv, RebindingReported, LadderBounded, RoomToReport, ErrChCapacity

(* The steps of the fetch goroutine: the condition is set on the way onto    *)
(* the ladder, cleared on the way back to the loop, and left alone by a      *)
(* goroutine that returns.                                                   *)
LEMMA LoopInv ==
  ASSUME IInv, LoopStep
  PROVE  IInv'
<1> USE RebindAssumption DEF IInv, RebindingReported, LadderBounded, RoomToReport, LoopTop, external,
         workers, ErrChCapacity
<1>1. CASE FetchSucceeds \/ FetchFails
  BY <1>1 DEF FetchSucceeds, FetchFails
<1>2. CASE FetchDead
  BY <1>2 DEF FetchDead
<1>3. CASE WaitOver \/ WaitCancelled
  BY <1>3 DEF WaitOver, WaitCancelled
<1>4. CASE RebindSucceeds \/ RecordRebind
  BY <1>4 DEF RebindSucceeds, RecordRebind
<1>5. CASE ClearRebinding
  BY <1>5 DEF ClearRebinding
<1>6. CASE RebindFails
  BY <1>6 DEF RebindFails
<1>7. CASE NextAttempt
  BY <1>7 DEF NextAttempt
<1>8. CASE SendFatal
  BY <1>8 DEF SendFatal
<1> QED
  BY <1>1, <1>2, <1>3, <1>4, <1>5, <1>6, <1>7, <1>8 DEF LoopStep

(* The steps of the others.  The monitor writes the same set of conditions,  *)
(* from what it read some steps ago, but only its own condition.             *)
LEMMA OthersInv ==
  ASSUME IInv,
         \/ SubscriptionDies \/ DurableCreated \/ FetchAges
         \/ MonitorStep \/ WorkerStep \/ ReadError \/ Signal \/ Done
  PROVE  IInv'
<1> USE RebindAssumption DEF IInv, RebindingReported, LadderBounded, RoomToReport, external,
         workers, ErrChCapacity
<1>1. CASE SubscriptionDies \/ DurableCreated \/ FetchAges
  BY <1>1 DEF SubscriptionDies, DurableCreated, FetchAges
<1>2. CASE ReadFetchAge \/ ReadRebinding \/ MonitorExits
  BY <1>2 DEF ReadFetchAge, ReadRebinding, MonitorExits
<1>3. CASE SetOrClear
  BY <1>3 DEF SetOrClear
<1>4. CASE ReadError \/ Signal
  BY <1>4 DEF ReadError, Signal
<1>5. CASE Done
  BY <1>5 DEF Done, vars
<1>6. CASE WorkerStep
  BY <1>6 DEF WorkerStep, WorkerConnects, WorkerFails, WorkerSends
<1> QED
  BY <1>1, <1>2, <1>3, <1>4, <1>5, <1>6 DEF MonitorStep

(* IInv is an invariant of the fetch loop. *)
THEOREM FetchLoopInvariant == Spec => []IInv
<1>1. IInv /\ UNCHANGED vars => IInv'
  BY DEF IInv, RebindingReported, LadderBounded, RoomToReport, ErrChCapacity, vars
<1>2. IInv /\ [Next]_vars => IInv'
  BY <1>1, LoopInv, OthersInv DEF Next
<1> QED
  BY <1>2, InitInv, PTL DEF Spec

(* rebindSubscription: however its steps and those of the health monitor     *)
(* interleave, /healthz shows condRebinding exactly while the fetch loop is  *)
(* on the ladder.                                                            *)
THEOREM RebindingIsReported == Spec => []RebindingReported
<1>1. IInv => RebindingReported
  BY DEF IInv
<1> QED
  BY <1>1, FetchLoopInvariant, PTL

(* rebindSubscription: a fatal error is sent only by a goroutine that has    *)
(* tried the whole ladder, and no attempt is made beyond it.                 *)
THEOREM FatalAfterWholeLadder == Spec => []LadderBounded
<1>1. IInv => LadderBounded
  BY DEF IInv
<1> QED
  BY <1>1, FetchLoopInvariant, PTL

(* RunWithContext: errCh never fills up before a goroutine that has an error *)
(* to send, although at most one error is ever read and a signal may have    *)
(* come first; so wg.Wait does not wait for a sender.                        *)
THEOREM ErrorsAreNeverHeldUp == Spec => []SendsNeverBlock
<1>1. IInv => SendsNeverBlock
  BY RebindAssumption DEF IInv, RoomToReport, SendsNeverBlock, ErrChCapacity
<1> QED
  BY <1>1, FetchLoopInvariant, PTL
=============================================================================
