--------------------------- MODULE WatchdogProofs ---------------------------
(***************************************************************************)
(* The liveness probes tell a blocked goroutine from a busy one, and a     *)
(* blocked one gets the process killed in time, for any number of workers  *)
(* and any thresholds, intervals and timeouts that satisfy                 *)
(* WatchdogAssumption.                                                     *)
(***************************************************************************)
EXTENDS Watchdog, FiniteSetTheorems, TLAPS

Stages == {NoStage, "fetch", "dispatch", "process"}
ProbeState == [stage : Stages, age : Nat]
FetchState == [step : {"fetching", "dispatching", "resting"}, left : Nat]
WorkState == [step : {"idle", "pushing", "waiting", "wedged"}, left : Nat,
              attempt : Nat, backoff : 0..RetryMax]

TypeOK ==
  /\ probe \in [Owners -> ProbeState]
  /\ fetch \in FetchState
  /\ depth \in Nat
  /\ work \in [Workers -> WorkState]
  /\ stuck \subseteq Owners
  /\ evalDue \in 0..MonitorInterval
  /\ petDue \in 0..PetInterval
  /\ petAge \in 0..WatchdogTimeout + 1

(* The age of a stage and what is left of the call or the sleep in it never  *)
(* exceed the length of that one call or sleep together, because progress is *)
(* reported before and after every sleep; a stage that is not probed has no  *)
(* age.  A wedged push keeps its stage.                                      *)
WorkerInTime(p, t) ==
  /\ t.step = "idle" => p.stage = NoStage /\ p.age = 0
  /\ t.step # "idle" => p.stage = "process"
  /\ t.step \in {"pushing", "waiting"} => p.age + t.left <= Span(t)

FetchInTime(p, t) ==
  /\ t.step = "resting" => p.stage = NoStage /\ p.age = 0
  /\ t.step = "dispatching" => p.stage = "dispatch"
  /\ t.step = "fetching" => p.stage = "fetch" /\ p.age + t.left <= FetchTime + Latency

InTime ==
  /\ \A w \in Workers : WorkerInTime(probe[w], work[w])
  /\ FetchInTime(probe[FetchLoop], fetch)

(* A stage past the threshold that is not reported yet is reported at the    *)
(* next evaluation, within an interval of the monitor ...                    *)
ReportedInTime ==
  \A o \in Owners \ stuck :
    \/ probe[o].age <= StuckThreshold
    \/ probe[o].age + evalDue <= StuckThreshold + MonitorInterval

(* ... and while one is reported, systemd gets no pet. *)
NoPetWhileReported ==
  \A o \in stuck : probe[o].age <= StuckThreshold + MonitorInterval + petAge

(* Where backoffs and pushes fit the threshold, a worker that was reported   *)
(* and is not wedged is past the threshold by as long as the report is old,  *)
(* or it has reported progress since.                                        *)
ClearedNext(p) ==
  \/ p.age + evalDue > StuckThreshold + MonitorInterval
  \/ p.age + evalDue <= MonitorInterval

ReportsClear ==
  SpansFit => \A w \in Workers \cap stuck : work[w].step = "wedged" \/ ClearedNext(probe[w])

IInv ==
  /\ TypeOK
  /\ InTime
  /\ ReportsClear
  /\ ReportedInTime /\ NoPetWhileReported

-----------------------------------------------------------------------------
(* The constants are natural numbers, and so are the bounds made of them. *)
LEMMA Constants ==
  /\ StuckThreshold \in Nat \ {0} /\ MonitorInterval \in Nat \ {0} /\ PetInterval \in Nat \ {0}
  /\ RetryBase \in 0..RetryMax /\ RetryMax \in Nat
  /\ FetchTime \in Nat /\ RestTime \in Nat /\ PushTime \in Nat /\ Latency \in Nat
  /\ WatchdogTimeout \in Nat /\ WatchdogTimeout = 2 * PetInterval
  /\ KillBound \in Nat /\ KillBound = StuckThreshold + MonitorInterval + WatchdogTimeout + 1
  /\ FetchLoop \notin Workers
  /\ NoStage \notin {"fetch", "dispatch", "process"}
<1>1. NoStage \notin {"fetch", "dispatch", "process"}
  BY Zenon DEF NoStage
<1> QED
  BY <1>1, WatchdogAssumption DEF WatchdogTimeout, KillBound

(* What the goroutines look like as they start. *)
LEMMA Start ==
  /\ StartProbe \in [Owners -> ProbeState]
  /\ StartFetch \in FetchState
  /\ StartWork \in [Workers -> WorkState]
  /\ \A w \in Workers : WorkerInTime(StartProbe[w], StartWork[w])
  /\ FetchInTime(StartProbe[FetchLoop], StartFetch)
  /\ \A o \in Owners : StartProbe[o].age = 0
<1> USE Constants DEF Owners
<1>1. Cleared \in ProbeState /\ Begin("fetch") \in ProbeState
  BY DEF Cleared, Begin, ProbeState, Stages
<1>2. StartProbe \in [Owners -> ProbeState] /\ StartProbe[FetchLoop] = Begin("fetch")
  BY <1>1 DEF StartProbe
<1>3. Cleared.stage = NoStage /\ Cleared.age = 0 /\ \A w \in Workers : StartProbe[w] = Cleared
  BY DEF StartProbe, Cleared
<1>4. StartFetch \in FetchState /\ FetchInTime(StartProbe[FetchLoop], StartFetch)
  BY <1>2 DEF StartFetch, FetchState, FetchInTime, Begin
<1>5. Resting \in WorkState /\ Resting.step = "idle"
  BY DEF Resting, WorkState
<1>6. StartWork \in [Workers -> WorkState] /\ \A w \in Workers : StartWork[w] = Resting
  BY <1>5 DEF StartWork
<1>7. \A w \in Workers : WorkerInTime(StartProbe[w], StartWork[w])
  BY <1>3, <1>5, <1>6 DEF WorkerInTime
<1>8. Begin("fetch").age = 0
  BY DEF Begin
<1>9. \A o \in Owners : StartProbe[o].age = 0
  BY <1>2, <1>3, <1>8
<1> QED
  BY <1>2, <1>4, <1>6, <1>7, <1>9

(* A process as it starts satisfies the invariant. *)
LEMMA InitInv == Init => IInv
<1> SUFFICES ASSUME Init PROVE IInv
  OBVIOUS
<1> USE Start, Constants DEF Init
<1>1. TypeOK
  BY DEF TypeOK
<1>2. InTime
  BY DEF InTime
<1>3. ReportsClear /\ ReportedInTime /\ NoPetWhileReported
  BY DEF ReportsClear, ReportedInTime, NoPetWhileReported
<1> QED
  BY <1>1, <1>2, <1>3 DEF IInv

(* The records of probes. *)
LEMMA ProbeRecord == \A s \in Stages, n \in Nat : [stage |-> s, age |-> n] \in ProbeState
BY DEF ProbeState

(* Touch makes a probed stage young, and changes nothing else. *)
LEMMA TouchProbe ==
  ASSUME NEW p \in ProbeState, p.stage # NoStage, NEW q, q = Touch(p)
  PROVE  q \in ProbeState /\ q.stage = p.stage /\ q.age = 0
<1>1. q = [p EXCEPT !.age = 0]
  BY DEF Touch
<1>2. q \in ProbeState
  <2>1. q = [stage |-> p.stage, age |-> 0] /\ p.stage \in Stages
    BY <1>1 DEF ProbeState, Stages
  <2> QED
    BY <2>1, ProbeRecord
<1>3. q.stage = p.stage
  BY <1>1 DEF ProbeState, Stages
<1>4. q.age = 0
  BY <1>1 DEF ProbeState, Stages
<1> QED
  BY <1>2, <1>3, <1>4

(* A goroutine may move on as long as its probe gets no older by it. *)
LEMMA WorkerMoves ==
  ASSUME IInv, NEW w \in Workers,
         probe' \in [Owners -> ProbeState], work' \in [Workers -> WorkState],
         \A o \in Owners \ {w} : probe'[o] = probe[o],
         \A v \in Workers \ {w} : work'[v] = work[v],
         WorkerInTime(probe'[w], work'[w]), probe'[w].age <= probe[w].age,
         probe'[w].age = 0 \/ probe'[w] = probe[w],
         work[w].step = "wedged" => work'[w].step = "wedged",
         depth' \in Nat, UNCHANGED <<fetch, timers>>
  PROVE  IInv'
<1> USE Constants DEF IInv, TypeOK, timers, Owners
<1>1. TypeOK'
  OBVIOUS
<1>2. InTime'
  BY DEF InTime
<1>3. ReportsClear'
  BY DEF ReportsClear, ClearedNext, ProbeState
<1>4. ReportedInTime'
  BY DEF ReportedInTime, ProbeState
<1>5. NoPetWhileReported'
  BY DEF NoPetWhileReported, ProbeState
<1> QED
  BY <1>1, <1>2, <1>3, <1>4, <1>5

(* The same of the fetch loop. *)
LEMMA FetchLoopMoves ==
  ASSUME IInv, probe' \in [Owners -> ProbeState], fetch' \in FetchState,
         \A w \in Workers : probe'[w] = probe[w],
         FetchInTime(probe'[FetchLoop], fetch'), probe'[FetchLoop].age <= probe[FetchLoop].age,
         depth' \in Nat, UNCHANGED <<work, timers>>
  PROVE  IInv'
<1> USE Constants DEF IInv, TypeOK, timers, Owners
<1>1. TypeOK'
  OBVIOUS
<1>2. InTime'
  BY DEF InTime
<1>3. ReportsClear'
  BY DEF ReportsClear, ClearedNext, ProbeState
<1>4. ReportedInTime'
  BY DEF ReportedInTime, ProbeState
<1>5. NoPetWhileReported'
  BY DEF NoPetWhileReported, ProbeState
<1> QED
  BY <1>1, <1>2, <1>3, <1>4, <1>5

(* The fetch loop: a fetch begins with a young probe, a pause with none. *)
LEMMA FetchInv ==
  ASSUME IInv, FetchReturns \/ FetchPauses \/ PauseOver \/ Dispatch
  PROVE  IInv'
<1> USE Constants
<1>1. /\ probe \in [Owners -> ProbeState] /\ FetchLoop \in Owners /\ Workers \subseteq Owners
      /\ probe[FetchLoop].age \in Nat /\ depth \in Nat
  BY DEF IInv, TypeOK, ProbeState, Owners
<1>2. PICK p : probe' = [probe EXCEPT ![FetchLoop] = p] /\
               p \in {Begin("dispatch"), Cleared, Begin("fetch")}
  BY DEF FetchReturns, FetchPauses, PauseOver, Dispatch, FetchAgain
<1>3. p \in ProbeState /\ p.age = 0
  <2>1. \A stage \in Stages : Begin(stage) \in ProbeState /\ Begin(stage).age = 0
    BY DEF Begin, ProbeState
  <2>2. Cleared = Begin(NoStage)
    BY DEF Begin, Cleared
  <2> QED
    BY <1>2, <2>1, <2>2 DEF Stages
<1>4. /\ probe' \in [Owners -> ProbeState] /\ probe'[FetchLoop] = p
      /\ \A w \in Workers : probe'[w] = probe[w]
  BY <1>1, <1>2, <1>3
<1>5. fetch' \in FetchState /\ FetchInTime(p, fetch')
  <2>1. CASE FetchReturns
    <3>1. p = Begin("dispatch") /\ fetch' = [step |-> "dispatching", left |-> 0]
      BY <1>1, <1>2, <2>1 DEF FetchReturns
    <3> QED
      BY <3>1 DEF Begin, FetchState, FetchInTime
  <2>2. CASE FetchPauses
    <3>1. p = Cleared /\ fetch' = [step |-> "resting", left |-> RestTime + Latency]
      BY <1>1, <1>2, <2>2 DEF FetchPauses
    <3> QED
      BY <3>1 DEF Cleared, FetchState, FetchInTime
  <2>3. CASE PauseOver \/ Dispatch
    <3>1. p = Begin("fetch") /\ fetch' = [step |-> "fetching", left |-> FetchTime + Latency]
      BY <1>1, <1>2, <2>3 DEF PauseOver, Dispatch, FetchAgain, StartFetch
    <3> QED
      BY <3>1 DEF Begin, FetchState, FetchInTime
  <2> QED
    BY <2>1, <2>2, <2>3
<1>6. depth' \in Nat /\ UNCHANGED <<work, timers>>
  BY <1>1 DEF FetchReturns, FetchPauses, PauseOver, Dispatch
<1> QED
  BY <1>1, <1>3, <1>4, <1>5, <1>6, FetchLoopMoves

(* The steps of a worker.  One that is wedged takes none. *)
LEMMA WorkerInv ==
  ASSUME IInv, NEW w \in Workers,
         \/ Receive(w) \/ ReceiveUnwritten(w)
         \/ PushSucceeds(w) \/ PushRetries(w) \/ PushFails(w)
         \/ Wake(w) \/ Wedge(w)
  PROVE  IInv'
<1> USE Constants
<1>1. /\ probe \in [Owners -> ProbeState] /\ work \in [Workers -> WorkState]
      /\ w \in Owners /\ depth \in Nat
      /\ probe[w] \in ProbeState /\ work[w] \in WorkState
  BY DEF IInv, TypeOK, Owners
<1>2. /\ probe[w].age \in Nat /\ work[w].left \in Nat /\ work[w].attempt \in Nat
      /\ work[w].backoff \in 0..RetryMax
  BY <1>1 DEF ProbeState, WorkState
<1>4. WorkerInTime(probe[w], work[w])
  BY DEF IInv, InTime
<1>5. /\ \A o \in Owners \ {w} : probe'[o] = probe[o]
      /\ \A v \in Workers \ {w} : work'[v] = work[v]
      /\ depth' \in Nat /\ UNCHANGED <<fetch, timers>>
  BY <1>1 DEF Receive, ReceiveUnwritten, PushSucceeds, PushRetries, PushFails, Wake, Wedge, Finish
<1>6. SUFFICES /\ probe' \in [Owners -> ProbeState] /\ work' \in [Workers -> WorkState]
               /\ WorkerInTime(probe'[w], work'[w]) /\ probe'[w].age <= probe[w].age
               /\ probe'[w].age = 0 \/ probe'[w] = probe[w]
               /\ work[w].step = "wedged" => work'[w].step = "wedged"
  BY <1>5, WorkerMoves
<1>7. CASE Receive(w)
  <2> DEFINE p == Begin("process")
             t == [step |-> "pushing", left |-> PushTime + Latency, attempt |-> 1, backoff |-> RetryBase]
  <2>1. p \in ProbeState /\ p.age = 0 /\ p.stage = "process"
    BY DEF Begin, ProbeState, Stages
  <2>2. t \in WorkState
    BY DEF WorkState
  <2>3. probe' = [probe EXCEPT ![w] = p] /\ work' = [work EXCEPT ![w] = t] /\ work[w].step # "wedged"
    BY <1>7 DEF Receive
  <2>4. WorkerInTime(p, t)
    BY <2>1 DEF WorkerInTime, Span
  <2> QED
    BY <1>1, <1>2, <2>1, <2>2, <2>3, <2>4
<1>8. CASE ReceiveUnwritten(w)
  BY <1>1, <1>2, <1>4, <1>8 DEF ReceiveUnwritten
<1>9. CASE PushSucceeds(w) \/ PushFails(w)
  <2>1. Cleared \in ProbeState /\ Cleared.age = 0 /\ Cleared.stage = NoStage
    BY DEF Cleared, ProbeState, Stages
  <2>2. Resting \in WorkState /\ Resting.step = "idle"
    BY DEF Resting, WorkState
  <2>3. /\ probe' = [probe EXCEPT ![w] = Cleared] /\ work' = [work EXCEPT ![w] = Resting]
        /\ work[w].step # "wedged"
    BY <1>9 DEF PushSucceeds, PushFails, Finish
  <2>4. WorkerInTime(Cleared, Resting)
    BY <2>1, <2>2 DEF WorkerInTime
  <2> QED
    BY <1>1, <1>2, <2>1, <2>2, <2>3, <2>4
<1>10. CASE PushRetries(w)
  <2>1. work[w].step = "pushing" /\ probe[w].stage = "process"
    BY <1>4, <1>10 DEF PushRetries, WorkerInTime
  <2>3. PICK q : q = Touch(probe[w])
    OBVIOUS
  <2>4. q \in ProbeState /\ q.stage = "process" /\ q.age = 0
    BY <1>1, <2>1, <2>3, TouchProbe
  <2>5. probe' \in [Owners -> ProbeState] /\ probe'[w] = q
    BY <1>1, <1>10, <2>3, <2>4 DEF PushRetries
  <2>6. PICK t : t = [step |-> "waiting", left |-> work[w].backoff + Latency,
                      attempt |-> work[w].attempt, backoff |-> work[w].backoff]
    OBVIOUS
  <2>7. t \in WorkState /\ WorkerInTime(q, t)
    BY <1>2, <2>4, <2>6 DEF WorkState, WorkerInTime, Span
  <2>8. work'[w] = t
    BY <1>1, <1>10, <2>6 DEF PushRetries, WorkState
  <2>9. work' \in [Workers -> WorkState]
    BY <1>1, <1>5, <1>10, <2>7, <2>8 DEF PushRetries
  <2> QED
    BY <1>2, <2>1, <2>4, <2>5, <2>7, <2>8, <2>9
<1>11. CASE Wake(w)
  <2>1. work[w].step = "waiting" /\ probe[w].stage = "process"
    BY <1>4, <1>11 DEF Wake, WorkerInTime
  <2>2. PICK q : q = Touch(probe[w])
    OBVIOUS
  <2>3. q \in ProbeState /\ q.stage = "process" /\ q.age = 0
    BY <1>1, <2>1, <2>2, TouchProbe
  <2>4. probe' \in [Owners -> ProbeState] /\ probe'[w] = q
    BY <1>1, <1>11, <2>2, <2>3 DEF Wake
  <2>5. PICK t : t = [step |-> "pushing", left |-> PushTime + Latency,
                      attempt |-> work[w].attempt + 1, backoff |-> NextBackoff(work[w].backoff)]
    OBVIOUS
  <2>6. t \in WorkState /\ WorkerInTime(q, t)
    <3>1. NextBackoff(work[w].backoff) \in 0..RetryMax
      BY <1>2 DEF NextBackoff, Lesser
    <3> QED
      BY <1>2, <2>3, <2>5, <3>1 DEF WorkState, WorkerInTime, Span
  <2>7. work'[w] = t
    BY <1>1, <1>11, <2>5 DEF Wake, WorkState
  <2>8. work' \in [Workers -> WorkState]
    BY <1>1, <1>5, <1>11, <2>6, <2>7 DEF Wake
  <2> QED
    BY <1>2, <2>1, <2>3, <2>4, <2>6, <2>7, <2>8
<1>12. CASE Wedge(w)
  <2>1. probe' = probe /\ probe[w].stage = "process"
    BY <1>4, <1>12 DEF Wedge, WorkerInTime
  <2>2. PICK t : t = [step |-> "wedged", left |-> 0,
                      attempt |-> work[w].attempt, backoff |-> work[w].backoff]
    OBVIOUS
  <2>3. t \in WorkState /\ WorkerInTime(probe[w], t)
    BY <1>2, <2>1, <2>2 DEF WorkState, WorkerInTime
  <2>4. work'[w] = t
    BY <1>1, <1>12, <2>2 DEF Wedge, WorkState
  <2>5. work' \in [Workers -> WorkState]
    BY <1>1, <1>5, <1>12, <2>3, <2>4 DEF Wedge
  <2> QED
    BY <1>1, <1>2, <2>1, <2>2, <2>3, <2>4, <2>5
<1> QED
  BY <1>7, <1>8, <1>9, <1>10, <1>11, <1>12

(* Time: a probe gets older by one where what is left of its stage gets      *)
(* shorter by one, and so does the time to the next evaluation.              *)
LEMMA TickInv ==
  ASSUME IInv, Tick
  PROVE  IInv'
<1> USE Constants
<1>1. /\ probe \in [Owners -> ProbeState] /\ work \in [Workers -> WorkState]
      /\ fetch \in FetchState /\ FetchLoop \in Owners /\ Workers \subseteq Owners
      /\ evalDue \in 1..MonitorInterval /\ petDue \in 1..PetInterval
      /\ petAge \in 0..WatchdogTimeout /\ stuck \subseteq Owners
  <2>1. evalDue > 0 /\ petDue > 0 /\ petAge <= WatchdogTimeout
    BY DEF Tick, Quiet
  <2> QED
    BY <2>1 DEF IInv, TypeOK, Owners
<1>2. ASSUME NEW o \in Owners
      PROVE  /\ probe'[o] \in ProbeState /\ probe'[o].stage = probe[o].stage
             /\ probe[o].age \in Nat /\ probe'[o].age \in Nat
             /\ probe'[o].age <= probe[o].age + 1
             /\ probe'[o].age = probe[o].age + 1 \/ probe'[o].age > KillBound \/ probe[o].stage = NoStage
             /\ probe[o].stage = NoStage => probe'[o].age = probe[o].age
  <2>1. probe[o] \in ProbeState /\ probe[o].age \in Nat /\ probe[o].stage \in Stages
    BY <1>1 DEF ProbeState, Stages
  <2>2. CASE probe[o].stage = NoStage
    <3>1. probe'[o] = probe[o]
      BY <2>2 DEF Tick
    <3> QED
      BY <2>1, <2>2, <3>1
  <2>3. CASE probe[o].stage # NoStage
    <3>1. PICK n : n = Lesser(probe[o].age + 1, KillBound + 1)
      OBVIOUS
    <3>2. n \in Nat /\ n <= probe[o].age + 1 /\ (n = probe[o].age + 1 \/ n > KillBound)
      BY <2>1, <3>1 DEF Lesser
    <3>3. probe'[o] = [probe[o] EXCEPT !.age = n]
      BY <2>3, <3>1 DEF Tick
    <3>4. probe'[o] = [stage |-> probe[o].stage, age |-> n]
      BY <2>1, <3>3 DEF ProbeState, Stages
    <3>5. probe'[o] \in ProbeState
      BY <2>1, <3>2, <3>4, ProbeRecord
    <3>6. probe'[o].stage = probe[o].stage /\ probe'[o].age = n
      BY <3>4
    <3> QED
      BY <2>1, <2>3, <3>2, <3>5, <3>6
  <2> QED
    BY <2>2, <2>3
<1>3. \A o \in Owners : /\ probe[o].age \in Nat /\ probe'[o].age \in Nat
                          /\ probe'[o].age <= probe[o].age + 1
  BY <1>2
<1>4. ASSUME NEW w \in Workers
      PROVE  /\ work'[w] \in WorkState /\ work'[w].step = work[w].step
             /\ work[w].left \in Nat /\ work'[w].left \in Nat
             /\ work[w].left > 0 => work'[w].left = work[w].left - 1
             /\ work'[w].backoff = work[w].backoff
  <2>1. /\ work[w] \in WorkState
        /\ work[w].left \in Nat /\ work'[w] = Later(work[w])
    BY <1>1 DEF WorkState, Tick
  <2>2. CASE work[w].left > 0
    <3>1. PICK n : n = work[w].left - 1
      OBVIOUS
    <3>2. n \in Nat
      BY <2>1, <2>2, <3>1
    <3>3. work'[w] = [work[w] EXCEPT !.left = n]
      BY <2>1, <2>2, <3>1 DEF Later
    <3>4. work'[w] \in WorkState
      BY <2>1, <3>2, <3>3 DEF WorkState
    <3>5. work'[w].step = work[w].step /\ work'[w].left = n /\ work'[w].backoff = work[w].backoff
      BY <2>1, <3>3 DEF WorkState
    <3> QED
      BY <2>1, <3>1, <3>2, <3>4, <3>5
  <2>3. CASE ~(work[w].left > 0)
    BY <2>1, <2>3 DEF Later
  <2> QED
    BY <2>2, <2>3
<1>5. /\ fetch' \in FetchState /\ fetch'.step = fetch.step
      /\ fetch.left \in Nat /\ fetch'.left \in Nat
      /\ fetch.left > 0 => fetch'.left = fetch.left - 1
  <2>1. fetch.left \in Nat /\ fetch' = Later(fetch)
    BY <1>1 DEF FetchState, Tick
  <2>2. CASE fetch.left > 0
    <3>1. PICK n : n = fetch.left - 1
      OBVIOUS
    <3>2. n \in Nat
      BY <2>1, <2>2, <3>1
    <3>3. fetch' = [fetch EXCEPT !.left = n]
      BY <2>1, <2>2, <3>1 DEF Later
    <3>4. fetch' \in FetchState
      BY <1>1, <3>2, <3>3 DEF FetchState
    <3>5. fetch'.step = fetch.step /\ fetch'.left = n
      BY <1>1, <3>3 DEF FetchState
    <3> QED
      BY <2>1, <3>1, <3>2, <3>4, <3>5
  <2>3. CASE ~(fetch.left > 0)
    BY <1>1, <2>1, <2>3 DEF Later
  <2> QED
    BY <2>2, <2>3
<1>6. TypeOK'
  <2>1. probe' \in [Owners -> ProbeState]
    BY <1>2 DEF Tick
  <2>2. work' \in [Workers -> WorkState]
    BY <1>4 DEF Tick
  <2>3. depth' \in Nat /\ stuck' \subseteq Owners
    BY DEF IInv, TypeOK, Tick
  <2>4. evalDue' \in 0..MonitorInterval /\ petDue' \in 0..PetInterval
        /\ petAge' \in 0..WatchdogTimeout + 1
    <3>1. evalDue' = evalDue - 1 /\ petDue' = petDue - 1 /\ petAge' = petAge + 1
      BY DEF Tick
    <3> QED
      BY <1>1, <3>1
  <2> QED
    BY <1>5, <2>1, <2>2, <2>3, <2>4 DEF TypeOK
<1>7. InTime'
  <2>1. ASSUME NEW w \in Workers
        PROVE  WorkerInTime(probe'[w], work'[w])
    <3>1. WorkerInTime(probe[w], work[w]) /\ w \in Owners
      BY <1>1 DEF IInv, InTime
    <3>2. work[w].step \in {"pushing", "waiting"} => work[w].left > 0
      BY DEF Tick, Quiet
    <3>3. /\ work'[w].step = work[w].step /\ work[w].left \in Nat
          /\ Span(work'[w]) = Span(work[w]) /\ Span(work[w]) \in Nat
          /\ work[w].left > 0 => work'[w].left = work[w].left - 1
      <4>1. work[w].backoff \in Nat
        BY <1>1 DEF WorkState
      <4> QED
        BY <1>4, <4>1 DEF Span
    <3>4. /\ probe'[w].stage = probe[w].stage
          /\ probe[w].age \in Nat /\ probe'[w].age \in Nat /\ probe'[w].age <= probe[w].age + 1
          /\ probe[w].stage = NoStage => probe'[w].age = probe[w].age
      BY <1>2, <3>1
    <3> QED
      BY <3>1, <3>2, <3>3, <3>4 DEF WorkerInTime
  <2>2. FetchInTime(probe'[FetchLoop], fetch')
    <3>1. FetchInTime(probe[FetchLoop], fetch)
      BY DEF IInv, InTime
    <3>2. fetch.step = "dispatching" \/ fetch.left > 0
      BY DEF Tick, Quiet
    <3>3. /\ probe'[FetchLoop].stage = probe[FetchLoop].stage
          /\ probe[FetchLoop].age \in Nat /\ probe'[FetchLoop].age \in Nat
          /\ probe'[FetchLoop].age <= probe[FetchLoop].age + 1
          /\ probe[FetchLoop].stage = NoStage => probe'[FetchLoop].age = probe[FetchLoop].age
      BY <1>1, <1>2
    <3> QED
      BY <1>5, <3>1, <3>2, <3>3 DEF FetchInTime
  <2> QED
    BY <2>1, <2>2 DEF InTime
<1>8. ReportsClear'
  <2> SUFFICES ASSUME SpansFit, NEW w \in Workers, w \in stuck, work[w].step # "wedged"
               PROVE  ClearedNext(probe[w])'
    BY <1>4 DEF ReportsClear, Tick, SpansFit
  <2>1. ClearedNext(probe[w]) /\ WorkerInTime(probe[w], work[w]) /\ w \in Owners
    BY <1>1 DEF IInv, ReportsClear, InTime
  <2>2. evalDue' = evalDue - 1
    BY DEF Tick
  <2>3. probe[w].stage = NoStage => probe[w].age = 0
    BY <2>1 DEF WorkerInTime
  <2>4. /\ probe[w].age \in Nat /\ probe'[w].age \in Nat
        /\ probe'[w].age = probe[w].age + 1 \/ probe'[w].age > KillBound \/ probe[w].stage = NoStage
        /\ probe[w].stage = NoStage => probe'[w].age = probe[w].age
    BY <1>2, <2>1
  <2> QED
    BY <1>1, <2>1, <2>2, <2>3, <2>4 DEF ClearedNext
<1>9. ReportedInTime'
  <2>1. evalDue' = evalDue - 1 /\ stuck' = stuck
    BY DEF Tick
  <2>2. ReportedInTime
    BY DEF IInv
  <2> QED
    BY <1>1, <1>3, <2>1, <2>2 DEF ReportedInTime
<1>10. NoPetWhileReported'
  <2>1. petAge' = petAge + 1 /\ stuck' = stuck
    BY DEF Tick
  <2>2. NoPetWhileReported
    BY DEF IInv
  <2> QED
    BY <1>1, <1>3, <2>1, <2>2 DEF NoPetWhileReported
<1> QED
  BY <1>6, <1>7, <1>8, <1>9, <1>10 DEF IInv

(* The monitor: what it reports is past the threshold, so it is wedged, has  *)
(* a call or a sleep that outlasts the threshold or cannot be dispatched,    *)
(* and nothing past the threshold is left unreported.                        *)
LEMMA EvaluateInv ==
  ASSUME IInv, Evaluate
  PROVE  /\ IInv'
         /\ FetchLoop \in stuck' =>
              \/ fetch.step = "dispatching"
              \/ fetch.step = "fetching" /\ FetchLasted > StuckThreshold
         /\ \A w \in Workers \cap stuck' :
              \/ work[w].step = "wedged"
              \/ Lasted(work[w]) > StuckThreshold /\ (SpansFit => w \notin stuck)
<1> USE Constants
<1>1. /\ stuck' = {o \in Owners : OverThreshold(probe[o])}
      /\ evalDue = 0 /\ evalDue' = MonitorInterval
      /\ UNCHANGED <<probe, fetch, depth, work, petDue, petAge>>
  BY DEF Evaluate
<1>2. FetchLoop \in Owners /\ Workers \subseteq Owners
  BY DEF Owners
<1>3. \A o \in Owners : probe[o].age \in Nat
  BY DEF IInv, TypeOK, ProbeState
<1>4. TypeOK'
  BY <1>1 DEF IInv, TypeOK
<1>5. InTime'
  BY <1>1 DEF IInv, InTime
<1>6. \A o \in Owners : o \in stuck' <=> probe[o].stage # NoStage /\ probe[o].age > StuckThreshold
  BY <1>1 DEF OverThreshold
<1>7. ASSUME NEW w \in Workers, w \in stuck', work[w].step # "wedged"
      PROVE  Lasted(work[w]) > StuckThreshold /\ (SpansFit => w \notin stuck)
  <2>1. WorkerInTime(probe[w], work[w]) /\ probe[w].stage # NoStage /\ probe[w].age > StuckThreshold
    BY <1>2, <1>6, <1>7 DEF IInv, InTime
  <2>2. /\ work[w].left \in Nat /\ work[w].backoff \in 0..RetryMax
        /\ work[w].step \in {"idle", "pushing", "waiting", "wedged"}
    BY DEF IInv, TypeOK, WorkState
  <2>3. Span(work[w]) \in Nat /\ (SpansFit => Span(work[w]) <= StuckThreshold + Latency)
    BY <2>2 DEF Span, SpansFit
  <2>4. probe[w].age \in Nat /\ probe[w].age + work[w].left <= Span(work[w])
    BY <1>2, <1>3, <1>7, <2>1, <2>2 DEF WorkerInTime
  <2>5. Lasted(work[w]) > StuckThreshold
    BY <2>1, <2>2, <2>3, <2>4 DEF Lasted
  <2>6. ASSUME SpansFit, w \in stuck
        PROVE  FALSE
    <3>1. ClearedNext(probe[w])
      BY <1>7, <2>6 DEF IInv, ReportsClear
    <3>2. Latency <= MonitorInterval /\ MonitorInterval <= StuckThreshold
      BY <2>6 DEF SpansFit
    <3> QED
      BY <1>1, <2>1, <2>2, <2>3, <2>4, <2>6, <3>1, <3>2 DEF ClearedNext
  <2> QED
    BY <2>5, <2>6
<1>8. ReportsClear'
  <2>1. ASSUME NEW w \in Workers, w \in stuck'
        PROVE  ClearedNext(probe[w])'
    BY <1>1, <1>2, <1>3, <1>6, <2>1 DEF ClearedNext
  <2> QED
    BY <2>1 DEF ReportsClear
<1>9. FetchLoop \in stuck' =>
        \/ fetch.step = "dispatching"
        \/ fetch.step = "fetching" /\ FetchLasted > StuckThreshold
  <2>1. FetchInTime(probe[FetchLoop], fetch)
    BY DEF IInv, InTime
  <2>2. fetch.left \in Nat /\ fetch.step \in {"fetching", "dispatching", "resting"}
    BY DEF IInv, TypeOK, FetchState
  <2>3. ASSUME FetchLoop \in stuck', fetch.step # "dispatching"
        PROVE  fetch.step = "fetching" /\ FetchLasted > StuckThreshold
    <3>1. probe[FetchLoop].age \in Nat /\ probe[FetchLoop].age > StuckThreshold
      BY <1>2, <1>3, <1>6, <2>3
    <3>2. probe[FetchLoop].stage # NoStage
      BY <1>2, <1>6, <2>3
    <3>3. fetch.step = "fetching" /\ probe[FetchLoop].age + fetch.left <= FetchTime + Latency
      BY <2>1, <2>2, <2>3, <3>2 DEF FetchInTime
    <3> QED
      BY <2>2, <3>1, <3>3 DEF FetchLasted
  <2> QED
    BY <2>3
<1>10. \A o \in Owners : probe[o].stage = NoStage => probe[o].age <= StuckThreshold
  <2>1. ASSUME NEW w \in Workers, probe[w].stage = NoStage
        PROVE  probe[w].age <= StuckThreshold
    <3>1. WorkerInTime(probe[w], work[w])
      BY DEF IInv, InTime
    <3> QED
      BY <2>1, <3>1 DEF WorkerInTime
  <2>2. ASSUME probe[FetchLoop].stage = NoStage
        PROVE  probe[FetchLoop].age <= StuckThreshold
    <3>1. FetchInTime(probe[FetchLoop], fetch)
      BY DEF IInv, InTime
    <3>2. fetch.step \in {"fetching", "dispatching", "resting"}
      BY DEF IInv, TypeOK, FetchState
    <3> QED
      BY <2>2, <3>1, <3>2 DEF FetchInTime
  <2> QED
    BY <2>1, <2>2 DEF Owners
<1>11. ReportedInTime'
  <2>1. \A o \in Owners : o \notin stuck' => probe[o].age <= StuckThreshold
    BY <1>3, <1>6, <1>10
  <2> QED
    BY <1>1, <2>1 DEF ReportedInTime
<1>12. NoPetWhileReported'
  <2>1. petAge \in Nat
    BY DEF IInv, TypeOK
  <2> QED
    BY <1>1, <1>3, <2>1 DEF IInv, ReportedInTime, NoPetWhileReported
<1> QED
  BY <1>4, <1>5, <1>7, <1>8, <1>9, <1>11, <1>12 DEF IInv

(* The petter, systemd and the cluster.  A pet is sent only when nothing is  *)
(* reported, and a process that is killed starts from the beginning.         *)
LEMMA OthersInv ==
  ASSUME IInv, Pet \/ Kill \/ ClusterChanges
  PROVE  IInv'
<1> USE Constants
<1>1. CASE Pet
  <2>1. /\ petAge' = (IF stuck = {} THEN 0 ELSE petAge) /\ petDue' = PetInterval
        /\ UNCHANGED <<probe, fetch, depth, work, stuck, evalDue>>
    BY <1>1 DEF Pet, Alive
  <2>2. TypeOK'
    BY <2>1 DEF IInv, TypeOK
  <2>3. InTime' /\ ReportsClear'
    BY <2>1 DEF IInv, InTime, ReportsClear, ClearedNext
  <2>4. ReportedInTime' /\ NoPetWhileReported'
    BY <2>1 DEF IInv, ReportedInTime, NoPetWhileReported
  <2> QED
    BY <2>2, <2>3, <2>4 DEF IInv
<1>2. CASE Kill
  <2>1. /\ probe' = StartProbe /\ fetch' = StartFetch /\ work' = StartWork
        /\ depth' = 0 /\ stuck' = {}
        /\ evalDue' = 0 /\ petDue' = PetInterval /\ petAge' = 0
    BY <1>2 DEF Kill
  <2>2. TypeOK'
    BY <2>1, Start DEF TypeOK
  <2>3. InTime'
    BY <2>1, Start DEF InTime
  <2>4. ReportsClear' /\ ReportedInTime' /\ NoPetWhileReported'
    BY <2>1, Start DEF ReportsClear, ReportedInTime, NoPetWhileReported
  <2> QED
    BY <2>2, <2>3, <2>4 DEF IInv
<1>3. CASE ClusterChanges
  BY <1>3 DEF ClusterChanges, timers, IInv, TypeOK, InTime, ReportsClear, ClearedNext,
     ReportedInTime, NoPetWhileReported
<1> QED
  BY <1>1, <1>2, <1>3

-----------------------------------------------------------------------------
(* A step keeps the invariant. *)
LEMMA NextInv == IInv /\ [Next]_vars => IInv'
<1>1. IInv /\ UNCHANGED vars => IInv'
  BY DEF vars, IInv, TypeOK, InTime, ReportsClear, ClearedNext, ReportedInTime, NoPetWhileReported
<1> QED
  BY <1>1, FetchInv, WorkerInv, EvaluateInv, OthersInv, TickInv DEF Next

(* IInv is an invariant of the probes, the monitor and the watchdog. *)
THEOREM WatchdogInvariant == Spec => []IInv
BY InitInv, NextInv, PTL DEF Spec

(* processBatchFromChannel, OnRetryProgress: a worker that works its way up  *)
(* the retry ladder, however long the outage, is reported stuck only for one *)
(* backoff or push that alone outlasts the threshold; where they fit it, a   *)
(* report for a late goroutine is gone at the next evaluation.               *)
THEOREM RetryReportsAreMarginal == Spec => RetryReportIsMarginal
<1> DEFINE Step ==
      Evaluate => \A w \in Workers \cap stuck' :
                    \/ work[w].step = "wedged"
                    \/ Lasted(work[w]) > StuckThreshold /\ (SpansFit => w \notin stuck)
<1>1. IInv => [Step]_vars
  BY EvaluateInv
<1> QED
  BY <1>1, WatchdogInvariant, PTL DEF RetryReportIsMarginal

(* fetchLoop: the fetch loop gets reported for a full work channel, or for a *)
(* fetch that alone outlasts the threshold.                                  *)
THEOREM FetchLoopIsStuckInDispatch == Spec => FetchLoopStuckInDispatch
<1> DEFINE Step == (FetchLoop \in stuck' \ stuck) =>
                     \/ fetch.step = "dispatching"
                     \/ fetch.step = "fetching" /\ FetchLasted > StuckThreshold
<1>1. IInv /\ [Next]_vars => [Step]_vars
  <2> SUFFICES ASSUME IInv, Next PROVE Step
    OBVIOUS
  <2>1. CASE Evaluate
    BY <2>1, EvaluateInv
  <2>2. CASE Kill
    BY <2>2 DEF Kill
  <2>3. CASE Pet \/ Tick \/ ClusterChanges
    BY <2>3 DEF Pet, Tick, ClusterChanges, timers
  <2>4. CASE FetchReturns \/ FetchPauses \/ PauseOver \/ Dispatch
    BY <2>4 DEF FetchReturns, FetchPauses, PauseOver, Dispatch, timers
  <2>5. ASSUME NEW w \in Workers,
               \/ Receive(w) \/ ReceiveUnwritten(w)
               \/ PushSucceeds(w) \/ PushRetries(w) \/ PushFails(w)
               \/ Wake(w) \/ Wedge(w)
        PROVE  Step
    BY <2>5 DEF Receive, ReceiveUnwritten, PushSucceeds, PushRetries, PushFails, Wake, Wedge, timers
  <2> QED
    BY <2>1, <2>2, <2>3, <2>4, <2>5 DEF Next
<1> QED
  BY <1>1, WatchdogInvariant, PTL DEF Spec, FetchLoopStuckInDispatch

(* watchdogPetter, livez: no stage lasts longer than the threshold, one      *)
(* interval of the monitor and the watchdog's timeout.                       *)
THEOREM WedgesAreKilled == Spec => []WedgeIsKilled
<1>1. IInv => WedgeIsKilled
  <2> SUFFICES ASSUME IInv, NEW o \in Owners PROVE probe[o].age <= KillBound
    BY DEF WedgeIsKilled
  <2>1. /\ probe[o].age \in Nat /\ evalDue \in 0..MonitorInterval
        /\ petAge \in 0..WatchdogTimeout + 1
    BY DEF IInv, TypeOK, ProbeState
  <2>2. CASE o \in stuck
    BY <2>1, <2>2, Constants DEF IInv, NoPetWhileReported
  <2>3. CASE o \notin stuck
    BY <2>1, <2>3, Constants DEF IInv, ReportedInTime
  <2> QED
    BY <2>2, <2>3
<1> QED
  BY <1>1, WatchdogInvariant, PTL
=============================================================================
