--------------------------- MODULE CommandProofs ---------------------------
(***************************************************************************)
(* The life of the process, for any number of workers, any command line    *)
(* and any workload: main, the workers, the stats logger and the petter    *)
(* come to their ends in any order, and what is shown of the backlog, the  *)
(* rows and the lags is true of them.                                      *)
(***************************************************************************)
EXTENDS Command, SumTheorems, TLAPS

(* The places of runMain before anything but sinks has been started. *)
Preparing == {"LoadConfig", "NewConnector", "NewWorker", "NewWorkerFails"}

(* A worker runs between Connect and the end of RunWithContext, on a sink,   *)
(* and works only while it runs.                                             *)
WorkersHaveSinks ==
  /\ DOMAIN stage = Workers /\ stage = [w \in Workers |-> stage[w]]
  /\ running # {} => main \in {"running", "draining"}
  /\ running \cap Workers \subseteq sinks
  /\ \A w \in Workers : stage[w] # "idle" => w \in running
  /\ main \in {"LoadConfig", "NewConnector", "exited"} => sinks = {}
  /\ main \in {"startStats", "Connect"} => sinks = Workers
  /\ conn = "open" => main \in {"running", "draining"}

(* What main has started at each of its steps, and what it has ended. *)
PartsAsStep ==
  /\ parts \subseteq {"server", "logger", "petter"}
  /\ main \in Preparing => parts = {}
  /\ main = "startStats" => parts \subseteq {"server"}
  /\ main \in {"stopStats", "stopTelemetry"} => "petter" \notin parts
  /\ main \in {"Close", "exited"} => parts \subseteq {"logger"}
  /\ "logger" \in parts => StatsEnabled
  /\ main \in {"stopTelemetry", "Close", "exited"} /\ "logger" \in parts => logger = "done"

Lifecycle == WorkersHaveSinks /\ PartsAsStep

-----------------------------------------------------------------------------
Delay == Max({RpcTimeout, BatchWait})
Call == [step : {"idle", "cached", "asked", "count", "stamp"}, asOf : Int, since : Nat]

PendingType ==
  /\ now \in Nat \ {0} /\ pendingCount \in Int /\ pendingAt \in Nat /\ servedAge \in Int
  /\ fetched \in Call
  /\ reader \in [Readers -> Call]

(* The count is at most Delay older than its stamp. *)
StampAge ==
  /\ pendingAt <= now
  /\ pendingAt # 0 => pendingCount >= pendingAt - Delay

(* The fetch path stores within the instant of its pull. *)
FetchAge ==
  /\ fetched.step # "idle" => fetched.since = now /\ fetched.asOf >= now - BatchWait
  /\ fetched.step = "stamp" => pendingCount >= now - Delay

(* A request ends within its timeout; a count is about to be stamped, or     *)
(* served, in the instant in which it was stored, or found young.            *)
ReaderAge ==
  \A r \in Readers :
    /\ reader[r].step \in {"asked", "count"} =>
         reader[r].since <= now /\ now - reader[r].since <= RpcTimeout
    /\ reader[r].step = "count" => reader[r].asOf >= reader[r].since
    /\ reader[r].step = "stamp" =>
         reader[r].asOf >= now - RpcTimeout /\ pendingCount >= now - Delay
    /\ reader[r].step = "cached" => pendingAt # 0 /\ now - pendingAt < MaxAge

PendingInv == PendingType /\ StampAge /\ FetchAge /\ ReaderAge /\ PendingFresh

(* The delay is the longer of a request and of a pull. *)
LEMMA DelayFacts ==
  /\ Delay \in Nat /\ Delay >= RpcTimeout /\ Delay >= BatchWait
  /\ PendingFresh <=> servedAge < MaxAge + Delay
<1>1. \E x \in {RpcTimeout, BatchWait} : \A y \in {RpcTimeout, BatchWait} : x >= y
  BY PendingAssumption
<1>2. Delay \in {RpcTimeout, BatchWait} /\ \A y \in {RpcTimeout, BatchWait} : Delay >= y
  BY <1>1 DEF Delay, Max
<1> QED
  BY <1>2, PendingAssumption DEF PendingFresh, Delay

(* Serving a count that is not too old keeps servedAge below the bound. *)
LEMMA ServeAge ==
  ASSUME PendingInv, NEW r \in Readers, NEW a \in Int, Serve(r, a), now - a < MaxAge + Delay
  PROVE  servedAge' \in Int /\ servedAge' < MaxAge + Delay
<1>1. servedAge \in Int /\ servedAge < MaxAge + Delay /\ now - a \in Int
  BY DelayFacts DEF PendingInv, PendingType
<1>2. \E x \in {servedAge, now - a} : \A y \in {servedAge, now - a} : x >= y
  BY <1>1
<1>3. Max({servedAge, now - a}) \in {servedAge, now - a}
  BY <1>2 DEF Max
<1> QED
  BY <1>1, <1>3 DEF Serve

(* The fetch path and the clock. *)
LEMMA FetchPendingInv ==
  ASSUME PendingInv, FetchReturns \/ FetchStores \/ PendingClock
  PROVE  PendingInv'
<1> USE PendingAssumption, DelayFacts
<1>1. PendingType /\ StampAge /\ FetchAge /\ ReaderAge /\ servedAge < MaxAge + Delay
  BY DEF PendingInv
<1>2. CASE FetchReturns
  <2>1. PICK t \in 0..now : now - t <= BatchWait /\
                            fetched' = [step |-> "count", asOf |-> t, since |-> now]
    BY <1>2 DEF FetchReturns
  <2>2. UNCHANGED <<now, pendingCount, pendingAt, reader, servedAge>>
    BY <1>2 DEF FetchReturns
  <2>3. fetched' \in Call /\ fetched'.step = "count" /\ fetched'.since = now /\ fetched'.asOf = t
    BY <1>1, <2>1 DEF Call, PendingType
  <2>4. t >= now - BatchWait
    BY <1>1, <2>1 DEF PendingType
  <2>5. PendingType' /\ StampAge' /\ ReaderAge' /\ PendingFresh'
    BY <1>1, <2>2, <2>3 DEF PendingType, StampAge, ReaderAge, PendingFresh, Delay
  <2>6. FetchAge'
    BY <2>2, <2>3, <2>4 DEF FetchAge
  <2> QED
    BY <2>5, <2>6 DEF PendingInv
<1>3. CASE FetchStores /\ fetched.step = "count"
  <2>1. /\ UNCHANGED <<now, pendingAt, reader, servedAge>>
        /\ pendingCount' = fetched.asOf /\ fetched' = [fetched EXCEPT !.step = "stamp"]
    BY <1>3 DEF FetchStores
  <2>2. /\ fetched' \in Call /\ fetched'.step = "stamp" /\ fetched'.since = fetched.since
        /\ fetched'.asOf = fetched.asOf /\ fetched.asOf \in Int
    BY <1>1, <2>1 DEF Call, PendingType
  <2>3. fetched.since = now /\ fetched.asOf >= now - BatchWait
    BY <1>1, <1>3 DEF FetchAge
  <2>4. fetched.asOf >= now - Delay /\ (pendingAt # 0 => fetched.asOf >= pendingAt - Delay)
    BY <1>1, <2>2, <2>3 DEF PendingType, StampAge
  <2>5. PendingType' /\ StampAge' /\ PendingFresh'
    BY <1>1, <2>1, <2>2, <2>4 DEF PendingType, StampAge, PendingFresh, Delay
  <2>6. FetchAge'
    BY <2>1, <2>2, <2>3, <2>4 DEF FetchAge, Delay
  <2>7. ReaderAge'
    BY <1>1, <2>1, <2>4 DEF ReaderAge, Delay
  <2> QED
    BY <2>5, <2>6, <2>7 DEF PendingInv
<1>4. CASE FetchStores /\ fetched.step # "count"
  <2>1. /\ UNCHANGED <<now, pendingCount, reader, servedAge>> /\ fetched.step = "stamp"
        /\ pendingAt' = fetched.since /\ fetched' = NoCall
    BY <1>4 DEF FetchStores
  <2>2. pendingAt' = now /\ pendingCount >= now - Delay
    BY <1>1, <2>1 DEF FetchAge
  <2>3. fetched' \in Call /\ fetched'.step = "idle"
    BY <2>1 DEF NoCall, Call, Never
  <2>4. PendingType' /\ StampAge' /\ PendingFresh'
    BY <1>1, <2>1, <2>2, <2>3 DEF PendingType, StampAge, PendingFresh, Delay
  <2>5. FetchAge'
    BY <2>3 DEF FetchAge
  <2>6. ReaderAge'
    BY <1>1, <2>1, <2>2 DEF ReaderAge, PendingType, Delay
  <2> QED
    BY <2>4, <2>5, <2>6 DEF PendingInv
<1>5. CASE PendingClock
  <2>1. /\ UNCHANGED <<pendingCount, pendingAt, fetched, reader, servedAge>>
        /\ now' = now + 1 /\ fetched.step = "idle"
        /\ \A r \in Readers :
             /\ reader[r].step \notin {"cached", "stamp"}
             /\ reader[r].step \in {"asked", "count"} => now - reader[r].since < RpcTimeout
    BY <1>5 DEF PendingClock
  <2>2. PendingType' /\ StampAge' /\ PendingFresh' /\ FetchAge'
    BY <1>1, <2>1 DEF PendingType, StampAge, PendingFresh, FetchAge, Delay
  <2>3. \A r \in Readers : reader[r].since \in Nat
    BY <1>1 DEF PendingType, Call
  <2>4. ReaderAge'
    BY <1>1, <2>1, <2>3 DEF ReaderAge, PendingType
  <2> QED
    BY <2>2, <2>4 DEF PendingInv
<1> QED
  BY <1>2, <1>3, <1>4, <1>5

(* A step of one reader leaves the other where it is. *)
LEMMA MoveReader ==
  ASSUME PendingInv, NEW r \in Readers, NEW c \in Call, Move(r, c)
  PROVE  /\ reader' \in [Readers -> Call] /\ reader'[r] = c
         /\ \A q \in Readers \ {r} : reader'[q] = reader[q]
BY DEF PendingInv, PendingType, Move

(* What a reader keeps of its call is a record of these types. *)
LEMMA CallIsRecord ==
  ASSUME NEW st \in {"idle", "cached", "asked", "count", "stamp"}, NEW a \in Int, NEW s \in Nat
  PROVE  [step |-> st, asOf |-> a, since |-> s] \in Call
BY DEF Call

(* A reader loads the stamp, asks the server, and gives up. *)
LEMMA ReaderAsksInv ==
  ASSUME PendingInv, NEW r \in Readers, LoadStamp(r) \/ ServerAnswers(r) \/ RefreshFails(r)
  PROVE  PendingInv'
<1> USE PendingAssumption, DelayFacts
<1>1. /\ PendingType /\ StampAge /\ FetchAge /\ ReaderAge /\ servedAge < MaxAge + Delay
      /\ UNCHANGED <<now, pendingCount, pendingAt, fetched, servedAge>>
  BY DEF PendingInv, LoadStamp, ServerAnswers, RefreshFails
<1>2. PICK c \in Call :
        /\ Move(r, c)
        /\ c.step \in {"asked", "count"} => c.since <= now /\ now - c.since <= RpcTimeout
        /\ c.step = "count" => c.asOf >= c.since
        /\ c.step # "stamp"
        /\ c.step = "cached" => pendingAt # 0 /\ now - pendingAt < MaxAge
  <2>1. CASE LoadStamp(r)
    <3>1. PICK st \in {"cached", "asked"} :
            /\ Move(r, [step |-> st, asOf |-> Never, since |-> now])
            /\ st = "cached" => pendingAt # 0 /\ now - pendingAt < MaxAge
      BY <2>1 DEF LoadStamp
    <3>2. [step |-> st, asOf |-> Never, since |-> now] \in Call
      BY <1>1, CallIsRecord DEF PendingType, Never
    <3>3. now - now <= RpcTimeout /\ now <= now
      BY <1>1 DEF PendingType
    <3> QED
      BY <3>1, <3>2, <3>3
  <2>2. CASE ServerAnswers(r)
    <3>1. /\ reader[r] \in Call /\ reader[r].step = "asked"
          /\ Move(r, [reader[r] EXCEPT !.step = "count", !.asOf = now])
      BY <1>1, <2>2 DEF ServerAnswers, PendingType
    <3>2. PICK c : c = [reader[r] EXCEPT !.step = "count", !.asOf = now]
      OBVIOUS
    <3>3. c = [step |-> "count", asOf |-> now, since |-> reader[r].since]
      BY <3>1, <3>2 DEF Call
    <3>4. now \in Int /\ reader[r].since \in Nat
      BY <1>1, <3>1 DEF PendingType, Call
    <3>5. c \in Call
      BY <3>3, <3>4, CallIsRecord
    <3>6. reader[r].since <= now /\ now - reader[r].since <= RpcTimeout
      BY <1>1, <3>1 DEF ReaderAge
    <3> QED
      BY <3>1, <3>2, <3>3, <3>4, <3>5, <3>6
  <2>3. CASE RefreshFails(r)
    <3>1. NoCall \in Call /\ NoCall.step = "idle"
      BY DEF NoCall, Call, Never
    <3> QED
      BY <2>3, <3>1 DEF RefreshFails
  <2> QED
    BY <2>1, <2>2, <2>3
<1>3. /\ reader' \in [Readers -> Call] /\ reader'[r] = c
      /\ \A q \in Readers \ {r} : reader'[q] = reader[q]
  BY <1>2, MoveReader
<1>4. PendingType' /\ StampAge' /\ FetchAge' /\ PendingFresh'
  BY <1>1, <1>3 DEF PendingType, StampAge, FetchAge, PendingFresh, Delay
<1>5. ReaderAge'
  BY <1>1, <1>2, <1>3 DEF ReaderAge
<1> QED
  BY <1>4, <1>5 DEF PendingInv

(* A reader serves the cached count. *)
LEMMA LoadCountInv ==
  ASSUME PendingInv, NEW r \in Readers, LoadCount(r)
  PROVE  PendingInv'
<1> USE PendingAssumption, DelayFacts
<1>1. /\ PendingType /\ StampAge /\ FetchAge /\ ReaderAge
      /\ UNCHANGED <<now, pendingCount, pendingAt, fetched>>
      /\ reader[r].step = "cached" /\ Serve(r, pendingCount) /\ Move(r, NoCall)
  BY DEF PendingInv, LoadCount, Serve
<1>2. now - pendingCount < MaxAge + Delay
  BY <1>1 DEF PendingType, StampAge, ReaderAge
<1>3. servedAge' \in Int /\ servedAge' < MaxAge + Delay
  BY <1>1, <1>2, ServeAge DEF PendingType
<1>4. NoCall \in Call /\ NoCall.step = "idle"
  BY DEF NoCall, Call, Never
<1>5. /\ reader' \in [Readers -> Call] /\ reader'[r].step = "idle"
      /\ \A q \in Readers \ {r} : reader'[q] = reader[q]
  BY <1>1, <1>4, MoveReader
<1>6. PendingType' /\ StampAge' /\ FetchAge' /\ PendingFresh'
  BY <1>1, <1>3, <1>5 DEF PendingType, StampAge, FetchAge, PendingFresh, Delay
<1>7. ReaderAge'
  BY <1>1, <1>5 DEF ReaderAge
<1> QED
  BY <1>6, <1>7 DEF PendingInv

(* A reader stores the answer, first the count and then the stamp, and       *)
(* serves it.                                                                *)
LEMMA RefreshInv ==
  ASSUME PendingInv, NEW r \in Readers, RefreshStores(r)
  PROVE  PendingInv'
<1> USE PendingAssumption, DelayFacts
<1>1. /\ PendingType /\ StampAge /\ FetchAge /\ ReaderAge /\ servedAge < MaxAge + Delay
      /\ reader[r] \in Call /\ reader[r].asOf \in Int /\ reader[r].since \in Nat
      /\ now \in Nat \ {0} /\ pendingAt \in Nat /\ pendingAt <= now
  BY DEF PendingInv, PendingType, StampAge, Call
<1>2. CASE reader[r].step = "count"
  <2>1. /\ UNCHANGED <<now, pendingAt, fetched, servedAge>> /\ pendingCount' = reader[r].asOf
        /\ Move(r, [reader[r] EXCEPT !.step = "stamp"])
    BY <1>2 DEF RefreshStores
  <2>2. reader[r].asOf >= now - RpcTimeout
    BY <1>1, <1>2 DEF ReaderAge
  <2>3. reader[r].asOf >= now - Delay /\ reader[r].asOf >= pendingAt - Delay
    BY <1>1, <2>2
  <2>4. PICK c : c = [reader[r] EXCEPT !.step = "stamp"]
    OBVIOUS
  <2>5. c \in Call /\ c.step = "stamp" /\ c.asOf = reader[r].asOf
    BY <1>1, <2>4 DEF Call
  <2>6. /\ reader' \in [Readers -> Call] /\ reader'[r] = c
        /\ \A q \in Readers \ {r} : reader'[q] = reader[q]
    BY <2>1, <2>4, <2>5, MoveReader
  <2>7. PendingType' /\ StampAge' /\ FetchAge' /\ PendingFresh'
    BY <1>1, <2>1, <2>3, <2>6 DEF PendingType, StampAge, FetchAge, PendingFresh, Delay
  <2>8. ReaderAge'
    BY <1>1, <2>1, <2>2, <2>3, <2>5, <2>6 DEF ReaderAge, Delay
  <2> QED
    BY <2>7, <2>8 DEF PendingInv
<1>3. CASE reader[r].step # "count"
  <2>1. /\ UNCHANGED <<now, pendingCount, fetched>> /\ pendingAt' = now
        /\ reader[r].step = "stamp" /\ Serve(r, reader[r].asOf) /\ Move(r, NoCall)
    BY <1>3 DEF RefreshStores, Serve
  <2>2. reader[r].asOf >= now - RpcTimeout /\ pendingCount >= now - Delay
    BY <1>1, <2>1 DEF ReaderAge
  <2>3. now - reader[r].asOf < MaxAge + Delay
    BY <1>1, <2>2
  <2>4. servedAge' \in Int /\ servedAge' < MaxAge + Delay
    BY <1>1, <2>1, <2>3, ServeAge
  <2>5. NoCall \in Call /\ NoCall.step = "idle"
    BY DEF NoCall, Call, Never
  <2>6. /\ reader' \in [Readers -> Call] /\ reader'[r].step = "idle"
        /\ \A q \in Readers \ {r} : reader'[q] = reader[q]
    BY <2>1, <2>5, MoveReader
  <2>7. PendingType' /\ StampAge' /\ FetchAge' /\ PendingFresh'
    BY <1>1, <2>1, <2>2, <2>4, <2>6 DEF PendingType, StampAge, FetchAge, PendingFresh, Delay
  <2>8. ReaderAge'
    BY <1>1, <2>1, <2>6 DEF ReaderAge
  <2> QED
    BY <2>7, <2>8 DEF PendingInv
<1> QED
  BY <1>2, <1>3

(* Every step of the process leaves the cache alone or is one of these. *)
LEMMA PendingSteps ==
  ASSUME CommandNext
  PROVE  \/ UNCHANGED pendingVars
         \/ FetchReturns \/ FetchStores \/ PendingClock
         \/ \E r \in Readers : \/ LoadStamp(r) \/ ServerAnswers(r) \/ RefreshFails(r)
                               \/ LoadCount(r) \/ RefreshStores(r)
<1>1. "stats" \in Readers /\ "scrape" \in Readers
  BY ReadersAssumption
<1>2. ASSUME MainStep PROVE UNCHANGED pendingVars
  BY <1>2 DEF MainStep, Load, NewConnector, NewWorker, NewWorkerFails, StartTelemetry,
     StartStatsAndWatchdog, Connect, ConnectFails, RunReturns, StopWatchdog, StopStats,
     StopTelemetry, Close, inner
<1>3. ASSUME \/ Cancelled \/ PetterReturns \/ Observe
             \/ \E w \in Workers : WorkerReceives(w) \/ WorkerStep(w)
             \/ AttendantReturns("fetchLoop") \/ AttendantReturns("monitor")
             \/ LoggerStarts \/ LoggerDrains \/ LoggerLine \/ LoggerReturns
      PROVE  UNCHANGED pendingVars
  BY <1>3 DEF Cancelled, PetterReturns, Observe, WorkerReceives, WorkerStep, WorkerGoesOn,
     WorkerExits, AttendantReturns, LoggerStarts, LoggerDrains, LoggerLine, LoggerReturns, inner
<1>4. ASSUME NEW r \in Readers, PendingStep(r)
      PROVE  LoadStamp(r) \/ ServerAnswers(r) \/ RefreshFails(r) \/ LoadCount(r) \/ RefreshStores(r)
  BY <1>4 DEF PendingStep
<1>5. CASE FeedPending \/ StorePending \/ Time
  BY <1>5 DEF FeedPending, StorePending, Time
<1>6. CASE LoggerTicks \/ Scrape
  BY <1>1, <1>6 DEF LoggerTicks, Scrape
<1>7. CASE PendingStep("stats") \/ PendingStep("scrape")
  BY <1>1, <1>4, <1>7
<1> QED
  BY <1>2, <1>3, <1>5, <1>6, <1>7 DEF CommandNext, LoggerStep, FetchLoopStep

(* Whoever fills the cache, and whenever: the two atomics are never further  *)
(* apart than one request or one pull.                                       *)
THEOREM PendingInvariant == CommandSpec => []PendingInv
<1>1. CommandInit => PendingInv
  <2> SUFFICES ASSUME PendingInit PROVE PendingInv
    BY DEF CommandInit
  <2>1. NoCall \in Call /\ NoCall.step = "idle"
    BY DEF NoCall, Call, Never
  <2> QED
    BY <2>1, PendingAssumption, DelayFacts
    DEF PendingInit, PendingInv, PendingType, StampAge, FetchAge, ReaderAge, Never
<1>2. PendingInv /\ UNCHANGED pendingVars => PendingInv'
  BY DEF pendingVars, PendingInv, PendingType, StampAge, FetchAge, ReaderAge, PendingFresh, Delay
<1>3. PendingInv /\ [CommandNext]_all => PendingInv'
  <2>1. UNCHANGED all => UNCHANGED pendingVars
    BY DEF all
  <2> QED
    BY <1>2, <2>1, PendingSteps, FetchPendingInv, ReaderAsksInv, LoadCountInv, RefreshInv
<1> QED
  BY <1>1, <1>3, PTL DEF CommandSpec

(* A backlog that is shown without an error was the real one less than       *)
(* MaxAge plus one request or one pull ago, for any timeouts, although a     *)
(* late answer may overwrite a fresher count.                                *)
THEOREM BacklogIsFresh == CommandSpec => []PendingFresh
BY PendingInvariant, PTL DEF PendingInv

-----------------------------------------------------------------------------
(* The life of the process.                                                  *)

(* Before main starts, nothing is there to be ended. *)
LEMMA InitLifecycle == CommandInit => Lifecycle
BY DEF CommandInit, StatsInit, Lifecycle, WorkersHaveSinks, PartsAsStep, Preparing

(* Starting. *)
LEMMA StartLifecycle ==
  ASSUME Lifecycle,
         \/ Load \/ NewConnector \/ NewWorker \/ NewWorkerFails
         \/ StartTelemetry \/ StartStatsAndWatchdog \/ Connect \/ ConnectFails
  PROVE  Lifecycle'
<1> USE DEF Lifecycle, WorkersHaveSinks, PartsAsStep, Preparing, inner, statsVars
<1>1. CASE Load
  <2>1. /\ UNCHANGED <<stage, logger, sinks, running, conn, parts>> /\ main = "LoadConfig"
        /\ main' \in {"exited", "NewConnector"}
    BY <1>1 DEF Load, Exit
  <2> QED
    BY <2>1
<1>2. CASE NewConnector
  <2>1. /\ UNCHANGED <<stage, logger, sinks, running, conn, parts>> /\ main = "NewConnector"
        /\ main' \in {"exited", "NewWorkerFails", "NewWorker"}
    BY <1>2 DEF NewConnector, Exit
  <2> QED
    BY <2>1
<1>3. CASE NewWorker
  BY <1>3 DEF NewWorker, StatsEnabled
<1>4. CASE NewWorkerFails
  BY <1>4 DEF NewWorkerFails, StatsEnabled
<1>5. CASE StartTelemetry
  <2>1. /\ UNCHANGED <<stage, logger, sinks, running, conn, opts>>
        /\ main = "NewWorker" /\ sinks = Workers
        /\ \/ main' = "startStats" /\ (parts' = parts \/ parts' = parts \cup {"server"})
           \/ main' = "Close" /\ parts' = parts
    BY <1>5 DEF StartTelemetry
  <2> QED
    BY <2>1
<1>6. CASE StartStatsAndWatchdog
  BY <1>6 DEF StartStatsAndWatchdog, StatsEnabled
<1>7. CASE Connect \/ ConnectFails
  BY <1>7 DEF Connect, ConnectFails, StatsEnabled
<1> QED
  BY <1>1, <1>2, <1>3, <1>4, <1>5, <1>6, <1>7

(* Stopping. *)
LEMMA StopLifecycle ==
  ASSUME Lifecycle,
         RunReturns \/ StopWatchdog \/ StopStats \/ StopTelemetry \/ Close \/ Cancelled
           \/ PetterReturns \/ (\E w \in Workers : WorkerExits(w))
           \/ AttendantReturns("fetchLoop") \/ AttendantReturns("monitor")
  PROVE  Lifecycle'
<1> USE DEF Lifecycle, WorkersHaveSinks, PartsAsStep, Preparing, inner, statsVars
<1>1. UNCHANGED <<stage, logger, opts>> /\ StatsEnabled' = StatsEnabled
  BY DEF RunReturns, StopWatchdog, StopStats, StopTelemetry, Close, Cancelled, PetterReturns,
     WorkerExits, AttendantReturns, StatsEnabled
<1>2. CASE RunReturns
  BY <1>1, <1>2 DEF RunReturns
<1>3. CASE StopWatchdog
  BY <1>1, <1>3 DEF StopWatchdog, StopPart
<1>4. CASE StopStats
  BY <1>1, <1>4 DEF StopStats, StopPart
<1>5. CASE StopTelemetry
  BY <1>1, <1>5 DEF StopTelemetry
<1>6. CASE Close
  BY <1>1, <1>6 DEF Close
<1>7. CASE Cancelled
  BY <1>1, <1>7 DEF Cancelled
<1>8. CASE PetterReturns
  BY <1>1, <1>8 DEF PetterReturns
<1>9. ASSUME NEW w \in Workers, WorkerExits(w) PROVE Lifecycle'
  BY <1>1, <1>9 DEF WorkerExits
<1>10. ASSUME NEW g \in Attendants, AttendantReturns(g) PROVE Lifecycle'
  BY <1>1, <1>10, AttendantsAssumption DEF AttendantReturns
<1> QED
  BY <1>2, <1>3, <1>4, <1>5, <1>6, <1>7, <1>8, <1>9, <1>10 DEF Attendants

(* The fetch loop returns after its last fetch. *)
LEMMA StoreLifecycle ==
  ASSUME Lifecycle, StorePending
  PROVE  Lifecycle'
<1>1. /\ UNCHANGED <<main, opts, sinks, conn, parts, stage, logger>>
      /\ running' = running \/ running' = running \ {"fetchLoop"}
  BY DEF StorePending, statsVars
<1>2. \A w \in Workers : w # "fetchLoop"
  BY AttendantsAssumption DEF Attendants
<1> QED
  BY <1>1, <1>2 DEF Lifecycle, WorkersHaveSinks, PartsAsStep, Preparing, StatsEnabled

(* A worker goes through a batch only while it runs. *)
LEMMA WorkLifecycle ==
  ASSUME Lifecycle, NEW w \in Workers, WorkerReceives(w) \/ WorkerGoesOn(w)
  PROVE  Lifecycle'
<1>1. /\ UNCHANGED <<main, opts, sinks, running, conn, parts, logger>> /\ w \in running
      /\ \E s : stage' = [stage EXCEPT ![w] = s]
  <2>1. CASE WorkerReceives(w)
    BY <2>1 DEF WorkerReceives, ParseMessages, LoadBecomes, loggerVars
  <2>2. CASE WorkerGoesOn(w)
    <3>1. /\ stage[w] # "idle" /\ UNCHANGED commandVars /\ UNCHANGED loggerVars
          /\ \E s : Becomes(w, s)
      BY <2>2 DEF WorkerGoesOn, MergeFails, SettleFailures, WriteFails, AckValid, WriteSucceeds,
         Record, EmitNothing, At
    <3> QED
      BY <3>1 DEF Becomes, commandVars, loggerVars, Lifecycle, WorkersHaveSinks
  <2> QED
    BY <2>1, <2>2
<1> QED
  BY <1>1 DEF Lifecycle, WorkersHaveSinks, PartsAsStep, Preparing, StatsEnabled

(* The others leave main and the workers alone; the logger comes to its end  *)
(* once.                                                                     *)
LEMMA OthersLifecycle ==
  ASSUME Lifecycle,
         \/ Observe \/ FeedPending \/ Scrape \/ PendingStep("stats") \/ PendingStep("scrape") \/ Time
         \/ LoggerStarts \/ LoggerDrains \/ LoggerLine \/ LoggerTicks \/ LoggerReturns
         \/ UNCHANGED all
  PROVE  Lifecycle'
<1>1. /\ UNCHANGED <<main, opts, sinks, running, conn, parts, stage>>
      /\ logger = "done" => logger' = "done"
  <2> USE DEF commandVars, statsVars, workerVars, loggerVars, all
  <2>1. CASE Observe \/ FeedPending \/ Scrape \/ PendingStep("stats") \/ PendingStep("scrape")
    BY <2>1 DEF Observe, FeedPending, Scrape, PendingStep, LoadBecomes
  <2>2. CASE Time
    BY <2>2 DEF Time, NextMinute, LoadBecomes
  <2>3. CASE LoggerStarts \/ LoggerTicks
    BY <2>3 DEF LoggerStarts, StatsStart, LoggerTicks, TickBegins
  <2>4. CASE LoggerDrains
    BY <2>4 DEF LoggerDrains, ReceiveEvents, AddEvent, eventVars
  <2>5. CASE LoggerLine \/ LoggerReturns
    BY <2>5 DEF LoggerLine, TickEnds, LoggerReturns, StatsReturns
  <2>6. CASE UNCHANGED all
    BY <2>6
  <2> QED
    BY <2>1, <2>2, <2>3, <2>4, <2>5, <2>6
<1> QED
  BY <1>1 DEF Lifecycle, WorkersHaveSinks, PartsAsStep, Preparing, StatsEnabled

(* At each step of main, the parts it has started and not yet ended are up,  *)
(* and no others: on every path through runMain, failed starts included.     *)
THEOREM LifecycleInvariant == CommandSpec => []Lifecycle
<1>1. Lifecycle /\ [CommandNext]_all => Lifecycle'
  BY StartLifecycle, StopLifecycle, WorkLifecycle, StoreLifecycle, OthersLifecycle
  DEF CommandNext, MainStep, WorkerStep, LoggerStep, FetchLoopStep
<1> QED
  BY <1>1, InitLifecycle, PTL DEF CommandSpec

(* No worker writes through a sink that was closed: a sink is closed by its  *)
(* own worker between two batches, or when no worker runs.                   *)
THEOREM WritesHaveSinks == CommandSpec => []SinkOutlivesWrites
<1>1. Lifecycle => SinkOutlivesWrites
  BY DEF Lifecycle, WorkersHaveSinks, SinkOutlivesWrites
<1> QED
  BY <1>1, LifecycleInvariant, PTL

(* A process that ends by itself, from whichever step of its start, its run  *)
(* or its stop, leaves nothing behind that it started.                       *)
THEOREM ExitsAreClean == CommandSpec => []CleanExit
<1>1. Lifecycle => CleanExit
  BY DEF Lifecycle, WorkersHaveSinks, PartsAsStep, CleanExit
<1> QED
  BY <1>1, LifecycleInvariant, PTL
-----------------------------------------------------------------------------
(* What main has loaded is what LoadConfig gives for the command line. *)
OptionsLoaded == main = "NewConnector" => opts = Resolve(settings)

(* A key to which viper gives a default: a flag, a variable, that default. *)
LEMMA ResolveAt ==
  ASSUME NEW s, NEW k \in DOMAIN ViperDefault
  PROVE  Resolve(s)[k] = IF k \in DOMAIN s.flags THEN s.flags[k]
                         ELSE IF k \in DOMAIN s.env THEN s.env[k] ELSE ViperDefault[k]
<1> DEFINE d == Over(ViperDefault, FlagDefault)
           e == Over(s.env, d)
<1>1. k \in DOMAIN d /\ d[k] = ViperDefault[k]
  BY DEF Over
<1>2. k \in DOMAIN e /\ e[k] = IF k \in DOMAIN s.env THEN s.env[k] ELSE ViperDefault[k]
  <2> HIDE DEF d
  <2> QED
    BY <1>1 DEF Over
<1>3. Resolve(s) = Over(s.flags, e)
  BY DEF Resolve
<1> HIDE DEF e
<1> QED
  BY <1>2, <1>3 DEF Over

(* The documented modes are those of viper. *)
LEMMA DocumentedModes ==
  /\ {"QdbCompression", "QdbEncryption", "QdbPushMode", "QdbDeduplicationMode"}
       \subseteq DOMAIN ViperDefault
  /\ ViperDefault["QdbCompression"] = "none"
  /\ ViperDefault["QdbEncryption"] = "none"
  /\ ViperDefault["QdbPushMode"] = "async"
  /\ ViperDefault["QdbDeduplicationMode"] = "drop"
<1>1. "QdbCompression" \in DOMAIN ViperDefault /\ "QdbEncryption" \in DOMAIN ViperDefault
  BY DEF ViperDefault
<1>2. "QdbPushMode" \in DOMAIN ViperDefault /\ "QdbDeduplicationMode" \in DOMAIN ViperDefault
  BY DEF ViperDefault
<1>3. ViperDefault["QdbCompression"] = "none" /\ ViperDefault["QdbEncryption"] = "none"
  BY DEF ViperDefault
<1>4. ViperDefault["QdbPushMode"] = "async" /\ ViperDefault["QdbDeduplicationMode"] = "drop"
  BY DEF ViperDefault
<1> QED
  BY <1>1, <1>2, <1>3, <1>4

(* A mode that parses is the value itself, or the value is empty. *)
LEMMA SinkOptionsModes ==
  ASSUME NEW o, NEW s \in SinkOptions(o)
  PROVE  /\ o["QdbCompression"] \in {s.Compression, ""}
         /\ o["QdbEncryption"] \in {s.Encryption, ""}
         /\ o["QdbPushMode"] \in {s.PushMode, ""}
         /\ o["QdbDeduplicationMode"] \in {s.DeduplicationMode, ""}
<1>1. PICK c \in Compression(o), e \in Encryption(o), p \in PushMode(o),
           d \in DeduplicationMode(o) :
        s = [Compression |-> c, Encryption |-> e, PushMode |-> p, DeduplicationMode |-> d,
             ClusterUri |-> o.QdbClusterUri,
             ClientMaxParallelism |-> o.QdbClientMaxParallelism,
             RetryAttempts |-> 10]
  BY DEF SinkOptions
<1>2. s.Compression = c /\ s.Encryption = e /\ s.PushMode = p /\ s.DeduplicationMode = d
  BY <1>1
<1>3. o.QdbCompression \in {c, ""}
  BY DEF ParseMode, Compression
<1>4. o.QdbEncryption \in {e, ""}
  BY DEF ParseMode, Encryption
<1>5. o.QdbPushMode \in {p, ""}
  BY DEF ParseMode, PushMode
<1>6. o.QdbDeduplicationMode \in {d, ""}
  BY DEF ParseMode, DeduplicationMode
<1> QED
  BY <1>2, <1>3, <1>4, <1>5, <1>6

(* Only Load enters NewConnector, and nothing there but the constructor     *)
(* touches the options or the command line.                                 *)
LEMMA OptionsLoadedStep ==
  ASSUME OptionsLoaded, [CommandNext]_all
  PROVE  OptionsLoaded'
<1>1. CASE Load
  <2>1. main' = "NewConnector" => opts' \in LoadConfig(settings) /\ settings' = settings
    BY <1>1 DEF Load, Exit
  <2> QED
    BY <2>1 DEF OptionsLoaded, LoadConfig
<1>2. CASE NewConnector \/ NewWorker \/ NewWorkerFails \/ StartTelemetry
           \/ StartStatsAndWatchdog \/ Connect \/ ConnectFails \/ RunReturns
           \/ StopWatchdog \/ StopStats \/ StopTelemetry \/ Close \/ Cancelled
  <2>1. main' # "NewConnector"
    BY <1>2 DEF NewConnector, Exit, NewWorker, NewWorkerFails, StartTelemetry,
                StartStatsAndWatchdog, Connect, ConnectFails, RunReturns, StopPart,
                StopWatchdog, StopStats, StopTelemetry, Close, Cancelled
  <2> QED
    BY <2>1 DEF OptionsLoaded
<1>3. CASE UNCHANGED <<settings, main, opts>>
  BY <1>3 DEF OptionsLoaded
<1>4. ASSUME ~MainStep, ~Cancelled
      PROVE  UNCHANGED <<settings, main, opts>>
  BY <1>4 DEF CommandNext, all, commandVars, LoadBecomes, WorkerReceives, WorkerStep,
              WorkerGoesOn, WorkerExits, AttendantReturns, Observe, FeedPending, StorePending,
              FetchLoopStep, LoggerStep, LoggerStarts,
              LoggerDrains, LoggerLine, LoggerTicks, LoggerReturns, Scrape, PendingStep,
              PetterReturns, Time
<1> QED
  BY <1>1, <1>2, <1>3, <1>4 DEF MainStep

(* The sink works in the modes the operator asked for, and in the documented *)
(* ones where nothing was asked, whatever the command line and environment.  *)
THEOREM ModesAreAsAsked == CommandSpec => []SinkModesAsAsked
<1>1. CommandInit => OptionsLoaded
  BY DEF CommandInit, OptionsLoaded
<1>2. OptionsLoaded /\ [CommandNext]_all => OptionsLoaded'
  BY OptionsLoadedStep
<1>3. OptionsLoaded => SinkModesAsAsked
  <2> SUFFICES ASSUME OptionsLoaded, main = "NewConnector", NEW s \in SinkOptions(opts)
               PROVE  LET Asked(key, documented) ==
                            IF key \in DOMAIN settings.flags THEN settings.flags[key]
                            ELSE IF key \in DOMAIN settings.env THEN settings.env[key]
                                 ELSE documented
                      IN /\ Asked("QdbCompression", "none") \in {s.Compression, ""}
                         /\ Asked("QdbEncryption", "none") \in {s.Encryption, ""}
                         /\ Asked("QdbPushMode", "async") \in {s.PushMode, ""}
                         /\ Asked("QdbDeduplicationMode", "drop") \in {s.DeduplicationMode, ""}
    BY DEF SinkModesAsAsked
  <2> DEFINE Value(key, documented) ==
               IF key \in DOMAIN settings.flags THEN settings.flags[key]
               ELSE IF key \in DOMAIN settings.env THEN settings.env[key] ELSE documented
  <2>1. opts = Resolve(settings)
    BY DEF OptionsLoaded
  <2>2. opts["QdbCompression"] = Value("QdbCompression", "none")
    BY <2>1, ResolveAt, DocumentedModes
  <2>3. opts["QdbEncryption"] = Value("QdbEncryption", "none")
    BY <2>1, ResolveAt, DocumentedModes
  <2>4. opts["QdbPushMode"] = Value("QdbPushMode", "async")
    BY <2>1, ResolveAt, DocumentedModes
  <2>5. opts["QdbDeduplicationMode"] = Value("QdbDeduplicationMode", "drop")
    BY <2>1, ResolveAt, DocumentedModes
  <2> QED
    BY <2>2, <2>3, <2>4, <2>5, SinkOptionsModes
<1> QED
  BY <1>1, <1>2, <1>3, PTL DEF CommandSpec
-----------------------------------------------------------------------------
(* The counters of a worker in the middle of a batch.                        *)

Counters == [processed : Int, parseFailures : Int, writeFailures : Int, dropped : Int,
             zeroRows : Int, rows : Int, acks : Int, nacks : Int]
Tally == [received : Int, abandoned : Int, failed : Int, unanswered : Int]

CountersType ==
  /\ DOMAIN stage = Workers /\ DOMAIN inHand = Workers
  /\ counters \in [Workers -> Counters]
  /\ tally \in [Workers -> Tally]
  /\ \A w \in Workers : stage[w] # "idle" => inHand[w] \in Batches
  /\ load.batches \in Seq(Batches) /\ "batches" \in DOMAIN load

(* The messages of the batch at hand that are not yet counted as processed,  *)
(* those that are processed and have no answer, and those without any.       *)
Unprocessed(w) == IF stage[w] = "parsed" THEN ValidCount(inHand[w]) ELSE 0
Unsettled(w) == IF stage[w] \in {"write", "emit", "ack"} THEN ValidCount(inHand[w]) ELSE 0
Open(w) == IF stage[w] = "parsed" THEN Size(inHand[w]) ELSE Unsettled(w)

Balanced(c, t, unprocessed, open, unsettled) ==
  /\ c.processed + c.parseFailures + t.abandoned + unprocessed = t.received
  /\ c.acks + c.nacks + t.unanswered + open = t.received
  /\ c.acks + unsettled <= c.processed
  /\ c.processed <= c.acks + t.failed + t.unanswered + unsettled

Balance(w) == Balanced(counters[w], tally[w], Unprocessed(w), Open(w), Unsettled(w))

CountersInv ==
  /\ CountersType
  /\ \A w \in Workers : stage[w] \in {"idle", "parsed", "write", "emit", "ack"} /\ Balance(w)

(* The counters are integers, for the arithmetic below. *)
LEMMA CountsAreInts ==
  ASSUME NEW c \in Counters, NEW t \in Tally
  PROVE  /\ c.processed \in Int /\ c.parseFailures \in Int /\ c.acks \in Int /\ c.nacks \in Int
         /\ t.received \in Int /\ t.abandoned \in Int /\ t.failed \in Int /\ t.unanswered \in Int
  BY DEF Counters, Tally

(* The rows of a function are a sum over its domain. *)
LEMMA RowsAreSum == \A f : RowsOf(f) = SumOver(f, DOMAIN f)
BY DEF RowsOf, SumOver

(* The rows per table of a finite set of tables are a natural number. *)
LEMMA RowsAreNat ==
  ASSUME NEW f, IsFiniteSet(DOMAIN f), \A k \in DOMAIN f : f[k] \in Nat
  PROVE  RowsOf(f) \in Nat /\ (RowsOf(f) = 0 <=> \A k \in DOMAIN f : f[k] = 0)
BY RowsAreSum, SumNat

(* So are the counts of a batch. *)
LEMMA BatchCounts ==
  ASSUME NEW b \in Batches
  PROVE  /\ b.failed \in Nat /\ b.dropped \in Nat /\ b.empty \in Nat /\ Rows(b) \in Nat
         /\ ValidCount(b) \in Nat /\ Size(b) = b.failed + ValidCount(b)
<1>1. /\ b.failed \in Nat /\ b.dropped \in Nat /\ b.empty \in Nat /\ b.filtered \in Nat
      /\ b.carrying \in Nat /\ b.rows \in [Tables -> Nat] /\ IsFiniteSet(Tables)
  BY WorkloadsAssumption, StatsAssumption
<1>2. Rows(b) \in Nat
  BY <1>1, RowsAreNat DEF Rows
<1> QED
  BY <1>1, <1>2 DEF ValidCount, Size

(* A step of one worker concerns its own counters. *)
LEMMA WorkerCounts ==
  ASSUME CountersInv, NEW w \in Workers, NEW c \in Counters, NEW t \in Tally,
         counters' = [counters EXCEPT ![w] = c], tally' = [tally EXCEPT ![w] = t],
         DOMAIN stage' = Workers, DOMAIN inHand' = Workers,
         \A v \in Workers \ {w} : stage'[v] = stage[v] /\ inHand'[v] = inHand[v],
         stage'[w] \in {"idle", "parsed", "write", "emit", "ack"},
         stage'[w] # "idle" => inHand'[w] \in Batches,
         load'.batches \in Seq(Batches), "batches" \in DOMAIN load',
         Balanced(c, t, Unprocessed(w)', Open(w)', Unsettled(w)')
  PROVE  CountersInv'
<1>1. /\ counters'[w] = c /\ tally'[w] = t
      /\ counters' \in [Workers -> Counters] /\ tally' \in [Workers -> Tally]
      /\ \A v \in Workers \ {w} : counters'[v] = counters[v] /\ tally'[v] = tally[v]
  BY DEF CountersInv, CountersType
<1>2. CountersType'
  BY <1>1 DEF CountersInv, CountersType
<1>3. ASSUME NEW v \in Workers
      PROVE  stage'[v] \in {"idle", "parsed", "write", "emit", "ack"} /\ Balance(v)'
  <2>1. CASE v = w
    BY <1>1, <2>1 DEF Balance
  <2>2. CASE v # w
    BY <1>1, <2>2 DEF CountersInv, Balance, Balanced, Unprocessed, Open, Unsettled
  <2> QED
    BY <2>1, <2>2
<1> QED
  BY <1>2, <1>3 DEF CountersInv

(* Becomes moves one worker, and leaves its batch unless it is done with it. *)
LEMMA BecomesStage ==
  ASSUME CountersInv, NEW w \in Workers, NEW s, Becomes(w, s)
  PROVE  /\ DOMAIN stage' = Workers /\ DOMAIN inHand' = Workers /\ stage'[w] = s
         /\ \A v \in Workers \ {w} : stage'[v] = stage[v] /\ inHand'[v] = inHand[v]
         /\ s # "idle" => inHand' = inHand
  BY DEF Becomes, CountersInv, CountersType

(* A worker takes a batch and counts what does not parse. *)
LEMMA ParseCounts ==
  ASSUME CountersInv, NEW w \in Workers, WorkerReceives(w)
  PROVE  CountersInv'
<1>1. PICK b : b = Head(load.batches)
  OBVIOUS
<1>2. /\ CountersType /\ Balance(w) /\ stage[w] = "idle"
      /\ load.batches \in Seq(Batches) /\ load.batches # <<>> /\ "batches" \in DOMAIN load
      /\ load' = [load EXCEPT !.batches = Tail(load.batches)]
  BY DEF CountersInv, CountersType, WorkerReceives, ParseMessages, At, LoadBecomes
<1>3. b \in Batches /\ Tail(load.batches) \in Seq(Batches)
  BY <1>1, <1>2
<1>4. load'.batches \in Seq(Batches) /\ "batches" \in DOMAIN load'
  BY <1>2, <1>3
<1>5. /\ stage' = [stage EXCEPT ![w] = "parsed"]
      /\ inHand' = [inHand EXCEPT ![w] = b]
      /\ counters' = [counters EXCEPT ![w].parseFailures = @ + b.failed,
                                      ![w].dropped = @ + b.dropped,
                                      ![w].zeroRows = @ + b.empty]
      /\ tally' = [tally EXCEPT ![w].received = @ + Size(b)]
  BY <1>1 DEF WorkerReceives, ParseMessages
<1>6. /\ b.failed \in Nat /\ b.dropped \in Nat /\ b.empty \in Nat
      /\ ValidCount(b) \in Nat /\ Size(b) = b.failed + ValidCount(b)
  BY <1>3, BatchCounts
<1>7. /\ counters[w] \in Counters /\ tally[w] \in Tally
      /\ stage'[w] = "parsed" /\ inHand'[w] = b
      /\ DOMAIN stage' = Workers /\ DOMAIN inHand' = Workers
      /\ \A v \in Workers \ {w} : stage'[v] = stage[v] /\ inHand'[v] = inHand[v]
  BY <1>2, <1>5 DEF CountersType
<1>8. PICK c \in Counters :
        /\ counters' = [counters EXCEPT ![w] = c]
        /\ c.processed = counters[w].processed
        /\ c.parseFailures = counters[w].parseFailures + b.failed
        /\ c.acks = counters[w].acks /\ c.nacks = counters[w].nacks
  <2>1. PICK c : c = [counters[w] EXCEPT !.parseFailures = @ + b.failed,
                                         !.dropped = @ + b.dropped,
                                         !.zeroRows = @ + b.empty]
    OBVIOUS
  <2>2. counters' = [counters EXCEPT ![w] = c]
    BY <1>5, <2>1
  <2>3. c \in Counters
    <3>1. PICK f \in Int, d \in Int, z \in Int :
            /\ f = counters[w].parseFailures + b.failed
            /\ d = counters[w].dropped + b.dropped
            /\ z = counters[w].zeroRows + b.empty
      BY <1>6, <1>7 DEF Counters
    <3>2. c = [counters[w] EXCEPT !.parseFailures = f, !.dropped = d, !.zeroRows = z]
      BY <2>1, <3>1
    <3> QED
      BY <1>7, <3>2 DEF Counters
  <2>4. /\ c.processed = counters[w].processed
        /\ c.parseFailures = counters[w].parseFailures + b.failed
        /\ c.acks = counters[w].acks /\ c.nacks = counters[w].nacks
    BY <1>7, <2>1 DEF Counters
  <2> QED
    BY <2>2, <2>3, <2>4
<1>9. PICK t \in Tally :
        /\ tally' = [tally EXCEPT ![w] = t]
        /\ t.received = tally[w].received + Size(b)
        /\ t.abandoned = tally[w].abandoned /\ t.failed = tally[w].failed
        /\ t.unanswered = tally[w].unanswered
  <2>1. PICK t : t = [tally[w] EXCEPT !.received = @ + Size(b)]
    OBVIOUS
  <2>2. tally' = [tally EXCEPT ![w] = t]
    BY <1>5, <2>1
  <2>3. t \in Tally
    BY <1>6, <1>7, <2>1 DEF Tally
  <2>4. /\ t.received = tally[w].received + Size(b)
        /\ t.abandoned = tally[w].abandoned /\ t.failed = tally[w].failed
        /\ t.unanswered = tally[w].unanswered
    BY <1>7, <2>1 DEF Tally
  <2> QED
    BY <2>2, <2>3, <2>4
<1>10. Balanced(c, t, Unprocessed(w)', Open(w)', Unsettled(w)')
  <2>1. Unprocessed(w) = 0 /\ Open(w) = 0 /\ Unsettled(w) = 0
    BY <1>2 DEF Unprocessed, Open, Unsettled
  <2>2. Unprocessed(w)' = ValidCount(b) /\ Open(w)' = Size(b) /\ Unsettled(w)' = 0
    BY <1>7 DEF Unprocessed, Open, Unsettled
  <2>3. Balanced(counters[w], tally[w], 0, 0, 0)
    BY <1>2, <2>1 DEF Balance
  <2>4. Balanced(c, t, ValidCount(b), Size(b), 0)
    BY <1>6, <1>7, <1>8, <1>9, <2>3, CountsAreInts DEF Balanced
  <2> QED
    BY <2>2, <2>4
<1> QED
  BY <1>3, <1>4, <1>7, <1>8, <1>9, <1>10, WorkerCounts

(* A worker goes through a batch: each step counts what it settles. *)
LEMMA WorkCounts ==
  ASSUME CountersInv, NEW w \in Workers, WorkerGoesOn(w)
  PROVE  CountersInv'
<1>1. /\ CountersType /\ Balance(w)
      /\ load'.batches \in Seq(Batches) /\ "batches" \in DOMAIN load'
      /\ counters[w] \in Counters /\ tally[w] \in Tally
      /\ counters = [counters EXCEPT ![w] = counters[w]]
      /\ tally = [tally EXCEPT ![w] = tally[w]]
  BY DEF CountersInv, CountersType, WorkerGoesOn, commandVars
<1>2. stage[w] # "idle" /\ inHand[w] \in Batches
  BY <1>1 DEF WorkerGoesOn, MergeFails, SettleFailures, WriteFails, AckValid, WriteSucceeds,
     Record, EmitNothing, At, CountersType
<1>3. PICK b \in Batches, c \in Counters, t \in Tally :
        b = inHand[w] /\ c = counters[w] /\ t = tally[w]
  BY <1>1, <1>2
<1>4. PICK n \in Nat, f \in Nat : n = ValidCount(b) /\ f = b.failed /\ Size(b) = f + n
  BY BatchCounts
<1>5. stage[w] = "parsed" => Balanced(c, t, n, f + n, 0)
  BY <1>1, <1>3, <1>4 DEF Balance, Unprocessed, Open, Unsettled
<1>6. stage[w] \in {"write", "emit", "ack"} => Balanced(c, t, 0, n, n)
  BY <1>1, <1>3, <1>4 DEF Balance, Unprocessed, Open, Unsettled
<1>7. SUFFICES ASSUME NEW s \in {"idle", "write", "emit", "ack"}, Becomes(w, s),
                      NEW d \in Counters, NEW u \in Tally,
                      counters' = [counters EXCEPT ![w] = d], tally' = [tally EXCEPT ![w] = u],
                      s = "idle" => Balanced(d, u, 0, 0, 0),
                      s # "idle" => Balanced(d, u, 0, n, n)
               PROVE  CountersInv'
  <2>1. CASE MergeFails(w)
    <3>1. PICK x \in Int, y \in Int : x = t.abandoned + n /\ y = t.unanswered + (f + n)
      BY CountsAreInts
    <3>2. PICK u : u = [t EXCEPT !.abandoned = x, !.unanswered = y]
      OBVIOUS
    <3>3. /\ u \in Tally /\ u.received = t.received /\ u.failed = t.failed
          /\ u.abandoned = x /\ u.unanswered = y
      BY <3>2 DEF Tally
    <3>4. tally' = [tally EXCEPT ![w] = u] /\ UNCHANGED counters /\ Becomes(w, "idle")
      BY <1>3, <1>4, <2>1, <3>1, <3>2 DEF MergeFails
    <3>5. Balanced(c, u, 0, 0, 0)
      BY <1>4, <1>5, <2>1, <3>1, <3>3, CountsAreInts DEF Balanced, MergeFails, At
    <3> QED
      BY <1>1, <1>3, <1>7, <3>3, <3>4, <3>5
  <2>2. ASSUME NEW ok \in BOOLEAN, SettleFailures(w, ok) PROVE CountersInv'
    <3>1. PICK x \in Int, y \in Int, z \in Int :
            /\ x = c.nacks + (IF ok THEN f ELSE 0) /\ y = c.processed + n
            /\ z = t.unanswered + (IF ok THEN 0 ELSE f)
      BY CountsAreInts
    <3>2. PICK d, u : /\ d = [c EXCEPT !.nacks = x, !.processed = y]
                      /\ u = [t EXCEPT !.unanswered = z]
      OBVIOUS
    <3>3. /\ d \in Counters /\ d.nacks = x /\ d.processed = y
          /\ d.parseFailures = c.parseFailures /\ d.acks = c.acks
          /\ u \in Tally /\ u.received = t.received /\ u.failed = t.failed
          /\ u.abandoned = t.abandoned /\ u.unanswered = z
      BY <3>2 DEF Counters, Tally
    <3>4. counters' = [counters EXCEPT ![w] = d]
      BY <1>3, <1>4, <2>2, <3>1, <3>2 DEF SettleFailures
    <3>5. tally' = [tally EXCEPT ![w] = u]
      <4>1. CASE ok
        <5>1. z = t.unanswered /\ tally' = tally
          BY <2>2, <3>1, <4>1, CountsAreInts DEF SettleFailures
        <5>2. u = t
          BY <3>2, <5>1 DEF Tally
        <5> QED
          BY <1>1, <1>3, <5>1, <5>2
      <4>2. CASE ~ok
        BY <1>3, <1>4, <2>2, <3>1, <3>2, <4>2 DEF SettleFailures
      <4> QED
        BY <4>1, <4>2
    <3>6. PICK s \in {"idle", "write", "ack"} : Becomes(w, s) /\ (s = "idle" => ~(n > 0))
      <4>1. PICK s : /\ s = CASE Rows(b) > 0 -> "write" [] n > 0 -> "ack" [] OTHER -> "idle"
                     /\ Becomes(w, s)
        BY <1>3, <1>4, <2>2 DEF SettleFailures
      <4>2. Rows(b) > 0 \/ ~(Rows(b) > 0)
        OBVIOUS
      <4> QED
        BY <4>1
    <3>7. Balanced(d, u, 0, n, n)
      BY <1>4, <1>5, <2>2, <3>1, <3>3, CountsAreInts DEF Balanced, SettleFailures, At
    <3>8. s = "idle" => n = 0
      BY <1>4, <3>6
    <3> QED
      BY <1>7, <3>3, <3>4, <3>5, <3>6, <3>7, <3>8
  <2>3. CASE WriteSucceeds(w)
    <3>1. PICK x \in Int : x = c.rows + Rows(b)
      BY BatchCounts DEF Counters
    <3>2. PICK d : d = [c EXCEPT !.rows = x]
      OBVIOUS
    <3>3. /\ d \in Counters /\ d.nacks = c.nacks /\ d.processed = c.processed
          /\ d.parseFailures = c.parseFailures /\ d.acks = c.acks
      BY <3>2 DEF Counters
    <3>4. counters' = [counters EXCEPT ![w] = d] /\ UNCHANGED tally /\ Becomes(w, "emit")
      BY <1>3, <2>3, <3>1, <3>2 DEF WriteSucceeds
    <3>5. Balanced(d, t, 0, n, n)
      BY <1>6, <2>3, <3>3 DEF Balanced, WriteSucceeds, At
    <3> QED
      BY <1>1, <1>3, <1>7, <3>3, <3>4, <3>5
  <2>4. ASSUME NEW ok \in BOOLEAN, WriteFails(w, ok) PROVE CountersInv'
    <3>1. PICK x \in Int, y \in Int, z \in Int, v \in Int :
            /\ v = c.writeFailures + 1 /\ x = c.nacks + (IF ok THEN n ELSE 0)
            /\ y = t.failed + n /\ z = t.unanswered + (IF ok THEN 0 ELSE n)
      BY CountsAreInts DEF Counters
    <3>2. PICK d, u : /\ d = [c EXCEPT !.writeFailures = v, !.nacks = x]
                      /\ u = [t EXCEPT !.failed = y, !.unanswered = z]
      OBVIOUS
    <3>3. /\ d \in Counters /\ d.nacks = x /\ d.processed = c.processed
          /\ d.parseFailures = c.parseFailures /\ d.acks = c.acks
          /\ u \in Tally /\ u.received = t.received /\ u.failed = y
          /\ u.abandoned = t.abandoned /\ u.unanswered = z
      BY <3>2 DEF Counters, Tally
    <3>4. counters' = [counters EXCEPT ![w] = d]
      BY <1>3, <1>4, <2>4, <3>1, <3>2 DEF WriteFails
    <3>5. tally' = [tally EXCEPT ![w] = u] /\ Becomes(w, "idle")
      BY <1>3, <1>4, <2>4, <3>1, <3>2 DEF WriteFails
    <3>6. Balanced(d, u, 0, 0, 0)
      BY <1>4, <1>6, <2>4, <3>1, <3>3, CountsAreInts DEF Balanced, WriteFails, At
    <3> QED
      BY <1>7, <3>3, <3>4, <3>5, <3>6
  <2>5. CASE Record(w) \/ EmitNothing(w)
    <3>1. UNCHANGED <<counters, tally>> /\ Becomes(w, "ack") /\ stage[w] = "emit"
      BY <2>5 DEF Record, EmitNothing, At
    <3> QED
      BY <1>1, <1>3, <1>6, <1>7, <3>1
  <2>6. ASSUME NEW ok \in BOOLEAN, AckValid(w, ok) PROVE CountersInv'
    <3>1. stage[w] = "ack" /\ Becomes(w, "idle") /\ Balanced(c, t, 0, n, n)
      BY <1>6, <2>6 DEF AckValid, At
    <3>2. CASE ok
      <4>1. PICK x \in Int : x = c.acks + n
        BY CountsAreInts
      <4>2. PICK d : d = [c EXCEPT !.acks = x]
        OBVIOUS
      <4>3. /\ d \in Counters /\ d.nacks = c.nacks /\ d.processed = c.processed
            /\ d.parseFailures = c.parseFailures /\ d.acks = x
        BY <4>2 DEF Counters
      <4>4. counters' = [counters EXCEPT ![w] = d] /\ UNCHANGED tally
        BY <1>3, <1>4, <2>6, <3>2, <4>1, <4>2 DEF AckValid
      <4>5. Balanced(d, t, 0, 0, 0)
        BY <1>4, <3>1, <4>1, <4>3, CountsAreInts DEF Balanced
      <4> QED
        BY <1>1, <1>3, <1>7, <3>1, <4>3, <4>4, <4>5
    <3>3. CASE ~ok
      <4>1. PICK x \in Int : x = t.unanswered + n
        BY CountsAreInts
      <4>2. PICK u : u = [t EXCEPT !.unanswered = x]
        OBVIOUS
      <4>3. /\ u \in Tally /\ u.received = t.received /\ u.failed = t.failed
            /\ u.abandoned = t.abandoned /\ u.unanswered = x
        BY <4>2 DEF Tally
      <4>4. tally' = [tally EXCEPT ![w] = u] /\ UNCHANGED counters
        BY <1>3, <1>4, <2>6, <3>3, <4>1, <4>2 DEF AckValid
      <4>5. Balanced(c, u, 0, 0, 0)
        BY <1>4, <3>1, <4>1, <4>3, CountsAreInts DEF Balanced
      <4> QED
        BY <1>1, <1>3, <1>7, <3>1, <4>3, <4>4, <4>5
    <3> QED
      BY <3>2, <3>3
  <2> QED
    BY <2>1, <2>2, <2>3, <2>4, <2>5, <2>6 DEF WorkerGoesOn
<1>8. /\ DOMAIN stage' = Workers /\ DOMAIN inHand' = Workers /\ stage'[w] = s
      /\ \A v \in Workers \ {w} : stage'[v] = stage[v] /\ inHand'[v] = inHand[v]
      /\ s # "idle" => inHand'[w] = b
  BY <1>3, <1>7, BecomesStage
<1>9. Balanced(d, u, Unprocessed(w)', Open(w)', Unsettled(w)')
  BY <1>4, <1>7, <1>8 DEF Unprocessed, Open, Unsettled
<1> QED
  BY <1>1, <1>7, <1>8, <1>9, WorkerCounts

(* Every other step leaves the counters and the batches at hand alone. *)
LEMMA OthersKeepCounters ==
  ASSUME CountersInv, [CommandNext]_all,
         ~(\E w \in Workers : WorkerReceives(w) \/ WorkerGoesOn(w))
  PROVE  CountersInv'
<1>1. UNCHANGED workerVars
  <2> USE DEF inner, statsVars, workerVars
  <2>1. CASE MainStep
    BY <2>1 DEF MainStep, Load, NewConnector, NewWorker, NewWorkerFails, StartTelemetry,
       StartStatsAndWatchdog, Connect, ConnectFails, RunReturns, StopWatchdog, StopStats,
       StopTelemetry, Close
  <2>2. CASE \/ Cancelled \/ PetterReturns \/ \E w \in Workers : WorkerExits(w)
             \/ AttendantReturns("fetchLoop") \/ AttendantReturns("monitor")
    BY <2>2 DEF Cancelled, PetterReturns, WorkerExits, AttendantReturns
  <2>3. CASE \/ Observe \/ FeedPending \/ StorePending
             \/ Scrape \/ PendingStep("stats") \/ PendingStep("scrape")
    BY <2>3 DEF Observe, FeedPending, StorePending, Scrape, PendingStep
  <2>4. CASE LoggerDrains
    BY <2>4 DEF LoggerDrains, ReceiveEvents, AddEvent
  <2>5. CASE LoggerStarts \/ LoggerLine \/ LoggerTicks \/ LoggerReturns \/ Time
    BY <2>5 DEF LoggerStarts, StatsStart, LoggerLine, TickEnds, LoggerTicks, TickBegins,
       LoggerReturns, StatsReturns, Time, NextMinute
  <2>6. CASE UNCHANGED all
    BY <2>6 DEF all
  <2> QED
    BY <2>1, <2>2, <2>3, <2>4, <2>5, <2>6 DEF CommandNext, WorkerStep, LoggerStep, FetchLoopStep
<1>2. \/ load' = load \/ load' \in Workloads
      \/ \E x : load' = [load EXCEPT !.lags = x] \/ load' = [load EXCEPT !.minutes = x]
  <2>1. CASE MainStep
    BY <2>1 DEF MainStep, Load, Exit, NewConnector, NewWorker, NewWorkerFails, StartTelemetry,
       StartStatsAndWatchdog, Connect, ConnectFails, RunReturns, StopWatchdog, StopStats,
       StopTelemetry, Close
  <2>2. CASE \/ Cancelled \/ PetterReturns \/ StorePending \/ \E w \in Workers : WorkerExits(w)
             \/ AttendantReturns("fetchLoop") \/ AttendantReturns("monitor")
    BY <2>2 DEF Cancelled, PetterReturns, StorePending, WorkerExits, AttendantReturns
  <2>3. CASE Observe \/ Time
    BY <2>3 DEF Observe, Time, LoadBecomes, commandVars
  <2>4. CASE \/ FeedPending \/ Scrape \/ PendingStep("stats") \/ PendingStep("scrape")
             \/ LoggerDrains \/ LoggerStarts \/ LoggerLine \/ LoggerTicks \/ LoggerReturns
    BY <2>4 DEF FeedPending, Scrape, PendingStep, LoggerDrains, LoggerStarts, LoggerLine,
       LoggerTicks, LoggerReturns, commandVars
  <2>5. CASE UNCHANGED all
    BY <2>5 DEF all, commandVars
  <2> QED
    BY <2>1, <2>2, <2>3, <2>4, <2>5 DEF CommandNext, WorkerStep, LoggerStep, FetchLoopStep
<1>3. load'.batches \in Seq(Batches) /\ "batches" \in DOMAIN load'
  BY <1>2, WorkloadsAssumption DEF CountersInv, CountersType
<1> QED
  BY <1>1, <1>3 DEF workerVars, CountersInv, CountersType, Balance, Balanced, Unprocessed, Open,
     Unsettled

(* In the middle of a batch a worker's counters owe each other what the      *)
(* stage it is in has not yet counted.                                       *)
THEOREM CountersInvariant == CommandSpec => []CountersInv
<1>1. CommandInit => CountersInv
  <2> SUFFICES ASSUME CommandInit PROVE CountersInv
    OBVIOUS
  <2>1. CountersType
    BY DEF CommandInit, StatsInit, CountersType, Counters, Tally, Idle
  <2>2. ASSUME NEW w \in Workers PROVE stage[w] = "idle" /\ Balance(w)
    BY DEF CommandInit, StatsInit, Balance, Balanced, Unprocessed, Open, Unsettled
  <2> QED
    BY <2>1, <2>2 DEF CountersInv
<1>2. CountersInv /\ [CommandNext]_all => CountersInv'
  BY ParseCounts, WorkCounts, OthersKeepCounters
<1> QED
  BY <1>1, <1>2, PTL DEF CommandSpec

(* Between two batches the counters of every worker add up, however many     *)
(* batches it went through and whichever steps of them failed.               *)
THEOREM CountersAddUp == CommandSpec => []CountersBalance
<1>1. CountersInv => CountersBalance
  <2> SUFFICES ASSUME CountersInv, NEW w \in Workers, stage[w] = "idle"
               PROVE  LET c == counters[w]
                          t == tally[w]
                      IN /\ c.processed + c.parseFailures + t.abandoned = t.received
                         /\ c.acks + c.nacks + t.unanswered = t.received
                         /\ c.acks <= c.processed
                         /\ c.processed <= c.acks + t.failed + t.unanswered
    BY DEF CountersBalance
  <2>1. Balanced(counters[w], tally[w], 0, 0, 0)
    BY DEF CountersInv, Balance, Unprocessed, Open, Unsettled
  <2>2. counters[w] \in Counters /\ tally[w] \in Tally
    BY DEF CountersInv, CountersType
  <2> QED
    BY <2>1, <2>2, CountsAreInts DEF Balanced
<1> QED
  BY <1>1, CountersInvariant, PTL
-----------------------------------------------------------------------------
(* The events of the workers.                                                *)

Events == UNION {[T -> Nat \ {0}] : T \in SUBSET Tables}

EventsType ==
  /\ lost \in Nat /\ dropped \in Nat
  /\ events \in Seq(Events) /\ slice \in Events /\ (logger # "add" => DOMAIN slice = {})
  /\ minute \in Int /\ minute \in DOMAIN added /\ IsFiniteSet(DOMAIN added)
  /\ \A m \in DOMAIN added : added[m] \in [Tables -> Nat]
  /\ \A w \in Workers : stage[w] \in {"write", "emit"} => Rows(inHand[w]) > 0

(* The rows are accounted for from the start; without stats, only until main *)
(* knows.                                                                    *)
EventsInv ==
  /\ EventsType
  /\ main = "LoadConfig" \/ StatsEnabled => RowsAccounted

(* An event has a finite number of rows. *)
LEMMA EventRows ==
  ASSUME NEW e \in Events
  PROVE  /\ DOMAIN e \subseteq Tables /\ IsFiniteSet(DOMAIN e)
         /\ \A t \in DOMAIN e : e[t] \in Nat \ {0}
         /\ RowsOf(e) \in Nat
<1>1. PICK T \in SUBSET Tables : e \in [T -> Nat \ {0}]
  BY DEF Events
<1>2. DOMAIN e = T /\ IsFiniteSet(T) /\ \A t \in DOMAIN e : e[t] \in Nat \ {0}
  BY <1>1, StatsAssumption, FS_Subset
<1> QED
  BY <1>2, RowsAreNat

(* tableWritesFor leaves out the tables without rows, and no row. *)
LEMMA TableWrites ==
  ASSUME NEW b \in Batches
  PROVE  /\ TableWritesFor(b) \in Events
         /\ RowsOf(TableWritesFor(b)) = Rows(b)
         /\ Rows(b) > 0 => DOMAIN TableWritesFor(b) # {}
<1> DEFINE T == {t \in Tables : b.rows[t] > 0}
           e == [t \in T |-> b.rows[t]]
<1>1. e = TableWritesFor(b)
  BY DEF TableWritesFor
<1>2. IsFiniteSet(Tables) /\ T \in SUBSET Tables
  BY StatsAssumption
<1>3. b.rows \in [Tables -> Nat] /\ DOMAIN b.rows = Tables
  BY WorkloadsAssumption
<1>4. e \in [T -> Nat \ {0}]
  BY <1>2, <1>3
<1>5. e \in Events
  BY <1>2, <1>4 DEF Events
<1>6. IsFiniteSet(T)
  BY <1>2, FS_Subset
<1>7. \A t \in Tables : b.rows[t] \in Int
  BY <1>3
<1>8. \A t \in Tables \ T : b.rows[t] = 0
  BY <1>3
<1>9. DOMAIN e = T /\ \A t \in T : e[t] = b.rows[t]
  OBVIOUS
<1> HIDE DEF T, e
<1>10. SumOver(b.rows, Tables) = SumOver(b.rows, T)
  BY <1>2, <1>7, <1>8, SumZeros
<1>11. SumOver(e, T) = SumOver(b.rows, T)
  BY <1>6, <1>9, SumSame
<1>12. RowsOf(e) = Rows(b)
  BY <1>3, <1>9, <1>10, <1>11, RowsAreSum DEF Rows
<1>13. Rows(b) > 0 => DOMAIN e # {}
  <2>1. T = {} => SumOver(e, T) = 0
    BY <1>6, SumAt
  <2>2. DOMAIN e = {} => Rows(b) = 0
    BY <1>9, <1>12, <2>1, RowsAreSum
  <2>3. Rows(b) \in Nat
    BY BatchCounts
  <2> QED
    BY <2>2, <2>3
<1> QED
  BY <1>1, <1>5, <1>12, <1>13

(* The rows of a queue, as events come and go. *)
LEMMA QueueRows ==
  ASSUME NEW q \in Seq(Events)
  PROVE  /\ RowsOfAll(q) \in Nat
         /\ \A e \in Events : RowsOfAll(Append(q, e)) = RowsOfAll(q) + RowsOf(e)
         /\ q # <<>> => RowsOfAll(q) = RowsOf(Head(q)) + RowsOfAll(Tail(q))
<1> DEFINE R(s) == [i \in DOMAIN s |-> RowsOf(s[i])]
<1>1. \A s : RowsOfAll(s) = SumOver(R(s), DOMAIN s)
  BY RowsAreSum DEF RowsOfAll
<1>2. \A s \in Seq(Events) : /\ DOMAIN s = 1..Len(s) /\ Len(s) \in Nat
                             /\ \A i \in DOMAIN s : RowsOf(s[i]) \in Nat
  BY EventRows
<1>3. \A s \in Seq(Events) : \A i \in 1..Len(s) : R(s)[i] = RowsOf(s[i]) /\ R(s)[i] \in Nat
  BY <1>2
<1>4. \A s \in Seq(Events) : RowsOfAll(s) = SumOver(R(s), 1..Len(s))
  BY <1>1, <1>2
<1>5. \A s \in Seq(Events) : IsFiniteSet(1..Len(s))
  BY <1>2, FS_Interval
<1> HIDE DEF R
<1>6. RowsOfAll(q) \in Nat
  BY <1>3, <1>4, <1>5, SumNat
<1>7. ASSUME NEW e \in Events
      PROVE  RowsOfAll(Append(q, e)) = RowsOfAll(q) + RowsOf(e)
  <2> DEFINE s == Append(q, e)
             n == Len(q)
  <2>1. /\ s \in Seq(Events) /\ n \in Nat /\ Len(s) = n + 1
        /\ s[n + 1] = e /\ \A i \in 1..n : s[i] = q[i]
    OBVIOUS
  <2> HIDE DEF s, n
  <2>2. \A i \in 1..n + 1 : R(s)[i] \in Int
    BY <1>3, <2>1
  <2>3. SumOver(R(s), 1..n + 1) = R(s)[n + 1] + SumOver(R(s), 1..n)
    <3>1. n + 1 \in Nat /\ n + 1 > 0 /\ (n + 1) - 1 = n
      BY <2>1
    <3> QED
      BY <2>2, <3>1, SumLast
  <2>4. R(s)[n + 1] = RowsOf(e)
    BY <1>3, <2>1
  <2>5. \A i \in 1..n : R(s)[i] = R(q)[i]
    <3>1. \A i \in 1..n : i \in 1..Len(s) /\ i \in 1..Len(q)
      BY <2>1 DEF n
    <3> QED
      BY <1>3, <2>1, <3>1
  <2>6. SumOver(R(s), 1..n) = SumOver(R(q), 1..n)
    BY <1>5, <2>5, SumSame DEF n
  <2>7. RowsOfAll(s) = SumOver(R(s), 1..n + 1) /\ RowsOfAll(q) = SumOver(R(q), 1..n)
    BY <1>4, <2>1 DEF n
  <2>8. RowsOf(e) \in Nat
    BY EventRows
  <2> QED
    BY <1>6, <2>3, <2>4, <2>6, <2>7, <2>8 DEF s
<1>8. ASSUME q # <<>>
      PROVE  RowsOfAll(q) = RowsOf(Head(q)) + RowsOfAll(Tail(q))
  <2> DEFINE s == Tail(q)
             n == Len(s)
  <2>1. /\ s \in Seq(Events) /\ n \in Nat /\ Len(q) = n + 1
        /\ q[1] = Head(q) /\ \A i \in 1..n : s[i] = q[i + 1]
    BY <1>8
  <2> HIDE DEF s, n
  <2>2. \A i \in 1..n + 1 : R(q)[i] \in Int
    BY <1>3, <2>1
  <2>3. \A i \in 1..n : R(s)[i] = R(q)[i + 1]
    <3>1. \A i \in 1..n : i \in 1..Len(s) /\ i + 1 \in 1..Len(q)
      BY <2>1 DEF n
    <3> QED
      BY <1>3, <2>1, <3>1
  <2>4. SumOver(R(q), 1..n + 1) = R(q)[1] + SumOver(R(s), 1..n)
    BY <2>1, <2>2, <2>3, SumTail
  <2>5. R(q)[1] = RowsOf(Head(q))
    BY <1>3, <2>1
  <2> QED
    BY <1>4, <2>1, <2>4, <2>5 DEF s, n
<1> QED
  BY <1>6, <1>7, <1>8

(* h is g with the rows of an event. *)
Plus(h, g, e) == \A t \in Tables : h[t] = g[t] + (IF t \in DOMAIN e THEN e[t] ELSE 0)

(* The rows of the minutes, as an event is added to one. *)
LEMMA MinuteRows ==
  ASSUME NEW a, IsFiniteSet(DOMAIN a), \A m \in DOMAIN a : a[m] \in [Tables -> Nat]
  PROVE  /\ RowsOfAll(a) \in Nat
         /\ \A m \in DOMAIN a, e \in Events, h \in [Tables -> Nat] :
              Plus(h, a[m], e) => RowsOfAll([a EXCEPT ![m] = h]) = RowsOfAll(a) + RowsOf(e)
         /\ \A m : m \notin DOMAIN a =>
              RowsOfAll([k \in DOMAIN a \cup {m} |-> IF k \in DOMAIN a THEN a[k] ELSE NoBatch.rows])
                = RowsOfAll(a)
<1> DEFINE R(f) == [i \in DOMAIN f |-> RowsOf(f[i])]
<1>1. \A f : RowsOfAll(f) = SumOver(R(f), DOMAIN f)
  BY RowsAreSum DEF RowsOfAll
<1>2. \A h \in [Tables -> Nat] : RowsOf(h) = SumOver(h, Tables) /\ RowsOf(h) \in Nat
  BY StatsAssumption, RowsAreSum, RowsAreNat
<1>3. \A m \in DOMAIN a : R(a)[m] = RowsOf(a[m]) /\ R(a)[m] \in Nat
  BY <1>2
<1>4. RowsOfAll(a) \in Nat
  <2> HIDE DEF R
  <2> QED
    BY <1>1, <1>3, SumNat
<1>5. ASSUME NEW m \in DOMAIN a, NEW e \in Events, NEW h \in [Tables -> Nat],
             Plus(h, a[m], e)
      PROVE  RowsOfAll([a EXCEPT ![m] = h]) = RowsOfAll(a) + RowsOf(e)
  <2> DEFINE z == [t \in Tables |-> IF t \in DOMAIN e THEN e[t] ELSE 0]
             c == [a EXCEPT ![m] = h]
  <2>1. DOMAIN c = DOMAIN a /\ c[m] = h /\ \A k \in DOMAIN a \ {m} : c[k] = a[k]
    OBVIOUS
  <2>2. DOMAIN e \in SUBSET Tables /\ IsFiniteSet(DOMAIN e) /\ IsFiniteSet(Tables)
    BY EventRows, StatsAssumption
  <2>3. \A t \in DOMAIN e : e[t] \in Nat
    BY EventRows
  <2>4. /\ \A t \in Tables : z[t] \in Int
        /\ \A t \in Tables \ DOMAIN e : z[t] = 0
        /\ \A t \in DOMAIN e : z[t] = e[t]
    BY <2>2, <2>3
  <2>5. \A t \in Tables : a[m][t] \in Int /\ h[t] = a[m][t] + z[t]
    BY <1>5 DEF Plus
  <2> HIDE DEF z, c
  <2>6. SumOver(h, Tables) = SumOver(a[m], Tables) + SumOver(z, Tables)
    BY <2>2, <2>4, <2>5, SumPlus
  <2>7. SumOver(z, Tables) = SumOver(z, DOMAIN e)
    BY <2>2, <2>4, SumZeros
  <2>8. SumOver(z, DOMAIN e) = RowsOf(e)
    BY <2>2, <2>4, SumSame, RowsAreSum
  <2>9. RowsOf(h) = RowsOf(a[m]) + RowsOf(e)
    BY <1>2, <2>6, <2>7, <2>8
  <2>10. /\ R(c)[m] = RowsOf(h) /\ R(c)[m] \in Int
         /\ \A k \in DOMAIN a : R(c)[k] \in Int /\ R(a)[k] \in Int
         /\ \A k \in DOMAIN a \ {m} : R(a)[k] = R(c)[k]
    BY <1>2, <1>3, <2>1
  <2>11. R(a)[m] = RowsOf(a[m])
    BY <1>3
  <2> HIDE DEF R
  <2>12. SumOver(R(c), DOMAIN a) = SumOver(R(a), DOMAIN a) - R(a)[m] + R(c)[m]
    BY <2>10, SumUpdate
  <2>13. RowsOfAll(c) = SumOver(R(c), DOMAIN a) /\ RowsOfAll(a) = SumOver(R(a), DOMAIN a)
    BY <1>1, <2>1
  <2>14. RowsOf(e) \in Nat /\ RowsOf(a[m]) \in Nat
    BY <1>2, EventRows
  <2> QED
    BY <1>4, <2>9, <2>10, <2>11, <2>12, <2>13, <2>14 DEF c
<1>6. ASSUME NEW m, m \notin DOMAIN a
      PROVE  RowsOfAll([k \in DOMAIN a \cup {m} |-> IF k \in DOMAIN a THEN a[k] ELSE NoBatch.rows])
               = RowsOfAll(a)
  <2> DEFINE c == [k \in DOMAIN a \cup {m} |-> IF k \in DOMAIN a THEN a[k] ELSE NoBatch.rows]
             S == DOMAIN a \cup {m}
  <2>1. NoBatch.rows = [t \in Tables |-> 0]
    BY DEF NoBatch
  <2>2. /\ DOMAIN c = S /\ c[m] = NoBatch.rows /\ \A k \in DOMAIN a : c[k] = a[k]
    BY <1>6
  <2>3. NoBatch.rows \in [Tables -> Nat] /\ \A t \in Tables : NoBatch.rows[t] = 0
    BY <2>1
  <2>4. RowsOf(NoBatch.rows) = 0
    BY <2>3, StatsAssumption, RowsAreNat
  <2>5. IsFiniteSet(S) /\ DOMAIN a \in SUBSET S
    BY FS_AddElement
  <2> HIDE DEF c
  <2>6. /\ \A k \in S : R(c)[k] \in Int
        /\ \A k \in S \ DOMAIN a : R(c)[k] = 0
        /\ \A k \in DOMAIN a : R(c)[k] = R(a)[k]
    BY <1>3, <2>2, <2>4
  <2> HIDE DEF R, S
  <2>7. SumOver(R(c), S) = SumOver(R(c), DOMAIN a)
    BY <2>5, <2>6, SumZeros
  <2>8. SumOver(R(c), DOMAIN a) = SumOver(R(a), DOMAIN a)
    BY <2>6, SumSame
  <2>9. RowsOfAll(c) = RowsOfAll(a)
    BY <1>1, <2>2, <2>7, <2>8
  <2> QED
    BY <2>9 DEF c
<1> QED
  BY <1>4, <1>5, <1>6

(* What each worker has counted as written, and has not yet handed on. *)
Written == [w \in Workers |-> counters[w].rows]
Unsent == [w \in Workers |-> IF At(w, "emit") THEN Rows(inHand[w]) ELSE 0]

RowsOfWorkers ==
  /\ \A w \in Workers : Written[w] \in Int /\ Unsent[w] \in Int
  /\ RowsOf(Written) = SumOver(Written, Workers) /\ RowsOf(Unsent) = SumOver(Unsent, Workers)
  /\ RowsOf(Written) \in Int /\ RowsOf(Unsent) \in Int

(* The rows a worker counted, and those in its hand, are numbers. *)
LEMMA WorkerRows == CountersInv => RowsOfWorkers
<1> SUFFICES ASSUME CountersInv PROVE RowsOfWorkers
  OBVIOUS
<1>1. DOMAIN Written = Workers /\ DOMAIN Unsent = Workers
  BY DEF Written, Unsent
<1>2. ASSUME NEW w \in Workers PROVE Written[w] \in Int /\ Unsent[w] \in Int
  <2>1. counters[w].rows \in Int
    BY DEF CountersInv, CountersType, Counters
  <2>2. At(w, "emit") => Rows(inHand[w]) \in Nat
    BY BatchCounts DEF CountersInv, CountersType, At
  <2> QED
    BY <2>1, <2>2 DEF Written, Unsent
<1>3. IsFiniteSet(Workers)
  BY StatsAssumption
<1>4. RowsOf(Written) = SumOver(Written, Workers) /\ RowsOf(Unsent) = SumOver(Unsent, Workers)
  BY <1>1, RowsAreSum
<1> QED
  BY <1>2, <1>3, <1>4, SumType DEF RowsOfWorkers

(* One worker changes its part of the sums. *)
LEMMA WorkerMovesRows ==
  ASSUME CountersInv, CountersInv', NEW w \in Workers,
         \A v \in Workers \ {w} :
           counters'[v] = counters[v] /\ stage'[v] = stage[v] /\ inHand'[v] = inHand[v]
  PROVE  /\ RowsOf(Written)' = RowsOf(Written) - Written[w] + Written'[w]
         /\ RowsOf(Unsent)' = RowsOf(Unsent) - Unsent[w] + Unsent'[w]
<1>1. RowsOfWorkers /\ RowsOfWorkers'
  <2>1. RowsOfWorkers
    BY WorkerRows
  <2>2. CountersInv' => RowsOfWorkers'
    BY WorkerRows, PTL
  <2> QED
    BY <2>1, <2>2
<1>2. /\ \A v \in Workers : Written[v] \in Int /\ Unsent[v] \in Int
      /\ \A v \in Workers : Written'[v] \in Int /\ Unsent'[v] \in Int
      /\ RowsOf(Written) = SumOver(Written, Workers) /\ RowsOf(Unsent) = SumOver(Unsent, Workers)
      /\ RowsOf(Written)' = SumOver(Written', Workers)
      /\ RowsOf(Unsent)' = SumOver(Unsent', Workers)
  BY <1>1 DEF RowsOfWorkers
<1>3. \A v \in Workers \ {w} : Written[v] = Written'[v] /\ Unsent[v] = Unsent'[v]
  BY DEF Written, Unsent, At
<1>4. IsFiniteSet(Workers)
  BY StatsAssumption
<1>5. SumOver(Written', Workers) = SumOver(Written, Workers) - Written[w] + Written'[w]
  BY <1>2, <1>3, <1>4, SumUpdate
<1>6. SumOver(Unsent', Workers) = SumOver(Unsent, Workers) - Unsent[w] + Unsent'[w]
  BY <1>2, <1>3, <1>4, SumUpdate
<1> QED
  BY <1>2, <1>5, <1>6

(* What the sums are made of, apart from the workers. *)
LEMMA RowsElsewhere ==
  ASSUME EventsType
  PROVE  /\ lost \in Nat /\ RowsOfAll(events) \in Nat /\ RowsOfAll(added) \in Nat
         /\ RowsOf(slice) \in Nat
BY QueueRows, MinuteRows, EventRows DEF EventsType

(* A worker that is not about to emit before nor after its step. *)
LEMMA QuietWorker ==
  ASSUME EventsInv, CountersInv, CountersInv', NEW w \in Workers,
         main # "LoadConfig", UNCHANGED <<main, opts, eventVars, added, minute, slice, logger>>,
         \A v \in Workers \ {w} :
           counters'[v] = counters[v] /\ stage'[v] = stage[v] /\ inHand'[v] = inHand[v],
         counters'[w].rows = counters[w].rows, stage[w] # "emit", stage'[w] # "emit",
         stage'[w] = "write" => Rows(inHand'[w]) > 0
  PROVE  EventsInv'
<1>1. EventsType'
  BY DEF EventsInv, EventsType, eventVars
<1>2. Written'[w] = Written[w] /\ Unsent[w] = 0 /\ Unsent'[w] = 0
  BY DEF Written, Unsent, At
<1>3. RowsOfWorkers
  BY WorkerRows
<1>4. RowsOf(Written)' = RowsOf(Written) /\ RowsOf(Unsent)' = RowsOf(Unsent)
  BY <1>2, <1>3, WorkerMovesRows DEF RowsOfWorkers
<1>5. StatsEnabled' => RowsAccounted'
  BY <1>4 DEF EventsInv, RowsAccounted, Written, Unsent, StatsEnabled, eventVars
<1> QED
  BY <1>1, <1>5 DEF EventsInv

(* Only running workers work, and none does while main loads its options. *)
LEMMA WorkersRunLater ==
  ASSUME Lifecycle, NEW w \in Workers, w \in running \/ stage[w] # "idle"
  PROVE  main # "LoadConfig"
BY DEF Lifecycle, WorkersHaveSinks

(* A worker counts its rows as written, and hands their event on. *)
LEMMA WorkEvents ==
  ASSUME EventsInv, CountersInv, CountersInv', Lifecycle, NEW w \in Workers, WorkerGoesOn(w)
  PROVE  EventsInv'
<1>1. /\ DOMAIN stage = Workers /\ DOMAIN inHand = Workers
      /\ counters \in [Workers -> Counters] /\ counters[w] \in Counters
  BY DEF CountersInv, CountersType
<1>2. stage[w] # "idle" /\ inHand[w] \in Batches
  BY DEF CountersInv, CountersType, WorkerGoesOn, MergeFails, SettleFailures, WriteFails,
     AckValid, WriteSucceeds, Record, EmitNothing, At
<1>3. main # "LoadConfig" /\ UNCHANGED <<main, opts>>
  BY <1>2, WorkersRunLater DEF WorkerGoesOn, commandVars
<1>4. PICK b \in Batches : b = inHand[w]
  BY <1>2
<1>5. Rows(b) \in Nat
  BY BatchCounts
<1>6. RowsOfWorkers /\ EventsType
  BY WorkerRows DEF EventsInv
<1>7. /\ lost \in Nat /\ RowsOfAll(events) \in Nat /\ RowsOfAll(added) \in Nat
      /\ RowsOf(slice) \in Nat
  BY <1>6, RowsElsewhere
<1>8. CASE \/ MergeFails(w)
           \/ \E ok \in BOOLEAN : SettleFailures(w, ok) \/ WriteFails(w, ok) \/ AckValid(w, ok)
  <2>1. UNCHANGED <<eventVars, added, minute, slice, logger>>
    BY <1>8 DEF MergeFails, SettleFailures, WriteFails, AckValid, loggerVars
  <2>2. PICK s : Becomes(w, s) /\ (s = "write" => Rows(b) > 0) /\ s # "emit"
    <3>1. CASE \/ MergeFails(w) \/ \E ok \in BOOLEAN : WriteFails(w, ok) \/ AckValid(w, ok)
      BY <3>1 DEF MergeFails, WriteFails, AckValid
    <3>2. CASE \E ok \in BOOLEAN : SettleFailures(w, ok)
      BY <1>4, <3>2 DEF SettleFailures
    <3> QED
      BY <1>8, <3>1, <3>2
  <2>3. /\ stage'[w] = s /\ (s # "idle" => inHand' = inHand)
        /\ \A v \in Workers \ {w} : stage'[v] = stage[v] /\ inHand'[v] = inHand[v]
    BY <2>2, BecomesStage
  <2>4. stage[w] # "emit"
    BY <1>8 DEF MergeFails, SettleFailures, WriteFails, AckValid, At
  <2>5. /\ counters'[w].rows = counters[w].rows
        /\ \A v \in Workers \ {w} : counters'[v] = counters[v]
    <3>1. CASE MergeFails(w)
      BY <3>1 DEF MergeFails
    <3>2. ASSUME NEW ok \in BOOLEAN, SettleFailures(w, ok) \/ WriteFails(w, ok) \/ AckValid(w, ok)
          PROVE  /\ counters'[w].rows = counters[w].rows
                 /\ \A v \in Workers \ {w} : counters'[v] = counters[v]
      BY <1>1, <3>2 DEF SettleFailures, WriteFails, AckValid, Counters
    <3> QED
      BY <1>8, <3>1, <3>2
  <2>6. stage'[w] = "write" => Rows(inHand'[w]) > 0
    BY <1>4, <2>2, <2>3
  <2> QED
    BY <1>3, <2>1, <2>2, <2>3, <2>4, <2>5, <2>6, QuietWorker
<1>9. CASE WriteSucceeds(w)
  <2>1. /\ UNCHANGED <<eventVars, added, minute, slice, logger>>
        /\ Becomes(w, "emit") /\ stage[w] = "write"
    BY <1>9 DEF WriteSucceeds, loggerVars, At
  <2>2. /\ stage'[w] = "emit" /\ inHand' = inHand
        /\ \A v \in Workers \ {w} : stage'[v] = stage[v] /\ inHand'[v] = inHand[v]
    BY <2>1, BecomesStage
  <2>3. /\ counters'[w].rows = counters[w].rows + Rows(b)
        /\ \A v \in Workers \ {w} : counters'[v] = counters[v]
    BY <1>1, <1>4, <1>9 DEF WriteSucceeds, Counters
  <2>4. /\ RowsOf(Written)' = RowsOf(Written) - Written[w] + Written'[w]
        /\ RowsOf(Unsent)' = RowsOf(Unsent) - Unsent[w] + Unsent'[w]
    BY <2>2, <2>3, WorkerMovesRows
  <2>5. Written'[w] = Written[w] + Rows(b) /\ Unsent[w] = 0 /\ Unsent'[w] = Rows(b)
    BY <1>4, <2>1, <2>2, <2>3 DEF Written, Unsent, At
  <2>6. /\ RowsOf(Written)' = RowsOf(Written) + Rows(b)
        /\ RowsOf(Unsent)' = RowsOf(Unsent) + Rows(b)
    BY <1>5, <1>6, <2>4, <2>5 DEF RowsOfWorkers
  <2>7. Rows(inHand'[w]) > 0
    BY <2>1, <2>2 DEF EventsInv, EventsType
  <2>8. EventsType'
    BY <2>1, <2>2, <2>7 DEF EventsInv, EventsType, eventVars
  <2>9. StatsEnabled' => RowsAccounted'
    <3>1. /\ lost' = lost /\ events' = events /\ added' = added /\ dropped' = dropped
          /\ slice' = slice
      BY <2>1 DEF eventVars
    <3> SUFFICES ASSUME StatsEnabled PROVE RowsAccounted'
      BY <1>3 DEF StatsEnabled
    <3>2. /\ RowsOf(Written)
               = lost + RowsOfAll(events) + RowsOf(slice) + RowsOfAll(added) + RowsOf(Unsent)
          /\ lost > 0 <=> dropped > 0
      BY DEF EventsInv, RowsAccounted, Written, Unsent
    <3>3. RowsOf(Written)'
            = lost + RowsOfAll(events) + RowsOf(slice) + RowsOfAll(added) + RowsOf(Unsent)'
      BY <1>5, <1>6, <1>7, <2>6, <3>2 DEF RowsOfWorkers
    <3> QED
      BY <3>1, <3>2, <3>3 DEF RowsAccounted, Written, Unsent
  <2> QED
    BY <1>3, <2>8, <2>9 DEF EventsInv
<1>10. CASE IF StatsEnabled THEN Record(w) ELSE EmitNothing(w)
  <2> DEFINE e == TableWritesFor(b)
  <2>1. /\ UNCHANGED <<added, minute, counters, slice, logger>> /\ Becomes(w, "ack") /\ stage[w] = "emit"
        /\ StatsEnabled => Record(w)
        /\ ~StatsEnabled => UNCHANGED eventVars
    BY <1>10 DEF Record, EmitNothing, loggerVars, At
  <2>2. /\ stage'[w] = "ack" /\ inHand' = inHand
        /\ \A v \in Workers \ {w} : stage'[v] = stage[v] /\ inHand'[v] = inHand[v]
    BY <2>1, BecomesStage
  <2>3. CASE ~StatsEnabled
    <3>1. EventsType'
      BY <2>1, <2>2, <2>3 DEF EventsInv, EventsType, eventVars
    <3> QED
      BY <1>3, <2>3, <3>1 DEF EventsInv, StatsEnabled
  <2>4. CASE StatsEnabled
    <3>1. Rows(b) > 0
      BY <1>4, <2>1 DEF EventsInv, EventsType
    <3>2. e \in Events /\ RowsOf(e) = Rows(b) /\ DOMAIN e # {}
      BY <3>1, TableWrites
    <3> HIDE DEF e
    <3>3. \/ events' = Append(events, e) /\ UNCHANGED <<dropped, lost>>
          \/ /\ dropped' = dropped + Cardinality(DOMAIN e) /\ lost' = lost + RowsOf(e)
             /\ events' = events
      BY <1>4, <2>1, <2>4 DEF Record, e
    <3>4. Cardinality(DOMAIN e) \in Nat /\ Cardinality(DOMAIN e) > 0
      <4>1. IsFiniteSet(DOMAIN e)
        BY <3>2, EventRows
      <4>2. Cardinality(DOMAIN e) \in Nat /\ Cardinality(DOMAIN e) # 0
        BY <3>2, <4>1, FS_EmptySet, FS_CardinalityType
      <4> QED
        BY <4>2
    <3>5. events \in Seq(Events) /\ dropped \in Nat
      BY DEF EventsInv, EventsType
    <3>6. events' \in Seq(Events) /\ dropped' \in Nat /\ lost' \in Nat
      <4>1. CASE events' = Append(events, e) /\ UNCHANGED <<dropped, lost>>
        BY <1>7, <3>2, <3>5, <4>1
      <4>2. CASE /\ dropped' = dropped + Cardinality(DOMAIN e) /\ lost' = lost + RowsOf(e)
                 /\ events' = events
        BY <1>5, <1>7, <3>2, <3>4, <3>5, <4>2
      <4> QED
        BY <3>3, <4>1, <4>2
    <3>7. EventsType'
      BY <2>1, <2>2, <3>6 DEF EventsInv, EventsType
    <3>8. RowsOf(Unsent)' = RowsOf(Unsent) - Rows(b) /\ RowsOf(Written)' = RowsOf(Written)
      <4>1. /\ RowsOf(Written)' = RowsOf(Written) - Written[w] + Written'[w]
            /\ RowsOf(Unsent)' = RowsOf(Unsent) - Unsent[w] + Unsent'[w]
        BY <2>1, <2>2, WorkerMovesRows
      <4>2. Written'[w] = Written[w] /\ Unsent[w] = Rows(b) /\ Unsent'[w] = 0
        BY <1>4, <2>1, <2>2 DEF Written, Unsent, At
      <4> QED
        BY <1>5, <1>6, <4>1, <4>2 DEF RowsOfWorkers
    <3>9. lost' + RowsOfAll(events') = lost + RowsOfAll(events) + Rows(b)
      <4>1. CASE events' = Append(events, e) /\ UNCHANGED <<dropped, lost>>
        <5>1. RowsOfAll(events') = RowsOfAll(events) + RowsOf(e)
          BY <3>2, <3>5, <4>1, QueueRows
        <5> QED
          BY <1>5, <1>7, <3>2, <4>1, <5>1
      <4>2. CASE /\ dropped' = dropped + Cardinality(DOMAIN e) /\ lost' = lost + RowsOf(e)
                 /\ events' = events
        BY <1>5, <1>7, <3>2, <4>2
      <4> QED
        BY <3>3, <4>1, <4>2
    <3>10. /\ RowsOf(Written)
                = lost + RowsOfAll(events) + RowsOf(slice) + RowsOfAll(added) + RowsOf(Unsent)
           /\ lost > 0 <=> dropped > 0
      BY <2>4 DEF EventsInv, RowsAccounted, Written, Unsent
    <3>11. RowsOfAll(events') \in Nat
      BY <3>6, QueueRows
    <3>12. RowsOf(Written)'
             = lost' + RowsOfAll(events') + RowsOf(slice) + RowsOfAll(added) + RowsOf(Unsent)'
      <4>1. /\ RowsOf(Written) \in Int /\ RowsOf(Unsent) \in Int /\ Rows(b) \in Int
            /\ lost \in Int /\ RowsOfAll(events) \in Int /\ RowsOfAll(added) \in Int
            /\ lost' \in Int /\ RowsOfAll(events') \in Int /\ RowsOf(slice) \in Int
        BY <1>5, <1>6, <1>7, <3>6, <3>11 DEF RowsOfWorkers
      <4>2. PICK kept : kept = lost' + RowsOfAll(events')
        OBVIOUS
      <4>3. kept \in Int /\ kept = lost + RowsOfAll(events) + Rows(b)
        BY <3>9, <4>1, <4>2
      <4>4. RowsOf(Written) = kept + RowsOf(slice) + RowsOfAll(added) + (RowsOf(Unsent) - Rows(b))
        BY <3>10, <4>1, <4>3
      <4> QED
        BY <3>8, <4>1, <4>2, <4>4
    <3>13. lost' > 0 <=> dropped' > 0
      BY <1>5, <1>7, <3>1, <3>2, <3>3, <3>4, <3>5, <3>10
    <3>14. RowsAccounted'
      BY <2>1, <3>12, <3>13 DEF RowsAccounted, Written, Unsent
    <3> QED
      BY <3>7, <3>14 DEF EventsInv
  <2> QED
    BY <2>3, <2>4
<1> QED
  BY <1>8, <1>9, <1>10 DEF WorkerGoesOn

(* A worker takes a batch. *)
LEMMA ReceiveKeepsEvents ==
  ASSUME EventsInv, CountersInv, CountersInv', Lifecycle, NEW w \in Workers, WorkerReceives(w)
  PROVE  EventsInv'
<1>1. /\ DOMAIN stage = Workers /\ DOMAIN inHand = Workers /\ counters \in [Workers -> Counters]
  BY DEF CountersInv, CountersType
<1>2. main # "LoadConfig" /\ UNCHANGED <<main, opts, eventVars, added, minute, slice, logger>>
  BY WorkersRunLater DEF WorkerReceives, ParseMessages, LoadBecomes, loggerVars
<1>3. /\ stage[w] = "idle" /\ stage'[w] = "parsed"
      /\ \A v \in Workers \ {w} : stage'[v] = stage[v] /\ inHand'[v] = inHand[v]
  BY <1>1 DEF WorkerReceives, ParseMessages, At
<1>4. /\ counters'[w].rows = counters[w].rows
      /\ \A v \in Workers \ {w} : counters'[v] = counters[v]
  <2>1. PICK b : counters' = [counters EXCEPT ![w].parseFailures = @ + b.failed,
                                              ![w].dropped = @ + b.dropped,
                                              ![w].zeroRows = @ + b.empty]
    BY DEF WorkerReceives, ParseMessages
  <2> QED
    BY <1>1, <2>1 DEF Counters
<1> QED
  BY <1>2, <1>3, <1>4, QuietWorker

(* The logger takes the events of a batch from the channel. *)
LEMMA TakingKeepsEvents ==
  ASSUME EventsInv, ReceiveEvents, UNCHANGED commandVars
  PROVE  EventsInv'
<1>1. /\ logger # "add" /\ logger' = "add" /\ events # <<>> /\ events' = Tail(events)
      /\ slice' = Head(events)
      /\ UNCHANGED <<main, opts, stage, inHand, counters, dropped, lost, added, minute>>
  BY DEF ReceiveEvents, commandVars, workerVars
<1>2. EventsType
  BY DEF EventsInv
<1>3. slice' \in Events /\ events' \in Seq(Events)
  BY <1>1, <1>2 DEF EventsType
<1>4. EventsType'
  BY <1>1, <1>2, <1>3 DEF EventsType
<1>5. RowsOfAll(events) = RowsOf(slice') + RowsOfAll(events')
  BY <1>1, <1>2, QueueRows DEF EventsType
<1>6. RowsOf(slice) = 0
  <2>1. PICK e : e = slice
    OBVIOUS
  <2>2. DOMAIN e = {}
    BY <1>1, <1>2, <2>1 DEF EventsType
  <2>3. RowsOf(e) = 0
    BY <2>2, FS_EmptySet, RowsAreNat
  <2> QED
    BY <2>1, <2>3
<1>7. /\ RowsOf(slice') \in Nat /\ RowsOfAll(events) \in Nat /\ RowsOfAll(added) \in Nat
      /\ RowsOfAll(events') \in Nat /\ lost \in Nat
  BY <1>2, <1>3, EventRows, QueueRows, RowsElsewhere
<1>8. lost + RowsOfAll(events) + RowsOf(slice) = lost' + RowsOfAll(events') + RowsOf(slice')
  BY <1>1, <1>5, <1>6, <1>7
<1>9. UNCHANGED <<RowsOf(Written), RowsOf(Unsent)>>
  BY <1>1 DEF Written, Unsent, At
<1>10. RowsAccounted => RowsAccounted'
  BY <1>1, <1>8, <1>9 DEF RowsAccounted, Written, Unsent
<1> QED
  BY <1>1, <1>4, <1>10 DEF EventsInv, StatsEnabled

(* An event without one of its tables. *)
Without(e, t) == [k \in DOMAIN e \ {t} |-> e[k]]

(* The rows of a table are those that the event has less without it. *)
LEMMA WithoutRows ==
  ASSUME NEW e \in Events, NEW t \in DOMAIN e
  PROVE  /\ Without(e, t) \in Events /\ DOMAIN Without(e, t) = DOMAIN e \ {t}
         /\ t \in Tables /\ e[t] \in Nat \ {0}
         /\ RowsOf(e) = e[t] + RowsOf(Without(e, t))
<1>1. /\ DOMAIN e \subseteq Tables /\ IsFiniteSet(DOMAIN e)
      /\ \A k \in DOMAIN e : e[k] \in Nat \ {0}
  BY EventRows
<1>2. PICK r, R : R = DOMAIN e \ {t} /\ r = Without(e, t)
  OBVIOUS
<1>3. DOMAIN r = R /\ (\A k \in R : r[k] = e[k]) /\ r \in [R -> Nat \ {0}]
  BY <1>1, <1>2 DEF Without
<1>4. R \in SUBSET Tables /\ IsFiniteSet(R)
  BY <1>1, <1>2, FS_Subset
<1>5. r \in Events
  BY <1>3, <1>4 DEF Events
<1>6. SumOver(e, DOMAIN e) = e[t] + SumOver(e, R)
  <2>1. \A k \in DOMAIN e : e[k] \in Int
    BY <1>1
  <2> QED
    BY <1>1, <1>2, <2>1, SumAdd
<1>7. SumOver(r, R) = SumOver(e, R)
  BY <1>3, <1>4, SumSame
<1>8. RowsOf(e) = e[t] + RowsOf(r)
  BY <1>3, <1>6, <1>7, RowsAreSum
<1> QED
  BY <1>1, <1>2, <1>3, <1>5, <1>8

(* h is g with n more rows of a table. *)
More(h, g, t, n) == h[t] = g[t] + n /\ \A u \in Tables \ {t} : h[u] = g[u]

(* Minutes, and the rows of each table in each. *)
IsMinutes(a) == IsFiniteSet(DOMAIN a) /\ \A m \in DOMAIN a : a[m] \in [Tables -> Nat]

(* c is a with n more rows of table t in minute m. *)
MoreIn(c, a, m, t, n) ==
  /\ IsMinutes(a) /\ m \in DOMAIN a /\ t \in Tables /\ n \in Nat \ {0}
  /\ \E h \in [Tables -> Nat] : More(h, a[m], t, n) /\ c = [a EXCEPT ![m] = h]

(* The rows of the minutes, as those of one table are added to one. *)
LEMMA TableRows ==
  ASSUME NEW c, NEW a, NEW m, NEW t, NEW n, MoreIn(c, a, m, t, n)
  PROVE  RowsOfAll(c) = RowsOfAll(a) + n
<1>0. /\ IsFiniteSet(DOMAIN a) /\ \A k \in DOMAIN a : a[k] \in [Tables -> Nat]
      /\ m \in DOMAIN a /\ t \in Tables /\ n \in Nat \ {0}
  BY DEF MoreIn, IsMinutes
<1>7. PICK h \in [Tables -> Nat] : More(h, a[m], t, n) /\ c = [a EXCEPT ![m] = h]
  BY DEF MoreIn
<1>1. PICK e : e = [k \in {t} |-> n]
  OBVIOUS
<1>2. DOMAIN e = {t} /\ e[t] = n /\ e \in [{t} -> Nat \ {0}] /\ {t} \in SUBSET Tables
  BY <1>0, <1>1
<1>3. e \in Events
  BY <1>2 DEF Events
<1>4. RowsOf(e) = n
  <2>1. PICK r, S : r = Without(e, t) /\ S = DOMAIN r
    OBVIOUS
  <2>2. RowsOf(e) = n + RowsOf(r) /\ DOMAIN r = {}
    BY <1>2, <1>3, <2>1, WithoutRows
  <2>3. RowsOf(r) = 0
    BY <2>2, FS_EmptySet, RowsAreNat
  <2> QED
    BY <1>0, <2>2, <2>3
<1>5. Plus(h, a[m], e)
  <2>1. \A u \in Tables : a[m][u] \in Nat
    BY <1>0
  <2>2. ASSUME NEW u \in Tables
        PROVE  h[u] = a[m][u] + (IF u \in DOMAIN e THEN e[u] ELSE 0)
    <3>1. CASE u = t
      BY <1>2, <1>7, <2>1, <3>1 DEF More
    <3>2. CASE u # t
      BY <1>2, <1>7, <2>1, <3>2 DEF More
    <3> QED
      BY <3>1, <3>2
  <2> QED
    BY <2>2 DEF Plus
<1>6. RowsOfAll([a EXCEPT ![m] = h]) = RowsOfAll(a) + RowsOf(e)
  <2>2. \A x \in Events, g \in [Tables -> Nat] :
          Plus(g, a[m], x) => RowsOfAll([a EXCEPT ![m] = g]) = RowsOfAll(a) + RowsOf(x)
    BY <1>0, MinuteRows
  <2> QED
    BY <1>3, <1>5, <1>7, <2>2
<1> QED
  BY <1>4, <1>6, <1>7

(* What adding the rows of one table to this minute does. *)
Adding(t, h) ==
  /\ t \in DOMAIN slice /\ logger = "add"
  /\ h = [added[minute] EXCEPT ![t] = @ + slice[t]]
  /\ window' = [window EXCEPT ![minute % WindowBuckets] =
                  Add(Slot(window[minute % WindowBuckets], minute), t, slice[t])]
  /\ added' = [added EXCEPT ![minute] = h]
  /\ slice' = Without(slice, t)
  /\ logger' = IF DOMAIN slice = {t} THEN "select" ELSE "add"

(* AddEvent is such a step. *)
LEMMA AddEventAdds == AddEvent => \E t, h : Adding(t, h)
<1> SUFFICES ASSUME AddEvent PROVE \E t, h : Adding(t, h)
  OBVIOUS
<1>1. PICK t \in DOMAIN slice :
        /\ window' = [window EXCEPT ![minute % WindowBuckets] = Add(Slot(@, minute), t, slice[t])]
        /\ added' = [added EXCEPT ![minute][t] = @ + slice[t]]
        /\ slice' = [k \in DOMAIN slice \ {t} |-> slice[k]]
        /\ logger' = IF DOMAIN slice = {t} THEN "select" ELSE "add"
  BY DEF AddEvent
<1>2. PICK h : h = [added[minute] EXCEPT ![t] = @ + slice[t]]
  OBVIOUS
<1>3. added' = [added EXCEPT ![minute] = h]
  BY <1>1, <1>2
<1>4. Adding(t, h)
  BY <1>1, <1>2, <1>3 DEF Adding, AddEvent, Without
<1> QED
  BY <1>4

(* The logger adds one of the events it took to the window. *)
LEMMA AddingKeepsEvents ==
  ASSUME EventsInv, AddEvent, UNCHANGED commandVars
  PROVE  EventsInv'
<1>1. PICK t, h : Adding(t, h)
  BY AddEventAdds
<1>2. /\ UNCHANGED <<main, opts, stage, inHand, counters, dropped, lost, events, minute>>
      /\ EventsType
  BY DEF AddEvent, commandVars, workerVars, eventVars, EventsInv
<1>3. PICK e, a, m : e = slice /\ a = added /\ m = minute
  OBVIOUS
<1>4. /\ e \in Events /\ t \in DOMAIN e
      /\ IsFiniteSet(DOMAIN a) /\ m \in DOMAIN a /\ \A k \in DOMAIN a : a[k] \in [Tables -> Nat]
  BY <1>1, <1>2, <1>3 DEF Adding, EventsType
<1>5. /\ Without(e, t) \in Events /\ DOMAIN Without(e, t) = DOMAIN e \ {t}
      /\ t \in Tables /\ e[t] \in Nat \ {0}
      /\ RowsOf(e) = e[t] + RowsOf(Without(e, t))
  BY <1>4, WithoutRows
<1>6. /\ h = [a[m] EXCEPT ![t] = @ + e[t]] /\ added' = [a EXCEPT ![m] = h]
      /\ slice' = Without(e, t)
  BY <1>1, <1>3 DEF Adding
<1>7. h \in [Tables -> Nat] /\ More(h, a[m], t, e[t])
  BY <1>4, <1>5, <1>6 DEF More
<1>8. RowsOfAll(added') = RowsOfAll(a) + e[t]
  <2>1. PICK n, c : n = e[t] /\ c = added'
    OBVIOUS
  <2>2. MoreIn(c, a, m, t, n)
    BY <1>4, <1>5, <1>6, <1>7, <2>1 DEF MoreIn, IsMinutes
  <2>3. RowsOfAll(c) = RowsOfAll(a) + n
    BY <2>2, TableRows
  <2> QED
    BY <2>1, <2>3
<1>9. EventsType'
  <2>1. slice' \in Events /\ (logger' # "add" => DOMAIN slice' = {})
    <3>1. logger' # "add" => DOMAIN e = {t}
      BY <1>1, <1>3 DEF Adding
    <3> QED
      BY <1>5, <1>6, <3>1
  <2>2. /\ DOMAIN added' = DOMAIN a /\ \A k \in DOMAIN added' : added'[k] \in [Tables -> Nat]
    BY <1>4, <1>6, <1>7
  <2> QED
    BY <1>2, <1>3, <2>1, <2>2 DEF EventsType
<1>10. /\ RowsOf(slice') \in Nat /\ RowsOfAll(events) \in Nat /\ RowsOfAll(added) \in Nat
       /\ lost \in Nat
  BY <1>2, <1>5, <1>6, EventRows, RowsElsewhere
<1>11. RowsOf(slice) + RowsOfAll(added) = RowsOf(slice') + RowsOfAll(added')
  BY <1>3, <1>5, <1>6, <1>8, <1>10
<1>12. UNCHANGED <<RowsOf(Written), RowsOf(Unsent)>>
  BY <1>2 DEF Written, Unsent, At
<1>13. lost + RowsOfAll(events) + RowsOf(slice) + RowsOfAll(added)
         = lost' + RowsOfAll(events') + RowsOf(slice') + RowsOfAll(added')
  <2>1. RowsOfAll(added') \in Int /\ RowsOf(slice) \in Int
    BY <1>3, <1>5, <1>6, <1>8, <1>10
  <2> QED
    BY <1>2, <1>10, <1>11, <2>1
<1>14. RowsAccounted => RowsAccounted'
  BY <1>2, <1>12, <1>13 DEF RowsAccounted, Written, Unsent
<1> QED
  BY <1>2, <1>9, <1>14 DEF EventsInv, StatsEnabled

(* The logger moves events from the channel to the window. *)
LEMMA DrainKeepsEvents ==
  ASSUME EventsInv, LoggerDrains
  PROVE  EventsInv'
BY TakingKeepsEvents, AddingKeepsEvents DEF LoggerDrains

(* A new minute has no rows yet. *)
LEMMA MinuteKeepsEvents ==
  ASSUME EventsInv, Time
  PROVE  EventsInv'
<1>1. EventsType /\ UNCHANGED <<main, opts, stage, inHand, counters, eventVars, slice, logger>>
  BY DEF EventsInv, Time, NextMinute, LoadBecomes, workerVars, commandVars, statsVars, eventVars
<1>2. CASE UNCHANGED <<minute, added>>
  BY <1>1, <1>2 DEF EventsInv, EventsType, eventVars, RowsAccounted, StatsEnabled, At
<1>3. CASE NextMinute
  <2> DEFINE c == [m \in DOMAIN added \cup {minute + 1} |->
                     IF m \in DOMAIN added THEN added[m] ELSE NoBatch.rows]
  <2>1. minute' = minute + 1 /\ added' = c
    BY <1>3 DEF NextMinute
  <2>2. NoBatch.rows \in [Tables -> Nat]
    BY DEF NoBatch
  <2>3. /\ DOMAIN c = DOMAIN added \cup {minute + 1}
        /\ \A m \in DOMAIN c : c[m] \in [Tables -> Nat]
    BY <1>1, <2>2 DEF EventsType
  <2>4. IsFiniteSet(DOMAIN added \cup {minute + 1})
    BY <1>1, FS_AddElement DEF EventsType
  <2>5. EventsType'
    <3> HIDE DEF c
    <3>1. minute' \in Int /\ minute' \in DOMAIN added' /\ IsFiniteSet(DOMAIN added')
      BY <1>1, <2>1, <2>3, <2>4 DEF EventsType
    <3>2. \A m \in DOMAIN added' : added'[m] \in [Tables -> Nat]
      BY <2>1, <2>3
    <3>3. UNCHANGED <<lost, dropped, events, stage, inHand, slice, logger>>
      BY <1>1 DEF eventVars
    <3> QED
      BY <1>1, <3>1, <3>2, <3>3 DEF EventsType
  <2>6. RowsOfAll(added') = RowsOfAll(added)
    <3>1. CASE minute + 1 \in DOMAIN added
      <4>2. \A m \in DOMAIN added : c[m] = added[m]
        BY <3>1
      <4>3. [m \in DOMAIN c |-> RowsOf(c[m])] = [m \in DOMAIN added |-> RowsOf(added[m])]
        BY <2>3, <3>1, <4>2
      <4> QED
        BY <2>1, <4>3 DEF RowsOfAll
    <3>2. CASE minute + 1 \notin DOMAIN added
      BY <1>1, <2>1, <3>2, MinuteRows DEF EventsType
    <3> QED
      BY <3>1, <3>2
  <2>7. RowsAccounted => RowsAccounted'
    BY <1>1, <2>6 DEF RowsAccounted, eventVars, At
  <2> QED
    BY <1>1, <2>5, <2>7 DEF EventsInv, StatsEnabled
<1> QED
  BY <1>2, <1>3 DEF Time, statsVars

(* No other step touches the rows. *)
LEMMA OthersLeaveRows ==
  ASSUME [CommandNext]_all, ~LoggerDrains, ~Time,
         ~(\E w \in Workers : WorkerReceives(w) \/ WorkerGoesOn(w))
  PROVE  /\ UNCHANGED <<stage, inHand, counters, eventVars, window, added, minute, slice>>
         /\ logger = "add" <=> logger' = "add"
<1> USE DEF inner, statsVars, workerVars, eventVars
<1>1. CASE MainStep
  BY <1>1 DEF MainStep, Load, NewConnector, NewWorker, NewWorkerFails, StartTelemetry,
     StartStatsAndWatchdog, Connect, ConnectFails, RunReturns, StopWatchdog, StopStats,
     StopTelemetry, Close
<1>2. CASE \/ Cancelled \/ PetterReturns \/ AttendantReturns("fetchLoop")
           \/ AttendantReturns("monitor") \/ \E w \in Workers : WorkerExits(w)
  BY <1>2 DEF Cancelled, PetterReturns, AttendantReturns, WorkerExits
<1>3. CASE \/ Observe \/ FeedPending \/ StorePending \/ Scrape
           \/ PendingStep("stats") \/ PendingStep("scrape")
  BY <1>3 DEF Observe, FeedPending, StorePending, Scrape, PendingStep
<1>4. CASE LoggerStarts \/ LoggerLine \/ LoggerTicks \/ LoggerReturns
  BY <1>4 DEF LoggerStarts, StatsStart, LoggerLine, TickEnds, LoggerTicks, TickBegins,
     LoggerReturns, StatsReturns
<1>5. CASE UNCHANGED all
  BY <1>5 DEF all
<1> QED
  BY <1>1, <1>2, <1>3, <1>4, <1>5 DEF CommandNext, WorkerStep, LoggerStep, FetchLoopStep

(* All other steps leave the rows alone; main learns from its options        *)
(* whether there are stats before there are any rows.                        *)
LEMMA OthersKeepEvents ==
  ASSUME EventsInv, [CommandNext]_all, ~LoggerDrains, ~Time,
         ~(\E w \in Workers : WorkerReceives(w) \/ WorkerGoesOn(w))
  PROVE  EventsInv'
<1>1. /\ UNCHANGED <<stage, inHand, counters, eventVars, added, minute, slice>>
      /\ logger = "add" <=> logger' = "add"
  BY OthersLeaveRows
<1>2. main' = "LoadConfig" \/ StatsEnabled' => main = "LoadConfig" \/ StatsEnabled
  <2>1. CASE Load
    BY <2>1 DEF Load
  <2>2. CASE NewConnector
    <3>1. main' # "LoadConfig"
      BY <2>2 DEF NewConnector, Exit
    <3>2. opts' = opts \/ opts' = [HTTPAddr |-> opts.HTTPAddr, StatsInterval |-> opts.StatsInterval]
      BY <2>2 DEF NewConnector, Exit
    <3>3. opts'.StatsInterval = opts.StatsInterval
      BY <3>2
    <3> QED
      BY <3>1, <3>3 DEF StatsEnabled
  <2>3. CASE NewWorker \/ NewWorkerFails \/ StartTelemetry \/ StartStatsAndWatchdog
             \/ Connect \/ ConnectFails \/ RunReturns
    BY <2>3 DEF NewWorker, NewWorkerFails, StartTelemetry, StartStatsAndWatchdog, Connect,
       ConnectFails, RunReturns, StatsEnabled
  <2>4. CASE StopWatchdog \/ StopStats \/ StopTelemetry \/ Close
    BY <2>4 DEF StopWatchdog, StopStats, StopTelemetry, Close, StopPart, StatsEnabled
  <2>5. CASE \/ Cancelled \/ PetterReturns \/ AttendantReturns("fetchLoop")
             \/ AttendantReturns("monitor") \/ \E w \in Workers : WorkerExits(w)
    BY <2>5 DEF Cancelled, PetterReturns, AttendantReturns, WorkerExits, StatsEnabled
  <2>6. CASE \/ Observe \/ FeedPending \/ StorePending \/ Scrape
             \/ PendingStep("stats") \/ PendingStep("scrape")
             \/ LoggerStarts \/ LoggerLine \/ LoggerTicks \/ LoggerReturns
    BY <2>6 DEF Observe, FeedPending, StorePending, Scrape, PendingStep, LoggerStarts,
       LoggerLine, LoggerTicks, LoggerReturns, LoadBecomes, commandVars, StatsEnabled
  <2>7. CASE UNCHANGED all
    BY <2>7 DEF all, commandVars, StatsEnabled
  <2> QED
    BY <2>1, <2>2, <2>3, <2>4, <2>5, <2>6, <2>7 DEF CommandNext, MainStep, WorkerStep,
       LoggerStep, FetchLoopStep
<1>3. EventsType'
  BY <1>1 DEF EventsInv, EventsType, eventVars
<1>4. RowsAccounted => RowsAccounted'
  BY <1>1 DEF RowsAccounted, eventVars, At
<1> QED
  BY <1>2, <1>3, <1>4 DEF EventsInv

(* Nothing is written, queued or added at the start. *)
LEMMA InitEvents == CommandInit => EventsInv
<1> SUFFICES ASSUME CommandInit PROVE EventsInv
  OBVIOUS
<1>1. NoBatch.rows \in [Tables -> Nat] /\ \A t \in Tables : NoBatch.rows[t] = 0
  BY DEF NoBatch
<1>2. /\ events = <<>> /\ lost = 0 /\ dropped = 0 /\ minute = FirstMinute
      /\ added = [m \in {FirstMinute} |-> NoBatch.rows]
      /\ \A w \in Workers : stage[w] = "idle"
      /\ \A w \in Workers : counters[w].rows = 0
      /\ slice = NoWrites
  BY DEF CommandInit, StatsInit
<1>9. NoWrites \in Events /\ DOMAIN NoWrites = {} /\ RowsOf(NoWrites) = 0
  <2>1. PICK e, T : T = {} /\ e = NoWrites
    OBVIOUS
  <2>2. e \in [T -> Nat \ {0}] /\ T \in SUBSET Tables /\ DOMAIN e = T
    BY <2>1 DEF NoWrites
  <2>3. e \in Events /\ DOMAIN e = {}
    BY <2>1, <2>2 DEF Events
  <2>4. RowsOf(e) = 0
    BY <2>3, FS_EmptySet, RowsAreNat
  <2> QED
    BY <2>1, <2>3, <2>4
<1>3. DOMAIN added = {FirstMinute} /\ IsFiniteSet({FirstMinute})
  BY <1>2, FS_Singleton
<1>4. EventsType
  BY <1>1, <1>2, <1>3, <1>9, StatsAssumption DEF EventsType
<1>5. RowsOf(Written) = 0 /\ RowsOf(Unsent) = 0
  <2>1. IsFiniteSet(Workers)
    BY StatsAssumption
  <2>2. DOMAIN Written = Workers /\ \A w \in Workers : Written[w] = 0
    BY <1>2 DEF Written
  <2>3. DOMAIN Unsent = Workers /\ \A w \in Workers : Unsent[w] = 0
    BY <1>2 DEF Unsent, At
  <2> QED
    BY <2>1, <2>2, <2>3, RowsAreNat
<1>6. RowsOfAll(events) = 0
  <2> DEFINE f == [i \in DOMAIN events |-> RowsOf(events[i])]
  <2>1. DOMAIN f = {}
    BY <1>2
  <2> HIDE DEF f
  <2>2. RowsOf(f) = 0
    BY <2>1, FS_EmptySet, RowsAreNat
  <2> QED
    BY <2>2 DEF RowsOfAll, f
<1>7. RowsOfAll(added) = 0
  <2> DEFINE f == [m \in DOMAIN added |-> RowsOf(added[m])]
  <2>1. RowsOf(NoBatch.rows) = 0
    BY <1>1, StatsAssumption, RowsAreNat
  <2>2. DOMAIN f = {FirstMinute} /\ \A m \in DOMAIN f : f[m] = 0
    BY <1>2, <2>1
  <2> HIDE DEF f
  <2>3. RowsOf(f) = 0
    BY <1>3, <2>2, RowsAreNat
  <2> QED
    BY <2>3 DEF RowsOfAll, f
<1>8. RowsAccounted
  BY <1>2, <1>5, <1>6, <1>7, <1>9 DEF RowsAccounted, Written, Unsent
<1> QED
  BY <1>4, <1>8 DEF EventsInv

(* EventsInv is an invariant of the process. *)
THEOREM EventsInvariant == CommandSpec => []EventsInv
<1>1. Lifecycle /\ CountersInv /\ CountersInv' /\ EventsInv /\ [CommandNext]_all => EventsInv'
  BY ReceiveKeepsEvents, WorkEvents, DrainKeepsEvents, MinuteKeepsEvents, OthersKeepEvents
<1> QED
  BY <1>1, InitEvents, LifecycleInvariant, CountersInvariant, PTL DEF CommandSpec

(* Record never loses a row in silence: with the stats enabled, every row    *)
(* that the workers count as written is in the window's minutes, in the      *)
(* channel or among the events counted as dropped, whatever the capacity of  *)
(* the channel and however slow the logger.                                  *)
THEOREM NoEventIsLost == CommandSpec => []EventsConserved
<1>1. EventsInv => EventsConserved
  BY DEF EventsInv, EventsConserved
<1> QED
  BY <1>1, EventsInvariant, PTL
-----------------------------------------------------------------------------
(* The window.                                                               *)

Keys == Tables \cup {Overflow}

(* What the counts of a slot are at every key. *)
Padded(c) == [k \in Keys |-> IF k \in DOMAIN c THEN c[k] ELSE 0]

Busy(a) == {t \in Tables : a[t] > 0}

(* The counts of a slot hold the rows of a minute: all of them, each under   *)
(* its table until the minute had more tables than a slot takes.             *)
Holds(c, a) ==
  /\ DOMAIN c \subseteq Keys /\ \A k \in DOMAIN c : c[k] \in Nat \ {0}
  /\ \A t \in DOMAIN c \cap Tables : c[t] <= a[t]
  /\ SumOver(Padded(c), Keys) = SumOver(a, Tables)
  /\ Overflow \in DOMAIN c => Cardinality(Busy(a)) > MaxDistinct
  /\ Overflow \notin DOMAIN c => \A t \in Tables : a[t] = Padded(c)[t]

Bucket(m, c) == [minute |-> m, counts |-> c]

(* The keys are finitely many, and a slot has a number at each. *)
LEMMA PaddedCounts ==
  ASSUME NEW c, DOMAIN c \subseteq Keys, \A k \in DOMAIN c : c[k] \in Nat
  PROVE  /\ IsFiniteSet(Keys) /\ IsFiniteSet(DOMAIN c)
         /\ \A k \in Keys : Padded(c)[k] \in Nat
<1>1. IsFiniteSet(Keys)
  BY StatsAssumption, FS_AddElement DEF Keys
<1>2. IsFiniteSet(DOMAIN c)
  BY <1>1, FS_Subset
<1> QED
  BY <1>1, <1>2 DEF Padded

(* The rows of one event, under the key that tableWindow.add chooses. *)
KeyOf(c, t) == IF t \notin DOMAIN c /\ Cardinality(DOMAIN c) >= MaxDistinct THEN Overflow ELSE t

Raised(c, key, n) ==
  [k \in DOMAIN c \cup {key} |-> (IF k \in DOMAIN c THEN c[k] ELSE 0) + (IF k = key THEN n ELSE 0)]

(* tableWindow.add changes the counts of its slot. *)
LEMMA AddRaises ==
  ASSUME NEW m, NEW c, NEW t, NEW n
  PROVE  Add(Bucket(m, c), t, n) = Bucket(m, Raised(c, KeyOf(c, t), n))
<1> DEFINE b == Bucket(m, c)
<1>1. b.counts = c /\ \A d : [b EXCEPT !.counts = d] = Bucket(m, d)
  BY DEF Bucket
<1>2. Add(b, t, n) = [b EXCEPT !.counts = [k \in DOMAIN b.counts \cup {KeyOf(b.counts, t)} |->
                        Count(b, k) + (IF k = KeyOf(b.counts, t) THEN n ELSE 0)]]
  BY DEF Add, KeyOf
<1>3. \A k : Count(b, k) = IF k \in DOMAIN c THEN c[k] ELSE 0
  BY <1>1 DEF Count
<1> HIDE DEF b
<1>4. [k \in DOMAIN b.counts \cup {KeyOf(b.counts, t)} |->
          Count(b, k) + (IF k = KeyOf(b.counts, t) THEN n ELSE 0)] = Raised(c, KeyOf(c, t), n)
  BY <1>1, <1>3 DEF Raised
<1> QED
  BY <1>1, <1>2, <1>4 DEF b

(* A slot goes on holding the rows of its minute when one event is added. *)
LEMMA AddHolds ==
  ASSUME NEW c, NEW a \in [Tables -> Nat], Holds(c, a), NEW t \in Tables, NEW n \in Nat \ {0},
         NEW h \in [Tables -> Nat], More(h, a, t, n)
  PROVE  Holds(Raised(c, KeyOf(c, t), n), h)
<1>1. PICK key, d : key = KeyOf(c, t) /\ d = Raised(c, key, n)
  OBVIOUS
<1>2. /\ DOMAIN c \subseteq Keys /\ \A k \in DOMAIN c : c[k] \in Nat \ {0}
      /\ IsFiniteSet(Keys) /\ IsFiniteSet(DOMAIN c) /\ IsFiniteSet(Tables)
      /\ \A k \in Keys : Padded(c)[k] \in Nat
  BY PaddedCounts, StatsAssumption DEF Holds
<1>3. /\ key \in {t, Overflow} /\ key \in Keys /\ Overflow \notin Tables
      /\ key = Overflow => t \notin DOMAIN c /\ Cardinality(DOMAIN c) >= MaxDistinct
      /\ t # Overflow
  BY <1>1, StatsAssumption DEF KeyOf, Keys
<1>4. /\ DOMAIN d = DOMAIN c \cup {key}
      /\ \A k \in DOMAIN c \ {key} : d[k] = c[k]
      /\ key \in DOMAIN c => d[key] = c[key] + n
      /\ key \notin DOMAIN c => d[key] = n
  BY <1>1, <1>2 DEF Raised
<1>5. DOMAIN d \subseteq Keys /\ \A k \in DOMAIN d : d[k] \in Nat \ {0}
  BY <1>2, <1>3, <1>4
<1>6. /\ \A k \in Keys : Padded(d)[k] \in Nat
      /\ \A k \in Keys \ {key} : Padded(c)[k] = Padded(d)[k]
      /\ Padded(d)[key] = Padded(c)[key] + n
  <2>1. \A k \in Keys : Padded(d)[k] \in Nat
    BY <1>5, PaddedCounts
  <2>2. \A k \in Keys \ {key} : Padded(c)[k] = Padded(d)[k]
    BY <1>4 DEF Padded
  <2>3. Padded(d)[key] = Padded(c)[key] + n
    BY <1>2, <1>3, <1>4 DEF Padded
  <2> QED
    BY <2>1, <2>2, <2>3
<1>7. \A u \in DOMAIN d \cap Tables : d[u] <= h[u]
  <2>1. SUFFICES ASSUME NEW u \in DOMAIN d \cap Tables PROVE d[u] <= h[u]
    OBVIOUS
  <2>2. \A x \in DOMAIN c \cap Tables : c[x] <= a[x]
    BY DEF Holds
  <2>3. CASE u = t
    <3>1. key = t
      BY <1>3, <1>4, <2>1, <2>3
    <3> QED
      BY <1>2, <1>4, <2>2, <2>3, <3>1 DEF More
  <2>4. CASE u # t
    <3>1. u \in DOMAIN c /\ d[u] = c[u] /\ h[u] = a[u]
      BY <1>3, <1>4, <2>1, <2>4 DEF More
    <3> QED
      BY <2>1, <2>2, <3>1
  <2> QED
    BY <2>3, <2>4
<1>8. SumOver(Padded(d), Keys) = SumOver(h, Tables)
  <2>1. \A k \in Keys : Padded(c)[k] \in Int /\ Padded(d)[k] \in Int
    BY <1>2, <1>6
  <2>2. SumOver(Padded(d), Keys) = SumOver(Padded(c), Keys) - Padded(c)[key] + Padded(d)[key]
    <3>1. PICK f, g : f = Padded(c) /\ g = Padded(d)
      OBVIOUS
    <3>2. /\ \A k \in Keys : f[k] \in Int /\ g[k] \in Int
          /\ \A k \in Keys \ {key} : f[k] = g[k]
      BY <1>6, <2>1, <3>1
    <3>3. SumOver(g, Keys) = SumOver(f, Keys) - f[key] + g[key]
      BY <1>2, <1>3, <3>2, SumUpdate
    <3> QED
      BY <3>1, <3>3
  <2>3. \A u \in Tables : a[u] \in Int /\ h[u] \in Int
    OBVIOUS
  <2>4. \A u \in Tables \ {t} : a[u] = h[u]
    BY DEF More
  <2>5. SumOver(h, Tables) = SumOver(a, Tables) - a[t] + h[t]
    BY <1>2, <2>3, <2>4, SumUpdate
  <2>6. SumOver(a, Tables) \in Int /\ SumOver(Padded(c), Keys) = SumOver(a, Tables)
    BY <1>2, <2>3, SumType DEF Holds
  <2>7. h[t] = a[t] + n /\ a[t] \in Nat /\ Padded(c)[key] \in Nat
    BY <1>2, <1>3 DEF More
  <2> QED
    BY <1>6, <2>2, <2>5, <2>6, <2>7
<1>9. ASSUME Overflow \in DOMAIN d PROVE Cardinality(Busy(h)) > MaxDistinct
  <2>1. IsFiniteSet(Busy(h)) /\ Cardinality(Busy(h)) \in Nat /\ MaxDistinct \in Nat
    BY <1>2, StatsAssumption, FS_Subset, FS_CardinalityType DEF Busy
  <2>2. CASE Overflow \in DOMAIN c
    <3>1. Busy(a) \subseteq Busy(h)
      BY DEF Busy, More
    <3>2. Cardinality(Busy(a)) <= Cardinality(Busy(h)) /\ Cardinality(Busy(a)) \in Nat
      BY <2>1, <3>1, FS_Subset, FS_CardinalityType
    <3>3. Cardinality(Busy(a)) > MaxDistinct
      BY <2>2 DEF Holds
    <3> QED
      BY <2>1, <3>2, <3>3
  <2>3. CASE Overflow \notin DOMAIN c
    <3>1. key = Overflow
      BY <1>4, <1>9, <2>3
    <3>2. t \notin DOMAIN c /\ Cardinality(DOMAIN c) >= MaxDistinct
      BY <1>3, <3>1
    <3>3. DOMAIN c \cup {t} \subseteq Busy(h)
      <4>1. ASSUME NEW u \in DOMAIN c PROVE u \in Busy(h)
        <5>1. u \in Tables /\ u # t
          BY <1>2, <2>3, <3>2, <4>1 DEF Keys
        <5>2. c[u] \in Nat \ {0} /\ c[u] <= a[u] /\ h[u] = a[u]
          BY <4>1, <5>1 DEF Holds, More
        <5> QED
          BY <5>1, <5>2 DEF Busy
      <4>2. t \in Busy(h)
        BY DEF More, Busy
      <4> QED
        BY <4>1, <4>2
    <3>4. Cardinality(DOMAIN c \cup {t}) = Cardinality(DOMAIN c) + 1 /\ Cardinality(DOMAIN c) \in Nat
      BY <1>2, <3>2, FS_AddElement, FS_CardinalityType
    <3>5. Cardinality(DOMAIN c \cup {t}) <= Cardinality(Busy(h))
      BY <2>1, <3>3, FS_Subset
    <3> QED
      BY <2>1, <3>2, <3>4, <3>5
  <2> QED
    BY <2>2, <2>3
<1>10. ASSUME Overflow \notin DOMAIN d PROVE \A u \in Tables : h[u] = Padded(d)[u]
  <2>1. Overflow \notin DOMAIN c /\ key = t
    BY <1>3, <1>4, <1>10
  <2>2. \A u \in Tables : a[u] = Padded(c)[u]
    BY <2>1 DEF Holds
  <2>3. Tables \subseteq Keys
    BY DEF Keys
  <2>4. h[t] = Padded(d)[t]
    BY <1>6, <2>1, <2>2 DEF More
  <2>5. \A u \in Tables \ {t} : h[u] = Padded(d)[u]
    BY <1>6, <2>1, <2>2, <2>3 DEF More
  <2> QED
    BY <2>4, <2>5
<1>11. Holds(d, h)
  BY <1>5, <1>7, <1>8, <1>9, <1>10 DEF Holds
<1> QED
  BY <1>1, <1>11

(* b is the slot of minute m and holds the rows a. *)
HoldsAt(b, m, a) == \E c : b = Bucket(m, c) /\ Holds(c, a)

(* Every minute since the start has its rows; a slot that was used holds a   *)
(* minute that belongs there; and a minute of the last WindowBuckets with    *)
(* rows has its slot still.                                                  *)
WindowInv ==
  /\ minute \in Nat /\ FirstMinute <= minute /\ DOMAIN added = FirstMinute..minute
  /\ \A m \in DOMAIN added : added[m] \in [Tables -> Nat]
  /\ DOMAIN window = 0..WindowBuckets - 1
  /\ \A i \in DOMAIN window :
       LET b == window[i]
       IN  \/ b.minute = 0
           \/ /\ b.minute \in DOMAIN added /\ b.minute % WindowBuckets = i
              /\ HoldsAt(b, b.minute, added[b.minute])
  /\ \A m \in DOMAIN added :
       m > minute - WindowBuckets =>
         window[m % WindowBuckets].minute = m \/ \A t \in Tables : added[m][t] = 0

(* Two minutes less than a window apart have slots of their own. *)
LEMMA SlotOfMinute ==
  ASSUME NEW W \in Nat \ {0}, NEW m \in Nat
  PROVE  /\ m % W \in 0..W - 1
         /\ \A k \in Nat : k <= m /\ k > m - W /\ k % W = m % W => k = m
<1>1. ASSUME NEW k \in Nat
      PROVE  k % W \in 0..W - 1 /\ \E q \in Int : k = W * q + (k % W)
  <2>1. k % W \in 0..W - 1 /\ k \div W \in Int
    OBVIOUS
  <2>2. k = W * (k \div W) + (k % W)
    OBVIOUS
  <2> QED
    BY <2>1, <2>2
<1>2. ASSUME NEW k \in Nat, k <= m, k > m - W, k % W = m % W
      PROVE  k = m
  <2>1. PICK p \in Int : k = W * p + (k % W)
    BY <1>1
  <2>2. PICK q \in Int : m = W * q + (m % W)
    BY <1>1
  <2>3. PICK r : r = m % W
    OBVIOUS
  <2>4. r \in Int /\ k = W * p + r /\ m = W * q + r
    BY <1>1, <1>2, <2>1, <2>2, <2>3
  <2>5. m - k = W * (q - p)
    BY <2>4
  <2>6. CASE q - p <= 0
    <3>1. W * (q - p) <= 0
      BY <2>6
    <3> QED
      BY <1>2, <2>5, <3>1
  <2>7. CASE q - p >= 1
    <3>1. W * (q - p) >= W
      BY <2>7
    <3> QED
      BY <1>2, <2>5, <3>1
  <2> QED
    BY <2>6, <2>7
<1> QED
  BY <1>1, <1>2

(* A slot that was reset holds the rows of a minute that has none. *)
LEMMA EmptyHolds ==
  ASSUME NEW a \in [Tables -> Nat], \A t \in Tables : a[t] = 0, NEW c, DOMAIN c = {}
  PROVE  Holds(c, a)
<1>1. IsFiniteSet(Keys) /\ IsFiniteSet(Tables) /\ \A k \in Keys : Padded(c)[k] \in Nat
  BY PaddedCounts, StatsAssumption
<1>2. \A k \in Keys : Padded(c)[k] = 0
  BY DEF Padded
<1>3. SumOver(Padded(c), Keys) = 0
  BY <1>1, <1>2, SumNat
<1>4. SumOver(a, Tables) = 0
  BY <1>1, SumNat
<1>5. \A t \in Tables : a[t] = Padded(c)[t]
  BY <1>2 DEF Keys
<1> QED
  BY <1>3, <1>4, <1>5 DEF Holds

(* The logger adds an event to the slot of this minute. *)
LEMMA AddingKeepsWindow ==
  ASSUME EventsInv, WindowInv, AddEvent
  PROVE  WindowInv'
<1>1. PICK e, i, W : e = slice /\ i = minute % WindowBuckets /\ W = WindowBuckets
  OBVIOUS
<1>2. PICK t, h : Adding(t, h)
  BY AddEventAdds
<1>3. /\ UNCHANGED minute /\ t \in DOMAIN e
      /\ h = [added[minute] EXCEPT ![t] = @ + e[t]]
      /\ added' = [added EXCEPT ![minute] = h]
      /\ window' = [window EXCEPT ![i] = Add(Slot(window[i], minute), t, e[t])]
  BY <1>1, <1>2 DEF AddEvent, Adding
<1>4. e \in Events
  BY <1>1 DEF EventsInv, EventsType
<1>5. t \in Tables /\ e[t] \in Nat \ {0}
  BY <1>3, <1>4, EventRows
<1>6. /\ minute \in Nat /\ minute # 0 /\ minute \in DOMAIN added
      /\ W \in Nat \ {0} /\ minute > minute - W
  BY <1>1, StatsAssumption DEF WindowInv
<1>7. PICK a : a = added[minute]
  OBVIOUS
<1>8. a \in [Tables -> Nat]
  BY <1>6, <1>7 DEF WindowInv
<1>9. h \in [Tables -> Nat] /\ More(h, a, t, e[t])
  BY <1>3, <1>5, <1>7, <1>8 DEF More
<1>10. i \in DOMAIN window
  BY <1>1, <1>6, SlotOfMinute DEF WindowInv
<1>11. HoldsAt(Slot(window[i], minute), minute, a)
  <2>1. CASE window[i].minute = minute
    <3>1. Slot(window[i], minute) = window[i]
      BY <2>1 DEF Slot
    <3>2. HoldsAt(window[i], minute, a)
      BY <1>6, <1>7, <1>10, <2>1 DEF WindowInv
    <3> QED
      BY <3>1, <3>2
  <2>2. CASE window[i].minute # minute
    <3>1. PICK c : c = NoWrites
      OBVIOUS
    <3>2. Slot(window[i], minute) = Bucket(minute, c)
      BY <2>2, <3>1 DEF Slot, Bucket
    <3>3. \A u \in Tables : a[u] = 0
      BY <1>1, <1>6, <1>7, <2>2 DEF WindowInv
    <3>4. Holds(c, a)
      <4>1. DOMAIN c = {}
        BY <3>1 DEF NoWrites
      <4> QED
        BY <1>8, <3>3, <4>1, EmptyHolds
    <3> QED
      BY <3>2, <3>4 DEF HoldsAt
  <2> QED
    BY <2>1, <2>2
<1>12. PICK b : b = Add(Slot(window[i], minute), t, e[t])
  OBVIOUS
<1>13. HoldsAt(b, minute, h) /\ b.minute = minute
  <2>1. PICK s, m, n : s = Slot(window[i], minute) /\ m = minute /\ n = e[t]
    OBVIOUS
  <2>2. PICK c : s = Bucket(m, c) /\ Holds(c, a)
    BY <1>11, <2>1 DEF HoldsAt
  <2>3. PICK d : d = Raised(c, KeyOf(c, t), n)
    OBVIOUS
  <2>4. More(h, a, t, n) /\ n \in Nat \ {0} /\ h \in [Tables -> Nat]
    BY <1>5, <1>9, <2>1
  <2>5. Holds(d, h)
    BY <1>5, <1>8, <2>2, <2>3, <2>4, AddHolds
  <2>6. b = Bucket(m, d)
    BY <1>12, <2>1, <2>2, <2>3, AddRaises
  <2> QED
    BY <2>1, <2>5, <2>6 DEF HoldsAt, Bucket
<1>14. /\ DOMAIN window' = DOMAIN window /\ window'[i] = b
       /\ \A j \in DOMAIN window \ {i} : window'[j] = window[j]
  BY <1>3, <1>10, <1>12
<1>15. /\ DOMAIN added' = DOMAIN added /\ added'[minute] = h
       /\ \A m \in DOMAIN added \ {minute} : added'[m] = added[m]
  BY <1>3, <1>6
<1>16. \A m \in DOMAIN added' : added'[m] \in [Tables -> Nat]
  BY <1>9, <1>15 DEF WindowInv
<1>17. ASSUME NEW j \in DOMAIN window'
       PROVE  LET x == window'[j]
              IN  \/ x.minute = 0
                  \/ /\ x.minute \in DOMAIN added' /\ x.minute % WindowBuckets = j
                     /\ HoldsAt(x, x.minute, added'[x.minute])
  <2>1. CASE j = i
    BY <1>1, <1>6, <1>13, <1>14, <1>15, <2>1
  <2>2. CASE j # i /\ window[j].minute # 0
    <3>1. PICK x : x = window[j]
      OBVIOUS
    <3>2. /\ x.minute \in DOMAIN added /\ x.minute % WindowBuckets = j
          /\ HoldsAt(x, x.minute, added[x.minute])
      BY <1>14, <1>17, <2>2, <3>1 DEF WindowInv
    <3>3. x.minute # minute
      BY <1>1, <2>2, <3>2
    <3>4. added'[x.minute] = added[x.minute]
      BY <1>15, <3>2, <3>3
    <3>5. window'[j] = x
      BY <1>14, <1>17, <2>2, <3>1
    <3> QED
      BY <1>15, <3>2, <3>4, <3>5
  <2>3. CASE j # i /\ window[j].minute = 0
    BY <1>14, <1>17, <2>3
  <2> QED
    BY <2>1, <2>2, <2>3
<1>18. ASSUME NEW m \in DOMAIN added', m > minute' - WindowBuckets
       PROVE  window'[m % WindowBuckets].minute = m \/ \A u \in Tables : added'[m][u] = 0
  <2>1. CASE m = minute
    BY <1>1, <1>13, <1>14, <2>1
  <2>2. CASE m # minute
    <3>1. m \in Nat /\ m <= minute /\ m > minute - W /\ m \in DOMAIN added
      <4>1. FirstMinute \in Nat
        BY StatsAssumption
      <4> QED
        BY <1>1, <1>3, <1>15, <1>18, <4>1 DEF WindowInv
    <3>2. m % W # i /\ m % W \in DOMAIN window
      BY <1>1, <1>6, <2>2, <3>1, SlotOfMinute DEF WindowInv
    <3>3. window'[m % W] = window[m % W] /\ added'[m] = added[m]
      BY <1>14, <1>15, <2>2, <3>1, <3>2
    <3>4. window[m % W].minute = m \/ \A u \in Tables : added[m][u] = 0
      BY <1>1, <3>1 DEF WindowInv
    <3> QED
      BY <1>1, <3>3, <3>4
  <2> QED
    BY <2>1, <2>2
<1> QED
  BY <1>3, <1>14, <1>15, <1>16, <1>17, <1>18 DEF WindowInv

(* The logger takes events, and adds them to the slot of this minute. *)
LEMMA DrainKeepsWindow ==
  ASSUME EventsInv, WindowInv, LoggerDrains
  PROVE  WindowInv'
<1>1. CASE ReceiveEvents
  <2>1. UNCHANGED <<window, added, minute>>
    BY <1>1 DEF ReceiveEvents
  <2> QED
    BY <2>1 DEF WindowInv
<1>2. CASE AddEvent
  BY <1>2, AddingKeepsWindow
<1> QED
  BY <1>1, <1>2 DEF LoggerDrains

(* A new minute has no rows; the oldest one of the window is no longer due. *)
LEMMA MinuteKeepsWindow ==
  ASSUME WindowInv, Time
  PROVE  WindowInv'
<1>1. window' = window
  BY DEF Time, NextMinute, statsVars
<1>2. CASE UNCHANGED <<minute, added>>
  BY <1>1, <1>2 DEF WindowInv
<1>3. CASE NextMinute
  <2>1. PICK z : z = NoBatch.rows
    OBVIOUS
  <2>2. z \in [Tables -> Nat] /\ \A t \in Tables : z[t] = 0
    BY <2>1 DEF NoBatch
  <2>3. /\ minute' = minute + 1
        /\ added' = [m \in DOMAIN added \cup {minute + 1} |-> IF m \in DOMAIN added THEN added[m] ELSE z]
    BY <1>3, <2>1 DEF NextMinute
  <2>4. /\ minute \in Nat /\ FirstMinute \in Nat /\ FirstMinute <= minute /\ WindowBuckets \in Nat
        /\ DOMAIN added = FirstMinute..minute
    BY StatsAssumption DEF WindowInv
  <2>5. /\ DOMAIN added' = FirstMinute..minute + 1 /\ added'[minute + 1] = z
        /\ \A m \in DOMAIN added : m \in DOMAIN added' /\ added'[m] = added[m]
    <3>1. DOMAIN added \cup {minute + 1} = FirstMinute..minute + 1 /\ minute + 1 \notin DOMAIN added
      BY <2>4
    <3> QED
      BY <2>3, <3>1
  <2>6. \A m \in DOMAIN added' : m \in DOMAIN added \/ m = minute + 1
    BY <2>3
  <2>7. \A m \in DOMAIN added' : added'[m] \in [Tables -> Nat]
    BY <2>2, <2>5, <2>6 DEF WindowInv
  <2>8. ASSUME NEW j \in DOMAIN window'
        PROVE  LET x == window'[j]
               IN  \/ x.minute = 0
                   \/ /\ x.minute \in DOMAIN added' /\ x.minute % WindowBuckets = j
                      /\ HoldsAt(x, x.minute, added'[x.minute])
    <3>1. PICK x : x = window[j]
      OBVIOUS
    <3>2. \/ x.minute = 0
          \/ /\ x.minute \in DOMAIN added /\ x.minute % WindowBuckets = j
             /\ HoldsAt(x, x.minute, added[x.minute])
      BY <1>1, <2>8, <3>1 DEF WindowInv
    <3> QED
      BY <1>1, <2>5, <3>1, <3>2
  <2>9. ASSUME NEW m \in DOMAIN added', m > minute' - WindowBuckets
        PROVE  window'[m % WindowBuckets].minute = m \/ \A t \in Tables : added'[m][t] = 0
    <3>1. CASE m = minute + 1
      BY <2>2, <2>5, <3>1
    <3>2. CASE m \in DOMAIN added
      <4>1. m > minute - WindowBuckets
        BY <2>3, <2>4, <2>9, <3>2
      <4>2. window[m % WindowBuckets].minute = m \/ \A t \in Tables : added[m][t] = 0
        BY <3>2, <4>1 DEF WindowInv
      <4> QED
        BY <1>1, <2>5, <3>2, <4>2
    <3> QED
      BY <2>6, <3>1, <3>2
  <2>10. minute' \in Nat /\ FirstMinute <= minute' /\ DOMAIN added' = FirstMinute..minute'
    BY <2>3, <2>4, <2>5
  <2> QED
    BY <1>1, <2>7, <2>8, <2>9, <2>10 DEF WindowInv
<1> QED
  BY <1>2, <1>3 DEF Time, statsVars

(* The workers and all others leave the window alone. *)
LEMMA OthersKeepWindow ==
  ASSUME WindowInv, [CommandNext]_all, ~LoggerDrains, ~Time
  PROVE  WindowInv'
<1>1. UNCHANGED <<window, added, minute>>
  <2>1. ASSUME NEW w \in Workers, WorkerReceives(w)
        PROVE  UNCHANGED <<window, added, minute>>
    BY <2>1 DEF WorkerReceives, ParseMessages, loggerVars
  <2>2. ASSUME NEW w \in Workers, WorkerGoesOn(w)
        PROVE  UNCHANGED <<window, added, minute>>
    BY <2>2 DEF WorkerGoesOn, MergeFails, SettleFailures, WriteSucceeds, WriteFails, Record,
       EmitNothing, AckValid, loggerVars
  <2> QED
    BY <2>1, <2>2, OthersLeaveRows
<1> QED
  BY <1>1 DEF WindowInv

(* No slot is in use, and no minute has rows. *)
LEMMA InitWindow == CommandInit => WindowInv
<1> SUFFICES ASSUME CommandInit PROVE WindowInv
  OBVIOUS
<1>1. PICK z : z = NoBatch.rows
  OBVIOUS
<1>2. z \in [Tables -> Nat] /\ \A t \in Tables : z[t] = 0
  BY <1>1 DEF NoBatch
<1>3. /\ minute = FirstMinute /\ added = [m \in {FirstMinute} |-> z]
      /\ window = [i \in 0..WindowBuckets - 1 |-> NoBucket]
  BY <1>1 DEF CommandInit, StatsInit
<1>4. NoBucket.minute = 0
  BY DEF NoBucket
<1>5. minute \in Nat /\ FirstMinute <= minute /\ DOMAIN added = FirstMinute..minute
  BY <1>3, StatsAssumption
<1>6. \A m \in DOMAIN added : added[m] = z
  BY <1>3
<1>7. DOMAIN window = 0..WindowBuckets - 1 /\ \A i \in DOMAIN window : window[i].minute = 0
  BY <1>3, <1>4
<1> QED
  BY <1>2, <1>5, <1>6, <1>7 DEF WindowInv

(* WindowInv is an invariant of the process. *)
THEOREM WindowInvariant == CommandSpec => []WindowInv
<1>1. EventsInv /\ WindowInv /\ [CommandNext]_all => WindowInv'
  BY DrainKeepsWindow, MinuteKeepsWindow, OthersKeepWindow
<1> QED
  BY <1>1, InitWindow, EventsInvariant, PTL DEF CommandSpec

Recent == {m \in DOMAIN added : m > minute - WindowBuckets}

(* h takes each live slot to its minute: the minutes of the window, but for  *)
(* those without rows.                                                       *)
LiveMinutes(h, L, R) ==
  /\ IsFiniteSet(L) /\ IsFiniteSet(R)
  /\ \A i \in L : h[i] \in R /\ Holds(window[i].counts, added[h[i]])
  /\ \A i, j \in L : h[i] = h[j] => i = j
  /\ \A m \in R : added[m] \in [Tables -> Nat]
  /\ \A m \in R : (\E i \in L : h[i] = m) \/ \A t \in Tables : added[m][t] = 0

(* The live slots hold the minutes of the window. *)
LEMMA LiveIsRecent ==
  ASSUME WindowInv
  PROVE  \E h : LiveMinutes(h, Live, Recent)
<1>1. PICK L, R, W : L = Live /\ R = Recent /\ W = WindowBuckets
  OBVIOUS
<1>2. PICK h : h = [i \in L |-> window[i].minute]
  OBVIOUS
<1>3. /\ minute \in Nat /\ W \in Nat \ {0} /\ FirstMinute \in Nat /\ minute >= FirstMinute
      /\ FirstMinute >= W /\ DOMAIN added = FirstMinute..minute /\ DOMAIN window = 0..W - 1
  BY <1>1, StatsAssumption DEF WindowInv
<1>4. IsFiniteSet(L) /\ IsFiniteSet(R)
  <2>1. IsFiniteSet(0..W - 1) /\ IsFiniteSet(FirstMinute..minute)
    BY <1>3, FS_Interval
  <2>2. L \subseteq 0..W - 1 /\ R \subseteq FirstMinute..minute
    BY <1>1, <1>3 DEF Live, Recent
  <2> QED
    BY <2>1, <2>2, FS_Subset
<1>5. \A m \in R : m \in DOMAIN added /\ added[m] \in [Tables -> Nat]
  BY <1>1 DEF Recent, WindowInv
<1>6. ASSUME NEW i \in L
      PROVE  h[i] \in R /\ h[i] % W = i /\ Holds(window[i].counts, added[h[i]])
  <2>1. PICK b : b = window[i]
    OBVIOUS
  <2>2. b.minute = h[i] /\ i \in DOMAIN window /\ b.minute >= minute - W + 1
    BY <1>1, <1>2, <2>1 DEF Live
  <2>3. b.minute # 0
    BY <1>3, <2>2
  <2>4. /\ b.minute \in DOMAIN added /\ b.minute % W = i
        /\ HoldsAt(b, b.minute, added[b.minute])
    BY <1>1, <2>1, <2>2, <2>3 DEF WindowInv
  <2>5. b.minute \in R
    BY <1>1, <1>3, <2>2, <2>4 DEF Recent
  <2>6. Holds(b.counts, added[b.minute])
    BY <2>4 DEF HoldsAt, Bucket
  <2> QED
    BY <2>1, <2>2, <2>4, <2>5, <2>6
<1>7. \A i, j \in L : h[i] = h[j] => i = j
  BY <1>6
<1>8. ASSUME NEW m \in R, ~ \A t \in Tables : added[m][t] = 0
      PROVE  \E i \in L : h[i] = m
  <2>1. m \in Nat /\ m > minute - W
    BY <1>1, <1>3, <1>5 DEF Recent
  <2>2. window[m % W].minute = m
    BY <1>1, <1>5, <1>8, <2>1 DEF WindowInv
  <2>3. m % W \in DOMAIN window
    BY <1>3, <2>1, SlotOfMinute
  <2>4. m % W \in L
    BY <1>1, <1>3, <2>1, <2>2, <2>3 DEF Live
  <2> QED
    BY <1>2, <2>2, <2>4
<1>9. LiveMinutes(h, L, R)
  BY <1>4, <1>5, <1>6, <1>7, <1>8 DEF LiveMinutes
<1> QED
  BY <1>1, <1>9

(* What a slot has under a key. *)
LEMMA CountIsPadded ==
  ASSUME NEW b, NEW k \in Keys
  PROVE  Count(b, k) = Padded(b.counts)[k]
BY DEF Count, Padded

(* A key of the report has the rows of the live slots. *)
Total(L, k) == SumOver([i \in L |-> Padded(window[i].counts)[k]], L)

(* What the report has under its keys. *)
LEMMA ReportTotals ==
  ASSUME NEW h, NEW R, LiveMinutes(h, Live, R)
  PROVE  /\ DOMAIN Report \subseteq Keys
         /\ \A k \in DOMAIN Report : Report[k] = Total(Live, k)
         /\ \A k \in Keys \ DOMAIN Report : Total(Live, k) = 0
<1>1. PICK L : L = Live
  OBVIOUS
<1>2. DOMAIN Report = UNION {DOMAIN window[i].counts : i \in L}
  BY <1>1 DEF Report
<1>3. \A i \in L : DOMAIN window[i].counts \subseteq Keys
  BY <1>1 DEF LiveMinutes, Holds
<1>4. DOMAIN Report \subseteq Keys
  BY <1>2, <1>3
<1>5. ASSUME NEW k \in DOMAIN Report PROVE Report[k] = Total(L, k)
  <2>1. Report[k] = SumOver([i \in L |-> Count(window[i], k)], L)
    BY <1>1, <1>5 DEF Report
  <2>2. \A i \in L : Count(window[i], k) = Padded(window[i].counts)[k]
    BY <1>4, <1>5, CountIsPadded
  <2>3. [i \in L |-> Count(window[i], k)] = [i \in L |-> Padded(window[i].counts)[k]]
    BY <2>2
  <2> QED
    BY <2>1, <2>3 DEF Total
<1>6. ASSUME NEW k \in Keys \ DOMAIN Report PROVE Total(L, k) = 0
  <2>1. PICK f : f = [i \in L |-> Padded(window[i].counts)[k]]
    OBVIOUS
  <2>2. \A i \in L : k \notin DOMAIN window[i].counts
    BY <1>2, <1>6
  <2>3. \A i \in L : f[i] = 0
    BY <2>1, <2>2 DEF Padded
  <2>4. IsFiniteSet(L)
    BY <1>1 DEF LiveMinutes
  <2>5. SumOver(f, L) = 0
    BY <2>3, <2>4, SumNat
  <2> QED
    BY <2>1, <2>5 DEF Total
<1> QED
  BY <1>1, <1>4, <1>5, <1>6

(* The rows of a table in some minutes. *)
InMinutes(R, t) == SumOver([m \in R |-> added[m][t]], R)

(* The live slots have no row more and no row less than their minutes. *)
LEMMA RowsOfLive ==
  ASSUME NEW h, NEW L, NEW R, LiveMinutes(h, L, R)
  PROVE  SumOver([k \in Keys |-> Total(L, k)], Keys) = SumOver([t \in Tables |-> InMinutes(R, t)], Tables)
<1>1. PICK F : F = [i \in L |-> Padded(window[i].counts)]
  OBVIOUS
<1>2. PICK A : A = [m \in R |-> added[m]]
  OBVIOUS
<1>3. PICK P : P = [i \in L |-> SumOver(F[i], Keys)]
  OBVIOUS
<1>4. PICK G : G = [m \in R |-> SumOver(A[m], Tables)]
  OBVIOUS
<1>5. /\ IsFiniteSet(L) /\ IsFiniteSet(R) /\ IsFiniteSet(Tables) /\ IsFiniteSet(Keys)
  BY StatsAssumption, FS_AddElement DEF LiveMinutes, Keys
<1>6. \A m \in R : A[m] = added[m] /\ A[m] \in [Tables -> Nat]
  BY <1>2 DEF LiveMinutes
<1>7. \A i \in L : \A k \in Keys : F[i][k] \in Int
  <2>1. SUFFICES ASSUME NEW i \in L, NEW k \in Keys PROVE F[i][k] \in Int
    OBVIOUS
  <2>2. PICK c : c = window[i].counts
    OBVIOUS
  <2>3. DOMAIN c \subseteq Keys /\ \A x \in DOMAIN c : c[x] \in Nat
    BY <2>1, <2>2 DEF LiveMinutes, Holds
  <2>4. Padded(c)[k] \in Nat
    BY <2>1, <2>3, PaddedCounts
  <2> QED
    BY <1>1, <2>1, <2>2, <2>4
<1>8. PICK C : C = [k \in Keys |-> Total(L, k)]
  OBVIOUS
<1>9. \A k \in Keys : C[k] = SumOver(Column(F, L, k), L)
  <2>1. SUFFICES ASSUME NEW k \in Keys PROVE C[k] = SumOver(Column(F, L, k), L)
    OBVIOUS
  <2>2. Column(F, L, k) = [i \in L |-> Padded(window[i].counts)[k]]
    BY <1>1 DEF Column
  <2> QED
    BY <1>8, <2>2 DEF Total
<1>10. SumOver(P, L) = SumOver(C, Keys)
  <2>1. PICK K : K = Keys
    OBVIOUS
  <2>2. \A i \in L : \A k \in K : F[i][k] \in Int
    BY <1>7, <2>1
  <2>3. IsFiniteSet(L)
    BY <1>5
  <2>4. IsFiniteSet(K)
    BY <1>5, <2>1
  <2>5. \A i \in L : P[i] = SumOver(F[i], K)
    BY <1>3, <2>1
  <2>6. \A k \in K : C[k] = SumOver(Column(F, L, k), L)
    BY <1>9, <2>1
  <2>7. SumOver(P, L) = SumOver(C, K)
    BY <2>2, <2>3, <2>4, <2>5, <2>6, SumSwap
  <2> QED
    BY <2>1, <2>7
<1>11. SumOver(P, L) = SumOver(G, R)
  <2>1. \A m \in R : G[m] = SumOver(A[m], Tables) /\ G[m] \in Nat
    <3>1. SUFFICES ASSUME NEW m \in R PROVE G[m] = SumOver(A[m], Tables) /\ G[m] \in Nat
      OBVIOUS
    <3>2. G[m] = SumOver(A[m], Tables)
      BY <1>4
    <3>3. \A t \in Tables : A[m][t] \in Nat
      BY <1>6, <3>1
    <3> QED
      BY <1>5, <3>2, <3>3, SumNat
  <2>2. ASSUME NEW i \in L PROVE h[i] \in R /\ P[i] = G[h[i]]
    <3>1. h[i] \in R /\ Holds(window[i].counts, added[h[i]])
      BY <2>2 DEF LiveMinutes
    <3>2. SumOver(Padded(window[i].counts), Keys) = SumOver(added[h[i]], Tables)
      BY <3>1 DEF Holds
    <3>3. P[i] = SumOver(Padded(window[i].counts), Keys)
      BY <1>1, <1>3, <2>2
    <3>4. G[h[i]] = SumOver(added[h[i]], Tables)
      BY <1>6, <2>1, <3>1
    <3> QED
      BY <3>1, <3>2, <3>3, <3>4
  <2>3. ASSUME NEW m \in R, ~ \E i \in L : h[i] = m PROVE G[m] = 0
    <3>1. \A t \in Tables : A[m][t] = 0
      BY <1>6, <2>3 DEF LiveMinutes
    <3>2. SumOver(A[m], Tables) = 0
      BY <1>5, <3>1, SumNat
    <3> QED
      BY <2>1, <2>3, <3>2
  <2>4. \A i, j \in L : h[i] = h[j] => i = j
    BY DEF LiveMinutes
  <2>5. \A m \in R : G[m] \in Int
    BY <2>1
  <2>6. \A m \in R : (\E i \in L : h[i] = m) \/ G[m] = 0
    BY <2>3
  <2> QED
    BY <1>5, <2>2, <2>4, <2>5, <2>6, SumReindex
<1>12. PICK D : D = [t \in Tables |-> InMinutes(R, t)]
  OBVIOUS
<1>13. SumOver(G, R) = SumOver(D, Tables)
  <2>1. \A m \in R : \A t \in Tables : A[m][t] \in Int
    BY <1>6
  <2>2. \A m \in R : G[m] = SumOver(A[m], Tables)
    BY <1>4
  <2>3. \A t \in Tables : D[t] = SumOver(Column(A, R, t), R)
    <3>1. SUFFICES ASSUME NEW t \in Tables PROVE D[t] = SumOver(Column(A, R, t), R)
      OBVIOUS
    <3>2. Column(A, R, t) = [m \in R |-> added[m][t]]
      BY <1>6 DEF Column
    <3> QED
      BY <1>12, <3>2 DEF InMinutes
  <2> QED
    BY <1>5, <2>1, <2>2, <2>3, SumSwap
<1> QED
  BY <1>8, <1>10, <1>11, <1>12, <1>13

(* A table has no row more than in the minutes, and no row less unless a     *)
(* minute was crowded.                                                       *)
LEMMA TableOfLive ==
  ASSUME NEW h, NEW L, NEW R, LiveMinutes(h, L, R), NEW t \in Tables
  PROVE  /\ Total(L, t) <= InMinutes(R, t)
         /\ (\A m \in R : ~(Cardinality(Busy(added[m])) > MaxDistinct)) => Total(L, t) = InMinutes(R, t)
<1>1. PICK f : f = [i \in L |-> Padded(window[i].counts)[t]]
  OBVIOUS
<1>2. PICK g : g = [m \in R |-> added[m][t]]
  OBVIOUS
<1>3. PICK p : p = [i \in L |-> g[h[i]]]
  OBVIOUS
<1>4. IsFiniteSet(L) /\ IsFiniteSet(R) /\ t \in Keys
  BY DEF LiveMinutes, Keys
<1>5. \A m \in R : g[m] = added[m][t] /\ g[m] \in Nat
  BY <1>2 DEF LiveMinutes
<1>6. ASSUME NEW i \in L
      PROVE  /\ h[i] \in R /\ p[i] = added[h[i]][t] /\ p[i] = g[h[i]] /\ p[i] \in Int /\ f[i] \in Int
             /\ f[i] <= p[i] /\ (~(Cardinality(Busy(added[h[i]])) > MaxDistinct) => f[i] = p[i])
  <2>1. PICK c, a : c = window[i].counts /\ a = added[h[i]]
    OBVIOUS
  <2>2. h[i] \in R /\ Holds(c, a)
    BY <1>6, <2>1 DEF LiveMinutes
  <2>3. p[i] = g[h[i]] /\ p[i] = a[t] /\ p[i] \in Nat
    BY <1>3, <1>5, <1>6, <2>1, <2>2
  <2>4. f[i] = Padded(c)[t]
    BY <1>1, <1>6, <2>1
  <2>5. DOMAIN c \subseteq Keys /\ \A x \in DOMAIN c : c[x] \in Nat
    BY <2>2 DEF Holds
  <2>6. f[i] \in Nat
    BY <1>4, <2>4, <2>5, PaddedCounts
  <2>7. f[i] <= p[i]
    <3>1. CASE t \in DOMAIN c
      <4>1. Padded(c)[t] = c[t] /\ c[t] <= a[t]
        BY <1>4, <2>2, <3>1 DEF Padded, Holds
      <4> QED
        BY <2>3, <2>4, <4>1
    <3>2. CASE t \notin DOMAIN c
      <4>1. Padded(c)[t] = 0
        BY <1>4, <3>2 DEF Padded
      <4> QED
        BY <2>3, <2>4, <4>1
    <3> QED
      BY <3>1, <3>2
  <2>8. ~(Cardinality(Busy(a)) > MaxDistinct) => f[i] = p[i]
    BY <2>2, <2>3, <2>4 DEF Holds
  <2> QED
    BY <2>1, <2>2, <2>3, <2>6, <2>7, <2>8
<1>7. SumOver(p, L) = SumOver(g, R)
  <2>1. \A i, j \in L : h[i] = h[j] => i = j
    BY DEF LiveMinutes
  <2>2. \A m \in R : (\E i \in L : h[i] = m) \/ g[m] = 0
    BY <1>5 DEF LiveMinutes
  <2>3. \A m \in R : g[m] \in Int
    BY <1>5
  <2>4. \A i \in L : h[i] \in R /\ p[i] = g[h[i]]
    BY <1>6
  <2> QED
    BY <1>4, <2>1, <2>2, <2>3, <2>4, SumReindex
<1>8. SumOver(f, L) <= SumOver(p, L)
  BY <1>4, <1>6, SumLeq
<1>9. ASSUME \A m \in R : ~(Cardinality(Busy(added[m])) > MaxDistinct)
      PROVE  SumOver(f, L) = SumOver(p, L)
  <2>1. \A i \in L : f[i] = p[i]
    BY <1>6, <1>9
  <2> QED
    BY <1>4, <2>1, SumSame
<1>10. Total(L, t) = SumOver(f, L) /\ InMinutes(R, t) = SumOver(g, R)
  BY <1>1, <1>2 DEF Total, InMinutes
<1> QED
  BY <1>7, <1>8, <1>9, <1>10

(* What holds of the slots makes the report exact. *)
LEMMA ReportIsExact == WindowInv => WindowIsExact
<1> SUFFICES ASSUME WindowInv PROVE WindowIsExact
  OBVIOUS
<1>1. PICK L, R : L = Live /\ R = Recent
  OBVIOUS
<1>2. PICK h : LiveMinutes(h, L, R)
  BY <1>1, LiveIsRecent
<1>3. PICK q : q = Report
  OBVIOUS
<1>4. /\ DOMAIN q \subseteq Keys
      /\ \A k \in DOMAIN q : q[k] = Total(L, k)
      /\ \A k \in Keys \ DOMAIN q : Total(L, k) = 0
  BY <1>1, <1>2, <1>3, ReportTotals
<1>5. PICK C : C = [k \in Keys |-> Total(L, k)]
  OBVIOUS
<1>6. PICK D : D = [t \in Tables |-> InMinutes(R, t)]
  OBVIOUS
<1>7. SumOver(C, Keys) = SumOver(D, Tables)
  BY <1>2, <1>5, <1>6, RowsOfLive
<1>8. IsFiniteSet(Keys) /\ IsFiniteSet(DOMAIN q) /\ Overflow \notin Tables
  BY <1>4, StatsAssumption, FS_AddElement, FS_Subset DEF Keys
<1>9. \A k \in Keys : C[k] \in Int
  <2>1. SUFFICES ASSUME NEW k \in Keys PROVE Total(L, k) \in Int
    BY <1>5
  <2>2. PICK f : f = [i \in L |-> Padded(window[i].counts)[k]]
    OBVIOUS
  <2>3. ASSUME NEW i \in L PROVE f[i] \in Int
    <3>1. PICK c : c = window[i].counts
      OBVIOUS
    <3>2. DOMAIN c \subseteq Keys /\ \A x \in DOMAIN c : c[x] \in Nat
      BY <1>2, <2>3, <3>1 DEF LiveMinutes, Holds
    <3>3. Padded(c)[k] \in Nat
      BY <2>1, <3>2, PaddedCounts
    <3> QED
      BY <2>2, <2>3, <3>1, <3>3
  <2>4. IsFiniteSet(L)
    BY <1>2 DEF LiveMinutes
  <2>5. SumOver(f, L) \in Int
    BY <2>3, <2>4, SumType
  <2> QED
    BY <2>2, <2>5 DEF Total
<1>10. RowsOf(q) = SumOver(C, Keys)
  <2>1. \A k \in Keys \ DOMAIN q : C[k] = 0
    BY <1>4, <1>5
  <2>2. SumOver(C, Keys) = SumOver(C, DOMAIN q)
    BY <1>4, <1>8, <1>9, <2>1, SumZeros
  <2>3. \A k \in DOMAIN q : q[k] = C[k]
    BY <1>4, <1>5
  <2>4. SumOver(q, DOMAIN q) = SumOver(C, DOMAIN q)
    BY <1>8, <2>3, SumSame
  <2> QED
    BY <2>2, <2>4, RowsAreSum
<1>11. RowsOf(D) = SumOver(D, Tables)
  BY <1>6, RowsAreSum
<1>12. ASSUME NEW t \in DOMAIN q \ {Overflow}
       PROVE  /\ t \in Tables /\ q[t] <= D[t]
              /\ (\A m \in R : ~(Cardinality(Busy(added[m])) > MaxDistinct)) => q[t] = D[t]
  <2>1. t \in Tables
    BY <1>4, <1>12 DEF Keys
  <2>2. q[t] = Total(L, t) /\ D[t] = InMinutes(R, t)
    BY <1>4, <1>6, <1>12, <2>1
  <2> QED
    BY <1>2, <2>1, <2>2, TableOfLive
<1>13. /\ R = {m \in DOMAIN added : m > minute - WindowBuckets}
       /\ D = [t \in Tables |-> SumOver([m \in R |-> added[m][t]], R)]
       /\ \A m \in R : Busy(added[m]) = {t \in Tables : added[m][t] > 0}
  BY <1>1, <1>6 DEF Recent, InMinutes, Busy
<1>14. RowsOf(q) = RowsOf(D)
  BY <1>7, <1>10, <1>11
<1> QED
  BY <1>3, <1>12, <1>13, <1>14 DEF WindowIsExact

(* The report of the rolling window is exact at every moment: it has the     *)
(* rows of the last WindowBuckets minutes and no others, whatever slots were *)
(* reused or skipped, for any number of tables, slots and distinct keys; a   *)
(* table is short, for the good of "other", only if a minute was crowded.    *)
THEOREM WindowsAreExact == CommandSpec => []WindowIsExact
BY ReportIsExact, WindowInvariant, PTL
-----------------------------------------------------------------------------
(* The lags.                                                                 *)

(* The lags are finitely many natural numbers, and the bounds ascend. *)
LEMMA LagFacts ==
  /\ IsFiniteSet(LagValues) /\ LagValues \subseteq Nat
  /\ Len(Bounds) \in Nat /\ Len(Bounds) > 0 /\ DOMAIN Bounds = 1..Len(Bounds)
  /\ InfBucket = Len(Bounds) + 1 /\ \A i \in 1..Len(Bounds) : Bounds[i] \in Nat
<1>1. LagValues \subseteq Nat
  BY LagAssumption DEF LagValues, Clamped
<1>2. IsFiniteSet(LagValues)
  <2>1. PICK f : f = [x \in Lags |-> Clamped(x)]
    OBVIOUS
  <2>2. f \in Surjection(Lags, LagValues)
    BY <2>1 DEF LagValues, Surjection
  <2> QED
    BY <2>2, LagAssumption, FS_Surjection
<1> QED
  BY <1>1, <1>2, LagAssumption DEF InfBucket

(* A bound is no smaller than those before it. *)
LEMMA BoundsAscend ==
  ASSUME NEW i \in 1..Len(Bounds), NEW j \in i..Len(Bounds)
  PROVE  Bounds[i] <= Bounds[j] /\ (i < j => Bounds[i] < Bounds[j])
<1> DEFINE N == Len(Bounds) - i
           S == {k \in 0..N : Bounds[i] <= Bounds[i + k] /\ (k > 0 => Bounds[i] < Bounds[i + k])}
<1>1. N \in Nat /\ \A k \in 0..N : i + k \in 1..Len(Bounds)
  BY LagFacts
<1>2. 0 \in S
  BY <1>1, LagFacts
<1>3. ASSUME NEW k \in 0..N - 1, k \in S PROVE k + 1 \in S
  <2>1. i + k \in 1..Len(Bounds) /\ i + (k + 1) \in 2..Len(Bounds) /\ i + (k + 1) - 1 = i + k
    BY <1>1, LagFacts
  <2>2. Bounds[i + (k + 1)] > Bounds[i + (k + 1) - 1]
    BY <2>1, LagAssumption
  <2>3. Bounds[i] \in Nat /\ Bounds[i + k] \in Nat /\ Bounds[i + (k + 1)] \in Nat
    BY <2>1, LagFacts
  <2>4. Bounds[i] < Bounds[i + (k + 1)]
    BY <1>3, <2>1, <2>2, <2>3
  <2> QED
    BY <1>1, <2>3, <2>4
<1>4. \A k \in 0..N : k \in S
  <2> HIDE DEF S
  <2>1. N \in Nat
    BY <1>1
  <2> HIDE DEF N
  <2> QED
    BY <1>2, <1>3, <2>1, BoundedInduction
<1>5. j - i \in 0..N /\ i + (j - i) = j
  BY LagFacts
<1>6. j - i \in S
  BY <1>4, <1>5
<1> QED
  BY <1>5, <1>6

(* How many of the lags n are in the first j buckets. *)
Cum(n, j) == IF j = 0 THEN 0
             ELSE IF j = InfBucket THEN SumOver(n, LagValues) ELSE AtMost(n, Bounds[j])

(* More of the buckets have more of the lags. *)
LEMMA CumAscends ==
  ASSUME NEW n \in [LagValues -> Nat]
  PROVE  /\ \A b : AtMost(n, b) \in Nat /\ AtMost(n, b) <= SumOver(n, LagValues)
         /\ \A b, c \in Nat : b <= c => AtMost(n, b) <= AtMost(n, c)
         /\ \A j \in 0..InfBucket : Cum(n, j) \in Nat
         /\ \A j \in 1..InfBucket : Cum(n, j - 1) <= Cum(n, j)
<1> DEFINE V(b) == {x \in LagValues : x <= b}
<1>1. \A b : AtMost(n, b) = SumOver(n, V(b)) /\ V(b) \in SUBSET LagValues
  BY DEF AtMost
<1>2. IsFiniteSet(LagValues) /\ \A x \in LagValues : n[x] \in Nat
  BY LagFacts
<1>3. ASSUME NEW b PROVE AtMost(n, b) \in Nat /\ AtMost(n, b) <= SumOver(n, LagValues)
  <2>1. PICK T : T = V(b)
    OBVIOUS
  <2>2. T \in SUBSET LagValues /\ IsFiniteSet(T) /\ \A x \in T : n[x] \in Nat
    BY <1>2, <2>1, FS_Subset
  <2>3. SumOver(n, T) \in Nat
    BY <2>2, SumNat
  <2>4. SumOver(n, T) <= SumOver(n, LagValues)
    BY <1>2, <2>2, SumSubset
  <2> QED
    BY <1>1, <2>1, <2>3, <2>4
<1>4. ASSUME NEW b \in Nat, NEW c \in Nat, b <= c PROVE AtMost(n, b) <= AtMost(n, c)
  <2>1. PICK T, U : T = V(b) /\ U = V(c)
    OBVIOUS
  <2>2. T \in SUBSET U /\ U \in SUBSET LagValues
    <3>1. \A x \in LagValues : x \in Nat /\ (x <= b => x <= c)
      BY <1>4, LagFacts
    <3> QED
      BY <2>1, <3>1
  <2>3. IsFiniteSet(U) /\ \A x \in U : n[x] \in Nat
    BY <1>2, <2>2, FS_Subset
  <2>4. SumOver(n, T) <= SumOver(n, U)
    BY <2>2, <2>3, SumSubset
  <2> QED
    BY <1>1, <2>1, <2>4
<1>5. SumOver(n, LagValues) \in Nat
  BY <1>2, SumNat
<1>6. \A j \in 0..InfBucket : Cum(n, j) \in Nat
  BY <1>3, <1>5 DEF Cum
<1>7. ASSUME NEW j \in 1..InfBucket PROVE Cum(n, j - 1) <= Cum(n, j)
  <2>1. j - 1 \in 0..InfBucket /\ j \in 0..InfBucket /\ j - 1 # InfBucket /\ j # 0
    BY LagFacts
  <2>2. CASE j = 1
    <3>1. Cum(n, j - 1) = 0
      BY <2>2 DEF Cum
    <3> QED
      BY <1>6, <2>1, <3>1
  <2>3. CASE j # 1 /\ j = InfBucket
    <3>1. Cum(n, j - 1) = AtMost(n, Bounds[j - 1]) /\ Cum(n, j) = SumOver(n, LagValues)
      BY <2>1, <2>3 DEF Cum
    <3> QED
      BY <1>3, <3>1
  <2>4. CASE j # 1 /\ j # InfBucket
    <3>1. Cum(n, j - 1) = AtMost(n, Bounds[j - 1]) /\ Cum(n, j) = AtMost(n, Bounds[j])
      BY <2>1, <2>4 DEF Cum
    <3>2. j - 1 \in 1..Len(Bounds) /\ j \in j - 1..Len(Bounds) /\ j \in 1..Len(Bounds)
      BY <2>4, LagFacts
    <3>3. Bounds[j - 1] <= Bounds[j] /\ Bounds[j - 1] \in Nat /\ Bounds[j] \in Nat
      BY <3>2, BoundsAscend, LagFacts
    <3> QED
      BY <1>4, <3>1, <3>3
  <2> QED
    BY <2>2, <2>3, <2>4
<1> QED
  BY <1>3, <1>4, <1>6, <1>7

(* The histogram c has grown from p by the lags n. *)
Grew(p, c, n) ==
  /\ c.count - p.count = SumOver(n, LagValues)
  /\ \A i \in 1..Len(Bounds) : c.atMost[i] - p.atMost[i] = AtMost(n, Bounds[i])

(* counts says how many of the lags n are in each bucket. *)
Counts(counts, n) ==
  /\ \A i \in 1..InfBucket : counts[i] \in Nat /\ counts[i] = Cum(n, i) - Cum(n, i - 1)
  /\ \A j \in 0..InfBucket : SumOver(counts, 1..j) = Cum(n, j)

(* bucketDeltas says how many lags each bucket got since the last snapshot. *)
LEMMA DeltasCount ==
  ASSUME NEW n \in [LagValues -> Nat], NEW p, NEW c, Grew(p, c, n)
  PROVE  Counts(BucketDeltas(p, c), n)
<1>1. PICK f : f = BucketDeltas(p, c)
  OBVIOUS
<1> DEFINE below(i) == IF i = 0 THEN 0 ELSE c.atMost[i] - p.atMost[i]
<1>2. InfBucket \in Nat /\ InfBucket > 1 /\ InfBucket = Len(Bounds) + 1 /\ Len(Bounds) \in Nat
  BY LagFacts
<1>3. \A i \in 0..Len(Bounds) : below(i) = Cum(n, i)
  BY <1>2 DEF Grew, Cum
<1>4. \A i \in 1..InfBucket :
        f[i] = IF i = InfBucket THEN c.count - p.count - below(i - 1) ELSE below(i) - below(i - 1)
  BY <1>1 DEF BucketDeltas
<1> HIDE DEF below
<1>5. ASSUME NEW i \in 1..InfBucket PROVE f[i] = Cum(n, i) - Cum(n, i - 1)
  <2>1. i - 1 \in 0..Len(Bounds) /\ (i # InfBucket => i \in 0..Len(Bounds))
    BY <1>2
  <2>2. i = InfBucket => c.count - p.count = Cum(n, i)
    BY <1>2 DEF Grew, Cum
  <2>3. CASE i = InfBucket
    BY <1>3, <1>4, <2>1, <2>2, <2>3
  <2>4. CASE i # InfBucket
    BY <1>3, <1>4, <2>1, <2>4
  <2> QED
    BY <2>3, <2>4
<1>6. \A i \in 1..InfBucket : f[i] \in Nat
  <2>1. SUFFICES ASSUME NEW i \in 1..InfBucket PROVE f[i] \in Nat
    OBVIOUS
  <2>2. i - 1 \in 0..InfBucket /\ i \in 0..InfBucket
    BY <1>2
  <2>3. Cum(n, i) \in Nat /\ Cum(n, i - 1) \in Nat /\ Cum(n, i - 1) <= Cum(n, i)
    BY <2>1, <2>2, CumAscends
  <2> QED
    BY <1>5, <2>1, <2>3
<1> DEFINE S == {j \in 0..InfBucket : SumOver(f, 1..j) = Cum(n, j)}
<1>7. 0 \in S
  <2>1. PICK E : E = 1..0
    OBVIOUS
  <2>4. E = {} /\ IsFiniteSet(E)
    BY <2>1, FS_EmptySet
  <2>5. SumOver(f, E) = 0
    BY <2>4, SumAt
  <2>2. Cum(n, 0) = 0
    BY DEF Cum
  <2>3. SumOver(f, 1..0) = Cum(n, 0)
    BY <2>1, <2>2, <2>5
  <2> QED
    BY <1>2, <2>3
<1>8. ASSUME NEW j \in 0..InfBucket - 1, j \in S PROVE j + 1 \in S
  <2>1. j + 1 \in Nat /\ j + 1 > 0 /\ (j + 1) - 1 = j /\ j + 1 \in 1..InfBucket /\ j \in 0..InfBucket
    BY <1>2
  <2>2. \A i \in 1..j + 1 : f[i] \in Int
    BY <1>2, <1>6, <2>1
  <2>3. SumOver(f, 1..j + 1) = f[j + 1] + SumOver(f, 1..(j + 1) - 1)
    BY <2>1, <2>2, SumLast
  <2>4. SumOver(f, 1..j + 1) = f[j + 1] + Cum(n, j)
    BY <1>8, <2>1, <2>3
  <2>5. f[j + 1] = Cum(n, j + 1) - Cum(n, j) /\ Cum(n, j) \in Nat /\ Cum(n, j + 1) \in Nat
    <3>1. f[j + 1] = Cum(n, j + 1) - Cum(n, (j + 1) - 1)
      BY <1>5, <2>1
    <3>2. j + 1 \in 0..InfBucket
      BY <2>1
    <3> QED
      BY <2>1, <3>1, <3>2, CumAscends
  <2>6. SumOver(f, 1..j + 1) = Cum(n, j + 1)
    BY <2>4, <2>5
  <2> QED
    BY <2>1, <2>6
<1>9. \A j \in 0..InfBucket : j \in S
  <2> HIDE DEF S
  <2> QED
    BY <1>2, <1>7, <1>8, BoundedInduction
<1> QED
  BY <1>1, <1>5, <1>6, <1>9 DEF Counts

(* Bucket i holds the rank t, in hundredths, of the lags n. *)
Ranked(t, n, counts, i) ==
  /\ i \in 1..InfBucket /\ counts[i] \in Nat /\ counts[i] > 0
  /\ 100 * Cum(n, i - 1) < t /\ t <= 100 * Cum(n, i)
  /\ 100 * counts[i] = 100 * Cum(n, i) - 100 * Cum(n, i - 1)
  /\ \A j \in 1..InfBucket : 100 * Cum(n, j) >= t => i <= j

(* The estimate for that rank. *)
Estimate(t, n, counts, i) ==
  IF i = InfBucket THEN [num |-> UpperBound(i), den |-> 1]
  ELSE [num |-> Lower(i) * (100 * counts[i]) + (Bounds[i] - Lower(i)) * (t - 100 * Cum(n, i - 1)),
        den |-> 100 * counts[i]]

(* bucketQuantile finds the bucket of the rank, and estimates in it. *)
LEMMA QuantileInBucket ==
  ASSUME NEW n \in [LagValues -> Nat], NEW counts, Counts(counts, n),
         NEW q \in {50, 99}, NEW t, t = q * SumOver(n, LagValues), SumOver(n, LagValues) > 0
  PROVE  \E i : /\ Ranked(t, n, counts, i)
                /\ BucketQuantile(q, counts) = Estimate(t, n, counts, i)
<1>1. PICK N : N = SumOver(n, LagValues)
  OBVIOUS
<1>2. InfBucket \in Nat /\ InfBucket > 1
  BY LagFacts
<1>3. /\ \A j \in 0..InfBucket : Cum(n, j) \in Nat /\ SumOver(counts, 1..j) = Cum(n, j)
      /\ \A i \in 1..InfBucket : counts[i] \in Nat /\ counts[i] = Cum(n, i) - Cum(n, i - 1)
  BY CumAscends DEF Counts
<1>4. Cum(n, InfBucket) = N /\ Cum(n, 0) = 0 /\ N \in Nat /\ N > 0
  <2>1. Cum(n, InfBucket) = N /\ Cum(n, 0) = 0
    BY <1>1, <1>2 DEF Cum
  <2> QED
    BY <1>1, <1>2, <1>3, <2>1
<1>5. t \in Nat /\ t > 0 /\ t <= 100 * N
  <2>1. t = q * N
    BY <1>1
  <2>2. CASE q = 50
    BY <1>4, <2>1, <2>2
  <2>3. CASE q = 99
    BY <1>4, <2>1, <2>3
  <2> QED
    BY <2>2, <2>3
<1> DEFINE T == {j \in 1..InfBucket : 100 * Cum(n, j) >= t}
<1>6. PICK i \in T : \A j \in T : i <= j
  <2>1. InfBucket \in T
    BY <1>2, <1>4, <1>5
  <2>2. T \subseteq Nat /\ T # {}
    BY <1>2, <2>1
  <2> HIDE DEF T
  <2> QED
    BY <2>2, LeastOf
<1>7. /\ i \in 1..InfBucket /\ i \in 0..InfBucket /\ i - 1 \in 0..InfBucket
      /\ 100 * Cum(n, i) >= t /\ \A j \in 1..InfBucket : 100 * Cum(n, j) >= t => i <= j
  BY <1>2, <1>6
<1> HIDE DEF T
<1>8. 100 * Cum(n, i - 1) < t
  <2>1. CASE i = 1
    BY <1>4, <1>5, <2>1
  <2>2. CASE i # 1
    <3>1. i - 1 \in 1..InfBucket /\ ~(i <= i - 1)
      BY <1>2, <1>7, <2>2
    <3>2. Cum(n, i - 1) \in Nat /\ ~(100 * Cum(n, i - 1) >= t)
      BY <1>3, <1>7, <3>1
    <3> QED
      BY <1>5, <3>2
  <2> QED
    BY <2>1, <2>2
<1>9. Ranked(t, n, counts, i)
  <2>1. counts[i] \in Nat /\ counts[i] = Cum(n, i) - Cum(n, i - 1) /\ Cum(n, i) \in Nat /\ Cum(n, i - 1) \in Nat
    BY <1>3, <1>7
  <2>2. counts[i] > 0 /\ 100 * counts[i] = 100 * Cum(n, i) - 100 * Cum(n, i - 1)
    BY <1>5, <1>7, <1>8, <2>1
  <2>3. t <= 100 * Cum(n, i)
    BY <1>5, <1>7, <2>1
  <2> QED
    BY <1>7, <1>8, <2>1, <2>2, <2>3 DEF Ranked
<1> DEFINE M == {j \in 1..InfBucket :
                   counts[j] > 0 /\ 100 * SumOver(counts, 1..j) >= q * SumOver(counts, 1..InfBucket)}
<1>10. q * SumOver(counts, 1..InfBucket) = t
  <2>1. SumOver(counts, 1..InfBucket) = N
    BY <1>2, <1>3, <1>4
  <2> QED
    BY <1>1, <2>1
<1>11. Min(M) = i
  <2>1. \A j \in 1..InfBucket : 100 * SumOver(counts, 1..j) = 100 * Cum(n, j)
    BY <1>2, <1>3
  <2>2. M \subseteq Int /\ i \in M /\ \A j \in M : i <= j
    BY <1>2, <1>7, <1>9, <1>10, <2>1 DEF Ranked
  <2> HIDE DEF M
  <2> QED
    BY <2>2, MinIs
<1>12. SumOver(counts, 1..i - 1) = Cum(n, i - 1)
  BY <1>3, <1>7
<1>13. BucketQuantile(q, counts)
         = IF Min(M) = InfBucket THEN [num |-> UpperBound(Min(M)), den |-> 1]
           ELSE [num |-> Lower(Min(M)) * (100 * counts[Min(M)])
                           + (Bounds[Min(M)] - Lower(Min(M)))
                               * (q * SumOver(counts, 1..InfBucket) - 100 * SumOver(counts, 1..Min(M) - 1)),
                 den |-> 100 * counts[Min(M)]]
  BY DEF BucketQuantile
<1> HIDE DEF M
<1>14. BucketQuantile(q, counts) = Estimate(t, n, counts, i)
  BY <1>10, <1>11, <1>12, <1>13 DEF Estimate
<1> QED
  BY <1>9, <1>14

(* Interpolating between two bounds stays between them. *)
LEMMA Between ==
  ASSUME NEW a \in Nat, NEW b \in Nat, a <= b, NEW d \in Nat, NEW x \in Nat, x <= d
  PROVE  /\ a * d + (b - a) * x \in Int
         /\ a * d <= a * d + (b - a) * x /\ a * d + (b - a) * x <= b * d
<1>1. PICK w : w = b - a
  OBVIOUS
<1>2. w \in Nat /\ b = a + w
  BY <1>1
<1>3. w * x \in Nat /\ w * d \in Nat /\ a * d \in Nat /\ b * d = a * d + w * d
  BY <1>2
<1>4. w * x <= w * d
  <2>1. PICK y : y = d - x
    OBVIOUS
  <2>2. y \in Nat /\ d = x + y
    BY <2>1
  <2>3. w * y \in Nat /\ w * d = w * x + w * y
    BY <1>2, <2>2
  <2> QED
    BY <1>3, <2>3
<1> QED
  BY <1>1, <1>3, <1>4

(* The bounds of a bucket. *)
LEMMA BucketBounds ==
  ASSUME NEW i \in 1..InfBucket
  PROVE  /\ Lower(i) \in Nat /\ UpperBound(i) \in Nat /\ Lower(i) <= UpperBound(i)
         /\ i < InfBucket => UpperBound(i) = Bounds[i] /\ i \in 1..Len(Bounds)
         /\ i = InfBucket => UpperBound(i) = Bounds[Len(Bounds)]
         /\ \A j \in i..InfBucket : UpperBound(i) <= UpperBound(j) /\ (i < j => UpperBound(i) <= Lower(j))
<1>1. /\ Len(Bounds) \in Nat /\ Len(Bounds) > 0 /\ InfBucket = Len(Bounds) + 1
      /\ \A k \in 1..Len(Bounds) : Bounds[k] \in Nat
  BY LagFacts
<1>2. \A k \in 1..Len(Bounds) : \A j \in k..Len(Bounds) : Bounds[k] <= Bounds[j]
  BY BoundsAscend
<1>3. \A k \in 1..InfBucket :
        /\ k = InfBucket => UpperBound(k) = Bounds[Len(Bounds)]
        /\ k # InfBucket => UpperBound(k) = Bounds[k] /\ k \in 1..Len(Bounds)
        /\ k = 1 => Lower(k) = 0
        /\ k # 1 => Lower(k) = Bounds[k - 1] /\ k - 1 \in 1..Len(Bounds)
  BY <1>1 DEF UpperBound, Lower
<1>4. \A k \in 1..InfBucket : Lower(k) \in Nat /\ UpperBound(k) \in Nat
  <2>1. SUFFICES ASSUME NEW k \in 1..InfBucket PROVE Lower(k) \in Nat /\ UpperBound(k) \in Nat
    OBVIOUS
  <2>2. Len(Bounds) \in 1..Len(Bounds)
    BY <1>1
  <2>3. UpperBound(k) \in Nat
    BY <1>1, <1>3, <2>1, <2>2
  <2>4. Lower(k) \in Nat
    BY <1>1, <1>3, <2>1
  <2> QED
    BY <2>3, <2>4
<1>5. Lower(i) <= UpperBound(i)
  <2>1. CASE i = 1
    BY <1>3, <1>4, <2>1
  <2>2. CASE i # 1 /\ i = InfBucket
    BY <1>1, <1>3, <1>4, <2>2
  <2>3. CASE i # 1 /\ i # InfBucket
    <3>1. i - 1 \in 1..Len(Bounds) /\ i \in i - 1..Len(Bounds)
      BY <1>1, <1>3, <2>3
    <3> QED
      BY <1>2, <1>3, <2>3, <3>1
  <2> QED
    BY <2>1, <2>2, <2>3
<1>6. ASSUME NEW j \in i..InfBucket
      PROVE  UpperBound(i) <= UpperBound(j) /\ (i < j => UpperBound(i) <= Lower(j))
  <2>1. j \in 1..InfBucket
    BY <1>1
  <2>2. CASE i = j
    BY <1>4, <2>2
  <2>3. CASE i < j
    <3>1. i \in 1..Len(Bounds) /\ UpperBound(i) = Bounds[i] /\ j # 1 /\ i # InfBucket
      BY <1>1, <1>3, <2>1, <2>3
    <3>2. Lower(j) = Bounds[j - 1] /\ j - 1 \in i..Len(Bounds)
      BY <1>1, <1>3, <2>1, <2>3, <3>1
    <3>3. UpperBound(i) <= Lower(j)
      BY <1>2, <3>1, <3>2
    <3>4. UpperBound(i) <= UpperBound(j)
      <4>1. CASE j = InfBucket
        <5>1. Len(Bounds) \in i..Len(Bounds)
          BY <1>1, <3>1
        <5> QED
          BY <1>2, <1>3, <2>1, <3>1, <4>1, <5>1
      <4>2. CASE j # InfBucket
        <5>1. j \in i..Len(Bounds)
          BY <1>1, <2>3, <4>2
        <5> QED
          BY <1>2, <1>3, <2>1, <3>1, <4>2, <5>1
      <4> QED
        BY <4>1, <4>2
    <3> QED
      BY <3>3, <3>4
  <2> QED
    BY <1>1, <2>2, <2>3
<1> QED
  BY <1>3, <1>4, <1>5, <1>6

(* Where an estimate is: in its bucket, or at the last bound. *)
LEMMA EstimateInBucket ==
  ASSUME NEW n \in [LagValues -> Nat], NEW counts, NEW t \in Nat, NEW i, Ranked(t, n, counts, i),
         NEW e, e = Estimate(t, n, counts, i)
  PROVE  /\ e.den \in Nat /\ e.den > 0 /\ e.num \in Int
         /\ Lower(i) * e.den <= e.num /\ e.num <= UpperBound(i) * e.den
<1>1. i \in 1..InfBucket /\ counts[i] \in Nat /\ counts[i] > 0 /\ InfBucket \in Nat
  BY LagFacts DEF Ranked
<1>2. Lower(i) \in Nat /\ UpperBound(i) \in Nat /\ Lower(i) <= UpperBound(i)
  BY <1>1, BucketBounds
<1>3. CASE i = InfBucket
  <2>1. e.num = UpperBound(i) /\ e.den = 1
    BY <1>3 DEF Estimate
  <2> QED
    BY <1>2, <2>1
<1>4. CASE i # InfBucket
  <2>1. PICK a, b, d, x : /\ a = Lower(i) /\ b = Bounds[i] /\ d = 100 * counts[i]
                          /\ x = t - 100 * Cum(n, i - 1)
    OBVIOUS
  <2>2. e.num = a * d + (b - a) * x /\ e.den = d
    BY <1>4, <2>1 DEF Estimate
  <2>3. b = UpperBound(i)
    BY <1>1, <1>4, <2>1, BucketBounds
  <2>4. Cum(n, i) \in Nat /\ Cum(n, i - 1) \in Nat
    <3>1. i \in 0..InfBucket /\ i - 1 \in 0..InfBucket
      BY <1>1
    <3> QED
      BY <3>1, CumAscends
  <2>5. d \in Nat /\ d > 0 /\ x \in Nat /\ x <= d
    BY <1>1, <2>1, <2>4 DEF Ranked
  <2>6. /\ a * d + (b - a) * x \in Int
        /\ a * d <= a * d + (b - a) * x /\ a * d + (b - a) * x <= b * d
    <3>1. a \in Nat /\ b \in Nat /\ a <= b
      BY <1>2, <2>1, <2>3
    <3> QED
      BY <2>5, <3>1, Between
  <2> QED
    BY <2>1, <2>2, <2>3, <2>5, <2>6
<1> QED
  BY <1>3, <1>4

(* The true quantile is in the bucket of its rank. *)
LEMMA TrueQuantileInBucket ==
  ASSUME NEW n \in [LagValues -> Nat], NEW counts, NEW q, NEW t \in Nat, t > 0,
         t = q * SumOver(n, LagValues), NEW i, Ranked(t, n, counts, i),
         NEW l, l = TrueQuantile(q, n)
  PROVE  /\ l \in Nat
         /\ i < InfBucket => l <= Bounds[i]
         /\ i > 1 => Bounds[i - 1] < l
<1> DEFINE W == {x \in LagValues : 100 * AtMost(n, x) >= t}
<1>1. l = Min(W)
  BY DEF TrueQuantile
<1>2. i \in 1..InfBucket /\ InfBucket = Len(Bounds) + 1 /\ Len(Bounds) \in Nat /\ LagValues \subseteq Nat
  BY LagFacts DEF Ranked
<1>3. 100 * Cum(n, i - 1) < t /\ t <= 100 * Cum(n, i)
  BY DEF Ranked
<1>4. \A b : AtMost(n, b) \in Nat
  BY CumAscends
<1> DEFINE U == {x \in LagValues : i = InfBucket \/ x <= Bounds[i]}
<1>5. SumOver(n, U) = Cum(n, i) /\ Cum(n, i) \in Nat
  <2>1. Cum(n, i) \in Nat
    <3>1. i \in 0..InfBucket
      BY <1>2
    <3> QED
      BY <3>1, CumAscends
  <2>2. CASE i = InfBucket
    <3>1. U = LagValues
      BY <2>2
    <3>2. Cum(n, i) = SumOver(n, LagValues)
      BY <1>2, <2>2 DEF Cum
    <3> QED
      BY <2>1, <3>1, <3>2
  <2>3. CASE i # InfBucket
    <3>1. U = {x \in DOMAIN n : x <= Bounds[i]}
      BY <2>3
    <3>2. Cum(n, i) = AtMost(n, Bounds[i])
      BY <1>2, <2>3 DEF Cum
    <3> QED
      BY <2>1, <3>1, <3>2 DEF AtMost
  <2> QED
    BY <2>2, <2>3
<1>6. IsFiniteSet(LagValues) /\ \A x \in LagValues : n[x] \in Nat
  BY LagFacts
<1>7. U # {}
  <2>1. IsFiniteSet(U)
    BY <1>6, FS_Subset
  <2> HIDE DEF U
  <2>2. U = {} => SumOver(n, U) = 0
    BY <2>1, SumAt
  <2> QED
    BY <1>3, <1>5, <2>2
<1>8. PICK g \in U : \A x \in U : x <= g
  <2>1. IsFiniteSet(U)
    BY <1>6, FS_Subset
  <2>2. U \subseteq Int
    <3>1. \A x \in LagValues : x \in Int
      BY <1>2
    <3>2. \A x \in U : x \in LagValues
      OBVIOUS
    <3> HIDE DEF U
    <3> QED
      BY <3>1, <3>2
  <2> HIDE DEF U
  <2> QED
    BY <1>7, <2>1, <2>2, GreatestOf
<1>9. g \in W
  <2>1. PICK G : G = {x \in LagValues : x <= g}
    OBVIOUS
  <2>2. U \in SUBSET G /\ G \in SUBSET LagValues /\ AtMost(n, g) = SumOver(n, G)
    BY <1>8, <2>1 DEF AtMost
  <2>3. IsFiniteSet(G) /\ \A x \in G : n[x] \in Nat
    BY <1>6, <2>2, FS_Subset
  <2> HIDE DEF U
  <2>4. SumOver(n, U) <= SumOver(n, G)
    BY <2>2, <2>3, SumSubset
  <2>5. Cum(n, i) <= AtMost(n, g) /\ AtMost(n, g) \in Nat
    BY <1>4, <1>5, <2>2, <2>4
  <2>6. 100 * AtMost(n, g) >= t
    BY <1>3, <1>5, <2>5
  <2> QED
    BY <1>8, <2>6 DEF U
<1>10. W \subseteq Nat /\ W # {}
  BY <1>2, <1>9
<1>11. l \in W /\ l <= g
  <2>1. PICK k \in W : \A x \in W : k <= x
    <3> HIDE DEF W
    <3> QED
      BY <1>10, LeastOf
  <2> HIDE DEF W
  <2>2. W \subseteq Int
    BY <1>10
  <2>3. Min(W) = k
    BY <2>1, <2>2, MinIs
  <2> QED
    BY <1>1, <1>9, <2>1, <2>3
<1>12. ASSUME i < InfBucket PROVE l <= Bounds[i]
  <2>1. g <= Bounds[i] /\ g \in Nat /\ Bounds[i] \in Nat /\ l \in Nat
    <3>1. i \in 1..Len(Bounds) /\ i # InfBucket
      BY <1>2, <1>12
    <3> QED
      BY <1>8, <1>10, <1>11, <3>1, LagFacts
  <2> QED
    BY <1>11, <2>1
<1>13. ASSUME i > 1 PROVE Bounds[i - 1] < l
  <2>1. i - 1 \in 1..Len(Bounds) /\ i - 1 # 0 /\ i - 1 # InfBucket
    BY <1>2, <1>13
  <2>2. Cum(n, i - 1) = AtMost(n, Bounds[i - 1])
    BY <2>1 DEF Cum
  <2>3. Bounds[i - 1] \in Nat /\ l \in Nat /\ 100 * AtMost(n, l) >= t
    BY <1>10, <1>11, <2>1, LagFacts
  <2>4. l <= Bounds[i - 1] => AtMost(n, l) <= AtMost(n, Bounds[i - 1])
    BY <2>3, CumAscends
  <2>5. AtMost(n, l) \in Nat /\ AtMost(n, Bounds[i - 1]) \in Nat
    BY <1>4
  <2> QED
    BY <1>3, <2>2, <2>3, <2>4, <2>5
<1> QED
  BY <1>10, <1>11, <1>12, <1>13

(* So the estimate is in the bucket of the true quantile. *)
LEMMA EstimateIsClose ==
  ASSUME NEW n \in [LagValues -> Nat], NEW counts, NEW q, NEW t \in Nat, t > 0,
         t = q * SumOver(n, LagValues), NEW i, Ranked(t, n, counts, i),
         NEW e, e = Estimate(t, n, counts, i)
  PROVE  InBucketOf(e, TrueQuantile(q, n))
<1>1. PICK l : l = TrueQuantile(q, n)
  OBVIOUS
<1>2. l \in Nat /\ (i < InfBucket => l <= Bounds[i]) /\ (i > 1 => Bounds[i - 1] < l)
  BY <1>1, TrueQuantileInBucket
<1>3. /\ i \in 1..InfBucket /\ InfBucket = Len(Bounds) + 1 /\ Len(Bounds) \in Nat /\ Len(Bounds) > 0
      /\ DOMAIN Bounds = 1..Len(Bounds) /\ \A k \in 1..Len(Bounds) : Bounds[k] \in Nat
  BY LagFacts DEF Ranked
<1>4. CASE i = InfBucket
  <2>1. l > Bounds[Len(Bounds)]
    <3>1. i - 1 = Len(Bounds) /\ i > 1 /\ Bounds[Len(Bounds)] \in Nat
      BY <1>3, <1>4
    <3> QED
      BY <1>2, <3>1
  <2>2. e = [num |-> Bounds[Len(Bounds)], den |-> 1]
    BY <1>4 DEF Estimate, UpperBound
  <2> QED
    BY <1>1, <2>1, <2>2 DEF InBucketOf
<1>5. CASE i # InfBucket
  <2>1. i \in 1..Len(Bounds) /\ i < InfBucket
    BY <1>3, <1>5
  <2>2. Bounds[i] <= Bounds[Len(Bounds)] /\ Bounds[i] \in Nat /\ Bounds[Len(Bounds)] \in Nat
    <3>1. Len(Bounds) \in i..Len(Bounds) /\ Len(Bounds) \in 1..Len(Bounds)
      BY <1>3, <2>1
    <3> QED
      BY <1>3, <2>1, <3>1, BoundsAscend
  <2>3. ~(l > Bounds[Len(Bounds)])
    BY <1>2, <2>1, <2>2
  <2> DEFINE J == {j \in DOMAIN Bounds : l <= Bounds[j]}
  <2>4. i \in J /\ J \subseteq Int
    BY <1>2, <1>3, <2>1
  <2>5. ASSUME NEW j \in J PROVE i <= j
    <3>1. SUFFICES ASSUME j < i PROVE FALSE
      BY <1>3, <2>1, <2>5
    <3>2. j \in 1..Len(Bounds) /\ i - 1 \in j..Len(Bounds) /\ i - 1 \in 1..Len(Bounds) /\ i > 1
      BY <1>3, <2>1, <2>5, <3>1
    <3>3. Bounds[j] <= Bounds[i - 1] /\ Bounds[j] \in Nat /\ Bounds[i - 1] \in Nat
      BY <1>3, <3>2, BoundsAscend
    <3> QED
      BY <1>2, <2>5, <3>2, <3>3
  <2>6. Min(J) = i
    <3> HIDE DEF J
    <3> QED
      BY <2>4, <2>5, MinIs
  <2>7. Lower(i) * e.den <= e.num /\ e.num <= Bounds[i] * e.den
    <3>1. UpperBound(i) = Bounds[i]
      BY <1>3, <2>1, BucketBounds
    <3> QED
      BY <3>1, EstimateInBucket
  <2> HIDE DEF J
  <2>8. LET k == Min(J) IN Lower(k) * e.den <= e.num /\ e.num <= Bounds[k] * e.den
    BY <2>6, <2>7
  <2> QED
    BY <1>1, <2>3, <2>8 DEF InBucketOf, J
<1> QED
  BY <1>4, <1>5

(* Fractions on both sides of a number are in order. *)
LEMMA CrossProducts ==
  ASSUME NEW a \in Int, NEW b \in Nat, NEW c \in Int, NEW d \in Nat, NEW x \in Nat,
         a <= x * b, x * d <= c
  PROVE  a * d <= c * b
<1>1. a * d <= (x * b) * d
  <2>1. PICK y : y = x * b - a
    OBVIOUS
  <2>2. y \in Nat /\ x * b = a + y
    BY <2>1
  <2>3. y * d \in Nat /\ (x * b) * d = a * d + y * d
    BY <2>2
  <2> QED
    BY <2>3
<1>2. (x * d) * b <= c * b
  <2>1. PICK y : y = c - x * d
    OBVIOUS
  <2>2. y \in Nat /\ c = x * d + y
    BY <2>1
  <2>3. y * b \in Nat /\ c * b = (x * d) * b + y * b
    BY <2>2
  <2> QED
    BY <2>3
<1>3. (x * b) * d = (x * d) * b
  OBVIOUS
<1> QED
  BY <1>1, <1>2, <1>3

(* The estimates of two ranks are in the order of the ranks. *)
LEMMA EstimatesInOrder ==
  ASSUME NEW n \in [LagValues -> Nat], NEW counts, NEW t \in Nat, NEW u \in Nat, t <= u,
         NEW i, Ranked(t, n, counts, i), NEW k, Ranked(u, n, counts, k),
         NEW e, e = Estimate(t, n, counts, i), NEW f, f = Estimate(u, n, counts, k)
  PROVE  i <= k /\ e.num * f.den <= f.num * e.den
<1>1. i \in 1..InfBucket /\ k \in 1..InfBucket /\ InfBucket \in Nat
  BY LagFacts DEF Ranked
<1>2. Cum(n, i) \in Nat /\ Cum(n, i - 1) \in Nat /\ Cum(n, k) \in Nat
  <2>1. i \in 0..InfBucket /\ i - 1 \in 0..InfBucket /\ k \in 0..InfBucket
    BY <1>1
  <2> QED
    BY <2>1, CumAscends
<1>3. i <= k
  BY <1>1, <1>2 DEF Ranked
<1>4. /\ e.den \in Nat /\ e.num \in Int /\ e.num <= UpperBound(i) * e.den
  BY EstimateInBucket
<1>5. /\ f.den \in Nat /\ f.num \in Int /\ Lower(k) * f.den <= f.num
  BY EstimateInBucket
<1>6. CASE i < k
  <2>1. k \in i..InfBucket
    BY <1>1, <1>3
  <2>2. UpperBound(i) \in Nat /\ UpperBound(i) <= Lower(k)
    BY <1>1, <1>6, <2>1, BucketBounds
  <2>3. Lower(k) \in Nat
    BY <1>1, BucketBounds
  <2>4. UpperBound(i) * f.den <= f.num
    <3>1. PICK a, b, d : a = UpperBound(i) /\ b = Lower(k) /\ d = f.den
      OBVIOUS
    <3>2. a \in Nat /\ b \in Nat /\ d \in Nat /\ a <= b /\ b * d <= f.num
      BY <1>5, <2>2, <2>3, <3>1
    <3>3. PICK w : w = b - a
      OBVIOUS
    <3>4. w \in Nat /\ b = a + w
      BY <3>2, <3>3
    <3>5. w * d \in Nat /\ b * d = a * d + w * d /\ a * d \in Nat
      BY <3>2, <3>4
    <3>6. a * d <= f.num
      BY <1>5, <3>2, <3>5
    <3> QED
      BY <3>1, <3>6
  <2>5. PICK a, b, c, d, x : /\ a = e.num /\ b = e.den /\ c = f.num /\ d = f.den
                             /\ x = UpperBound(i)
    OBVIOUS
  <2>6. /\ a \in Int /\ b \in Nat /\ c \in Int /\ d \in Nat /\ x \in Nat
        /\ a <= x * b /\ x * d <= c
    BY <1>4, <1>5, <2>2, <2>4, <2>5
  <2>7. a * d <= c * b
    BY <2>6, CrossProducts
  <2> QED
    BY <1>3, <2>5, <2>7
<1>7. CASE i = k /\ i = InfBucket
  <2>1. e.num = f.num /\ e.den = f.den
    BY <1>7 DEF Estimate
  <2> QED
    BY <1>3, <1>4, <2>1
<1>8. CASE i = k /\ i # InfBucket
  <2>1. PICK a, b, d, c : /\ a = Lower(i) /\ b = Bounds[i] /\ d = 100 * counts[i]
                          /\ c = 100 * Cum(n, i - 1)
    OBVIOUS
  <2>2. /\ e.num = a * d + (b - a) * (t - c) /\ e.den = d
        /\ f.num = a * d + (b - a) * (u - c) /\ f.den = d
    BY <1>8, <2>1 DEF Estimate
  <2>3. a \in Nat /\ b \in Nat /\ a <= b
    <3>1. UpperBound(i) = b
      BY <1>1, <1>8, <2>1, BucketBounds
    <3>2. Lower(i) \in Nat /\ UpperBound(i) \in Nat /\ Lower(i) <= UpperBound(i)
      BY <1>1, BucketBounds
    <3> QED
      BY <2>1, <3>1, <3>2
  <2>4. c \in Int /\ d \in Nat
    BY <1>2, <2>1 DEF Ranked
  <2>5. PICK w, v, x : w = b - a /\ v = u - t /\ x = t - c
    OBVIOUS
  <2>6. w \in Nat /\ v \in Nat /\ x \in Int /\ u - c = x + v
    BY <2>3, <2>4, <2>5
  <2>7. w * v \in Nat /\ w * (x + v) = w * x + w * v /\ w * x \in Int /\ a * d \in Int
    BY <2>3, <2>4, <2>6
  <2>8. PICK y : y = w * v
    OBVIOUS
  <2>9. y \in Nat /\ f.num = e.num + y
    BY <2>2, <2>5, <2>6, <2>7, <2>8
  <2>10. y * d \in Nat /\ (e.num + y) * d = e.num * d + y * d /\ e.num * d \in Int
    BY <1>4, <2>4, <2>9
  <2>11. e.num * d <= (e.num + y) * d
    BY <2>10
  <2> QED
    BY <1>3, <2>2, <2>9, <2>11
<1> QED
  BY <1>1, <1>3, <1>6, <1>7, <1>8

(* The maximum is no smaller than an estimate. *)
LEMMA EstimateBelowMax ==
  ASSUME NEW n \in [LagValues -> Nat], NEW counts, NEW t \in Nat, NEW i, Ranked(t, n, counts, i),
         NEW e, e = Estimate(t, n, counts, i)
  PROVE  e.num <= MaxBound(counts) * e.den
<1>1. i \in 1..InfBucket /\ counts[i] > 0 /\ InfBucket \in Nat
  BY LagFacts DEF Ranked
<1> DEFINE S == {j \in 1..InfBucket : counts[j] > 0}
<1>2. IsFiniteSet(S)
  <2>1. IsFiniteSet(1..InfBucket)
    BY <1>1, FS_Interval
  <2>2. S \in SUBSET (1..InfBucket)
    OBVIOUS
  <2> HIDE DEF S
  <2> QED
    BY <2>1, <2>2, FS_Subset
<1>3. S \subseteq Int /\ i \in S
  BY <1>1
<1>4. PICK g \in S : \A x \in S : x <= g
  <2> HIDE DEF S
  <2> QED
    BY <1>2, <1>3, GreatestOf
<1>5. Max(S) = g
  <2> HIDE DEF S
  <2> QED
    BY <1>3, <1>4, MaxIs
<1>6. MaxBound(counts) = UpperBound(g)
  BY <1>5 DEF MaxBound
<1>7. g \in i..InfBucket /\ g \in 1..InfBucket
  BY <1>1, <1>3, <1>4
<1>8. UpperBound(i) <= UpperBound(g) /\ UpperBound(i) \in Nat
  BY <1>1, <1>7, BucketBounds
<1>9. UpperBound(g) \in Nat
  BY <1>7, BucketBounds
<1>10. e.den \in Nat /\ e.num \in Int /\ e.num <= UpperBound(i) * e.den
  BY EstimateInBucket
<1>11. PICK a, b, d : a = UpperBound(i) /\ b = UpperBound(g) /\ d = e.den
  OBVIOUS
<1>12. a \in Nat /\ b \in Nat /\ d \in Nat /\ a <= b /\ e.num <= a * d
  BY <1>8, <1>9, <1>10, <1>11
<1>13. PICK w : w = b - a
  OBVIOUS
<1>14. w \in Nat /\ b = a + w
  BY <1>12, <1>13
<1>15. w * d \in Nat /\ b * d = a * d + w * d /\ a * d \in Nat
  BY <1>12, <1>14
<1>16. e.num <= b * d
  BY <1>10, <1>12, <1>15
<1> QED
  BY <1>6, <1>11, <1>16

(* What a summary s says of its lags. *)
Faithful(s) ==
  /\ s.samples = SumOver(s.of, DOMAIN s.of)
  /\ InBucketOf(s.p50, TrueQuantile(50, s.of))
  /\ InBucketOf(s.p99, TrueQuantile(99, s.of))
  /\ s.p50.num * s.p99.den <= s.p99.num * s.p50.den
  /\ s.p99.num <= s.maxLE * s.p99.den

(* lagInterval is faithful to the lags between two snapshots. *)
LEMMA IntervalIsFaithful ==
  ASSUME NEW p, NEW c, interval \in [LagValues -> Nat], Grew(p, c, interval),
         SumOver(interval, LagValues) > 0
  PROVE  Faithful(LagInterval(p, c))
<1>1. PICK n, counts, N : /\ n = interval /\ counts = BucketDeltas(p, c)
                          /\ N = SumOver(n, LagValues)
  OBVIOUS
<1>2. n \in [LagValues -> Nat] /\ Counts(counts, n) /\ N > 0 /\ DOMAIN n = LagValues
  BY <1>1, DeltasCount
<1>3. N \in Nat
  BY <1>1, <1>2, LagFacts, SumNat
<1>4. PICK t, u : t = 50 * N /\ u = 99 * N
  OBVIOUS
<1>5. t \in Nat /\ t > 0 /\ u \in Nat /\ u > 0 /\ t <= u
  BY <1>2, <1>3, <1>4
<1>6. PICK i : Ranked(t, n, counts, i) /\ BucketQuantile(50, counts) = Estimate(t, n, counts, i)
  <2>1. 50 \in {50, 99} /\ t = 50 * SumOver(n, LagValues) /\ SumOver(n, LagValues) > 0
    BY <1>1, <1>2, <1>4
  <2> QED
    BY <1>2, <2>1, QuantileInBucket
<1>7. PICK k : Ranked(u, n, counts, k) /\ BucketQuantile(99, counts) = Estimate(u, n, counts, k)
  <2>1. 99 \in {50, 99} /\ u = 99 * SumOver(n, LagValues) /\ SumOver(n, LagValues) > 0
    BY <1>1, <1>2, <1>4
  <2> QED
    BY <1>2, <2>1, QuantileInBucket
<1>8. PICK e, f : e = Estimate(t, n, counts, i) /\ f = Estimate(u, n, counts, k)
  OBVIOUS
<1>9. InBucketOf(e, TrueQuantile(50, n))
  <2>1. t = 50 * SumOver(n, LagValues)
    BY <1>1, <1>4
  <2> QED
    BY <1>2, <1>5, <1>6, <1>8, <2>1, EstimateIsClose
<1>10. InBucketOf(f, TrueQuantile(99, n))
  <2>1. u = 99 * SumOver(n, LagValues)
    BY <1>1, <1>4
  <2> QED
    BY <1>2, <1>5, <1>7, <1>8, <2>1, EstimateIsClose
<1>11. e.num * f.den <= f.num * e.den
  BY <1>2, <1>5, <1>6, <1>7, <1>8, EstimatesInOrder
<1>12. f.num <= MaxBound(counts) * f.den
  BY <1>2, <1>5, <1>7, <1>8, EstimateBelowMax
<1>13. PICK s : s = LagInterval(p, c)
  OBVIOUS
<1>14. /\ s.samples = c.count - p.count /\ s.of = n /\ s.p50 = e /\ s.p99 = f
       /\ s.maxLE = MaxBound(counts)
  BY <1>1, <1>6, <1>7, <1>8, <1>13 DEF LagInterval
<1>15. s.samples = SumOver(n, DOMAIN n)
  BY <1>1, <1>2, <1>14 DEF Grew
<1>16. Faithful(s)
  BY <1>9, <1>10, <1>11, <1>12, <1>14, <1>15 DEF Faithful
<1> QED
  BY <1>13, <1>16

(* What snapshot reads of the histogram. *)
Histograms == [count : Nat, atMost : [DOMAIN Bounds -> Nat]]

(* Between two ticks the histogram grows by exactly the lags observed.       *)
LagInv ==
  /\ hist \in Histograms /\ prev \in Histograms
  /\ interval \in [LagValues -> Nat]
  /\ Grew(prev, hist, interval)
  /\ LagEstimates

(* No lags leave the histogram as it is. *)
LEMMA NothingGrew ==
  ASSUME NEW h \in Histograms
  PROVE  NoLags \in [LagValues -> Nat] /\ Grew(h, h, NoLags)
<1>1. PICK n : n = NoLags
  OBVIOUS
<1>2. n \in [LagValues -> Nat] /\ DOMAIN n = LagValues /\ \A x \in LagValues : n[x] = 0
  BY <1>1 DEF NoLags
<1>3. \A T \in SUBSET LagValues : SumOver(n, T) = 0
  <2> SUFFICES ASSUME NEW T \in SUBSET LagValues PROVE SumOver(n, T) = 0
    OBVIOUS
  <2>1. IsFiniteSet(T)
    BY LagFacts, FS_Subset
  <2>2. \A x \in T : n[x] \in Nat /\ n[x] = 0
    BY <1>2
  <2> QED
    BY <2>1, <2>2, SumNat
<1>4. SumOver(n, LagValues) = 0 /\ \A b : AtMost(n, b) = 0
  <2>1. \A b : {x \in LagValues : x <= b} \in SUBSET LagValues
    OBVIOUS
  <2> QED
    BY <1>2, <1>3, <2>1 DEF AtMost
<1>5. h.count \in Int /\ \A i \in 1..Len(Bounds) : h.atMost[i] \in Int
  BY LagFacts DEF Histograms
<1>6. h.count - h.count = 0 /\ \A i \in 1..Len(Bounds) : h.atMost[i] - h.atMost[i] = 0
  BY <1>5
<1>7. Grew(h, h, n)
  BY <1>4, <1>6 DEF Grew
<1> QED
  BY <1>1, <1>2, <1>7

(* The histogram starts empty. *)
LEMMA InitLag == CommandInit => LagInv
<1> SUFFICES ASSUME CommandInit PROVE LagInv
  OBVIOUS
<1>1. LagInit
  BY DEF CommandInit
<1>2. hist \in Histograms /\ prev = hist /\ interval = NoLags
  BY <1>1 DEF LagInit, Histograms
<1>3. NoLags \in [LagValues -> Nat] /\ Grew(hist, hist, NoLags)
  BY <1>2, NothingGrew
<1>4. LagEstimates
  BY <1>1 DEF LagInit, NoSummary, LagEstimates
<1> QED
  BY <1>2, <1>3, <1>4 DEF LagInv

(* ObserveLag adds its lag to the buckets that hold it. *)
LEMMA ObserveLagStep ==
  ASSUME LagInv, NEW lag \in Lags, ObserveLag(lag)
  PROVE  LagInv'
<1>1. PICK v, n, m : v = Clamped(lag) /\ n = interval /\ m = interval'
  OBVIOUS
<1>2. v \in LagValues /\ v \in Nat /\ n \in [LagValues -> Nat]
  BY <1>1, LagFacts DEF LagValues, LagInv
<1>3. m = [n EXCEPT ![v] = n[v] + 1]
  BY <1>1 DEF ObserveLag
<1>4. /\ m \in [LagValues -> Nat] /\ m[v] = n[v] + 1 /\ n[v] \in Nat
      /\ \A x \in LagValues \ {v} : n[x] = m[x]
  BY <1>2, <1>3
<1>5. \A x \in LagValues : n[x] \in Int /\ m[x] \in Int
  BY <1>2, <1>4
<1>6. SumOver(m, LagValues) = SumOver(n, LagValues) + 1
  <2>1. SumOver(m, LagValues) = SumOver(n, LagValues) - n[v] + m[v]
    <3>1. PICK V : V = LagValues
      OBVIOUS
    <3>2. IsFiniteSet(V) /\ v \in V
      BY <1>2, <3>1, LagFacts
    <3>3. \A x \in V : n[x] \in Int /\ m[x] \in Int
      BY <1>5, <3>1
    <3>4. \A x \in V \ {v} : n[x] = m[x]
      BY <1>4, <3>1
    <3>5. SumOver(m, V) = SumOver(n, V) - n[v] + m[v]
      BY <3>2, <3>3, <3>4, SumUpdate
    <3> QED
      BY <3>1, <3>5
  <2>2. SumOver(n, LagValues) \in Int
    BY <1>5, LagFacts, SumType
  <2> QED
    BY <1>4, <2>1, <2>2
<1>7. ASSUME NEW b \in Nat
      PROVE  AtMost(m, b) = AtMost(n, b) + (IF v <= b THEN 1 ELSE 0) /\ AtMost(n, b) \in Nat
  <2>1. PICK T : T = {x \in LagValues : x <= b}
    OBVIOUS
  <2>2. AtMost(m, b) = SumOver(m, T) /\ AtMost(n, b) = SumOver(n, T)
    BY <1>2, <1>4, <2>1 DEF AtMost
  <2>3. T \in SUBSET LagValues /\ IsFiniteSet(T)
    BY <2>1, LagFacts, FS_Subset
  <2>4. AtMost(n, b) \in Nat
    BY <1>2, CumAscends
  <2>5. CASE v <= b
    <3>1. v \in T
      BY <1>2, <2>1, <2>5
    <3>2. SumOver(m, T) = SumOver(n, T) - n[v] + m[v]
      <4>1. \A x \in T : n[x] \in Int /\ m[x] \in Int
        BY <1>5, <2>3
      <4>2. \A x \in T \ {v} : n[x] = m[x]
        BY <1>4, <2>3
      <4> QED
        BY <2>3, <3>1, <4>1, <4>2, SumUpdate
    <3> QED
      BY <1>4, <2>2, <2>4, <2>5, <3>2
  <2>6. CASE ~(v <= b)
    <3>1. \A x \in T : n[x] = m[x]
      BY <1>4, <2>1, <2>6
    <3>2. SumOver(n, T) = SumOver(m, T)
      BY <2>3, <3>1, SumSame
    <3> QED
      BY <2>2, <2>4, <2>6, <3>2
  <2> QED
    BY <2>4, <2>5, <2>6
<1>8. PICK h, k, p : h = hist /\ k = hist' /\ p = prev
  OBVIOUS
<1>9. h \in Histograms /\ p \in Histograms /\ prev' = p /\ summary' = summary
  BY <1>8 DEF LagInv, ObserveLag
<1>10. /\ h.count \in Nat /\ p.count \in Nat
       /\ \A i \in 1..Len(Bounds) : h.atMost[i] \in Nat /\ p.atMost[i] \in Nat
  BY <1>9, LagFacts DEF Histograms
<1>11. k = [count |-> h.count + 1,
            atMost |-> [i \in DOMAIN Bounds |-> h.atMost[i] + (IF v <= Bounds[i] THEN 1 ELSE 0)]]
  BY <1>1, <1>8 DEF ObserveLag
<1>12. /\ k.count = h.count + 1
       /\ \A i \in 1..Len(Bounds) : k.atMost[i] = h.atMost[i] + (IF v <= Bounds[i] THEN 1 ELSE 0)
  BY <1>11, LagFacts
<1>13. k \in Histograms
  <2>1. \A i \in DOMAIN Bounds : h.atMost[i] + (IF v <= Bounds[i] THEN 1 ELSE 0) \in Nat
    BY <1>10, LagFacts
  <2>2. h.count + 1 \in Nat
    BY <1>10
  <2> QED
    BY <1>11, <2>1, <2>2 DEF Histograms
<1>14. Grew(p, k, m)
  <2>1. Grew(p, h, n)
    BY <1>1, <1>8 DEF LagInv
  <2>2. k.count - p.count = SumOver(m, LagValues)
    <3>1. h.count - p.count = SumOver(n, LagValues)
      BY <2>1 DEF Grew
    <3> QED
      BY <1>6, <1>10, <1>12, <3>1
  <2>3. ASSUME NEW i \in 1..Len(Bounds) PROVE k.atMost[i] - p.atMost[i] = AtMost(m, Bounds[i])
    <3>1. h.atMost[i] - p.atMost[i] = AtMost(n, Bounds[i])
      BY <2>1 DEF Grew
    <3>2. PICK b, d : b = Bounds[i] /\ d = IF v <= b THEN 1 ELSE 0
      OBVIOUS
    <3>3. b \in Nat /\ d \in Nat
      BY <3>2, LagFacts
    <3>4. AtMost(m, b) = AtMost(n, b) + d /\ AtMost(n, b) \in Nat
      BY <1>7, <3>2, <3>3
    <3>5. k.atMost[i] = h.atMost[i] + d
      BY <1>12, <3>2
    <3> QED
      BY <1>10, <3>1, <3>2, <3>3, <3>4, <3>5
  <2> QED
    BY <2>2, <2>3 DEF Grew
<1>15. LagEstimates'
  BY <1>9 DEF LagInv, LagEstimates
<1> QED
  BY <1>1, <1>4, <1>8, <1>9, <1>13, <1>14, <1>15 DEF LagInv

(* A snapshot starts the next interval. *)
LEMMA SnapshotTaken ==
  ASSUME LagInv, prev' = hist, interval' = NoLags, UNCHANGED hist, LagEstimates'
  PROVE  LagInv'
<1>1. hist \in Histograms
  BY DEF LagInv
<1>2. NoLags \in [LagValues -> Nat] /\ Grew(hist, hist, NoLags)
  BY <1>1, NothingGrew
<1> QED
  BY <1>1, <1>2 DEF LagInv

(* The tick's summary is faithful to the lags since the last one. *)
LEMMA LagTickStep ==
  ASSUME LagInv, LagTick
  PROVE  LagInv'
<1>1. PICK p, h, s : p = prev /\ h = hist /\ s = summary'
  OBVIOUS
<1>2. /\ p \in Histograms /\ h \in Histograms /\ interval \in [LagValues -> Nat]
      /\ Grew(p, h, interval)
  BY <1>1 DEF LagInv
<1>3. s.ok => Faithful(s)
  <2>1. CASE h.count = p.count
    <3>1. s = NoSummary
      BY <1>1, <2>1 DEF LagTick
    <3> QED
      BY <3>1 DEF NoSummary
  <2>2. CASE h.count # p.count
    <3>1. s = LagInterval(p, h)
      BY <1>1, <2>2 DEF LagTick
    <3>2. SumOver(interval, LagValues) > 0
      <4>1. \A x \in LagValues : interval[x] \in Nat
        BY <1>2
      <4>2. SumOver(interval, LagValues) \in Nat
        BY <4>1, LagFacts, SumNat
      <4>3. h.count - p.count = SumOver(interval, LagValues) /\ h.count \in Nat /\ p.count \in Nat
        BY <1>2 DEF Grew, Histograms
      <4> QED
        BY <2>2, <4>2, <4>3
    <3> QED
      BY <1>2, <3>1, <3>2, IntervalIsFaithful
  <2> QED
    BY <2>1, <2>2
<1>4. LagEstimates'
  BY <1>1, <1>3 DEF LagEstimates, Faithful
<1> QED
  BY <1>4, SnapshotTaken DEF LagTick

(* Only the fetch loop and the logger touch the lags. *)
LEMMA LagStep ==
  ASSUME LagInv, [CommandNext]_all
  PROVE  LagInv'
<1>1. CASE Observe
  <2>1. PICK lag \in Lags : ObserveLag(lag)
    BY <1>1 DEF Observe
  <2> QED
    BY <2>1, ObserveLagStep
<1>2. CASE LoggerStarts
  <2>1. LagBaseline
    BY <1>2 DEF LoggerStarts
  <2>2. LagEstimates'
    BY <2>1 DEF LagBaseline, LagInv, LagEstimates
  <2> QED
    BY <2>1, <2>2, SnapshotTaken DEF LagBaseline
<1>3. CASE LoggerTicks
  BY <1>3, LagTickStep DEF LoggerTicks
<1>4. CASE UNCHANGED lagVars
  BY <1>4 DEF lagVars, LagInv, LagEstimates
<1>5. Observe \/ LoggerStarts \/ LoggerTicks \/ UNCHANGED lagVars
  <2>1. CASE MainStep
    BY <2>1 DEF MainStep, Load, NewConnector, NewWorker, NewWorkerFails, StartTelemetry,
       StartStatsAndWatchdog, Connect, ConnectFails, RunReturns, StopWatchdog, StopStats,
       StopTelemetry, Close, inner
  <2>2. CASE Cancelled \/ PetterReturns \/ AttendantReturns("fetchLoop") \/ AttendantReturns("monitor")
    BY <2>2 DEF Cancelled, PetterReturns, AttendantReturns, inner
  <2>3. ASSUME NEW w \in Workers, WorkerReceives(w) \/ WorkerStep(w)
        PROVE  UNCHANGED lagVars
    BY <2>3 DEF WorkerReceives, WorkerStep, WorkerGoesOn, WorkerExits, inner
  <2>4. CASE FeedPending \/ StorePending \/ Scrape \/ LoggerReturns \/ LoggerDrains \/ LoggerLine
    BY <2>4 DEF FeedPending, StorePending, Scrape, LoggerReturns, LoggerDrains, LoggerLine
  <2>5. CASE PendingStep("stats") \/ PendingStep("scrape")
    BY <2>5 DEF PendingStep
  <2>6. CASE Time
    BY <2>6 DEF Time
  <2>7. CASE UNCHANGED all
    BY <2>7 DEF all
  <2> QED
    BY <2>1, <2>2, <2>3, <2>4, <2>5, <2>6, <2>7 DEF CommandNext, LoggerStep, FetchLoopStep
<1> QED
  BY <1>1, <1>2, <1>3, <1>4, <1>5

(* LagInv is an invariant of the process. *)
THEOREM LagInvariant == CommandSpec => []LagInv
BY InitLag, LagStep, PTL DEF CommandSpec

(* LagEstimates: the lags of a stats line are those of its interval, off by  *)
(* less than a bucket, for every series of bounds and every set of lags.     *)
THEOREM LagsAreEstimated == CommandSpec => []LagEstimates
<1>1. LagInv => LagEstimates
  BY DEF LagInv
<1> QED
  BY <1>1, LagInvariant, PTL
====
