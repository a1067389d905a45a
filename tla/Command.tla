------------------------------ MODULE Command ------------------------------
(***************************************************************************)
(* The process qdb-nats-connector: runMain loads the options, builds the   *)
(* metrics, the stats logger and the connector, serves the probes, runs    *)
(* the connector until a signal or an error and stops everything in order. *)
(* While it runs, the workers count and emit (Stats), the fetch loop       *)
(* observes lags (Lag) and feeds the backlog cache (Pending), and the      *)
(* stats logger and the scrapes of /metrics read all of it.                *)
(***************************************************************************)
EXTENDS Options, Stats, Lag, Pending

CONSTANTS Settings,    \* command lines and environments
          Workloads    \* what happens while the process runs:
                       \* [batches |-> those fetched, minutes, lags |-> how many there are,
                       \*  backlog |-> whether NATS tells the backlog, and it is asked for]

ASSUME ReadersAssumption == Readers = {"stats", "scrape"}

(* The messages and the rows of a batch are natural numbers. *)
Batches == UNION {ToSet(l.batches) : l \in Workloads}

ASSUME WorkloadsAssumption ==
  /\ \A l \in Workloads :
       l \in [batches : Seq(Batches), minutes : Nat, lags : Nat, backlog : BOOLEAN]
  /\ \A b \in Batches : /\ {b.failed, b.dropped, b.empty, b.filtered, b.carrying} \subseteq Nat
                         /\ b.rows \in [Tables -> Nat]
                         /\ b.carrying <= Rows(b) /\ (Rows(b) > 0 => b.carrying > 0)

(* The goroutines of c.wg that are no workers. *)
Attendants == {"fetchLoop", "monitor"}

ASSUME AttendantsAssumption == Attendants \cap Workers = {}

VARIABLES
  settings,   \* os.Args and the environment
  main,       \* where runMain is
  opts,       \* connector.Options, once loaded
  sinks,      \* the workers whose sink is open
  running,    \* the goroutines of c.wg that run
  conn,       \* the NATS connection
  parts,      \* what main has started: the server, the petter, the logger
  stop,       \* the stop channels that are closed
  failed,     \* RunWithContext returned an error
  code,       \* the exit code
  load        \* what is left of the workload: bound

commandVars == <<settings, main, opts, sinks, running, conn, parts, stop, failed, code, load>>
all == <<commandVars, statsVars, lagVars, pendingVars>>
inner == <<statsVars, lagVars, pendingVars>>

NoOpts == [HTTPAddr |-> "", StatsInterval |-> 0]
Idle == [batches |-> <<>>, minutes |-> 0, lags |-> 0, backlog |-> FALSE]
StatsEnabled == opts.StatsInterval > 0
natsReady == conn \in {"open", "closed"}        \* stored once, never reset

CommandInit ==
  /\ settings \in Settings
  /\ main = "LoadConfig"
  /\ opts = NoOpts
  /\ sinks = {} /\ running = {} /\ parts = {} /\ stop = {}
  /\ conn = "none"
  /\ failed = FALSE /\ code = 0
  /\ load = Idle
  /\ StatsInit /\ LagInit /\ PendingInit

Exit(c) ==
  /\ main' = "exited"
  /\ code' = c
  /\ UNCHANGED <<opts, sinks, running, conn, parts, stop, failed, load>>

-----------------------------------------------------------------------------
(* Start.                                                                   *)

(* --version is looked for first; pflag leaves on a malformed flag, usage    *)
(* on --help; a variable that does not decode, a mode that does not parse    *)
(* and options that are not valid are errors.  The metrics and the stats     *)
(* logger that main builds next are those of Stats and Lag.                  *)
Load ==
  LET o == LoadConfig(settings)
  IN /\ main = "LoadConfig"
     /\ \/ settings.ask = "version" /\ Exit(0)
        \/ settings.ask # "version" /\ settings.malformed = "flag" /\ Exit(2)
        \/ settings.ask = "help" /\ settings.malformed # "flag" /\ Exit(0)
        \/ /\ settings.ask = "run" /\ settings.malformed # "flag"
           /\ settings.malformed = "env" \/ o = {}
           /\ Exit(1)
        \/ /\ settings.ask = "run" /\ settings.malformed = "none"
           /\ opts' \in o
           /\ main' = "NewConnector"
           /\ UNCHANGED <<sinks, running, conn, parts, stop, failed, code, load>>
     /\ UNCHANGED <<settings, inner>>

(* NewConnector up to the workers: it validates once more, the source        *)
(* validates its own options.  The rest of the options is the connector's.   *)
NewConnector ==
  /\ main = "NewConnector"
  /\ \/ ~(ValidateOptions(opts) /\ ValidSource(opts)) /\ Exit(1) /\ UNCHANGED settings
     \/ /\ ValidateOptions(opts) /\ ValidSource(opts)
        /\ main' = IF opts.QdbClusterUri = "" THEN "NewWorkerFails" ELSE "NewWorker"
        /\ opts' = [HTTPAddr |-> opts.HTTPAddr, StatsInterval |-> opts.StatsInterval]
        /\ settings' = [settings EXCEPT !.flags = <<>>, !.env = <<>>]
        /\ UNCHANGED <<sinks, running, conn, parts, stop, failed, code, load>>
  /\ UNCHANGED inner

(* The next worker: its sink connects to the cluster. *)
NewWorker ==
  /\ main = "NewWorker" /\ sinks # Workers
  /\ \/ /\ \E w \in Workers \ sinks : sinks' = sinks \cup {w}
        /\ UNCHANGED main
     \/ /\ main' = "NewWorkerFails"
        /\ UNCHANGED sinks
  /\ UNCHANGED <<settings, opts, running, conn, parts, stop, failed, code, load, inner>>

(* Fault: the workers that were already made are forgotten. *)
NewWorkerFailsLeaks ==
  /\ main = "NewWorkerFails"
  /\ Exit(1)
  /\ UNCHANGED <<settings, inner>>

(* The parser or the sink of a worker fails: the workers made so far are     *)
(* shut down.                                                                *)
NewWorkerFails ==
  /\ main = "NewWorkerFails"
  /\ main' = "exited" /\ code' = 1
  /\ sinks' = {}
  /\ UNCHANGED <<settings, opts, running, conn, parts, stop, failed, load, inner>>

(* Fault: a server that cannot bind is followed by the whole shutdown. *)
StartTelemetryStopsAll ==
  /\ main = "NewWorker" /\ sinks = Workers
  /\ \/ /\ parts' = parts \cup (IF opts.HTTPAddr = "" THEN {} ELSE {"server"})
        /\ main' = "startStats"
        /\ UNCHANGED code
     \/ /\ opts.HTTPAddr # ""
        /\ main' = "stopStats" /\ code' = 1
        /\ UNCHANGED parts
  /\ UNCHANGED <<settings, opts, sinks, running, conn, stop, failed, load, inner>>

(* startTelemetry: the address may be taken, and only Close is left. *)
StartTelemetry ==
  /\ main = "NewWorker" /\ sinks = Workers
  /\ \/ /\ parts' = parts \cup (IF opts.HTTPAddr = "" THEN {} ELSE {"server"})
        /\ main' = "startStats"
        /\ UNCHANGED code
     \/ /\ opts.HTTPAddr # ""
        /\ main' = "Close" /\ code' = 1
        /\ UNCHANGED parts
  /\ UNCHANGED <<settings, opts, sinks, running, conn, stop, failed, load, inner>>

(* startStats, newWatchdogPetter and startWatchdog: under systemd or not. *)
StartStatsAndWatchdog ==
  /\ main = "startStats"
  /\ main' = "Connect"
  /\ parts' = parts \cup (IF StatsEnabled THEN {"logger"} ELSE {})
                    \cup (IF settings.systemd THEN {"petter"} ELSE {})
  /\ UNCHANGED <<settings, opts, sinks, running, conn, stop, failed, code, load, inner>>

-----------------------------------------------------------------------------
(* RunWithContext.                                                          *)

(* Connect fails before or after the connection is there: the durable may    *)
(* be missing.  Only a connection that is bound is ever closed.              *)
ConnectFails ==
  /\ main = "Connect"
  /\ conn' \in {"none", "unbound"}
  /\ main' = "stopWatchdog" /\ failed' = TRUE
  /\ UNCHANGED <<settings, opts, sinks, running, parts, stop, code, load, inner>>

Connect ==
  /\ main = "Connect"
  /\ conn' = "open"
  /\ running' = Workers \cup Attendants
  /\ main' = "running"
  /\ load' \in Workloads
  /\ UNCHANGED <<settings, opts, sinks, parts, stop, failed, code, inner>>

(* A signal, or the error of a worker or of the fetch loop. *)
Cancelled ==
  /\ main = "running"
  /\ failed' \in BOOLEAN
  /\ main' = "draining"
  /\ UNCHANGED <<settings, opts, sinks, running, conn, parts, stop, code, load, inner>>

(* Run returns, and closes the worker's sink. *)
WorkerExits(w) ==
  /\ main = "draining" /\ w \in running /\ stage[w] = "idle"
  /\ running' = running \ {w}
  /\ sinks' = sinks \ {w}
  /\ UNCHANGED <<settings, main, opts, conn, parts, stop, failed, code, load, inner>>

(* The monitor, or a fetch loop that fetches nothing more. *)
AttendantReturns(g) ==
  /\ main = "draining" /\ g \in running
  /\ g = "fetchLoop" => fetched.step = "idle"
  /\ running' = running \ {g}
  /\ UNCHANGED <<settings, main, opts, sinks, conn, parts, stop, failed, code, load, inner>>

(* Fault: RunWithContext does not wait for the workers, nor does Close. *)
RunReturnsEarly ==
  /\ main = "draining"
  /\ conn' = "closed"
  /\ running' = {}
  /\ main' = "stopWatchdog"
  /\ UNCHANGED <<settings, opts, sinks, parts, stop, failed, code, load, inner>>

(* wg.Wait, and the source is drained and closed. *)
RunReturns ==
  /\ main = "draining" /\ running = {}
  /\ conn' = "closed"
  /\ main' = "stopWatchdog"
  /\ UNCHANGED <<settings, opts, sinks, running, parts, stop, failed, code, load, inner>>

-----------------------------------------------------------------------------
(* Stop.                                                                    *)

(* Stop closes the stop channel and waits for done. *)
StopPart(p, done, next) ==
  \/ /\ p \notin stop
     /\ stop' = stop \cup {p}
     /\ UNCHANGED main
  \/ /\ p \in stop /\ done
     /\ main' = next
     /\ UNCHANGED stop

StopWatchdog ==
  /\ main = "stopWatchdog"
  /\ StopPart("petter", "petter" \notin parts, "stopStats")     \* nil, or it has returned
  /\ UNCHANGED <<settings, opts, sinks, running, conn, parts, failed, code, load, inner>>

StopStats ==
  /\ main = "stopStats"
  /\ IF StatsEnabled THEN StopPart("logger", logger = "done", "stopTelemetry")
     ELSE main' = "stopTelemetry" /\ UNCHANGED stop
  /\ UNCHANGED <<settings, opts, sinks, running, conn, parts, failed, code, load, inner>>

(* stopTelemetry: a request that outlives the five seconds is left behind. *)
StopTelemetry ==
  /\ main = "stopTelemetry"
  /\ parts' = parts \ {"server"}
  /\ main' = "Close"
  /\ code' = IF failed THEN 1 ELSE code
  /\ UNCHANGED <<settings, opts, sinks, running, conn, stop, failed, load, inner>>

(* Close, by the defer of runMain: wg.Wait, and each worker is shut down.     *)
(* shutdown has a guard of its own: it refuses new batches and waits for the  *)
(* active ones.  It is left out here, where wg.Wait must do alone.            *)
Close ==
  /\ main = "Close" /\ running = {}
  /\ sinks' = {}
  /\ main' = "exited"
  /\ UNCHANGED <<settings, opts, running, conn, parts, stop, failed, code, load, inner>>

MainStep ==
  \/ Load \/ NewConnector \/ NewWorker \/ NewWorkerFails
  \/ StartTelemetry \/ StartStatsAndWatchdog \/ Connect \/ ConnectFails
  \/ RunReturns
  \/ StopWatchdog \/ StopStats \/ StopTelemetry \/ Close

-----------------------------------------------------------------------------
(* What goes on while main waits.  load bounds each kind of step.           *)

Alive == main # "exited"

LoadBecomes(l) ==
  /\ load' = l
  /\ UNCHANGED <<settings, main, opts, sinks, running, conn, parts, stop, failed, code>>

(* A worker takes a batch as long as it runs, also one that was queued when  *)
(* the context was cancelled.                                                *)
WorkerReceives(w) ==
  /\ w \in running /\ load.batches # <<>>
  /\ ParseMessages(w, Head(load.batches))
  /\ LoadBecomes([load EXCEPT !.batches = Tail(@)])
  /\ UNCHANGED <<lagVars, pendingVars>>

WorkerGoesOn(w) ==
  /\ Alive
  /\ \/ MergeFails(w)
     \/ \E ok \in BOOLEAN : SettleFailures(w, ok) \/ WriteFails(w, ok) \/ AckValid(w, ok)
     \/ WriteSucceeds(w)
     \/ IF StatsEnabled THEN Record(w) ELSE EmitNothing(w)
  /\ UNCHANGED <<commandVars, lagVars, pendingVars>>

(* The fetch loop: a message is picked up, with metrics or without. *)
Observe ==
  /\ "fetchLoop" \in running
  /\ opts.HTTPAddr # "" \/ StatsEnabled
  /\ load.lags > 0 /\ LoadBecomes([load EXCEPT !.lags = @ - 1])
  /\ \E lag \in Lags : ObserveLag(lag)
  /\ UNCHANGED <<statsVars, pendingVars>>

FeedPending ==
  /\ "fetchLoop" \in running /\ load.backlog
  /\ FetchReturns
  /\ UNCHANGED <<commandVars, statsVars, lagVars>>

(* A fetch that returns when the context is cancelled is the last one. *)
StorePending ==
  /\ running' = running \ (IF main = "draining" /\ fetched.step = "stamp" THEN {"fetchLoop"} ELSE {})
  /\ FetchStores
  /\ UNCHANGED <<settings, main, opts, sinks, conn, parts, stop, failed, code, load, statsVars, lagVars>>

(* The goroutine of the stats logger. *)
LoggerStarts ==
  /\ Alive /\ "logger" \in parts
  /\ StatsStart /\ LagBaseline
  /\ UNCHANGED <<commandVars, pendingVars>>

LoggerDrains == Alive /\ (ReceiveEvents \/ AddEvent) /\ UNCHANGED <<commandVars, lagVars, pendingVars>>

(* ConsumerPending answers at once before the source is connected. *)
LoggerTicks ==
  /\ Alive
  /\ TickBegins /\ LagTick
  /\ IF natsReady THEN LoadStamp("stats") ELSE UNCHANGED pendingVars
  /\ UNCHANGED commandVars

LoggerLine ==
  /\ Alive
  /\ reader["stats"].step = "idle" /\ TickEnds
  /\ UNCHANGED <<commandVars, lagVars, pendingVars>>

LoggerReturns ==
  /\ Alive /\ "logger" \in stop
  /\ StatsReturns
  /\ UNCHANGED <<commandVars, lagVars, pendingVars>>

(* Collect of a scrape of /metrics. *)
Scrape ==
  /\ Alive /\ "server" \in parts /\ natsReady
  /\ load.backlog
  /\ LoadStamp("scrape")
  /\ UNCHANGED <<commandVars, statsVars, lagVars>>

PendingStep(r) ==
  /\ Alive
  /\ \/ LoadCount(r)
     \/ conn = "open" /\ load.backlog /\ ServerAnswers(r)
     \/ RefreshStores(r)
     \/ RefreshFails(r)
  /\ UNCHANGED <<commandVars, statsVars, lagVars>>

PetterReturns ==
  /\ Alive /\ "petter" \in parts \cap stop
  /\ parts' = parts \ {"petter"}
  /\ UNCHANGED <<settings, main, opts, sinks, running, conn, stop, failed, code, load, inner>>

Time ==
  \/ /\ Alive /\ load.minutes > 0
     /\ NextMinute
     /\ LoadBecomes([load EXCEPT !.minutes = @ - 1])
     /\ UNCHANGED <<lagVars, pendingVars>>
  \/ /\ Alive /\ load.backlog
     /\ PendingClock
     /\ UNCHANGED <<commandVars, statsVars, lagVars>>

LoggerStep == LoggerStarts \/ LoggerDrains \/ PendingStep("stats") \/ LoggerLine
WorkerStep(w) == WorkerGoesOn(w) \/ WorkerExits(w)
FetchLoopStep == StorePending \/ AttendantReturns("fetchLoop")

CommandNext ==
  \/ MainStep
  \/ Cancelled
  \/ \E w \in Workers : WorkerReceives(w) \/ WorkerStep(w)
  \/ Observe \/ FeedPending
  \/ FetchLoopStep \/ AttendantReturns("monitor")
  \/ LoggerStep \/ LoggerTicks \/ LoggerReturns
  \/ Scrape \/ PendingStep("scrape")
  \/ PetterReturns
  \/ Time

(* main, the workers and what the fetch loop has fetched go on, a request to  *)
(* NATS ends within its timeout, and the goroutines that are told to stop     *)
(* come back to their select, which picks among the ready cases at random and *)
(* so takes stop in the end; the loop of the fetches looks at the context.    *)
CommandFairness ==
  /\ WF_all(MainStep)
  /\ \A w \in Workers : WF_all(WorkerStep(w))
  /\ WF_all(FetchLoopStep) /\ WF_all(AttendantReturns("monitor"))
  /\ WF_all(LoggerStep)
  /\ SF_all(LoggerReturns)
  /\ WF_all(PetterReturns)

CommandSpec == CommandInit /\ [][CommandNext]_all /\ CommandFairness

-----------------------------------------------------------------------------
(* The sink works in the modes the operator asked for, a flag before a       *)
(* variable, and in the documented ones where nothing was asked: through     *)
(* three layers of defaults, deduplication, which makes redeliveries         *)
(* harmless, is never off by itself.  (A flag with an empty value asks for   *)
(* nothing in particular.)                                                   *)
SinkModesAsAsked ==
  main = "NewConnector" =>
    LET Asked(key, documented) ==
          IF key \in DOMAIN settings.flags THEN settings.flags[key]
          ELSE IF key \in DOMAIN settings.env THEN settings.env[key] ELSE documented
    IN \A s \in SinkOptions(opts) :
         /\ Asked("QdbCompression", "none") \in {s.Compression, ""}
         /\ Asked("QdbEncryption", "none") \in {s.Encryption, ""}
         /\ Asked("QdbPushMode", "async") \in {s.PushMode, ""}
         /\ Asked("QdbDeduplicationMode", "drop") \in {s.DeduplicationMode, ""}

(* No worker writes through a sink that was closed, in whatever order the    *)
(* workers, RunWithContext and Close come to their ends.                     *)
SinkOutlivesWrites == \A w \in Workers : stage[w] = "write" => w \in sinks

(* When the process ends by itself nothing it started is left: no worker, no *)
(* sink, no goroutine of the logger or the petter, no listener, and no       *)
(* connection that was bound.                                                *)
CleanExit ==
  main = "exited" =>
    /\ sinks = {} /\ running = {}
    /\ "logger" \in parts => logger = "done"
    /\ parts \subseteq {"logger"}
    /\ conn # "open"
    /\ \A w \in Workers : stage[w] = "idle"

(* With the stats enabled every row that is counted as written reaches the   *)
(* window, waits in the channel or with the logger, or is counted among the  *)
(* dropped events.                                                           *)
EventsConserved == StatsEnabled => RowsAccounted

(* Starting ends in the running connector or with an exit, and so does       *)
(* stopping: nothing waits for a goroutine that was never started, and no     *)
(* logger that is busy with NATS holds the process up.                       *)
Exits == (main # "running") ~> (main \in {"running", "exited"})
=============================================================================
