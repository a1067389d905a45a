# A TLA+ verification project for qdb-nats-connector

The connector pulls messages from a NATS JetStream durable consumer, turns them
into rows and writes the rows to a QuasarDB cluster. This directory holds TLA+
modules that model its concurrent core, TLC configurations that check them on
small instances, and TLAPS proofs of the main results for every instance.

Run a check with `tlc -config <Run>.cfg <MCModule>` and a proof with
`tlapm <Module>Proofs.tla`. `PROJECT.json` lists the runs, the properties each one
checks, the source lines every definition translates, one mutation of the code per
property that makes it fail, and the hazards that the properties are about.

## The system

| Part | Source | State it keeps | Operations |
|---|---|---|---|
| Fetch loop, lifecycle | `connector/connector.go` | context, `workCh` (2 batches per worker), `errCh` | fetch, back off, re-bind, dispatch, run, close |
| Worker | `connector/worker.go` | the batch at hand, counters | receive, parse, filter, merge, write, ACK, NACK |
| Circuit breaker | `connector/resilience/circuit_breaker.go`, `manager.go` | state, consecutive failures and successes, half-open level and slots, time of last failure | `Execute` (admit, run, record), `Reset` |
| Sink | `internal/sink/sink.go` | handle | `Write`: bounded retry ladder, 3 s doubling to 300 s |
| Source | `internal/source/source.go` | connection, pull subscription | `FetchBatch`, `Rebind`, ACK and NACK functions |
| Health | `connector/health.go`, `liveness.go` | active conditions, time of last fetch, one probe per goroutine | `Begin`/`End`/`Touch`, `evaluate` every 30 s |
| Liveness endpoint, watchdog | `internal/telemetry/probes.go`, `cmd/.../sdnotify.go` | none | verdict, pet |
| Parser, filter | `internal/parser`, `internal/filter` | compiled configuration; fields and errors of the message at hand | compile, run the steps, explode, fill the columns, filter rows |
| Options | `connector/options.go`, `internal/{sink,source}/options.go` | the resolved options | resolve, parse modes, validate |
| Telemetry | `internal/telemetry`, `internal/metrics`, `connector/stats.go` | counters, event channel, per-table window, lag histogram, backlog cache | count, record, observe, tick, scrape |
| Command | `cmd/qdb-nats-connector/main.go` | what was started | load, build, start, run, stop in order |
| Loader | `tools/loader` | queues between reader, batcher and publishers | read, batch, publish, stop by tombstone |
| Generator | `tools/generator` | generator state | synthetic data |

How the parts interact: one fetch goroutine feeds `workCh`; each worker goroutine
takes a batch, calls the breaker (shared by all workers, behind a mutex that is
*not* held during the write), which calls the sink; the outcome decides between ACK
and NACK. The monitor goroutine reads the probes and the fetch age, each behind its
own mutex, and sets or clears conditions in yet another critical section. The petter
and the HTTP handlers read the conditions. Workers keep atomic counters and hand
per-table events to the stats logger's goroutine over a bounded channel, dropping them
when it is full; that goroutine and the scrapes of `/metrics` ask the source for the
backlog, which is cached in two atomics that the fetch loop feeds as well. `runMain`
starts all of it and stops it in the reverse order.

What is hard: a request may be admitted by the breaker in one state and recorded in
a much later one; JetStream redelivers what is still being processed; acknowledgments
get lost; the process may stop or crash between the write and the ACK; shutdown may
find everyone waiting for everyone; a retry that lasts a quarter of an hour must not
look like a hang, and a hang must not look like a retry; a start-up that fails half-way
must neither leak what it opened nor wait for what it never started; and statistics
gathered without locks must still add up.

## The modules

### CircuitBreaker

`cb` is the `CircuitBreaker` struct; the lock-held methods (`updateStateLocked`,
`transitionToLocked`, `progressToNextLevelLocked`, ...) are functions from breaker to
breaker with the names of the source, composed in the order of the calls. `Admit` and
`Reject` are the two outcomes of `canProceed`, `RecordResult` is `recordResult`,
`Reset` is the manager's reset, `Tick` is time. Because the write runs between
`Admit` and `RecordResult` without the lock, any number of other steps may happen in
between. `lastFailureTime` is an age of three values: the timeout is redrawn with
jitter at every check, so between the shortest and the longest one a check may go
either way. The int64 level is doubled with wraparound at `MaxInt64`. Four history
variables say what really happened: how each request in flight was admitted
(`ticket`), slots given back by requests that hold none (`unclaimed`), failures since
the circuit closed (`evidence`), successes since it went half-open (`wins`).

Properties: `SlotAccounting`, `AdmissionBound` (what the half-open counter is worth
when results of earlier periods arrive late), `OpensOnEvidence`, `ClosesAfterLadder`,
`NoAdmissionInCooldown`, and under fairness `OpenIsLeft` and `Recovery`.

### AtLeastOnce and Pipeline

`AtLeastOnce` is the promise: rows reach QuasarDB at any time (`Store`), and the
stream is told to forget only messages that carry no rows or whose rows are stored,
and never a message that failed to parse (`Settle`).

`Pipeline` is the code: fetch loop, `workCh`, workers with one step per interruption
point of `processBatchFromChannel` (parse, breaker, attempt, push, ACK or NACK),
shutdown, crash and restart. External parts are modelled as the code uses them: the
JetStream consumer (a delivered message is outstanding until an ACK or NACK reaches
the server or AckWait runs out, at most `MaxDeliver` deliveries) and the cluster (a
push may fail after it stored some of the rows). A message is a model value; the
parser is `Outcome`, its classification, and the filter is `Matching`. The breaker
may refuse or admit any write. That is more than a closed circuit does; it covers
everything CircuitBreaker allows (`ConnectorIsPipeline`), which is sound for safety, and
whatever depends on when the circuit is really open is asked of Connector.

Properties: `DeliversAtLeastOnce` (Pipeline implements AtLeastOnce, with settled
mapped to the acknowledged messages). `ShutdownCompletes` and `EverySettled` are stated
here and checked of the composition below.

### Connector

Pipeline and CircuitBreaker composed as `processBatchFromChannel` composes them:
`Execute` asks the breaker before the sink's retry loop and tells it how the loop
ended, on every way out (success, last failed push, cancellation). Each of a worker's
breaker steps is the conjunction of a Pipeline action and a CircuitBreaker action, with
the workers as callers; a restart builds a new breaker. This is where the breaker's
effect on delivery is decided: a refused batch is NACKed, comes back, and is tried
again, and nothing is assumed of admission.

Properties: `InFlightIsTicketed` (the breaker's requests in flight are the workers'
writes), `EverySettled`, `ShutdownCompletes`. `NoDataLoss` is asked of `OutageSpec`, the
steps in which nothing but the cluster fails: the process stays up, no message is lost on
its way and AckWait does not run out.

### FetchLoop

The fetch goroutine's error paths against the monitor goroutine. `healthState` is
shared under a mutex taken per call, so the monitor's evaluation is three steps (read
the age, read the re-bind condition, set or clear). Fetch errors are transient or
fatal for the subscription; a re-bind has `RebindAttempts` attempts and ends the
process through `errCh`. The check of the context and the send are separate steps, and
the timer of a backoff may win over a cancelled context. `errCh` has `ErrChCapacity`
places, workers plus one: workers whose sink does not connect send to it too, main reads
one error at most and then waits for all of them, and a send on a full channel blocks.

Properties: `RebindingReported`, `DeadIsNoticed`, `LadderEnds`, `StallIsReported`,
`StallIsCleared`, `Shutdown`.

### Watchdog

The same goroutines over discrete time, with what the probes measure: stage ages, the
stuck threshold, the monitor's interval, pets gated on the liveness verdict, and
systemd's timeout of two pet intervals. Calls take at most their time, sleeps exactly
theirs; a push may be wedged and never return. A goroutine whose sleep or call is over
runs up to `Latency` ticks later, so the instant between the end of a 300 s backoff and
the progress call, which the comment of `retryWithBackoff` (`sink.go:151-153`) accepts as
a marginal false alarm, is in the model: the worker is reported there, with the default
proportions too. Nothing relates backoffs, pushes and fetches to the threshold, since
the options only require positive values; `SpansFit`, which says that they fit it as the
defaults do, is only the hypothesis of the half of `RetryReportIsMarginal` that says that
the next evaluation clears the report. The monitor and the petter are punctual, and a
goroutine that a channel wakes runs within the tick.

Properties: `RetryReportIsMarginal`, `WedgeIsKilled`, `FetchLoopStuckInDispatch`.

### Loader

The stages of `tools/loader` as goroutines: parser, forwarder, batcher, publisher
workers, and `runLoader`, which waits for the forwarder, the tracker and the reader
of parse errors. A blocking send of the batcher is a step named for what comes after
it; instead of sending it may panic (5 seconds). The adaptive batcher is modelled; the
fixed one is its instance with `MinSize = MaxSize`. Throughput is abstracted: any
adjustment may grow or shrink the size. `shutdownRequested` is a racy variable: after
main has set it, the forwarder may or may not see it. A line is good, malformed (or
empty), or too long for the scanner, which ends the input.

Properties: `LoadIsComplete`, `PublishedOnce`, `LoaderEnds`.

### Parser

One worker's parser, from the configuration to the tables that are pushed. `config` is
loaded or refused (`Accepted`: schema, steps, explode, filter, in the functions'
own names); then messages are parsed step by step (`StepSucceeds`, `FieldStepFails`,
`StructuralStepFails` are the three ways `runPipeline` goes on), `Finish` is the rest of
`Parse` (structural floor, explode, sentinel fill), and `Write` filters and merges the
tables of the batch. `state` is the `ParseState`, kept between messages so that a leak
of it would show.

A field value is a pair of Go type and payload. A text is a sequence of tokens (a name,
an integer, a date, a punctuation mark, the terminating null), which is as much as
splitting, slicing, trimming, conversion and table-name validation look at; floats are
integers; 1 to 4 stand for the nanoseconds of the four units; bytes are described by
what they decode to. An `int64` is at most `MaxInt64` and wraps where the code's would; a float
out of range becomes the smallest `int64`, as on amd64. With integers for floats, the
fractional epochs that `ParseInt` refuses and `ParseFloat` takes have no counterpart.
`state` holds the fields of a message, not the buffers behind them: that the reuse of a
buffer could change a table already made is outside this model.
The null sentinels and the present time are values that no payload contains.

`Values` is what the decoders find in the payloads, closed under their parts.
`ValuesAssumption` says that they make what the type says: a list or a map of values, a text,
bytes that are a payload of their own. `ConfigsAssumption` says the same of a configuration:
its columns and steps are lists, and an option that a factory checks for its type has it
(`TypedOptions`; a dot-path is not empty, as `validateFieldPath` has it). A configuration with
a missing or mistyped option is refused before any of this begins and is not in `Configs`.
TLC evaluates both on the instance.

Properties: `RowsAligned` (the sentinel-fill invariant that merging relies on),
`TimeAxis`, `NothingLostSilently`, `PartialIsClean`, `HistoryFree`, `WrittenExactly`.
The last three compare with a reference: the same message parsed alone and without the
steps that failed, and every row filtered by itself.

### Options, Stats, Lag, Pending and Command

The process around the pipeline. `Command` is `runMain`, one action per step that can
fail or block, from the command line to the exit code; the four modules it extends are
the parts that run inside it:

- `Options` is `LoadConfig` as operators: the order of flags, variables, viper's
  defaults and the flags' own defaults, the parsing of the sink's modes, every
  validation, and what the sink gets in the end.
- `Stats` is the bookkeeping of a batch in `processBatchFromChannel` (a batch is how
  many of its messages fail, are dropped, are empty, are filtered out, how many carry
  rows, which may be several to a message after `explode`, and the rows per table),
  `Record` on the bounded channel, and the logger's goroutine, which takes a slice of
  events, adds them one by one with the clock read for each, and keeps a window of
  per-minute slots. `TableWrite.Msgs` goes the way of `Rows` and has no variable. `tally`, `lost` and `added` are history.
- `Lag` is the histogram and the arithmetic of the stats line on two cumulative
  snapshots: bucket differences, interpolated quantiles (as fractions), maximum.
- `Pending` is the backlog cache: every load and store of its two atomics is a step,
  and a count is represented by the instant at which it was true.

`RunReturns` waits for the workers and for the fetch loop and the monitor (`Attendants`),
as `c.wg` does; a fetch in flight when the context is cancelled still returns, stores its
backlog and observes its lags while main drains. The closing flag and `activeBatches.Wait`
of `worker.shutdown` (`worker.go:499-512`) are left out: `SinkOutlivesWrites` holds
without that second guard. Of the collector's scrape only the backlog is modelled; the
counters it emits are plain loads.

Properties: `SinkModesAsAsked`, `SinkOutlivesWrites`, `CleanExit`, `Exits`,
`CountersBalance`, `EventsConserved`, `WindowIsExact`, `LagEstimates`, `PendingFresh`.
`PendingFresh` takes the time between two neighbouring loads or stores as zero.

## The runs

| Run | Instance | States | Shows |
|---|---|---|---|
| CircuitBreaker | 3 workers, threshold 2, no limit, levels wrap at 3, fairness | 145,709 | types, the safety properties through the wraparound, `OpenIsLeft`, `Recovery` |
| Pipeline | 2 workers, 2 messages, batches of 2, 2 attempts | 3,505,120 | types, `DeliversAtLeastOnce` |
| Connector | 1 worker, 2 messages, threshold 1, one level, fairness | 50,831 | `InFlightIsTicketed`, `EverySettled`, `ShutdownCompletes` |
| FetchLoop | ladder of 3, 2 workers, fairness | 47,488 | its safety and liveness properties |
| Watchdog | 1 worker, threshold 4, monitor 2, pets 3, backoffs 1, 2, 4, 4, delays up to 1 | 171,044 | timing |
| Loader | 2 workers, 6 lines, sizes 2 to 3, channels of 1, fairness | 474,012 | completeness, no duplicates, termination |
| Parser | 420 configurations, 6 JSON or 11 waveform messages, batches of up to 2 | 138,211 | rows, time axis, independence of messages |
| Command | about 3,100 settings, 2 workers, 7 workloads, fairness | 460,958 | options, start, statistics, stop |

The bounds: three callers are the fewest with which a stale result, a new probe and
a third party meet in one half-open period; two levels are the fewest that have a
first, a next and a last; a threshold of 2 tells "consecutive" from "any". Saturating
the breaker's counters at `CounterCap` loses nothing, since they are compared only
with smaller numbers. In Pipeline one message is good and one does not parse, so
batches mix outcomes, and two workers let two copies of one message be settled in both
orders; capacity 2 of `workCh` plus the workers and the fetch loop are more places than
messages, so copies of one message can be everywhere at once. In Watchdog the
proportions of the defaults are kept: the longest backoff equals the threshold (and a
delay of one tick takes it past it), pets
come at half the systemd timeout and more slowly than evaluations. In Loader channels of
capacity 1 make every sender block, three messages fill one batch and leave a rest,
and two workers are the fewest of which one gets the tombstone and the other does not.
In Parser the configurations are all combinations of a time step, value steps, a table
step and a filter (JSON), and of a map-entry, an unpack and an explode step with a
column type and a filter (waveforms), and one per reason to be refused; the messages
have each field present, missing and mistyped, numbers at, just above and well above
`MaxInt64`, and arrays of 0 to 3 elements. Two messages are the fewest that merge and
of which one can leave something behind for the other. In Connector one worker and a
queue of one batch keep the liveness check feasible: two messages are more than the
worker, and the fetch loop still blocks on a full channel; that several callers share
the breaker is CircuitBreaker's subject. Its batches have one message and every message
parses, so `EverySettled` does not see mixed batches and parse failures; those are in
Pipeline's run. In Command the settings are one valid command
line with up to two options changed, by flag or by variable, to values at and beyond
their edges, and the malformed ones; each workload exercises one part of the telemetry,
since the parts share no state: batches of every kind of message, alone and for two
workers, with one message of two rows; one batch over three minutes with a window of
two slots of one table each (so that slots are reused and overflow), two lags in buckets 1, 2, 4, and a backlog over a clock of three instants,
on which a count can become older than `PendingFresh` allows. A channel of one event
is full as soon as a second batch is written.

### Where the code and its documentation differ

Four runs are expected to fail; each states what a comment or a document says.

| Run | Statement | What happens |
|---|---|---|
| CircuitBreakerLimit | at level 1 only one request is in flight | failures survive the change to half-open: the next check reopens, the one after re-enters with the counter at 0 |
| ConnectorOutage | no data loss | a failed push opens the circuit; the batches it refuses are NACKed without delay, come back at once and spend the deliveries that `max_deliver` leaves them |
| FetchLoopIncident | one incident, one condition | read and set are separate critical sections |
| WatchdogOutage | outages never stop pets | dispatch reports no progress while every worker retries |

Also noticed while reading, without a run: for the same reason as in CircuitBreakerLimit
the half-open circuit reopens at its next check, failure or not; `README.md:7` says
exactly-once where the pipeline is at-least-once; `README.md:234` says that poison
messages are ACKed after `max-retries` where they are NACKed for ever; the fetch-stalled
condition, described as fetches failing, is also raised while dispatch waits;
`adr/004-circuit-breaker.md` counts 32 successes to recovery where the ladder
1, 2, ..., 32 takes 63; `adr/002-data-flow.md` gives each worker its own breaker where
the default is a shared one, and describes `messagesProcessed` as messages written
where it is counted before the write (as is "all ACKed" in `connector/stats.go:25-26`,
which a failed write contradicts); `successThreshold` is stored and never used;
with `half-open-max` 0 the ladder takes about 2^62 successes in practice. `applyJitterDelay` uses
the breaker's random source without the lock, from every worker, which can only disturb
the length of a delay. A message without JetStream metadata gets its index in the batch
as sequence number, which may equal another's. When Connect fails on a missing durable,
nothing closes the connection (the process ends right after). The window of the
statistics takes minutes from the wall clock, so a step back resets a newer slot. In the loader,
a blocked batcher panics where its comment says "continue trying", the adaptive size
cannot leave 1, and a line that is too long ends a load that then reports success.
In the options, an explicitly empty `--qdb-deduplication-mode` switches deduplication
off, where an absent one means "drop"; a circuit-breaker timeout below 10ns is accepted
and panics in `Int63n(0)` when the circuit opens, and the growth factor of a histogram
has no upper limit, although bounds that overflow are refused by a panic. In the parser, `parser.go:35` says that tables are populated for OK and Partial where an
empty array gives none; `filter.go:154` says that only int64 and string columns can be
filtered where symbol columns can too; the int64 range check of `yaml.go:2068` lets 2^63
through, which is stored as the null sentinel; offsets of `explode` beyond an int64
wrap around (`explode.go:696`), which `TimeAxis` excludes; an `explode` step without a
config block is dropped in silence and the message becomes one row with the present
time; a payload's own `$table` key routes the row when `extract_table` fails; a table
name that already ends in a null gets a second one and is merged separately.

### Fairness

CircuitBreaker: workers keep calling (the stream has messages), a write returns (its
retry ladder is bounded), time passes. Nothing is assumed of admission. Connector:
fetches, worker calls and the selects of `RunWithContext` return; a supervisor
restarts the process (the systemd unit in `examples` does). `EverySettled` also
assumes, per message, that JetStream keeps delivering what is pending, that AckWait
runs out, and that merge, cluster and network do not fail it *every* time
(strong fairness: an outage may last arbitrarily long, not for ever); a write can only
succeed when the breaker admits it, and that it does so again and again follows from
the model. FetchLoop: the
goroutine's calls return and so do the workers' `Connect`, the monitor's ticker fires, the
main goroutine reads `errCh`, but nothing is promised of a send while it is full; while fetches fail the stuck threshold passes; the monitor's `select`, taken
again and again with a cancelled context, takes it in the end. Loader: every goroutine
goes on (weak fairness); publishing returns, with an error if need be. Neither a timer,
a signal nor the panic is assumed to happen. Command: `main`, the workers, the fetch
loop, the monitor, the petter and the logger's goroutine go on, its request to NATS included, which ends within its
timeout; the logger's `select` chooses among its ready cases at random, so a closed
stop channel is taken in the end (strong fairness). No signal is assumed.

## The proofs

TLAPS proves the following for every set of callers, messages and workers and for every
value of the other constants that satisfies the ASSUMEs.

`CircuitBreakerProofs`: `TypeCorrect`, `SlotsAccounted`, `AdmissionBounded`,
`OpeningNeedsEvidence`, `ClosingNeedsLadder`, `CooldownAdmitsNobody`. The inductive
invariant `IInv` adds to the types and to `SlotAccounting` what every critical
section leaves behind: a closed circuit is below its threshold and counts no failure
older than its closing; a half-open one is not cooling down, has fewer successes than
its level, has admitted no more than its level (`SlotsBounded`), and its level plus
its successes are covered by the successes of this period (`LadderClimbed`). The last
one is what makes `ClosesAfterLadder` provable, wraparound included. Each lock-held
method has a lemma on what it keeps, and each action is one step. The assumptions are
those `validateOptions` enforces, with counters that saturate above every threshold.

`ConnectorProofs`, of the pipeline: `TypeCorrect` and `AtLeastOnceImplemented`. The invariant says that a
worker about to ACK has its rows stored (`ReadyToAck`), that an acknowledged message
parsed and has its rows stored (`AckedIsStored`), that a pending message has
deliveries left and a worker before an attempt has attempts left, and that a process
that is down has no worker at work. Every step is then a `Store`, a `Settle` or a
stutter of AtLeastOnce.

The rest of `ConnectorProofs` puts the two together. `ConnectorIsPipeline`: every step of the
composition is a step of Pipeline, so the free choice of admission there does cover the
breaker, and `ConnectorDeliversAtLeastOnce` follows from the refinement of Pipeline.
`ConnectorInvariant` joins both inductive invariants with `InFlightIsTicketed`, which
is not inductive alone: that a restart finds no request in flight needs the pipeline's
invariant (a process that is down has no worker at work), and what a critical section
does to the tickets of the others needs the breaker's. From it come
`WritesInFlightAreTicketed` and `SharedBreakerAccounts`: slot accounting and admission
bound of the breaker the workers really share. `ConnectorAssumption` repeats the
thresholds that `validateOptions` enforces.

`FetchLoopProofs`: `RebindingIsReported`, `FatalAfterWholeLadder` and `ErrorsAreNeverHeldUp`,
for every length of the ladder and number of workers. `RebindingReported` is inductive with
the bounds of the ladder; the monitor's step is harmless because it writes only its own
condition, however old what it read. `RoomToReport` says that the errors in `errCh` and
those that may still be sent never exceed its capacity, so no send blocks a goroutine that
main waits for.

`WatchdogProofs`: `RetryReportsAreMarginal`, `FetchLoopIsStuckInDispatch` and
`WedgesAreKilled`, for every threshold, interval, ladder and delay, whether or not the
backoffs and calls fit the threshold (`WatchdogAssumption` only says what is positive). The
invariant is about sums: the age of a stage and what is left of the call or the sleep in it
are together at most the span of that one call or sleep, delay included (`InTime`), because
progress is reported on both sides of every sleep; an age past the threshold plus the time
to the next evaluation is bounded (`ReportedInTime`), and so is the age of what is
reported, by the time since the last pet (`NoPetWhileReported`). `ReportsClear` adds that,
where `SpansFit`, a worker that was reported and is not wedged either is past the threshold
for as long as the report is old, which its span does not allow up to the next evaluation,
or has made progress since.

`LoaderProofs`: `NothingIsPublishedTwice` and `LoadsAreComplete`, for every input, number
of publishers, capacity and batch size. The invariant says that no message is in two
places or twice in one (`Apart`), that what is on its way is read and unpublished, that
the tombstone is behind the last message in every channel (`TombstoneLast`), that a
stage has ended only when the one before it has (`EndsInOrder`), and that as long as
nothing was cancelled each message read is on its way, published or dropped with a
failed batch (`Conserved`). The order of the tombstone is what makes the load complete:
a publisher that sees it knows that nothing follows.

`CommandProofs` has seven invariants of the process, for any number of workers, any
settings and any workload. `Lifecycle` says what main has started and ended at each of
its steps, the fetch loop and the monitor included, whence `WritesHaveSinks` and `ExitsAreClean`. `PendingInv` bounds, at every
load and store of the two atomics, how old a count is against its stamp and against the
request in progress, whence `BacklogIsFresh`: both orders in which the fetch loop and a
refresh store leave a count at most one delay older than its stamp. `OptionsLoaded`
(what main has in hand is the resolution of the settings) gives `ModesAreAsAsked`, from
lemmas on `Resolve` and on the parsing of the modes. `CountersInv` says what a worker's
counters owe each other in the middle of a batch, stage by stage, whence `CountersAddUp`.
`WorkloadsAssumption` says that a batch is counts of messages and rows, with at least a row
to a message that carries any. `EventsInv` adds what the queue, the logger's slice, the
minutes and the workers hold, as sums, whence `NoEventIsLost`: a row
that a worker counted is in a minute of the window, in the queue, in the logger's slice, in
the worker's hand or counted as dropped. `WindowInv` says that a slot in use holds one minute, the one that
belongs there, and all of its rows (`Holds`: each under its table, or some under "other"
once the minute had more tables than a slot takes), and that each of the last minutes
with rows still has its slot; `WindowsAreExact` follows by summing the live slots by key
and by minute. That no two of the last minutes share a slot is arithmetic
(`SlotOfMinute`); that the clock starts past the first window, so that an unused slot
cannot pass for a minute, is part of `StatsAssumption`. `LagInv` says that between two
ticks the histogram's count and each of its cumulative buckets grow by exactly the lags
observed (`Grew`), so the differences that `bucketDeltas` takes are the lags of each bucket
(`DeltasCount`). `LagsAreEstimated` then needs no state: the bucket in which the estimate
is made is the one that holds the true quantile (`TrueQuantileInBucket`), interpolation
stays within it, a higher rank has no smaller an estimate and the last bucket in use is no
lower. It holds for all ascending bounds and every finite set of lags (`LagAssumption`).

`SumTheorems` is what the last three and the counting of rows below stand on: the laws of
sums over a finite set (`SumAdd`, `SumUpdate`, `SumPlus`, `SumTail`, `SumReindex`, `SumSwap`
and others). The library's induction theorems take an operator as a parameter, which the provers cannot instantiate,
so induction is done over a set, from the least that is not in it (`LeastOf`,
`BoundedInduction`, `SubsetInduction`): the recursive function behind a sum, or behind a
run of the pipeline's steps, is first shown to exist and then to satisfy its equation.

`ParserProofs`: `ColumnsAreAligned`, `TimesAreReal` and `NothingIsLost`, for every
accepted configuration and all messages. `ResultsInv` says that the tables made so far
are aligned and that the last result is a refusal or the materialization of the parse
state that is left; lemmas then follow `Materialize` down to the columns and the index.
What the steps compute stays opaque here: nothing depends on it, which is itself the point
of the sentinel fill. Writing the proof showed that the model had left out one check of
`validateSchema`, the refusal of empty column names; it is there now.

`ResultsAreHistoryFree` and `PartialParsesAreClean` are about whole runs of a pipeline.
`HistoryInv` says that the parse state of the message at hand is the one that a run of its
own over the same steps has at that point (`OwnRun`), by induction over the steps. For the
second, a lemma for each of the steps of the registry shows that it neither reads nor
writes the list of errors and leaves the parse state alone when it fails; so a run that
skips the steps that failed makes the same fields (`CleanRun`), and `Materialize` uses the
errors for the outcome only.

`RowsAreAligned` and `WrittenIsExact` do depend on what the steps compute. `TablesInv` says
that after every step the fields are what their types say (`FieldsTyped`: a text is a
sequence, a map or a list holds values), and that every table made so far can be written
(`Writable`): its name is valid and terminated, its columns are sequences as long as its
index, and no two of its rows are told apart by the filter. The first half makes the second
inductive: the floor checks the type of `$table` and not that it is a text, and `explode`
relies on the array it finds. A lemma for each step shows that it keeps the fields typed,
down to `Lookup`, `Split` and `ConcatFields`, whose recursions are first shown to exist
(`Recursion`) and then to stay among texts or among `Values`; `ExplodedUniform` is where
`NewFilter` must refuse the columns of `explode`. For `WrittenIsExact`, `PushedInv` says what
was pushed and `HistoryInv` that the results are those of the messages alone; the rest is
counting. The occurrences of a row in a sequence are a sum (`OccurrencesTally`), the sum over
sequences joined is the sum of the sums (`TallyFlat`), the rows of a merged table are the
rows of its parts in their order, each with its own values (`MergedRows`), and each table
that passes is in the group of exactly one name (`GroupTally`), so each row is pushed as
often as it was made (`SameWritten`). Nothing bounds the batch, the columns or the messages.

Each inductive invariant was checked by TLC on the instance of its run first.

Only model-checked:

- Liveness (`OpenIsLeft`, `Recovery`, `EverySettled`, `ShutdownCompletes`, `DeadIsNoticed`,
  `LadderEnds`, `StallIsReported`, `StallIsCleared`, `Shutdown`, `LoaderEnds`, `Exits`):
  temporal reasoning under fairness is out of the prover's reach.

Every invariant that a passing run checks is proved.

## Not modelled

- Hooks: callbacks for tests and failure injection. The command registers none.
- Logs, error texts, and in the telemetry the rates, the write-duration and batch-size
  histograms and readiness; reading HTTP requests.
- Options that steer nothing in the models: `circuit-breaker-shared` (off, it gives
  each worker the breaker of CircuitBreaker with one caller), files with keys and
  credentials, timeouts that no code validates. `max-retries` and `fetch-timeout` are
  accepted and never used.
- Of the parser, the reading of YAML and missing or mistyped options, protobuf
  descriptors and byte layouts.
- The loader's format detection and connection set-up: input and output only.
- The generator: single-threaded recipes for synthetic data, random by design, with no
  property to hold them to.

## Plan

Done: CircuitBreaker and its proofs; AtLeastOnce, Pipeline and the refinement proof;
Connector; FetchLoop; Watchdog; Loader; Parser with the row filter; Command with
Options, Stats, Lag and Pending.

The proofs of Connector, FetchLoop, Watchdog, Loader, Command (with Options, Pending,
Stats and Lag) and Parser.

Next, in this order:

1. Action properties from the invariants at hand: what a step of the loader, of `runMain`
   or of the worker's counters may never undo.
