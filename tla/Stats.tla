------------------------------- MODULE Stats -------------------------------
(***************************************************************************)
(* What the connector says of its work: the counters a worker keeps while  *)
(* processBatchFromChannel goes through a batch, the table events it hands *)
(* to the stats logger without ever waiting, and the logger's goroutine    *)
(* with its rolling window of per-minute table counts.                     *)
(***************************************************************************)
EXTENDS Sums, SequencesExt

CONSTANTS
  Workers,
  Tables,            \* the tables rows go to
  EventChanCap,      \* eventChanCap
  WindowBuckets,     \* windowBucketCount
  MaxDistinct,       \* maxDistinctPerBucket
  FirstMinute        \* of the wall clock

Overflow == "other"  \* overflowKey

ASSUME StatsAssumption ==
  /\ IsFiniteSet(Workers) /\ IsFiniteSet(Tables)
  /\ EventChanCap \in Nat /\ WindowBuckets \in Nat \ {0} /\ MaxDistinct \in Nat \ {0}
  /\ FirstMinute \in Nat /\ FirstMinute >= WindowBuckets
  /\ Overflow \notin Tables

VARIABLES
  stage,        \* worker -> where it is in processBatchFromChannel
  inHand,       \* worker -> the batch it works on
  counters,     \* worker -> workerCounters
  tally,        \* worker -> what became of the messages: history
  events,       \* chan []TableWrite
  dropped,      \* atomic.Uint64
  lost,         \* the rows of the dropped events: history
  window,       \* tableWindow
  added,        \* minute -> table -> the rows added in that minute: history
  minute,       \* the wall clock
  logger,       \* the goroutine of the stats logger
  slice         \* the events it received and has still to add

statsVars == <<stage, inHand, counters, tally, events, dropped, lost,
               window, added, minute, logger, slice>>

-----------------------------------------------------------------------------
(* A batch holds messages that fail to parse, that are unusable and dropped, *)
(* that parse to no table, whose rows are filtered out, and that carry the   *)
(* rows of the tables: one of them may carry several, by an explode step.    *)

RowsOf(f) == SumOver(f, DOMAIN f)
RowsOfAll(q) == RowsOf([i \in DOMAIN q |-> RowsOf(q[i])])
Rows(b) == RowsOf(b.rows)
ValidCount(b) == b.dropped + b.empty + b.filtered + b.carrying
Size(b) == b.failed + ValidCount(b)
NoBatch == [failed |-> 0, dropped |-> 0, empty |-> 0, filtered |-> 0, carrying |-> 0,
            rows |-> [t \in Tables |-> 0]]

NoWrites == [t \in {} |-> 0]

(* tableWritesFor: one event for each table that gets rows.  Msgs, which     *)
(* nothing but the report reads, goes the same way as Rows.                  *)
TableWritesFor(b) == [t \in {x \in Tables : b.rows[x] > 0} |-> b.rows[t]]

NoBucket == [minute |-> 0, counts |-> NoWrites]

StatsInit ==
  /\ stage = [w \in Workers |-> "idle"]
  /\ inHand = [w \in Workers |-> NoBatch]
  /\ counters = [w \in Workers |->
       [processed |-> 0, parseFailures |-> 0, writeFailures |-> 0, dropped |-> 0,
        zeroRows |-> 0, rows |-> 0, acks |-> 0, nacks |-> 0]]
  /\ tally = [w \in Workers |-> [received |-> 0, abandoned |-> 0, failed |-> 0, unanswered |-> 0]]
  /\ events = <<>>
  /\ dropped = 0
  /\ lost = 0
  /\ window = [i \in 0..WindowBuckets - 1 |-> NoBucket]
  /\ added = [m \in {FirstMinute} |-> NoBatch.rows]
  /\ minute = FirstMinute
  /\ logger = "off"
  /\ slice = NoWrites

-----------------------------------------------------------------------------
(* The worker.                                                              *)

At(w, s) == stage[w] = s
Becomes(w, s) ==
  /\ stage' = [stage EXCEPT ![w] = s]
  /\ inHand' = IF s = "idle" THEN [inHand EXCEPT ![w] = NoBatch] ELSE inHand

loggerVars == <<window, added, minute, logger, slice>>
eventVars == <<events, dropped, lost>>

(* parseMessages and the row filter. *)
ParseMessages(w, b) ==
  /\ At(w, "idle")
  /\ stage' = [stage EXCEPT ![w] = "parsed"]
  /\ inHand' = [inHand EXCEPT ![w] = b]
  /\ counters' = [counters EXCEPT ![w].parseFailures = @ + b.failed,
                                  ![w].dropped = @ + b.dropped,
                                  ![w].zeroRows = @ + b.empty]
  /\ tally' = [tally EXCEPT ![w].received = @ + Size(b)]
  /\ UNCHANGED <<eventVars, loggerVars>>

(* MergeWriterTables fails: nothing of the batch is answered. *)
MergeFails(w) ==
  /\ At(w, "parsed") /\ Rows(inHand[w]) > 0
  /\ Becomes(w, "idle")
  /\ tally' = [tally EXCEPT ![w].abandoned = @ + ValidCount(inHand[w]),
                            ![w].unanswered = @ + Size(inHand[w])]
  /\ UNCHANGED <<counters, eventVars, loggerVars>>

(* Fault: the NACKs of messages that do not parse are not counted. *)
SettleFailuresUncounted(w, ok) ==
  /\ At(w, "parsed")
  /\ Becomes(w, CASE Rows(inHand[w]) > 0 -> "write"
                  [] ValidCount(inHand[w]) > 0 -> "ack"
                  [] OTHER -> "idle")
  /\ counters' = [counters EXCEPT ![w].processed = @ + ValidCount(inHand[w])]
  /\ tally' = IF ok THEN tally ELSE [tally EXCEPT ![w].unanswered = @ + inHand[w].failed]
  /\ UNCHANGED <<eventVars, loggerVars>>

(* NackFunc of the failed sequences; the valid ones count as processed      *)
(* before anything is written.                                              *)
SettleFailures(w, ok) ==
  /\ At(w, "parsed")
  /\ Becomes(w, CASE Rows(inHand[w]) > 0 -> "write"
                  [] ValidCount(inHand[w]) > 0 -> "ack"
                  [] OTHER -> "idle")
  /\ counters' = [counters EXCEPT ![w].nacks = @ + (IF ok THEN inHand[w].failed ELSE 0),
                                  ![w].processed = @ + ValidCount(inHand[w])]
  /\ tally' = IF ok THEN tally ELSE [tally EXCEPT ![w].unanswered = @ + inHand[w].failed]
  /\ UNCHANGED <<eventVars, loggerVars>>

WriteSucceeds(w) ==
  /\ At(w, "write")
  /\ Becomes(w, "emit")
  /\ counters' = [counters EXCEPT ![w].rows = @ + Rows(inHand[w])]
  /\ UNCHANGED <<tally, eventVars, loggerVars>>

(* handleWriteFailure. *)
WriteFails(w, ok) ==
  LET n == ValidCount(inHand[w])
  IN /\ At(w, "write")
     /\ Becomes(w, "idle")
     /\ counters' = [counters EXCEPT ![w].writeFailures = @ + 1,
                                     ![w].nacks = @ + (IF ok THEN n ELSE 0)]
     /\ tally' = [tally EXCEPT ![w].failed = @ + n,
                               ![w].unanswered = @ + (IF ok THEN 0 ELSE n)]
     /\ UNCHANGED <<eventVars, loggerVars>>

(* Fault: a full channel drops its oldest events for the new ones. *)
RecordEvicts(w) ==
  /\ At(w, "emit")
  /\ Becomes(w, "ack")
  /\ events' = Append(IF Len(events) < EventChanCap THEN events ELSE Tail(events),
                      TableWritesFor(inHand[w]))
  /\ UNCHANGED <<counters, tally, dropped, lost, loggerVars>>

(* emitTableWrites, StatsLogger.Record. *)
Record(w) ==
  LET e == TableWritesFor(inHand[w])
  IN /\ At(w, "emit")
     /\ Becomes(w, "ack")
     /\ \/ /\ Len(events) < EventChanCap
           /\ events' = Append(events, e)
           /\ UNCHANGED <<dropped, lost>>
        \/ /\ Len(events) >= EventChanCap
           /\ dropped' = dropped + Cardinality(DOMAIN e)
           /\ lost' = lost + RowsOf(e)
           /\ UNCHANGED events
     /\ UNCHANGED <<counters, tally, loggerVars>>

(* No callback is registered: the stats logger does not exist. *)
EmitNothing(w) ==
  /\ At(w, "emit")
  /\ Becomes(w, "ack")
  /\ UNCHANGED <<counters, tally, eventVars, loggerVars>>

AckValid(w, ok) ==
  LET n == ValidCount(inHand[w])
  IN /\ At(w, "ack")
     /\ Becomes(w, "idle")
     /\ counters' = IF ok THEN [counters EXCEPT ![w].acks = @ + n] ELSE counters
     /\ tally' = IF ok THEN tally ELSE [tally EXCEPT ![w].unanswered = @ + n]
     /\ UNCHANGED <<eventVars, loggerVars>>

-----------------------------------------------------------------------------
(* The rolling window.                                                      *)

(* Fault: the slot of an older minute is added to, not reset. *)
SlotKept(b, m) == [minute |-> m, counts |-> b.counts]

(* The slot of minute m, reset when it holds another one. *)
Slot(b, m) == IF b.minute = m THEN b ELSE [minute |-> m, counts |-> NoWrites]

(* What a slot has under a key; a key that is missing reads as zero. *)
Count(b, key) == IF key \in DOMAIN b.counts THEN b.counts[key] ELSE 0

(* tableWindow.add on one slot. *)
Add(b, table, n) ==
  LET key == IF table \notin DOMAIN b.counts /\ Cardinality(DOMAIN b.counts) >= MaxDistinct
             THEN Overflow ELSE table
  IN [b EXCEPT !.counts = [k \in DOMAIN b.counts \cup {key} |->
                             Count(b, k) + (IF k = key THEN n ELSE 0)]]

(* tableWindow.report: key -> rows over the live slots. *)
Live == {i \in DOMAIN window : window[i].minute >= minute - WindowBuckets + 1}

Report ==
  [k \in UNION {DOMAIN window[i].counts : i \in Live} |->
     SumOver([i \in Live |-> Count(window[i], k)], Live)]

-----------------------------------------------------------------------------
(* StatsLogger.run.                                                         *)

workerVars == <<stage, inHand, counters, tally>>

StatsStart ==
  /\ logger = "off"
  /\ logger' = "select"
  /\ UNCHANGED <<workerVars, eventVars, window, added, minute, slice>>

(* The case of the channel. *)
ReceiveEvents ==
  /\ logger = "select" /\ events # <<>>
  /\ slice' = Head(events)
  /\ events' = Tail(events)
  /\ logger' = "add"
  /\ UNCHANGED <<workerVars, dropped, lost, window, added, minute>>

(* Its loop over the slice, in whatever order: each event goes to the minute *)
(* in which it is added.                                                     *)
AddEvent ==
  /\ logger = "add"
  /\ \E t \in DOMAIN slice :
       /\ window' = [window EXCEPT ![minute % WindowBuckets] = Add(Slot(@, minute), t, slice[t])]
       /\ added' = [added EXCEPT ![minute][t] = @ + slice[t]]
       /\ slice' = [k \in DOMAIN slice \ {t} |-> slice[k]]
       /\ logger' = IF DOMAIN slice = {t} THEN "select" ELSE "add"
  /\ UNCHANGED <<workerVars, eventVars, minute>>

(* ticker.C: the goroutine is busy with its line until the gauges are read. *)
TickBegins ==
  /\ logger = "select"
  /\ logger' = "line"
  /\ UNCHANGED <<workerVars, eventVars, window, added, minute, slice>>

TickEnds ==
  /\ logger = "line"
  /\ logger' = "select"
  /\ UNCHANGED <<workerVars, eventVars, window, added, minute, slice>>

(* The case of the closed stop channel; what is still queued stays there. *)
StatsReturns ==
  /\ logger = "select"
  /\ logger' = "done"
  /\ UNCHANGED <<workerVars, eventVars, window, added, minute, slice>>

(* The wall clock enters the next minute. *)
NextMinute ==
  /\ minute' = minute + 1
  /\ added' = [m \in DOMAIN added \cup {minute'} |->
                 IF m \in DOMAIN added THEN added[m] ELSE NoBatch.rows]
  /\ UNCHANGED <<workerVars, eventVars, window, logger, slice>>

-----------------------------------------------------------------------------
(* Between two batches every message a worker took is accounted for once:    *)
(* as processed, as a parse failure or in a batch given up at the merge, and *)
(* as acknowledged, refused or left to AckWait.  messagesProcessed exceeds   *)
(* the acknowledgements by the messages of failed writes and of lost         *)
(* acknowledgements only: those are counted again when they come back.       *)
CountersBalance ==
  \A w \in Workers : stage[w] = "idle" =>
    LET c == counters[w]
        t == tally[w]
    IN /\ c.processed + c.parseFailures + t.abandoned = t.received
       /\ c.acks + c.nacks + t.unanswered = t.received
       /\ c.acks <= c.processed
       /\ c.processed <= c.acks + t.failed + t.unanswered

(* The rows of the events of the workers are in the window's minutes, with   *)
(* the logger, in the channel, or counted as dropped: between rowsWritten.Add *)
(* and Record they are still with the worker.                                *)
RowsAccounted ==
  /\ RowsOf([w \in Workers |-> counters[w].rows])
       = lost + RowsOfAll(events) + RowsOf(slice) + RowsOfAll(added)
              + RowsOf([w \in Workers |-> IF At(w, "emit") THEN Rows(inHand[w]) ELSE 0])
  /\ lost > 0 <=> dropped > 0

(* A report made now holds the rows of the last WindowBuckets minutes and no  *)
(* others, whatever slots were reused, skipped or left behind; a table may be *)
(* short, to the benefit of "other", only when a minute had more tables than  *)
(* a slot takes.                                                              *)
WindowIsExact ==
  LET recent == {m \in DOMAIN added : m > minute - WindowBuckets}
      true == [t \in Tables |-> SumOver([m \in recent |-> added[m][t]], recent)]
      crowded == \E m \in recent :
                   Cardinality({t \in Tables : added[m][t] > 0}) > MaxDistinct
  IN /\ RowsOf(Report) = RowsOf(true)
     /\ \A t \in DOMAIN Report \ {Overflow} :
          Report[t] <= true[t] /\ (~crowded => Report[t] = true[t])
=============================================================================
