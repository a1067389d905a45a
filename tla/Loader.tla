------------------------------- MODULE Loader -------------------------------
(***************************************************************************)
(* tools/loader: a file is read line by line and published to JetStream    *)
(* through four stages of goroutines,                                      *)
(*                                                                         *)
(*   parser -> forwarder -> batcher (fixed or adaptive) -> publishers      *)
(*                                                                         *)
(* linked by an unbuffered channel, batchInput and the batcher's output.   *)
(* A tombstone follows the last line; the batcher sends it on and closes   *)
(* its output.  The process ends when the forwarder, the tracker (which    *)
(* waits for the publishers) and the reader of parse errors are done, or   *)
(* some time after a signal; a batcher blocked for 5 seconds panics.       *)
(***************************************************************************)
EXTENDS Naturals, Sequences, FiniteSets

CONSTANTS
  Lines,             \* the input: what the parser makes of each line
  Workers,           \* the publisher workers
  InputCap,          \* capacity of batchInput
  OutputCap,         \* capacity of the batcher's output
  MinSize, MaxSize   \* batch sizes; the fixed batcher has one size

ASSUME LoaderAssumption ==
  /\ Lines \in Seq({"data", "bad", "long"})
  /\ IsFiniteSet(Workers) /\ Workers # {}
  /\ {InputCap, OutputCap, MinSize, MaxSize} \subseteq Nat \ {0}
  /\ MinSize <= MaxSize

VARIABLES
  line,       \* the parser's next line; past the tombstone its channels close
  forwarder,  \* its step, and the message it sends to the batcher
  batchInput,
  batcher,    \* its step
  messages,   \* its buffer
  size,       \* currentSize
  output,     \* the batches waiting for a worker
  held,       \* each worker's batch: what is left of it to publish
  worker,     \* each worker's step
  readers,    \* goroutines of runLoader's WaitGroup still running
  ctx,        \* the signal context
  main,       \* runLoader
  published,  \* JetStream: how often each message was stored
  dropped     \* history: messages of batches given up by a worker

vars == <<line, forwarder, batchInput, batcher, messages, size, output,
          held, worker, readers, ctx, main, published, dropped>>

reading == <<line, forwarder>>
batching == <<batcher, messages>>
publishing == <<held, worker, published, dropped>>
ending == <<readers, ctx, main>>

(* The lines that become messages: the scanner gives up at a long line. *)
Data ==
  {i \in 1..Len(Lines) : Lines[i] = "data" /\ \A j \in 1..i : Lines[j] # "long"}
Tombstone == 0
TombstoneBatch == <<>>

EndOfInput == Len(Lines) + 1   \* the tombstone is due
ParserClosed == Len(Lines) + 3

Running == main \in {"waiting", "stopping"}

-----------------------------------------------------------------------------
Init ==
  /\ line = 1
  /\ forwarder = [step |-> "range", message |-> Tombstone]
  /\ batchInput = <<>>
  /\ batcher = "collect"
  /\ messages = <<>>
  /\ size = MinSize + (MaxSize - MinSize) \div 4
  /\ output = <<>>
  /\ held = [w \in Workers |-> <<>>]
  /\ worker = [w \in Workers |-> "idle"]
  /\ readers = {"forwarder", "tracker", "errors"}
  /\ ctx = "live"
  /\ main = "waiting"
  /\ published = [i \in Data |-> 0]
  /\ dropped = {}

-----------------------------------------------------------------------------
(* The parser and the forwarder.                                            *)

(* A line that is empty, or does not decode: its error is read and logged. *)
BadLine ==
  /\ Running
  /\ line \in 1..Len(Lines) /\ Lines[line] = "bad"
  /\ line' = line + 1
  /\ UNCHANGED <<forwarder, batchInput, batching, size, output, publishing, ending>>

(* The scanner fails: the rest is not read, and the tombstone is next. *)
LongLine ==
  /\ Running
  /\ line \in 1..Len(Lines) /\ Lines[line] = "long"
  /\ line' = EndOfInput
  /\ UNCHANGED <<forwarder, batchInput, batching, size, output, publishing, ending>>

(* After the tombstone, and the scanner's error if there is one, both        *)
(* channels of the parser are closed.                                        *)
ParserEnds ==
  /\ Running
  /\ line = EndOfInput + 1
  /\ line' = ParserClosed
  /\ UNCHANGED <<forwarder, batchInput, batching, size, output, publishing, ending>>

ForwarderExits ==
  /\ forwarder' = [step |-> "exited", message |-> Tombstone]
  /\ readers' = readers \ {"forwarder"}

(* The forwarder receives a message; it leaves its loop if it happens to     *)
(* see shutdownRequested, which main sets without synchronisation.           *)
TakeMessage ==
  /\ Running
  /\ forwarder.step = "range"
  /\ line \in Data \cup {EndOfInput}
  /\ line' = line + 1
  /\ \/ /\ forwarder' = [step |-> "send",
                         message |-> IF line = EndOfInput THEN Tombstone ELSE line]
        /\ UNCHANGED readers
     \/ /\ main = "stopping"
        /\ ForwarderExits
  /\ UNCHANGED <<batchInput, batching, size, output, publishing, ctx, main>>

ForwardMessage ==
  /\ Running
  /\ forwarder.step = "send"
  /\ Len(batchInput) < InputCap
  /\ batchInput' = Append(batchInput, forwarder.message)
  /\ forwarder' = [step |-> "range", message |-> Tombstone]
  /\ UNCHANGED <<line, batching, size, output, publishing, ending>>

(* ctx.Done() won the select, or the parser closed its channel. *)
ForwarderEnds ==
  /\ Running
  /\ \/ forwarder.step = "send" /\ ctx = "cancelled"
     \/ forwarder.step = "range" /\ line = ParserClosed
  /\ ForwarderExits
  /\ UNCHANGED <<line, batchInput, batching, size, output, publishing, ctx, main>>

InputClosed == forwarder.step = "exited"

-----------------------------------------------------------------------------
(* The batcher.  A send may block: it is a step of its own, named for what  *)
(* the batcher does after it.                                               *)

Sending == {"send", "send-tombstone", "send-close", "tombstone"}

(* Sends what is buffered, if anything, on the way to step s. *)
Flush(s) ==
  CASE s = "send-tombstone" -> IF messages = <<>> THEN "tombstone" ELSE s
    [] s = "send-close" -> IF messages = <<>> THEN "closed" ELSE s

BatcherCancelled ==
  /\ Running
  /\ batcher = "collect" /\ ctx = "cancelled"
  /\ batcher' = Flush("send-tombstone")
  /\ UNCHANGED <<reading, batchInput, messages, size, output, publishing, ending>>

InputEnds ==
  /\ Running
  /\ batcher = "collect" /\ batchInput = <<>> /\ InputClosed
  /\ batcher' = Flush("send-close")
  /\ UNCHANGED <<reading, batchInput, messages, size, output, publishing, ending>>

ReceiveTombstone ==
  /\ Running
  /\ batcher = "collect" /\ batchInput # <<>> /\ Head(batchInput) = Tombstone
  /\ batchInput' = Tail(batchInput)
  /\ batcher' = Flush("send-tombstone")
  /\ UNCHANGED <<reading, messages, size, output, publishing, ending>>

ReceiveMessage ==
  /\ Running
  /\ batcher = "collect" /\ batchInput # <<>> /\ Head(batchInput) # Tombstone
  /\ batchInput' = Tail(batchInput)
  /\ messages' = Append(messages, Head(batchInput))
  /\ batcher' = IF Len(messages') >= size THEN "send" ELSE "collect"
  /\ UNCHANGED <<reading, size, output, publishing, ending>>

(* The timer runs while the buffer is not empty. *)
TimerFires ==
  /\ Running
  /\ batcher = "collect" /\ messages # <<>>
  /\ batcher' = "send"
  /\ UNCHANGED <<reading, batchInput, messages, size, output, publishing, ending>>

AfterSend(s) ==
  CASE s = "send" -> "collect"
    [] s = "send-tombstone" -> "tombstone"
    [] s \in {"send-close", "tombstone"} -> "closed"

(* Fault: the buffer is not emptied. *)
SendBatchAgain ==
  /\ Running
  /\ batcher \in Sending \ {"tombstone"}
  /\ Len(output) < OutputCap
  /\ output' = Append(output, messages)
  /\ messages' = IF batcher = "send" THEN messages ELSE <<>>
  /\ batcher' = AfterSend(batcher)
  /\ UNCHANGED <<reading, batchInput, size, publishing, ending>>

SendBatch ==
  /\ Running
  /\ batcher \in Sending \ {"tombstone"}
  /\ Len(output) < OutputCap
  /\ output' = Append(output, messages)
  /\ messages' = <<>>
  /\ batcher' = AfterSend(batcher)
  /\ UNCHANGED <<reading, batchInput, size, publishing, ending>>

(* Fault: the output is not closed after the tombstone. *)
SendTombstoneOnly ==
  /\ Running
  /\ batcher = "tombstone"
  /\ Len(output) < OutputCap
  /\ output' = Append(output, TombstoneBatch)
  /\ batcher' = "exited"
  /\ UNCHANGED <<reading, batchInput, messages, size, publishing, ending>>

(* The tombstone goes to one worker; closing the output ends the others. *)
SendTombstone ==
  /\ Running
  /\ batcher = "tombstone"
  /\ Len(output) < OutputCap
  /\ output' = Append(output, TombstoneBatch)
  /\ batcher' = AfterSend(batcher)
  /\ UNCHANGED <<reading, batchInput, messages, size, publishing, ending>>

(* Blocked for 5 seconds. *)
Panic ==
  /\ Running
  /\ batcher \in Sending
  /\ Len(output) = OutputCap
  /\ main' = "panicked"
  /\ UNCHANGED <<reading, batchInput, batching, size, output, publishing, readers, ctx>>

Grown(n) == IF (3 * n) \div 2 < MaxSize THEN (3 * n) \div 2 ELSE MaxSize
Shrunk(n) == IF (3 * n) \div 4 > MinSize THEN (3 * n) \div 4 ELSE MinSize

(* The throughput is below or above the target. *)
AdjustBatchSize ==
  /\ Running /\ ctx = "live"
  /\ size' \in {Grown(size), Shrunk(size)}
  /\ UNCHANGED <<reading, batchInput, batching, output, publishing, ending>>

-----------------------------------------------------------------------------
(* A publisher worker.                                                      *)

ReceiveBatch(w) ==
  /\ Running
  /\ worker[w] = "idle" /\ output # <<>>
  /\ output' = Tail(output)
  /\ IF Head(output) = TombstoneBatch
     THEN /\ worker' = [worker EXCEPT ![w] = "exited"]
          /\ UNCHANGED held
     ELSE /\ worker' = [worker EXCEPT ![w] = "publishing"]
          /\ held' = [held EXCEPT ![w] = Head(output)]
  /\ UNCHANGED <<reading, batchInput, batching, size, published, dropped, ending>>

WorkerExits(w) ==
  /\ Running
  /\ worker[w] = "idle"
  /\ ctx = "cancelled" \/ (batcher = "closed" /\ output = <<>>)
  /\ worker' = [worker EXCEPT ![w] = "exited"]
  /\ UNCHANGED <<reading, batchInput, batching, size, output, held, published, dropped, ending>>

Publish(w) ==
  /\ Running
  /\ worker[w] = "publishing" /\ ctx = "live"
  /\ held[w] # <<>>
  /\ published' = [published EXCEPT ![Head(held[w])] = @ + 1]
  /\ held' = [held EXCEPT ![w] = Tail(@)]
  /\ UNCHANGED <<reading, batchInput, batching, size, output, worker, dropped, ending>>

(* The batch is given up: ctx was cancelled before a message, or a publish  *)
(* failed, which JetStream may have stored all the same.                    *)
GiveUp(w) ==
  /\ Running
  /\ worker[w] = "publishing" /\ held[w] # <<>>
  /\ \/ UNCHANGED published
     \/ ctx = "live" /\ published' = [published EXCEPT ![Head(held[w])] = @ + 1]
  /\ dropped' = dropped \cup {held[w][i] : i \in 1..Len(held[w])}
  /\ held' = [held EXCEPT ![w] = <<>>]
  /\ worker' = [worker EXCEPT ![w] = "idle"]
  /\ UNCHANGED <<reading, batchInput, batching, size, output, ending>>

(* Flush; whether it fails makes no difference to the loop. *)
BatchDone(w) ==
  /\ Running
  /\ worker[w] = "publishing" /\ held[w] = <<>>
  /\ worker' = [worker EXCEPT ![w] = "idle"]
  /\ UNCHANGED <<reading, batchInput, batching, size, output, held, published, dropped, ending>>

-----------------------------------------------------------------------------
(* runLoader.                                                               *)

ErrorsEnd ==
  /\ Running
  /\ line = ParserClosed /\ "errors" \in readers
  /\ readers' = readers \ {"errors"}
  /\ UNCHANGED <<reading, batchInput, batching, size, output, publishing, ctx, main>>

(* Fault: the tracker ends with the first worker. *)
WorkersDoneEarly == \E w \in Workers : worker[w] = "exited"

WorkersDone == \A w \in Workers : worker[w] = "exited"

TrackerEnds ==
  /\ Running
  /\ "tracker" \in readers
  /\ ctx = "cancelled" \/ WorkersDone
  /\ readers' = readers \ {"tracker"}
  /\ UNCHANGED <<reading, batchInput, batching, size, output, publishing, ctx, main>>

Signal ==
  /\ Running /\ ctx = "live"
  /\ ctx' = "cancelled"
  /\ UNCHANGED <<reading, batchInput, batching, size, output, publishing, readers, main>>

MainStops ==
  /\ main = "waiting" /\ ctx = "cancelled"
  /\ main' = "stopping"
  /\ UNCHANGED <<reading, batchInput, batching, size, output, publishing, readers, ctx>>

(* done is signalled, or shutdownTimeout ran out. *)
MainExits ==
  /\ \/ main = "waiting" /\ readers = {}
     \/ main = "stopping"
  /\ main' = "exited"
  /\ UNCHANGED <<reading, batchInput, batching, size, output, publishing, readers, ctx>>

Ended == ~Running /\ UNCHANGED vars

-----------------------------------------------------------------------------
ReadStep == BadLine \/ LongLine \/ ParserEnds \/ TakeMessage \/ ForwardMessage \/ ForwarderEnds

BatcherStep ==
  \/ BatcherCancelled \/ InputEnds \/ ReceiveTombstone \/ ReceiveMessage \/ TimerFires
  \/ SendBatch \/ SendTombstone

WorkerStep(w) ==
  ReceiveBatch(w) \/ WorkerExits(w) \/ Publish(w) \/ GiveUp(w) \/ BatchDone(w)

MainStep == MainStops \/ MainExits

Next ==
  \/ ReadStep
  \/ BatcherStep \/ Panic \/ AdjustBatchSize
  \/ \E w \in Workers : WorkerStep(w)
  \/ ErrorsEnd \/ TrackerEnds \/ MainStep
  \/ Signal
  \/ Ended

Spec == Init /\ [][Next]_vars

(* Every goroutine goes on; publishing returns, with an error if need be.   *)
Fairness ==
  /\ WF_vars(ReadStep)
  /\ WF_vars(BatcherStep)
  /\ \A w \in Workers : WF_vars(WorkerStep(w))
  /\ WF_vars(ErrorsEnd) /\ WF_vars(TrackerEnds) /\ WF_vars(MainStep)

LiveSpec == Spec /\ Fairness

-----------------------------------------------------------------------------
(* Normal completion (runLoader, tombstone): a load that ends without a      *)
(* signal leaves no message in a channel, in the batcher's buffer or with a  *)
(* worker; each one the parser made was published, but for those of a batch  *)
(* that failed.                                                              *)
LoadIsComplete ==
  main = "exited" /\ ctx = "live" =>
    \A i \in Data : published[i] > 0 \/ i \in dropped

(* sendBatch, publishBatch: no message is published twice, also when the     *)
(* batcher's size changes, a timer fires or the loader is stopped.           *)
PublishedOnce == \A i \in Data : published[i] <= 1

(* Termination (tombstone, close of the output, shutdownTimeout): the loader *)
(* ends, whether or not a signal arrives.                                    *)
LoaderEnds == <>(main \in {"exited", "panicked"})
=============================================================================
