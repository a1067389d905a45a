---------------------------- MODULE LoaderProofs ----------------------------
(***************************************************************************)
(* The loader publishes each message once and a load that ends by itself   *)
(* is complete, for any input, any number of publishers, any capacities    *)
(* of the channels and any batch sizes.                                    *)
(***************************************************************************)
EXTENDS Loader, Functions, SequenceTheorems, TLAPS

(* Where a message can be between the parser and JetStream. *)
Forwarded == IF forwarder.step = "send" THEN {forwarder.message} ELSE {}
Queued == Range(batchInput)
Buffered == Range(messages)
Sent == UNION {Range(output[k]) : k \in DOMAIN output}
Upstream == Forwarded \cup Queued \cup Buffered \cup Sent

Live == ctx = "live"

TypeOK ==
  /\ line \in 1..ParserClosed
  /\ forwarder \in [step : {"range", "send", "exited"}, message : Data \cup {Tombstone}]
  /\ batchInput \in Seq(Data \cup {Tombstone})
  /\ batcher \in Sending \cup {"collect", "closed"}
  /\ messages \in Seq(Data)
  /\ output \in Seq(Seq(Data))
  /\ held \in [Workers -> Seq(Data)]
  /\ worker \in [Workers -> {"idle", "publishing", "exited"}]
  /\ published \in [Data -> {0, 1}]

OutputApart ==
  /\ \A k \in DOMAIN output : IsInjective(output[k])
  /\ \A j, k \in DOMAIN output : j # k => Range(output[j]) \cap Range(output[k]) = {}

HeldApart ==
  /\ \A w \in Workers : IsInjective(held[w])
  /\ \A v, w \in Workers : v # w => Range(held[v]) \cap Range(held[w]) = {}

(* No message is in two places, nor twice in one. *)
Apart ==
  /\ IsInjective(batchInput) /\ IsInjective(messages) /\ OutputApart /\ HeldApart
  /\ Forwarded \cap Queued = {}
  /\ (Forwarded \cup Queued) \cap Buffered = {}
  /\ (Forwarded \cup Queued \cup Buffered) \cap Sent = {}
  /\ \A w \in Workers : Upstream \cap Range(held[w]) = {}

(* What is still on its way was read, and was not published. *)
Unpublished ==
  /\ \A i \in Upstream \ {Tombstone} : i < line /\ published[i] = 0
  /\ \A w \in Workers : \A i \in Range(held[w]) : i < line /\ published[i] = 0
  /\ \A i \in Data : i >= line => published[i] = 0

(* The tombstone follows the last message through every channel. *)
TombstoneLast ==
  /\ Tombstone \in Forwarded \cup Queued => line > EndOfInput
  /\ Tombstone \in Queued => forwarder.step # "send"
  /\ \A k \in DOMAIN batchInput : batchInput[k] = Tombstone => k = Len(batchInput)
  /\ \A k \in DOMAIN output : output[k] = TombstoneBatch =>
       k = Len(output) /\ batcher = "closed"

(* A batcher that sends has something to send, one that is past its last     *)
(* batch has not.                                                            *)
BufferAsStep ==
  /\ batcher \in {"send", "send-tombstone", "send-close"} => messages # <<>>
  /\ batcher \in {"tombstone", "closed"} => messages = <<>>
  /\ \A w \in Workers : worker[w] # "publishing" => held[w] = <<>>

(* Without a signal each stage ends only after the one before it.            *)
EndsInOrder ==
  Live =>
    /\ main # "stopping"
    /\ forwarder.step = "exited" => line = ParserClosed
    /\ batcher \in {"send-tombstone", "send-close", "tombstone", "closed"} =>
         batchInput = <<>> /\ forwarder.step # "send" /\ line > EndOfInput
    /\ \A w \in Workers : worker[w] = "exited" => batcher = "closed" /\ output = <<>>
    /\ "tracker" \notin readers => WorkersDone
    /\ main = "exited" => readers = {}

(* Without a signal a message that was read is on its way, was published, or *)
(* was in a batch that failed.                                               *)
Conserved ==
  Live => \A i \in Data : i < line =>
    \/ i \in Upstream \/ \E w \in Workers : i \in Range(held[w])
    \/ published[i] = 1 \/ i \in dropped

IInv ==
  /\ TypeOK /\ Apart /\ Unpublished
  /\ TombstoneLast /\ BufferAsStep /\ EndsInOrder /\ Conserved

-----------------------------------------------------------------------------
(* What a send on a channel, and a receive from it, do to its contents.      *)

(* The messages are numbered, and neither marker is one of them. *)
LEMMA DataFacts ==
  /\ Data \subseteq 1..Len(Lines) /\ Data \subseteq Nat \ {0} /\ Len(Lines) \in Nat
  /\ Tombstone \notin Data /\ EndOfInput \notin Data
BY LoaderAssumption DEF Data, Tombstone, EndOfInput

(* An empty channel holds nothing. *)
LEMMA EmptyContents ==
  /\ \A S : <<>> \in Seq(S)
  /\ Range(<<>>) = {} /\ IsInjective(<<>>)
BY DEF Range, IsInjective

(* A channel holds what is sent to it, behind what it held. *)
LEMMA SendContents ==
  ASSUME NEW S, NEW s \in Seq(S), NEW x \in S
  PROVE  /\ Append(s, x) \in Seq(S)
         /\ Range(Append(s, x)) = Range(s) \cup {x}
         /\ IsInjective(s) /\ x \notin Range(s) => IsInjective(Append(s, x))
<1>1. /\ Append(s, x) \in Seq(S) /\ Len(Append(s, x)) = Len(s) + 1 /\ Len(s) \in Nat
      /\ DOMAIN s = 1..Len(s) /\ DOMAIN Append(s, x) = 1..Len(s) + 1
      /\ \A i \in 1..Len(s) : Append(s, x)[i] = s[i]
      /\ Append(s, x)[Len(s) + 1] = x
  OBVIOUS
<1>2. Range(Append(s, x)) = Range(s) \cup {x}
  <2>1. ASSUME NEW y \in Range(Append(s, x)) PROVE y \in Range(s) \cup {x}
    BY <1>1, <2>1 DEF Range
  <2>2. ASSUME NEW y \in Range(s) PROVE y \in Range(Append(s, x))
    <3>1. PICK i \in 1..Len(s) : y = s[i]
      BY <1>1 DEF Range
    <3> QED
      BY <1>1, <3>1 DEF Range
  <2>3. x \in Range(Append(s, x))
    <3>1. Len(s) + 1 \in DOMAIN Append(s, x)
      BY <1>1
    <3> QED
      BY <1>1, <3>1 DEF Range
  <2> QED
    BY <2>1, <2>2, <2>3
<1>3. ASSUME IsInjective(s), x \notin Range(s) PROVE IsInjective(Append(s, x))
  BY <1>1, <1>3 DEF IsInjective, Range
<1> QED
  BY <1>1, <1>2, <1>3

(* A channel gives up its head and holds the rest. *)
LEMMA ReceiveContents ==
  ASSUME NEW S, NEW s \in Seq(S), s # <<>>
  PROVE  /\ Head(s) \in S /\ Tail(s) \in Seq(S)
         /\ Range(s) = Range(Tail(s)) \cup {Head(s)}
         /\ IsInjective(s) => IsInjective(Tail(s)) /\ Head(s) \notin Range(Tail(s))
<1>1. /\ Head(s) \in S /\ Tail(s) \in Seq(S) /\ Head(s) = s[1]
      /\ Len(s) \in Nat /\ Len(s) > 0 /\ Len(Tail(s)) = Len(s) - 1
      /\ DOMAIN s = 1..Len(s) /\ DOMAIN Tail(s) = 1..Len(s) - 1
      /\ \A i \in 1..Len(s) - 1 : Tail(s)[i] = s[i + 1]
  BY HeadTailProperties
<1>2. Range(s) = Range(Tail(s)) \cup {Head(s)}
  <2>1. ASSUME NEW y \in Range(s) PROVE y \in Range(Tail(s)) \cup {Head(s)}
    <3>1. PICK i \in 1..Len(s) : y = s[i]
      BY <1>1 DEF Range
    <3>2. CASE i = 1
      BY <1>1, <3>1, <3>2
    <3>3. CASE i # 1
      <4>1. i - 1 \in 1..Len(s) - 1 /\ Tail(s)[i - 1] = s[i]
        BY <1>1, <3>3
      <4> QED
        BY <1>1, <3>1, <4>1 DEF Range
    <3> QED
      BY <3>2, <3>3
  <2>2. ASSUME NEW y \in Range(Tail(s)) PROVE y \in Range(s)
    <3>1. PICK i \in 1..Len(s) - 1 : y = s[i + 1]
      BY <1>1 DEF Range
    <3>2. i + 1 \in DOMAIN s
      BY <1>1
    <3> QED
      BY <3>1, <3>2 DEF Range
  <2>3. Head(s) \in Range(s)
    BY <1>1 DEF Range
  <2> QED
    BY <2>1, <2>2, <2>3
<1>3. ASSUME IsInjective(s) PROVE IsInjective(Tail(s)) /\ Head(s) \notin Range(Tail(s))
  <2>1. \A i, j \in 1..Len(s) - 1 : s[i + 1] = s[j + 1] => i + 1 = j + 1
    BY <1>1, <1>3 DEF IsInjective
  <2>2. \A i \in 1..Len(s) - 1 : s[i + 1] # s[1]
    BY <1>1, <1>3 DEF IsInjective
  <2> QED
    BY <1>1, <2>1, <2>2 DEF IsInjective, Range
<1> QED
  BY <1>1, <1>2, <1>3

(* A batch that is sent adds its messages to those sent. *)
LEMMA SendBatchContents ==
  ASSUME output \in Seq(Seq(Data)), OutputApart, NEW b \in Seq(Data), IsInjective(b),
         Range(b) \cap Sent = {}, output' = Append(output, b)
  PROVE  /\ output' \in Seq(Seq(Data))
         /\ Sent' = Sent \cup Range(b)
         /\ OutputApart'
<1>1. /\ Len(output) \in Nat /\ DOMAIN output = 1..Len(output)
      /\ DOMAIN output' = 1..Len(output) + 1
      /\ \A k \in 1..Len(output) : output'[k] = output[k]
      /\ output'[Len(output) + 1] = b
      /\ Len(output) + 1 \in 1..Len(output) + 1
  OBVIOUS
<1>2. \A k \in DOMAIN output' : k \in DOMAIN output \/ k = Len(output) + 1
  BY <1>1
<1>3. \A k \in DOMAIN output : Range(output[k]) \cap Range(b) = {}
  BY DEF Sent
<1>4. OutputApart'
  BY <1>1, <1>2, <1>3 DEF OutputApart
<1>5. Sent' = Sent \cup Range(b)
  BY <1>1, <1>2 DEF Sent
<1> QED
  BY <1>4, <1>5

(* A batch that is received takes its messages from those sent. *)
LEMMA ReceiveBatchContents ==
  ASSUME output \in Seq(Seq(Data)), OutputApart, output # <<>>, output' = Tail(output)
  PROVE  /\ Head(output) \in Seq(Data) /\ output' \in Seq(Seq(Data))
         /\ IsInjective(Head(output))
         /\ Sent = Sent' \cup Range(Head(output))
         /\ Sent' \cap Range(Head(output)) = {}
         /\ OutputApart'
<1>1. /\ Head(output) \in Seq(Data) /\ output' \in Seq(Seq(Data)) /\ Head(output) = output[1]
      /\ Len(output) \in Nat /\ Len(output) > 0
      /\ DOMAIN output = 1..Len(output) /\ DOMAIN output' = 1..Len(output) - 1
      /\ \A k \in 1..Len(output) - 1 : output'[k] = output[k + 1] /\ k + 1 \in 1..Len(output)
      /\ 1 \in 1..Len(output)
  BY HeadTailProperties
<1>2. ASSUME NEW k \in DOMAIN output, k # 1
      PROVE  k - 1 \in DOMAIN output' /\ output'[k - 1] = output[k]
  <2>1. k - 1 \in 1..Len(output) - 1 /\ (k - 1) + 1 = k
    BY <1>1, <1>2
  <2>2. output'[k - 1] = output[(k - 1) + 1]
    BY <1>1, <2>1
  <2> QED
    BY <1>1, <2>1, <2>2
<1>3. IsInjective(Head(output)) /\ OutputApart'
  <2>1. ASSUME NEW k \in DOMAIN output' PROVE IsInjective(output'[k])
    BY <1>1 DEF OutputApart
  <2>2. ASSUME NEW j \in DOMAIN output', NEW k \in DOMAIN output', j # k
        PROVE  Range(output'[j]) \cap Range(output'[k]) = {}
    <3>1. j + 1 # k + 1 /\ j + 1 \in DOMAIN output /\ k + 1 \in DOMAIN output
      BY <1>1, <2>2
    <3>2. output'[j] = output[j + 1] /\ output'[k] = output[k + 1]
      BY <1>1
    <3> QED
      BY <3>1, <3>2 DEF OutputApart
  <2> QED
    BY <1>1, <2>1, <2>2 DEF OutputApart
<1>4. Sent = Sent' \cup Range(Head(output))
  <2>1. ASSUME NEW i \in Sent PROVE i \in Sent' \cup Range(Head(output))
    <3>1. PICK k \in DOMAIN output : i \in Range(output[k])
      BY DEF Sent
    <3>2. CASE k = 1
      BY <1>1, <3>1, <3>2
    <3>3. CASE k # 1
      <4>1. k - 1 \in DOMAIN output' /\ output'[k - 1] = output[k]
        BY <1>2, <3>3
      <4>2. \E j \in DOMAIN output' : i \in Range(output'[j])
        BY <3>1, <4>1
      <4> QED
        BY <4>2 DEF Sent
    <3> QED
      BY <3>2, <3>3
  <2>2. Sent' \subseteq Sent /\ Range(Head(output)) \subseteq Sent
    BY <1>1 DEF Sent
  <2> QED
    BY <2>1, <2>2
<1>5. Sent' \cap Range(Head(output)) = {}
  <2>1. ASSUME NEW k \in DOMAIN output' PROVE Range(output'[k]) \cap Range(Head(output)) = {}
    <3>1. k + 1 # 1 /\ k + 1 \in DOMAIN output /\ 1 \in DOMAIN output
      BY <1>1
    <3>2. output'[k] = output[k + 1] /\ Head(output) = output[1]
      BY <1>1
    <3> QED
      BY <3>1, <3>2 DEF OutputApart
  <2> QED
    BY <2>1 DEF Sent
<1> QED
  BY <1>1, <1>3, <1>4, <1>5

-----------------------------------------------------------------------------
(* A step that touches no channel and forwards nothing moves no message. *)
LEMMA SamePlaces ==
  ASSUME UNCHANGED <<batchInput, messages, output, held>>, Forwarded' = Forwarded
  PROVE  /\ Queued' = Queued /\ Buffered' = Buffered /\ Sent' = Sent /\ Upstream' = Upstream
         /\ Apart => Apart'
BY DEF Queued, Buffered, Sent, Upstream, Apart, OutputApart, HeldApart

(* A step that touches no channel leaves their contents alone. *)
LEMMA SameChannels ==
  ASSUME UNCHANGED <<batchInput, messages, output, held>>
  PROVE  /\ Queued' = Queued /\ Buffered' = Buffered /\ Sent' = Sent
         /\ OutputApart => OutputApart'
         /\ HeldApart => HeldApart'
BY DEF Queued, Buffered, Sent, OutputApart, HeldApart

(* Nothing but messages, and upstream the tombstone, is on its way. *)
LEMMA PlacesHoldData ==
  ASSUME TypeOK
  PROVE  /\ Upstream \subseteq Data \cup {Tombstone} /\ Buffered \cup Sent \subseteq Data
         /\ \A w \in Workers : Range(held[w]) \subseteq Data
<1>1. ASSUME NEW S, NEW s \in Seq(S) PROVE Range(s) \subseteq S
  BY DEF Range
<1>2. Queued \subseteq Data \cup {Tombstone} /\ Buffered \subseteq Data
  BY <1>1 DEF TypeOK, Queued, Buffered
<1>3. \A k \in DOMAIN output : output[k] \in Seq(Data)
  BY DEF TypeOK
<1>4. Sent \subseteq Data
  BY <1>1, <1>3 DEF Sent
<1>5. Forwarded \subseteq Data \cup {Tombstone}
  BY DEF TypeOK, Forwarded
<1>6. \A w \in Workers : Range(held[w]) \subseteq Data
  BY <1>1 DEF TypeOK
<1> QED
  BY <1>2, <1>4, <1>5, <1>6 DEF Upstream

(* Nothing is read and nothing is on its way. *)
LEMMA InitInv == Init => IInv
<1> SUFFICES ASSUME Init PROVE IInv
  OBVIOUS
<1> USE LoaderAssumption, DataFacts, EmptyContents DEF Init
<1>1. Forwarded = {} /\ Queued = {} /\ Buffered = {} /\ Sent = {} /\ Upstream = {}
  BY DEF Forwarded, Queued, Buffered, Sent, Upstream
<1>2. TypeOK
  BY DEF TypeOK, ParserClosed, Sending, Tombstone
<1>3. Apart
  BY <1>1 DEF Apart, OutputApart, HeldApart
<1>4. Unpublished /\ Conserved
  BY <1>1 DEF Unpublished, Conserved
<1>5. TombstoneLast
  BY <1>1 DEF TombstoneLast
<1>6. BufferAsStep /\ EndsInOrder
  BY DEF BufferAsStep, EndsInOrder
<1> QED
  BY <1>2, <1>3, <1>4, <1>5, <1>6 DEF IInv

-----------------------------------------------------------------------------
(* The parser and the forwarder.                                             *)

(* The parser moves past lines that become no message. *)
LEMMA ParserInv ==
  ASSUME IInv, BadLine \/ LongLine \/ ParserEnds
  PROVE  IInv'
<1>1. /\ UNCHANGED <<forwarder, batchInput, batcher, messages, output, held, worker, published,
                     dropped, readers, ctx, main>>
      /\ line' \in 1..ParserClosed /\ line' > line
      /\ \A i \in Data : i < line' => i < line
  <2> USE LoaderAssumption DEF IInv, TypeOK, batching, publishing, ending, ParserClosed, EndOfInput
  <2>1. CASE BadLine
    BY <2>1 DEF BadLine, Data
  <2>2. CASE LongLine
    BY <2>2 DEF LongLine, Data
  <2>3. CASE ParserEnds
    BY <2>3 DEF ParserEnds, Data
  <2> QED
    BY <2>1, <2>2, <2>3
<1>2. /\ Forwarded' = Forwarded /\ Queued' = Queued /\ Buffered' = Buffered /\ Sent' = Sent
      /\ Upstream' = Upstream /\ Apart'
  <2>1. Forwarded' = Forwarded
    BY <1>1 DEF Forwarded
  <2> QED
    BY <1>1, <2>1, SamePlaces DEF IInv
<1>3. TypeOK'
  BY <1>1 DEF IInv, TypeOK
<1>4. Unpublished'
  <2>1. line \in Nat /\ line' \in Nat /\ Unpublished /\ TypeOK
    BY <1>1, DataFacts DEF IInv, TypeOK, ParserClosed
  <2>2. \A i \in Data : (i < line => i < line') /\ (i >= line' => i >= line)
    BY <1>1, <2>1, DataFacts
  <2>3. /\ Upstream' = Upstream /\ held' = held /\ published' = published
        /\ Upstream \ {Tombstone} \subseteq Data
        /\ \A w \in Workers : Range(held[w]) \subseteq Data
    BY <1>1, <1>2, <2>1, PlacesHoldData
  <2> QED
    BY <2>1, <2>2, <2>3 DEF Unpublished
<1>5. TombstoneLast'
  BY <1>1, <1>2, DataFacts DEF IInv, TypeOK, TombstoneLast, EndOfInput
<1>6. BufferAsStep'
  BY <1>1 DEF IInv, BufferAsStep
<1>7. EndsInOrder'
  BY <1>1, DataFacts DEF IInv, TypeOK, EndsInOrder, Live, WorkersDone, EndOfInput, ParserClosed
<1>8. Conserved'
  BY <1>1, <1>2 DEF IInv, Conserved, Live
<1> QED
  BY <1>2, <1>3, <1>4, <1>5, <1>6, <1>7, <1>8 DEF IInv

(* The forwarder takes the message, or the tombstone, that is next: it is    *)
(* nowhere else yet.                                                         *)
LEMMA TakeInv ==
  ASSUME IInv, TakeMessage, NEW x, x = IF line = EndOfInput THEN Tombstone ELSE line,
         forwarder' = [step |-> "send", message |-> x], UNCHANGED readers
  PROVE  IInv'
<1>1. /\ UNCHANGED <<batchInput, batcher, messages, output, held, worker, published,
                     dropped, readers, ctx, main>>
      /\ line \in Data \cup {EndOfInput} /\ line' = line + 1 /\ forwarder.step = "range"
  BY DEF TakeMessage, batching, publishing
<1>2. /\ line \in Nat /\ line' \in 1..ParserClosed /\ line <= EndOfInput /\ EndOfInput \in Nat
      /\ x \in Data \cup {Tombstone}
      /\ x # Tombstone => x = line
      /\ x = Tombstone => line = EndOfInput
  BY <1>1, DataFacts DEF EndOfInput, ParserClosed
<1>3. /\ Queued' = Queued /\ Buffered' = Buffered /\ Sent' = Sent
      /\ Forwarded = {} /\ Forwarded' = {x}
  BY <1>1, SameChannels DEF Forwarded
<1>4. TypeOK /\ Apart /\ Unpublished /\ TombstoneLast
  BY DEF IInv
<1>5. x \notin Queued \cup Buffered \cup Sent /\ \A w \in Workers : x \notin Range(held[w])
  <2>1. CASE x = Tombstone
    <3>1. Tombstone \notin Queued
      BY <1>2, <1>4, <2>1 DEF TombstoneLast
    <3> QED
      BY <1>4, <2>1, <3>1, DataFacts, PlacesHoldData
  <2>2. CASE x # Tombstone
    <3>1. x = line /\ ~(line < line)
      BY <1>2, <2>2
    <3> QED
      BY <1>4, <2>2, <3>1 DEF Unpublished, Upstream
  <2> QED
    BY <2>1, <2>2
<1>6. TypeOK'
  BY <1>1, <1>2, <1>4 DEF TypeOK
<1>7. Apart'
  BY <1>1, <1>3, <1>4, <1>5, SameChannels DEF Apart, Upstream
<1>8. Unpublished'
  <2>1. \A i \in Data : (i < line => i < line') /\ (i >= line' => i >= line)
    BY <1>1, <1>2, DataFacts
  <2>2. x # Tombstone => x < line' /\ published'[x] = 0
    BY <1>1, <1>2, <1>4 DEF Unpublished
  <2>3. /\ Upstream' = Upstream \cup {x} /\ held' = held /\ published' = published
        /\ Upstream \ {Tombstone} \subseteq Data
        /\ \A w \in Workers : Range(held[w]) \subseteq Data
    BY <1>1, <1>3, <1>4, PlacesHoldData DEF Upstream
  <2> QED
    BY <1>4, <2>1, <2>2, <2>3 DEF Unpublished
<1>9. TombstoneLast'
  <2>1. Tombstone \notin Queued
    BY <1>2, <1>4 DEF TombstoneLast
  <2> QED
    BY <1>1, <1>2, <1>3, <1>4, <2>1 DEF TombstoneLast
<1>10. BufferAsStep'
  BY <1>1 DEF IInv, BufferAsStep
<1>11. EndsInOrder'
  <2>1. ~(line > EndOfInput) /\ EndsInOrder
    BY <1>2 DEF IInv
  <2> QED
    BY <1>1, <2>1 DEF EndsInOrder, Live, WorkersDone
<1>12. Conserved'
  <2>1. \A i \in Data : i < line' => i < line \/ i = x
    BY <1>1, <1>2, DataFacts
  <2>2. Upstream' = Upstream \cup {x} /\ Conserved
    BY <1>3 DEF Upstream, IInv
  <2> QED
    BY <1>1, <2>1, <2>2 DEF Conserved, Live
<1> QED
  BY <1>6, <1>7, <1>8, <1>9, <1>10, <1>11, <1>12 DEF IInv

(* The forwarder puts its message into batchInput. *)
LEMMA ForwardInv ==
  ASSUME IInv, ForwardMessage
  PROVE  IInv'
<1> DEFINE x == forwarder.message
<1>1. /\ UNCHANGED <<line, batcher, messages, output, held, worker, published,
                     dropped, readers, ctx, main>>
      /\ forwarder.step = "send" /\ batchInput' = Append(batchInput, x)
      /\ forwarder' = [step |-> "range", message |-> Tombstone]
  BY DEF ForwardMessage, batching, publishing, ending
<1>2. TypeOK /\ Apart /\ Unpublished /\ TombstoneLast /\ EndsInOrder /\ Conserved
  BY DEF IInv
<1>3. /\ Forwarded = {x} /\ x \in Data \cup {Tombstone} /\ x \notin Queued
      /\ Tombstone \notin Queued
  BY <1>1, <1>2 DEF TypeOK, Forwarded, Apart, TombstoneLast
<1>4. /\ batchInput' \in Seq(Data \cup {Tombstone}) /\ Queued' = Queued \cup {x}
      /\ IsInjective(batchInput')
  BY <1>1, <1>2, <1>3, SendContents DEF TypeOK, Queued, Apart
<1>5. /\ Forwarded' = {} /\ Buffered' = Buffered /\ Sent' = Sent /\ Upstream' = Upstream
  BY <1>1, <1>3, <1>4 DEF Forwarded, Buffered, Sent, Upstream
<1>6. TypeOK'
  BY <1>1, <1>2, <1>4 DEF TypeOK
<1>7. Apart'
  <2>1. OutputApart' /\ HeldApart'
    BY <1>1, <1>2 DEF Apart, OutputApart, HeldApart
  <2> QED
    BY <1>1, <1>2, <1>3, <1>4, <1>5, <2>1 DEF Apart
<1>8. Unpublished' /\ Conserved'
  BY <1>1, <1>2, <1>5 DEF Unpublished, Conserved, Live
<1>9. TombstoneLast'
  <2>1. ASSUME NEW k \in DOMAIN batchInput', batchInput'[k] = Tombstone
        PROVE  k = Len(batchInput')
    BY <1>1, <1>2, <1>3, <2>1 DEF TypeOK, Queued, Range
  <2>2. Tombstone \in Queued' => line > EndOfInput
    BY <1>2, <1>3, <1>4 DEF TombstoneLast
  <2> QED
    BY <1>1, <1>2, <1>5, <2>1, <2>2 DEF TombstoneLast
<1>10. BufferAsStep'
  BY <1>1 DEF IInv, BufferAsStep
<1>11. EndsInOrder'
  BY <1>1, <1>2 DEF EndsInOrder, Live, WorkersDone
<1> QED
  BY <1>6, <1>7, <1>8, <1>9, <1>10, <1>11 DEF IInv

(* The forwarder leaves: without a signal, only once the parser is done. *)
LEMMA ForwarderExitInv ==
  ASSUME IInv, TakeMessage \/ ForwarderEnds, ForwarderExits
  PROVE  IInv'
<1>1. /\ UNCHANGED <<batchInput, batcher, messages, output, held, worker, published,
                     dropped, ctx, main>>
      /\ forwarder' = [step |-> "exited", message |-> Tombstone]
      /\ readers' = readers \ {"forwarder"}
  BY DEF TakeMessage, ForwarderEnds, ForwarderExits, batching, publishing, ending
<1>2. TypeOK /\ Apart /\ Unpublished /\ TombstoneLast /\ EndsInOrder /\ Conserved
  BY DEF IInv
<1>3. /\ line' \in 1..ParserClosed /\ line' >= line /\ line \in Nat
  BY <1>2, DataFacts DEF TakeMessage, ForwarderEnds, TypeOK, EndOfInput, ParserClosed
<1>4. Live => forwarder.step = "range" /\ line = ParserClosed /\ line' = line
  <2>1. CASE TakeMessage
    <3>1. main = "stopping"
      BY <1>1, <2>1 DEF TakeMessage
    <3> QED
      BY <1>2, <3>1 DEF EndsInOrder
  <2>2. CASE ForwarderEnds
    BY <2>2 DEF ForwarderEnds, Live
  <2> QED
    BY <2>1, <2>2
<1>5. /\ Forwarded' = {} /\ Queued' = Queued /\ Buffered' = Buffered /\ Sent' = Sent
      /\ Upstream' \subseteq Upstream
      /\ Live => Upstream' = Upstream
  BY <1>1, <1>4 DEF Forwarded, Queued, Buffered, Sent, Upstream
<1>6. TypeOK'
  BY <1>1, <1>2, <1>3 DEF TypeOK
<1>7. Apart'
  BY <1>1, <1>2, <1>5, SameChannels DEF Apart
<1>8. Unpublished'
  <2>1. \A i \in Data : (i < line => i < line') /\ (i >= line' => i >= line)
    BY <1>3, DataFacts DEF ParserClosed
  <2>2. /\ Upstream' \subseteq Upstream /\ held' = held /\ published' = published
        /\ Upstream \ {Tombstone} \subseteq Data
        /\ \A w \in Workers : Range(held[w]) \subseteq Data
    BY <1>1, <1>2, <1>5, PlacesHoldData
  <2> QED
    BY <1>2, <2>1, <2>2 DEF Unpublished
<1>9. TombstoneLast'
  <2>1. line > EndOfInput => line' > EndOfInput
    BY <1>3, DataFacts DEF EndOfInput, ParserClosed
  <2> QED
    BY <1>1, <1>2, <1>5, <2>1 DEF TombstoneLast
<1>10. BufferAsStep'
  BY <1>1 DEF IInv, BufferAsStep
<1>11. EndsInOrder'
  <2>1. main = "exited" => ~Live \/ readers = {}
    BY <1>2 DEF EndsInOrder
  <2> QED
    BY <1>1, <1>2, <1>4, <2>1 DEF EndsInOrder, Live, WorkersDone
<1>12. Conserved'
  BY <1>1, <1>2, <1>4, <1>5 DEF Conserved, Live
<1> QED
  BY <1>6, <1>7, <1>8, <1>9, <1>10, <1>11, <1>12 DEF IInv

(* The reader keeps the invariant. *)
LEMMA ReadInv ==
  ASSUME IInv, ReadStep
  PROVE  IInv'
<1>1. CASE TakeMessage
  BY <1>1, TakeInv, ForwarderExitInv DEF TakeMessage
<1>2. CASE ForwarderEnds
  BY <1>2, ForwarderExitInv DEF ForwarderEnds
<1> QED
  BY <1>1, <1>2, ParserInv, ForwardInv DEF ReadStep

-----------------------------------------------------------------------------
(* The batcher.                                                              *)

(* The batcher takes a decision and moves nothing. *)
LEMMA DecideInv ==
  ASSUME IInv, BatcherCancelled \/ InputEnds \/ TimerFires
  PROVE  IInv'
<1>1. /\ UNCHANGED <<line, forwarder, batchInput, messages, output, held, worker, published,
                     dropped, readers, ctx, main>>
      /\ batcher = "collect"
  BY DEF BatcherCancelled, InputEnds, TimerFires, reading, publishing, ending
<1>2. TypeOK /\ Apart /\ Unpublished /\ TombstoneLast /\ EndsInOrder /\ Conserved /\ BufferAsStep
  BY DEF IInv
<1>3. /\ Forwarded' = Forwarded /\ Queued' = Queued /\ Buffered' = Buffered /\ Sent' = Sent
      /\ Upstream' = Upstream /\ Apart'
  <2>1. Forwarded' = Forwarded
    BY <1>1 DEF Forwarded
  <2> QED
    BY <1>1, <1>2, <2>1, SamePlaces
<1>4. /\ batcher' \in {"send", "send-tombstone", "send-close"} => messages # <<>>
      /\ batcher' \in {"tombstone", "closed"} => messages = <<>>
      /\ batcher' \in Sending \cup {"closed"}
  BY DEF BatcherCancelled, InputEnds, TimerFires, Flush, Sending
<1>5. Live /\ batcher' # "send" => batchInput = <<>> /\ forwarder.step # "send" /\ line > EndOfInput
  BY <1>2, DataFacts DEF BatcherCancelled, InputEnds, TimerFires, InputClosed, EndsInOrder, Live,
     ParserClosed, EndOfInput
<1>6. TypeOK'
  BY <1>1, <1>2, <1>4 DEF TypeOK
<1>7. Unpublished' /\ Conserved'
  BY <1>1, <1>2, <1>3 DEF Unpublished, Conserved, Live
<1>8. TombstoneLast'
  BY <1>1, <1>2, <1>3 DEF TombstoneLast
<1>9. BufferAsStep'
  BY <1>1, <1>2, <1>4 DEF BufferAsStep
<1>10. EndsInOrder'
  BY <1>1, <1>2, <1>5 DEF EndsInOrder, Live, WorkersDone
<1> QED
  BY <1>3, <1>6, <1>7, <1>8, <1>9, <1>10 DEF IInv

(* The tombstone arrives: nothing is behind it. *)
LEMMA ReceiveTombstoneInv ==
  ASSUME IInv, ReceiveTombstone
  PROVE  IInv'
<1>1. /\ UNCHANGED <<line, forwarder, messages, output, held, worker, published,
                     dropped, readers, ctx, main>>
      /\ batcher = "collect" /\ batchInput # <<>> /\ Head(batchInput) = Tombstone
      /\ batchInput' = Tail(batchInput)
      /\ batcher' = IF messages = <<>> THEN "tombstone" ELSE "send-tombstone"
  BY DEF ReceiveTombstone, Flush, reading, publishing, ending
<1>2. TypeOK /\ Apart /\ Unpublished /\ TombstoneLast /\ EndsInOrder /\ Conserved /\ BufferAsStep
  BY DEF IInv
<1>3. /\ Tombstone \in Queued /\ line > EndOfInput /\ forwarder.step # "send"
  BY <1>1, <1>2, ReceiveContents DEF TypeOK, Queued, TombstoneLast
<1>4. batchInput' = <<>>
  <2>1. 1 \in DOMAIN batchInput /\ batchInput[1] = Tombstone
    BY <1>1, <1>2 DEF TypeOK
  <2>2. Len(batchInput) = 1
    BY <1>2, <2>1 DEF TombstoneLast
  <2>3. Tail(batchInput) \in Seq(Data \cup {Tombstone}) /\ Len(Tail(batchInput)) = 0
    BY <1>1, <1>2, <2>2, HeadTailProperties DEF TypeOK
  <2> QED
    BY <1>1, <2>3, EmptySeq
<1>5. /\ Forwarded' = Forwarded /\ Queued' = {} /\ Buffered' = Buffered /\ Sent' = Sent
      /\ Queued = {Tombstone}
  <2>1. Range(batchInput) = Range(Tail(batchInput)) \cup {Head(batchInput)}
    BY <1>1, <1>2, ReceiveContents DEF TypeOK
  <2> QED
    BY <1>1, <1>4, <2>1, EmptyContents DEF Forwarded, Queued, Buffered, Sent
<1>6. Upstream' \subseteq Upstream /\ Upstream \subseteq Upstream' \cup {Tombstone}
  BY <1>5 DEF Upstream
<1>7. TypeOK'
  BY <1>1, <1>2, <1>4, EmptyContents DEF TypeOK, Sending
<1>8. Apart'
  <2>1. OutputApart' /\ HeldApart'
    BY <1>1, <1>2 DEF Apart, OutputApart, HeldApart
  <2> QED
    BY <1>1, <1>2, <1>4, <1>5, <1>6, <2>1, EmptyContents DEF Apart
<1>9. Unpublished' /\ Conserved'
  BY <1>1, <1>2, <1>6, DataFacts DEF Unpublished, Conserved, Live
<1>10. TombstoneLast'
  BY <1>1, <1>2, <1>3, <1>4, <1>5 DEF TombstoneLast
<1>11. BufferAsStep'
  BY <1>1, <1>2 DEF BufferAsStep
<1>12. EndsInOrder'
  BY <1>1, <1>2, <1>3, <1>4 DEF EndsInOrder, Live, WorkersDone
<1> QED
  BY <1>7, <1>8, <1>9, <1>10, <1>11, <1>12 DEF IInv

(* A message goes from batchInput into the buffer. *)
LEMMA ReceiveMessageInv ==
  ASSUME IInv, ReceiveMessage
  PROVE  IInv'
<1> DEFINE x == Head(batchInput)
<1>1. /\ UNCHANGED <<line, forwarder, output, held, worker, published,
                     dropped, readers, ctx, main>>
      /\ batcher = "collect" /\ batchInput # <<>> /\ x # Tombstone
      /\ batchInput' = Tail(batchInput)
      /\ messages' = Append(messages, x)
      /\ batcher' \in {"send", "collect"}
  BY DEF ReceiveMessage, reading, publishing, ending
<1>2. TypeOK /\ Apart /\ Unpublished /\ TombstoneLast /\ EndsInOrder /\ Conserved /\ BufferAsStep
  BY DEF IInv
<1>3. /\ x \in Data /\ batchInput' \in Seq(Data \cup {Tombstone})
      /\ Queued = Queued' \cup {x} /\ x \notin Queued' /\ IsInjective(batchInput')
  BY <1>1, <1>2, ReceiveContents DEF TypeOK, Queued, Apart
<1>4. /\ messages' \in Seq(Data) /\ Buffered' = Buffered \cup {x} /\ IsInjective(messages')
  <2>1. x \notin Range(messages)
    BY <1>2, <1>3 DEF Apart, Buffered
  <2> QED
    BY <1>1, <1>2, <1>3, <2>1, SendContents DEF TypeOK, Buffered, Apart
<1>5. messages' # <<>>
  BY <1>3, <1>4, EmptyContents DEF Buffered
<1>6. Forwarded' = Forwarded /\ Sent' = Sent /\ Upstream' = Upstream
  BY <1>1, <1>3, <1>4 DEF Forwarded, Sent, Upstream
<1>7. TypeOK'
  BY <1>1, <1>2, <1>3, <1>4 DEF TypeOK, Sending
<1>8. Apart'
  <2>1. OutputApart' /\ HeldApart'
    BY <1>1, <1>2 DEF Apart, OutputApart, HeldApart
  <2> QED
    BY <1>1, <1>2, <1>3, <1>4, <1>6, <2>1 DEF Apart
<1>9. Unpublished' /\ Conserved'
  BY <1>1, <1>2, <1>6 DEF Unpublished, Conserved, Live
<1>10. TombstoneLast'
  <2>1. ASSUME NEW k \in DOMAIN batchInput', batchInput'[k] = Tombstone
        PROVE  k = Len(batchInput')
    <3>1. /\ Len(batchInput) \in Nat /\ DOMAIN batchInput = 1..Len(batchInput)
          /\ Len(batchInput') = Len(batchInput) - 1 /\ DOMAIN batchInput' = 1..Len(batchInput')
          /\ batchInput'[k] = batchInput[k + 1]
      BY <1>1, <1>2, <1>3, <2>1, HeadTailProperties DEF TypeOK
    <3>2. k + 1 = Len(batchInput)
      BY <1>2, <2>1, <3>1 DEF TombstoneLast
    <3> QED
      BY <2>1, <3>1, <3>2
  <2> QED
    BY <1>1, <1>2, <1>3, <1>6, <2>1 DEF TombstoneLast
<1>11. BufferAsStep'
  BY <1>1, <1>2, <1>5 DEF BufferAsStep
<1>12. EndsInOrder'
  BY <1>1, <1>2 DEF EndsInOrder, Live, WorkersDone
<1> QED
  BY <1>7, <1>8, <1>9, <1>10, <1>11, <1>12 DEF IInv

(* The buffer becomes a batch of the output. *)
LEMMA SendBatchInv ==
  ASSUME IInv, SendBatch
  PROVE  IInv'
<1>1. /\ UNCHANGED <<line, forwarder, batchInput, held, worker, published,
                     dropped, readers, ctx, main>>
      /\ batcher \in {"send", "send-tombstone", "send-close"}
      /\ output' = Append(output, messages) /\ messages' = <<>>
      /\ batcher' = AfterSend(batcher)
  BY DEF SendBatch, Sending, reading, publishing, ending
<1>2. TypeOK /\ Apart /\ Unpublished /\ TombstoneLast /\ EndsInOrder /\ Conserved /\ BufferAsStep
  BY DEF IInv
<1>3. /\ batcher' \in {"collect", "tombstone", "closed"}
      /\ batcher' # "collect" => batcher \in {"send-tombstone", "send-close"}
  BY <1>1 DEF AfterSend
<1>4. output' \in Seq(Seq(Data)) /\ Sent' = Sent \cup Buffered /\ OutputApart'
  <2>1. messages \in Seq(Data) /\ Range(messages) \cap Sent = {} /\ IsInjective(messages)
    BY <1>2 DEF TypeOK, Apart, Buffered
  <2> QED
    BY <1>1, <1>2, <2>1, SendBatchContents DEF TypeOK, Apart, Buffered
<1>5. /\ Forwarded' = Forwarded /\ Queued' = Queued /\ Buffered' = {} /\ Upstream' = Upstream
  BY <1>1, <1>4, EmptyContents DEF Forwarded, Queued, Buffered, Upstream
<1>6. TypeOK'
  BY <1>1, <1>2, <1>3, <1>4, EmptyContents DEF TypeOK, Sending
<1>7. Apart'
  <2>1. HeldApart'
    BY <1>1, <1>2 DEF Apart, HeldApart
  <2> QED
    BY <1>1, <1>2, <1>4, <1>5, <2>1, EmptyContents DEF Apart
<1>8. Unpublished' /\ Conserved'
  BY <1>1, <1>2, <1>5 DEF Unpublished, Conserved, Live
<1>9. TombstoneLast'
  <2>1. \A k \in DOMAIN output' : output'[k] # TombstoneBatch
    <3>1. messages # TombstoneBatch /\ \A k \in DOMAIN output : output[k] # TombstoneBatch
      BY <1>1, <1>2 DEF BufferAsStep, TombstoneLast, TombstoneBatch
    <3> QED
      BY <1>1, <1>2, <3>1 DEF TypeOK
  <2> QED
    BY <1>1, <1>2, <1>5, <2>1 DEF TombstoneLast
<1>10. BufferAsStep'
  BY <1>1, <1>2, <1>3 DEF BufferAsStep
<1>11. EndsInOrder'
  BY <1>1, <1>2, <1>3 DEF EndsInOrder, Live, WorkersDone
<1> QED
  BY <1>6, <1>7, <1>8, <1>9, <1>10, <1>11 DEF IInv

(* The tombstone is sent on: the last batch of the output. *)
LEMMA SendTombstoneInv ==
  ASSUME IInv, SendTombstone
  PROVE  IInv'
<1>1. /\ UNCHANGED <<line, forwarder, batchInput, messages, held, worker, published,
                     dropped, readers, ctx, main>>
      /\ batcher = "tombstone" /\ batcher' = "closed" /\ output' = Append(output, <<>>)
  BY DEF SendTombstone, AfterSend, TombstoneBatch, reading, publishing, ending
<1>2. TypeOK /\ Apart /\ Unpublished /\ TombstoneLast /\ EndsInOrder /\ Conserved /\ BufferAsStep
  BY DEF IInv
<1>3. output' \in Seq(Seq(Data)) /\ Sent' = Sent /\ OutputApart'
  <2>1. PICK b \in Seq(Data) : b = <<>>
    BY EmptyContents
  <2>2. Range(b) = {} /\ IsInjective(b) /\ output' = Append(output, b)
    BY <1>1, <2>1, EmptyContents
  <2>3. output' \in Seq(Seq(Data)) /\ Sent' = Sent \cup Range(b) /\ OutputApart'
    BY <1>2, <2>2, SendBatchContents DEF TypeOK, Apart
  <2> QED
    BY <2>2, <2>3
<1>4. /\ Forwarded' = Forwarded /\ Queued' = Queued /\ Buffered' = Buffered /\ Upstream' = Upstream
  BY <1>1, <1>3 DEF Forwarded, Queued, Buffered, Upstream
<1>5. TypeOK'
  BY <1>1, <1>2, <1>3 DEF TypeOK
<1>6. Apart'
  <2>1. HeldApart'
    BY <1>1, <1>2 DEF Apart, HeldApart
  <2> QED
    BY <1>1, <1>2, <1>3, <1>4, <2>1 DEF Apart
<1>7. Unpublished' /\ Conserved'
  BY <1>1, <1>2, <1>4 DEF Unpublished, Conserved, Live
<1>8. TombstoneLast'
  <2>1. ASSUME NEW k \in DOMAIN output', output'[k] = TombstoneBatch PROVE k = Len(output')
    <3>1. \A j \in DOMAIN output : output[j] # TombstoneBatch
      BY <1>1, <1>2 DEF TombstoneLast
    <3> QED
      BY <1>1, <1>2, <2>1, <3>1 DEF TypeOK
  <2> QED
    BY <1>1, <1>2, <1>4, <2>1 DEF TombstoneLast
<1>9. BufferAsStep'
  BY <1>1, <1>2 DEF BufferAsStep
<1>10. EndsInOrder'
  BY <1>1, <1>2 DEF EndsInOrder, Live, WorkersDone
<1> QED
  BY <1>5, <1>6, <1>7, <1>8, <1>9, <1>10 DEF IInv

(* The batcher keeps the invariant. *)
LEMMA BatcherInv ==
  ASSUME IInv, BatcherStep
  PROVE  IInv'
BY DecideInv, ReceiveTombstoneInv, ReceiveMessageInv, SendBatchInv, SendTombstoneInv
DEF BatcherStep

-----------------------------------------------------------------------------
(* A publisher.                                                              *)

(* It takes a batch, or the tombstone behind the last one. *)
LEMMA ReceiveBatchInv ==
  ASSUME IInv, NEW w \in Workers, ReceiveBatch(w)
  PROVE  IInv'
<1> DEFINE b == Head(output)
<1>1. /\ UNCHANGED <<line, forwarder, batchInput, batcher, messages, published,
                     dropped, readers, ctx, main>>
      /\ worker[w] = "idle" /\ output # <<>> /\ output' = Tail(output)
  BY DEF ReceiveBatch, reading, batching, ending
<1>2. TypeOK /\ Apart /\ Unpublished /\ TombstoneLast /\ EndsInOrder /\ Conserved /\ BufferAsStep
  BY DEF IInv
<1>3. /\ b \in Seq(Data) /\ output' \in Seq(Seq(Data)) /\ IsInjective(b) /\ OutputApart'
      /\ Sent = Sent' \cup Range(b) /\ Sent' \cap Range(b) = {}
  BY <1>1, <1>2, ReceiveBatchContents DEF TypeOK, Apart
<1>4. /\ Forwarded' = Forwarded /\ Queued' = Queued /\ Buffered' = Buffered
      /\ Upstream = Upstream' \cup Range(b)
  BY <1>1, <1>3 DEF Forwarded, Queued, Buffered, Upstream
<1>5. Upstream' \cap Range(b) = {}
  BY <1>2, <1>3, <1>4 DEF Apart, Upstream
<1>6. /\ Len(output) \in Nat /\ DOMAIN output = 1..Len(output) /\ 1 \in DOMAIN output
      /\ b = output[1] /\ Len(output') = Len(output) - 1 /\ DOMAIN output' = 1..Len(output')
      /\ \A k \in DOMAIN output' : output'[k] = output[k + 1] /\ k + 1 \in DOMAIN output
  BY <1>1, <1>2, <1>3, HeadTailProperties DEF TypeOK
<1>7. TombstoneLast'
  <2>1. ASSUME NEW k \in DOMAIN output', output'[k] = TombstoneBatch
        PROVE  k = Len(output') /\ batcher = "closed"
    <3>1. k + 1 = Len(output) /\ batcher = "closed"
      BY <1>2, <1>6, <2>1 DEF TombstoneLast
    <3> QED
      BY <1>6, <3>1
  <2> QED
    BY <1>1, <1>2, <1>4, <2>1 DEF TombstoneLast
<1>8. CASE b = TombstoneBatch
  <2>1. /\ worker' = [worker EXCEPT ![w] = "exited"] /\ held' = held
    BY <1>8 DEF ReceiveBatch
  <2>2. batcher = "closed" /\ output' = <<>>
    <3>1. Len(output) = 1 /\ batcher = "closed"
      BY <1>2, <1>6, <1>8 DEF TombstoneLast
    <3> QED
      BY <1>3, <1>6, <3>1, EmptySeq
  <2>3. Sent' = Sent /\ Upstream' = Upstream
    BY <1>3, <1>4, <1>8, EmptyContents DEF TombstoneBatch
  <2>4. TypeOK'
    BY <1>1, <1>2, <1>3, <2>1 DEF TypeOK
  <2>5. Apart'
    <3>1. HeldApart'
      BY <1>2, <2>1 DEF Apart, HeldApart
    <3> QED
      BY <1>1, <1>2, <1>3, <1>4, <2>1, <2>3, <3>1 DEF Apart
  <2>6. Unpublished' /\ Conserved'
    BY <1>1, <1>2, <2>1, <2>3 DEF Unpublished, Conserved, Live
  <2>7. BufferAsStep'
    BY <1>1, <1>2, <2>1 DEF BufferAsStep, TypeOK
  <2>8. EndsInOrder'
    BY <1>1, <1>2, <2>1, <2>2 DEF EndsInOrder, Live, WorkersDone, TypeOK
  <2> QED
    BY <1>7, <2>4, <2>5, <2>6, <2>7, <2>8 DEF IInv
<1>9. CASE b # TombstoneBatch
  <2>1. /\ worker' = [worker EXCEPT ![w] = "publishing"] /\ held' = [held EXCEPT ![w] = b]
    BY <1>9 DEF ReceiveBatch
  <2>2. /\ held' \in [Workers -> Seq(Data)] /\ held'[w] = b
        /\ \A v \in Workers \ {w} : held'[v] = held[v]
        /\ worker' \in [Workers -> {"idle", "publishing", "exited"}]
        /\ worker'[w] = "publishing" /\ \A v \in Workers \ {w} : worker'[v] = worker[v]
    BY <1>2, <1>3, <2>1 DEF TypeOK
  <2>3. held[w] = <<>>
    BY <1>1, <1>2 DEF BufferAsStep
  <2>4. TypeOK'
    BY <1>1, <1>2, <1>3, <2>2 DEF TypeOK
  <2>5. Apart'
    <3>1. \A v \in Workers : Range(held[v]) \cap Range(b) = {}
      BY <1>2, <1>4 DEF Apart
    <3>2. HeldApart'
      BY <1>2, <1>3, <2>2, <3>1 DEF Apart, HeldApart
    <3>3. \A v \in Workers : Upstream' \cap Range(held'[v]) = {}
      BY <1>2, <1>4, <1>5, <2>2 DEF Apart
    <3>4. (Forwarded' \cup Queued' \cup Buffered') \cap Sent' = {}
      BY <1>2, <1>3, <1>4 DEF Apart
    <3> QED
      BY <1>1, <1>2, <1>3, <1>4, <3>2, <3>3, <3>4 DEF Apart
  <2>6. Unpublished'
    <3>1. \A i \in Range(b) : i < line /\ published[i] = 0
      BY <1>2, <1>3, <1>4, DataFacts, PlacesHoldData DEF Unpublished, Upstream
    <3> QED
      BY <1>1, <1>2, <1>4, <2>2, <3>1 DEF Unpublished
  <2>7. Conserved'
    <3>1. \A i : (\E v \in Workers : i \in Range(held[v])) => \E v \in Workers : i \in Range(held'[v])
      BY <2>2, <2>3, EmptyContents
    <3>2. \A i \in Upstream : i \in Upstream' \/ \E v \in Workers : i \in Range(held'[v])
      BY <1>4, <2>2
    <3> QED
      BY <1>1, <1>2, <3>1, <3>2 DEF Conserved, Live
  <2>8. BufferAsStep'
    BY <1>1, <1>2, <2>2 DEF BufferAsStep
  <2>9. EndsInOrder'
    BY <1>1, <1>2, <2>2 DEF EndsInOrder, Live, WorkersDone
  <2> QED
    BY <1>7, <2>4, <2>5, <2>6, <2>7, <2>8, <2>9 DEF IInv
<1> QED
  BY <1>8, <1>9

(* It is done with the first message of its batch, which it published, and   *)
(* goes on with the others, or with none.                                    *)
LEMMA DoneWithHead ==
  ASSUME IInv, NEW w \in Workers, held[w] # <<>>, NEW rest \in Seq(Data),
         IsInjective(rest), Range(rest) \subseteq Range(held[w]) \ {Head(held[w])},
         held' = [held EXCEPT ![w] = rest],
         \/ UNCHANGED published
         \/ published' = [published EXCEPT ![Head(held[w])] = @ + 1],
         UNCHANGED <<line, forwarder, batchInput, messages, output>>
  PROVE  /\ held' \in [Workers -> Seq(Data)] /\ published' \in [Data -> {0, 1}]
         /\ held'[w] = rest /\ \A v \in Workers \ {w} : held'[v] = held[v]
         /\ \A i \in Data : published[i] = 1 => published'[i] = 1
         /\ Upstream' = Upstream /\ Queued' = Queued
         /\ Forwarded' = Forwarded /\ Apart' /\ Unpublished'
<1> DEFINE x == Head(held[w])
<1>1. TypeOK /\ Apart /\ Unpublished
  BY DEF IInv
<1>2. /\ held' \in [Workers -> Seq(Data)]
      /\ held'[w] = rest /\ \A v \in Workers \ {w} : held'[v] = held[v]
  BY <1>1 DEF TypeOK
<1>3. x \in Data /\ x \in Range(held[w])
  BY <1>1, ReceiveContents DEF TypeOK
<1>4. x < line /\ published[x] = 0
  BY <1>1, <1>3 DEF Unpublished
<1>5. /\ published' \in [Data -> {0, 1}]
      /\ \A i \in Data : i # x => published'[i] = published[i]
      /\ \A i \in Data : published[i] = 1 => published'[i] = 1
  <2>1. published \in [Data -> {0, 1}]
    BY <1>1 DEF TypeOK
  <2>2. published' = published \/ published' = [published EXCEPT ![x] = 1]
    <3>1. published[x] + 1 = 1
      BY <1>4
    <3> QED
      BY <3>1
  <2> QED
    BY <1>3, <1>4, <2>1, <2>2
<1>6. /\ Queued' = Queued /\ Buffered' = Buffered /\ Sent' = Sent /\ Forwarded' = Forwarded
      /\ Upstream' = Upstream
  BY DEF Queued, Buffered, Sent, Forwarded, Upstream
<1>7. \A v \in Workers : Range(held'[v]) \subseteq Range(held[v])
  BY <1>2
<1>8. Apart'
  <2>1. OutputApart'
    BY <1>1 DEF Apart, OutputApart
  <2>2. HeldApart'
    BY <1>1, <1>2, <1>7 DEF Apart, HeldApart
  <2>3. \A v \in Workers : Upstream' \cap Range(held'[v]) = {}
    BY <1>1, <1>6, <1>7 DEF Apart
  <2> QED
    BY <1>1, <1>6, <2>1, <2>2, <2>3 DEF Apart
<1>9. Unpublished'
  <2>1. /\ Upstream \ {Tombstone} \subseteq Data
        /\ \A v \in Workers : Range(held[v]) \subseteq Data
    BY <1>1, PlacesHoldData
  <2>2. x \notin Upstream /\ \A v \in Workers : x \notin Range(held'[v])
    BY <1>1, <1>2, <1>3 DEF Apart, HeldApart
  <2>3. \A i \in Data : i >= line => i # x
    BY <1>1, <1>3, <1>4, DataFacts DEF TypeOK, ParserClosed
  <2>4. \A i \in Upstream' \ {Tombstone} : i < line' /\ published'[i] = 0
    BY <1>1, <1>5, <1>6, <2>1, <2>2 DEF Unpublished
  <2>5. \A v \in Workers : \A i \in Range(held'[v]) : i < line' /\ published'[i] = 0
    BY <1>1, <1>5, <1>7, <2>1, <2>2 DEF Unpublished
  <2>6. \A i \in Data : i >= line' => published'[i] = 0
    BY <1>1, <1>5, <2>3 DEF Unpublished
  <2> QED
    BY <2>4, <2>5, <2>6 DEF Unpublished
<1> QED
  BY <1>2, <1>5, <1>6, <1>8, <1>9

(* A publisher keeps the invariant when its batch is published or fails. *)
LEMMA PublishInv ==
  ASSUME IInv, NEW w \in Workers, Publish(w)
  PROVE  IInv'
<1> DEFINE x == Head(held[w])
<1>1. /\ UNCHANGED <<line, forwarder, batchInput, batcher, messages, output, worker,
                     dropped, readers, ctx, main>>
      /\ worker[w] = "publishing" /\ held[w] # <<>>
      /\ held' = [held EXCEPT ![w] = Tail(held[w])]
      /\ published' = [published EXCEPT ![x] = @ + 1]
  BY DEF Publish, reading, batching, ending
<1>2. TypeOK /\ Apart /\ Unpublished /\ TombstoneLast /\ EndsInOrder /\ Conserved /\ BufferAsStep
  BY DEF IInv
<1>3. PICK rest \in Seq(Data) : rest = Tail(held[w])
  BY <1>1, <1>2, ReceiveContents DEF TypeOK
<1>4. /\ IsInjective(rest) /\ Range(held[w]) = Range(rest) \cup {x} /\ x \notin Range(rest)
      /\ x \in Data
  BY <1>1, <1>2, <1>3, ReceiveContents DEF TypeOK, Apart, HeldApart
<1>5. /\ held' \in [Workers -> Seq(Data)] /\ published' \in [Data -> {0, 1}]
      /\ held'[w] = rest /\ \A v \in Workers \ {w} : held'[v] = held[v]
      /\ \A i \in Data : published[i] = 1 => published'[i] = 1
      /\ Upstream' = Upstream /\ Queued' = Queued
      /\ Forwarded' = Forwarded /\ Apart' /\ Unpublished'
  BY <1>1, <1>3, <1>4, DoneWithHead
<1>6. TypeOK'
  BY <1>1, <1>2, <1>5 DEF TypeOK
<1>7. TombstoneLast'
  BY <1>1, <1>2, <1>5 DEF TombstoneLast
<1>8. BufferAsStep'
  BY <1>1, <1>2, <1>5 DEF BufferAsStep
<1>9. EndsInOrder'
  BY <1>1, <1>2 DEF EndsInOrder, Live, WorkersDone
<1>10. Conserved'
  <2>1. published'[x] = 1
    BY <1>1, <1>2, <1>4 DEF TypeOK, Unpublished
  <2>2. \A i \in Data : (\E v \in Workers : i \in Range(held[v])) =>
          i = x \/ \E v \in Workers : i \in Range(held'[v])
    BY <1>4, <1>5
  <2> QED
    BY <1>1, <1>2, <1>5, <2>1, <2>2 DEF Conserved, Live
<1> QED
  BY <1>5, <1>6, <1>7, <1>8, <1>9, <1>10 DEF IInv

(* It gives the rest of its batch up. *)
LEMMA GiveUpInv ==
  ASSUME IInv, NEW w \in Workers, GiveUp(w)
  PROVE  IInv'
<1> DEFINE x == Head(held[w])
<1>1. /\ UNCHANGED <<line, forwarder, batchInput, batcher, messages, output, readers, ctx, main>>
      /\ worker[w] = "publishing" /\ held[w] # <<>>
      /\ held' = [held EXCEPT ![w] = <<>>] /\ worker' = [worker EXCEPT ![w] = "idle"]
      /\ UNCHANGED published \/ published' = [published EXCEPT ![x] = @ + 1]
  BY DEF GiveUp, reading, batching, ending
<1>2. TypeOK /\ Apart /\ Unpublished /\ TombstoneLast /\ EndsInOrder /\ Conserved /\ BufferAsStep
  BY DEF IInv
<1>3. PICK rest \in Seq(Data) : rest = <<>>
  BY EmptyContents
<1>4. IsInjective(rest) /\ Range(rest) = {}
  BY <1>3, EmptyContents
<1>5. /\ held' \in [Workers -> Seq(Data)] /\ published' \in [Data -> {0, 1}]
      /\ held'[w] = rest /\ \A v \in Workers \ {w} : held'[v] = held[v]
      /\ \A i \in Data : published[i] = 1 => published'[i] = 1
      /\ Upstream' = Upstream /\ Queued' = Queued
      /\ Forwarded' = Forwarded /\ Apart' /\ Unpublished'
  BY <1>1, <1>3, <1>4, DoneWithHead
<1>6. dropped' = dropped \cup Range(held[w])
  BY <1>2 DEF GiveUp, TypeOK, Range
<1>7. TypeOK'
  BY <1>1, <1>2, <1>5 DEF TypeOK
<1>8. TombstoneLast'
  BY <1>1, <1>2, <1>5 DEF TombstoneLast
<1>9. BufferAsStep'
  BY <1>1, <1>2, <1>3, <1>5 DEF BufferAsStep, TypeOK
<1>10. EndsInOrder'
  BY <1>1, <1>2 DEF EndsInOrder, Live, WorkersDone, TypeOK
<1>11. Conserved'
  <2>1. \A i \in Data : (\E v \in Workers : i \in Range(held[v])) =>
          i \in dropped' \/ \E v \in Workers : i \in Range(held'[v])
    BY <1>5, <1>6
  <2> QED
    BY <1>1, <1>2, <1>5, <1>6, <2>1 DEF Conserved, Live
<1> QED
  BY <1>5, <1>7, <1>8, <1>9, <1>10, <1>11 DEF IInv

(* It finishes a batch, or leaves. *)
LEMMA PausesInv ==
  ASSUME IInv, NEW w \in Workers, WorkerExits(w) \/ BatchDone(w)
  PROVE  IInv'
<1>1. /\ UNCHANGED <<line, forwarder, batchInput, batcher, messages, output, held, published,
                     dropped, readers, ctx, main>>
      /\ worker' = [worker EXCEPT ![w] = "exited"] \/ worker' = [worker EXCEPT ![w] = "idle"]
  BY DEF WorkerExits, BatchDone, reading, batching, ending
<1>2. TypeOK /\ Apart /\ Unpublished /\ TombstoneLast /\ EndsInOrder /\ Conserved /\ BufferAsStep
  BY DEF IInv
<1>3. held[w] = <<>> /\ worker[w] # "exited"
  BY <1>2 DEF WorkerExits, BatchDone, BufferAsStep
<1>4. Live /\ worker'[w] = "exited" => batcher = "closed" /\ output = <<>>
  BY <1>2 DEF WorkerExits, BatchDone, Live, TypeOK
<1>5. /\ Forwarded' = Forwarded /\ Queued' = Queued /\ Upstream' = Upstream /\ Apart'
  <2>1. Forwarded' = Forwarded
    BY <1>1 DEF Forwarded
  <2> QED
    BY <1>1, <1>2, <2>1, SamePlaces
<1>6. TypeOK'
  BY <1>1, <1>2 DEF TypeOK
<1>7. Unpublished' /\ Conserved'
  BY <1>1, <1>2, <1>5 DEF Unpublished, Conserved, Live
<1>8. TombstoneLast'
  BY <1>1, <1>2, <1>5 DEF TombstoneLast
<1>9. BufferAsStep'
  BY <1>1, <1>2, <1>3 DEF BufferAsStep, TypeOK
<1>10. EndsInOrder'
  BY <1>1, <1>2, <1>3, <1>4 DEF EndsInOrder, Live, WorkersDone, TypeOK
<1> QED
  BY <1>5, <1>6, <1>7, <1>8, <1>9, <1>10 DEF IInv

(* A publisher keeps the invariant. *)
LEMMA WorkerInv ==
  ASSUME IInv, NEW w \in Workers, WorkerStep(w)
  PROVE  IInv'
BY ReceiveBatchInv, PublishInv, GiveUpInv, PausesInv DEF WorkerStep

-----------------------------------------------------------------------------
(* runLoader, the signal and the batch size: nothing moves. *)
LEMMA MainInv ==
  ASSUME IInv,
         Panic \/ AdjustBatchSize \/ ErrorsEnd \/ TrackerEnds \/ MainStep \/ Signal
           \/ UNCHANGED vars
  PROVE  IInv'
<1>1. UNCHANGED <<line, forwarder, batchInput, batcher, messages, output, held, worker, published,
                  dropped>>
  BY DEF Panic, AdjustBatchSize, ErrorsEnd, TrackerEnds, MainStep, MainStops, MainExits, Signal, vars,
     reading, batching, publishing, ending
<1>2. TypeOK /\ Apart /\ Unpublished /\ TombstoneLast /\ EndsInOrder /\ Conserved /\ BufferAsStep
  BY DEF IInv
<1>3. /\ Forwarded' = Forwarded /\ Queued' = Queued /\ Upstream' = Upstream /\ Apart'
  <2>1. Forwarded' = Forwarded
    BY <1>1 DEF Forwarded
  <2> QED
    BY <1>1, <1>2, <2>1, SamePlaces
<1>4. Live' => Live
  BY DEF Panic, AdjustBatchSize, ErrorsEnd, TrackerEnds, MainStep, MainStops, MainExits, Signal, vars,
     ending, Live
<1>5. TypeOK' /\ BufferAsStep'
  BY <1>1, <1>2 DEF TypeOK, BufferAsStep
<1>6. Unpublished' /\ Conserved' /\ TombstoneLast'
  BY <1>1, <1>2, <1>3, <1>4 DEF Unpublished, Conserved, TombstoneLast
<1>7. EndsInOrder'
  <2>1. Live' => main' # "stopping" /\ (main' = "exited" => readers' = {})
    BY <1>2, <1>4 DEF Panic, AdjustBatchSize, ErrorsEnd, TrackerEnds, MainStep, MainStops, MainExits,
       Signal, vars, ending, EndsInOrder, Live, Running
  <2>2. Live' /\ "tracker" \notin readers' => WorkersDone
    BY <1>2, <1>4 DEF Panic, AdjustBatchSize, ErrorsEnd, TrackerEnds, MainStep, MainStops, MainExits,
       Signal, vars, ending, EndsInOrder, Live
  <2> QED
    BY <1>1, <1>2, <1>4, <2>1, <2>2 DEF EndsInOrder, WorkersDone
<1> QED
  BY <1>3, <1>5, <1>6, <1>7 DEF IInv

-----------------------------------------------------------------------------
(* Each message the parser made is in one place at a time, and the stages    *)
(* end one after the other unless a signal ends them all.                    *)
THEOREM LoaderInvariant == Spec => []IInv
<1>1. IInv /\ [Next]_vars => IInv'
  BY ReadInv, BatcherInv, WorkerInv, MainInv DEF Next, Ended
<1> QED
  BY <1>1, InitInv, PTL DEF Spec

(* No message is published twice, for any number of publishers and any batch *)
(* sizes, also when the loader is stopped or a publish fails that JetStream  *)
(* has stored.                                                               *)
THEOREM NothingIsPublishedTwice == Spec => []PublishedOnce
<1>1. IInv => PublishedOnce
  <2>1. ASSUME IInv, NEW i \in Data PROVE published[i] = 0 \/ published[i] = 1
    BY <2>1 DEF IInv, TypeOK
  <2> QED
    BY <2>1 DEF PublishedOnce
<1> QED
  BY <1>1, LoaderInvariant, PTL

(* A load that ends by itself has published every message the parser made,   *)
(* but for those of a batch that failed: the tombstone overtakes nothing, in *)
(* no channel and past no buffer.                                            *)
THEOREM LoadsAreComplete == Spec => []LoadIsComplete
<1>1. IInv => LoadIsComplete
  <2> SUFFICES ASSUME IInv, main = "exited", Live, NEW i \in Data
               PROVE  published[i] > 0 \/ i \in dropped
    BY DEF LoadIsComplete, Live
  <2>1. WorkersDone /\ TypeOK /\ BufferAsStep /\ EndsInOrder /\ Conserved
    BY DEF IInv, EndsInOrder
  <2>2. PICK w \in Workers : worker[w] = "exited"
    BY <2>1, LoaderAssumption DEF WorkersDone
  <2>3. batcher = "closed" /\ output = <<>>
    BY <2>1, <2>2 DEF EndsInOrder
  <2>4. batchInput = <<>> /\ forwarder.step # "send" /\ line > EndOfInput /\ messages = <<>>
    BY <2>1, <2>3 DEF EndsInOrder, BufferAsStep
  <2>5. Upstream = {}
    BY <2>3, <2>4, EmptyContents DEF Upstream, Forwarded, Queued, Buffered, Sent
  <2>6. \A v \in Workers : Range(held[v]) = {}
    BY <2>1, EmptyContents DEF WorkersDone, BufferAsStep
  <2>7. i < line
    BY <2>1, <2>4, DataFacts DEF TypeOK, EndOfInput, ParserClosed
  <2> QED
    BY <2>1, <2>5, <2>6, <2>7 DEF Conserved
<1> QED
  BY <1>1, LoaderInvariant, PTL
=============================================================================
