------------------------------- MODULE Parser -------------------------------
(***************************************************************************)
(* internal/parser and internal/filter: a YAML configuration is compiled,  *)
(* and then message after message is put through its transformation steps. *)
(* The steps accumulate typed fields; a structural floor decides whether   *)
(* there is a row, explode makes rows of an array, and every output column *)
(* is filled from its field or with a null sentinel.  The row filter is    *)
(* applied to the result.                                                  *)
(*                                                                         *)
(* A field value is a pair of its Go type and a payload.  A text is a      *)
(* sequence of tokens (a name, an integer, a date, a punctuation mark),    *)
(* numbers and times are integers, and bytes are described by what they    *)
(* decode to.  A dot-path is the sequence of its segments.                 *)
(***************************************************************************)
EXTENDS Integers, Sequences, FiniteSets, SequencesExt, FiniteSetsExt, TLC

CONSTANTS
  Configs,      \* the configurations to load
  Messages(_),  \* the messages that arrive for a configuration
  Values,       \* the values that decoders find in their payloads, with their parts
  SortedKeys,   \* the keys of maps, in the order of sort.Strings
  KeyNumbers,   \* those that are integers, and their values
  MaxInt64,
  MaxBatch      \* the messages of a batch

ASSUME ParserAssumption ==
  /\ MaxInt64 \in Nat \ {0}
  /\ MaxBatch \in Nat \ {0}
  /\ DOMAIN KeyNumbers \subseteq {SortedKeys[i] : i \in 1..Len(SortedKeys)}

VARIABLES
  config,   \* the configuration at hand
  phase,    \* "load", "rejected", "ready", "step", "written"
  batch,    \* the messages of the batch parsed so far, the current one included
  next,     \* the next step of the pipeline
  state,    \* ParseState of the current or the last message
  results,  \* the ParseResults of the batch
  written   \* the tables of the batch that are pushed

vars == <<config, phase, batch, next, state, results, written>>

-----------------------------------------------------------------------------
(* Values, texts and field lookup.                                          *)

Absent == <<"absent", 0>>
Failed == <<"failed", 0>>
Nil == <<"nil", 0>>

TypeOf(value) == value[1]

Nul == <<"nul", 0>>
Dot == <<"punct", 0>>
Mark == <<"punct", 1>>

IsInt(text) == Len(text) = 1 /\ text[1][1] = "int"
IsDate(text) == Len(text) = 1 /\ text[1][1] = "date"

(* The smallest int64 is the null of its type; what no payload contains     *)
(* stands for the other nulls and for now.                                  *)
Int64Undefined == 0 - (MaxInt64 + 1)
NaN == -1000
MinTimespec == -1002
Now == -1003

Payload(kind, fields, elements, odd) ==
  [kind |-> kind, fields |-> fields, elements |-> elements, odd |-> odd]
EmptyPayload == Payload("empty", <<>>, <<>>, FALSE)

Sequence(s) == s \in Seq(ToSet(s))

(* The elements of seq at the positions K, in their order. *)
Selected(seq, K) == FlattenSeq([i \in 1..Len(seq) |-> IF i \in K THEN <<seq[i]>> ELSE <<>>])

(* The decoders make what the type says: lists and maps of values, texts,   *)
(* and bytes that are a payload of their own.                               *)
MapOfValues(fields) ==
  /\ DOMAIN fields \subseteq ToSet(SortedKeys)
  /\ \A key \in DOMAIN fields : fields[key] \in Values

Decodable(data) ==
  /\ Sequence(data.elements)
  /\ data.kind \in {"json", "proto"} => MapOfValues(data.fields)
  /\ data.kind = "gzip" => <<"bytes", data.fields.inner>> \in Values

WellTyped(value) ==
  /\ TypeOf(value) \in {"string", "floats", "ints"} => Sequence(value[2])
  /\ TypeOf(value) = "list" => value[2] \in Seq(Values)
  /\ TypeOf(value) = "map" => MapOfValues(value[2])
  /\ TypeOf(value) = "bytes" => Decodable(value[2])

ASSUME ValuesAssumption ==
  /\ Sequence(SortedKeys)
  /\ \A value \in Values : WellTyped(value)
  /\ \A c \in Configs : \A m \in Messages(c) : Decodable(m.data) /\ Sequence(m.subject)

(* int64 arithmetic. *)
Wrap(n) == ((n + MaxInt64 + 1) % (2 * (MaxInt64 + 1))) - (MaxInt64 + 1)

(* compileFieldPath: a key that is missing, or sought in what is not a map. *)
Descend(value, segment) ==
  IF TypeOf(value) = "map" /\ segment \in DOMAIN value[2] THEN value[2][segment] ELSE Absent

Lookup(fields, path) ==
  LET at[i \in 0..Len(path)] ==
        IF i = 0 THEN <<"map", fields>> ELSE Descend(at[i - 1], path[i])
  IN  at[Len(path)]

(* What a map's own index finds: the key is not a path. *)
Field(fields, path) ==
  IF Len(path) = 1 /\ path[1] \in DOMAIN fields THEN fields[path[1]] ELSE Absent

Reserved == {"$timestamp", "$table"}

(* The steps: what they make of the state, or of the error.                 *)
Ok(st) == [ok |-> TRUE, st |-> st]
Err(st) == [ok |-> FALSE, st |-> st]
Overlay(fields, over) ==
  [key \in DOMAIN fields \cup DOMAIN over |-> IF key \in DOMAIN over THEN over[key] ELSE fields[key]]
With(fields, key, value) == Overlay(fields, [k \in {key} |-> value])
Put(st, target, value) == [st EXCEPT !.fields = With(@, target, value)]
PutAll(st, fields) == [st EXCEPT !.fields = Overlay(@, fields)]

(* A step whose value is Failed or Absent reports an error. *)
Store(st, target, value) ==
  IF TypeOf(value) \in {"absent", "failed"} THEN Err(st) ELSE Ok(Put(st, target, value))

-----------------------------------------------------------------------------
(* Conversions.                                                             *)

(* fmt.Sprintf("%v"), strconv.Format*: a text for every value.  "<nil>" and *)
(* "[1 2]" begin with a mark, "true", "map[]" and a time do not.            *)
Formatted(value) ==
  CASE TypeOf(value) = "string" -> value[2]
    [] TypeOf(value) \in {"int64", "float64"} -> <<<<"int", value[2]>>>>
    [] TypeOf(value) \in {"nil", "list", "floats", "ints", "bytes"} -> <<Mark, <<"name", 0>>>>
    [] OTHER -> <<<<"name", 0>>>>

(* Some texts happen to be wire data, of fields that no message type has. *)
BytesOf(text) ==
  Payload(CASE text = <<>> -> "empty"
            [] text # <<>> /\ text[1][1] = "wire" -> "other"
            [] OTHER -> "text", <<>>, <<>>, text # <<>>)

IsInt64(number) == Int64Undefined <= number /\ number <= MaxInt64

(* The float64 MaxInt64 + 1 passes the range check, and its conversion      *)
(* gives the smallest int64, which is the null sentinel.                    *)
ToInt64(from, number) ==
  IF from = "float64" /\ number = MaxInt64 + 1 THEN <<"int64", Int64Undefined>>
  ELSE IF IsInt64(number) THEN <<"int64", number>>
  ELSE Failed

ConvertFieldValue(value, type) ==
  LET from == TypeOf(value)
      numeric == from \in {"int64", "float64"} \/ (from = "string" /\ IsInt(value[2]))
      number == IF from = "string" THEN value[2][1][2] ELSE value[2]
  IN  CASE from = "absent" -> Absent
        [] from # "absent" /\ type = "auto" -> value
        [] from # "absent" /\ type = "string" -> <<"string", Formatted(value)>>
        [] type = "int64" /\ numeric -> ToInt64(from, number)
        [] type = "float64" /\ numeric -> <<"float64", number>>
        [] type = "bytes" /\ from = "bytes" -> value
        [] type = "bytes" /\ from = "string" -> <<"bytes", BytesOf(value[2])>>
        [] type = "bool" /\ from = "bool" -> value
        [] type = "bool" /\ from = "string" /\ numeric -> IF number \in {0, 1} THEN <<"bool", number>> ELSE Failed
        [] OTHER -> Failed

(* Stand-ins for the nanoseconds of a unit. *)
Units == [ns |-> 1, us |-> 2, ms |-> 3, s |-> 4]
EpochUnits == [unix_ns |-> Units.ns, unix_us |-> Units.us, unix_ms |-> Units.ms, unix |-> Units.s]

EpochIntToTime(number, format) == <<"time", number * EpochUnits[format]>>

(* Out of range, the conversion of a float64 gives the smallest int64 too. *)
EpochFloatToTime(number, format) ==
  LET whole == IF IsInt64(number) THEN number ELSE Int64Undefined
  IN  <<"time", Wrap(whole * EpochUnits[format])>>

(* What ParseInt has no int64 for, ParseFloat reads. *)
ParseEpoch(number, format) ==
  IF IsInt64(number) THEN EpochIntToTime(number, format) ELSE EpochFloatToTime(number, format)

(* A number needs an epoch format, a date a date format. *)
ConvertToTimestamp(value, format) ==
  LET type == TypeOf(value)
      epoch == format \in DOMAIN EpochUnits
  IN  CASE type = "absent" -> Absent
        [] type = "time" -> value
        [] type = "string" /\ IsInt(value[2]) /\ epoch -> ParseEpoch(value[2][1][2], format)
        [] type = "string" /\ IsDate(value[2]) /\ ~epoch -> <<"time", value[2][1][2]>>
        [] type = "int64" /\ epoch -> EpochIntToTime(value[2], format)
        [] type = "float64" /\ epoch -> EpochFloatToTime(value[2], format)
        [] OTHER -> Failed

SplitToken(parts, token, separator) ==
  IF token = separator THEN Append(parts, <<>>)
  ELSE [parts EXCEPT ![Len(parts)] = Append(@, token)]

Split(text, separator) ==
  LET parts[i \in 0..Len(text)] ==
        IF i = 0 THEN <<<<>>>> ELSE SplitToken(parts[i - 1], text[i], separator)
  IN  parts[Len(text)]

(* The part at a 0-based index; a negative one counts from the end. *)
PartAt(parts, index) ==
  LET i == IF index < 0 THEN index + Len(parts) ELSE index
  IN  IF i \in 0..(Len(parts) - 1) THEN <<"string", parts[i + 1]>> ELSE Failed

ClampSliceIndex(index, n) ==
  LET i == IF index < 0 THEN index + n ELSE index
  IN  IF i < 0 THEN 0 ELSE IF i > n THEN n ELSE i

Trim(text, cutset) ==
  LET inside == {i \in 1..Len(text) : text[i] \notin cutset}
  IN  IF inside = {} THEN <<>> ELSE SubSeq(text, Min(inside), Max(inside))

-----------------------------------------------------------------------------
(* The steps.                                                               *)

Decompress(s, st) ==
  CASE st.data.kind = "empty" -> Ok(st)
    [] st.data.kind = "gzip" -> Ok([st EXCEPT !.data = @.fields.inner])
    [] OTHER -> Err(st)

ParseJSON(s, st) ==
  IF st.data.kind = "json" THEN Ok(PutAll(st, st.data.fields)) ELSE Err(st)

ResolveProtoSource(s, st) ==
  LET value == Lookup(st.fields, s.source)
  IN  IF s.source = <<>> THEN <<"bytes", st.data>>
      ELSE IF TypeOf(value) = "string" THEN <<"bytes", BytesOf(value[2])>>
      ELSE value

(* Bytes of another message type decode to no field at all. *)
ParseProtobuf(s, st) ==
  LET value == ResolveProtoSource(s, st)
      decoded == IF value[2].kind = "proto" THEN value[2].fields ELSE <<>>
  IN  IF TypeOf(value) # "bytes" THEN Err(st)
      ELSE IF value[2].kind \notin {"proto", "other"} THEN Err(st)
      ELSE IF s.target # "" THEN Ok(Put(st, s.target, <<"map", decoded>>))
      ELSE Ok(PutAll(st, decoded))

(* extract_index and extract_timestamp read a top-level field. *)
ExtractTime(s, st) ==
  Store(st, IF s.step = "extract_index" THEN "$timestamp" ELSE s.target,
        ConvertToTimestamp(Field(st.fields, s.source), s.format))

ExtractField(s, st) ==
  LET stored == Store(st, s.target, ConvertFieldValue(Lookup(st.fields, s.source), s.type))
  IN  IF s.on_error = "skip" THEN Ok(stored.st) ELSE stored

(* Fault: the null is written although the step fails. *)
SafeParseNumberDirty(s, st) ==
  LET stored == Store(st, s.target, ConvertFieldValue(Lookup(st.fields, s.source), "float64"))
  IN  IF stored.ok \/ s.on_error = "skip" THEN Ok(stored.st)
      ELSE Err(Put(st, s.target, Nil))

SafeParseNumber(s, st) ==
  LET value == Lookup(st.fields, s.source)
      stored == Store(st, s.target, ConvertFieldValue(value, "float64"))
  IN  CASE s.on_error = "skip" -> Ok(stored.st)
        [] s.on_error = "null" /\ ~stored.ok /\ TypeOf(value) # "absent" -> Ok(Put(st, s.target, Nil))
        [] OTHER -> stored

LexFirst(keys) ==
  SortedKeys[Min({i \in 1..Len(SortedKeys) : SortedKeys[i] \in keys})]

CoerceMapKey(key) ==
  IF key \in DOMAIN KeyNumbers THEN <<"int64", KeyNumbers[key]>> ELSE <<"string", <<<<"name", 10 + SelectInSeq(SortedKeys, LAMBDA k : k = key)>>>>>>

ExtractMapEntry(s, st) ==
  LET value == Lookup(st.fields, s.source)
      key == LexFirst(DOMAIN value[2])
  IN  IF \/ TypeOf(value) # "map"
         \/ DOMAIN value[2] = {}
         \/ Cardinality(DOMAIN value[2]) > 1 /\ s.on_multiple = "fail"
         \/ s.allowed_keys # Absent /\ key \notin s.allowed_keys[2]
      THEN Err(st)
      ELSE Ok(Put(Put(st, s.key_target, CoerceMapKey(key)), s.value_target, value[2][key]))

ExtractSubject(s, st) ==
  LET value == IF s.segment = Absent THEN <<"string", st.subject>>
               ELSE PartAt(Split(st.subject, Dot), s.segment[2])
  IN  Store(st, s.target,
            IF value = Failed THEN Failed ELSE <<"string", Trim(value[2], s.trim)>>)

ValidTableName(text) ==
  /\ text # <<>>
  /\ text[1][1] \notin {"punct", "nul"}
  /\ text[1][1] = "int" => text[1][2] >= 0

ExtractTable(s, st) ==
  LET name == IF s.value # Absent THEN s.value
              ELSE Field(st.fields, IF s.source = <<>> THEN <<"$table">> ELSE s.source)
  IN  IF TypeOf(name) # "string" THEN Err(st)
      ELSE IF ~ValidTableName(name[2]) THEN Err(st)
      ELSE Ok(Put(st, "$table", <<"string", Append(name[2], Nul)>>))

(* The operations of compute_field; all but str need texts. *)
RequireString(fields, path) ==
  LET value == Lookup(fields, path) IN IF TypeOf(value) = "string" THEN value ELSE Failed

ConcatPart(fields, acc, part) ==
  LET text == IF part[1] = "literal" THEN <<"string", part[2]>> ELSE RequireString(fields, part[2])
  IN  IF Failed \in {acc, text} THEN Failed ELSE <<"string", acc[2] \o text[2]>>

ConcatFields(s, fields) ==
  LET concat[i \in 0..Len(s.parts)] ==
        IF i = 0 THEN <<"string", <<>>>> ELSE ConcatPart(fields, concat[i - 1], s.parts[i])
  IN  concat[Len(s.parts)]

SplitField(s, text) == PartAt(Split(text, s.separator), s.index)

SliceField(s, text) ==
  <<"string", SubSeq(text, ClampSliceIndex(s.start, Len(text)) + 1,
                     IF s.end = Absent THEN Len(text) ELSE ClampSliceIndex(s.end[2], Len(text)))>>

HashField(text) == <<"string", <<<<"hash", text>>>>>>

StrField(value) ==
  IF TypeOf(value) \in {"string", "int64", "float64", "bool"} THEN <<"string", Formatted(value)>> ELSE Failed

ComputeField(s, st) ==
  LET text == RequireString(st.fields, s.source)
  IN  Store(st, s.target,
        CASE s.operation = "concat" -> ConcatFields(s, st.fields)
          [] s.operation = "str" -> StrField(Lookup(st.fields, s.source))
          [] s.operation \in {"split", "slice", "hash"} ->
               IF text = Failed THEN Failed
               ELSE CASE s.operation = "split" -> SplitField(s, text[2])
                      [] s.operation = "slice" -> SliceField(s, text[2])
                      [] s.operation = "hash" -> HashField(text[2]))

ValidScale(value) == TypeOf(value) = "float64" /\ value[2] \notin {0, NaN}

UnpackIsFloat(s) == s.scale # Absent \/ s.type \in {"float32", "float64"}

(* Elements are widened and then scaled; an uint64 that is neither wraps. *)
Unpack(s, st) ==
  LET value == Lookup(st.fields, s.source)
      scale == IF s.scale = Absent THEN <<"float64", 1>>
               ELSE IF s.scale[1] = "source" THEN Lookup(st.fields, s.scale[2]) ELSE s.scale
      elements == value[2].elements
  IN  IF TypeOf(value) # "bytes" THEN Err(st)
      ELSE IF value[2].odd \/ ~ValidScale(scale) THEN Err(st)
      ELSE Ok(Put(st, s.target,
                  <<IF UnpackIsFloat(s) THEN "floats" ELSE "ints",
                    [i \in 1..Len(elements) |->
                       IF UnpackIsFloat(s) THEN elements[i] * scale[2] ELSE Wrap(elements[i])]>>))

IsStructuralStep(s) ==
  s.step \in {"decompress", "parse_json", "parse_protobuf", "extract_map_entry", "unpack"}

RunStep(s, st) ==
  CASE s.step = "decompress" -> Decompress(s, st)
    [] s.step = "parse_json" -> ParseJSON(s, st)
    [] s.step = "parse_protobuf" -> ParseProtobuf(s, st)
    [] s.step \in {"extract_index", "extract_timestamp"} -> ExtractTime(s, st)
    [] s.step = "extract_field" -> ExtractField(s, st)
    [] s.step = "extract_map_entry" -> ExtractMapEntry(s, st)
    [] s.step = "extract_subject" -> ExtractSubject(s, st)
    [] s.step = "extract_table" -> ExtractTable(s, st)
    [] s.step = "compute_field" -> ComputeField(s, st)
    [] s.step = "safe_parse_number" -> SafeParseNumber(s, st)
    [] s.step = "unpack" -> Unpack(s, st)

-----------------------------------------------------------------------------
(* NewYAMLParserFromConfig: what is accepted, and what it is compiled to.   *)

StepRegistry ==
  {"decompress", "parse_json", "parse_protobuf", "extract_index", "extract_timestamp",
   "extract_field", "extract_map_entry", "extract_subject", "extract_table",
   "compute_field", "safe_parse_number", "unpack"}

ColumnTypes == {"timestamp", "double", "int64", "blob", "string", "symbol"}

GoType(type) ==
  CASE type = "double" -> "float64"
    [] type = "int64" -> "int64"
    [] type = "timestamp" -> "time"
    [] type = "blob" -> "bytes"
    [] type \in {"string", "symbol"} -> "string"

ColumnNames(c) == {col.name : col \in ToSet(c.columns)}
ColumnType(c, name) == (CHOOSE col \in ToSet(c.columns) : col.name = name).type

ValidateSchema(c) ==
  /\ c.columns # <<>>
  /\ \A i, j \in DOMAIN c.columns : c.columns[i].name = c.columns[j].name => i = j
  /\ \A col \in ToSet(c.columns) : col.name # "" /\ col.type \in ColumnTypes

(* splitExplodeSpec.  An explode step without a config block is dropped. *)
Explodes(c) == {i \in 1..Len(c.transformations) : c.transformations[i].step = "explode"}
SplitExplodeSpec(c) == Explodes(c) \subseteq {Len(c.transformations)}
Steps(c) == Selected(c.transformations, (1..Len(c.transformations)) \ Explodes(c))

(* The options whose types the factories check (compileFieldPath,           *)
(* parseConcatConfig, parseIntOption).                                      *)
Path(path) == Sequence(path) /\ path # <<>>

TypedOptions(s) ==
  /\ s.step \in {"extract_field", "extract_map_entry", "safe_parse_number", "unpack"} => Path(s.source)
  /\ s.step = "parse_protobuf" => s.source = <<>> \/ Path(s.source)
  /\ s.step = "extract_table" => WellTyped(s.value)
  /\ s.step = "compute_field" =>
       /\ s.operation # "concat" => Path(s.source)
       /\ s.operation = "concat" =>
            Sequence(s.parts) /\ \A i \in DOMAIN s.parts :
              IF s.parts[i][1] = "literal" THEN Sequence(s.parts[i][2]) ELSE Path(s.parts[i][2])
       /\ s.operation = "slice" => s.start \in Int /\ (s.end # Absent => s.end[2] \in Int)
  /\ s.step = "explode" /\ ~s.bare => Path(s.source)

ASSUME ConfigsAssumption ==
  \A c \in Configs :
    /\ Sequence(c.columns) /\ Sequence(c.transformations)
    /\ \A s \in ToSet(c.transformations) : TypedOptions(s)

HasExplode(c) == \E i \in Explodes(c) : ~c.transformations[i].bare
Explode(c) == Last(c.transformations)

HasStep(c, name) == \E s \in ToSet(Steps(c)) : s.step = name

UnpackTypes ==
  {"int8", "uint8", "int16", "uint16", "int32", "uint32", "int64", "uint64", "float32", "float64"}

ParseUnpackConfig(s) ==
  /\ s.target \notin Reserved
  /\ s.type \in UnpackTypes
  /\ TypeOf(s.scale) = "float64" => ValidScale(s.scale)

(* An empty list of allowed keys would drop every message. *)
ParseMapEntryConfig(s) ==
  /\ s.on_multiple \in {"first", "fail"}
  /\ s.allowed_keys # Absent => s.allowed_keys[2] # {}

MakeComputeField(s) ==
  /\ s.target \notin Reserved
  /\ s.operation \in {"concat", "split", "hash", "slice", "str"}
  /\ s.operation = "concat" => s.parts # <<>>

(* What the factory of a step refuses; Reserved stands for a leading $. *)
MakeStep(s) ==
  CASE s.step = "extract_timestamp" -> s.target \notin Reserved
    [] s.step = "extract_table" -> s.value = Absent \/ s.source = <<>>
    [] s.step = "compute_field" -> MakeComputeField(s)
    [] s.step = "extract_map_entry" -> ParseMapEntryConfig(s)
    [] s.step = "unpack" -> ParseUnpackConfig(s)
    [] OTHER -> s.step \in StepRegistry

CompilePipeline(c) ==
  /\ HasStep(c, "extract_table")
  /\ \A s \in ToSet(Steps(c)) : MakeStep(s)

CompileExplodeInterval(interval) ==
  CASE interval[1] = "value" -> interval[2] > 0
    [] interval[1] = "source" -> interval[3] \in DOMAIN Units
    [] interval[1] = "by_length" ->
         DOMAIN interval[2] # {} /\ \A n \in DOMAIN interval[2] : n > 0 /\ interval[2][n] > 0
    [] OTHER -> FALSE

CompileExplodeColumns(c, e) ==
  /\ e.target \in ColumnNames(c) \ Reserved
  /\ ColumnType(c, e.target) \in {"double", "int64"}
  /\ e.ordinal # "" =>
       /\ e.ordinal # e.target
       /\ e.ordinal \in ColumnNames(c) \ Reserved
       /\ ColumnType(c, e.ordinal) = "int64"

ValidateExplodeUnpackTrace(c, e) ==
  \A s \in ToSet(Steps(c)) :
    (s.step = "unpack" /\ <<s.target>> = e.source) =>
      (ColumnType(c, e.target) = "double" <=> UnpackIsFloat(s))

CompileExplodeSpec(c) ==
  HasExplode(c) =>
    /\ ~HasStep(c, "extract_index")
    /\ CompileExplodeColumns(c, Explode(c))
    /\ CompileExplodeInterval(Explode(c).interval)
    /\ ValidateExplodeUnpackTrace(c, Explode(c))

ValidateArrayBindings(c) ==
  \A s \in ToSet(Steps(c)) :
    (s.step = "unpack" /\ s.target \in ColumnNames(c)) =>
      (HasExplode(c) /\ Explode(c).source = <<s.target>>)

ExplodedColumnNames(c) == IF HasExplode(c) THEN {Explode(c).target, Explode(c).ordinal} ELSE {}

(* Symbols are strings to the writer, so their columns are filterable too. *)
ResolveMatch(c, entry) ==
  /\ entry.column \in ColumnNames(c)
  /\ ColumnType(c, entry.column) \in {"int64", "string", "symbol"}
  /\ TypeOf(entry.value) = GoType(ColumnType(c, entry.column))

(* Fault: per-sample columns can be filtered on. *)
NewFilterOfAnyColumn(c) ==
  \/ c.filters.mode = "" /\ c.filters.match = <<>>
  \/ /\ c.filters.mode \in {"whitelist", "blacklist"}
     /\ c.filters.match # <<>>
     /\ \A entry \in ToSet(c.filters.match) : ResolveMatch(c, entry)

NewFilter(c) ==
  \/ c.filters.mode = "" /\ c.filters.match = <<>>
  \/ /\ c.filters.mode \in {"whitelist", "blacklist"}
     /\ c.filters.match # <<>>
     /\ \A entry \in ToSet(c.filters.match) :
          entry.column \notin ExplodedColumnNames(c) /\ ResolveMatch(c, entry)

Accepted(c) ==
  /\ ValidateSchema(c)
  /\ SplitExplodeSpec(c)
  /\ CompilePipeline(c)
  /\ CompileExplodeSpec(c)
  /\ ValidateArrayBindings(c)
  /\ NewFilter(c)

-----------------------------------------------------------------------------
(* Rows.  A table has a name, the index of its rows and a value per column  *)
(* and row.                                                                 *)

NullOf(type) ==
  CASE type = "double" -> <<"float64", NaN>>
    [] type = "int64" -> <<"int64", Int64Undefined>>
    [] type = "timestamp" -> <<"time", MinTimespec>>
    [] type = "blob" -> <<"bytes", EmptyPayload>>
    [] type \in {"string", "symbol"} -> <<"string", <<>>>>

(* Fault: a column whose field is missing or mistyped is not written. *)
BroadcastOfPresent(fields, col, rows) ==
  LET value == Field(fields, <<col.name>>)
  IN  IF TypeOf(value) = GoType(col.type) THEN [i \in rows |-> value] ELSE <<>>

(* In every row the field, or the null sentinel; createWriterTable has one row. *)
Broadcast(fields, col, rows) ==
  LET value == Field(fields, <<col.name>>)
  IN  [i \in rows |-> IF TypeOf(value) = GoType(col.type) THEN value ELSE NullOf(col.type)]

Result(outcome, tables, st) == [outcome |-> outcome, tables |-> tables, errors |-> st.errors]
(* Fault: the outcome is left at its zero value, OutcomeOK. *)
UnusableByDefault(st) == Result("ok", <<>>, st)

Unusable(st) == Result("unusable", <<>>, st)
Parsed(tables, st) == Result(IF st.errors = <<>> THEN "ok" ELSE "partial", tables, st)

(* Fault: a row without a $timestamp is given the time of its arrival. *)
TableFloorOnly(c, st) ==
  LET name == Field(st.fields, <<"$table">>)
  IN  TypeOf(name) = "string" /\ ValidTableName(name[2])

(* The floor: a real time where the configuration extracts one, and a table. *)
CheckStructuralFloor(c, st) ==
  LET name == Field(st.fields, <<"$table">>)
  IN  /\ HasStep(c, "extract_index") => TypeOf(Field(st.fields, <<"$timestamp">>)) = "time"
      /\ TypeOf(name) = "string"
      /\ ValidTableName(name[2])

(* The terminator is added where the name was not set by extract_table. *)
TableName(st) ==
  LET name == st.fields["$table"][2]
  IN  IF Last(name) = Nul THEN name ELSE Append(name, Nul)

CreateWriterTable(c, st) ==
  LET timestamp == Field(st.fields, <<"$timestamp">>)
  IN  [name |-> TableName(st),
       index |-> <<IF TypeOf(timestamp) = "time" THEN timestamp[2] ELSE Now>>,
       columns |-> [k \in DOMAIN c.columns |-> Broadcast(st.fields, c.columns[k], {1})]]

-----------------------------------------------------------------------------
(* explode: the rows of an array.                                           *)

ElementType(c) == GoType(ColumnType(c, Explode(c).target))

(* A typed array from unpack, or a list whose every element has the type. *)
IsArray(c, value) ==
  CASE TypeOf(value) = "floats" -> ElementType(c) = "float64"
    [] TypeOf(value) = "ints" -> ElementType(c) = "int64"
    [] TypeOf(value) = "list" -> \A i \in DOMAIN value[2] : TypeOf(value[2][i]) = ElementType(c)
    [] OTHER -> FALSE

ResolveArray(c, value) ==
  [i \in DOMAIN value[2] |->
     IF TypeOf(value) = "list" THEN value[2][i] ELSE <<ElementType(c), value[2][i]>>]

ResolveSourcedInterval(value, unit) ==
  CASE TypeOf(value) = "int64" ->
         IF value[2] \in 1..(MaxInt64 \div unit) THEN <<"int64", value[2] * unit>> ELSE Failed
    [] TypeOf(value) = "float64" ->
         IF value[2] * unit \in 1..MaxInt64 THEN <<"int64", value[2] * unit>> ELSE Failed
    [] OTHER -> Failed

ResolveInterval(interval, fields, n) ==
  CASE interval[1] = "value" -> <<"int64", interval[2]>>
    [] interval[1] = "by_length" ->
         IF n \in DOMAIN interval[2] THEN <<"int64", interval[2][n]>> ELSE Failed
    [] interval[1] = "source" ->
         ResolveSourcedInterval(Lookup(fields, interval[2]), Units[interval[3]])

BuildExplodedIndex(start, interval, rows) == [i \in rows |-> start + Wrap((i - 1) * interval)]

CreateExplodedWriterTable(c, st, elements, start, interval) ==
  LET rows == DOMAIN elements
      e == Explode(c)
      column(col) ==
        IF col.name = e.target THEN elements
        ELSE IF col.name = e.ordinal THEN [i \in rows |-> <<"int64", i - 1>>]
        ELSE Broadcast(st.fields, col, rows)
  IN  [name |-> TableName(st),
       index |-> BuildExplodedIndex(start, interval, rows),
       columns |-> [k \in DOMAIN c.columns |-> column(c.columns[k])]]

(* An empty array needs no time axis and gives no row. *)
ParseExploded(c, st) ==
  LET e == Explode(c)
      value == Lookup(st.fields, e.source)
      start == Lookup(st.fields, e.start)
      elements == ResolveArray(c, value)
      interval == ResolveInterval(e.interval, st.fields, Len(value[2]))
      failed == Unusable([st EXCEPT !.errors = Append(@, 0)])
  IN  IF ~IsArray(c, value) THEN failed
      ELSE IF elements = <<>> THEN Parsed(<<>>, st)
      ELSE IF TypeOf(start) # "time" \/ interval = Failed THEN failed
      ELSE Parsed(<<CreateExplodedWriterTable(c, st, elements, start[2], interval[2])>>, st)

(* What Parse makes of the state at the end of the pipeline. *)
Materialize(c, st) ==
  IF ~CheckStructuralFloor(c, st) THEN Unusable([st EXCEPT !.errors = Append(@, 0)])
  ELSE IF HasExplode(c) THEN ParseExploded(c, st)
  ELSE Parsed(<<CreateWriterTable(c, st)>>, st)

-----------------------------------------------------------------------------
(* The row filter looks at row 0 of a table.                                *)

RowMatches(c, table, row) ==
  \E entry \in ToSet(c.filters.match) :
    \E i \in 1..Len(c.columns) :
      c.columns[i].name = entry.column /\ table.columns[i][row] = entry.value

Keeps(c, table, row) ==
  \/ c.filters.match = <<>>
  \/ (c.filters.mode = "whitelist") = RowMatches(c, table, row)

Apply(c, tables) == Selected(tables, {i \in 1..Len(tables) : Keeps(c, tables[i], 1)})

(* parseMessages: the tables that are not dropped or left for redelivery. *)
ValidTables(c, rs) ==
  FlattenSeq([i \in 1..Len(rs) |->
    IF c.parse_error_action = "fail" /\ rs[i].outcome # "ok" THEN <<>> ELSE rs[i].tables])

(* Tables of one name become one, its index and columns appended. *)
MergeSingleTableWriters(c, group) ==
  [name |-> group[1].name,
   index |-> FlattenSeq([i \in 1..Len(group) |-> group[i].index]),
   columns |-> [k \in 1..Len(c.columns) |->
                  FlattenSeq([i \in 1..Len(group) |-> group[i].columns[k]])]]

MergeWriterTables(c, tables) ==
  {MergeSingleTableWriters(c, Selected(tables, {i \in 1..Len(tables) : tables[i].name = name})) :
     name \in {tables[i].name : i \in 1..Len(tables)}}

-----------------------------------------------------------------------------
(* Actions: a worker loads its configuration and parses batch after batch.  *)

NoState == [data |-> EmptyPayload, subject |-> <<>>, fields |-> <<>>, errors |-> <<>>]

(* Fault: the fields of the last message are still there. *)
ReusedParseState(m) == [state EXCEPT !.data = m.data, !.subject = m.subject, !.errors = <<>>]

NewParseState(m) == [NoState EXCEPT !.data = m.data, !.subject = m.subject]

Init ==
  /\ config \in Configs
  /\ phase = "load"
  /\ batch = <<>>
  /\ next = 1
  /\ state = NoState
  /\ results = <<>>
  /\ written = {}

Load ==
  /\ phase = "load"
  /\ phase' = IF Accepted(config) THEN "ready" ELSE "rejected"
  /\ UNCHANGED <<config, batch, next, state, results, written>>

(* The process ends with the error of its configuration. *)
Rejected == phase = "rejected" /\ UNCHANGED vars

(* Parse begins. *)
Begin(m) ==
  /\ phase = "ready"
  /\ Len(batch) < MaxBatch
  /\ m.data # EmptyPayload
  /\ batch' = Append(batch, m)
  /\ state' = NewParseState(m)
  /\ next' = 1
  /\ phase' = "step"
  /\ UNCHANGED <<config, results, written>>

(* An empty payload is unusable at once. *)
ParseEmpty(m) ==
  /\ phase = "ready"
  /\ Len(batch) < MaxBatch
  /\ m.data = EmptyPayload
  /\ batch' = Append(batch, m)
  /\ results' = Append(results, Unusable([NoState EXCEPT !.errors = <<0>>]))
  /\ state' = NoState
  /\ UNCHANGED <<config, phase, next, written>>

(* runPipeline takes step after step. *)
Current == Steps(config)[next]
Run == RunStep(Current, state)
WithError(st) == [st EXCEPT !.errors = Append(@, next)]

StepSucceeds ==
  /\ phase = "step"
  /\ next <= Len(Steps(config))
  /\ Run.ok
  /\ state' = Run.st
  /\ next' = next + 1
  /\ UNCHANGED <<config, phase, batch, results, written>>

(* The error is kept, and the next step taken. *)
FieldStepFails ==
  /\ phase = "step"
  /\ next <= Len(Steps(config))
  /\ ~Run.ok
  /\ ~IsStructuralStep(Current)
  /\ state' = WithError(Run.st)
  /\ next' = next + 1
  /\ UNCHANGED <<config, phase, batch, results, written>>

(* Nothing downstream can succeed. *)
StructuralStepFails ==
  /\ phase = "step"
  /\ next <= Len(Steps(config))
  /\ ~Run.ok
  /\ IsStructuralStep(Current)
  /\ state' = WithError(Run.st)
  /\ results' = Append(results, Unusable(WithError(Run.st)))
  /\ phase' = "ready"
  /\ UNCHANGED <<config, batch, next, written>>

Finish ==
  /\ phase = "step"
  /\ next > Len(Steps(config))
  /\ results' = Append(results, Materialize(config, state))
  /\ phase' = "ready"
  /\ UNCHANGED <<config, batch, next, state, written>>

(* The tables of the whole batch are filtered, merged and pushed. *)
Write ==
  /\ phase = "ready"
  /\ results # <<>>
  /\ written' = MergeWriterTables(config, Apply(config, ValidTables(config, results)))
  /\ phase' = "written"
  /\ UNCHANGED <<config, batch, next, state, results>>

NextBatch ==
  /\ phase = "written"
  /\ phase' = "ready"
  /\ batch' = <<>>
  /\ results' = <<>>
  /\ written' = {}
  /\ UNCHANGED <<config, next, state>>

Next ==
  \/ Load
  \/ Rejected
  \/ \E m \in Messages(config) : Begin(m)
  \/ \E m \in Messages(config) : ParseEmpty(m)
  \/ StepSucceeds
  \/ FieldStepFails
  \/ StructuralStepFails
  \/ Finish
  \/ Write
  \/ NextBatch

Spec == Init /\ [][Next]_vars

-----------------------------------------------------------------------------
(* Properties.                                                              *)

JustParsed == phase = "ready" /\ results # <<>>

(* Each column holds exactly one value per row of the index, of the column's *)
(* own type: what merging relies on without checking.                       *)
ColumnsAligned ==
  \A i \in DOMAIN results : \A table \in ToSet(results[i].tables) :
    /\ DOMAIN table.index # {}
    /\ \A k \in DOMAIN config.columns :
         /\ DOMAIN table.columns[k] = DOMAIN table.index
         /\ \A row \in DOMAIN table.index :
              TypeOf(table.columns[k][row]) = GoType(config.columns[k].type)

(* The sentinel-fill invariant of createWriterTable and its explode         *)
(* counterpart: the columns of every table are aligned with its index, and  *)
(* its name is non-empty and null-terminated.                               *)
RowsAligned ==
  /\ ColumnsAligned
  /\ \A i \in DOMAIN results : \A table \in ToSet(results[i].tables) :
       Last(table.name) = Nul /\ ValidTableName(Front(table.name))

(* No row is given a made-up time: where the configuration extracts an      *)
(* index or explodes an array, the time of arrival never is an index;       *)
(* exploded rows advance from the start field by a positive interval, row   *)
(* by row as far as the offset is an int64.                                 *)
TimeAxis ==
  JustParsed =>
    \A table \in ToSet(Last(results).tables) :
      /\ HasStep(config, "extract_index") =>
           TypeOf(Field(state.fields, <<"$timestamp">>)) = "time" /\ table.index = <<state.fields["$timestamp"][2]>>
      /\ HasExplode(config) =>
           LET e == Explode(config)
               n == Len(Lookup(state.fields, e.source)[2])
               interval == ResolveInterval(e.interval, state.fields, n)[2]
               start == Lookup(state.fields, e.start)
           IN  /\ TypeOf(start) = "time" /\ interval > 0
               /\ \A i \in DOMAIN table.index :
                    (i - 1) * interval \in 0..MaxInt64 =>
                      table.index[i] = start[2] + (i - 1) * interval

(* A message gives rows, is reported unusable, or is an empty array: none   *)
(* is lost without a trace, no element of an array is left out, and an      *)
(* unusable one never leaves a row behind.                                  *)
NothingLostSilently ==
  JustParsed =>
    LET r == Last(results)
        rows == UNION {DOMAIN table.index : table \in ToSet(r.tables)}
        array == Lookup(state.fields, Explode(config).source)
    IN  CASE r.outcome = "unusable" -> r.tables = <<>>
          [] r.outcome # "unusable" /\ HasExplode(config) ->
               TypeOf(array) \in {"list", "floats", "ints"} /\ rows = DOMAIN array[2]
          [] r.outcome # "unusable" /\ ~HasExplode(config) -> rows = {1}

(* The pipeline without some of its steps, on a message of its own: where it *)
(* is after each step.                                                       *)
AfterStep(steps, skipped, k, acc) ==
  LET run == RunStep(steps[k], acc.st)
  IN  IF acc.stopped \/ k \in skipped THEN acc
      ELSE IF run.ok THEN [stopped |-> FALSE, st |-> run.st]
      ELSE [stopped |-> IsStructuralStep(steps[k]), st |-> [run.st EXCEPT !.errors = Append(@, k)]]

After(steps, skipped, m) ==
  LET after[k \in 0..Len(steps)] ==
        IF k = 0 THEN [stopped |-> FALSE, st |-> [NoState EXCEPT !.data = m.data, !.subject = m.subject]]
        ELSE AfterStep(steps, skipped, k, after[k - 1])
  IN  after

Ran(steps, skipped, m) == After(steps, skipped, m)[Len(steps)]

ParseAlone(c, m) ==
  LET ran == Ran(Steps(c), {}, m)
  IN  IF m.data = EmptyPayload THEN Unusable([NoState EXCEPT !.errors = <<0>>])
      ELSE IF ran.stopped THEN Unusable(ran.st) ELSE Materialize(c, ran.st)

(* A field step that fails contributes nothing: the row of a partial parse *)
(* is the row of a configuration without the steps that failed, which finds *)
(* nothing wrong with the message.                                         *)
PartialIsClean ==
  JustParsed /\ Last(results).outcome = "partial" =>
    LET r == Last(results)
        ran == Ran(Steps(config), ToSet(r.errors), Last(batch))
    IN  ~ran.stopped /\ Materialize(config, ran.st) = [r EXCEPT !.outcome = "ok", !.errors = <<>>]

(* Parse has no memory: whatever was parsed before, a message's result is  *)
(* that of the message alone (newParseState per call).                     *)
HistoryFree ==
  \A i \in 1..Len(results) : results[i] = ParseAlone(config, batch[i])

(* The rows of a table, whatever the lengths of its columns. *)
Rows(table) ==
  [row \in 1..Len(table.index) |->
     <<table.name, table.index[row],
       [k \in 1..Len(table.columns) |->
          IF row <= Len(table.columns[k]) THEN table.columns[k][row] ELSE <<"missing", 0>>]>>]

SameRows(rows1, rows2) ==
  \A row \in ToSet(rows1) \cup ToSet(rows2) :
    Cardinality({i \in 1..Len(rows1) : rows1[i] = row}) = Cardinality({i \in 1..Len(rows2) : rows2[i] = row})

(* What a batch writes is, row by row, what its messages give one by one,  *)
(* less the rows the filter rejects when it looks at every row: looking at *)
(* row 0 only, and merging tables, neither lose, add nor rewire a row.     *)
WrittenExactly ==
  phase = "written" =>
    LET alone == ValidTables(config, [i \in 1..Len(batch) |-> ParseAlone(config, batch[i])])
        passing(table) ==
          Selected(Rows(table), {row \in 1..Len(table.index) : Keeps(config, table, row)})
        pushed == SetToSeq(written)
    IN  SameRows(FlattenSeq([i \in 1..Len(alone) |-> passing(alone[i])]),
                 FlattenSeq([i \in 1..Len(pushed) |-> Rows(pushed[i])]))
=============================================================================
