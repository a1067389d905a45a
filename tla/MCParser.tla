----------------------------- MODULE MCParser -----------------------------
(***************************************************************************)
(* Two families of configurations for Parser: scalar JSON messages, and    *)
(* waveforms that are protobuf messages of packed samples.                 *)
(***************************************************************************)
EXTENDS Parser

Digits(n) == <<<<"int", n>>>>
Date(n) == <<<<"date", n>>>>
Name(n) == <<<<"name", n>>>>
Text(text) == <<"string", text>>
Col(name, type) == [name |-> name, type |-> type]
NoFilter == [mode |-> "", match |-> <<>>]
Match(mode, column, value) == [mode |-> mode, match |-> <<[column |-> column, value |-> value]>>]
Config(columns, steps, filters, action) ==
  [columns |-> columns, transformations |-> steps, filters |-> filters, parse_error_action |-> action]

MCSortedKeys ==
  <<"$table", "12", "7", "data", "dev", "id", "label", "meta", "points", "rate", "scale", "start",
    "t", "tag", "ts", "v", "wave", "x">>
MCKeyNumbers == ("12" :> 12) @@ ("7" :> 7)

-----------------------------------------------------------------------------
(* Steps.                                                                   *)

Step0(name) == [step |-> name]
Index(source, format) == [step |-> "extract_index", source |-> source, format |-> format]
Timestamp(source, target) ==
  [step |-> "extract_timestamp", source |-> source, target |-> target, format |-> "rfc3339"]
FieldStep(source, target, type, on_error) ==
  [step |-> "extract_field", source |-> source, target |-> target, type |-> type, on_error |-> on_error]
Number(source, on_error) ==
  [step |-> "safe_parse_number", source |-> source, target |-> "v", on_error |-> on_error]
Subject(segment) ==
  [step |-> "extract_subject", segment |-> segment, trim |-> {Mark}, target |-> "tag"]
Table(value, source) == [step |-> "extract_table", value |-> value, source |-> source]
ConcatStep(target) ==
  [step |-> "compute_field", operation |-> "concat", target |-> target,
   parts |-> <<<<"path", <<"dev">>>>, <<"literal", Name(8)>>>>]
SplitStep(index) ==
  [step |-> "compute_field", operation |-> "split", target |-> "t", source |-> <<"dev">>,
   separator |-> Dot, index |-> index]
SliceStep ==
  [step |-> "compute_field", operation |-> "slice", target |-> "tag", source |-> <<"dev">>,
   start |-> 0 - 2, end |-> Absent]
Compute(operation, source, target) ==
  [step |-> "compute_field", operation |-> operation, target |-> target, source |-> source]

-----------------------------------------------------------------------------
(* JSON: every number is a float64.                                         *)

Json(fields) == Payload("json", fields, <<>>, FALSE)
Gzip(data) == Payload("gzip", [inner |-> data], <<>>, FALSE)
Junk == Payload("junk", <<>>, <<>>, TRUE)
Message(data) == [subject |-> Name(4) \o <<Dot, Mark>> \o Name(5), data |-> data]

Good == Json([ts |-> <<"float64", 3>>, id |-> <<"float64", 5>>, v |-> Text(Digits(2)),
              dev |-> Text(Name(1) \o <<Dot>> \o Name(2)), t |-> Text(Name(6))])
Late == [Good EXCEPT !.fields.ts = Text(Digits(MaxInt64 + 1))]
Bad == Json([ts |-> Text(Date(7)), id |-> <<"float64", MaxInt64 + 2>>, v |-> Text(Name(3)),
             dev |-> Text(<<Mark>> \o Name(1)), tag |-> Text(Name(5)),
             meta |-> <<"map", [id |-> <<"float64", Int64Undefined - 1>>]>>])
Sparse == Json(("$table" :> Text(Name(9))) @@ ("v" :> <<"float64", 6>>) @@ ("id" :> Nil) @@ ("tag" :> Text(Name(5)))
               @@ ("meta" :> <<"map", [id |-> <<"float64", MaxInt64 + 1>>]>>))

JsonMessages ==
  {Message(Good), Message(Bad), Message(Sparse), Message(Gzip(Late)), Message(Junk), Message(EmptyPayload)}

JsonColumns == <<Col("id", "int64"), Col("v", "double"), Col("tag", "symbol"), Col("at", "timestamp")>>

TimeSteps ==
  {<<>>, <<Index(<<"ts">>, "unix")>>, <<Index(<<"ts">>, "rfc3339")>>,
   <<Timestamp(<<"ts">>, "at")>>, <<Timestamp(<<"ts">>, "$timestamp")>>}

ValueSteps ==
  {<<Number(<<"v">>, "null"), FieldStep(<<"id">>, "id", "int64", "fail")>>,
   <<Number(<<"v">>, "skip"), FieldStep(<<"meta", "id">>, "id", "int64", "skip")>>,
   <<Number(<<"dev">>, "fail"), FieldStep(<<"v">>, "id", "auto", "fail")>>,
   <<FieldStep(<<"v">>, "v", "float64", "fail"), FieldStep(<<"id">>, "tag", "string", "fail")>>,
   <<Subject(Absent), ConcatStep("t")>>,
   <<Subject(<<"int64", 1>>), SplitStep(0 - 1)>>,
   <<Subject(<<"int64", 5>>), SplitStep(3)>>,
   <<SliceStep, FieldStep(<<"ts">>, "$timestamp", "auto", "fail")>>,
   <<Compute("hash", <<"dev">>, "t"), Compute("str", <<"id">>, "tag")>>,
   <<ConcatStep("$table")>>}

TablesAndFilters ==
  {<<Table(Text(Name(1)), <<>>), Match("whitelist", "tag", Text(Name(5))), "drop">>,
   <<Table(Absent, <<"t">>), Match("blacklist", "id", <<"int64", 5>>), "drop">>,
   <<Table(Absent, <<>>), NoFilter, "fail">>,
   <<Table(Absent, <<"dev">>), NoFilter, "drop">>}

JsonConfigs ==
  {Config(JsonColumns, <<Step0("parse_json")>> \o time \o value \o <<tf[1]>>, tf[2], tf[3]) :
     time \in TimeSteps, value \in ValueSteps, tf \in TablesAndFilters}

StaticTable == Table(Text(Name(1)), <<>>)

(* What is refused for its columns, steps or filter, and a gzip pipeline. *)
OtherConfigs ==
  {Config(<<>>, <<StaticTable>>, NoFilter, "drop"),
   Config(<<Col("v", "double"), Col("v", "int64")>>, <<StaticTable>>, NoFilter, "drop"),
   Config(<<Col("v", "double"), Col("", "int64")>>, <<StaticTable>>, NoFilter, "drop"),
   Config(JsonColumns, <<Step0("parse_json")>>, NoFilter, "drop"),
   Config(JsonColumns, <<Step0("parse_xml"), StaticTable>>, NoFilter, "drop"),
   Config(JsonColumns, <<Table(Text(Name(1)), <<"dev">>)>>, NoFilter, "drop"),
   Config(JsonColumns, <<Compute("sum", <<"dev">>, "t"), StaticTable>>, NoFilter, "drop"),
   Config(JsonColumns, <<[ConcatStep("t") EXCEPT !.parts = <<>>], StaticTable>>, NoFilter, "drop"),
   Config(JsonColumns, <<StaticTable>>, [mode |-> "whitelist", match |-> <<>>], "drop"),
   Config(JsonColumns, <<StaticTable>>, Match("", "id", <<"int64", 5>>), "drop"),
   Config(JsonColumns, <<StaticTable>>, Match("whitelist", "v", <<"int64", 5>>), "drop"),
   Config(JsonColumns, <<StaticTable>>, Match("whitelist", "id", Text(Name(5))), "drop"),
   Config(JsonColumns, <<Step0("decompress"), Step0("parse_json"), Index(<<"ts">>, "unix"), StaticTable>>,
          NoFilter, "drop")}

-----------------------------------------------------------------------------
(* Waveforms: an envelope of sensors, each of them a message of samples.    *)

Proto(fields) == Payload("proto", fields, <<>>, FALSE)
Packed(elements, odd) == <<"bytes", Payload("packed", <<>>, elements, odd)>>

Samples(elements, odd) ==
  [data |-> Packed(elements, odd), start |-> Text(Date(10)),
   points |-> <<"list", [i \in 1..Len(elements) |-> <<"float64", elements[i]>>]>>,
   rate |-> <<"int64", 3>>, scale |-> <<"float64", 2>>]

Envelope(sensors) == Message(Proto([wave |-> <<"map", sensors>>]))
One(fields) == Envelope("7" :> <<"bytes", Proto(fields)>>)

WaveMessages ==
  {One(Samples(<<4, 5, 6>>, FALSE)),
   One(("label" :> Text(Name(5))) @@ Samples(<<4, MaxInt64 + 1>>, FALSE)),
   One(("label" :> Text(<<<<"wire", 0>>>>)) @@ Samples(<<>>, FALSE)),
   One(Samples(<<4>>, TRUE)),
   One([Samples(<<4, 5>>, FALSE) EXCEPT !.points = <<"list", <<<<"float64", 4>>, Text(Name(3))>>>>]),
   One([Samples(<<4, 5, 6>>, FALSE) EXCEPT !.start = Text(Name(3)), !.scale = <<"float64", 0>>]),
   One([Samples(<<4, 5, 6>>, FALSE) EXCEPT !.rate = <<"int64", MaxInt64>>]),
   One([Samples(<<4>>, FALSE) EXCEPT !.rate = <<"float64", MaxInt64 + 1>>]),
   Envelope(("7" :> <<"bytes", Proto(Samples(<<8>>, FALSE))>>) @@ ("12" :> <<"bytes", Junk>>)),
   Envelope("x" :> <<"bytes", Payload("other", <<>>, <<>>, FALSE)>>),
   Envelope(<<>>)}

EntryStep(on_multiple, allowed) ==
  [step |-> "extract_map_entry", source |-> <<"wave">>, key_target |-> "sensor", value_target |-> "inner",
   on_multiple |-> on_multiple, allowed_keys |-> allowed]
ProtoStep(source, target) == [step |-> "parse_protobuf", source |-> source, target |-> target]
UnpackStep(type, scale, target) ==
  [step |-> "unpack", source |-> <<"data">>, type |-> type, scale |-> scale, target |-> target]
ExplodeStep(source, start, interval, ordinal) ==
  [step |-> "explode", bare |-> FALSE, source |-> source, start |-> start, interval |-> interval,
   target |-> "amp", ordinal |-> ordinal]

WaveColumns(type) ==
  <<Col("sensor", "int64"), Col("amp", type), Col("ord", "int64"), Col("tag", "string"), Col("data", "blob")>>

UnpackSteps ==
  {UnpackStep("uint64", Absent, "arr"), UnpackStep("int16", <<"float64", 3>>, "arr"),
   UnpackStep("float32", <<"source", <<"scale">>>>, "arr")}

ExplodeSteps ==
  {ExplodeStep(<<"arr">>, <<"t0">>, <<"value", 2>>, "ord"),
   ExplodeStep(<<"arr">>, <<"t0">>, <<"by_length", 3 :> 4>>, ""),
   ExplodeStep(<<"points">>, <<"t0">>, <<"source", <<"rate">>, "us">>, "ord"),
   ExplodeStep(<<"points">>, <<"t0">>, <<"source", <<"rate">>, "ns">>, "")}

WaveFilters ==
  {NoFilter, Match("whitelist", "sensor", <<"int64", 7>>), Match("blacklist", "ord", <<"int64", 0>>),
   Match("blacklist", "amp", <<"int64", 4>>)}

Entries == {EntryStep("fail", <<"keys", {"7", "x"}>>), EntryStep("first", Absent)}

WaveSteps(entry, unpack) ==
  <<ProtoStep(<<>>, ""), entry, ProtoStep(<<"inner">>, ""), Timestamp(<<"start">>, "t0"),
    FieldStep(<<"label">>, "tag", "string", "fail"), unpack, StaticTable>>

WaveConfigs ==
  {Config(WaveColumns(type), Append(WaveSteps(entry, unpack), explode), filter, "drop") :
     type \in {"double", "int64"}, entry \in Entries, unpack \in UnpackSteps,
     explode \in ExplodeSteps, filter \in WaveFilters}

AnExplode == ExplodeStep(<<"arr">>, <<"t0">>, <<"value", 2>>, "ord")
FirstEntry == EntryStep("first", Absent)
RawUnpack == UnpackStep("int16", Absent, "arr")

OtherWaveConfigs ==
  {Config(WaveColumns("int64"), WaveSteps(FirstEntry, RawUnpack) \o rest, NoFilter, "drop") :
     rest \in {<<AnExplode, AnExplode>>, <<AnExplode, StaticTable>>, <<Index(<<"start">>, "rfc3339"), AnExplode>>,
               <<[AnExplode EXCEPT !.interval = <<"value", 0>>]>>, <<[AnExplode EXCEPT !.ordinal = "amp"]>>,
               <<[AnExplode EXCEPT !.ordinal = "tag"]>>, <<[AnExplode EXCEPT !.target = "tag"]>>,
               <<[AnExplode EXCEPT !.target = "none"]>>,
               <<[AnExplode EXCEPT !.interval = <<"source", <<"rate">>, "">>]>>,
               <<[step |-> "explode", bare |-> TRUE]>>}}
  \cup {Config(WaveColumns("int64"),
               WaveSteps(FirstEntry, UnpackStep("int16", scale, "amp")), NoFilter, "drop") :
          scale \in {Absent, <<"float64", 0>>}}
  \cup {Config(WaveColumns("int64"), WaveSteps(steps[1], steps[2]), NoFilter, "drop") :
          steps \in {<<EntryStep("last", Absent), RawUnpack>>, <<EntryStep("fail", <<"keys", {}>>), RawUnpack>>,
                    <<FirstEntry, UnpackStep("int24", Absent, "arr")>>}}
  \cup {Config(WaveColumns("double"),
               <<ProtoStep(<<>>, ""), FirstEntry, ProtoStep(<<"inner">>, ""), ProtoStep(<<"label">>, "w"), StaticTable>>,
               NoFilter, "fail")}

MCConfigs == JsonConfigs \cup OtherConfigs \cup WaveConfigs \cup OtherWaveConfigs

(* The values in a message. *)
PartsOf(value) ==
  CASE TypeOf(value) = "map" -> {value[2][key] : key \in DOMAIN value[2]}
    [] TypeOf(value) = "list" -> ToSet(value[2])
    [] TypeOf(value) = "bytes" /\ value[2].kind \in {"json", "proto"} ->
         {value[2].fields[key] : key \in DOMAIN value[2].fields}
    [] TypeOf(value) = "bytes" /\ value[2].kind = "gzip" -> {<<"bytes", value[2].fields.inner>>}
    [] OTHER -> {}

RECURSIVE WithParts(_)
WithParts(values) ==
  LET more == values \cup UNION {PartsOf(value) : value \in values}
  IN  IF more = values THEN values ELSE WithParts(more)

MCValues == WithParts({<<"bytes", m.data>> : m \in JsonMessages \cup WaveMessages})

MCMessages(c) == IF c.transformations[1].step = "parse_protobuf" THEN WaveMessages ELSE JsonMessages
=============================================================================
