------------------------------ MODULE Options ------------------------------
(***************************************************************************)
(* How the connector gets its configuration: LoadConfig resolves each      *)
(* option from the flags, the QDB_NATS_ variables and two layers of        *)
(* defaults, parses the sink's modes and validates the result.  The names  *)
(* are those of connector.Options.  Durations are in milliseconds, a       *)
(* bucket factor in tenths.                                                *)
(***************************************************************************)
EXTENDS Integers

(* The values of f, and of g where f has none. *)
Over(f, g) ==
  [k \in DOMAIN f \cup DOMAIN g |-> IF k \in DOMAIN f THEN f[k] ELSE g[k]]

(* The defaults given to viper. *)
ViperDefault ==
  [NatsEndpoint |-> "default", NatsConsumerName |-> "qdb-connector",
   Workers |-> 4, NatsBatchSize |-> 100,
   QdbCompression |-> "none", QdbEncryption |-> "none",
   QdbPushMode |-> "async", QdbDeduplicationMode |-> "drop",
   CircuitBreakerFailureThreshold |-> 5, CircuitBreakerSuccessThreshold |-> 2,
   CircuitBreakerTimeout |-> 30000, CircuitBreakerJitterMax |-> 100,
   CircuitBreakerHalfOpenBase |-> 1, CircuitBreakerHalfOpenMax |-> 32,
   HealthStuckThreshold |-> 300000,
   HTTPAddr |-> ":9100", StatsInterval |-> 60000,
   MetricsLagBucketStart |-> 1, MetricsLagBucketFactor |-> 20, MetricsLagBucketCount |-> 20,
   MetricsWriteBucketStart |-> 1, MetricsWriteBucketFactor |-> 20, MetricsWriteBucketCount |-> 20,
   Parser |-> "noop", ParserConfig |-> "", ParseErrorAction |-> "drop"]

(* The defaults of the flags: some options have no other one, and the modes *)
(* of the sink have an empty one.                                           *)
FlagDefault ==
  Over([NatsStreamName |-> "", QdbClusterUri |-> "",
        QdbCompression |-> "", QdbEncryption |-> "",
        QdbPushMode |-> "", QdbDeduplicationMode |-> "",
        QdbClientMaxParallelism |-> 0], ViperDefault)

(* Fault: the default of the flag is taken before that of viper. *)
ResolveFlagDefault(s) == Over(s.flags, Over(s.env, FlagDefault))

(* BindPFlags, AutomaticEnv, Unmarshal: a flag that was given, then a       *)
(* variable that is not empty, then viper's default, then the flag's.       *)
Resolve(s) == Over(s.flags, Over(s.env, Over(ViperDefault, FlagDefault)))

-----------------------------------------------------------------------------
(* parseAndSetFields, parseCompression, parseEncryption, parsePushMode and  *)
(* parseDeduplicationMode: the empty set is an error, and an empty value    *)
(* leaves the zero value of the field, of the push mode excepted.           *)

ParseMode(value, valid, zero) ==
  IF value = "" THEN {zero} ELSE {value} \cap valid

Compression(o) == ParseMode(o.QdbCompression, {"none", "balanced"}, "none")
Encryption(o) == ParseMode(o.QdbEncryption, {"none", "aes"}, "none")
PushMode(o) == ParseMode(o.QdbPushMode, {"transactional", "async", "fast"}, "async")
DeduplicationMode(o) == ParseMode(o.QdbDeduplicationMode, {"disabled", "drop", "upsert"}, "disabled")

(* The sink's options as FromOptionsProvider hands them to NewSink; the     *)
(* retry limit is the sink's own default, no option sets it.                *)
SinkOptions(o) ==
  {[Compression |-> c, Encryption |-> e, PushMode |-> p, DeduplicationMode |-> d,
    ClusterUri |-> o.QdbClusterUri,
    ClientMaxParallelism |-> o.QdbClientMaxParallelism,
    RetryAttempts |-> 10] :
   c \in Compression(o), e \in Encryption(o), p \in PushMode(o), d \in DeduplicationMode(o)}

-----------------------------------------------------------------------------
ValidateBucketConfig(start, factor, count) ==
  start > 0 /\ factor > 10 /\ count \in 1..64

ValidateHalfOpen(o) ==
  /\ o.CircuitBreakerHalfOpenBase > 0
  /\ \/ o.CircuitBreakerHalfOpenMax = 0
     \/ o.CircuitBreakerHalfOpenMax \in o.CircuitBreakerHalfOpenBase..1000000

(* A configuration file: "file" exists, "missing" does not, "../file" is a  *)
(* path with "..".                                                          *)
ValidateParser(o) ==
  /\ o.Parser \in {"yaml", "noop"}
  /\ o.ParseErrorAction \in {"drop", "fail"}
  /\ o.Parser = "yaml" => o.ParserConfig # ""
  /\ o.ParserConfig \in {"", "file"}

ValidateOptions(o) ==
  /\ o.Workers > 0
  /\ o.NatsStreamName # ""
  /\ o.NatsEndpoint # ""
  /\ o.CircuitBreakerFailureThreshold > 0
  /\ o.CircuitBreakerSuccessThreshold > 0
  /\ o.CircuitBreakerTimeout > 0
  /\ ValidateHalfOpen(o)
  /\ o.CircuitBreakerJitterMax \in 0..(o.CircuitBreakerTimeout \div 2)
  /\ o.HealthStuckThreshold > 0
  /\ o.StatsInterval >= 0
  /\ o.HTTPAddr \in {"", ":9100"}           \* others do not split into host and port
  /\ ValidateBucketConfig(o.MetricsLagBucketStart, o.MetricsLagBucketFactor,
                          o.MetricsLagBucketCount)
  /\ ValidateBucketConfig(o.MetricsWriteBucketStart, o.MetricsWriteBucketFactor,
                          o.MetricsWriteBucketCount)
  /\ ValidateParser(o)

(* LoadConfig on arguments that parse: the options, or nothing when there   *)
(* is an error.                                                             *)
LoadConfig(s) ==
  LET o == Resolve(s)
  IN {x \in {o} : SinkOptions(o) # {} /\ ValidateOptions(o)}

(* source.NewSource: what only the source asks of its options. *)
ValidSource(o) == o.NatsConsumerName # ""
=============================================================================
