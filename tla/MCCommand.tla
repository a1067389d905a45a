----------------------------- MODULE MCCommand -----------------------------
(* The process for TLC: the command lines differ from a valid one in up to  *)
(* two options; each workload exercises one part of the telemetry.          *)
EXTENDS Command

CONSTANTS w1, w2

TwoWorkers == {w1, w2}

-----------------------------------------------------------------------------
(* Values at and beyond the edges of each option. *)
Edges ==
  [NatsEndpoint |-> {""}, NatsStreamName |-> {""}, NatsConsumerName |-> {""},
   QdbClusterUri |-> {""},
   QdbCompression |-> {"", "balanced", "bad"}, QdbEncryption |-> {"", "aes", "bad"},
   QdbPushMode |-> {"", "fast", "bad"}, QdbDeduplicationMode |-> {"", "disabled", "bad"},
   Workers |-> {0, 1},
   CircuitBreakerFailureThreshold |-> {0}, CircuitBreakerSuccessThreshold |-> {0},
   CircuitBreakerTimeout |-> {0, 150}, CircuitBreakerJitterMax |-> {-1, 0, 20000},
   CircuitBreakerHalfOpenBase |-> {0, 33}, CircuitBreakerHalfOpenMax |-> {0, 1000001},
   HealthStuckThreshold |-> {0},
   HTTPAddr |-> {"", "bad"}, StatsInterval |-> {-1, 0},
   MetricsLagBucketStart |-> {0}, MetricsLagBucketFactor |-> {10},
   MetricsLagBucketCount |-> {0, 65},
   MetricsWriteBucketStart |-> {0}, MetricsWriteBucketFactor |-> {10},
   MetricsWriteBucketCount |-> {0, 64},
   Parser |-> {"yaml", "bad"}, ParserConfig |-> {"file", "missing", "../file"},
   ParseErrorAction |-> {"fail", "bad"}]

Empty == [k \in {} |-> 0]
Changes == UNION {{k :> v : v \in Edges[k]} : k \in DOMAIN Edges}

(* A variable that is set to nothing counts as not set. *)
EnvChanges ==
  Changes \ {k :> "" : k \in {"NatsEndpoint", "NatsStreamName", "NatsConsumerName",
                              "QdbClusterUri", "QdbCompression", "QdbEncryption",
                              "QdbPushMode", "QdbDeduplicationMode", "HTTPAddr"}}

Required == "NatsStreamName" :> "events" @@ "QdbClusterUri" :> "qdb"

(* systemd asks for a keep-alive where the probes and the stats are left on. *)
CommandLine(ask, malformed, flags, env) ==
  [ask |-> ask, malformed |-> malformed, flags |-> flags, env |-> env,
   systemd |-> {"HTTPAddr", "StatsInterval"} \cap (DOMAIN flags \cup DOMAIN env) = {}]

CommandLines ==
  {CommandLine(a, m, Required, Empty) :
     a \in {"run", "help", "version"}, m \in {"none", "flag", "env"}}
  \cup {CommandLine("run", "none", c @@ d @@ Required, Empty) : c \in Changes, d \in Changes}
  \cup {CommandLine("run", "none", c @@ Required, d) : c \in Changes, d \in EnvChanges}

-----------------------------------------------------------------------------
Batch(bad, unusable, empty, filtered, carrying, a, b) ==
  [failed |-> bad, dropped |-> unusable, empty |-> empty, filtered |-> filtered, carrying |-> carrying,
   rows |-> "a" :> a @@ "b" :> b]

Workload(batches, minutes, lags, backlog) ==
  [batches |-> batches, minutes |-> minutes, lags |-> lags, backlog |-> backlog]

(* Messages that fail, are dropped or filtered or parse to nothing, alone    *)
(* and in batches of two workers; tables over several minutes; lags; the     *)
(* backlog.                                                                  *)
SomeWorkloads ==
  {Workload(<<Batch(1, 0, 0, 0, 0, 0, 0)>>, 0, 0, FALSE),
   Workload(<<Batch(1, 0, 1, 1, 0, 0, 0)>>, 0, 0, FALSE),
   Workload(<<Batch(1, 1, 0, 0, 1, 2, 0)>>, 0, 0, FALSE),
   Workload(<<Batch(0, 1, 0, 0, 1, 2, 0), Batch(0, 0, 0, 0, 1, 0, 1)>>, 0, 0, FALSE),
   Workload(<<Batch(0, 0, 0, 0, 2, 1, 1)>>, 2, 0, FALSE),
   Workload(<<>>, 0, 2, FALSE),
   Workload(<<>>, 0, 0, TRUE)}

TwoTables == {"a", "b"}
SomeBounds == <<1, 2, 4>>
SomeLags == {-1, 1, 3, 5}
=============================================================================
