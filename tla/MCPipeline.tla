----------------------------- MODULE MCPipeline -----------------------------
(* Small instances of Pipeline for TLC. *)
EXTENDS Pipeline, TLC

CONSTANTS m1, m3, w1, w2

TwoWorkers == {w1, w2}
WorkerSymmetry == Permutations(Workers)

(* A message with rows and one that fails to parse. *)
Pair == {m1, m3}
PairOutcome == m1 :> "ok" @@ m3 :> "error"
=============================================================================
