---------------------------- MODULE MCConnector ----------------------------
(* The connector with its breaker for TLC: two messages, of which the filter *)
(* leaves one or both, and one worker.                                       *)
EXTENDS Connector, TLC

CONSTANTS m1, m2, w1

OneWorker == {w1}

Single == {m1}
Twins == {m1, m2}
AllOk == [m \in Messages |-> "ok"]
=============================================================================
