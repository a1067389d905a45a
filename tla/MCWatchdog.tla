----------------------------- MODULE MCWatchdog -----------------------------
(* Small instances of Watchdog for TLC.  The intervals keep the proportions *)
(* of the defaults: pets at 1.5 times the monitor's interval, the longest   *)
(* backoff equal to the stuck threshold.                                    *)
EXTENDS Watchdog, TLC

CONSTANTS w1, w2

OneWorker == {w1}
TwoWorkers == {w1, w2}
WorkerSymmetry == Permutations(Workers)
=============================================================================
