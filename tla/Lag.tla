-------------------------------- MODULE Lag --------------------------------
(***************************************************************************)
(* The lag summary of the stats line: the fetch loop observes the lag of   *)
(* each message in a histogram, the logger takes the difference of two     *)
(* cumulative snapshots and estimates quantiles in it.  Estimates are      *)
(* fractions [num, den].                                                   *)
(***************************************************************************)
EXTENDS Sums, Sequences

CONSTANTS Bounds,   \* the ascending finite bounds of the buckets
          Lags      \* the lags observed, some negative or beyond the last bound

ASSUME LagAssumption ==
  /\ Bounds \in Seq(Nat) /\ Len(Bounds) > 0
  /\ \A i \in 2..Len(Bounds) : Bounds[i] > Bounds[i - 1]
  /\ IsFiniteSet(Lags) /\ Lags \subseteq Int

VARIABLES
  hist,       \* messageLag: its count, and how many lags are at or below each bound
  prev,       \* the snapshot of the previous tick
  interval,   \* lag -> how often it was observed since then: history
  summary     \* the lagSummary of the last tick, and the lags it stands for

lagVars == <<hist, prev, interval, summary>>

InfBucket == Len(Bounds) + 1           \* the +Inf bucket

Clamped(lag) == IF lag < 0 THEN 0 ELSE lag
LagValues == {Clamped(x) : x \in Lags}
NoLags == [l \in LagValues |-> 0]
NoSummary == [ok |-> FALSE, of |-> NoLags]

LagInit ==
  /\ hist = [count |-> 0, atMost |-> [i \in DOMAIN Bounds |-> 0]]
  /\ prev = hist
  /\ interval = NoLags
  /\ summary = NoSummary

(* ObserveLag. *)
ObserveLag(lag) ==
  /\ hist' = [count |-> hist.count + 1,
              atMost |-> [i \in DOMAIN Bounds |->
                            hist.atMost[i] + (IF Clamped(lag) <= Bounds[i] THEN 1 ELSE 0)]]
  /\ interval' = [interval EXCEPT ![Clamped(lag)] = @ + 1]
  /\ UNCHANGED <<prev, summary>>

-----------------------------------------------------------------------------
(* bucketDeltas: how many lags of the interval fall into each bucket. *)
BucketDeltas(p, c) ==
  LET below(i) == IF i = 0 THEN 0 ELSE c.atMost[i] - p.atMost[i]
  IN [i \in 1..InfBucket |->
        IF i = InfBucket THEN c.count - p.count - below(i - 1) ELSE below(i) - below(i - 1)]

Lower(i) == IF i = 1 THEN 0 ELSE Bounds[i - 1]
UpperBound(i) == IF i = InfBucket THEN Bounds[Len(Bounds)] ELSE Bounds[i]

(* Fault: the lags before the rank are not those of the buckets below. *)
QuantileUnshifted(q, counts) ==
  LET target == q * SumOver(counts, 1..InfBucket)
      i == Min({j \in 1..InfBucket : counts[j] > 0 /\ 100 * SumOver(counts, 1..j) >= target})
      n == 100 * counts[i]
  IN IF i = InfBucket THEN [num |-> UpperBound(i), den |-> 1]
     ELSE [num |-> Lower(i) * n + (Bounds[i] - Lower(i)) * target, den |-> n]

(* bucketQuantile, q in percent. *)
BucketQuantile(q, counts) ==
  LET target == q * SumOver(counts, 1..InfBucket)
      i == Min({j \in 1..InfBucket : counts[j] > 0 /\ 100 * SumOver(counts, 1..j) >= target})
      before == 100 * SumOver(counts, 1..i - 1)
      n == 100 * counts[i]
  IN IF i = InfBucket THEN [num |-> UpperBound(i), den |-> 1]
     ELSE [num |-> Lower(i) * n + (Bounds[i] - Lower(i)) * (target - before), den |-> n]

MaxBound(counts) == UpperBound(Max({i \in 1..InfBucket : counts[i] > 0}))

(* lagInterval; an interval without lags has no summary. *)
LagInterval(p, c) ==
  LET counts == BucketDeltas(p, c)
  IN [ok |-> TRUE, samples |-> c.count - p.count,
      p50 |-> BucketQuantile(50, counts), p99 |-> BucketQuantile(99, counts),
      maxLE |-> MaxBound(counts), of |-> interval]

(* The lag part of snapshot, logTick and prev = cur. *)
LagTick ==
  /\ summary' = IF hist.count = prev.count THEN NoSummary ELSE LagInterval(prev, hist)
  /\ prev' = hist
  /\ interval' = NoLags
  /\ UNCHANGED hist

(* The first snapshot of the logger's goroutine. *)
LagBaseline ==
  /\ prev' = hist
  /\ interval' = NoLags
  /\ UNCHANGED <<hist, summary>>

-----------------------------------------------------------------------------
(* How many of the lags n, a function from lags to numbers, are at most b. *)
AtMost(n, b) == SumOver(n, {x \in DOMAIN n : x <= b})

(* The lag at the rank of the q-th percentile of n. *)
TrueQuantile(q, n) ==
  Min({l \in DOMAIN n : 100 * AtMost(n, l) >= q * SumOver(n, DOMAIN n)})

(* The estimate is in the bucket that holds the true quantile; beyond the   *)
(* last bound it is that bound.                                             *)
InBucketOf(estimate, lag) ==
  IF lag > Bounds[Len(Bounds)]
  THEN estimate = [num |-> Bounds[Len(Bounds)], den |-> 1]
  ELSE LET i == Min({j \in DOMAIN Bounds : lag <= Bounds[j]})
       IN /\ Lower(i) * estimate.den <= estimate.num
          /\ estimate.num <= Bounds[i] * estimate.den

(* What the stats line says of an interval is about the lags of that very     *)
(* interval: their number, quantiles off by less than a bucket (the "within   *)
(* 2x of truth" of lag.go for every bucket but the first and the tail), and a *)
(* maximum that is no smaller than a quantile.                                *)
LagEstimates ==
  summary.ok =>
    /\ summary.samples = SumOver(summary.of, DOMAIN summary.of)
    /\ InBucketOf(summary.p50, TrueQuantile(50, summary.of))
    /\ InBucketOf(summary.p99, TrueQuantile(99, summary.of))
    /\ summary.p50.num * summary.p99.den <= summary.p99.num * summary.p50.den
    /\ summary.p99.num <= summary.maxLE * summary.p99.den
=============================================================================
