--------------------------- MODULE LatencyQuantile ---------------------------
(***************************************************************************)
(* A quantile of the request latencies: _histogram_quantile over the       *)
(* Prometheus histogram that the middleware fills.                         *)
(***************************************************************************)
EXTENDS Integers, SequencesExt

CONSTANTS
  Labels,            \* label sets (method and path) of the histogram
  Num, Den,          \* the quantile; the detector asks for 19/20
  Bounds,            \* the finite upper bounds of the buckets, increasing
  MaxObservations    \* bound of the observations

QuantileAssumption ==
  /\ IsFiniteSet(Labels) /\ MaxObservations \in Nat
  /\ Num \in Nat /\ Den \in Nat \ {0} /\ Num <= Den
  /\ Bounds \in Seq(Nat \ {0})
  /\ \A i, j \in DOMAIN Bounds : i < j => Bounds[i] < Bounds[j]

\* The bucket after the last bound is the one of +Inf.
Inf == Len(Bounds) + 1
Buckets == 1 .. Inf

VARIABLE count   \* count[l][b]: the observations of label set l in bucket b

Init == count = [l \in Labels |-> [b \in Buckets |-> 0]]

\* What the buckets up to b hold of one label set: Prometheus keeps the sums.
Cumulative(l, b) ==
  LET sum[c \in 0 .. Inf] == IF c = 0 THEN 0 ELSE sum[c - 1] + count[l][c]
  IN  sum[b]

\* What they hold of all label sets, which are collected in some order.
LabelSeq == SetToSeq(Labels)
BucketTotal(b) ==
  LET sum[i \in 0 .. Cardinality(Labels)] ==
        IF i = 0 THEN 0 ELSE sum[i - 1] + Cumulative(LabelSeq[i], b)
  IN  sum[Cardinality(Labels)]
TotalCount == BucketTotal(Inf)

\* The middleware observes a latency of bucket b.
Observe(l, b) ==
  /\ TotalCount < MaxObservations
  /\ count' = [count EXCEPT ![l][b] = @ + 1]

Next == \E l \in Labels, b \in Buckets : Observe(l, b)

Spec == Init /\ [][Next]_count

-----------------------------------------------------------------------------
\* The first bucket that holds that share of the observations.
Crossed == CHOOSE b \in Buckets :
  /\ Den * BucketTotal(b) >= Num * TotalCount
  /\ \A c \in 1 .. b - 1 : Den * BucketTotal(c) < Num * TotalCount

Bound(b) == IF b = 0 THEN 0 ELSE Bounds[b]
Below(b) == IF b = 0 THEN 0 ELSE BucketTotal(b)

\* Mutant: the observations below the bucket are not subtracted.
MutInterpolated(b) ==
  LET inside == BucketTotal(b) - Below(b - 1) IN
  <<Bound(b - 1) * Den * inside + (Bound(b) - Bound(b - 1)) * Num * TotalCount, Den * inside>>

\* A point between the bounds of bucket b, as a fraction; the lower bound of an
\* empty bucket.
Interpolated(b) ==
  LET inside == BucketTotal(b) - Below(b - 1) IN
  IF inside = 0 THEN <<Bound(b - 1), 1>>
  ELSE <<Bound(b - 1) * Den * inside
           + (Bound(b) - Bound(b - 1)) * (Num * TotalCount - Den * Below(b - 1)),
         Den * inside>>

\* Nothing observed: 0.  Beyond the last bound: that bound.
Quantile ==
  IF TotalCount = 0 THEN <<0, 1>>
  ELSE IF Crossed = Inf THEN <<Bound(Inf - 1), 1>>
  ELSE Interpolated(Crossed)

-----------------------------------------------------------------------------
(* Properties.                                                             *)

AtMost(p, q) == p[1] * q[2] <= q[1] * p[2]

\* A slower request than those of the quantile's bucket never lowers it, and a
\* faster one never raises it.
QuantileFollows ==
  [][TotalCount > 0 =>
       \A l \in Labels, b \in Buckets : count'[l][b] > count[l][b] =>
         /\ b > Crossed => AtMost(Quantile, Quantile')
         /\ b < Crossed => AtMost(Quantile', Quantile)]_count
=============================================================================
