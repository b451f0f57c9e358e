----------------------------- MODULE EwmaSeries -----------------------------
(***************************************************************************)
(* The running statistics of one metric of the network anomaly detector,   *)
(* in exact numbers: alpha is 1/5 and the threshold 11/5, so that after n  *)
(* values the mean is mean / 5^(n-1) and the variance var / 25^(n-1).      *)
(***************************************************************************)
EXTENDS Sums

CONSTANTS
  Values,       \* values of the metric
  MinSamples,   \* values before one may be anomalous
  MaxSamples    \* bound of the values

SeriesAssumption == Values \subseteq Nat /\ MinSamples \in Nat /\ MaxSamples \in Nat

VARIABLES
  samples,   \* the values so far
  mean, var, \* scaled by the number of values
  events     \* <<sample, severity>> of the anomalous values

vars == <<samples, mean, var, events>>

Init ==
  /\ samples = <<>>
  /\ mean = 0 /\ var = 0
  /\ events = {}

-----------------------------------------------------------------------------
\* value - mean, scaled like the mean.
Delta(value) == value * Power(5, Len(samples) - 1) - mean

\* z >= percent / 100 of the threshold of 2.2; without a spread z is 0.
Reaches(value, percent) ==
  var > 0 /\ 100 * Square(Delta(value)) >= Square((22 * percent) \div 100) * var

\* _severity_for
Severity(value) ==
  IF Reaches(value, 200) THEN "critical" ELSE IF Reaches(value, 150) THEN "major" ELSE "minor"

\* Mutant: the squares are averaged like the values.
MutVariance(value) == 20 * var + 5 * Square(Delta(value))

\* (1 - alpha) * (variance + alpha * delta^2)
Variance(value) == 20 * var + 4 * Square(Delta(value))

\* _Series.update and what _tick makes of its z.
Update(value) ==
  /\ Len(samples) < MaxSamples
  /\ samples' = Append(samples, value)
  /\ IF samples = <<>>
     THEN mean' = value /\ var' = 0 /\ UNCHANGED events
     ELSE /\ mean' = 5 * mean + Delta(value)
          /\ var' = Variance(value)
          /\ events' = IF Len(samples) + 1 >= MinSamples /\ Reaches(value, 100)
                       THEN events \cup {<<Len(samples) + 1, Severity(value)>>} ELSE events

Next == \E value \in Values : Update(value)

Spec == Init /\ [][Next]_vars

-----------------------------------------------------------------------------
(* Properties.                                                             *)

\* The weight of value i of n, times 5^(n-1): a later one weighs more.
Weight(i, n) == IF i = 1 THEN Power(4, n - 1) ELSE Power(4, n - i) * Power(5, i - 2)

WeightedMean(s) == SumOf([i \in DOMAIN s |-> Weight(i, Len(s)) * s[i]])
WeightedSquares(s) == SumOf([i \in DOMAIN s |-> Weight(i, Len(s)) * Square(s[i])])
WeightedVariance(s) == Power(5, Len(s) - 1) * WeightedSquares(s) - Square(WeightedMean(s))

\* An event is a sample that is the threshold or more, in deviations of the
\* samples before it, from their mean, both under exponential weights; its
\* severity says how many thresholds.  So a metric that has been steady and
\* changes to another steady level is never reported, however far the levels
\* are apart: its z is 0, 2 and less.
EventsAreOutliers ==
  /\ \A n \in 2 .. Len(samples) :
       LET before == SubSeq(samples, 1, n - 1)
           distance == Square(Power(5, n - 2) * samples[n] - WeightedMean(before))
           spread == WeightedVariance(before)
           AtLeast(tenths) == spread > 0 /\ 100 * distance >= Square(tenths) * spread
       IN {e[2] : e \in {f \in events : f[1] = n}} =
            IF n < MinSamples \/ ~AtLeast(22) THEN {}
            ELSE {IF AtLeast(44) THEN "critical" ELSE IF AtLeast(33) THEN "major" ELSE "minor"}
  /\ (\E k \in DOMAIN samples : \A i, j \in DOMAIN samples :
        (i <= k <=> j <= k) => samples[i] = samples[j]) => events = {}
=============================================================================
