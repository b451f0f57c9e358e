-------------------------- MODULE NetworkAnalytics --------------------------
(***************************************************************************)
(* The detector of the network's anomalies at its three levels: the task   *)
(* beside the requests, the statistics of one series, and the quantile of  *)
(* the latencies.  A behaviour has the steps of one level.                 *)
(***************************************************************************)
EXTENDS NetworkAnomaly

CONSTANTS Values, MinSeries, MaxSeries, Labels, Num, Den, Bounds, MaxObservations

VARIABLES
  level,                        \* "task", "series" or "quantile"
  values, mean, var, events,    \* as in EwmaSeries
  count                         \* as in LatencyQuantile

seriesVars == <<values, mean, var, events>>

Series == INSTANCE EwmaSeries WITH
  MinSamples <- MinSeries, MaxSamples <- MaxSeries, samples <- values

Latency == INSTANCE LatencyQuantile

ASSUME SeriesAssumption == Series!SeriesAssumption
ASSUME QuantileAssumption == Latency!QuantileAssumption

EventsAreOutliers == Series!EventsAreOutliers
QuantileFollows == Latency!QuantileFollows

LevelInit ==
  Init /\ Series!Init /\ Latency!Init /\ level \in {"task", "series", "quantile"}

EachLevel ==
  /\ LevelInit
  /\ [][\/ level = "task" /\ Next /\ UNCHANGED <<level, seriesVars, count>>
        \/ level = "series" /\ Series!Next /\ UNCHANGED <<level, vars, count>>
        \/ level = "quantile" /\ Latency!Next /\ UNCHANGED <<level, vars, seriesVars>>
       ]_<<level, vars, seriesVars, count>>
=============================================================================
