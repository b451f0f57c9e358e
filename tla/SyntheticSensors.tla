-------------------------- MODULE SyntheticSensors --------------------------
(***************************************************************************)
(* The sensors of the generator, under names that can stand beside those   *)
(* of the agent and the edge (SensorsAcquisition), which read what it      *)
(* writes.                                                                 *)
(***************************************************************************)
CONSTANTS
  NotSent,        \* None in SyntheticPayloads
  Picks, Samples  \* as in SyntheticPayloads

VARIABLES kind, plan, step, state, payloads, reported  \* as in SyntheticPayloads

Gen == INSTANCE SyntheticPayloads WITH None <- NotSent

ASSUME PayloadAssumption == Gen!PayloadAssumption

GeneratorSpec == Gen!Init /\ [][Gen!Next]_(Gen!vars)

\* Whatever the seed, the payloads of a sensor set off the rules its planned
\* events are meant for, all but overcrowded, unhealthy_pm25, high_no2 and high_o3
\* (the payload factories, detect_anomaly_flags).
EventsAreReported == Gen!EventsAreReported

\* The payloads before the first event set off none (the same).
QuietBeforeEvents == Gen!QuietBeforeEvents
=============================================================================
