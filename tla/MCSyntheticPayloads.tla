------------------------- MODULE MCSyntheticPayloads -------------------------
(***************************************************************************)
(* Sensors of all kinds, with some of the values of each drawn step.       *)
(***************************************************************************)
EXTENDS SyntheticSensors
=============================================================================
