------------------------------- MODULE MCRoad -------------------------------
(***************************************************************************)
(* The road pipeline up to the hub, over files of different lengths, one   *)
(* without rows, with and without the temperature, sound or with a row     *)
(* that cannot be parsed.                                                  *)
(***************************************************************************)
EXTENDS RoadAcquisition

\* One row at or near each threshold of the axes.
MCAccelerations ==
  <<[y |-> -13499, z |-> 50699], [y |-> 15000, z |-> -17700], [y |-> 0, z |-> -16700]>>

Shapes ==
  {[acc |-> 3, gps |-> 2], [acc |-> 1, gps |-> 2], [acc |-> 2, gps |-> 0],
   [acc |-> 2, gps |-> 1, temp |-> 3], [acc |-> 2, gps |-> 2, temp |-> 1]}

\* A damaged row after the end of the shortest file, second in its batch; and one
\* that is the first of the second batch.
DamagedShapes ==
  {[rows |-> [acc |-> 2, gps |-> 2, temp |-> 1], bad |-> [acc |-> {2}, gps |-> {}, temp |-> {}]],
   [rows |-> [acc |-> 3, gps |-> 3, temp |-> 3], bad |-> [acc |-> {}, gps |-> {}, temp |-> {3}]]}

ShapesInit ==
  /\ SystemInit
  /\ \/ rows \in Shapes /\ \A f \in Files : bad[f] = {}
     \/ [rows |-> rows, bad |-> bad] \in DamagedShapes

ShapesSpec == ShapesInit /\ [][SystemNext]_allVars /\ Fairness
=============================================================================
