----------------------------- MODULE MCSensors -----------------------------
(***************************************************************************)
(* The agent of the sensors over all small sorted files, one row of which  *)
(* may be damaged, and over a file of the generator; the edge over         *)
(* readings on both sides of every threshold.                              *)
(***************************************************************************)
EXTENDS SensorsAcquisition, SyntheticData

CONSTANTS MaxRows, MaxTime

\* What write_csv_files makes of any readings of one type.
Sorted ==
  {WriteCsv([k \in DOMAIN times |-> [type |-> 1, sensor |-> 1, time |-> times[k]]], 1) :
     times \in UNION {[1 .. n -> 1 .. MaxTime] : n \in 0 .. MaxRows}}

\* A file of the generator: three readings of two sensors.
Generated == WriteCsv(GenerateReadings(<<2>>, 3), 1)

MCContents ==
  {Generated} \cup Sorted \cup UNION {{[file EXCEPT ![k] = Bad] : k \in DOMAIN file} : file \in Sorted}

Payloads ==
  [kind : {"car_park"}, occupied : {18, 19, 21}, total : {20}, stay : {None, 239, 240}] \cup
  [kind : {"traffic_light"}, queue : {9, 10, 19, 20}, state : {"green", "off"}] \cup
  [kind : {"air_quality"}, pm25 : {34, 35, 54, 55, 149, 150}, pm10 : {149, 150},
   no2 : {59, 60}, o3 : {None, 99, 100}] \cup
  [kind : {"energy_meter"}, voltage : {206, 207, 253, 254}, pf : {None, 89, 90}, power : {5, 6}]

MCMessages ==
  {[type |-> p.kind, payload |-> p, flags |-> {}] : p \in Payloads} \cup
  {[type |-> p.kind, payload |-> p, flags |-> {"overcrowded"}] :
     p \in {q \in Payloads : q.kind \in {"car_park", "traffic_light"}}} \cup
  {[type |-> "air_quality", payload |-> p, flags |-> {}] :
     p \in {q \in Payloads : q.kind = "energy_meter"}}
=============================================================================
