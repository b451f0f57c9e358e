--------------------------- MODULE SyntheticData ---------------------------
(***************************************************************************)
(* The offline generator of the sensors' CSV files: readings are made       *)
(* sensor by sensor and written per type in the order of their timestamps. *)
(* The payloads, locations and the JSON are left out.                      *)
(***************************************************************************)
EXTENDS Naturals, SequencesExt, TLC

\* generate_readings: all samples of a sensor, then the next one, type after
\* type; counts[t] is the number of sensors of type t.  Times go up by a step.
GenerateReadings(counts, samples) ==
  FlattenSeq([t \in DOMAIN counts |->
    FlattenSeq([i \in 1 .. counts[t] |->
      [k \in 1 .. samples |-> [type |-> t, sensor |-> i, time |-> k]]])])

\* write_csv_files: the rows of type t, sorted by timestamp and sensor.
WriteCsv(readings, t) ==
  SortSeq(SelectSeq(readings, LAMBDA r : r.type = t),
          LAMBDA r, s : r.time < s.time \/ (r.time = s.time /\ r.sensor < s.sensor))
=============================================================================
