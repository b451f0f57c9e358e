---------------------------- MODULE AnomalyRules ----------------------------
(***************************************************************************)
(* detect_anomaly_flags: the flags a payload gets at the edge.  A payload  *)
(* is a record of its kind; None is a value the device did not send.  The  *)
(* power factor is in hundredths.                                          *)
(***************************************************************************)
EXTENDS Integers

CONSTANT None

\* flag when the condition holds
When(condition, flag) == IF condition THEN {flag} ELSE {}

\* occupancy_rate >= 0.95
CarParkFlags(p) ==
  When(100 * p.occupied >= 95 * p.total, "overcrowded")
    \cup When(p.stay # None /\ p.stay >= 240, "long_stay")

TrafficLightFlags(p) ==
  (IF p.queue >= 20 THEN {"gridlock"} ELSE When(p.queue >= 10, "congested"))
    \cup When(p.state = "off", "signal_off")

\* Mutant: the levels are tested from below.
MutAirQualityFlags(p) ==
  (IF p.pm25 >= 35 THEN {"unhealthy_pm25"}
   ELSE IF p.pm25 >= 55 THEN {"very_unhealthy_pm25"}
   ELSE When(p.pm25 >= 150, "hazardous_pm25"))
    \cup When(p.pm10 >= 150, "unhealthy_pm10")
    \cup When(p.no2 >= 60, "high_no2")
    \cup When(p.o3 # None /\ p.o3 >= 100, "high_o3")

AirQualityFlags(p) ==
  (IF p.pm25 >= 150 THEN {"hazardous_pm25"}
   ELSE IF p.pm25 >= 55 THEN {"very_unhealthy_pm25"}
   ELSE When(p.pm25 >= 35, "unhealthy_pm25"))
    \cup When(p.pm10 >= 150, "unhealthy_pm10")
    \cup When(p.no2 >= 60, "high_no2")
    \cup When(p.o3 # None /\ p.o3 >= 100, "high_o3")

EnergyMeterFlags(p) ==
  When(~(207 <= p.voltage /\ p.voltage <= 253), "voltage_out_of_range")
    \cup When(p.pf # None /\ p.pf < 90, "poor_power_factor")
    \cup When(p.power >= 6, "power_overload")

DetectAnomalyFlags(p) ==
  CASE p.kind = "car_park" -> CarParkFlags(p)
    [] p.kind = "traffic_light" -> TrafficLightFlags(p)
    [] p.kind = "air_quality" -> AirQualityFlags(p)
    [] p.kind = "energy_meter" -> EnergyMeterFlags(p)

-----------------------------------------------------------------------------
(* Validation                                                              *)

\* _check_occupancy of CarParkPayload
OccupancyFits(p) == p.kind = "car_park" => p.occupied <= p.total

\* _check_sensor_type_matches_payload of SensorReading
TypeMatches(m) == m.type = m.payload.kind

\* model_validate_json takes the message.
IsValid(m) == OccupancyFits(m.payload) /\ TypeMatches(m)
=============================================================================
