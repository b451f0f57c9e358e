-------------------------- MODULE SyntheticPayloads --------------------------
(***************************************************************************)
(* The payloads the offline generator makes for one sensor: values that    *)
(* are pulled back to a mean, with events at steps drawn for the sensor.   *)
(*                                                                         *)
(* A value is kept as the least and the greatest that the draws of its     *)
(* noise can lead to, in thousandths, rounded outwards.  Each step is      *)
(* monotone in the values it starts from, so every sequence of draws stays *)
(* between them.  The daily cycle of car parks and stations is a bound of  *)
(* its own; fields no rule of the edge looks at are left out.              *)
(***************************************************************************)
EXTENDS AnomalyRules

CONSTANTS
  Picks,    \* how many values of a drawn step or phase are taken (bound)
  Samples   \* samples_per_sensor

\* The latest step an event is drawn for is 140 (off_at); _SPECS has 192 samples
\* of a sensor, whatever its type.
PayloadAssumption ==
  Picks \in Nat \ {0, 1} /\ Samples \in Nat /\ Samples > 140 /\ None \notin Int

VARIABLES
  kind,      \* the type of the sensor
  plan,      \* what its factory has drawn
  step,      \* how many payloads were built
  state,     \* the factory's values
  payloads,  \* the last payload, at both ends of the values
  reported   \* flags the payloads so far are certain to get

vars == <<kind, plan, step, state, payloads, reported>>

-----------------------------------------------------------------------------
(* Values between bounds                                                   *)

Between(a, b) == [lo |-> a, hi |-> b]
Exactly(a) == Between(a, a)

Plus(v, w) == Between(v.lo + w.lo, v.hi + w.hi)
AtLeast(v, w) == Between(IF v.lo < w.lo THEN w.lo ELSE v.lo, IF v.hi < w.hi THEN w.hi ELSE v.hi)
AtMost(v, n) == Between(IF v.lo > n THEN n ELSE v.lo, IF v.hi > n THEN n ELSE v.hi)

\* percent of v
Fade(v, percent) == Between((v.lo * percent) \div 100, (v.hi * percent) \div 100 + 1)

\* Mutant: the value is not subtracted from the mean it is pulled to.
MutOu(current, mean, theta, noise) == Plus(Plus(current, Fade(mean, theta)), Between(-noise, noise))

\* current + theta * (mean - current) + noise
Ou(current, mean, theta, noise) ==
  Plus(Plus(Fade(current, 100 - theta), Fade(mean, theta)), Between(-noise, noise))

\* An event planned for step n, and again every so many steps.
Event(n, every) == step >= n /\ (step - n) % every = 0

\* What randint(a, b) may draw.
Randint(a, b) == {a + ((b - a) * k) \div (Picks - 1) : k \in 0 .. Picks - 1}

-----------------------------------------------------------------------------
(* Traffic lights                                                          *)

LightPlans ==
  [cycle : {60, 75, 90, 120}, offset : Randint(0, 3), congested : Randint(12, 24),
   gridlock : Randint(40, 60), off : Randint(90, 140)]

LightState == [queue |-> Between(0, 4000), extra |-> Exactly(0)]

Light ==
  LET span == CASE plan.cycle = 60 -> 3 [] plan.cycle = 75 -> 4 [] plan.cycle = 90 -> 5
                [] plan.cycle = 120 -> 6
  IN <<"red", "green", "yellow", "red">>[(((step \div span) + plan.offset) % 4) + 1]

\* Mutant: the queue of a gridlock starts at the threshold of the rule.
MutJammed(queue) == AtLeast(queue, Exactly(20000))

Jammed(queue) == AtLeast(queue, Exactly(21000))

BuildLight ==
  LET target == CASE Light = "red" -> 7000 [] Light = "yellow" -> 2500 [] Light = "green" -> 1000
      faded == Fade(state.extra, 78)
      busy == IF Event(plan.congested, 36) THEN AtLeast(faded, Between(6000, 8000)) ELSE faded
      jam == Event(plan.gridlock, 84)
      extra == IF jam THEN AtLeast(busy, Exactly(18000)) ELSE busy
      queue == IF jam THEN Jammed(state.queue) ELSE state.queue
  IN [extra |-> extra,
      queue |-> AtLeast(Ou(queue, Plus(Exactly(target), extra), 28, 500), Exactly(0))]

LightPayload(end) ==
  [kind |-> kind, queue |-> (state'.queue[end] + 500) \div 1000,
   state |-> IF Event(plan.off, 144) THEN "off" ELSE Light]

-----------------------------------------------------------------------------
(* Car parks                                                               *)

ParkPlans == [total : {30, 60, 120, 200, 350}, overcrowded : Randint(10, 30), long : Randint(24, 50)]

ParkState == [rate |-> Between(300, 550), stay |-> Exactly(45000), oc |-> Exactly(0), boost |-> Exactly(0)]

BuildPark ==
  LET rush == Event(plan.overcrowded, 48)
      long == Event(plan.long, 72)
      faded == Fade(state.oc, 80)
      moved == Ou(state.rate, Plus(Between(200, 780), faded), 18, 15)
      oc == IF rush THEN AtLeast(faded, Exactly(300)) ELSE faded
      kept == AtMost(AtLeast(moved, Exactly(20)), 980)
      rate == IF rush THEN AtMost(Plus(kept, oc), 980) ELSE kept
      boost == IF long THEN Exactly(260000) ELSE Fade(state.boost, 82)
      stay == IF long THEN AtLeast(state.stay, Exactly(250000)) ELSE state.stay
      usual == Between(35000 + 80 * rate.lo, 35000 + 80 * rate.hi)
  IN [rate |-> rate, oc |-> oc, boost |-> boost,
      stay |-> AtLeast(Ou(stay, Plus(usual, boost), 20, 3000), Exactly(10000))]

ParkPayload(end) ==
  [kind |-> kind, total |-> plan.total, occupied |-> (plan.total * state'.rate[end]) \div 1000,
   stay |-> state'.stay[end] \div 1000]

-----------------------------------------------------------------------------
(* Air quality stations                                                    *)

AirPlans ==
  [unhealthy : Randint(15, 30), very : Randint(50, 70), no2 : Randint(70, 100), o3 : Randint(90, 130)]

Metrics == {"pm25", "pm10", "no2", "o3"}

AirState ==
  [pm25 |-> Exactly(14000), pm10 |-> Exactly(24000), no2 |-> Exactly(22000), o3 |-> Exactly(58000),
   plume |-> [m \in Metrics |-> Exactly(0)]]

BuildAir ==
  LET Raised(v, event, a, b) == IF event THEN AtLeast(v, Between(a, b)) ELSE v
      unhealthy == Event(plan.unhealthy, 72)
      very == Event(plan.very, 144)
      no2 == Event(plan.no2, 144)
      o3 == Event(plan.o3, 192)
      faded == [m \in Metrics |-> Fade(state.plume[m], 83)]
      plume == [pm25 |-> Raised(Raised(faded.pm25, unhealthy, 22000, 26000), very, 42000, 48000),
                pm10 |-> Raised(Raised(faded.pm10, unhealthy, 28000, 34000), very, 52000, 60000),
                no2 |-> Raised(faded.no2, no2, 40000, 50000),
                o3 |-> Raised(faded.o3, o3, 45000, 55000)]
      smoke == Raised(Raised(state.pm25, unhealthy, 36000, 42000), very, 57000, 63000)
      pm25 == AtLeast(Ou(smoke, Plus(Between(11000, 19000), plume.pm25), 12, 800), Exactly(3000))
      dust == Ou(state.pm10, Plus(Plus(pm25, Exactly(8000)), plume.pm10), 14, 1000)
  IN [pm25 |-> pm25,
      pm10 |-> AtLeast(dust, Plus(pm25, Exactly(3000))),
      no2 |-> AtLeast(Ou(Raised(state.no2, no2, 61000, 68000),
                         Plus(Between(18000, 28000), plume.no2), 12, 1200), Exactly(5000)),
      o3 |-> AtLeast(Ou(Raised(state.o3, o3, 102000, 110000),
                        Plus(Between(48000, 62000), plume.o3), 10, 1500), Exactly(15000)),
      plume |-> plume]

AirPayload(end) ==
  [m \in Metrics \cup {"kind"} |-> IF m = "kind" THEN kind ELSE state'[m][end] \div 1000]

-----------------------------------------------------------------------------
(* Energy meters; the power factor is in ten-thousandths                   *)

MeterPlans ==
  [phase : Randint(0, 95), voltage : Randint(36, 60), overload : Randint(72, 100), pf : Randint(48, 80)]

MeterState ==
  [voltage |-> Exactly(229000), current |-> Exactly(17500), pf |-> Exactly(9400),
   off |-> [voltage |-> Exactly(0), current |-> Exactly(0), pf |-> Exactly(0)]]

\* The mean of the current, highest in the evening.
Load ==
  LET quarter == (step + plan.phase) % 96
      away == IF quarter < 72 THEN 72 - quarter ELSE quarter - 72
      load == 15000 + (4000 * (72 - away)) \div 72
  IN Between(load, load + 1)

\* The values once a voltage event has gone up or down.
BuildMeter(jump) ==
  LET overload == Event(plan.overload, 144)
      poor == Event(plan.pf, 120)
      swing == Event(plan.voltage, 96)
      off == [voltage |-> IF swing THEN jump ELSE Fade(state.off.voltage, 78),
              current |-> IF overload THEN Between(16000, 20000) ELSE Fade(state.off.current, 80),
              pf |-> IF poor THEN Between(-1000, -700) ELSE Fade(state.off.pf, 80)]
      voltage == IF swing THEN Plus(Exactly(230000), jump) ELSE state.voltage
      current == IF overload THEN Plus(Load, off.current) ELSE state.current
      pf == IF poor THEN Plus(Exactly(9400), off.pf) ELSE state.pf
  IN [off |-> off,
      voltage |-> Ou(voltage, Plus(Exactly(230000), off.voltage), 18, 500),
      current |-> AtLeast(Ou(current, Plus(Load, off.current), 22, 400), Exactly(2000)),
      pf |-> AtMost(AtLeast(Ou(pf, Plus(Exactly(9400), off.pf), 18, 30), Exactly(7800)), 9900)]

\* Volts are rounded away from 230, which is what the rule can tell; the power
\* in kW is rounded down, and up for the greater end.
MeterPayload(end) ==
  LET v == state'.voltage[end]
      more == IF end = "hi" THEN 1 ELSE 0
  IN [kind |-> kind,
      voltage |-> IF v > 230000 THEN (v + 999) \div 1000 ELSE v \div 1000,
      pf |-> state'.pf[end] \div 100,
      power |-> ((v \div 100 + more) * (state'.current[end] \div 100 + more)) \div 100000]

-----------------------------------------------------------------------------
Kinds == {"traffic_light", "car_park", "air_quality", "energy_meter"}

Plans(k) ==
  CASE k = "traffic_light" -> LightPlans [] k = "car_park" -> ParkPlans
    [] k = "air_quality" -> AirPlans [] k = "energy_meter" -> MeterPlans

Init ==
  /\ kind \in Kinds
  /\ plan \in Plans(kind)
  /\ step = 0
  /\ state = CASE kind = "traffic_light" -> LightState [] kind = "car_park" -> ParkState
               [] kind = "air_quality" -> AirState [] kind = "energy_meter" -> MeterState
  /\ payloads = {}
  /\ reported = {}

\* The flags every payload between the two ends gets.
Certain(ps) == {f \in UNION {DetectAnomalyFlags(p) : p \in ps} : \A p \in ps : f \in DetectAnomalyFlags(p)}

\* The payload of one kind is built from its values, at both of their ends.
Build(k, values, lowest, highest) ==
  /\ kind = k
  /\ state' = values
  /\ payloads' = {lowest, highest}

Next ==
  /\ step < Samples
  /\ \/ Build("traffic_light", BuildLight, LightPayload("lo"), LightPayload("hi"))
     \/ Build("car_park", BuildPark, ParkPayload("lo"), ParkPayload("hi"))
     \/ Build("air_quality", BuildAir, AirPayload("lo"), AirPayload("hi"))
     \/ \E jump \in {Between(24000, 26000), Between(-26000, -24000)} :
          Build("energy_meter", BuildMeter(jump), MeterPayload("lo"), MeterPayload("hi"))
  /\ step' = step + 1
  /\ reported' = reported \cup Certain(payloads')
  /\ UNCHANGED <<kind, plan>>

-----------------------------------------------------------------------------
(* Properties.                                                             *)

\* Whatever the seed, the payloads of a sensor set off the rules its planned
\* events are meant for, but for four: an overcrowded car park, whose event may
\* come at its quiet hour, and unhealthy pm2.5, no2 and o3, whose events the noise
\* may keep below the threshold in the very payload they are planned for.
EventsAreReported ==
  step = Samples =>
    CASE kind = "traffic_light" -> {"gridlock", "congested", "signal_off"} \subseteq reported
      [] kind = "car_park" -> {"long_stay"} \subseteq reported
      [] kind = "air_quality" -> {"very_unhealthy_pm25"} \subseteq reported
      [] kind = "energy_meter" ->
           {"voltage_out_of_range", "poor_power_factor", "power_overload"} \subseteq reported

FirstEvent ==
  CASE kind = "traffic_light" -> plan.congested
    [] kind = "car_park" -> IF plan.long < plan.overcrowded THEN plan.long ELSE plan.overcrowded
    [] kind = "air_quality" -> plan.unhealthy
    [] kind = "energy_meter" -> IF plan.pf < plan.voltage THEN plan.pf ELSE plan.voltage

\* Nor do they set off any rule before the first event, by noise and the time of
\* day alone, and they are payloads the models accept.
QuietBeforeEvents ==
  /\ \A p \in payloads : OccupancyFits(p)
  /\ step <= FirstEvent => \A p \in payloads : DetectAnomalyFlags(p) = {}
=============================================================================
