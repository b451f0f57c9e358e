----------------------------- MODULE SensorsEdge -----------------------------
(***************************************************************************)
(* The edge of the sensors' pipeline: one client that receives readings,   *)
(* adds anomaly flags to those of the device and publishes the result.     *)
(***************************************************************************)
EXTENDS MqttSubscriber, AnomalyRules

CONSTANT Messages   \* [type, payload, flags]: readings with the flags of the device

\* What the payload models declare.  The values are in units small enough to
\* be whole, as they are only compared; those that may be missing are None.
MessagesAssumption ==
  /\ None \notin Int
  /\ \A m \in Messages :
       LET p == m.payload
           optional == Int \cup {None}
       IN \/ p.kind = "car_park" /\ p.occupied \in Int /\ p.total \in Int /\ p.stay \in optional
          \/ p.kind = "traffic_light" /\ p.queue \in Int
          \/ p.kind = "air_quality" /\ p.pm25 \in Int /\ p.pm10 \in Int /\ p.no2 \in Int /\ p.o3 \in optional
          \/ p.kind = "energy_meter" /\ p.voltage \in Int /\ p.pf \in optional /\ p.power \in Int

VARIABLES
  main,        \* where run() is
  forwarded    \* what was published for the hub: number and flags

vars == <<clientVars, main, forwarded>>

Init ==
  /\ ClientInit
  /\ main = "start"
  /\ forwarded = <<>>

-----------------------------------------------------------------------------
\* connect() raises when the broker is not there; start() loops.
Connect ==
  /\ main = "start"
  /\ \/ main' = "loop" /\ Dial
     \/ main' = "finally" /\ UNCHANGED clientVars
  /\ UNCHANGED forwarded

Redial ==
  /\ main = "loop" /\ Dial
  /\ UNCHANGED <<main, forwarded>>

\* _on_connect subscribes after every connection.
OnConnect ==
  /\ main = "loop" /\ link = "dialled"
  /\ link' = "up" /\ subscribed' = TRUE
  /\ UNCHANGED <<inbox, sent, losses, main, forwarded>>

\* The reading with the flags of the device and of the rules.
Enriched(n) == [number |-> n, flags |-> sent[n].flags \cup DetectAnomalyFlags(sent[n].payload)]

\* _on_message: a message that is not valid is dropped, and so is one whose
\* publish returns an error.
OnMessage ==
  /\ main = "loop" /\ inbox # <<>>
  /\ inbox' = Tail(inbox)
  /\ \/ IsValid(sent[Head(inbox)]) /\ forwarded' = Append(forwarded, Enriched(Head(inbox)))
     \/ UNCHANGED forwarded
  /\ UNCHANGED <<link, subscribed, sent, losses, main>>

\* KeyboardInterrupt, also while connecting.
Interrupt ==
  /\ main \in {"start", "loop"}
  /\ main' = "finally"
  /\ UNCHANGED <<clientVars, forwarded>>

Stop ==
  /\ main = "finally"
  /\ Hangup
  /\ main' = "stopped"
  /\ UNCHANGED <<sent, losses, forwarded>>

Outside ==
  /\ Lose \/ \E message \in Messages : Arrive(message)
  /\ UNCHANGED <<main, forwarded>>

Next == Connect \/ Redial \/ OnConnect \/ OnMessage \/ Interrupt \/ Stop \/ Outside

Spec == Init /\ [][Next]_vars

-----------------------------------------------------------------------------
(* Properties.                                                             *)

\* The ranges of a value in which a flag is due: low is in the range, high not.
From(value, low) == value # None /\ low <= value
Within(value, low, high) == From(value, low) /\ ~From(value, high)

\* The flags a payload must have, each on its own terms.
Due(p) ==
  {f \in {"overcrowded", "long_stay"} : p.kind = "car_park" /\
     CASE f = "overcrowded" -> 20 * (p.total - p.occupied) <= p.total
       [] f = "long_stay" -> From(p.stay, 240)} \cup
  {f \in {"gridlock", "congested", "signal_off"} : p.kind = "traffic_light" /\
     CASE f = "gridlock" -> From(p.queue, 20)
       [] f = "congested" -> Within(p.queue, 10, 20)
       [] f = "signal_off" -> p.state = "off"} \cup
  {f \in {"hazardous_pm25", "very_unhealthy_pm25", "unhealthy_pm25",
          "unhealthy_pm10", "high_no2", "high_o3"} : p.kind = "air_quality" /\
     CASE f = "hazardous_pm25" -> From(p.pm25, 150)
       [] f = "very_unhealthy_pm25" -> Within(p.pm25, 55, 150)
       [] f = "unhealthy_pm25" -> Within(p.pm25, 35, 55)
       [] f = "unhealthy_pm10" -> From(p.pm10, 150)
       [] f = "high_no2" -> From(p.no2, 60)
       [] f = "high_o3" -> From(p.o3, 100)} \cup
  {f \in {"voltage_out_of_range", "poor_power_factor", "power_overload"} :
     p.kind = "energy_meter" /\
     CASE f = "voltage_out_of_range" -> ~Within(p.voltage, 207, 254)
       [] f = "poor_power_factor" -> p.pf # None /\ ~From(p.pf, 90)
       [] f = "power_overload" -> From(p.power, 6)}

\* A reading that reaches the hub has the flags its values call for, those the
\* device had set, and no others.
FlagsAreDue ==
  \A n \in DOMAIN forwarded :
    LET m == sent[forwarded[n].number] IN forwarded[n].flags = m.flags \cup Due(m.payload)
=============================================================================
