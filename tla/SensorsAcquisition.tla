------------------------- MODULE SensorsAcquisition -------------------------
(***************************************************************************)
(* The two processes of the sensors' pipeline before the hub: the agent    *)
(* and the edge.  Neither looks at the other, and the broker between them  *)
(* may drop messages: a behaviour has the steps of one of them, and to the *)
(* edge any message may arrive.                                            *)
(***************************************************************************)
EXTENDS CsvSource

CONSTANTS
  None,                 \* a value the device did not send
  Messages,             \* as in SensorsEdge
  MaxLosses, MaxSent    \* as in MqttSubscriber

VARIABLES
  process,                                                \* "agent" or "edge"
  link, subscribed, inbox, sent, losses, main, forwarded  \* as in SensorsEdge

edgeVars == <<link, subscribed, inbox, sent, losses, main, forwarded>>

Edge == INSTANCE SensorsEdge

ASSUME MessagesAssumption == Edge!MessagesAssumption

FlagsAreDue == Edge!FlagsAreDue

EachInit ==
  /\ Init /\ Edge!Init
  /\ process = "agent" \/ (process = "edge" /\ ~loop /\ \A f \in 1 .. Sources : files[f] = <<>>)

EachNext ==
  \/ process = "agent" /\ Next /\ UNCHANGED <<process, edgeVars>>
  \/ process = "edge" /\ Edge!Next /\ UNCHANGED <<process, vars>>

EachSpec == EachInit /\ [][EachNext]_<<process, vars, edgeVars>>
=============================================================================
