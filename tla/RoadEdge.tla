------------------------------ MODULE RoadEdge ------------------------------
(***************************************************************************)
(* The edge of the road pipeline: AgentMqttAdapter receives the agent's    *)
(* messages in the main thread, process_agent_data classifies the road and *)
(* HubMqttAdapter publishes with a client and a network thread of its own. *)
(***************************************************************************)
EXTENDS Integers, MqttSubscriber

CONSTANTS
  Readings,   \* accelerometer values [y, z] of valid messages
  Invalid     \* a message that is not valid

VARIABLES
  main,        \* where main() is
  connected,   \* HubMqttAdapter._connected
  hubLoop,     \* the network thread of the hub's client runs
  forwarded,   \* what was published for the hub: number and road state
  cut          \* ghost: an interrupt came where main() does not clean up

vars == <<clientVars, main, connected, hubLoop, forwarded, cut>>

Init ==
  /\ ClientInit
  /\ main = "start"
  /\ connected = FALSE /\ hubLoop = FALSE
  /\ forwarded = <<>> /\ cut = FALSE

-----------------------------------------------------------------------------
(* process_agent_data                                                      *)

Abs(n) == IF n < 0 THEN -n ELSE n

Spike(r) == Abs(r.y)
Deviation(r) == Abs(r.z - 16500)

\* Mutant: both axes must be bad.
MutRoadState(r) ==
  IF Spike(r) >= 15000 /\ Deviation(r) >= 34200 THEN "BAD"
  ELSE IF Spike(r) >= 13500 \/ Deviation(r) >= 33200 THEN "WARNING"
  ELSE "GOOD"

RoadState(r) ==
  IF Spike(r) >= 15000 \/ Deviation(r) >= 34200 THEN "BAD"
  ELSE IF Spike(r) >= 13500 \/ Deviation(r) >= 33200 THEN "WARNING"
  ELSE "GOOD"

-----------------------------------------------------------------------------
(* The adapters                                                            *)

\* HubMqttAdapter.connect: the client connects, or raises when the broker is not
\* there, and its network thread is started (up to then nothing is left behind).
HubConnect ==
  /\ main = "start"
  /\ \/ main' = "looping" /\ hubLoop' = TRUE
     \/ main' = "finally" /\ UNCHANGED hubLoop
  /\ UNCHANGED <<clientVars, connected, forwarded, cut>>

\* Then it is marked as connected.
HubConnected ==
  /\ main = "looping"
  /\ main' = "hub" /\ connected' = TRUE
  /\ UNCHANGED <<clientVars, hubLoop, forwarded, cut>>

\* Mutant: when the second connection fails, nothing is cleaned up.
MutAgentConnect ==
  /\ main = "hub"
  /\ \/ main' = "loop" /\ Dial
     \/ main' = "stopped" /\ UNCHANGED clientVars
  /\ UNCHANGED <<connected, hubLoop, forwarded, cut>>

\* AgentMqttAdapter.connect goes on with its own client, and start() loops.
AgentConnect ==
  /\ main = "hub"
  /\ \/ main' = "loop" /\ Dial
     \/ main' = "finally" /\ UNCHANGED clientVars
  /\ UNCHANGED <<connected, hubLoop, forwarded, cut>>

\* The loop dials again.
Redial ==
  /\ main = "loop" /\ Dial
  /\ UNCHANGED <<main, connected, hubLoop, forwarded, cut>>

\* Mutant: the subscription is made once.
MutOnConnect ==
  /\ main = "loop" /\ link = "dialled"
  /\ link' = "up" /\ subscribed' = (losses = 0)
  /\ UNCHANGED <<inbox, sent, losses, main, connected, hubLoop, forwarded, cut>>

\* _on_connect subscribes after every connection.
OnConnect ==
  /\ main = "loop" /\ link = "dialled"
  /\ link' = "up" /\ subscribed' = TRUE
  /\ UNCHANGED <<inbox, sent, losses, main, connected, hubLoop, forwarded, cut>>

\* The broker refuses; _on_connect only logs it.
Refused ==
  /\ main = "loop" /\ link = "dialled" /\ losses < MaxLosses
  /\ Lose
  /\ UNCHANGED <<main, connected, hubLoop, forwarded, cut>>

Entry(n) == [number |-> n, state |-> RoadState(sent[n])]

\* on_message: an invalid message is dropped, and so is one whose publish
\* raises or returns an error.
OnMessage ==
  /\ main = "loop" /\ inbox # <<>>
  /\ inbox' = Tail(inbox)
  /\ \/ sent[Head(inbox)] # Invalid /\ forwarded' = Append(forwarded, Entry(Head(inbox)))
     \/ UNCHANGED forwarded
  /\ UNCHANGED <<link, subscribed, sent, losses, main, connected, hubLoop, cut>>

-----------------------------------------------------------------------------
\* KeyboardInterrupt: main() goes on to stop().
Interrupt ==
  /\ main \in {"start", "looping", "hub", "loop"}
  /\ main' = "finally" /\ cut' = (main = "looping")
  /\ UNCHANGED <<clientVars, connected, hubLoop, forwarded>>

\* KeyboardInterrupt inside stop(), after an exception or another interrupt.
StopInterrupted ==
  /\ main \in {"finally", "stopHub"}
  /\ main' = "stopped" /\ cut' = TRUE
  /\ UNCHANGED <<clientVars, connected, hubLoop, forwarded>>

\* AgentMqttAdapter.stop: the client disconnects, then the hub's is stopped.
Disconnect ==
  /\ main = "finally"
  /\ Hangup
  /\ main' = "stopHub"
  /\ UNCHANGED <<sent, losses, connected, hubLoop, forwarded, cut>>

HubStop ==
  /\ main = "stopHub"
  /\ IF connected THEN hubLoop' = FALSE /\ connected' = FALSE ELSE UNCHANGED <<hubLoop, connected>>
  /\ main' = "stopped"
  /\ UNCHANGED <<clientVars, forwarded, cut>>

Outside ==
  /\ \/ Lose
     \/ \E message \in Readings \cup {Invalid} : Arrive(message)
  /\ UNCHANGED <<main, connected, hubLoop, forwarded, cut>>

Next ==
  \/ HubConnect \/ HubConnected \/ AgentConnect \/ Redial \/ OnConnect \/ Refused \/ OnMessage
  \/ Interrupt \/ StopInterrupted \/ Disconnect \/ HubStop \/ Outside

Spec == Init /\ [][Next]_vars

-----------------------------------------------------------------------------
(* Properties.                                                             *)

Badness == [GOOD |-> 0, WARNING |-> 1, BAD |-> 2]

\* A road that is at least as rough on both axes is never classified better, and
\* one axis is enough: the state is the worse of those of the axes alone.
WorseIsWorse ==
  \A m, n \in DOMAIN forwarded :
    LET a == sent[forwarded[m].number]
        b == sent[forwarded[n].number]
        state(r) == Badness[RoadState(r)]
        alone == {state([y |-> a.y, z |-> 16500]), state([y |-> 0, z |-> a.z])}
    IN /\ Spike(a) <= Spike(b) /\ Deviation(a) <= Deviation(b) =>
            Badness[forwarded[m].state] <= Badness[forwarded[n].state]
       /\ Badness[forwarded[m].state] \in alone
       /\ \A s \in alone : s <= Badness[forwarded[m].state]

\* Whichever step of starting failed and wherever main() was interrupted, it
\* leaves no network thread and no subscription behind, unless an interrupt came
\* between loop_start() and the assignment that tells stop() of it, or inside
\* stop().
NoThreadLeft == main = "stopped" /\ ~cut => ~hubLoop /\ ~connected /\ ~subscribed

\* After a loss the edge subscribes again.
SubscribedAgain ==
  main = "loop" /\ ~subscribed ~> subscribed \/ main # "loop"
=============================================================================
