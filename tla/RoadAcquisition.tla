-------------------------- MODULE RoadAcquisition --------------------------
(***************************************************************************)
(* The agent and the edge of the road pipeline with the broker between     *)
(* them: what the agent publishes is what the edge may receive.            *)
(***************************************************************************)
EXTENDS FileDatasource

CONSTANTS
  Accelerations,   \* the rows of the accelerometer's file: [y, z]
  Invalid,         \* a message that is not valid; somebody else publishes it
  MaxLosses        \* bound of the losses of the edge's link

ASSUME AccelerationAssumption ==
  \A n \in 1 .. MaxRows : Accelerations[n].y \in Int /\ Accelerations[n].z \in Int

VARIABLES
  link, subscribed, inbox, sent, losses,   \* as in MqttSubscriber
  main, connected, hubLoop, forwarded, cut \* as in RoadEdge

agentVars == vars
edgeVars == <<link, subscribed, inbox, sent, losses, main, connected, hubLoop, forwarded, cut>>

Edge == INSTANCE RoadEdge WITH
  Readings <- {}, MaxSent <- MaxRecords + BatchSize

\* The n-th record the agent publishes: the acceleration, and for the
\* properties the rows it was put together from.
Message(n, row) ==
  [y |-> Accelerations[row["acc"]].y, z |-> Accelerations[row["acc"]].z, record |-> n, row |-> row]

SystemInit == Init /\ Edge!Init

\* Without a return code the message is at the broker; it may be lost with the
\* agent's own link, and is not known there when publish() has reported an error.
AgentPublishes ==
  /\ \E rc \in {0, 1} : Publish(rc)
  /\ \/ UNCHANGED edgeVars
     \/ /\ Last(out').rc = 0
        /\ Edge!Arrive(Message(Len(out'), Head(records)))
        /\ UNCHANGED <<main, connected, hubLoop, forwarded, cut>>

AgentAlone ==
  /\ Start \/ BeginRead \/ ReadRecord \/ FullBatch \/ EndOfFile \/ ReadRaises \/ Interrupt
  /\ UNCHANGED edgeVars

EdgeStep == Edge!Next /\ UNCHANGED agentVars

SystemNext == AgentPublishes \/ AgentAlone \/ EdgeStep

allVars == <<agentVars, edgeVars>>

SystemSpec == SystemInit /\ [][SystemNext]_allVars

\* The edge is scheduled, and the broker is reachable again and again.
Fairness ==
  /\ WF_allVars(Edge!Redial /\ UNCHANGED agentVars)
  /\ SF_allVars(Edge!OnConnect /\ UNCHANGED agentVars)
  /\ WF_allVars(Edge!OnMessage /\ UNCHANGED agentVars)

-----------------------------------------------------------------------------
(* Properties.                                                             *)

\* What reaches the hub are records of the agent in the order of reading, each
\* at most once, and record n has the n-th row of every file, each counted
\* round its own file: neither the ends of batches and files nor a link or a
\* publication that is lost shifts one file against another.
HubSeesFilesInStep ==
  LET Received(n) == sent[forwarded[n].number] IN
  /\ \A m, n \in DOMAIN forwarded : m < n => Received(m).record < Received(n).record
  /\ \A n \in DOMAIN forwarded : \A f \in Files :
       rows[f] > 0 /\ Received(n).row[f] = ((Received(n).record - 1) % rows[f]) + 1

\* Whichever of its connections failed, main() of the edge leaves no network
\* thread and no subscription behind, but for an interrupt where stop() cannot
\* know of the thread or inside stop().
NoThreadLeft == Edge!NoThreadLeft

\* What the hub gets is classified by the worse axis of the agent's record.
WorseIsWorse == Edge!WorseIsWorse

\* After every loss of its link the edge subscribes again.
SubscribedAgain == Edge!SubscribedAgain
=============================================================================
