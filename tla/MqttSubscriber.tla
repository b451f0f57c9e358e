--------------------------- MODULE MqttSubscriber ---------------------------
(***************************************************************************)
(* A paho client in loop_forever, as the edges use it: the loop dials      *)
(* again whenever the link is lost, the broker keeps no session (clean     *)
(* sessions, QoS 0), and the callbacks run one after another.              *)
(***************************************************************************)
EXTENDS Naturals, Sequences

CONSTANTS
  MaxLosses,   \* bound of the losses of the link
  MaxSent      \* bound of the messages published

VARIABLES
  link,         \* "down", "dialled" (before the CONNACK) or "up"
  subscribed,   \* the broker has the subscription
  inbox,        \* messages the broker sends to the client, by their number
  sent,         \* what the agent has published
  losses        \* how often the link was lost

clientVars == <<link, subscribed, inbox, sent, losses>>

ClientInit ==
  /\ link = "down" /\ subscribed = FALSE
  /\ inbox = <<>> /\ sent = <<>>
  /\ losses = 0

\* The TCP connection is there; CONNECT is sent.
Dial ==
  /\ link = "down"
  /\ link' = "dialled"
  /\ UNCHANGED <<subscribed, inbox, sent, losses>>

\* The broker and what it had for the client are gone.
Hangup == link' = "down" /\ subscribed' = FALSE /\ inbox' = <<>>

Lose ==
  /\ link # "down" /\ losses < MaxLosses
  /\ Hangup
  /\ losses' = losses + 1
  /\ UNCHANGED sent

\* The agent publishes; without a subscription the message is lost.
Arrive(message) ==
  /\ Len(sent) < MaxSent
  /\ sent' = Append(sent, message)
  /\ inbox' = IF subscribed THEN Append(inbox, Len(sent) + 1) ELSE inbox
  /\ UNCHANGED <<link, subscribed, losses>>
=============================================================================
