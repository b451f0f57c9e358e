-------------------------- MODULE DeliveryContract --------------------------
(***************************************************************************)
(* What a store-and-forward stage of the pipeline promises about the       *)
(* records it has accepted, whatever its batching, locking and retries     *)
(* are.  A record lives in the memory of the process (volatile), in the    *)
(* Redis list (durable) and in the Store's table (delivered), possibly in  *)
(* several of them at once.  It may leave a place only when a safer one    *)
(* holds it, and only the death of the process loses records.              *)
(***************************************************************************)
EXTENDS Naturals

CONSTANT MaxItems      \* bound on the number of accepted records

VARIABLES
  accepted,    \* how many records were accepted; they are numbered 1..accepted
  volatile,    \* records held in the memory of the process
  durable,     \* records held in the durable backlog
  delivered,   \* records the Store has committed
  lost,        \* records that died with the process
  up           \* whether the process runs

vars == <<accepted, volatile, durable, delivered, lost, up>>

Init ==
  /\ accepted = 0
  /\ volatile = {} /\ durable = {} /\ delivered = {} /\ lost = {}
  /\ up = TRUE

\* A running process takes responsibility for one more record.
Accept ==
  /\ up /\ accepted < MaxItems
  /\ accepted' = accepted + 1
  /\ volatile' = volatile \cup {accepted + 1}
  /\ UNCHANGED <<durable, delivered, lost, up>>

\* Records are copied from memory to the backlog.
Spill(S) ==
  /\ S \subseteq volatile
  /\ durable' = durable \cup S
  /\ UNCHANGED <<accepted, volatile, delivered, lost, up>>

\* The Store commits records; a request sent by a process that has died since
\* may still be committed.
Deliver(S) ==
  /\ delivered' = delivered \cup S
  /\ UNCHANGED <<accepted, volatile, durable, lost, up>>

\* Memory is released for records that are safe elsewhere.
Release(S) ==
  /\ up
  /\ S \subseteq durable \cup delivered
  /\ volatile' = volatile \ S
  /\ UNCHANGED <<accepted, durable, delivered, lost, up>>

\* The backlog forgets only records the Store has committed.
Trim(S) ==
  /\ S \subseteq delivered
  /\ durable' = durable \ S
  /\ UNCHANGED <<accepted, volatile, delivered, lost, up>>

\* The process dies and its memory with it.
GoDown ==
  /\ up
  /\ up' = FALSE
  /\ volatile' = {}
  /\ lost' = lost \cup (volatile \ (durable \cup delivered))
  /\ UNCHANGED <<accepted, durable, delivered>>

GoUp ==
  /\ ~up
  /\ up' = TRUE
  /\ UNCHANGED <<accepted, volatile, durable, delivered, lost>>

Next ==
  \/ Accept \/ GoDown \/ GoUp
  \/ \E S \in SUBSET (1 .. accepted) : Spill(S) \/ Deliver(S) \/ Release(S) \/ Trim(S)

Spec == Init /\ [][Next]_vars
=============================================================================
