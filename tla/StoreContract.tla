--------------------------- MODULE StoreContract ---------------------------
(***************************************************************************)
(* What a POST of the Store API promises to the hub that sends it and to   *)
(* the subscribers of the channel: a batch is stored whole or not at all,  *)
(* 201 is answered only for a stored batch, and nobody is shown a record   *)
(* that is not stored.  An error promises nothing: the batch may be stored *)
(* or not.                                                                 *)
(***************************************************************************)
CONSTANT Requests

VARIABLES
  stored,   \* the requests whose batches are in the table
  shown,    \* the requests of whose batches some subscriber saw a record
  answer    \* what each request was answered: "none", "ok" or "error"

vars == <<stored, shown, answer>>

Init ==
  /\ stored = {} /\ shown = {}
  /\ answer = [r \in Requests |-> "none"]

\* The batch is committed while its request is being served.  An error may be
\* the answer in the same step: the commit raises although it took place.
Store(r) ==
  /\ answer[r] = "none" /\ r \notin stored
  /\ stored' = stored \cup {r}
  /\ answer' \in {[answer EXCEPT ![r] = a] : a \in {"none", "ok", "error"}}
  /\ UNCHANGED shown

Accept(r) ==
  /\ answer[r] = "none" /\ r \in stored
  /\ answer' = [answer EXCEPT ![r] = "ok"]
  /\ UNCHANGED <<stored, shown>>

\* Requests end with an error; when the Store dies, all of them at once.
Fail(R) ==
  /\ \A r \in R : answer[r] = "none"
  /\ answer' = [r \in Requests |-> IF r \in R THEN "error" ELSE answer[r]]
  /\ UNCHANGED <<stored, shown>>

\* A subscriber is sent a record of a stored batch; the request may end with
\* this, in any way.
Show(r) ==
  /\ answer[r] = "none" /\ r \in stored
  /\ shown' = shown \cup {r}
  /\ answer' \in {[answer EXCEPT ![r] = a] : a \in {"none", "ok", "error"}}
  /\ UNCHANGED stored

Next ==
  \/ \E r \in Requests : Store(r) \/ Accept(r) \/ Show(r)
  \/ \E R \in SUBSET Requests : Fail(R)

Spec == Init /\ [][Next]_vars
=============================================================================
