--------------------------- MODULE SensorsPipeline ---------------------------
(***************************************************************************)
(* SensorsHubService posting to the Store API that broadcasts to browsers. *)
(*                                                                         *)
(* The hub is that of Hub: SensorsHubService differs from HubService in    *)
(* its Redis key, topic and batch size only.  Where Hub has "the rows are  *)
(* committed, but the answer is an error", this module has the handler     *)
(* that goes on to broadcast() after its commit and fails when the set of  *)
(* connections changes under it; StorePost says what an iteration over     *)
(* that set does.  One browser, the Viewer, stays connected; visitors come *)
(* and go.                                                                 *)
(***************************************************************************)
EXTENDS Hub

CONSTANT
  Visitors       \* browsers that connect to /ws/sensors once and leave

VARIABLES
  active,      \* sensors_manager._active
  fresh,       \* visitors that have not connected yet
  casts,       \* the requests that are broadcasting, served to a task or to nobody
  shown,       \* records the Viewer was sent
  excused,     \* records during whose broadcast a connection was added or the table rebuilt
  unseen       \* records that were only in memory, not shown, when the hub ended

castVars == <<active, fresh, casts, shown, excused, unseen>>
pipelineVars == <<vars, castVars>>

Viewer == "viewer"
Nobody == "nobody"

ASSUME VisitorsAssumption == Viewer \notin Visitors

\* Visitors may have come and gone before.
PipelineInit ==
  /\ Init
  /\ active = {Viewer} /\ fresh \in SUBSET Visitors
  /\ casts = <<>> /\ shown = {} /\ excused = {} /\ unseen = {}

\* Broadcast of the k-th record of batch b, first to connection c of act.
Cast(b, k, c, act, for) ==
  [b |-> b, k |-> k, to |-> c, ahead |-> act \ {c}, size |-> Cardinality(act),
   moved |-> FALSE, for |-> for]

Serving(t) == \E j \in DOMAIN casts : casts[j].for = t

\* The connections get other places in the hash table, under the broadcasts J.
Moved(J) == [j \in DOMAIN casts |-> [casts[j] EXCEPT !.moved = @ \/ j \in J]]

Current(J) == {casts[j].b[casts[j].k] : j \in J}

\* Connections left the set that is now act, enough perhaps for a difference to
\* rebuild its table.
HasHoles(act) == Visitors \ (fresh \cup act) # {}

-----------------------------------------------------------------------------
(* The hub.                                                                *)

\* A step of the hub after which it waits for no more requests than before.
\* A task that gave up its request is not served any more; memory that goes
\* with the process goes unseen.
HubStep(A) ==
  /\ A
  /\ casts' = [j \in DOMAIN casts |->
       IF casts[j].for \in Tasks /\ net'[casts[j].for] # "applied"
       THEN [casts[j] EXCEPT !.for = Nobody] ELSE casts[j]]
  /\ unseen' = IF Up /\ pc'["stop"] = "down"
               THEN unseen \cup ((Range(queue) \cup Range(buffer)) \ (Range(backlog) \cup shown \cup excused))
               ELSE unseen
  /\ UNCHANGED <<active, fresh, shown, excused>>

\* MQTT messages and ingest().
Accept == HubStep(OnMessage \/ PutCallback \/ Ingest)

\* _process_loop and _periodic_flush_loop.
Loops == HubStep(Process \/ TimerFires)

\* Mutant: the hub takes the answer before the broadcast is over.
MutFlush(t) == HubStep(GetLock(t) \/ BacklogRead(t) \/ RedisApplies(t) \/ RedisReturns(t)
                       \/ PostReturns(t))

\* flush(); save_batch returns when the handler has answered.
Flush(t) ==
  HubStep(\/ GetLock(t) \/ BacklogRead(t) \/ RedisApplies(t) \/ RedisReturns(t)
          \/ ~Serving(t) /\ PostReturns(t))

\* start() and stop().
StartStop == HubStep(BeginStop \/ StopStep \/ Restart)

\* What may go wrong outside of the hub; the Store refuses what it has not committed.
Trouble == HubStep(Crash \/ LateLost \/ \E t \in Tasks : StoreRefuses(t) \/ Fault(t))

-----------------------------------------------------------------------------
(* The Store.                                                              *)

\* A request of task t, or one that nobody waits for, is committed, and the
\* broadcast of its first record begins.
Commit(t) ==
  /\ StoreCommits(t)
  /\ \E c \in active : casts' = Append(casts, Cast(batch[t], 1, c, active, t))
  /\ UNCHANGED <<active, fresh, shown, excused, unseen>>

CommitLate ==
  /\ LateCommit
  /\ \E k \in DOMAIN late, c \in active :
       /\ late' = RemoveAt(late, k)
       /\ casts' = Append(casts, Cast(late[k], 1, c, active, Nobody))
  /\ UNCHANGED <<active, fresh, shown, excused, unseen>>

\* The next connection of the set.
NextConnection(j) ==
  LET x == casts[j] IN
  /\ \E S \in IF x.moved THEN SUBSET active ELSE {x.ahead \cap active} : \E c \in S :
       casts' = [casts EXCEPT ![j].to = c, ![j].ahead = S \ {c}, ![j].moved = FALSE]
  /\ UNCHANGED <<active, excused>>

\* No connection is left: those that failed are dropped, which may rebuild the
\* table under the other broadcasts.  The next record begins, or the request is
\* answered 201.
EndBroadcast(j) ==
  LET x == casts[j] IN
  /\ x.moved \/ x.ahead \cap active = {}
  /\ \E dead \in SUBSET (active \ {Viewer}) : active' = active \ dead
  /\ \E J \in {{}, DOMAIN casts \ {j}} :
       /\ J # {} => HasHoles(active')
       /\ excused' = excused \cup Current(J)
       /\ \/ /\ x.k < Len(x.b)
             /\ \E c \in active' :
                  casts' = [Moved(J) EXCEPT ![j] = Cast(x.b, x.k + 1, c, active', x.for)]
          \/ /\ x.k = Len(x.b)
             /\ casts' = RemoveAt(Moved(J), j)

\* The iteration over the set finds its size unchanged, and goes on.
GoOn(j) ==
  /\ Cardinality(active) = casts[j].size
  /\ NextConnection(j) \/ EndBroadcast(j)
  /\ UNCHANGED vars

\* Mutant: the handler swallows the error and answers 201.
MutFail(j) ==
  /\ Cardinality(active) # casts[j].size \/ casts[j].for = Nobody
  /\ casts' = RemoveAt(casts, j)
  /\ UNCHANGED <<active, excused, vars>>

\* It finds another size, and the error is what the waiting task is answered.
\* A request nobody waits for may also be cut off.
Fail(j) ==
  /\ Cardinality(active) # casts[j].size \/ casts[j].for = Nobody
  /\ casts' = RemoveAt(casts, j)
  /\ \/ casts[j].for = Nobody /\ UNCHANGED vars
     \/ casts[j].for # Nobody /\ ReplyLost(casts[j].for)
  /\ UNCHANGED <<active, excused>>

\* send_text of broadcast j is over.
SendReturns(j) ==
  /\ shown' = IF casts[j].to = Viewer THEN shown \cup {casts[j].b[casts[j].k]} ELSE shown
  /\ GoOn(j) \/ Fail(j)
  /\ UNCHANGED <<fresh, unseen>>

\* A visitor connects, in the middle of whatever broadcasts.
Join(v) ==
  /\ v \in fresh
  /\ fresh' = fresh \ {v}
  /\ active' = active \cup {v}
  /\ casts' = Moved(DOMAIN casts)
  /\ excused' = excused \cup Current(DOMAIN casts)
  /\ UNCHANGED <<vars, shown, unseen>>

\* Its endpoint discards it.
Leave(v) ==
  /\ v \in active
  /\ active' = active \ {v}
  /\ UNCHANGED <<vars, fresh, casts, shown, excused, unseen>>

-----------------------------------------------------------------------------
Broadcasting == \E j \in DOMAIN casts : SendReturns(j)

PipelineNext ==
  \/ Accept \/ Loops \/ StartStop \/ Trouble
  \/ \E t \in Tasks : Flush(t) \/ Commit(t)
  \/ CommitLate \/ Broadcasting
  \/ \E v \in Visitors : Join(v) \/ Leave(v)

PipelineSpec == PipelineInit /\ [][PipelineNext]_pipelineVars

\* The event loops run, and the Store goes on taking batches.
PipelineFairness ==
  /\ WF_pipelineVars(HubStep(PutCallback)) /\ WF_pipelineVars(HubStep(Process)) /\ WF_pipelineVars(HubStep(TimerFires))
  /\ WF_pipelineVars(Broadcasting)
  /\ \A t \in Tasks : WF_pipelineVars(Flush(t)) /\ WF_pipelineVars(Commit(t) \/ HubStep(StoreRefuses(t)))
  /\ SF_pipelineVars(\E t \in Tasks : Commit(t))

-----------------------------------------------------------------------------
(* Properties.                                                             *)

\* From the MQTT topic to the browser the pipeline keeps the contract the hub
\* keeps towards the table.
EndToEnd == INSTANCE DeliveryContract WITH
  volatile <- Range(queue) \cup Range(buffer),
  durable <- Range(backlog),
  delivered <- shown \cup excused,
  lost <- unseen,
  up <- Up

ImplementsEndToEnd == EndToEnd!Spec

\* While the hub runs, every record is shown in the end, although broadcasts
\* fail, as long as the set of connections comes to rest.
EventuallyShown ==
  \A i \in Records : i <= accepted ~> i \in shown \cup excused \cup unseen \/ ~running
=============================================================================
