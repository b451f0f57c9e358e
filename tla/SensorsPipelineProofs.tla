----------------------- MODULE SensorsPipelineProofs -----------------------
(***************************************************************************)
(* The sensors pipeline keeps the delivery contract from the MQTT topic to *)
(* the browser.  The hub keeps its invariants in the pipeline, as all that *)
(* happens to it there are steps of Hub; what is added is what a broadcast *)
(* has reached when its request is answered.                               *)
(***************************************************************************)
EXTENDS SensorsPipeline, HubProofs

Delivered == shown \cup excused
Browsers == Visitors \cup {Viewer}
Sizes == {Cardinality(S) : S \in SUBSET Browsers}

Casts ==
  [b : Seq(Accepted), k : Nat, to : Browsers, ahead : SUBSET Browsers, size : Sizes,
   moved : BOOLEAN, for : Tasks \cup {Nobody}]

\* The invariants of the hub.
HubInv == TypeInv /\ LockInv /\ BatchInv /\ KnownInv /\ DownInv

\* No empty batch is posted.
SentInv ==
  /\ \A t \in Tasks : pc[t] \in Posting => batch[t] # <<>>
  /\ \A k \in 1 .. Len(late) : late[k] # <<>>

Through(b, k, D) == \A i \in 1 .. k - 1 : b[i] \in D

\* A broadcast has got through with the records before its k-th, and the
\* Viewer is sent the k-th, will be, or is through with it; D are the records
\* that got through.
Progress(x, D) ==
  /\ x.k \in 1 .. Len(x.b)
  /\ Through(x.b, x.k, D)
  /\ x.to = Viewer \/ Viewer \in x.ahead \/ x.b[x.k] \in D
  /\ x.moved => x.b[x.k] \in D

\* The task a broadcast is served to waits for the answer about its batch.
Serves(x) ==
  x.for \in Tasks => pc[x.for] \in Posting /\ net[x.for] = "applied" /\ x.b = batch[x.for]

TypeCasts ==
  /\ casts \in Seq(Casts)
  /\ Viewer \in active /\ active \subseteq Browsers /\ fresh \subseteq Visitors
  /\ Delivered \subseteq Accepted

CastInv ==
  /\ \A j \in 1 .. Len(casts) : Progress(casts[j], Delivered) /\ Serves(casts[j])
  /\ \A i, j \in 1 .. Len(casts) : casts[i].for = casts[j].for /\ casts[i].for \in Tasks => i = j

\* A batch that was posted is being broadcast or has reached the browser, and
\* has done so when it is trimmed from the backlog.
AnswerInv ==
  \A t \in Tasks :
    /\ pc[t] \in Posting /\ net[t] = "applied" => Serving(t) \/ Range(batch[t]) \subseteq Delivered
    /\ pc[t] = "ltrim" /\ net[t] = "sent" => Range(batch[t]) \subseteq Delivered

PipelineInv == HubInv /\ SentInv /\ TypeCasts /\ CastInv /\ AnswerInv

-----------------------------------------------------------------------------
(* What happens to the hub in the pipeline.                                *)

\* What the hub does but for the commit of a batch and the answers that a
\* broadcast spoils; an answer is taken only when the broadcast is over.
Quiet ==
  \/ OnMessage \/ PutCallback \/ Ingest \/ Process \/ TimerFires
  \/ \E t \in Tasks :
       \/ GetLock(t) \/ BacklogRead(t) \/ RedisApplies(t) \/ RedisReturns(t)
       \/ ~Serving(t) /\ PostReturns(t)
       \/ StoreRefuses(t) \/ Fault(t)
  \/ LateLost \/ BeginStop \/ StopStep \/ Crash \/ Restart

LEMMA QuietIs == ASSUME Quiet PROVE Next
  BY DEF Quiet, Next, FlushStep, StoreAnswers

LEMMA HubSteps ==
  ASSUME Accept \/ Loops \/ StartStop \/ Trouble \/ \E t \in Tasks : Flush(t)
  PROVE  HubStep(Quiet)
  <1>1. Accept => HubStep(Quiet)
    BY DEF Accept, HubStep, Quiet
  <1>2. Loops => HubStep(Quiet)
    BY DEF Loops, HubStep, Quiet
  <1>3. StartStop => HubStep(Quiet)
    BY DEF StartStop, HubStep, Quiet
  <1>4. Trouble => HubStep(Quiet)
    BY DEF Trouble, HubStep, Quiet
  <1>5. ASSUME NEW t \in Tasks, Flush(t) PROVE HubStep(Quiet)
    BY <1>5 DEF Flush, HubStep, Quiet
  <1> QED BY <1>1, <1>2, <1>3, <1>4, <1>5

\* The error of a broadcast reaches a task, or nobody.
LEMMA FailIs ==
  ASSUME casts \in Seq(Casts), NEW j \in 1 .. Len(casts), Fail(j)
  PROVE  UNCHANGED vars \/ \E t \in Tasks : casts[j].for = t /\ ReplyLost(t)
  <1>1. casts[j] \in Casts
    BY ElementOfSeq
  <1>2. casts[j].for \in Tasks \cup {Nobody}
    BY <1>1 DEF Casts
  <1> QED BY <1>2 DEF Fail

\* A step of the pipeline is a step of the hub, or leaves it alone.
LEMMA HubOfPipeline ==
  ASSUME casts \in Seq(Casts), [PipelineNext]_pipelineVars
  PROVE  [Next]_vars
  <1>1. CASE HubStep(Quiet)
    BY <1>1, QuietIs DEF HubStep
  <1>2. ASSUME NEW t \in Tasks, Commit(t) PROVE Next
    BY <1>2 DEF Commit, Next, StoreAnswers
  <1>3. CASE CommitLate
    BY <1>3 DEF CommitLate, Next
  <1>4. CASE Broadcasting
    <2>1. PICK j \in 1 .. Len(casts) : GoOn(j) \/ Fail(j)
      BY <1>4 DEF Broadcasting, SendReturns
    <2>2. GoOn(j) => UNCHANGED vars
      BY DEF GoOn
    <2>3. ASSUME NEW t \in Tasks, ReplyLost(t) PROVE Next
      BY <2>3 DEF Next, Fault
    <2> QED BY <2>1, <2>2, <2>3, FailIs
  <1>5. ASSUME NEW v \in Visitors, Join(v) \/ Leave(v) PROVE UNCHANGED vars
    BY <1>5 DEF Join, Leave
  <1>6. CASE UNCHANGED pipelineVars
    BY <1>6 DEF pipelineVars
  <1> QED BY <1>1, <1>2, <1>3, <1>4, <1>5, <1>6, HubSteps DEF PipelineNext

LEMMA HubInvStep == ASSUME HubInv, [Next]_vars PROVE HubInv'
  <1>1. TypeInv'
    BY TypeStep DEF HubInv
  <1>2. TypeOK /\ TypeOK'
    BY <1>1 DEF HubInv, TypeInv
  <1> QED BY <1>1, <1>2, LockStep, BatchStep, KnownStep, DownStep DEF HubInv

-----------------------------------------------------------------------------
(* What a step of the hub does to the posts of its tasks.                  *)

\* A task goes on waiting as it did; or it waits for no answer that is there;
\* or it is not posting; or it was answered and trims the backlog.
TaskStep(u) ==
  \/ pc'[u] = pc[u] /\ batch'[u] = batch[u] /\ net'[u] = net[u]
  \/ /\ net'[u] # "applied" /\ ~(pc'[u] = "ltrim" /\ net'[u] = "sent")
     /\ pc'[u] \in Posting => batch'[u] # <<>>
  \/ /\ pc[u] \notin Posting /\ pc'[u] \notin Posting
     /\ ~(pc'[u] = "ltrim" /\ net'[u] = "sent")
  \/ /\ pc[u] \in Posting /\ net[u] = "applied" /\ ~Serving(u)
     /\ pc'[u] = "ltrim" /\ net'[u] = "sent" /\ batch'[u] = batch[u]

TasksStep == \A u \in Tasks : TaskStep(u)

\* Points that are not posts.
LEMMA OtherPoints ==
  /\ {"lock", "get", "sleep", "idle", "join", "cancelTimer", "cancelProc", "done", "dead", "down",
      "lrange", "ltrim", "rpush"} \cap Posting = {}
  /\ \A t \in Tasks : AfterFlush(t) \notin Posting \cup {"ltrim"}
  /\ \A t \in Tasks : FirstPC[t] \notin Posting \cup {"ltrim"}
  BY DEF Posting, AfterFlush, FirstPC, Tasks

LEMMA CallFlushTasks ==
  ASSUME TypeOK, NEW t \in Tasks, pc[t] \notin Posting, CallFlush(t), UNCHANGED <<batch, net>>
  PROVE  TasksStep
  BY OtherPoints DEF CallFlush, TypeOK, TasksStep, TaskStep

LEMMA LeaveFlushTasks ==
  ASSUME TypeOK, NEW t \in Tasks, LeaveFlush(t)
  PROVE  TasksStep
  BY OtherPoints DEF LeaveFlush, TypeOK, TasksStep, TaskStep

LEMMA SendTasks ==
  ASSUME TypeOK, NEW t \in Tasks, NEW p, NEW b, Send(t, p, b), p # "ltrim", p \in Posting => b # <<>>
  PROVE  TasksStep
  BY DEF Send, TypeOK, TasksStep, TaskStep

LEMMA BufferLoopTasks ==
  ASSUME TypeOK, NEW t \in Tasks, NEW b \in Seq(Records), BufferLoop(t, b)
  PROVE  TasksStep
  <1>1. CASE b # <<>> /\ Send(t, "postBuffer", FirstBatch(b))
    BY <1>1, SendTasks, FirstBatchEmpty
  <1> QED BY <1>1, LeaveFlushTasks DEF BufferLoop

LEMMA GoDownTasks == ASSUME GoDown PROVE TasksStep
  BY OtherPoints DEF GoDown, TasksStep, TaskStep

\* Every quiet step is one of these for every task.
LEMMA QuietTasks == ASSUME TypeOK, TypeOK', SentInv, Quiet PROVE TasksStep
  <1> USE DEF lockVars, netVars, memVars, ghostVars, faultVars
  <1>0. {"proc", "timer", "stop"} \subseteq Tasks
    BY DEF Tasks
  <1>1. ASSUME UNCHANGED <<pc, batch, net>> PROVE TasksStep
    BY <1>1 DEF TasksStep, TaskStep
  <1>2. CASE OnMessage \/ PutCallback \/ Ingest \/ LateLost
    BY <1>1, <1>2 DEF OnMessage, PutCallback, Ingest, Enqueue, LateLost
  <1>3. CASE Process
    <2>1. pc["proc"] \notin Posting
      BY <1>3, OtherPoints DEF Process
    <2> QED BY <1>0, <1>1, <1>3, <2>1, CallFlushTasks DEF Process
  <1>4. CASE TimerFires
    <2>1. pc["timer"] \notin Posting
      BY <1>4, OtherPoints DEF TimerFires
    <2> QED BY <1>0, <1>4, <2>1, CallFlushTasks DEF TimerFires
  <1>5. ASSUME NEW t \in Tasks, GetLock(t) PROVE TasksStep
    BY <1>5, OtherPoints DEF GetLock, TypeOK, TasksStep, TaskStep
  <1>6. ASSUME NEW t \in Tasks, BacklogRead(t) PROVE TasksStep
    <2>1. buffer \in Seq(Records)
      BY DEF TypeOK
    <2>2. CASE BufferLoop(t, buffer)
      BY <2>1, <2>2, BufferLoopTasks
    <2>3. CASE FirstBatch(backlog) # <<>> /\ Send(t, "postBacklog", FirstBatch(backlog))
      BY <2>3, SendTasks
    <2> QED BY <1>6, <2>2, <2>3 DEF BacklogRead
  <1>7. ASSUME NEW t \in Tasks, RedisApplies(t) PROVE TasksStep
    BY <1>7, OtherPoints DEF RedisApplies, TypeOK, TasksStep, TaskStep
  <1>8. ASSUME NEW t \in Tasks, RedisReturns(t) PROVE TasksStep
    <2>1. CASE /\ pc' = [pc EXCEPT ![t] = "lrange"] /\ batch' = [batch EXCEPT ![t] = <<>>]
               /\ net' = [net EXCEPT ![t] = "none"]
      BY <2>1 DEF TypeOK, TasksStep, TaskStep, Posting
    <2> QED BY <1>8, <2>1, LeaveFlushTasks DEF RedisReturns
  <1>9. ASSUME NEW t \in Tasks, ~Serving(t), PostReturns(t) PROVE TasksStep
    <2>1. CASE pc[t] = "postBacklog" /\ net[t] = "applied" /\ Send(t, "ltrim", batch[t])
      BY <1>9, <2>1 DEF Send, TypeOK, TasksStep, TaskStep, Posting
    <2>2. CASE Send(t, "rpush", batch[t])
      BY <2>2, SendTasks, OtherPoints
    <2>3. CASE BufferLoop(t, buffer')
      <3>1. buffer' \in Seq(Records)
        BY DEF TypeOK
      <3> QED BY <2>3, <3>1, BufferLoopTasks
    <2> QED BY <1>9, <2>1, <2>2, <2>3, LeaveFlushTasks DEF PostReturns
  <1>10. ASSUME NEW t \in Tasks, StoreRefuses(t) \/ PostTimesOut(t) \/ ReplyLost(t) PROVE TasksStep
    <2>1. pc[t] \in Posting /\ pc' = pc /\ batch' = batch /\ net' = [net EXCEPT ![t] = "refused"]
      BY <1>10 DEF StoreRefuses, PostTimesOut, ReplyLost
    <2>2. batch'[t] # <<>> /\ net'[t] = "refused"
      BY <2>1 DEF SentInv, TypeOK
    <2> QED BY <2>1, <2>2 DEF TypeOK, TasksStep, TaskStep
  <1>11. ASSUME NEW t \in Tasks, RedisRaises(t) PROVE TasksStep
    BY <1>11, LeaveFlushTasks, GoDownTasks DEF RedisRaises
  <1>12. CASE BeginStop \/ StopFlushes
    <2>1. pc["stop"] \notin Posting
      BY <1>12, OtherPoints DEF BeginStop, StopFlushes
    <2>2. StopFlushes => TasksStep
      BY <1>0, <2>1, CallFlushTasks DEF StopFlushes
    <2>3. BeginStop => TasksStep
      BY <1>0, <2>1, OtherPoints DEF BeginStop, TypeOK, TasksStep, TaskStep
    <2> QED BY <1>12, <2>2, <2>3
  <1>13. CASE CancelTimer \/ CancelProc
    <2>1. PICK t \in Tasks \ {"stop"}, next \in {"cancelProc", "done"} :
            pc["stop"] \in {"cancelTimer", "cancelProc"} /\ CancelTask(t, next)
      BY <1>0, <1>13 DEF CancelTimer, CancelProc
    <2>2. /\ pc' = [pc EXCEPT ![t] = "dead", !["stop"] = next]
          /\ batch' = [batch EXCEPT ![t] = <<>>] /\ net' = [net EXCEPT ![t] = "none"]
      BY <2>1 DEF CancelTask
    <2>3. TaskStep(t)
      BY <2>2 DEF TypeOK, TaskStep, Posting
    <2>4. TaskStep("stop")
      BY <1>0, <2>1, <2>2, OtherPoints DEF TypeOK, TaskStep
    <2>5. ASSUME NEW u \in Tasks \ {t, "stop"} PROVE TaskStep(u)
      BY <2>2 DEF TypeOK, TaskStep
    <2> QED BY <2>3, <2>4, <2>5 DEF TasksStep
  <1>14. CASE Exit \/ Crash
    BY <1>14, GoDownTasks DEF Exit, Crash
  <1>15. CASE Restart
    BY <1>15, OtherPoints DEF Restart, TypeOK, TasksStep, TaskStep
  <1> QED
    BY <1>2, <1>3, <1>4, <1>5, <1>6, <1>7, <1>8, <1>9, <1>10, <1>11, <1>12, <1>13, <1>14, <1>15
    DEF Quiet, Fault, StopStep

-----------------------------------------------------------------------------
(* No empty batch is posted.                                               *)

\* The elements that are left when one is removed.
LEMMA RemoveAtElements ==
  ASSUME NEW S, NEW s \in Seq(S), NEW k \in 1 .. Len(s)
  PROVE  /\ RemoveAt(s, k) \in Seq(S) /\ Len(RemoveAt(s, k)) = Len(s) - 1
         /\ \A i \in 1 .. Len(s) - 1 : RemoveAt(s, k)[i] = s[IF i < k THEN i ELSE i + 1]
  <1> DEFINE a == SubSeq(s, 1, k - 1)
             z == SubSeq(s, k + 1, Len(s))
  <1>1. Len(s) \in Nat /\ k \in Nat /\ 1 <= k /\ k <= Len(s)
    OBVIOUS
  <1>2. a \in Seq(S) /\ Len(a) = k - 1 /\ \A i \in 1 .. k - 1 : a[i] = s[i]
    BY <1>1
  <1>3. z \in Seq(S) /\ Len(z) = Len(s) - k /\ \A i \in 1 .. Len(s) - k : z[i] = s[k + i]
    BY <1>1
  <1> HIDE DEF a, z
  <1>4. Len(a \o z) = Len(s) - 1
    BY <1>1, <1>2, <1>3
  <1>5. \A i \in 1 .. Len(s) - 1 : (a \o z)[i] = IF i < k THEN a[i] ELSE z[i - (k - 1)]
    BY <1>1, <1>2, <1>3, ConcatProperties
  <1>6. \A i \in 1 .. Len(s) - 1 : (a \o z)[i] = s[IF i < k THEN i ELSE i + 1]
    <2> TAKE i \in 1 .. Len(s) - 1
    <2>1. CASE i < k
      BY <1>1, <1>2, <1>5, <2>1
    <2>2. CASE ~(i < k)
      <3>1. i - (k - 1) \in 1 .. Len(s) - k /\ k + (i - (k - 1)) = i + 1
        BY <1>1, <2>2
      <3> QED BY <1>3, <1>5, <2>2, <3>1
    <2> QED BY <2>1, <2>2
  <1> QED BY <1>4, <1>6, RemoveAtType DEF RemoveAt, a, z

\* What a step adds to the requests nobody waits for was posted.
LateStep ==
  \/ late' = late
  \/ \E t \in Tasks : pc[t] \in Posting /\ late' = Append(late, batch[t])
  \/ \E k \in 1 .. Len(late) : late' = RemoveAt(late, k)

LEMMA QuietLate == ASSUME TypeOK, Quiet PROVE LateStep
  <1> USE DEF faultVars, LateStep
  <1>1. GoDown => LateStep
    BY DEF GoDown, Abandoned
  <1>2. CASE OnMessage \/ PutCallback \/ Ingest \/ Process \/ TimerFires \/ BeginStop \/ StopFlushes \/ Restart
    BY <1>2 DEF OnMessage, PutCallback, Ingest, Enqueue, Process, TimerFires, BeginStop, StopFlushes, Restart
  <1>3. ASSUME NEW t \in Tasks,
               \/ GetLock(t) \/ BacklogRead(t) \/ RedisApplies(t) \/ RedisReturns(t) \/ PostReturns(t)
               \/ StoreRefuses(t) \/ ReplyLost(t)
        PROVE  LateStep
    BY <1>3 DEF GetLock, BacklogRead, RedisApplies, RedisReturns, PostReturns, StoreRefuses, ReplyLost
  <1>4. ASSUME NEW t \in Tasks, PostTimesOut(t) PROVE LateStep
    BY <1>4 DEF PostTimesOut
  <1>5. ASSUME NEW t \in Tasks, RedisRaises(t) PROVE LateStep
    BY <1>1, <1>5 DEF RedisRaises
  <1>6. CASE LateLost
    BY <1>6 DEF LateLost
  <1>7. CASE CancelTimer \/ CancelProc
    <2>1. PICK t \in Tasks : \E next : CancelTask(t, next)
      BY <1>7 DEF CancelTimer, CancelProc, Tasks
    <2>2. PICK next : CancelTask(t, next)
      BY <2>1
    <2> QED BY <2>2 DEF CancelTask, LeaveCancelled, Abandoned
  <1>8. CASE Exit \/ Crash
    BY <1>1, <1>8 DEF Exit, Crash
  <1> QED BY <1>2, <1>3, <1>4, <1>5, <1>6, <1>7, <1>8 DEF Quiet, Fault, StopStep

LEMMA SentLate == ASSUME TypeOK, SentInv, LateStep PROVE \A k \in 1 .. Len(late') : late'[k] # <<>>
  <1>1. late \in Seq(Seq(Records)) /\ Len(late) \in Nat
    BY DEF TypeOK
  <1>2. CASE late' = late
    BY <1>2 DEF SentInv
  <1>3. ASSUME NEW t \in Tasks, pc[t] \in Posting, late' = Append(late, batch[t])
        PROVE  \A k \in 1 .. Len(late') : late'[k] # <<>>
    <2>1. batch[t] \in Seq(Records) /\ batch[t] # <<>>
      BY <1>3 DEF TypeOK, SentInv
    <2>2. Len(late') = Len(late) + 1
          /\ \A k \in 1 .. Len(late) + 1 : late'[k] = IF k <= Len(late) THEN late[k] ELSE batch[t]
      BY <1>1, <1>3, <2>1, AppendProperties
    <2> QED BY <1>1, <2>1, <2>2 DEF SentInv
  <1>4. ASSUME NEW k \in 1 .. Len(late), late' = RemoveAt(late, k)
        PROVE  \A i \in 1 .. Len(late') : late'[i] # <<>>
    <2>1. Len(late') = Len(late) - 1
          /\ \A i \in 1 .. Len(late) - 1 : late'[i] = late[IF i < k THEN i ELSE i + 1]
      BY <1>1, <1>4, RemoveAtElements
    <2>2. \A i \in 1 .. Len(late) - 1 : (IF i < k THEN i ELSE i + 1) \in 1 .. Len(late)
      BY <1>1
    <2> QED BY <2>1, <2>2 DEF SentInv
  <1> QED BY <1>2, <1>3, <1>4 DEF LateStep

LEMMA SentQuiet == ASSUME TypeOK, TypeOK', SentInv, Quiet PROVE SentInv'
  <1>1. \A t \in Tasks : pc'[t] \in Posting => batch'[t] # <<>>
    BY QuietTasks, OtherPoints DEF TasksStep, TaskStep, SentInv
  <1> QED BY <1>1, QuietLate, SentLate DEF SentInv

-----------------------------------------------------------------------------
(* Broadcasts.                                                             *)

\* Numbers are given to records once.
LEMMA AcceptedGrows == ASSUME TypeOK, [Next]_vars PROVE Accepted \subseteq Accepted'
  <1> USE DEF memVars, ghostVars
  <1>1. accepted' = accepted \/ Enqueue
    <2>1. CASE OnMessage \/ PutCallback \/ Ingest \/ Process \/ TimerFires \/ BeginStop \/ StopFlushes \/ Restart
      BY <2>1 DEF OnMessage, PutCallback, Ingest, Process, TimerFires, BeginStop, StopFlushes, Restart
    <2>2. GoDown => accepted' = accepted
      BY DEF GoDown
    <2>3. ASSUME NEW t \in Tasks, FlushStep(t) PROVE accepted' = accepted
      BY <2>3 DEF FlushStep, GetLock, BacklogRead, RedisApplies, RedisReturns, PostReturns
    <2>4. ASSUME NEW t \in Tasks, StoreAnswers(t) \/ Fault(t) PROVE accepted' = accepted
      BY <2>2, <2>4 DEF StoreAnswers, StoreRefuses, StoreCommits, Fault, ReplyLost, PostTimesOut, RedisRaises
    <2>5. CASE LateLost \/ LateCommit \/ CancelTimer \/ CancelProc \/ Exit \/ Crash \/ UNCHANGED vars
      BY <2>2, <2>5 DEF LateLost, LateCommit, CancelTimer, CancelProc, CancelTask, Exit, Crash, vars
    <2> QED BY <2>1, <2>3, <2>4, <2>5 DEF Next, StopStep
  <1>2. accepted \in Nat
    BY DEF TypeOK
  <1> QED BY <1>1, <1>2 DEF Enqueue, Accepted

\* What a broadcast has reached stays reached.
LEMMA ProgressKept ==
  ASSUME NEW x, NEW y, NEW D, NEW E, D \subseteq E, Progress(x, D),
         y.b = x.b, y.k = x.k, y.to = x.to, y.ahead = x.ahead,
         y.moved => x.moved \/ x.b[x.k] \in E
  PROVE  Progress(y, E)
  BY DEF Progress, Through

\* A broadcast that lost its client, or met a new connection.
LEMMA CastUpdates ==
  ASSUME NEW A, NEW x \in [b : Seq(A), k : Nat, to : Browsers, ahead : SUBSET Browsers, size : Sizes,
                           moved : BOOLEAN, for : Tasks \cup {Nobody}]
  PROVE  /\ LET y == [x EXCEPT !.for = Nobody] IN
              /\ y \in [b : Seq(A), k : Nat, to : Browsers, ahead : SUBSET Browsers, size : Sizes,
                         moved : BOOLEAN, for : Tasks \cup {Nobody}]
              /\ y.b = x.b /\ y.k = x.k /\ y.to = x.to /\ y.ahead = x.ahead /\ y.moved = x.moved
              /\ y.for = Nobody
         /\ \A v \in BOOLEAN : LET y == [x EXCEPT !.moved = v] IN
              /\ y \in [b : Seq(A), k : Nat, to : Browsers, ahead : SUBSET Browsers, size : Sizes,
                         moved : BOOLEAN, for : Tasks \cup {Nobody}]
              /\ y.b = x.b /\ y.k = x.k /\ y.to = x.to /\ y.ahead = x.ahead /\ y.for = x.for
              /\ y.moved = v
  OBVIOUS

\* A step of the hub that takes no answer of a broadcast that goes on.
LEMMA HubCasts ==
  ASSUME HubInv, HubInv', SentInv, TypeCasts, CastInv, AnswerInv, HubStep(Quiet)
  PROVE  TypeCasts' /\ CastInv' /\ AnswerInv'
  <1> DEFINE n == Len(casts)
  <1>1. TypeOK /\ TypeOK' /\ TasksStep
    BY QuietTasks DEF HubInv, TypeInv, HubStep
  <1>2. Accepted \subseteq Accepted'
    BY <1>1, AcceptedGrows, QuietIs DEF HubStep
  <1>3. Delivered' = Delivered /\ UNCHANGED <<active, fresh>>
    BY DEF HubStep, Delivered
  <1>4. casts \in Seq(Casts) /\ n \in Nat /\ DOMAIN casts = 1 .. n
    BY DEF TypeCasts
  <1>5. /\ casts' = [j \in 1 .. n |->
              IF casts[j].for \in Tasks /\ net'[casts[j].for] # "applied"
              THEN [casts[j] EXCEPT !.for = Nobody] ELSE casts[j]]
        /\ Nobody \notin Tasks
    BY <1>4 DEF HubStep, Tasks, Nobody
  <1>6. ASSUME NEW j \in 1 .. n
        PROVE  /\ casts[j] \in Casts /\ casts'[j] \in Casts
               /\ Progress(casts'[j], Delivered)
               /\ casts'[j].for \in Tasks => casts'[j] = casts[j] /\ net'[casts[j].for] = "applied"
               /\ casts[j].for \in Tasks /\ net'[casts[j].for] = "applied" => casts'[j] = casts[j]
    <2>1. casts[j] \in Casts
      BY <1>4, ElementOfSeq
    <2>2. Progress(casts[j], Delivered)
      BY DEF CastInv
    <2>3. CASE casts'[j] = casts[j] /\ ~(casts[j].for \in Tasks /\ net'[casts[j].for] # "applied")
      BY <2>1, <2>2, <2>3
    <2>4. CASE casts'[j] = [casts[j] EXCEPT !.for = Nobody]
               /\ casts[j].for \in Tasks /\ net'[casts[j].for] # "applied"
      <3>1. /\ casts'[j] \in Casts /\ casts'[j].for = Nobody
            /\ casts'[j].b = casts[j].b /\ casts'[j].k = casts[j].k /\ casts'[j].to = casts[j].to
            /\ casts'[j].ahead = casts[j].ahead /\ casts'[j].moved = casts[j].moved
        BY <2>1, <2>4, CastUpdates DEF Casts
      <3>2. Progress(casts'[j], Delivered)
        BY <2>2, <3>1, ProgressKept
      <3> QED BY <1>5, <2>1, <2>4, <3>1, <3>2
    <2> QED BY <1>5, <2>3, <2>4
  <1>7. casts' \in Seq(Casts) /\ Len(casts') = n /\ DOMAIN casts' = 1 .. n
    BY <1>4, <1>5, <1>6
  <1>8. TypeCasts'
    <2>1. Seq(Accepted) \subseteq Seq(Accepted')
      BY <1>2, SeqMonotonic
    <2>2. Casts \subseteq Casts'
      BY <2>1 DEF Casts
    <2>3. Seq(Casts) \subseteq Seq(Casts')
      BY <2>2, SeqMonotonic
    <2> QED BY <1>2, <1>3, <1>7, <2>3 DEF TypeCasts
  <1>9. ASSUME NEW j \in 1 .. n, casts'[j].for \in Tasks
        PROVE  /\ casts'[j] = casts[j]
               /\ pc'[casts[j].for] \in Posting /\ net'[casts[j].for] = "applied"
               /\ casts[j].b = batch'[casts[j].for]
    <2> DEFINE t == casts[j].for
    <2>1. casts'[j] = casts[j] /\ net'[t] = "applied" /\ t \in Tasks
      BY <1>6, <1>9
    <2>2. Serving(t) /\ pc[t] \in Posting /\ net[t] = "applied" /\ casts[j].b = batch[t]
      BY <1>4, <2>1 DEF Serving, CastInv, Serves
    <2>3. TaskStep(t)
      BY <1>1, <2>1 DEF TasksStep
    <2> HIDE DEF t
    <2>4. pc'[t] = pc[t] /\ batch'[t] = batch[t]
      BY <2>1, <2>2, <2>3 DEF TaskStep
    <2> QED BY <2>1, <2>2, <2>4 DEF t
  <1>10. CastInv'
    <2>1. \A j \in 1 .. n : Progress(casts'[j], Delivered') /\ Serves(casts[j])'
      BY <1>3, <1>6, <1>9 DEF Serves
    <2>2. \A i, j \in 1 .. n : casts'[i].for = casts'[j].for /\ casts'[i].for \in Tasks => i = j
      BY <1>9 DEF CastInv
    <2> QED BY <1>7, <2>1, <2>2 DEF CastInv
  <1>11. ASSUME NEW t \in Tasks
         PROVE  /\ pc'[t] \in Posting /\ net'[t] = "applied"
                      => Serving(t)' \/ Range(batch'[t]) \subseteq Delivered
                /\ pc'[t] = "ltrim" /\ net'[t] = "sent" => Range(batch'[t]) \subseteq Delivered
    <2>1. TaskStep(t)
      BY <1>1 DEF TasksStep
    <2>2. Serving(t) /\ net'[t] = "applied" => Serving(t)'
      BY <1>4, <1>6, <1>7 DEF Serving
    <2>3. /\ pc[t] \in Posting /\ net[t] = "applied" => Serving(t) \/ Range(batch[t]) \subseteq Delivered
          /\ pc[t] = "ltrim" /\ net[t] = "sent" => Range(batch[t]) \subseteq Delivered
      BY DEF AnswerInv
    <2> QED BY <2>1, <2>2, <2>3, OtherPoints DEF TaskStep
  <1>12. AnswerInv'
    BY <1>3, <1>11 DEF AnswerInv
  <1> QED BY <1>8, <1>10, <1>12

-----------------------------------------------------------------------------
(* The broadcasts themselves.                                              *)

\* A broadcast that begins or moves on does so with a connection of the set,
\* in which the Viewer is.
LEMMA CastBegins ==
  ASSUME NEW b \in Seq(Accepted), NEW k \in 1 .. Len(b), NEW act \in SUBSET Browsers, Viewer \in act,
         NEW c \in act, NEW for \in Tasks \cup {Nobody},
         NEW D, Through(b, k, D)
  PROVE  /\ Cast(b, k, c, act, for) \in Casts /\ Progress(Cast(b, k, c, act, for), D)
         /\ Cast(b, k, c, act, for).b = b /\ Cast(b, k, c, act, for).for = for
  <1>1. Cardinality(act) \in Sizes /\ c \in Browsers /\ act \ {c} \in SUBSET Browsers
    BY DEF Sizes
  <1>2. k \in Nat
    OBVIOUS
  <1>3. Cast(b, k, c, act, for) \in Casts
    BY <1>1, <1>2 DEF Cast, Casts
  <1> QED BY <1>3 DEF Cast, Progress

\* A broadcast is added, to a task that was not served or to nobody.
LEMMA Appended ==
  ASSUME TypeCasts, CastInv, UNCHANGED <<accepted, active, fresh, shown, excused, pc, batch>>,
         \A t \in Tasks : net[t] = "applied" => net'[t] = "applied",
         NEW x \in Casts, Progress(x, Delivered), casts' = Append(casts, x),
         x.for \in Tasks =>
           /\ pc[x.for] \in Posting /\ net'[x.for] = "applied" /\ x.b = batch[x.for]
           /\ \A j \in 1 .. Len(casts) : casts[j].for # x.for
  PROVE  /\ TypeCasts' /\ CastInv'
         /\ \A t \in Tasks : Serving(t) \/ x.for = t => Serving(t)'
  <1> DEFINE n == Len(casts)
  <1>1. casts \in Seq(Casts) /\ n \in Nat /\ DOMAIN casts = 1 .. n
    BY DEF TypeCasts
  <1>2. /\ casts' \in Seq(Casts) /\ Len(casts') = n + 1 /\ DOMAIN casts' = 1 .. n + 1
        /\ \A j \in 1 .. n : casts'[j] = casts[j]
        /\ casts'[n + 1] = x
    BY <1>1, AppendProperties
  <1>3. Accepted' = Accepted /\ Casts' = Casts /\ Delivered' = Delivered
    BY DEF Accepted, Casts, Delivered
  <1>4. TypeCasts'
    BY <1>2, <1>3 DEF TypeCasts
  <1>5. \A j \in 1 .. n + 1 : j \in 1 .. n \/ j = n + 1
    BY <1>1
  <1>6. \A j \in 1 .. n + 1 : Progress(casts'[j], Delivered')
    BY <1>2, <1>3, <1>5 DEF CastInv
  <1>7. \A j \in 1 .. n + 1 : Serves(casts[j])'
    <2> SUFFICES ASSUME NEW j \in 1 .. n + 1 PROVE Serves(casts[j])'
      OBVIOUS
    <2>1. CASE j \in 1 .. n
      BY <1>2, <2>1 DEF CastInv, Serves
    <2>2. CASE j = n + 1
      BY <1>2, <2>2 DEF Serves
    <2> QED BY <1>5, <2>1, <2>2
  <1>8. \A i, j \in 1 .. n + 1 : casts'[i].for = casts'[j].for /\ casts'[i].for \in Tasks => i = j
    BY <1>2, <1>5 DEF CastInv
  <1>9. \A t \in Tasks : Serving(t) \/ x.for = t => Serving(t)'
    BY <1>1, <1>2, <1>5 DEF Serving
  <1> QED BY <1>2, <1>4, <1>6, <1>7, <1>8, <1>9 DEF CastInv

LEMMA CommitStep ==
  ASSUME HubInv, SentInv, TypeCasts, CastInv, AnswerInv, NEW t \in Tasks, Commit(t)
  PROVE  SentInv' /\ TypeCasts' /\ CastInv' /\ AnswerInv'
  <1>1. /\ UNCHANGED <<accepted, pc, batch, late>> /\ pc[t] \in Posting /\ net[t] = "sent"
        /\ net' = [net EXCEPT ![t] = "applied"]
    BY DEF Commit, StoreCommits, memVars, faultVars
  <1>2. UNCHANGED <<active, fresh, shown, excused>>
    BY DEF Commit
  <1>3. net \in [Tasks -> {"none", "sent", "applied", "refused"}]
    BY DEF HubInv, TypeInv, TypeOK
  <1>4. batch[t] \in Seq(Accepted) /\ batch[t] # <<>> /\ 1 \in 1 .. Len(batch[t])
    <2>1. batch[t] \in Seq(Accepted) /\ batch[t] # <<>>
      BY <1>1 DEF HubInv, KnownInv, SentInv
    <2>2. Len(batch[t]) \in Nat /\ Len(batch[t]) # 0
      BY <2>1, EmptySeq
    <2> QED BY <2>1, <2>2
  <1>5. PICK c \in active : casts' = Append(casts, Cast(batch[t], 1, c, active, t))
    BY DEF Commit
  <1> DEFINE x == Cast(batch[t], 1, c, active, t)
  <1>6. x \in Casts /\ Progress(x, Delivered) /\ x.b = batch[t] /\ x.for = t
    <2>1. Through(batch[t], 1, Delivered)
      BY DEF Through
    <2>2. active \in SUBSET Browsers /\ Viewer \in active /\ t \in Tasks \cup {Nobody}
      BY DEF TypeCasts
    <2> QED BY <1>4, <2>1, <2>2, CastBegins
  <1> HIDE DEF x
  <1>7. \A u \in Tasks : net[u] = "applied" => net'[u] = "applied"
    BY <1>1, <1>3
  <1>8. pc[t] \in Posting /\ net'[t] = "applied"
    BY <1>1, <1>3
  <1>9. \A j \in 1 .. Len(casts) : Serves(casts[j])
    BY DEF CastInv
  <1>10. \A j \in 1 .. Len(casts) : casts[j].for # x.for
    BY <1>1, <1>6, <1>9 DEF Serves
  <1>11. /\ TypeCasts' /\ CastInv'
         /\ \A u \in Tasks : Serving(u) \/ x.for = u => Serving(u)'
    <2>1. casts' = Append(casts, x)
      BY <1>5 DEF x
    <2> QED BY <1>1, <1>2, <1>6, <1>7, <1>8, <1>10, <2>1, Appended
  <1>12. SentInv'
    BY <1>1 DEF SentInv
  <1>13. AnswerInv'
    <2>1. Delivered' = Delivered
      BY <1>2 DEF Delivered
    <2>2. \A u \in Tasks : u = t \/ net'[u] = net[u]
      BY <1>1, <1>3
    <2>3. net'[t] = "applied"
      BY <1>1, <1>3
    <2> QED BY <1>1, <1>6, <1>11, <2>1, <2>2, <2>3 DEF AnswerInv
  <1> QED BY <1>11, <1>12, <1>13

LEMMA CommitLateStep ==
  ASSUME HubInv, SentInv, TypeCasts, CastInv, AnswerInv, CommitLate
  PROVE  SentInv' /\ TypeCasts' /\ CastInv' /\ AnswerInv'
  <1>1. UNCHANGED <<accepted, pc, batch, net>>
    BY DEF CommitLate, LateCommit, memVars, netVars
  <1>2. UNCHANGED <<active, fresh, shown, excused>>
    BY DEF CommitLate
  <1>3. /\ late \in Seq(Seq(Accepted)) /\ late \in Seq(Seq(Records))
        /\ Len(late) \in Nat /\ DOMAIN late = 1 .. Len(late)
    BY DEF HubInv, KnownInv, TypeInv, TypeOK
  <1>4. PICK k \in 1 .. Len(late), c \in active :
          late' = RemoveAt(late, k) /\ casts' = Append(casts, Cast(late[k], 1, c, active, Nobody))
    BY <1>3, Zenon DEF CommitLate
  <1>5. late[k] \in Seq(Accepted) /\ 1 \in 1 .. Len(late[k])
    <2>1. late[k] \in Seq(Accepted) /\ late[k] # <<>>
      BY <1>3, ElementOfSeq DEF SentInv
    <2>2. Len(late[k]) \in Nat /\ Len(late[k]) # 0
      BY <2>1, EmptySeq
    <2> QED BY <2>1, <2>2
  <1> DEFINE x == Cast(late[k], 1, c, active, Nobody)
  <1>6. x \in Casts /\ Progress(x, Delivered) /\ x.for = Nobody
    <2>1. Through(late[k], 1, Delivered)
      BY DEF Through
    <2>2. active \in SUBSET Browsers /\ Viewer \in active /\ Nobody \in Tasks \cup {Nobody}
      BY DEF TypeCasts
    <2> QED BY <1>5, <2>1, <2>2, CastBegins
  <1>7. casts' = Append(casts, x)
    BY <1>4
  <1> HIDE DEF x
  <1>8. Nobody \notin Tasks
    BY DEF Nobody, Tasks
  <1>9. TypeCasts' /\ CastInv' /\ \A t \in Tasks : Serving(t) \/ x.for = t => Serving(t)'
    BY <1>1, <1>2, <1>6, <1>7, <1>8, Appended
  <1>10. SentInv'
    <2>1. LateStep
      BY <1>4 DEF LateStep
    <2> QED BY <1>1, <2>1, SentLate DEF SentInv, HubInv, TypeInv
  <1>11. AnswerInv'
    <2>1. Delivered' = Delivered
      BY <1>2 DEF Delivered
    <2> QED BY <1>1, <1>9, <2>1 DEF AnswerInv
  <1> QED BY <1>9, <1>10, <1>11

-----------------------------------------------------------------------------
(* A send that returns.                                                    *)

\* The record that a send to the Viewer delivers is an accepted one.
LEMMA SendDelivers ==
  ASSUME TypeCasts, CastInv, NEW j \in 1 .. Len(casts),
         shown' = IF casts[j].to = Viewer THEN shown \cup {casts[j].b[casts[j].k]} ELSE shown,
         excused \subseteq excused', excused' \subseteq Delivered \cup Accepted, accepted' = accepted
  PROVE  /\ Delivered \subseteq Delivered' /\ Delivered' \subseteq Accepted
         /\ Accepted' = Accepted /\ Casts' = Casts
         /\ casts[j] \in Casts /\ Progress(casts[j], Delivered)
         /\ Viewer \in casts[j].ahead \/ casts[j].b[casts[j].k] \in Delivered'
  <1>1. casts[j] \in Casts /\ Progress(casts[j], Delivered) /\ Delivered \subseteq Accepted
    BY ElementOfSeq DEF TypeCasts, CastInv
  <1>2. casts[j].b \in Seq(Accepted) /\ casts[j].k \in 1 .. Len(casts[j].b)
    BY <1>1 DEF Casts, Progress
  <1>3. casts[j].b[casts[j].k] \in Accepted
    BY <1>2, ElementOfSeq
  <1>4. Accepted' = Accepted /\ Casts' = Casts
    BY DEF Accepted, Casts
  <1>5. Viewer \in casts[j].ahead \/ casts[j].b[casts[j].k] \in Delivered'
    BY <1>1 DEF Progress, Delivered
  <1> QED BY <1>1, <1>3, <1>4, <1>5 DEF Delivered

\* Broadcasts that are those under way, but for what is moved, and have reached
\* as much.
Like(cs) ==
  /\ cs \in Seq(Casts) /\ Len(cs) = Len(casts)
  /\ \A i \in 1 .. Len(casts) :
       cs[i].for = casts[i].for /\ cs[i].b = casts[i].b /\ Progress(cs[i], Delivered')

LEMMA CastsLike ==
  ASSUME TypeCasts, CastInv, Delivered \subseteq Delivered'
  PROVE  Like(casts)
  <1>1. \A i \in 1 .. Len(casts) : Progress(casts[i], Delivered')
    BY ProgressKept DEF CastInv
  <1> QED BY <1>1 DEF Like, TypeCasts

\* The records that are being broadcast are accepted ones.
LEMMA CurrentAccepted ==
  ASSUME TypeCasts, CastInv, NEW J \in SUBSET (1 .. Len(casts))
  PROVE  Current(J) \subseteq Accepted
  <1>1. ASSUME NEW i \in J PROVE casts[i].b[casts[i].k] \in Accepted
    <2>1. casts[i] \in Casts /\ Progress(casts[i], Delivered)
      BY ElementOfSeq DEF TypeCasts, CastInv
    <2>2. casts[i].b \in Seq(Accepted) /\ casts[i].k \in 1 .. Len(casts[i].b)
      BY <2>1 DEF Casts, Progress
    <2> QED BY <2>2, ElementOfSeq
  <1> QED BY <1>1 DEF Current

\* The table may be rebuilt under broadcasts whose records are excused.
LEMMA MovedLike ==
  ASSUME TypeCasts, CastInv, Delivered \subseteq Delivered',
         NEW J \in SUBSET (1 .. Len(casts)), Current(J) \subseteq Delivered'
  PROVE  Like(Moved(J))
  <1> DEFINE n == Len(casts)
  <1>1. casts \in Seq(Casts) /\ n \in Nat /\ DOMAIN casts = 1 .. n
    BY DEF TypeCasts
  <1>2. Moved(J) = [i \in 1 .. n |-> [casts[i] EXCEPT !.moved = @ \/ i \in J]]
    BY <1>1 DEF Moved
  <1>3. ASSUME NEW i \in 1 .. n
        PROVE  /\ Moved(J)[i] \in Casts /\ Progress(Moved(J)[i], Delivered')
               /\ Moved(J)[i].for = casts[i].for /\ Moved(J)[i].b = casts[i].b
    <2> DEFINE x == casts[i]
               v == x.moved \/ i \in J
               y == [x EXCEPT !.moved = v]
    <2>1. x \in Casts /\ Progress(x, Delivered)
      BY <1>1, ElementOfSeq DEF CastInv
    <2>2. Moved(J)[i] = y
      BY <1>2
    <2>3. v \in BOOLEAN /\ (v => x.moved \/ x.b[x.k] \in Delivered')
      BY DEF Current
    <2>4. x.for = casts[i].for /\ x.b = casts[i].b
      OBVIOUS
    <2> HIDE DEF x, v
    <2>5. /\ y \in Casts /\ y.b = x.b /\ y.k = x.k /\ y.to = x.to
          /\ y.ahead = x.ahead /\ y.for = x.for /\ y.moved = v
      BY <2>1, <2>3, CastUpdates DEF Casts
    <2> HIDE DEF y
    <2>6. Progress(y, Delivered')
      BY <2>1, <2>3, <2>5, ProgressKept
    <2> QED BY <2>2, <2>4, <2>5, <2>6
  <1>4. Moved(J) \in Seq(Casts) /\ Len(Moved(J)) = n
    BY <1>1, <1>2, <1>3
  <1> QED BY <1>3, <1>4 DEF Like

\* A broadcast goes on, for the same batch and task.
LEMMA Replaced ==
  ASSUME TypeCasts, CastInv, AnswerInv, NEW j \in 1 .. Len(casts), NEW y \in Casts,
         y.b = casts[j].b, y.for = casts[j].for, Progress(y, Delivered'), NEW cs, Like(cs),
         casts' = [cs EXCEPT ![j] = y], Casts' = Casts, UNCHANGED <<pc, batch, net>>,
         Delivered \subseteq Delivered'
  PROVE  casts' \in Seq(Casts') /\ CastInv' /\ AnswerInv'
  <1> DEFINE n == Len(casts)
  <1>1. casts \in Seq(Casts) /\ n \in Nat /\ DOMAIN casts = 1 .. n
    BY DEF TypeCasts
  <1>2. /\ casts' \in Seq(Casts) /\ Len(casts') = n /\ DOMAIN casts' = 1 .. n
        /\ \A i \in 1 .. n : casts'[i] = IF i = j THEN y ELSE cs[i]
    BY <1>1 DEF Like
  <1>3. \A i \in 1 .. n : casts'[i].for = casts[i].for /\ casts'[i].b = casts[i].b
    BY <1>2 DEF Like
  <1>4. \A i \in 1 .. n : Progress(casts'[i], Delivered')
    BY <1>2 DEF Like
  <1>5. \A i \in 1 .. n : Serves(casts[i])'
    BY <1>3 DEF CastInv, Serves
  <1>6. CastInv'
    BY <1>2, <1>3, <1>4, <1>5 DEF CastInv
  <1>7. \A t \in Tasks : Serving(t) => Serving(t)'
    BY <1>1, <1>2, <1>3 DEF Serving
  <1>8. AnswerInv'
    BY <1>7 DEF AnswerInv
  <1> QED BY <1>2, <1>6, <1>8

\* A broadcast is over, all its records having got through, or its task gets
\* an error.
LEMMA Removed ==
  ASSUME TypeCasts, CastInv, AnswerInv, net \in [Tasks -> {"none", "sent", "applied", "refused"}],
         NEW j \in 1 .. Len(casts), NEW cs, Like(cs), casts' = RemoveAt(cs, j),
         Casts' = Casts, UNCHANGED <<pc, batch>>, Delivered \subseteq Delivered',
         \/ net' = net /\ (casts[j].for \in Tasks => Range(casts[j].b) \subseteq Delivered')
         \/ casts[j].for \in Tasks /\ net' = [net EXCEPT ![casts[j].for] = "refused"]
  PROVE  casts' \in Seq(Casts') /\ CastInv' /\ AnswerInv'
  <1> DEFINE n == Len(casts)
             f(i) == IF i < j THEN i ELSE i + 1
  <1>1. casts \in Seq(Casts) /\ n \in Nat /\ DOMAIN casts = 1 .. n /\ j \in 1 .. n
    BY DEF TypeCasts
  <1>2. /\ casts' \in Seq(Casts) /\ Len(casts') = n - 1 /\ DOMAIN casts' = 1 .. n - 1
        /\ \A i \in 1 .. n - 1 : casts'[i] = cs[f(i)]
    <2>1. /\ casts' \in Seq(Casts) /\ Len(casts') = n - 1
          /\ \A i \in 1 .. n - 1 : casts'[i] = cs[IF i < j THEN i ELSE i + 1]
      <3>1. cs \in Seq(Casts) /\ Len(cs) = n
        BY DEF Like
      <3>2. j \in 1 .. Len(cs)
        BY <1>1, <3>1
      <3> QED BY <3>1, <3>2, RemoveAtElements, Zenon
    <2>2. DOMAIN casts' = 1 .. n - 1
      BY <2>1
    <2> QED BY <2>1, <2>2
  <1>3. \A i \in 1 .. n - 1 : f(i) \in 1 .. n /\ f(i) # j
    BY <1>1
  <1>4. \A i, k \in 1 .. n - 1 : f(i) = f(k) => i = k
    BY <1>1
  <1>5. ASSUME NEW m \in 1 .. n, m # j PROVE \E i \in 1 .. n - 1 : f(i) = m
    <2>1. CASE m < j
      <3>1. m \in 1 .. n - 1 /\ f(m) = m
        BY <1>1, <2>1
      <3> QED BY <3>1
    <2>2. CASE ~(m < j)
      <3>1. m - 1 \in 1 .. n - 1 /\ f(m - 1) = m
        BY <1>1, <1>5, <2>2
      <3> QED BY <3>1
    <2> QED BY <2>1, <2>2
  <1> HIDE DEF f
  <1>6. \A u \in Tasks : u # casts[j].for => net'[u] = net[u]
    OBVIOUS
  <1>7. \A m \in 1 .. n : m # j /\ casts[m].for \in Tasks => casts[m].for # casts[j].for
    BY <1>1 DEF CastInv
  <1>8. ASSUME NEW i \in 1 .. n - 1
        PROVE  /\ Progress(casts'[i], Delivered') /\ Serves(casts[i])'
               /\ casts'[i].for = casts[f(i)].for
    <2>1. /\ casts'[i].for = casts[f(i)].for /\ casts'[i].b = casts[f(i)].b
          /\ Progress(casts'[i], Delivered')
      BY <1>2, <1>3 DEF Like
    <2>2. Serves(casts[f(i)])
      BY <1>3 DEF CastInv
    <2>3. casts[f(i)].for \in Tasks => net'[casts[f(i)].for] = net[casts[f(i)].for]
      BY <1>3, <1>6, <1>7
    <2> QED BY <2>1, <2>2, <2>3 DEF Serves
  <1>9. CastInv'
    <2>1. \A i, k \in 1 .. n - 1 : casts'[i].for = casts'[k].for /\ casts'[i].for \in Tasks => i = k
      BY <1>3, <1>4, <1>8 DEF CastInv
    <2> QED BY <1>2, <1>8, <2>1 DEF CastInv
  <1>10. ASSUME NEW t \in Tasks, t # casts[j].for, Serving(t) PROVE Serving(t)'
    <2>1. PICK m \in 1 .. n : casts[m].for = t /\ m # j
      BY <1>1, <1>10 DEF Serving
    <2>2. PICK i \in 1 .. n - 1 : f(i) = m
      BY <1>5, <2>1
    <2> QED BY <1>2, <1>8, <2>1, <2>2 DEF Serving
  <1>11. AnswerInv'
    <2> SUFFICES ASSUME NEW t \in Tasks
                 PROVE  /\ pc[t] \in Posting /\ net'[t] = "applied"
                             => Serving(t)' \/ Range(batch[t]) \subseteq Delivered'
                        /\ pc[t] = "ltrim" /\ net'[t] = "sent" => Range(batch[t]) \subseteq Delivered'
      BY DEF AnswerInv
    <2>1. CASE t # casts[j].for
      BY <1>6, <1>10, <2>1 DEF AnswerInv
    <2>2. CASE t = casts[j].for
      <3>1. pc[t] \in Posting /\ casts[j].b = batch[t]
        BY <2>2 DEF CastInv, Serves
      <3>2. net'[t] = "applied" => Range(batch[t]) \subseteq Delivered'
        BY <2>2, <3>1
      <3> QED BY <3>1, <3>2, OtherPoints
    <2> QED BY <2>1, <2>2
  <1> QED BY <1>2, <1>9, <1>11

\* The records of broadcasts that are moved are excused.
LEMMA GoOnExcuses ==
  ASSUME TypeCasts, CastInv, NEW j \in 1 .. Len(casts), GoOn(j)
  PROVE  excused \subseteq excused' /\ excused' \subseteq excused \cup Accepted
  <1>1. DOMAIN casts = 1 .. Len(casts)
    BY DEF TypeCasts
  <1>2. CASE NextConnection(j)
    BY <1>2 DEF NextConnection
  <1>3. CASE EndBroadcast(j)
    <2>1. PICK J \in {{}, DOMAIN casts \ {j}} : excused' = excused \cup Current(J)
      BY <1>3 DEF EndBroadcast
    <2>2. Current(J) \subseteq Accepted
      BY <1>1, CurrentAccepted
    <2> QED BY <2>1, <2>2
  <1> QED BY <1>2, <1>3 DEF GoOn

\* The iteration finds the set as large as it was.
LEMMA GoOnStep ==
  ASSUME HubInv, TypeCasts, CastInv, AnswerInv, NEW j \in 1 .. Len(casts), GoOn(j),
         shown' = IF casts[j].to = Viewer THEN shown \cup {casts[j].b[casts[j].k]} ELSE shown,
         fresh' = fresh
  PROVE  TypeCasts' /\ CastInv' /\ AnswerInv'
  <1> DEFINE x == casts[j]
             Ahead == IF x.moved THEN SUBSET active ELSE {x.ahead \cap active}
  <1>1. UNCHANGED <<accepted, pc, batch, net>>
    BY DEF GoOn, vars
  <1>2. /\ Delivered \subseteq Delivered' /\ Delivered' \subseteq Accepted
        /\ Accepted' = Accepted /\ Casts' = Casts
        /\ x \in Casts /\ Progress(x, Delivered)
        /\ Viewer \in x.ahead \/ x.b[x.k] \in Delivered'
    BY <1>1, GoOnExcuses, SendDelivers DEF Delivered
  <1>3. /\ x.b \in Seq(Accepted) /\ x.k \in 1 .. Len(x.b) /\ Len(x.b) \in Nat
        /\ x.for \in Tasks \cup {Nobody}
        /\ Through(x.b, x.k, Delivered') /\ (x.moved => x.b[x.k] \in Delivered')
    BY <1>2 DEF Casts, Progress, Through
  <1>4. Viewer \in active /\ active \in SUBSET Browsers /\ casts \in Seq(Casts) /\ fresh \subseteq Visitors
    BY DEF TypeCasts
  <1>5. net \in [Tasks -> {"none", "sent", "applied", "refused"}]
    BY DEF HubInv, TypeInv, TypeOK
  <1>6. \A S \in Ahead : S \subseteq active /\ (Viewer \in S \/ x.b[x.k] \in Delivered')
    BY <1>2, <1>3, <1>4
  <1>7. ASSUME casts' \in Seq(Casts'), Viewer \in active', active' \in SUBSET Browsers
        PROVE  TypeCasts'
    BY <1>2, <1>4, <1>7 DEF TypeCasts
  <1>8. CASE NextConnection(j)
    <2>0. PICK S \in Ahead : \E c \in S :
            casts' = [casts EXCEPT ![j].to = c, ![j].ahead = S \ {c}, ![j].moved = FALSE]
      BY <1>8 DEF NextConnection
    <2>1. PICK c \in S :
            casts' = [casts EXCEPT ![j].to = c, ![j].ahead = S \ {c}, ![j].moved = FALSE]
      BY <2>0
    <2> DEFINE y == [x EXCEPT !.to = c, !.ahead = S \ {c}, !.moved = FALSE]
    <2>2. casts' = [casts EXCEPT ![j] = y] /\ active' = active
      BY <1>4, <1>8, <2>1 DEF NextConnection
    <2>3. S \subseteq active /\ (Viewer \in S \/ x.b[x.k] \in Delivered')
      BY <1>6
    <2>4. c \in Browsers /\ S \ {c} \in SUBSET Browsers
      BY <1>4, <2>3
    <2>5. /\ y \in Casts /\ y.b = x.b /\ y.for = x.for /\ y.k = x.k
          /\ y.to = c /\ y.ahead = S \ {c} /\ y.moved = FALSE
      BY <1>2, <2>4 DEF Casts
    <2> HIDE DEF y, x
    <2>6. Progress(y, Delivered')
      BY <1>3, <2>3, <2>5 DEF Progress
    <2>7. casts' \in Seq(Casts') /\ CastInv' /\ AnswerInv'
      BY <1>1, <1>2, <2>2, <2>5, <2>6, CastsLike, Replaced DEF x
    <2> QED BY <1>4, <1>7, <2>2, <2>7
  <1>9. CASE EndBroadcast(j)
    <2>1. Viewer \in active' /\ active' \in SUBSET Browsers
      BY <1>4, <1>9 DEF EndBroadcast
    <2>2. x.b[x.k] \in Delivered'
      BY <1>2, <1>3, <1>4, <1>9 DEF EndBroadcast
    <2>3. PICK J \in {{}, DOMAIN casts \ {j}} :
            /\ excused' = excused \cup Current(J)
            /\ \/ /\ x.k < Len(x.b)
                  /\ \E c \in active' :
                       casts' = [Moved(J) EXCEPT ![j] = Cast(x.b, x.k + 1, c, active', x.for)]
               \/ /\ x.k = Len(x.b)
                  /\ casts' = RemoveAt(Moved(J), j)
      BY <1>9 DEF EndBroadcast
    <2>4. Like(Moved(J))
      <3>1. J \in SUBSET (1 .. Len(casts)) /\ Current(J) \subseteq Delivered'
        BY <1>4, <2>3 DEF Delivered
      <3> QED BY <1>2, <3>1, MovedLike
    <2>5. ASSUME NEW c \in active', x.k < Len(x.b),
                 casts' = [Moved(J) EXCEPT ![j] = Cast(x.b, x.k + 1, c, active', x.for)]
          PROVE  casts' \in Seq(Casts') /\ CastInv' /\ AnswerInv'
      <3>1. x.k + 1 \in 1 .. Len(x.b) /\ Through(x.b, x.k + 1, Delivered')
        BY <1>3, <2>2, <2>5 DEF Through
      <3> DEFINE y == Cast(x.b, x.k + 1, c, active', x.for)
      <3>2. y \in Casts /\ Progress(y, Delivered') /\ y.b = x.b /\ y.for = x.for
        BY <1>3, <2>1, <3>1, CastBegins
      <3>3. casts' = [Moved(J) EXCEPT ![j] = y]
        BY <2>5
      <3> HIDE DEF y, x
      <3> QED BY <1>1, <1>2, <2>4, <3>2, <3>3, Replaced DEF x
    <2>6. ASSUME x.k = Len(x.b), casts' = RemoveAt(Moved(J), j)
          PROVE  casts' \in Seq(Casts') /\ CastInv' /\ AnswerInv'
      <3>1. \A i \in 1 .. Len(x.b) : x.b[i] \in Delivered'
        BY <1>3, <2>2, <2>6 DEF Through
      <3>2. Range(x.b) \subseteq Delivered'
        BY <1>3, <3>1 DEF Range
      <3> QED BY <1>1, <1>2, <1>5, <2>4, <2>6, <3>2, Removed
    <2> QED BY <1>7, <2>1, <2>3, <2>5, <2>6
  <1> QED BY <1>8, <1>9 DEF GoOn

\* It finds another size, or nobody waits for it.
LEMMA FailStep ==
  ASSUME HubInv, TypeCasts, CastInv, AnswerInv, NEW j \in 1 .. Len(casts), Fail(j),
         shown' = IF casts[j].to = Viewer THEN shown \cup {casts[j].b[casts[j].k]} ELSE shown,
         fresh' = fresh
  PROVE  TypeCasts' /\ CastInv' /\ AnswerInv'
  <1>1. casts \in Seq(Casts) /\ net \in [Tasks -> {"none", "sent", "applied", "refused"}]
    BY DEF HubInv, TypeInv, TypeOK, TypeCasts
  <1>2. \/ UNCHANGED <<accepted, pc, batch, net>> /\ casts[j].for \notin Tasks
        \/ /\ UNCHANGED <<accepted, pc, batch>> /\ casts[j].for \in Tasks
           /\ net' = [net EXCEPT ![casts[j].for] = "refused"]
    <2>1. casts[j] \in Casts /\ Nobody \notin Tasks
      BY <1>1, ElementOfSeq DEF Nobody, Tasks
    <2>2. casts[j].for \in Tasks \cup {Nobody}
      BY <2>1 DEF Casts
    <2> QED BY <2>1, <2>2 DEF Fail, ReplyLost, vars, memVars
  <1>3. casts' = RemoveAt(casts, j) /\ active' = active /\ excused' = excused
    BY DEF Fail
  <1>4. /\ Delivered \subseteq Delivered' /\ Delivered' \subseteq Accepted
        /\ Accepted' = Accepted /\ Casts' = Casts
    BY <1>2, <1>3, SendDelivers DEF Delivered
  <1>5. casts' \in Seq(Casts') /\ CastInv' /\ AnswerInv'
    BY <1>1, <1>2, <1>3, <1>4, CastsLike, Removed
  <1>6. TypeCasts'
    BY <1>3, <1>4, <1>5 DEF TypeCasts
  <1> QED BY <1>5, <1>6

\* A visitor connects, and the records being broadcast are excused.
LEMMA JoinStep ==
  ASSUME TypeCasts, CastInv, AnswerInv, NEW v \in Visitors, Join(v)
  PROVE  TypeCasts' /\ CastInv' /\ AnswerInv'
  <1> DEFINE n == Len(casts)
  <1>1. casts \in Seq(Casts) /\ n \in Nat /\ DOMAIN casts = 1 .. n
    BY DEF TypeCasts
  <1>2. /\ casts' = Moved(1 .. n) /\ excused' = excused \cup Current(1 .. n)
        /\ UNCHANGED <<accepted, pc, batch, net, shown>>
    BY <1>1 DEF Join, vars
  <1>3. Accepted' = Accepted /\ Casts' = Casts
    BY <1>2 DEF Accepted, Casts
  <1>4. Delivered \subseteq Delivered' /\ Delivered' \subseteq Accepted /\ Current(1 .. n) \subseteq Delivered'
    BY <1>2, CurrentAccepted DEF Delivered, TypeCasts
  <1>5. Like(casts')
    BY <1>2, <1>4, MovedLike
  <1>6. /\ casts' \in Seq(Casts) /\ Len(casts') = n /\ DOMAIN casts' = 1 .. n
        /\ \A j \in 1 .. n : /\ casts'[j].b = casts[j].b /\ casts'[j].for = casts[j].for
                            /\ Progress(casts'[j], Delivered')
    BY <1>1, <1>5 DEF Like
  <1>7. TypeCasts'
    BY <1>3, <1>4, <1>6 DEF TypeCasts, Join, Browsers
  <1>8. CastInv'
    <2>1. \A j \in 1 .. n : Serves(casts[j])'
      BY <1>2, <1>6 DEF CastInv, Serves
    <2>2. \A i, j \in 1 .. n : casts'[i].for = casts'[j].for /\ casts'[i].for \in Tasks => i = j
      BY <1>6 DEF CastInv
    <2> QED BY <1>6, <2>1, <2>2 DEF CastInv
  <1>9. AnswerInv'
    <2>1. \A t \in Tasks : Serving(t) => Serving(t)'
      BY <1>1, <1>6 DEF Serving
    <2> QED BY <1>2, <1>4, <2>1 DEF AnswerInv
  <1> QED BY <1>7, <1>8, <1>9

\* A visitor leaves, but the Viewer does not.
LEMMA LeaveStep ==
  ASSUME TypeCasts, CastInv, AnswerInv, NEW v \in Visitors, Leave(v)
  PROVE  TypeCasts' /\ CastInv' /\ AnswerInv'
  <1>1. UNCHANGED <<accepted, pc, batch, net, casts, shown, excused, fresh>> /\ active' = active \ {v}
    BY DEF Leave, vars
  <1>2. v # Viewer
    BY VisitorsAssumption
  <1>3. Accepted' = Accepted /\ Casts' = Casts /\ Delivered' = Delivered
    BY <1>1 DEF Accepted, Casts, Delivered
  <1>4. TypeCasts'
    BY <1>1, <1>2, <1>3 DEF TypeCasts
  <1> QED BY <1>1, <1>3, <1>4 DEF CastInv, AnswerInv, Serves, Serving

\* Every step of the pipeline keeps its invariant.
LEMMA PipelineStep == PipelineInv /\ [PipelineNext]_pipelineVars => PipelineInv'
  <1> SUFFICES ASSUME PipelineInv, [PipelineNext]_pipelineVars PROVE PipelineInv'
    OBVIOUS
  <1> USE DEF PipelineInv
  <1>1. HubInv'
    BY HubOfPipeline, HubInvStep DEF TypeCasts
  <1>2. TypeOK /\ TypeOK'
    BY <1>1 DEF HubInv, TypeInv
  <1>3. CASE HubStep(Quiet)
    <2>1. SentInv'
      BY <1>2, <1>3, SentQuiet DEF HubStep
    <2> QED BY <1>1, <1>3, <2>1, HubCasts
  <1>4. ASSUME NEW t \in Tasks, Commit(t) PROVE PipelineInv'
    BY <1>1, <1>4, CommitStep
  <1>5. CASE CommitLate
    BY <1>1, <1>5, CommitLateStep
  <1>6. CASE Broadcasting
    <2>1. PICK j \in 1 .. Len(casts) : SendReturns(j)
      BY <1>6 DEF Broadcasting, TypeCasts
    <2>2. TypeCasts' /\ CastInv' /\ AnswerInv'
      BY <2>1, GoOnStep, FailStep DEF SendReturns
    <2>3. SentInv'
      <3>1. CASE UNCHANGED vars
        BY <3>1 DEF vars, SentInv
      <3>2. ASSUME NEW t \in Tasks, ReplyLost(t) PROVE SentInv'
        BY <1>2, <3>2, SentQuiet DEF Quiet, Fault
      <3>3. GoOn(j) => UNCHANGED vars
        BY DEF GoOn
      <3> QED BY <2>1, <3>1, <3>2, <3>3, FailIs DEF SendReturns, TypeCasts
    <2> QED BY <1>1, <2>2, <2>3
  <1>7. ASSUME NEW v \in Visitors, Join(v) \/ Leave(v) PROVE PipelineInv'
    <2>1. SentInv'
      BY <1>7 DEF Join, Leave, vars, SentInv
    <2> QED BY <1>1, <1>7, <2>1, JoinStep, LeaveStep
  <1>8. CASE UNCHANGED pipelineVars
    <2>1. UNCHANGED <<accepted, pc, batch, net, late>> /\ UNCHANGED castVars
      BY <1>8 DEF pipelineVars, vars
    <2>2. Accepted' = Accepted /\ Casts' = Casts /\ Delivered' = Delivered
      BY <2>1 DEF Accepted, Casts, Delivered, castVars
    <2> QED BY <1>1, <2>1, <2>2 DEF castVars, SentInv, TypeCasts, CastInv, AnswerInv, Serves, Serving
  <1> QED BY <1>3, <1>4, <1>5, <1>6, <1>7, <1>8, HubSteps DEF PipelineNext

\* The invariant holds throughout every run of the pipeline: in particular the
\* hub keeps its own, and a batch that was answered 201 got through.
THEOREM PipelineInvariant == PipelineSpec => []PipelineInv
  <1>1. PipelineInit => PipelineInv
    <2> SUFFICES ASSUME PipelineInit PROVE PipelineInv
      OBVIOUS
    <2>1. Init /\ casts = <<>> /\ shown = {} /\ excused = {} /\ active = {Viewer} /\ fresh \in SUBSET Visitors
      BY DEF PipelineInit
    <2>2. HubInv
      BY <2>1, InitTypeInv, OutsidePoints, UpPoints
      DEF Init, HubInv, LockInv, BatchInv, DeletesWhatItSent, SentIsSafe, KnownInv, DownInv,
          InFlush, Posting, Redis, Tasks
    <2>3. \A t \in Tasks : pc[t] \notin Posting \cup {"ltrim"}
      BY <2>1, OtherPoints DEF Init
    <2>4. SentInv /\ AnswerInv
      BY <2>1, <2>3 DEF Init, SentInv, AnswerInv
    <2>5. casts \in Seq(Casts) /\ Len(casts) = 0 /\ Delivered = {}
      BY <2>1 DEF Delivered
    <2>6. TypeCasts /\ CastInv
      BY <2>1, <2>5 DEF TypeCasts, CastInv, Browsers
    <2> QED BY <2>2, <2>4, <2>6 DEF PipelineInv
  <1> QED BY <1>1, PipelineStep, PTL DEF PipelineSpec

\* A run of the pipeline is a run of the hub: broadcasts that fail look to it
\* like answers that are lost, so all that was proved of the hub holds here.
THEOREM HubImplemented == PipelineSpec => Spec
  <1>1. PipelineInit => Init
    BY DEF PipelineInit
  <1>2. PipelineInv /\ [PipelineNext]_pipelineVars => [Next]_vars
    BY HubOfPipeline DEF PipelineInv, TypeCasts
  <1> QED BY <1>1, <1>2, PipelineInvariant, PTL DEF PipelineSpec, Spec

-----------------------------------------------------------------------------
(* From the topic to the browser.                                          *)

\* A step that leaves the records where they are is a stutter.
LEMMA EndToEndStutters ==
  ASSUME Volatile' = Volatile, UNCHANGED <<accepted, backlog, shown, excused, unseen>>, Up' = Up
  PROVE  UNCHANGED EndToEnd!vars
  BY DEF EndToEnd!vars, Volatile

\* A step of the hub accepts, spills, releases or trims, or ends or starts the
\* process.
LEMMA HubEndToEnd ==
  ASSUME HubInv, HubInv', AnswerInv, HubStep(Quiet)
  PROVE  EndToEnd!Next \/ UNCHANGED EndToEnd!vars
  <1> USE DEF lockVars, netVars, memVars, ghostVars, faultVars
  <1>1. TypeOK /\ TypeOK' /\ Reserved' /\ BatchInv /\ KnownInv /\ DownInv /\ Quiet
    BY DEF HubInv, TypeInv, HubStep
  <1>2. /\ shown' = shown /\ excused' = excused
        /\ unseen' = IF Up /\ ~Up'
                     THEN unseen \cup (Volatile \ (Range(backlog) \cup shown \cup excused))
                     ELSE unseen
    BY DEF HubStep, Up, Volatile
  <1>3. CASE GoDown /\ Up
    <2>1. unseen' = unseen \cup (Volatile \ (Range(backlog) \cup (shown \cup excused)))
      BY <1>2, <1>3, GoDownRange
    <2>2. EndToEnd!GoDown
      BY <1>2, <1>3, <2>1, GoDownRange DEF EndToEnd!GoDown, Volatile
    <2> QED BY <2>2 DEF EndToEnd!Next
  <1>4. CASE Restart
    <2>1. ~Up /\ Up' /\ UNCHANGED <<accepted, queue, buffer, backlog>>
      BY <1>4, UpPoints DEF Restart, Up, Tasks
    <2>2. EndToEnd!GoUp
      BY <1>2, <2>1 DEF EndToEnd!GoUp
    <2> QED BY <2>2 DEF EndToEnd!Next
  <1>5. CASE ~(GoDown /\ Up) /\ ~Restart
    <2>1. Up' = Up
      BY <1>1, <1>5, UpStays, QuietIs
    <2>2. unseen' = unseen
      BY <1>2, <2>1
    <2>3. ASSUME UNCHANGED <<accepted, queue, buffer, backlog>> PROVE UNCHANGED EndToEnd!vars
      <3>1. Volatile' = Volatile
        BY <2>3 DEF Volatile
      <3> QED BY <1>2, <2>1, <2>2, <2>3, <3>1, EndToEndStutters
    <2>4. CASE OnMessage \/ TimerFires \/ StopFlushes \/ BeginStop \/ LateLost
      BY <2>3, <2>4 DEF OnMessage, TimerFires, StopFlushes, BeginStop, LateLost
    <2>5. CASE PutCallback \/ Ingest
      <3>1. Up /\ Enqueue
        BY <1>1, <2>5, SMTT(30) DEF DownInv, Up, PutCallback, Ingest, TypeOK
      <3>2. EndToEnd!Accept
        BY <1>1, <1>2, <2>1, <2>2, <3>1, EnqueueRange DEF EndToEnd!Accept, Volatile, TypeOK
      <3> QED BY <3>2 DEF EndToEnd!Next
    <2>6. CASE Process
      BY <1>1, <1>2, <2>1, <2>2, <2>6, ProcessRange, EndToEndStutters
    <2>7. ASSUME NEW S \in SUBSET Accepted, S \subseteq Range(backlog) \cup Delivered,
                 Volatile' = Volatile \ S, UNCHANGED <<accepted, backlog>>, Up
          PROVE  EndToEnd!Next
      <3>1. EndToEnd!Release(S)
        BY <1>2, <2>1, <2>2, <2>7 DEF EndToEnd!Release, Volatile, Delivered
      <3> QED BY <3>1 DEF EndToEnd!Next, Accepted
    <2>8. ASSUME NEW t \in Tasks, ~Serving(t), PostReturns(t)
          PROVE  EndToEnd!Next \/ UNCHANGED EndToEnd!vars
      <3>1. UNCHANGED <<accepted, queue, backlog>>
        BY <2>8 DEF PostReturns
      <3>2. CASE buffer' = buffer
        BY <2>3, <3>1, <3>2
      <3>3. CASE pc[t] = "postBuffer" /\ net[t] = "applied" /\ buffer' = Without(buffer, batch[t])
        <4>1. IsPrefix(batch[t], buffer) /\ batch[t] \in Seq(Records)
          BY <1>1, <3>3 DEF BatchInv, DeletesWhatItSent, TypeOK
        <4>2. Range(batch[t]) \subseteq Delivered
          BY <2>8, <3>3 DEF AnswerInv, Posting
        <4>3. Up
          BY <1>1, <3>3 DEF DownInv, Up
        <4>4. PICK S \in SUBSET Accepted : S \subseteq Range(batch[t]) /\ Volatile' = Volatile \ S
          BY <1>1, <3>1, <3>3, <4>1, ReleaseRange
        <4> QED BY <2>7, <3>1, <4>2, <4>3, <4>4
      <3> QED BY <2>8, <3>2, <3>3 DEF PostReturns
    <2>9. ASSUME NEW t \in Tasks, RedisReturns(t)
          PROVE  EndToEnd!Next \/ UNCHANGED EndToEnd!vars
      <3>1. UNCHANGED <<accepted, queue, backlog>>
        BY <2>9 DEF RedisReturns
      <3>2. CASE buffer' = buffer
        BY <2>3, <3>1, <3>2
      <3>3. CASE pc[t] = "rpush" /\ net[t] = "applied" /\ buffer' = Without(buffer, batch[t])
        <4>1. IsPrefix(batch[t], buffer) /\ batch[t] \in Seq(Records) /\ Range(batch[t]) \subseteq Range(backlog)
          BY <1>1, <3>3 DEF BatchInv, DeletesWhatItSent, SentIsSafe, TypeOK
        <4>2. Up
          BY <1>1, <3>3 DEF DownInv, Up
        <4>3. PICK S \in SUBSET Accepted : S \subseteq Range(batch[t]) /\ Volatile' = Volatile \ S
          BY <1>1, <3>1, <3>3, <4>1, ReleaseRange
        <4> QED BY <2>7, <3>1, <4>1, <4>2, <4>3
      <3> QED BY <2>9, <3>2, <3>3 DEF RedisReturns
    <2>10. ASSUME NEW t \in Tasks, RedisApplies(t) PROVE EndToEnd!Next
      <3>1. UNCHANGED <<accepted, queue, buffer>> /\ Volatile' = Volatile
        BY <1>1, <2>10, RedisRange DEF Volatile
      <3>2. ASSUME NEW S \in SUBSET Accepted, pc[t] = "ltrim", net[t] = "sent", S \subseteq Range(batch[t]),
                   Range(backlog') = Range(backlog) \ S
            PROVE  EndToEnd!Trim(S)
        <4>1. S \subseteq Delivered
          BY <3>2 DEF AnswerInv
        <4> QED BY <1>2, <2>1, <2>2, <3>1, <3>2, <4>1 DEF EndToEnd!Trim, Delivered
      <3>3. ASSUME NEW S \in SUBSET Accepted, S \subseteq Volatile, Range(backlog') = Range(backlog) \cup S
            PROVE  EndToEnd!Spill(S)
        BY <1>2, <2>1, <2>2, <3>1, <3>3 DEF EndToEnd!Spill, Volatile
      <3> QED BY <1>1, <2>10, <3>2, <3>3, RedisRange DEF EndToEnd!Next, Accepted
    <2>11. ASSUME NEW t \in Tasks,
                  GetLock(t) \/ BacklogRead(t) \/ StoreRefuses(t) \/ PostTimesOut(t) \/ ReplyLost(t)
           PROVE  UNCHANGED EndToEnd!vars
      BY <2>3, <2>11 DEF GetLock, BacklogRead, StoreRefuses, PostTimesOut, ReplyLost
    <2>12. ASSUME NEW t \in Tasks, RedisRaises(t) PROVE UNCHANGED EndToEnd!vars
      <3>1. Up
        BY <1>1, <2>12 DEF RedisRaises, Redis, DownInv, Up
      <3> QED BY <1>5, <2>3, <2>12, <3>1 DEF RedisRaises
    <2>13. CASE CancelTimer \/ CancelProc
      BY <2>3, <2>13 DEF CancelTimer, CancelProc, CancelTask
    <2>14. CASE Exit \/ Crash
      BY <1>5, <2>14 DEF Exit, Crash, Up
    <2> QED
      BY <1>1, <1>5, <2>4, <2>5, <2>6, <2>8, <2>9, <2>10, <2>11, <2>12, <2>13, <2>14
      DEF Quiet, Fault, StopStep
  <1> QED BY <1>3, <1>4, <1>5

\* A step of the Store delivers, or is not seen.
LEMMA StoreEndToEnd ==
  ASSUME UNCHANGED <<accepted, queue, buffer, backlog, pc, unseen>>,
         Delivered \subseteq Delivered', Delivered' \subseteq Accepted
  PROVE  EndToEnd!Next
  <1>1. Delivered' = Delivered \cup Delivered' /\ Delivered' \in SUBSET Accepted
    OBVIOUS
  <1>2. Up' = Up
    BY DEF Up
  <1>3. EndToEnd!Deliver(Delivered')
    BY <1>1, <1>2 DEF EndToEnd!Deliver, Delivered
  <1> QED BY <1>1, <1>3 DEF EndToEnd!Next, Accepted

LEMMA EndToEndStep ==
  PipelineInv /\ PipelineInv' /\ [PipelineNext]_pipelineVars => [EndToEnd!Next]_(EndToEnd!vars)
  <1> SUFFICES ASSUME PipelineInv, PipelineInv', [PipelineNext]_pipelineVars
               PROVE  EndToEnd!Next \/ UNCHANGED EndToEnd!vars
    OBVIOUS
  <1> USE DEF memVars
  <1>1. CASE HubStep(Quiet)
    BY <1>1, HubEndToEnd DEF PipelineInv
  <1>2. ASSUME UNCHANGED <<accepted, queue, buffer, backlog, pc, unseen>>, Delivered \subseteq Delivered'
        PROVE  EndToEnd!Next
    <2>1. Delivered' \subseteq Accepted
      BY <1>2 DEF PipelineInv, TypeCasts, Accepted
    <2> QED BY <1>2, <2>1, StoreEndToEnd
  <1>3. ASSUME NEW t \in Tasks, Commit(t) PROVE EndToEnd!Next
    BY <1>2, <1>3 DEF Commit, StoreCommits, Delivered
  <1>4. CASE CommitLate
    BY <1>2, <1>4 DEF CommitLate, LateCommit, netVars, Delivered
  <1>5. CASE Broadcasting
    <2>1. PICK j \in 1 .. Len(casts) : SendReturns(j)
      BY <1>5 DEF Broadcasting, PipelineInv, TypeCasts
    <2>2. UNCHANGED <<accepted, queue, buffer, backlog, pc>>
      <3>1. UNCHANGED vars \/ \E t \in Tasks : ReplyLost(t)
        BY <2>1, FailIs DEF SendReturns, GoOn, PipelineInv, TypeCasts
      <3> QED BY <3>1 DEF vars, ReplyLost
    <2>3. Delivered \subseteq Delivered'
      <3>1. GoOn(j) => excused \subseteq excused'
        BY <2>1, GoOnExcuses DEF PipelineInv
      <3>2. Fail(j) => excused' = excused
        BY DEF Fail
      <3> QED BY <2>1, <3>1, <3>2 DEF SendReturns, Delivered
    <2> QED BY <1>2, <2>1, <2>2, <2>3 DEF SendReturns
  <1>6. ASSUME NEW v \in Visitors, Join(v) \/ Leave(v) PROVE EndToEnd!Next
    BY <1>2, <1>6 DEF Join, Leave, vars, Delivered
  <1>7. CASE UNCHANGED pipelineVars
    BY <1>7 DEF pipelineVars, castVars, vars, EndToEnd!vars, Up
  <1> QED BY <1>1, <1>3, <1>4, <1>5, <1>6, <1>7, HubSteps DEF PipelineNext

\* The pipeline implements the delivery contract: a record leaves the memory or
\* the backlog of the hub only when a safer place has it or when it got through
\* to the browser, although commits, answers and broadcasts come apart.
THEOREM EndToEndImplemented == PipelineSpec => ImplementsEndToEnd
  <1>1. PipelineInit => EndToEnd!Init
    <2> SUFFICES ASSUME PipelineInit PROVE EndToEnd!Init
      OBVIOUS
    <2>1. Range(queue) = {} /\ Range(buffer) = {} /\ Range(backlog) = {}
      BY DEF PipelineInit, Init, Range
    <2>2. Up
      BY UpPoints DEF PipelineInit, Init, Up, Tasks
    <2> QED BY <2>1, <2>2 DEF PipelineInit, Init, EndToEnd!Init
  <1> QED
    BY <1>1, EndToEndStep, PipelineInvariant, PTL DEF PipelineSpec, ImplementsEndToEnd, EndToEnd!Spec
=============================================================================
