-------------------------------- MODULE Hub --------------------------------
(***************************************************************************)
(* HubService: MQTT records go through an asyncio.Queue into a memory      *)
(* buffer; batches of the buffer are posted to the Store API, and a batch  *)
(* the Store did not take is spilled to a Redis list and retried.          *)
(* SensorsHubService has the same control with another key and batch size. *)
(*                                                                         *)
(* Three asyncio tasks call flush: the processor ("proc"), the periodic    *)
(* timer ("timer") and the task running stop() ("stop").  The code between *)
(* two awaits is one step.  A record is the number it was accepted under;  *)
(* its JSON form is left out.  An await on the Store or on Redis is two    *)
(* steps, the effect at the server and the return to the task, so that     *)
(* faults, cancellation and crashes can fall between them.                 *)
(***************************************************************************)
EXTENDS Naturals, FiniteSets, SequencesExt

CONSTANTS
  BatchSize,     \* _batch_size
  MaxItems,      \* bound: records ever received
  MaxGlitches,   \* bound: faults injected by the environment, see glitches
  MaxStarts      \* bound: starts of the process

ASSUME HubAssumption ==
  /\ BatchSize \in Nat \ {0}
  /\ MaxItems \in Nat
  /\ MaxGlitches \in Nat
  /\ MaxStarts \in Nat \ {0}

VARIABLES
  scheduled,   \* call_soon_threadsafe callbacks not run yet
  accepted,    \* records put in the queue so far; they are numbered 1..accepted
  queue,       \* _queue
  unfinished,  \* _queue's count of records got but not marked task_done
  buffer,      \* _buffer
  backlog,     \* the Redis list _REDIS_KEY
  copies,      \* copies[i]: rows the Store holds for record i
  late,        \* batches of requests nobody waits for that the Store may still serve
  owner,       \* the task holding _flush_lock
  waiters,     \* the tasks waiting for it, first come first served
  pc,          \* where each task is
  batch,       \* the local variable batch of each task
  net,         \* the outstanding request of each task
  running,     \* _running, and the MQTT loop
  dropped,     \* records that were only in memory when the process ended
  glitches,    \* faults after which sender and server may disagree
  starts,      \* times the process was started
  clean        \* stop() found no pending callback and nothing failed since

netVars == <<pc, batch, net>>
lockVars == <<owner, waiters>>
memVars == <<scheduled, accepted, queue, unfinished, buffer>>
ghostVars == <<dropped, starts>>
faultVars == <<glitches, clean, late>>
vars == <<scheduled, accepted, queue, unfinished, buffer, backlog, copies, late, owner,
          waiters, pc, batch, net, running, dropped, glitches, starts, clean>>

Tasks == {"proc", "timer", "stop"}
NoTask == "none"

Posting == {"postBacklog", "postBuffer"}         \* at await save_batch
Redis == {"lrange", "ltrim", "rpush"}            \* at an await on Redis
InFlush == Posting \cup Redis                    \* inside async with _flush_lock
Working == InFlush \cup {"lock"}                 \* inside flush()

PC == Working \cup {"get", "sleep", "idle", "join", "cancelTimer", "cancelProc",
                    "done", "dead", "down"}

Records == 1 .. MaxItems

\* The records of which the Store holds a row.
Stored == {i \in Records : copies[i] > 0}

\* Mutant: the timer forgets force=True.
MutForced(t) == t = "stop"

\* Only the processor's flush, from line 157, is unforced.
Forced(t) == t # "proc"

\* Mutant: `del [:_batch_size]`, where the batch may be shorter.
MutWithout(s, b) == SubSeq(s, BatchSize + 1, Len(s))

\* The first batch of a list, and what is left of a list without a batch.
FirstBatch(s) == SubSeq(s, 1, IF Len(s) < BatchSize THEN Len(s) ELSE BatchSize)
Without(s, b) == SubSeq(s, Len(b) + 1, Len(s))

\* Where a task goes when its flush is over.
AfterFlush(t) ==
  CASE t = "proc" -> "get" [] t = "timer" -> "sleep" [] t = "stop" -> "cancelTimer"

FirstPC == [t \in Tasks |->
  CASE t = "proc" -> "get" [] t = "timer" -> "sleep" [] t = "stop" -> "idle"]

Up == pc["stop"] # "down"

\* A cancelled task takes no step but the delivery of the cancellation, and
\* task.cancel() follows in the step in which stop() gets there.
Active(t) ==
  /\ ~(t = "timer" /\ pc["stop"] = "cancelTimer")
  /\ ~(t = "proc" /\ pc["stop"] = "cancelProc")

-----------------------------------------------------------------------------
Init ==
  /\ scheduled = 0 /\ accepted = 0 /\ unfinished = 0
  /\ queue = <<>> /\ buffer = <<>> /\ backlog = <<>> /\ late = <<>>
  /\ copies = [i \in Records |-> 0]
  /\ owner = NoTask /\ waiters = <<>>
  /\ pc = FirstPC
  /\ batch = [t \in Tasks |-> <<>>]
  /\ net = [t \in Tasks |-> "none"]
  /\ running = TRUE
  /\ dropped = {} /\ glitches = 0 /\ starts = 1 /\ clean = FALSE

-----------------------------------------------------------------------------
(* Accepting records.                                                      *)

\* The MQTT thread hands a record to the event loop.
OnMessage ==
  /\ running
  /\ accepted + scheduled < MaxItems
  /\ scheduled' = scheduled + 1
  /\ UNCHANGED <<accepted, queue, unfinished, buffer, backlog, copies, lockVars, netVars,
                 running, ghostVars, faultVars>>

\* queue.put_nowait: nothing bounds the queue.
Enqueue ==
  /\ accepted' = accepted + 1
  /\ queue' = Append(queue, accepted + 1)
  /\ unfinished' = unfinished + 1
  /\ UNCHANGED <<buffer, backlog, copies, lockVars, netVars, running, ghostVars, faultVars>>

\* The event loop runs a scheduled put_nowait, also after stop() began.
PutCallback ==
  /\ scheduled > 0
  /\ scheduled' = scheduled - 1
  /\ Enqueue

\* ingest(): refused unless the service runs.
Ingest ==
  /\ running
  /\ accepted + scheduled < MaxItems
  /\ Enqueue
  /\ UNCHANGED scheduled

-----------------------------------------------------------------------------
(* The flush lock.                                                         *)

\* Mutant: flush() without its lock.
MutCallFlush(t) ==
  /\ owner' = t
  /\ pc' = [pc EXCEPT ![t] = "lrange"]
  /\ UNCHANGED waiters

\* A task calls flush(): it takes the free lock and asks Redis for the
\* backlog, or queues up behind the owner.
CallFlush(t) ==
  \/ /\ owner = NoTask
     /\ owner' = t
     /\ pc' = [pc EXCEPT ![t] = "lrange"]
     /\ UNCHANGED waiters
  \/ /\ owner # NoTask
     /\ waiters' = Append(waiters, t)
     /\ pc' = [pc EXCEPT ![t] = "lock"]
     /\ UNCHANGED owner

\* The lock is released: the task that waits longest becomes the owner.
ReleaseLock ==
  \/ waiters = <<>> /\ owner' = NoTask /\ UNCHANGED waiters
  \/ waiters # <<>> /\ owner' = Head(waiters) /\ waiters' = Tail(waiters)

\* A waiter that was made the owner goes on.
GetLock(t) ==
  /\ pc[t] = "lock" /\ owner = t /\ Active(t)
  /\ pc' = [pc EXCEPT ![t] = "lrange"]
  /\ UNCHANGED <<memVars, backlog, copies, lockVars, batch, net, running, ghostVars, faultVars>>

\* Mutant: every flush marks a record done, not only the processor's.
MutLeaveFlush(t) ==
  /\ pc' = [pc EXCEPT ![t] = AfterFlush(t)]
  /\ batch' = [batch EXCEPT ![t] = <<>>]
  /\ net' = [net EXCEPT ![t] = "none"]
  /\ unfinished' = unfinished - 1
  /\ ReleaseLock

\* flush() of task t is over, by return or by exception.  The processor then
\* marks its record done (finally), the timer sleeps, stop() goes on.
LeaveFlush(t) ==
  /\ pc' = [pc EXCEPT ![t] = AfterFlush(t)]
  /\ batch' = [batch EXCEPT ![t] = <<>>]
  /\ net' = [net EXCEPT ![t] = "none"]
  /\ unfinished' = IF t = "proc" THEN unfinished - 1 ELSE unfinished
  /\ ReleaseLock

\* Task t sends a request about batch b and waits at point p of flush().
Send(t, p, b) ==
  /\ pc' = [pc EXCEPT ![t] = p]
  /\ batch' = [batch EXCEPT ![t] = b]
  /\ net' = [net EXCEPT ![t] = "sent"]
  /\ UNCHANGED <<unfinished, lockVars>>

-----------------------------------------------------------------------------
(* The two loops.                                                          *)

\* _process_loop: a record moves from the queue to the buffer; a full buffer
\* is flushed before the record is marked done.
Process ==
  /\ pc["proc"] = "get" /\ Active("proc")
  /\ queue # <<>>
  /\ queue' = Tail(queue)
  /\ buffer' = Append(buffer, Head(queue))
  /\ \/ /\ Len(buffer') >= BatchSize
        /\ CallFlush("proc")
        /\ UNCHANGED unfinished
     \/ /\ Len(buffer') < BatchSize
        /\ unfinished' = unfinished - 1
        /\ UNCHANGED <<lockVars, pc>>
  /\ UNCHANGED <<scheduled, accepted, backlog, copies, batch, net, running, ghostVars, faultVars>>

\* _periodic_flush_loop: the sleep is over.
TimerFires ==
  /\ pc["timer"] = "sleep" /\ Active("timer")
  /\ CallFlush("timer")
  /\ UNCHANGED <<memVars, backlog, copies, batch, net, running, ghostVars, faultVars>>

-----------------------------------------------------------------------------
(* flush(): first the backlog, then the buffer.                            *)

\* The head of the loop of _flush_memory_buffer over the buffer b.
BufferLoop(t, b) ==
  LET more == b # <<>> /\ (Forced(t) \/ Len(b) >= BatchSize) IN
  \/ more /\ Send(t, "postBuffer", FirstBatch(b))
  \/ ~more /\ LeaveFlush(t)

\* The head of the loop of _flush_redis_backlog, when lrange has answered.
BacklogRead(t) ==
  LET raw == FirstBatch(backlog)
      skip == raw = <<>> \/ (~Forced(t) /\ Len(raw) < BatchSize)
  IN
  /\ pc[t] = "lrange" /\ Active(t)
  /\ \/ skip /\ BufferLoop(t, buffer)
     \/ ~skip /\ Send(t, "postBacklog", raw)
  /\ UNCHANGED <<scheduled, accepted, queue, buffer, backlog, copies, running, ghostVars, faultVars>>

\* save_batch has an answer: 201, or an error of any kind.
PostReturns(t) ==
  /\ pc[t] \in Posting /\ net[t] \in {"applied", "refused"} /\ Active(t)
  /\ \/ /\ pc[t] = "postBacklog" /\ net[t] = "applied"
        /\ Send(t, "ltrim", batch[t])
        /\ UNCHANGED buffer
     \/ /\ pc[t] = "postBacklog" /\ net[t] = "refused"
        /\ LeaveFlush(t)
        /\ UNCHANGED buffer
     \/ /\ pc[t] = "postBuffer" /\ net[t] = "applied"
        /\ buffer' = Without(buffer, batch[t])
        /\ BufferLoop(t, buffer')
     \/ /\ pc[t] = "postBuffer" /\ net[t] = "refused"
        /\ Send(t, "rpush", batch[t])
        /\ UNCHANGED buffer
  /\ UNCHANGED <<scheduled, accepted, queue, backlog, copies, running, ghostVars, faultVars>>

\* Mutant: lpush in the place of rpush.
MutLpush(t) ==
  /\ net[t] = "sent"
  /\ \/ pc[t] = "ltrim" /\ backlog' = Without(backlog, batch[t])
     \/ pc[t] = "rpush" /\ backlog' = batch[t] \o backlog
  /\ net' = [net EXCEPT ![t] = "applied"]
  /\ UNCHANGED <<memVars, copies, lockVars, pc, batch, running, ghostVars, faultVars>>

\* Mutant: ltrim trims one record too many.
MutLtrim(t) ==
  /\ net[t] = "sent"
  /\ \/ pc[t] = "ltrim" /\ backlog' = SubSeq(backlog, Len(batch[t]) + 2, Len(backlog))
     \/ pc[t] = "rpush" /\ backlog' = backlog \o batch[t]
  /\ net' = [net EXCEPT ![t] = "applied"]
  /\ UNCHANGED <<memVars, copies, lockVars, pc, batch, running, ghostVars, faultVars>>

\* Redis executes ltrim or rpush.
RedisApplies(t) ==
  /\ net[t] = "sent"
  /\ \/ pc[t] = "ltrim" /\ backlog' = Without(backlog, batch[t])
     \/ pc[t] = "rpush" /\ backlog' = backlog \o batch[t]
  /\ net' = [net EXCEPT ![t] = "applied"]
  /\ UNCHANGED <<memVars, copies, lockVars, pc, batch, running, ghostVars, faultVars>>

\* Mutant: a spilled batch stays in the buffer.
MutKeepSpilled(t) ==
  /\ net[t] = "applied" /\ Active(t)
  /\ \/ /\ pc[t] = "ltrim"
        /\ pc' = [pc EXCEPT ![t] = "lrange"]
        /\ batch' = [batch EXCEPT ![t] = <<>>]
        /\ net' = [net EXCEPT ![t] = "none"]
        /\ UNCHANGED <<unfinished, buffer, lockVars>>
     \/ pc[t] = "rpush" /\ LeaveFlush(t) /\ UNCHANGED buffer
  /\ UNCHANGED <<scheduled, accepted, queue, backlog, copies, running, ghostVars, faultVars>>

\* ltrim returns: the backlog is read again.  rpush returns: the batch leaves
\* the buffer and the flush is over, whatever else the buffer holds.
RedisReturns(t) ==
  /\ net[t] = "applied" /\ Active(t)
  /\ \/ /\ pc[t] = "ltrim"
        /\ pc' = [pc EXCEPT ![t] = "lrange"]
        /\ batch' = [batch EXCEPT ![t] = <<>>]
        /\ net' = [net EXCEPT ![t] = "none"]
        /\ UNCHANGED <<unfinished, buffer, lockVars>>
     \/ /\ pc[t] = "rpush"
        /\ buffer' = Without(buffer, batch[t])
        /\ LeaveFlush(t)
  /\ UNCHANGED <<scheduled, accepted, queue, backlog, copies, running, ghostVars, faultVars>>

-----------------------------------------------------------------------------
(* The Store API, as the gateway sees it.                                  *)

\* How often record i occurs in batch b.
Count(b, i) == Cardinality({k \in DOMAIN b : b[k] = i})

AddRows(b) == copies' = [i \in Records |-> copies[i] + Count(b, i)]

\* The Store commits the batch; the rows have no key that would reveal a retry.
StoreCommits(t) ==
  /\ pc[t] \in Posting /\ net[t] = "sent"
  /\ AddRows(batch[t])
  /\ net' = [net EXCEPT ![t] = "applied"]
  /\ UNCHANGED <<memVars, backlog, lockVars, pc, batch, running, ghostVars, faultVars>>

\* The Store cannot be reached, or answers with an error and stores nothing.
StoreRefuses(t) ==
  /\ pc[t] \in Posting /\ net[t] = "sent"
  /\ net' = [net EXCEPT ![t] = "refused"]
  /\ clean' = FALSE
  /\ UNCHANGED <<memVars, backlog, copies, lockVars, pc, batch, running, ghostVars, glitches, late>>

\* A request that nobody waits for any more is committed after all.
LateCommit ==
  \E k \in 1 .. Len(late) :
    /\ AddRows(late[k])
    /\ late' = RemoveAt(late, k)
    /\ UNCHANGED <<memVars, backlog, lockVars, netVars, running, ghostVars, glitches, clean>>

\* Or it is not.
LateLost ==
  \E k \in 1 .. Len(late) :
    /\ late' = RemoveAt(late, k)
    /\ UNCHANGED <<memVars, backlog, copies, lockVars, netVars, running, ghostVars, glitches, clean>>

-----------------------------------------------------------------------------
(* Faults, at most MaxGlitches of them.                                    *)

Glitch ==
  /\ glitches < MaxGlitches
  /\ glitches' = glitches + 1
  /\ clean' = FALSE

\* The client gives up after its timeout; the request may still be served.
PostTimesOut(t) ==
  /\ Glitch
  /\ pc[t] \in Posting /\ net[t] = "sent"
  /\ net' = [net EXCEPT ![t] = "refused"]
  /\ late' = Append(late, batch[t])
  /\ UNCHANGED <<memVars, backlog, copies, lockVars, pc, batch, running, ghostVars>>

\* The rows are committed, but the answer is an error or is lost.
ReplyLost(t) ==
  /\ Glitch
  /\ pc[t] \in Posting /\ net[t] = "applied"
  /\ net' = [net EXCEPT ![t] = "refused"]
  /\ UNCHANGED <<memVars, backlog, copies, lockVars, pc, batch, running, ghostVars, late>>

\* The batch of a request task t gives up may still be committed.
Abandoned(t) ==
  IF pc[t] \in Posting /\ net[t] = "sent" THEN Append(late, batch[t]) ELSE late

\* The process ends; what only its memory held is gone.
GoDown ==
  /\ dropped' = dropped \cup ((Range(queue) \cup Range(buffer)) \ (Stored \cup Range(backlog)))
  /\ late' = IF owner \in Tasks THEN Abandoned(owner) ELSE late
  /\ pc' = [t \in Tasks |-> "down"]
  /\ batch' = [t \in Tasks |-> <<>>]
  /\ net' = [t \in Tasks |-> "none"]
  /\ queue' = <<>> /\ buffer' = <<>> /\ scheduled' = 0 /\ unfinished' = 0
  /\ owner' = NoTask /\ waiters' = <<>>
  /\ running' = FALSE
  /\ UNCHANGED <<accepted, backlog, copies, starts>>

\* Mutant: the processor loop does not survive an exception.
MutRaiseKills(t) ==
  /\ Glitch
  /\ pc[t] \in Redis /\ Active(t)
  /\ \/ /\ t = "proc"
        /\ pc' = [pc EXCEPT ![t] = "dead"]
        /\ batch' = [batch EXCEPT ![t] = <<>>]
        /\ net' = [net EXCEPT ![t] = "none"]
        /\ unfinished' = unfinished - 1
        /\ ReleaseLock
        /\ UNCHANGED <<scheduled, accepted, queue, buffer, backlog, copies, running, ghostVars, late>>
     \/ /\ t = "timer"
        /\ LeaveFlush(t)
        /\ UNCHANGED <<scheduled, accepted, queue, buffer, backlog, copies, running, ghostVars, late>>
     \/ t = "stop" /\ GoDown

\* A Redis command raises, executed or not.  The loops log it and go on; out
\* of stop() it propagates, and main() ends with it.
RedisRaises(t) ==
  /\ Glitch
  /\ pc[t] \in Redis /\ Active(t)
  /\ \/ /\ t # "stop"
        /\ LeaveFlush(t)
        /\ UNCHANGED <<scheduled, accepted, queue, buffer, backlog, copies, running, ghostVars, late>>
     \/ /\ t = "stop"
        /\ GoDown

\* The process is killed (SIGTERM has no handler) or dies.
Crash ==
  /\ Glitch
  /\ Up
  /\ GoDown

-----------------------------------------------------------------------------
(* stop(), and the next start.                                             *)

\* stop() begins: ingest() refuses records, the MQTT thread is joined.
BeginStop ==
  /\ running /\ pc["stop"] = "idle"
  /\ running' = FALSE
  /\ pc' = [pc EXCEPT !["stop"] = "join"]
  /\ clean' = (scheduled = 0)
  /\ UNCHANGED <<memVars, backlog, copies, late, lockVars, batch, net, ghostVars, glitches>>

\* Mutant: stop() does not wait for the queue.
MutNoJoin ==
  /\ pc["stop"] = "join"
  /\ CallFlush("stop")
  /\ UNCHANGED <<memVars, backlog, copies, batch, net, running, ghostVars, faultVars>>

\* queue.join() is over and stop() flushes.
StopFlushes ==
  /\ pc["stop"] = "join" /\ unfinished = 0
  /\ CallFlush("stop")
  /\ UNCHANGED <<memVars, backlog, copies, batch, net, running, ghostVars, faultVars>>

\* Mutant: a cancelled processor does not mark its record done.
MutNoTaskDone(t) ==
  /\ \/ owner = t /\ ReleaseLock
     \/ /\ owner # t /\ UNCHANGED owner
        /\ \E k \in 1 .. Len(waiters) :
             waiters[k] = t /\ waiters' = RemoveAt(waiters, k)
  /\ late' = Abandoned(t)
  /\ glitches' = IF net[t] = "none" THEN glitches ELSE glitches + 1
  /\ UNCHANGED unfinished

\* Task t, inside flush(), is cancelled at its await: the lock or its place in
\* the line is given up, a request in flight is abandoned.
LeaveCancelled(t) ==
  /\ \/ owner = t /\ ReleaseLock
     \/ /\ owner # t /\ UNCHANGED owner
        /\ \E k \in 1 .. Len(waiters) :
             waiters[k] = t /\ waiters' = RemoveAt(waiters, k)
  /\ late' = Abandoned(t)
  /\ glitches' = IF net[t] = "none" THEN glitches ELSE glitches + 1
  /\ unfinished' = IF t = "proc" THEN unfinished - 1 ELSE unfinished

\* _cancel_task(t), then stop() goes on to next.
CancelTask(t, next) ==
  /\ pc' = [pc EXCEPT ![t] = "dead", !["stop"] = next]
  /\ batch' = [batch EXCEPT ![t] = <<>>]
  /\ net' = [net EXCEPT ![t] = "none"]
  /\ \/ pc[t] \in Working /\ LeaveCancelled(t)
     \/ pc[t] \notin Working /\ UNCHANGED <<lockVars, late, glitches, unfinished>>
  /\ UNCHANGED <<scheduled, accepted, queue, buffer, backlog, copies, running, ghostVars, clean>>

CancelTimer == pc["stop"] = "cancelTimer" /\ CancelTask("timer", "cancelProc")
CancelProc == pc["stop"] = "cancelProc" /\ CancelTask("proc", "done")

\* stop() has returned and main() ends.
Exit ==
  /\ pc["stop"] = "done"
  /\ GoDown
  /\ UNCHANGED <<glitches, clean>>

\* The supervisor starts the service again; start() runs both loops.
Restart ==
  /\ \A t \in Tasks : pc[t] = "down"
  /\ starts < MaxStarts
  /\ starts' = starts + 1
  /\ pc' = FirstPC
  /\ running' = TRUE
  /\ UNCHANGED <<memVars, backlog, copies, lockVars, batch, net, dropped, faultVars>>

-----------------------------------------------------------------------------
FlushStep(t) == GetLock(t) \/ BacklogRead(t) \/ PostReturns(t) \/ RedisApplies(t) \/ RedisReturns(t)

StoreAnswers(t) == StoreCommits(t) \/ StoreRefuses(t)

Fault(t) == PostTimesOut(t) \/ ReplyLost(t) \/ RedisRaises(t)

StopStep == StopFlushes \/ CancelTimer \/ CancelProc \/ Exit

Next ==
  \/ OnMessage \/ PutCallback \/ Ingest
  \/ Process \/ TimerFires
  \/ \E t \in Tasks : FlushStep(t) \/ StoreAnswers(t) \/ Fault(t)
  \/ LateCommit \/ LateLost
  \/ BeginStop \/ StopStep \/ Crash \/ Restart

Spec == Init /\ [][Next]_vars

\* The event loop runs every callback and resumes every task that can go on,
\* Redis answers, and the gateway's timeout turns silence into a refusal.
Fairness ==
  /\ WF_vars(PutCallback) /\ WF_vars(Process) /\ WF_vars(TimerFires) /\ WF_vars(StopStep)
  /\ \A t \in Tasks : WF_vars(FlushStep(t)) /\ WF_vars(StoreAnswers(t))

FairSpec == Spec /\ Fairness

\* The Store does not refuse for ever.
StoreRecovers == SF_vars(\E t \in Tasks : StoreCommits(t))

-----------------------------------------------------------------------------
(* Properties.                                                             *)

\* Each variable holds a value the code can give it; flush requests are out
\* only at the awaits that send them.
TypeOK ==
  /\ scheduled \in Nat /\ accepted \in 0 .. MaxItems /\ unfinished \in Nat
  /\ queue \in Seq(Records) /\ buffer \in Seq(Records) /\ backlog \in Seq(Records)
  /\ copies \in [Records -> Nat]
  /\ late \in Seq(Seq(Records))
  /\ owner \in Tasks \cup {NoTask} /\ waiters \in Seq(Tasks)
  /\ pc \in [Tasks -> PC]
  /\ batch \in [Tasks -> Seq(Records)]
  /\ net \in [Tasks -> {"none", "sent", "applied", "refused"}]
  /\ running \in BOOLEAN /\ clean \in BOOLEAN
  /\ dropped \subseteq Records
  /\ glitches \in Nat /\ starts \in Nat

\* Every record taken from MQTT is stored, in the backlog, in memory, or was
\* in the memory of a process that ended: neither the `del` after a POST, the
\* ltrim nor a cancelled flush loses one.
NoRecordVanishes ==
  \A i \in 1 .. accepted :
    i \in Stored \cup Range(backlog) \cup Range(buffer) \cup Range(queue) \cup dropped

\* At most one task is between the acquisition of _flush_lock and its release.
FlushIsExclusive == \A t, u \in Tasks : pc[t] \in InFlush /\ pc[u] \in InFlush => t = u

\* What a flush deletes by position after an await is what it sent before:
\* `del _buffer[:n]` and `ltrim n` hit the records of the batch.
DeletesWhatItSent ==
  \A t \in Tasks :
    /\ pc[t] \in {"postBuffer", "rpush"} => IsPrefix(batch[t], buffer)
    /\ pc[t] = "postBacklog" \/ (pc[t] = "ltrim" /\ net[t] = "sent") => IsPrefix(batch[t], backlog)

\* queue.join() counts right: unfinished are the records in the queue and the
\* one the processor holds, through exceptions and cancellation (finally).
UnfinishedCount ==
  unfinished = Len(queue) + (IF pc["proc"] \in Working THEN 1 ELSE 0)

\* The buffer without a batch that Redis has but the flush has not deleted yet.
UnspilledBuffer ==
  IF \E t \in Tasks : pc[t] = "rpush" /\ net[t] = "applied"
  THEN Without(buffer, batch[CHOOSE t \in Tasks : pc[t] = "rpush"])
  ELSE buffer

\* Without faults, records wait in the order they arrived in, each of them
\* once: spilling a batch does not let later records overtake it in the lists.
PendingInOrder ==
  LET pending == backlog \o UnspilledBuffer \o queue IN
  glitches = 0 => \A j, k \in DOMAIN pending : j < k => pending[j] < pending[k]

\* Without a fault a record gets at most one row: nothing but a fault or a
\* request given up makes the hub send what the Store has.  A fault at most
\* doubles the rows, because a batch may hold a record twice by then.
DuplicatesNeedFaults == \A i \in Records : copies[i] <= 2 ^ glitches

\* A stop during which no callback is pending and nothing fails leaves no
\* record in memory, whatever flushes were under way when it began.
CleanStopDrains ==
  pc["stop"] = "done" /\ clean => buffer = <<>> /\ queue = <<>> /\ backlog = <<>>

\* What Redis or the Store has, one of them keeps: a step may remove from the
\* backlog only records the Store has committed, also across crashes.
SafeStaysSafe ==
  [][Range(backlog) \cup Stored \subseteq Range(backlog') \cup Stored']_vars

\* stop() terminates, even if the Store refuses every request: join() is
\* reached by a processor that survives exceptions, the forced flush ends and
\* the lock is handed out fairly.
StopTerminates == pc["stop"] = "join" ~> pc["stop"] \in {"done", "down"}

\* While the hub runs every record gets a row, if the Store recovers.
EventuallyStored ==
  StoreRecovers => \A i \in Records : i <= accepted ~> i \in Stored \cup dropped \/ ~running

\* The hub implements the delivery contract of the pipeline.
Contract == INSTANCE DeliveryContract WITH
  volatile <- Range(queue) \cup Range(buffer),
  durable <- Range(backlog),
  delivered <- Stored,
  lost <- dropped,
  up <- Up

ImplementsContract == Contract!Spec
=============================================================================
