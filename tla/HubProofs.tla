----------------------------- MODULE HubProofs -----------------------------
(***************************************************************************)
(* Proofs about Hub, in layers: the types together with the counts that    *)
(* keep them, the flush lock, what a flush knows about its batch; on top   *)
(* of these that no record vanishes, that a clean stop leaves nothing      *)
(* behind and that what waits is in order; that the hub implements the     *)
(* delivery contract; and that only faults make it store a record twice,   *)
(* for every batch size and any number of records, faults and starts.      *)
(***************************************************************************)
EXTENDS Hub, SequenceTheorems, FiniteSetTheorems, TLAPS

-----------------------------------------------------------------------------
(* The operators of the model.                                             *)

\* What is left of a list without a batch is a list.
LEMMA WithoutType ==
  ASSUME NEW S, NEW s \in Seq(S), NEW b \in Seq(S)
  PROVE  Without(s, b) \in Seq(S)
  BY DEF Without

\* The first batch of a list is a list.
LEMMA FirstBatchType ==
  ASSUME NEW S, NEW s \in Seq(S)
  PROVE  FirstBatch(s) \in Seq(S)
  BY HubAssumption DEF FirstBatch

\* Removing an element keeps the type of a list.
LEMMA RemoveAtType ==
  ASSUME NEW S, NEW s \in Seq(S), NEW k \in 1 .. Len(s)
  PROVE  RemoveAt(s, k) \in Seq(S)
  BY DEF RemoveAt

\* A record occurs in a batch a natural number of times, and at least once if
\* it is one of its elements.
LEMMA CountProperties ==
  ASSUME NEW b \in Seq(Records), NEW i
  PROVE  /\ Count(b, i) \in Nat
         /\ i \in Range(b) => Count(b, i) > 0
  <1> DEFINE K == {k \in DOMAIN b : b[k] = i}
  <1>1. IsFiniteSet(K)
    <2>1. DOMAIN b = 1 .. Len(b) /\ Len(b) \in Nat
      BY LenProperties
    <2>2. IsFiniteSet(1 .. Len(b))
      BY <2>1, FS_Interval
    <2> QED BY <2>1, <2>2, FS_Subset
  <1>2. Cardinality(K) \in Nat
    BY <1>1, FS_CardinalityType
  <1>3. i \in Range(b) => K # {}
    BY DEF Range
  <1>4. i \in Range(b) => Cardinality(K) # 0
    BY <1>1, <1>3, FS_EmptySet
  <1> QED BY <1>2, <1>4 DEF Count

\* Storing a batch keeps what is stored, and adds the records of the batch.
LEMMA AddRowsProperties ==
  ASSUME copies \in [Records -> Nat], NEW b \in Seq(Records), AddRows(b)
  PROVE  /\ copies' \in [Records -> Nat]
         /\ Stored' = Stored \cup Range(b)
  <1>1. \A i \in Records : Count(b, i) \in Nat
    BY CountProperties
  <1>2. \A i \in Records : i \in Range(b) => Count(b, i) > 0
    BY CountProperties
  <1>3. \A i \in Records : i \notin Range(b) => Count(b, i) = 0
    <2> SUFFICES ASSUME NEW i \in Records, i \notin Range(b) PROVE Count(b, i) = 0
      OBVIOUS
    <2>1. {k \in DOMAIN b : b[k] = i} = {}
      BY DEF Range
    <2> QED BY <2>1, FS_EmptySet DEF Count
  <1>4. copies' \in [Records -> Nat]
    BY <1>1 DEF AddRows
  <1>5. Range(b) \subseteq Records
    BY RangeOfSeq
  <1>6. \A i \in Records : copies'[i] = copies[i] + Count(b, i)
    BY DEF AddRows
  <1>7. \A i \in Records : copies'[i] > 0 <=> copies[i] > 0 \/ i \in Range(b)
    BY <1>1, <1>2, <1>3, <1>6
  <1> QED BY <1>4, <1>5, <1>7 DEF Stored

-----------------------------------------------------------------------------
(* Types.  unfinished stays a natural number because it is the length of   *)
(* the queue plus the record the processor holds, and a number given to a  *)
(* record stays below MaxItems because pending callbacks are reserved.     *)

Reserved == accepted + scheduled <= MaxItems

TypeInv == TypeOK /\ Reserved /\ UnfinishedCount

\* A hub that has just started has typed state and right counts.
LEMMA InitTypeInv == Init => TypeInv
  <1> SUFFICES ASSUME Init PROVE TypeInv
    OBVIOUS
  <1>1. FirstPC \in [Tasks -> PC] /\ FirstPC["proc"] = "get"
    BY DEF FirstPC, Tasks, PC, Working, InFlush, Posting, Redis
  <1>2. TypeOK
    <2>1. /\ scheduled \in Nat /\ accepted \in 0 .. MaxItems /\ unfinished \in Nat
          /\ queue \in Seq(Records) /\ buffer \in Seq(Records) /\ backlog \in Seq(Records)
          /\ late \in Seq(Seq(Records)) /\ glitches \in Nat /\ starts \in Nat
      BY HubAssumption DEF Init
    <2>2. /\ copies \in [Records -> Nat] /\ batch \in [Tasks -> Seq(Records)]
          /\ net \in [Tasks -> {"none", "sent", "applied", "refused"}]
      BY DEF Init
    <2>3. /\ owner \in Tasks \cup {NoTask} /\ waiters \in Seq(Tasks)
          /\ pc \in [Tasks -> PC] /\ dropped \subseteq Records
      BY <1>1 DEF Init
    <2>4. running \in BOOLEAN /\ clean \in BOOLEAN
      BY Zenon DEF Init
    <2> QED BY <2>1, <2>2, <2>3, <2>4 DEF TypeOK
  <1>3. Reserved /\ UnfinishedCount
    BY <1>1, HubAssumption DEF Init, Reserved, UnfinishedCount, Working, InFlush, Posting, Redis
  <1> QED BY <1>2, <1>3 DEF TypeInv

\* The lock moves between tasks.
LEMMA ReleaseLockType ==
  ASSUME TypeOK, ReleaseLock
  PROVE  owner' \in Tasks \cup {NoTask} /\ waiters' \in Seq(Tasks)
  BY HeadTailProperties DEF TypeOK, ReleaseLock

\* A task that calls flush() is inside it then.
LEMMA CallFlushType ==
  ASSUME TypeOK, NEW t \in Tasks, CallFlush(t)
  PROVE  /\ owner' \in Tasks \cup {NoTask} /\ waiters' \in Seq(Tasks)
         /\ pc' \in [Tasks -> PC]
         /\ pc'[t] \in Working
         /\ \A u \in Tasks : u # t => pc'[u] = pc[u]
  <1>1. {"lrange", "lock"} \subseteq Working /\ Working \subseteq PC
    BY DEF PC, Working, InFlush, Redis
  <1>2. owner' \in Tasks \cup {NoTask} /\ waiters' \in Seq(Tasks)
    <2>1. owner \in Tasks \cup {NoTask} /\ waiters \in Seq(Tasks)
      BY DEF TypeOK
    <2>2. Append(waiters, t) \in Seq(Tasks)
      BY <2>1, AppendProperties
    <2> QED BY <2>1, <2>2 DEF CallFlush
  <1>3. PICK p \in {"lrange", "lock"} : pc' = [pc EXCEPT ![t] = p]
    BY DEF CallFlush
  <1> QED BY <1>1, <1>2, <1>3 DEF TypeOK

\* A task that leaves flush() is not, and the count of unfinished records
\* follows the processor.
LEMMA LeaveFlushType ==
  ASSUME TypeInv, NEW t \in Tasks, pc[t] \in Working, LeaveFlush(t), queue' = queue
  PROVE  /\ owner' \in Tasks \cup {NoTask} /\ waiters' \in Seq(Tasks)
         /\ pc' \in [Tasks -> PC]
         /\ batch' \in [Tasks -> Seq(Records)]
         /\ net' \in [Tasks -> {"none", "sent", "applied", "refused"}]
         /\ unfinished' \in Nat
         /\ UnfinishedCount'
  <1> USE DEF TypeInv
  <1>1. AfterFlush(t) \in PC \ Working
    BY DEF AfterFlush, PC, Working, InFlush, Posting, Redis, Tasks
  <1>2. pc' \in [Tasks -> PC] /\ batch' \in [Tasks -> Seq(Records)]
    BY <1>1 DEF TypeOK, LeaveFlush
  <1>3. net' \in [Tasks -> {"none", "sent", "applied", "refused"}]
    BY DEF TypeOK, LeaveFlush
  <1>4. Len(queue) \in Nat
    BY DEF TypeOK
  <1>5. unfinished' \in Nat /\ UnfinishedCount'
    BY <1>1, <1>4 DEF TypeOK, LeaveFlush, UnfinishedCount, Tasks
  <1> QED BY <1>2, <1>3, <1>5, ReleaseLockType DEF LeaveFlush

\* A task that sends a request stays inside flush().
LEMMA SendType ==
  ASSUME TypeInv, NEW t \in Tasks, pc[t] \in Working, NEW p \in InFlush,
         NEW b \in Seq(Records), Send(t, p, b), queue' = queue
  PROVE  /\ owner' \in Tasks \cup {NoTask} /\ waiters' \in Seq(Tasks)
         /\ pc' \in [Tasks -> PC]
         /\ batch' \in [Tasks -> Seq(Records)]
         /\ net' \in [Tasks -> {"none", "sent", "applied", "refused"}]
         /\ unfinished' \in Nat
         /\ UnfinishedCount'
  <1> USE DEF TypeInv
  <1>1. p \in PC /\ p \in Working
    BY DEF PC, Working
  <1>2. pc' \in [Tasks -> PC] /\ batch' \in [Tasks -> Seq(Records)]
    BY <1>1 DEF TypeOK, Send
  <1>3. net' \in [Tasks -> {"none", "sent", "applied", "refused"}]
    BY DEF TypeOK, Send
  <1>4. UnfinishedCount'
    BY <1>1 DEF TypeOK, Send, UnfinishedCount
  <1> QED BY <1>2, <1>3, <1>4 DEF Send, lockVars, TypeOK

\* The loop over the buffer sends a batch of it or leaves.
LEMMA BufferLoopType ==
  ASSUME TypeInv, NEW t \in Tasks, pc[t] \in Working, NEW b \in Seq(Records),
         BufferLoop(t, b), queue' = queue
  PROVE  /\ owner' \in Tasks \cup {NoTask} /\ waiters' \in Seq(Tasks)
         /\ pc' \in [Tasks -> PC]
         /\ batch' \in [Tasks -> Seq(Records)]
         /\ net' \in [Tasks -> {"none", "sent", "applied", "refused"}]
         /\ unfinished' \in Nat
         /\ UnfinishedCount'
  <1>1. FirstBatch(b) \in Seq(Records) /\ "postBuffer" \in InFlush
    BY FirstBatchType DEF InFlush, Posting
  <1> QED BY <1>1, SendType, LeaveFlushType DEF BufferLoop

\* The process ends in a typed state.
LEMMA GoDownType ==
  ASSUME TypeInv, GoDown, glitches' \in Nat, clean' \in BOOLEAN
  PROVE  TypeInv'
  <1> USE DEF TypeInv
  <1>1. late' \in Seq(Seq(Records))
    BY AppendProperties DEF TypeOK, GoDown, Abandoned
  <1>2. dropped' \subseteq Records
    BY RangeOfSeq DEF TypeOK, GoDown
  <1>3. pc' \in [Tasks -> PC] /\ pc'["proc"] \notin Working
    BY DEF GoDown, PC, Working, InFlush, Posting, Redis, Tasks
  <1>4. TypeOK'
    <2>1. batch' \in [Tasks -> Seq(Records)]
      BY DEF GoDown
    <2>2. net' \in [Tasks -> {"none", "sent", "applied", "refused"}]
      BY DEF GoDown
    <2>3. copies' \in [Records -> Nat]
      BY DEF GoDown, TypeOK
    <2>4. owner' \in Tasks \cup {NoTask} /\ waiters' \in Seq(Tasks)
      BY DEF GoDown
    <2>5. /\ scheduled' \in Nat /\ accepted' \in 0 .. MaxItems /\ unfinished' \in Nat
          /\ queue' \in Seq(Records) /\ buffer' \in Seq(Records) /\ backlog' \in Seq(Records)
          /\ starts' \in Nat
      BY DEF GoDown, TypeOK
    <2>6. running' \in BOOLEAN
      BY Zenon DEF GoDown
    <2> QED BY <1>1, <1>2, <1>3, <2>1, <2>2, <2>3, <2>4, <2>5, <2>6 DEF TypeOK
  <1>5. Reserved' /\ UnfinishedCount'
    BY <1>3 DEF TypeOK, GoDown, Reserved, UnfinishedCount
  <1> QED BY <1>4, <1>5

\* A record put in the queue, for which there is room below MaxItems.
LEMMA EnqueueType ==
  ASSUME TypeInv, Enqueue, NEW n \in Nat, scheduled' = n, accepted + 1 + n <= MaxItems
  PROVE  TypeInv'
  <1> USE DEF TypeInv, lockVars, netVars, ghostVars, faultVars
  <1>0. accepted \in Nat /\ MaxItems \in Nat /\ accepted' = accepted + 1
    BY HubAssumption DEF TypeOK, Enqueue
  <1>1. accepted + 1 <= MaxItems
    BY <1>0
  <1>2. accepted' \in 0 .. MaxItems /\ accepted + 1 \in Records
    BY <1>0, <1>1 DEF Records
  <1>3. queue' \in Seq(Records) /\ Len(queue') = Len(queue) + 1
    BY <1>2, AppendProperties DEF TypeOK, Enqueue
  <1>4. TypeOK'
    BY <1>2, <1>3 DEF TypeOK, Enqueue
  <1>5. Reserved'
    BY <1>0 DEF Reserved
  <1>6. UnfinishedCount'
    <2>1. pc' = pc /\ unfinished' = unfinished + 1
      BY DEF Enqueue
    <2>2. Len(queue) \in Nat /\ unfinished \in Nat
      BY DEF TypeOK
    <2> QED BY <1>3, <2>1, <2>2 DEF UnfinishedCount
  <1> QED BY <1>4, <1>5, <1>6

\* Every step keeps the types and the counts.
LEMMA TypeStep == TypeInv /\ [Next]_vars => TypeInv'
  <1> SUFFICES ASSUME TypeInv, [Next]_vars PROVE TypeInv'
    OBVIOUS
  <1> USE DEF TypeInv, lockVars, netVars, memVars, ghostVars, faultVars
  <1>1. CASE OnMessage
    BY <1>1, HubAssumption DEF OnMessage, TypeOK, Reserved, UnfinishedCount
  <1>3. CASE PutCallback
    <2>1. scheduled \in Nat /\ accepted \in Nat /\ MaxItems \in Nat
      BY HubAssumption DEF TypeOK
    <2>2. scheduled' \in Nat /\ accepted + 1 + scheduled' <= MaxItems
      BY <1>3, <2>1 DEF PutCallback, Reserved
    <2> QED BY <1>3, <2>2, EnqueueType DEF PutCallback
  <1>4. CASE Ingest
    <2>1. scheduled \in Nat /\ accepted \in Nat /\ MaxItems \in Nat
      BY HubAssumption DEF TypeOK
    <2>2. scheduled' \in Nat /\ accepted + 1 + scheduled' <= MaxItems
      BY <1>4, <2>1 DEF Ingest
    <2> QED BY <1>4, <2>2, EnqueueType DEF Ingest
  <1>5. CASE Process
    <2>1. queue' \in Seq(Records) /\ Head(queue) \in Records /\ Len(queue') = Len(queue) - 1
      BY <1>5, HeadTailProperties DEF Process, TypeOK
    <2>2. buffer' \in Seq(Records)
      BY <1>5, <2>1, AppendProperties DEF Process, TypeOK
    <2>3. Len(queue) \in Nat /\ Len(queue') \in Nat
      BY <2>1 DEF TypeOK
    <2>4. CASE CallFlush("proc") /\ UNCHANGED unfinished
      <3>1. "proc" \in Tasks /\ "proc" \in DOMAIN pc
        BY DEF Tasks, TypeOK
      <3>2. pc["proc"] \notin Working
        BY <1>5 DEF Process, Working, InFlush, Posting, Redis
      <3>3. UnfinishedCount'
        <4>1. pc'["proc"] \in Working
          BY <2>4, <3>1, CallFlushType
        <4>2. unfinished = Len(queue) /\ unfinished' = unfinished
          BY <2>3, <2>4, <3>2 DEF UnfinishedCount
        <4> QED BY <2>1, <2>3, <4>1, <4>2 DEF UnfinishedCount
      <3>4. TypeOK'
        BY <1>5, <2>1, <2>2, <2>4, <3>1, CallFlushType DEF Process, TypeOK
      <3> QED BY <1>5, <3>3, <3>4 DEF Process, Reserved
    <2>5. CASE unfinished' = unfinished - 1 /\ UNCHANGED <<lockVars, pc>>
      <3>1. UnfinishedCount' /\ unfinished' \in Nat
        BY <2>1, <2>3, <2>5 DEF UnfinishedCount, TypeOK
      <3>2. TypeOK'
        BY <1>5, <2>1, <2>2, <2>5, <3>1 DEF Process, TypeOK
      <3> QED BY <1>5, <3>1, <3>2 DEF Process, Reserved
    <2> QED BY <1>5, <2>4, <2>5 DEF Process
  <1>6. CASE TimerFires
    <2>1. "timer" \in Tasks
      BY DEF Tasks
    <2>2. TypeOK'
      BY <1>6, <2>1, CallFlushType DEF TimerFires, TypeOK
    <2>3. UnfinishedCount'
      <3>1. "proc" \in Tasks /\ CallFlush("timer")
        BY <1>6 DEF Tasks, TimerFires
      <3>2. pc'["proc"] = pc["proc"]
        BY <2>1, <3>1, CallFlushType
      <3> QED BY <1>6, <3>2 DEF TimerFires, UnfinishedCount
    <2> QED BY <1>6, <2>2, <2>3 DEF TimerFires, Reserved
  <1>7. ASSUME NEW t \in Tasks, GetLock(t) PROVE TypeInv'
    <2>1. "lrange" \in PC /\ "lrange" \in Working
      BY DEF PC, Working, InFlush, Redis
    <2>2. pc[t] \in Working
      BY <1>7 DEF GetLock, Working
    <2>3. TypeOK'
      BY <1>7, <2>1 DEF GetLock, TypeOK
    <2>4. UnfinishedCount' /\ Reserved'
      BY <1>7, <2>1, <2>2 DEF GetLock, UnfinishedCount, TypeOK, Reserved
    <2> QED BY <2>3, <2>4
  <1>8. ASSUME NEW t \in Tasks, BacklogRead(t) PROVE TypeInv'
    <2>1. pc[t] \in Working
      BY <1>8 DEF BacklogRead, Working, InFlush, Redis
    <2>2. FirstBatch(backlog) \in Seq(Records) /\ "postBacklog" \in InFlush
      BY FirstBatchType DEF TypeOK, InFlush, Posting
    <2>3. buffer \in Seq(Records) /\ queue' = queue
      BY <1>8 DEF BacklogRead, TypeOK
    <2>4. BufferLoop(t, buffer) \/ Send(t, "postBacklog", FirstBatch(backlog))
      BY <1>8 DEF BacklogRead
    <2>5. /\ owner' \in Tasks \cup {NoTask} /\ waiters' \in Seq(Tasks)
          /\ pc' \in [Tasks -> PC]
          /\ batch' \in [Tasks -> Seq(Records)]
          /\ net' \in [Tasks -> {"none", "sent", "applied", "refused"}]
          /\ unfinished' \in Nat
          /\ UnfinishedCount'
      BY <2>1, <2>2, <2>3, <2>4, SendType, BufferLoopType
    <2>6. TypeOK' /\ Reserved'
      BY <1>8, <2>5 DEF BacklogRead, TypeOK, Reserved
    <2> QED BY <2>5, <2>6
  <1>9. ASSUME NEW t \in Tasks, PostReturns(t) PROVE TypeInv'
    <2>1. pc[t] \in Working /\ queue' = queue
      BY <1>9 DEF PostReturns, Working, InFlush
    <2>2. batch[t] \in Seq(Records) /\ buffer \in Seq(Records)
      BY DEF TypeOK
    <2>3. Without(buffer, batch[t]) \in Seq(Records)
      BY <2>2, WithoutType
    <2>4. buffer' \in Seq(Records)
      BY <1>9, <2>2, <2>3 DEF PostReturns
    <2>5. "ltrim" \in InFlush /\ "rpush" \in InFlush
      BY DEF InFlush, Redis
    <2>6. \/ Send(t, "ltrim", batch[t]) \/ Send(t, "rpush", batch[t])
          \/ LeaveFlush(t) \/ BufferLoop(t, buffer')
      BY <1>9 DEF PostReturns
    <2>7. /\ owner' \in Tasks \cup {NoTask} /\ waiters' \in Seq(Tasks)
          /\ pc' \in [Tasks -> PC]
          /\ batch' \in [Tasks -> Seq(Records)]
          /\ net' \in [Tasks -> {"none", "sent", "applied", "refused"}]
          /\ unfinished' \in Nat
          /\ UnfinishedCount'
      <3>1. CASE Send(t, "ltrim", batch[t])
        BY <2>1, <2>2, <2>5, <3>1, SendType
      <3>2. CASE Send(t, "rpush", batch[t])
        BY <2>1, <2>2, <2>5, <3>2, SendType
      <3>3. CASE LeaveFlush(t)
        BY <2>1, <3>3, LeaveFlushType
      <3>4. CASE BufferLoop(t, buffer')
        BY <2>1, <2>4, <3>4, BufferLoopType
      <3> QED BY <2>6, <3>1, <3>2, <3>3, <3>4
    <2>8. TypeOK' /\ Reserved'
      BY <1>9, <2>4, <2>7 DEF PostReturns, TypeOK, Reserved
    <2> QED BY <2>7, <2>8
  <1>10. ASSUME NEW t \in Tasks, RedisApplies(t) PROVE TypeInv'
    <2>1. batch[t] \in Seq(Records) /\ backlog \in Seq(Records)
      BY DEF TypeOK
    <2>2. backlog' \in Seq(Records)
      BY <1>10, <2>1, WithoutType, ConcatProperties DEF RedisApplies
    <2>3. net' \in [Tasks -> {"none", "sent", "applied", "refused"}]
      BY <1>10 DEF RedisApplies, TypeOK
    <2>4. TypeOK'
      BY <1>10, <2>2, <2>3 DEF RedisApplies, TypeOK
    <2> QED BY <1>10, <2>4 DEF RedisApplies, Reserved, UnfinishedCount
  <1>11. ASSUME NEW t \in Tasks, RedisReturns(t) PROVE TypeInv'
    <2>1. pc[t] \in Working
      BY <1>11 DEF RedisReturns, Working, InFlush, Redis
    <2>2. buffer \in Seq(Records) /\ batch[t] \in Seq(Records)
      BY DEF TypeOK
    <2>3. buffer' \in Seq(Records)
      BY <1>11, <2>2, WithoutType DEF RedisReturns
    <2>4. CASE pc[t] = "ltrim"
      <3>1. /\ pc' = [pc EXCEPT ![t] = "lrange"] /\ UNCHANGED <<unfinished, queue, lockVars>>
            /\ batch' = [batch EXCEPT ![t] = <<>>] /\ net' = [net EXCEPT ![t] = "none"]
        BY <1>11, <2>4 DEF RedisReturns
      <3>2. "lrange" \in PC /\ "lrange" \in Working
        BY DEF PC, Working, InFlush, Redis
      <3>3. pc' \in [Tasks -> PC] /\ batch' \in [Tasks -> Seq(Records)]
        BY <3>1, <3>2 DEF TypeOK
      <3>4. net' \in [Tasks -> {"none", "sent", "applied", "refused"}]
        BY <3>1 DEF TypeOK
      <3>5. TypeOK'
        BY <1>11, <2>3, <3>1, <3>3, <3>4 DEF RedisReturns, TypeOK
      <3>6. UnfinishedCount'
        BY <2>1, <3>1, <3>2 DEF UnfinishedCount, TypeOK
      <3> QED BY <1>11, <3>5, <3>6 DEF RedisReturns, Reserved
    <2>5. CASE pc[t] = "rpush"
      <3>1. LeaveFlush(t) /\ queue' = queue
        BY <1>11, <2>5 DEF RedisReturns
      <3>2. TypeOK' /\ UnfinishedCount'
        BY <1>11, <2>1, <2>3, <3>1, LeaveFlushType DEF RedisReturns, TypeOK
      <3> QED BY <1>11, <3>2 DEF RedisReturns, Reserved
    <2> QED BY <1>11, <2>4, <2>5 DEF RedisReturns
  <1>12. ASSUME NEW t \in Tasks, StoreAnswers(t) PROVE TypeInv'
    <2>1. batch[t] \in Seq(Records) /\ copies \in [Records -> Nat]
      BY DEF TypeOK
    <2>2. copies' \in [Records -> Nat]
      BY <1>12, <2>1, AddRowsProperties DEF StoreAnswers, StoreCommits, StoreRefuses
    <2>3. net' \in [Tasks -> {"none", "sent", "applied", "refused"}]
      BY <1>12 DEF StoreAnswers, StoreCommits, StoreRefuses, TypeOK
    <2>4. clean' \in BOOLEAN
      BY <1>12, Zenon DEF StoreAnswers, StoreCommits, StoreRefuses, TypeOK
    <2>5. TypeOK'
      BY <1>12, <2>2, <2>3, <2>4 DEF StoreAnswers, StoreCommits, StoreRefuses, TypeOK
    <2> QED BY <1>12, <2>5 DEF StoreAnswers, StoreCommits, StoreRefuses, Reserved, UnfinishedCount
  <1>13. Glitch => glitches' \in Nat /\ clean' \in BOOLEAN
    <2>1. Glitch => glitches' \in Nat
      BY DEF Glitch, TypeOK
    <2>2. Glitch => clean' \in BOOLEAN
      BY Zenon DEF Glitch
    <2> QED BY <2>1, <2>2
  <1>14. ASSUME NEW t \in Tasks, PostTimesOut(t) \/ ReplyLost(t) PROVE TypeInv'
    <2>1. net' \in [Tasks -> {"none", "sent", "applied", "refused"}]
      BY <1>14 DEF PostTimesOut, ReplyLost, TypeOK
    <2>2. late \in Seq(Seq(Records)) /\ batch[t] \in Seq(Records)
      BY DEF TypeOK
    <2>3. late' \in Seq(Seq(Records))
      <3>1. Append(late, batch[t]) \in Seq(Seq(Records))
        BY <2>2, AppendProperties
      <3> QED BY <1>14, <2>2, <3>1 DEF PostTimesOut, ReplyLost
    <2>4. TypeOK'
      BY <1>13, <1>14, <2>1, <2>3 DEF PostTimesOut, ReplyLost, TypeOK
    <2> QED BY <1>14, <2>4 DEF PostTimesOut, ReplyLost, Reserved, UnfinishedCount
  <1>15. ASSUME NEW t \in Tasks, RedisRaises(t) PROVE TypeInv'
    <2>1. pc[t] \in Working /\ glitches' \in Nat /\ clean' \in BOOLEAN
      BY <1>13, <1>15 DEF RedisRaises, Working, InFlush
    <2>2. CASE GoDown
      BY <2>1, <2>2, GoDownType
    <2>3. CASE t # "stop"
      <3>1. LeaveFlush(t) /\ queue' = queue
        BY <1>15, <2>3 DEF RedisRaises
      <3>2. TypeOK' /\ UnfinishedCount'
        BY <1>15, <2>1, <2>3, <3>1, LeaveFlushType DEF RedisRaises, TypeOK
      <3> QED BY <1>15, <2>3, <3>2 DEF RedisRaises, Reserved
    <2> QED BY <1>15, <2>2, <2>3 DEF RedisRaises
  <1>16. CASE LateCommit \/ LateLost
    <2>1. PICK k \in 1 .. Len(late) : late' = RemoveAt(late, k) /\ (AddRows(late[k]) \/ copies' = copies)
      BY <1>16 DEF LateCommit, LateLost
    <2>2. late \in Seq(Seq(Records)) /\ copies \in [Records -> Nat]
      BY DEF TypeOK
    <2>3. late' \in Seq(Seq(Records)) /\ late[k] \in Seq(Records)
      BY <2>1, <2>2, RemoveAtType, ElementOfSeq
    <2>4. copies' \in [Records -> Nat]
      BY <2>1, <2>2, <2>3, AddRowsProperties
    <2>5. TypeOK'
      BY <1>16, <2>3, <2>4 DEF LateCommit, LateLost, TypeOK
    <2> QED BY <1>16, <2>5 DEF LateCommit, LateLost, Reserved, UnfinishedCount
  <1>17. CASE BeginStop
    <2>1. "join" \in PC \ Working /\ "stop" \in Tasks
      BY DEF PC, Working, InFlush, Posting, Redis, Tasks
    <2>2. pc' \in [Tasks -> PC] /\ pc'["proc"] = pc["proc"]
      BY <1>17, <2>1 DEF BeginStop, TypeOK, Tasks
    <2>3. running' \in BOOLEAN /\ clean' \in BOOLEAN
      BY <1>17, Zenon DEF BeginStop
    <2>4. TypeOK'
      BY <1>17, <2>2, <2>3 DEF BeginStop, TypeOK
    <2> QED BY <1>17, <2>2, <2>4 DEF BeginStop, Reserved, UnfinishedCount
  <1>18. CASE StopFlushes
    <2>1. "stop" \in Tasks /\ "proc" \in Tasks /\ CallFlush("stop")
      BY <1>18 DEF Tasks, StopFlushes
    <2>2. TypeOK'
      BY <1>18, <2>1, CallFlushType DEF StopFlushes, TypeOK
    <2>3. pc'["proc"] = pc["proc"]
      BY <2>1, CallFlushType
    <2> QED BY <1>18, <2>2, <2>3 DEF StopFlushes, Reserved, UnfinishedCount
  <1>19. ASSUME NEW t \in {"timer", "proc"}, NEW next \in {"cancelProc", "done"}, CancelTask(t, next)
         PROVE  TypeInv'
    <2>1. t \in Tasks /\ t # "stop" /\ {"dead", next} \subseteq PC \ Working
      BY DEF Tasks, PC, Working, InFlush, Posting, Redis
    <2>2. pc' \in [Tasks -> PC]
      BY <1>19, <2>1 DEF CancelTask, TypeOK
    <2>3. batch' \in [Tasks -> Seq(Records)]
      <3>1. batch \in [Tasks -> Seq(Records)] /\ <<>> \in Seq(Records)
        BY DEF TypeOK
      <3> QED BY <1>19, <3>1 DEF CancelTask
    <2>4. net' \in [Tasks -> {"none", "sent", "applied", "refused"}]
      BY <1>19 DEF CancelTask, TypeOK
    <2>5. /\ late' \in Seq(Seq(Records)) /\ glitches' \in Nat
          /\ owner' \in Tasks \cup {NoTask} /\ waiters' \in Seq(Tasks)
      <3>1. CASE LeaveCancelled(t)
        <4>1. late \in Seq(Seq(Records)) /\ batch[t] \in Seq(Records) /\ waiters \in Seq(Tasks)
          BY <2>1 DEF TypeOK
        <4>2. Append(late, batch[t]) \in Seq(Seq(Records))
          BY <4>1, AppendProperties
        <4>3. late' \in Seq(Seq(Records))
          BY <3>1, <4>1, <4>2 DEF LeaveCancelled, Abandoned
        <4>4. glitches' \in Nat
          BY <3>1 DEF LeaveCancelled, TypeOK
        <4>5. owner' \in Tasks \cup {NoTask} /\ waiters' \in Seq(Tasks)
          BY <3>1, <4>1, ReleaseLockType, RemoveAtType DEF LeaveCancelled, TypeOK
        <4> QED BY <4>3, <4>4, <4>5
      <3> QED BY <1>19, <3>1 DEF CancelTask, TypeOK
    <2>6. unfinished' \in Nat /\ UnfinishedCount'
      <3>1. Len(queue) \in Nat /\ queue' = queue
        BY <1>19 DEF CancelTask, TypeOK
      <3>2. pc'["proc"] = IF t = "proc" THEN "dead" ELSE pc["proc"]
        BY <1>19 DEF CancelTask, TypeOK, Tasks
      <3>3. unfinished' = IF t = "proc" /\ pc["proc"] \in Working THEN unfinished - 1 ELSE unfinished
        BY <1>19 DEF CancelTask, LeaveCancelled
      <3> QED BY <2>1, <3>1, <3>2, <3>3 DEF UnfinishedCount, TypeOK
    <2>7. TypeOK'
      BY <1>19, <2>2, <2>3, <2>4, <2>5, <2>6 DEF CancelTask, TypeOK
    <2> QED BY <1>19, <2>6, <2>7 DEF CancelTask, Reserved
  <1>20. CASE CancelTimer \/ CancelProc
    BY <1>19, <1>20 DEF CancelTimer, CancelProc
  <1>21. CASE Exit
    BY <1>21, GoDownType DEF Exit, TypeOK
  <1>22. CASE Crash
    BY <1>13, <1>22, GoDownType DEF Crash
  <1>23. CASE Restart
    <2>1. FirstPC \in [Tasks -> PC] /\ FirstPC["proc"] \notin Working
      BY DEF FirstPC, Tasks, PC, Working, InFlush, Posting, Redis
    <2>2. running' \in BOOLEAN
      BY <1>23, Zenon DEF Restart
    <2>3. TypeOK'
      BY <1>23, <2>1, <2>2 DEF Restart, TypeOK
    <2>4. pc["proc"] \notin Working
      BY <1>23 DEF Restart, Tasks, Working, InFlush, Posting, Redis
    <2> QED BY <1>23, <2>1, <2>3, <2>4 DEF Restart, Reserved, UnfinishedCount
  <1>24. CASE UNCHANGED vars
    BY <1>24 DEF vars, TypeOK, Reserved, UnfinishedCount
  <1> QED
    BY <1>1, <1>3, <1>4, <1>5, <1>6, <1>7, <1>8, <1>9, <1>10, <1>11, <1>12, <1>14, <1>15, <1>16,
       <1>17, <1>18, <1>20, <1>21, <1>22, <1>23, <1>24
    DEF Next, FlushStep, Fault, StopStep

\* The types and the counts hold throughout every run of the hub.
THEOREM TypeInvariant == Spec => []TypeInv
  BY InitTypeInv, TypeStep, PTL DEF Spec

\* TypeOK of the model-checked run, for every batch size and every bound.
THEOREM TypeCorrect == Spec => []TypeOK
  BY TypeInvariant, PTL DEF TypeInv

\* The task_done accounting on which queue.join() in stop() relies.
THEOREM UnfinishedCorrect == Spec => []UnfinishedCount
  BY TypeInvariant, PTL DEF TypeInv

-----------------------------------------------------------------------------
(* The lock.  A task inside the lock is its owner; the tasks in waiters    *)
(* need not be known, because a task that was handed the lock enters only  *)
(* after it has become the owner.                                          *)

LockInv == \A t \in Tasks : pc[t] \in InFlush => owner = t

\* Points outside the lock.
LEMMA OutsidePoints ==
  /\ {"lock", "get", "sleep", "idle", "join", "cancelTimer", "cancelProc", "done", "dead", "down"}
       \cap InFlush = {}
  /\ \A t \in Tasks : AfterFlush(t) \notin InFlush /\ FirstPC[t] \notin InFlush
  BY DEF InFlush, Posting, Redis, AfterFlush, FirstPC, Tasks

\* A task calls flush() from outside of it.
LEMMA CallFlushLock ==
  ASSUME TypeOK, LockInv, NEW t \in Tasks, CallFlush(t)
  PROVE  LockInv'
  <1>1. NoTask \notin Tasks
    BY DEF NoTask, Tasks
  <1>2. pc \in [Tasks -> PC]
    BY DEF TypeOK
  <1> QED BY <1>1, <1>2, OutsidePoints DEF LockInv, CallFlush

\* A task that is inside leaves, whoever gets the lock then.
LEMMA LeaveFlushLock ==
  ASSUME TypeOK, LockInv, NEW t \in Tasks, pc[t] \in InFlush, LeaveFlush(t)
  PROVE  LockInv'
  <1>1. pc \in [Tasks -> PC] /\ pc' = [pc EXCEPT ![t] = AfterFlush(t)]
    BY DEF TypeOK, LeaveFlush
  <1>2. \A u \in Tasks : pc'[u] \notin InFlush
    BY <1>1, OutsidePoints DEF LockInv
  <1> QED BY <1>2 DEF LockInv

\* A task that is inside sends its next request.
LEMMA SendLock ==
  ASSUME TypeOK, LockInv, NEW t \in Tasks, pc[t] \in InFlush, NEW p, NEW b, Send(t, p, b)
  PROVE  LockInv'
  BY DEF TypeOK, LockInv, Send, lockVars

\* Nobody is inside when the process has ended.
LEMMA GoDownLock ==
  ASSUME GoDown
  PROVE  LockInv'
  BY OutsidePoints DEF GoDown, LockInv

\* Every step keeps the owner the only task inside.
LEMMA LockStep == TypeOK /\ LockInv /\ [Next]_vars => LockInv'
  <1> SUFFICES ASSUME TypeOK, LockInv, [Next]_vars PROVE LockInv'
    OBVIOUS
  <1> USE DEF lockVars, netVars, memVars, ghostVars, faultVars
  <1>1. CASE UNCHANGED <<pc, owner>>
    BY <1>1 DEF LockInv
  <1>2. CASE OnMessage \/ PutCallback \/ Ingest
    BY <1>1, <1>2 DEF OnMessage, PutCallback, Ingest, Enqueue
  <1>3. CASE Process
    <2>1. "proc" \in Tasks
      BY DEF Tasks
    <2> QED BY <1>1, <1>3, <2>1, CallFlushLock DEF Process
  <1>4. CASE TimerFires
    <2>1. "timer" \in Tasks
      BY DEF Tasks
    <2> QED BY <1>4, <2>1, CallFlushLock DEF TimerFires
  <1>5. CASE StopFlushes
    <2>1. "stop" \in Tasks
      BY DEF Tasks
    <2> QED BY <1>5, <2>1, CallFlushLock DEF StopFlushes
  <1>6. ASSUME NEW t \in Tasks, GetLock(t) PROVE LockInv'
    BY <1>6 DEF GetLock, LockInv, TypeOK
  <1>7. ASSUME NEW t \in Tasks, BacklogRead(t) PROVE LockInv'
    <2>1. pc[t] \in InFlush
      BY <1>7 DEF BacklogRead, InFlush, Redis
    <2> QED BY <1>7, <2>1, SendLock, LeaveFlushLock DEF BacklogRead, BufferLoop
  <1>8. ASSUME NEW t \in Tasks, PostReturns(t) PROVE LockInv'
    <2>1. pc[t] \in InFlush
      BY <1>8 DEF PostReturns, InFlush
    <2> QED BY <1>8, <2>1, SendLock, LeaveFlushLock DEF PostReturns, BufferLoop
  <1>9. ASSUME NEW t \in Tasks, RedisReturns(t) PROVE LockInv'
    <2>1. pc[t] \in InFlush
      BY <1>9 DEF RedisReturns, InFlush, Redis
    <2>2. CASE pc' = [pc EXCEPT ![t] = "lrange"] /\ owner' = owner
      BY <2>1, <2>2 DEF LockInv, TypeOK
    <2> QED BY <1>9, <2>1, <2>2, LeaveFlushLock DEF RedisReturns
  <1>10. ASSUME NEW t \in Tasks,
                RedisApplies(t) \/ StoreAnswers(t) \/ PostTimesOut(t) \/ ReplyLost(t)
         PROVE  LockInv'
    BY <1>1, <1>10
    DEF RedisApplies, StoreAnswers, StoreCommits, StoreRefuses, PostTimesOut, ReplyLost
  <1>11. ASSUME NEW t \in Tasks, RedisRaises(t) PROVE LockInv'
    <2>1. pc[t] \in InFlush
      BY <1>11 DEF RedisRaises, InFlush
    <2> QED BY <1>11, <2>1, LeaveFlushLock, GoDownLock DEF RedisRaises
  <1>12. CASE LateCommit \/ LateLost
    BY <1>1, <1>12 DEF LateCommit, LateLost
  <1>13. CASE BeginStop
    BY <1>13, OutsidePoints DEF BeginStop, LockInv, TypeOK
  <1>14. ASSUME NEW t \in {"timer", "proc"}, NEW next \in {"cancelProc", "done"}, CancelTask(t, next)
         PROVE  LockInv'
    <2>1. t \in Tasks /\ pc \in [Tasks -> PC]
      BY DEF Tasks, TypeOK
    <2>2. \A u \in Tasks : pc'[u] \in InFlush => u # t /\ pc[u] \in InFlush
      BY <1>14, <2>1, OutsidePoints DEF CancelTask
    <2>3. owner = t \/ owner' = owner
      BY <1>14 DEF CancelTask, LeaveCancelled
    <2> QED BY <2>1, <2>2, <2>3 DEF LockInv
  <1>15. CASE CancelTimer \/ CancelProc
    BY <1>14, <1>15 DEF CancelTimer, CancelProc
  <1>16. CASE Exit \/ Crash
    BY <1>16, GoDownLock DEF Exit, Crash
  <1>17. CASE Restart
    BY <1>17, OutsidePoints DEF Restart, LockInv
  <1>18. CASE UNCHANGED vars
    BY <1>1, <1>18 DEF vars
  <1> QED
    BY <1>2, <1>3, <1>4, <1>5, <1>6, <1>7, <1>8, <1>9, <1>10, <1>11, <1>12, <1>13, <1>15, <1>16,
       <1>17, <1>18
    DEF Next, FlushStep, Fault, StopStep

\* Whoever is inside flush() owns _flush_lock, throughout every run.
THEOREM LockInvariant == Spec => []LockInv
  <1>1. Init => LockInv
    BY OutsidePoints DEF Init, LockInv
  <1> QED BY <1>1, LockStep, TypeCorrect, PTL DEF Spec

\* At most one task is inside flush() at a time, however the tasks interleave
\* and wherever they are cancelled.
THEOREM FlushExclusive == Spec => []FlushIsExclusive
  <1>1. LockInv => FlushIsExclusive
    BY DEF LockInv, FlushIsExclusive
  <1> QED BY <1>1, LockInvariant, PTL

-----------------------------------------------------------------------------
(* The batch of a flush: what it still has to delete is in front of the    *)
(* list, and what it may delete is safe.                                   *)

\* A prefix stays one when the list grows at its end.
LEMMA PrefixAppend ==
  ASSUME NEW b \in Seq(Records), NEW s \in Seq(Records), NEW x \in Records, IsPrefix(b, s)
  PROVE  IsPrefix(b, Append(s, x))
  <1>1. SubSeq(Append(s, x), 1, Len(b)) = SubSeq(s, 1, Len(b))
    <2>1. Len(b) \in Nat /\ Len(b) <= Len(s) /\ Len(s) \in Nat
      BY DEF IsPrefix
    <2>2. Append(s, x) = s \o <<x>> /\ <<x>> \in Seq(Records)
      BY AppendIsConcat
    <2>3. CASE Len(b) = 0
      BY <2>3, SubSeqEmpty
    <2>4. CASE Len(b) # 0
      BY <2>1, <2>2, <2>4, SubSeqOfConcat1
    <2> QED BY <2>3, <2>4
  <1>2. Len(Append(s, x)) = Len(s) + 1 /\ Len(s) \in Nat /\ Len(b) \in Nat
    BY AppendProperties
  <1> QED BY <1>1, <1>2 DEF IsPrefix

\* A batch is taken from the front.
LEMMA FirstBatchPrefix ==
  ASSUME NEW s \in Seq(Records)
  PROVE  IsPrefix(FirstBatch(s), s)
  <1> DEFINE n == IF Len(s) < BatchSize THEN Len(s) ELSE BatchSize
  <1>1. n \in 0 .. Len(s) /\ Len(s) \in Nat
    BY HubAssumption
  <1>2. \A i \in 1 .. n : s[i] \in Records
    BY <1>1, ElementOfSeq
  <1>3. FirstBatch(s) \in Seq(Records) /\ Len(FirstBatch(s)) = n
    BY <1>1, <1>2, SubSeqProperties DEF FirstBatch
  <1>4. SubSeq(FirstBatch(s), 1, Len(FirstBatch(s))) = FirstBatch(s)
    BY <1>3, SubSeqFull
  <1> QED BY <1>1, <1>3, <1>4 DEF IsPrefix, FirstBatch

\* Deleting a batch from the front deletes no record but those of the batch.
LEMMA WithoutRange ==
  ASSUME NEW b \in Seq(Records), NEW s \in Seq(Records), IsPrefix(b, s)
  PROVE  Range(s) = Range(b) \cup Range(Without(s, b))
  <1>1. Len(b) \in Nat /\ Len(s) \in Nat /\ Len(b) <= Len(s)
    BY DEF IsPrefix
  <1>2. b = SubSeq(s, 1, Len(b))
    BY SubSeqFull DEF IsPrefix
  <1>3. s = SubSeq(s, 1, Len(s))
    BY SubSeqFull
  <1>4. 1 \in 1 .. Len(s) + 1 /\ Len(b) \in (1 - 1) .. Len(s) /\ Len(s) \in Len(b) .. Len(s)
    BY <1>1
  <1>5. SubSeq(s, 1, Len(b)) \o SubSeq(s, Len(b) + 1, Len(s)) = SubSeq(s, 1, Len(s))
    BY <1>4, ConcatAdjacentSubSeq
  <1>6. s = b \o Without(s, b)
    BY <1>2, <1>3, <1>5 DEF Without
  <1> QED BY <1>6, WithoutType, RangeConcatenation, ZenonT(30)

\* What a flush has got an acknowledgement for, or holds it in its hands.
SentIsSafe ==
  \A t \in Tasks :
    /\ (pc[t] \in Posting /\ net[t] = "applied") \/ pc[t] = "ltrim" => Range(batch[t]) \subseteq Stored
    /\ pc[t] = "rpush" /\ net[t] = "applied" => Range(batch[t]) \subseteq Range(backlog)

BatchInv == DeletesWhatItSent /\ SentIsSafe

\* The batch invariant is about the task inside the lock.
LEMMA BatchOfOne ==
  ASSUME NEW t \in Tasks, \A u \in Tasks \ {t} : pc'[u] \notin InFlush,
         /\ pc'[t] \in {"postBuffer", "rpush"} => IsPrefix(batch'[t], buffer')
         /\ pc'[t] = "postBacklog" \/ (pc'[t] = "ltrim" /\ net'[t] = "sent") => IsPrefix(batch'[t], backlog')
         /\ (pc'[t] \in Posting /\ net'[t] = "applied") \/ pc'[t] = "ltrim"
              => Range(batch'[t]) \subseteq Stored'
         /\ pc'[t] = "rpush" /\ net'[t] = "applied" => Range(batch'[t]) \subseteq Range(backlog')
  PROVE  BatchInv'
  <1>1. \A u \in Tasks \ {t} : pc'[u] \notin Posting \cup {"postBuffer", "postBacklog", "rpush", "ltrim"}
    BY DEF InFlush, Posting, Redis
  <1> QED BY <1>1 DEF BatchInv, DeletesWhatItSent, SentIsSafe

\* Where nobody is inside, nothing is claimed.
LEMMA BatchOfNone ==
  ASSUME \A u \in Tasks : pc'[u] \notin InFlush
  PROVE  BatchInv'
  BY BatchOfOne DEF InFlush, Posting, Redis, BatchInv, DeletesWhatItSent, SentIsSafe

\* Steps that leave the batches alone, and let the buffer and the stored
\* records only grow, keep the batch invariant.
LEMMA BatchFrame ==
  ASSUME TypeOK, BatchInv, backlog' = backlog, Stored \subseteq Stored',
         buffer' = buffer \/ \E x \in Records : buffer' = Append(buffer, x),
         \A u \in Tasks : pc'[u] \in InFlush =>
           pc'[u] \in {pc[u], "lrange"} /\ batch'[u] = batch[u] /\ net'[u] \in {net[u], "refused"}
  PROVE  BatchInv'
  <1> SUFFICES ASSUME NEW t \in Tasks, pc'[t] \in InFlush, pc'[t] # "lrange"
               PROVE  /\ pc'[t] \in {"postBuffer", "rpush"} => IsPrefix(batch'[t], buffer')
                      /\ pc'[t] = "postBacklog" \/ (pc'[t] = "ltrim" /\ net'[t] = "sent")
                           => IsPrefix(batch'[t], backlog')
                      /\ (pc'[t] \in Posting /\ net'[t] = "applied") \/ pc'[t] = "ltrim"
                           => Range(batch'[t]) \subseteq Stored'
                      /\ pc'[t] = "rpush" /\ net'[t] = "applied"
                           => Range(batch'[t]) \subseteq Range(backlog')
    BY DEF BatchInv, DeletesWhatItSent, SentIsSafe, InFlush, Posting, Redis
  <1>1. pc'[t] = pc[t] /\ batch'[t] = batch[t] /\ net'[t] \in {net[t], "refused"}
    OBVIOUS
  <1>2. batch[t] \in Seq(Records) /\ buffer \in Seq(Records)
    BY DEF TypeOK
  <1>3. IsPrefix(batch[t], buffer) => IsPrefix(batch[t], buffer')
    BY <1>2, PrefixAppend
  <1> QED BY <1>1, <1>3 DEF BatchInv, DeletesWhatItSent, SentIsSafe

\* A task calls flush(): if it enters, nobody else is inside.
LEMMA CallFlushBatch ==
  ASSUME TypeOK, BatchInv, NEW t \in Tasks, CallFlush(t),
         UNCHANGED <<backlog, copies, batch, net>>,
         buffer' = buffer \/ \E x \in Records : buffer' = Append(buffer, x)
  PROVE  BatchInv'
  <1>1. \A u \in Tasks : pc'[u] \in InFlush => pc'[u] \in {pc[u], "lrange"}
    BY OutsidePoints DEF CallFlush, TypeOK
  <1>2. Stored' = Stored
    BY DEF Stored
  <1> QED BY <1>1, <1>2, BatchFrame

\* A task leaves flush(), and nobody is inside.
LEMMA LeaveFlushBatch ==
  ASSUME TypeOK, LockInv, NEW t \in Tasks, pc[t] \in InFlush, LeaveFlush(t)
  PROVE  BatchInv'
  <1>1. \A u \in Tasks : pc'[u] \notin InFlush
    BY OutsidePoints DEF LeaveFlush, LockInv, TypeOK
  <1> QED BY <1>1, BatchOfNone

\* No flush is left when the process has ended.
LEMMA GoDownBatch ==
  ASSUME GoDown
  PROVE  BatchInv'
  BY BatchOfNone, OutsidePoints DEF GoDown

\* The task inside sends a request, having checked what that claims.
LEMMA SendBatch ==
  ASSUME TypeOK, LockInv, NEW t \in Tasks, pc[t] \in InFlush, NEW p \in InFlush,
         NEW b \in Seq(Records), Send(t, p, b),
         p \in {"postBuffer", "rpush"} => IsPrefix(b, buffer'),
         p \in {"postBacklog", "ltrim"} => IsPrefix(b, backlog'),
         p = "ltrim" => Range(b) \subseteq Stored'
  PROVE  BatchInv'
  <1>1. \A u \in Tasks \ {t} : pc'[u] \notin InFlush
    BY DEF Send, LockInv, TypeOK
  <1>2. pc'[t] = p /\ batch'[t] = b /\ net'[t] = "sent"
    BY DEF Send, TypeOK
  <1> QED BY <1>1, <1>2, BatchOfOne

\* The loop over the buffer as the flush leaves it.
LEMMA BufferLoopBatch ==
  ASSUME TypeOK, LockInv, NEW t \in Tasks, pc[t] \in InFlush, buffer' \in Seq(Records),
         BufferLoop(t, buffer')
  PROVE  BatchInv'
  <1>1. /\ FirstBatch(buffer') \in Seq(Records) /\ IsPrefix(FirstBatch(buffer'), buffer')
        /\ "postBuffer" \in InFlush
    BY FirstBatchType, FirstBatchPrefix DEF InFlush, Posting
  <1>2. CASE Send(t, "postBuffer", FirstBatch(buffer'))
    BY <1>1, <1>2, SendBatch
  <1> QED BY <1>2, LeaveFlushBatch DEF BufferLoop

\* Every step keeps the batch invariant.
LEMMA BatchStep == TypeOK /\ TypeOK' /\ LockInv /\ BatchInv /\ [Next]_vars => BatchInv'
  <1> SUFFICES ASSUME TypeOK, TypeOK', LockInv, BatchInv, [Next]_vars PROVE BatchInv'
    OBVIOUS
  <1> USE DEF lockVars, netVars, memVars, ghostVars, faultVars
  <1>1. CASE UNCHANGED <<backlog, copies, buffer, batch, net, pc>>
    BY <1>1, BatchFrame DEF Stored
  <1>2. CASE OnMessage \/ PutCallback \/ Ingest \/ LateLost
    BY <1>1, <1>2 DEF OnMessage, PutCallback, Ingest, Enqueue, LateLost
  <1>3. CASE Process
    <2>1. "proc" \in Tasks /\ Head(queue) \in Records
      BY <1>3, HeadTailProperties DEF Tasks, Process, TypeOK
    <2>2. buffer' = Append(buffer, Head(queue)) /\ UNCHANGED <<backlog, copies, batch, net>>
      BY <1>3 DEF Process
    <2>3. CASE CallFlush("proc")
      BY <2>1, <2>2, <2>3, CallFlushBatch
    <2>4. CASE UNCHANGED pc
      BY <2>1, <2>2, <2>4, BatchFrame DEF Stored
    <2> QED BY <1>3, <2>3, <2>4 DEF Process
  <1>4. CASE TimerFires \/ StopFlushes
    <2>1. "timer" \in Tasks /\ "stop" \in Tasks
      BY DEF Tasks
    <2> QED BY <1>4, <2>1, CallFlushBatch DEF TimerFires, StopFlushes
  <1>5. ASSUME NEW t \in Tasks, GetLock(t) PROVE BatchInv'
    <2>1. \A u \in Tasks : pc'[u] \in {pc[u], "lrange"}
      BY <1>5 DEF GetLock, TypeOK
    <2>2. UNCHANGED <<backlog, copies, buffer, batch, net>>
      BY <1>5 DEF GetLock
    <2> QED BY <2>1, <2>2, BatchFrame DEF Stored
  <1>6. ASSUME NEW t \in Tasks, BacklogRead(t) PROVE BatchInv'
    <2>1. pc[t] \in InFlush /\ "postBacklog" \in InFlush
      BY <1>6 DEF BacklogRead, InFlush, Redis, Posting
    <2>2. backlog' = backlog /\ buffer' = buffer /\ buffer' \in Seq(Records) /\ backlog \in Seq(Records)
      BY <1>6 DEF BacklogRead, TypeOK
    <2>3. FirstBatch(backlog) \in Seq(Records) /\ IsPrefix(FirstBatch(backlog), backlog')
      BY <2>2, FirstBatchType, FirstBatchPrefix
    <2>4. CASE Send(t, "postBacklog", FirstBatch(backlog))
      BY <2>1, <2>3, <2>4, SendBatch
    <2>5. CASE BufferLoop(t, buffer)
      BY <2>1, <2>2, <2>5, BufferLoopBatch
    <2> QED BY <1>6, <2>4, <2>5 DEF BacklogRead
  <1>7. ASSUME NEW t \in Tasks, PostReturns(t) PROVE BatchInv'
    <2>1. pc[t] \in InFlush /\ "ltrim" \in InFlush /\ "rpush" \in InFlush
      BY <1>7 DEF PostReturns, InFlush, Redis
    <2>2. batch[t] \in Seq(Records) /\ backlog' = backlog /\ Stored' = Stored /\ buffer' \in Seq(Records)
      BY <1>7 DEF PostReturns, TypeOK, Stored
    <2>3. CASE pc[t] = "postBacklog" /\ net[t] = "applied" /\ Send(t, "ltrim", batch[t])
      <3>1. IsPrefix(batch[t], backlog) /\ Range(batch[t]) \subseteq Stored
        BY <1>7, <2>3 DEF BatchInv, DeletesWhatItSent, SentIsSafe, PostReturns
      <3> QED BY <2>1, <2>2, <2>3, <3>1, SendBatch
    <2>4. CASE pc[t] = "postBuffer" /\ buffer' = buffer /\ Send(t, "rpush", batch[t])
      <3>1. IsPrefix(batch[t], buffer)
        BY <2>4 DEF BatchInv, DeletesWhatItSent
      <3> QED BY <2>1, <2>2, <2>4, <3>1, SendBatch
    <2>5. CASE LeaveFlush(t)
      BY <2>1, <2>5, LeaveFlushBatch
    <2>6. CASE BufferLoop(t, buffer')
      BY <2>1, <2>2, <2>6, BufferLoopBatch
    <2> QED BY <1>7, <2>3, <2>4, <2>5, <2>6 DEF PostReturns
  <1>8. ASSUME NEW t \in Tasks, RedisApplies(t) PROVE BatchInv'
    <2>1. pc[t] \in {"ltrim", "rpush"} /\ pc' = pc /\ batch' = batch /\ buffer' = buffer /\ copies' = copies
      BY <1>8 DEF RedisApplies
    <2>2. net'[t] = "applied"
      BY <1>8 DEF RedisApplies, TypeOK
    <2>3. \A u \in Tasks \ {t} : pc'[u] \notin InFlush
      BY <2>1 DEF LockInv, InFlush, Redis
    <2>4. pc[t] = "ltrim" => Range(batch[t]) \subseteq Stored'
      BY <2>1 DEF BatchInv, SentIsSafe, Stored
    <2>5. pc[t] = "rpush" => IsPrefix(batch[t], buffer')
      BY <2>1 DEF BatchInv, DeletesWhatItSent
    <2>6. pc[t] = "rpush" => Range(batch[t]) \subseteq Range(backlog')
      <3>1. backlog \in Seq(Records) /\ batch[t] \in Seq(Records)
        BY DEF TypeOK
      <3>2. pc[t] = "rpush" => backlog' = backlog \o batch[t]
        BY <1>8 DEF RedisApplies
      <3>3. Range(backlog \o batch[t]) = Range(backlog) \cup Range(batch[t])
        BY <3>1, RangeConcatenation
      <3> QED BY <3>2, <3>3
    <2>7. pc[t] \notin Posting
      BY <2>1 DEF Posting
    <2> QED BY <2>1, <2>2, <2>3, <2>4, <2>5, <2>6, <2>7, BatchOfOne DEF Posting
  <1>9. ASSUME NEW t \in Tasks, RedisReturns(t) PROVE BatchInv'
    <2>1. pc[t] \in InFlush
      BY <1>9 DEF RedisReturns, InFlush, Redis
    <2>2. CASE pc' = [pc EXCEPT ![t] = "lrange"]
      <3>1. pc'[t] = "lrange" /\ \A u \in Tasks \ {t} : pc'[u] \notin InFlush
        BY <2>1, <2>2 DEF LockInv, TypeOK
      <3> QED BY <3>1, BatchOfOne DEF Posting
    <2> QED BY <1>9, <2>1, <2>2, LeaveFlushBatch DEF RedisReturns
  <1>10. ASSUME NEW t \in Tasks, StoreCommits(t) PROVE BatchInv'
    <2>1. pc[t] \in Posting /\ UNCHANGED <<pc, batch, backlog, buffer>> /\ AddRows(batch[t])
      BY <1>10 DEF StoreCommits
    <2>2. \A u \in Tasks \ {t} : pc'[u] \notin InFlush
      BY <2>1 DEF LockInv, InFlush
    <2>3. Range(batch[t]) \subseteq Stored'
      BY <2>1, AddRowsProperties DEF TypeOK
    <2>4. /\ pc[t] = "postBuffer" => IsPrefix(batch[t], buffer)
          /\ pc[t] = "postBacklog" => IsPrefix(batch[t], backlog)
      BY DEF BatchInv, DeletesWhatItSent
    <2> QED BY <2>1, <2>2, <2>3, <2>4, BatchOfOne DEF Posting
  <1>11. ASSUME NEW t \in Tasks, StoreRefuses(t) \/ PostTimesOut(t) \/ ReplyLost(t) PROVE BatchInv'
    <2>1. UNCHANGED <<pc, batch, backlog, buffer, copies>>
      BY <1>11 DEF StoreRefuses, PostTimesOut, ReplyLost
    <2>2. \A u \in Tasks : net'[u] \in {net[u], "refused"}
      BY <1>11 DEF StoreRefuses, PostTimesOut, ReplyLost, TypeOK
    <2> QED BY <2>1, <2>2, BatchFrame DEF Stored
  <1>12. ASSUME NEW t \in Tasks, RedisRaises(t) PROVE BatchInv'
    <2>1. pc[t] \in InFlush
      BY <1>12 DEF RedisRaises, InFlush
    <2> QED BY <1>12, <2>1, LeaveFlushBatch, GoDownBatch DEF RedisRaises
  <1>13. CASE LateCommit
    <2>1. PICK k \in 1 .. Len(late) : AddRows(late[k])
      BY <1>13 DEF LateCommit
    <2>2. late[k] \in Seq(Records)
      BY <2>1, ElementOfSeq DEF TypeOK
    <2>3. Stored \subseteq Stored'
      BY <2>1, <2>2, AddRowsProperties DEF TypeOK
    <2> QED BY <1>13, <2>3, BatchFrame DEF LateCommit
  <1>14. CASE BeginStop
    <2>1. \A u \in Tasks : pc'[u] \in InFlush => pc'[u] = pc[u]
      BY <1>14, OutsidePoints DEF BeginStop, TypeOK
    <2> QED BY <1>14, <2>1, BatchFrame DEF BeginStop, Stored
  <1>15. ASSUME NEW t \in {"timer", "proc"}, NEW next \in {"cancelProc", "done"}, CancelTask(t, next)
         PROVE  BatchInv'
    <2>1. \A u \in Tasks : pc'[u] \in InFlush =>
            pc'[u] = pc[u] /\ batch'[u] = batch[u] /\ net'[u] = net[u]
      BY <1>15, OutsidePoints DEF CancelTask, TypeOK
    <2> QED BY <1>15, <2>1, BatchFrame DEF CancelTask, Stored
  <1>16. CASE CancelTimer \/ CancelProc
    BY <1>15, <1>16 DEF CancelTimer, CancelProc
  <1>17. CASE Exit \/ Crash
    BY <1>17, GoDownBatch DEF Exit, Crash
  <1>18. CASE Restart
    BY <1>18, BatchOfNone, OutsidePoints DEF Restart
  <1>19. CASE UNCHANGED vars
    BY <1>1, <1>19 DEF vars
  <1> QED
    BY <1>2, <1>3, <1>4, <1>5, <1>6, <1>7, <1>8, <1>9, <1>10, <1>11, <1>12, <1>13, <1>14, <1>16,
       <1>17, <1>18, <1>19
    DEF Next, FlushStep, StoreAnswers, Fault, StopStep

\* At every await of flush(), the batch in its local variable is in front of
\* the list it will be deleted from, and safe elsewhere once that is answered.
THEOREM BatchInvariant == Spec => []BatchInv
  <1>1. Init => BatchInv
    BY OutsidePoints DEF Init, BatchInv, DeletesWhatItSent, SentIsSafe, InFlush, Posting, Redis
  <1> QED BY <1>1, BatchStep, TypeCorrect, LockInvariant, PTL DEF Spec

\* `del _buffer[:n]` after a POST, and ltrim, delete the records of the batch
\* that was sent, whatever the processor appended in the meantime.
THEOREM DeletionCorrect == Spec => []DeletesWhatItSent
  BY BatchInvariant, PTL DEF BatchInv

-----------------------------------------------------------------------------
(* No record vanishes.                                                     *)

\* What Redis or the Store has.
Safe == Range(backlog) \cup Stored

\* A step that takes records from the buffer only when they are safe, and
\* loses nothing that is safe, keeps every record.
LEMMA KeepFrame ==
  ASSUME NoRecordVanishes, UNCHANGED <<accepted, queue>>, dropped \subseteq dropped',
         Safe \subseteq Safe', Range(buffer) \subseteq Range(buffer') \cup Safe'
  PROVE  NoRecordVanishes'
  BY DEF NoRecordVanishes, Safe

\* An accepted record is in the queue.
LEMMA EnqueueKeeps ==
  ASSUME TypeOK, TypeOK', NoRecordVanishes, Enqueue
  PROVE  NoRecordVanishes' /\ Safe' = Safe
  <1> USE DEF ghostVars
  <1>1. accepted \in Nat /\ accepted' = accepted + 1 /\ accepted' \in Records
    BY HubAssumption DEF Enqueue, TypeOK, Records
  <1>2. queue' = Append(queue, accepted') /\ queue \in Seq(Records)
    BY <1>1 DEF Enqueue, TypeOK
  <1>3. queue' = queue \o <<accepted'>> /\ <<accepted'>> \in Seq(Records)
    BY <1>1, <1>2, AppendIsConcat
  <1>4. Range(<<accepted'>>) = {accepted'}
    BY DEF Range
  <1>5. Range(queue') = Range(queue) \cup {accepted'}
    <2>1. Range(queue \o <<accepted'>>) = Range(queue) \cup Range(<<accepted'>>)
      BY <1>2, <1>3, RangeConcatenation, ZenonT(30)
    <2> QED BY <1>3, <1>4, <2>1
  <1>6. \A i \in 1 .. accepted' : i \in 1 .. accepted \/ i = accepted'
    BY <1>1
  <1>7. UNCHANGED <<buffer, backlog, copies, dropped>>
    BY DEF Enqueue
  <1>8. Stored' = Stored
    BY <1>7 DEF Stored
  <1> QED BY <1>5, <1>6, <1>7, <1>8 DEF NoRecordVanishes, Safe

\* The processor moves a record from the queue to the buffer.
LEMMA ProcessKeeps ==
  ASSUME TypeOK, NoRecordVanishes, Process
  PROVE  NoRecordVanishes' /\ Safe' = Safe
  <1> USE DEF ghostVars
  <1> DEFINE x == Head(queue)
  <1>1. /\ queue \in Seq(Records) /\ queue # <<>> /\ buffer \in Seq(Records)
        /\ queue' = Tail(queue) /\ buffer' = Append(buffer, x)
        /\ UNCHANGED <<accepted, backlog, copies, dropped>>
    BY DEF Process, TypeOK
  <1>2. x \in Records /\ <<x>> \in Seq(Records) /\ Tail(queue) \in Seq(Records)
    BY <1>1, HeadTailProperties
  <1>3. Range(<<x>>) = {x}
    BY DEF Range
  <1>4. Range(buffer') = Range(buffer) \cup {x}
    <2>1. buffer' = buffer \o <<x>>
      BY <1>1, <1>2, AppendIsConcat
    <2>2. Range(buffer \o <<x>>) = Range(buffer) \cup Range(<<x>>)
      BY <1>1, <1>2, RangeConcatenation, ZenonT(30)
    <2> QED BY <1>3, <2>1, <2>2
  <1>5. Range(queue) \subseteq {x} \cup Range(queue')
    <2>1. Range(queue) = {queue[i] : i \in 1 .. Len(queue)}
      BY <1>1, RangeEquality
    <2>2. Range(queue') = {queue'[i] : i \in 1 .. Len(queue')}
      <3>1. Range(Tail(queue)) = {Tail(queue)[i] : i \in 1 .. Len(Tail(queue))}
        BY <1>2, RangeEquality
      <3> QED BY <1>1, <3>1
    <2>3. Len(queue') = Len(queue) - 1 /\ Len(queue) \in Nat
          /\ \A i \in 1 .. Len(queue') : queue'[i] = queue[i + 1]
      BY <1>1, HeadTailProperties
    <2>4. \A i \in 1 .. Len(queue) : queue[i] = x \/ (i - 1 \in 1 .. Len(queue') /\ queue'[i - 1] = queue[i])
      <3> SUFFICES ASSUME NEW i \in 1 .. Len(queue), i # 1
                   PROVE  i - 1 \in 1 .. Len(queue') /\ queue'[i - 1] = queue[i]
        BY <1>1
      <3> QED BY <2>3
    <2> QED BY <2>1, <2>2, <2>4
  <1>6. Stored' = Stored
    BY <1>1 DEF Stored
  <1> QED BY <1>1, <1>4, <1>5, <1>6 DEF NoRecordVanishes, Safe

\* What dies with the process is counted as dropped.
LEMMA GoDownKeeps ==
  ASSUME NoRecordVanishes, GoDown
  PROVE  NoRecordVanishes' /\ Safe' = Safe
  <1>1. Stored' = Stored /\ UNCHANGED <<accepted, backlog>>
    BY DEF GoDown, Stored
  <1>2. dropped' = dropped \cup ((Range(queue) \cup Range(buffer)) \ (Stored \cup Range(backlog)))
    BY DEF GoDown
  <1> QED BY <1>1, <1>2 DEF NoRecordVanishes, Safe

\* Every step keeps every record, and keeps what is safe safe.
LEMMA KeepStep ==
  TypeOK /\ TypeOK' /\ BatchInv /\ NoRecordVanishes /\ [Next]_vars
    => NoRecordVanishes' /\ Safe \subseteq Safe'
  <1> SUFFICES ASSUME TypeOK, TypeOK', BatchInv, NoRecordVanishes, [Next]_vars
               PROVE  NoRecordVanishes' /\ Safe \subseteq Safe'
    OBVIOUS
  <1> USE DEF lockVars, netVars, memVars, ghostVars, faultVars
  <1>1. CASE UNCHANGED <<accepted, queue, buffer, backlog, copies, dropped>>
    <2>1. Safe' = Safe
      BY <1>1 DEF Safe, Stored
    <2> QED BY <1>1, <2>1, KeepFrame
  <1>2. CASE OnMessage \/ TimerFires \/ StopFlushes \/ BeginStop \/ Restart \/ LateLost \/ UNCHANGED vars
    BY <1>1, <1>2 DEF OnMessage, TimerFires, StopFlushes, BeginStop, Restart, LateLost, vars
  <1>3. CASE PutCallback \/ Ingest
    BY <1>3, EnqueueKeeps DEF PutCallback, Ingest
  <1>4. CASE Process
    BY <1>4, ProcessKeeps
  <1>5. ASSUME NEW t \in Tasks,
               \/ GetLock(t) \/ BacklogRead(t) \/ StoreRefuses(t) \/ PostTimesOut(t) \/ ReplyLost(t)
        PROVE  NoRecordVanishes' /\ Safe \subseteq Safe'
    BY <1>1, <1>5 DEF GetLock, BacklogRead, StoreRefuses, PostTimesOut, ReplyLost
  <1>6. ASSUME NEW t \in Tasks, PostReturns(t) PROVE NoRecordVanishes' /\ Safe \subseteq Safe'
    <2>1. UNCHANGED <<accepted, queue, backlog, copies, dropped>>
      BY <1>6 DEF PostReturns
    <2>2. Safe' = Safe
      BY <2>1 DEF Safe, Stored
    <2>3. CASE buffer' = buffer
      BY <1>1, <2>1, <2>3
    <2>4. CASE pc[t] = "postBuffer" /\ net[t] = "applied" /\ buffer' = Without(buffer, batch[t])
      <3>1. IsPrefix(batch[t], buffer) /\ Range(batch[t]) \subseteq Stored
        BY <2>4 DEF BatchInv, DeletesWhatItSent, SentIsSafe, Posting
      <3>2. batch[t] \in Seq(Records) /\ buffer \in Seq(Records)
        BY DEF TypeOK
      <3>3. Range(buffer) = Range(batch[t]) \cup Range(buffer')
        BY <2>4, <3>1, <3>2, WithoutRange
      <3>4. Range(buffer) \subseteq Range(buffer') \cup Safe'
        BY <2>2, <3>1, <3>3 DEF Safe
      <3> QED BY <2>1, <2>2, <3>4, KeepFrame
    <2> QED BY <1>6, <2>3, <2>4 DEF PostReturns
  <1>7. ASSUME NEW t \in Tasks, RedisApplies(t) PROVE NoRecordVanishes' /\ Safe \subseteq Safe'
    <2>1. UNCHANGED <<accepted, queue, buffer, copies, dropped>>
      BY <1>7 DEF RedisApplies
    <2>2. Stored' = Stored /\ batch[t] \in Seq(Records) /\ backlog \in Seq(Records)
      BY <2>1 DEF Stored, TypeOK
    <2>3. Range(backlog) \subseteq Range(backlog') \cup Stored
      <3>1. CASE pc[t] = "ltrim" /\ backlog' = Without(backlog, batch[t])
        <4>1. IsPrefix(batch[t], backlog) /\ Range(batch[t]) \subseteq Stored
          BY <1>7, <3>1 DEF RedisApplies, BatchInv, DeletesWhatItSent, SentIsSafe
        <4>2. Range(backlog) = Range(batch[t]) \cup Range(backlog')
          BY <2>2, <3>1, <4>1, WithoutRange
        <4> QED BY <4>1, <4>2
      <3>2. CASE backlog' = backlog \o batch[t]
        <4>1. Range(backlog \o batch[t]) = Range(backlog) \cup Range(batch[t])
          BY <2>2, RangeConcatenation
        <4> QED BY <3>2, <4>1
      <3> QED BY <1>7, <3>1, <3>2 DEF RedisApplies
    <2>4. Safe \subseteq Safe'
      BY <2>2, <2>3 DEF Safe
    <2> QED BY <2>1, <2>4, KeepFrame
  <1>8. ASSUME NEW t \in Tasks, RedisReturns(t) PROVE NoRecordVanishes' /\ Safe \subseteq Safe'
    <2>1. UNCHANGED <<accepted, queue, backlog, copies, dropped>>
      BY <1>8 DEF RedisReturns
    <2>2. Safe' = Safe
      BY <2>1 DEF Safe, Stored
    <2>3. CASE buffer' = buffer
      BY <1>1, <2>1, <2>3
    <2>4. CASE pc[t] = "rpush" /\ net[t] = "applied" /\ buffer' = Without(buffer, batch[t])
      <3>1. IsPrefix(batch[t], buffer) /\ Range(batch[t]) \subseteq Range(backlog)
        BY <2>4 DEF BatchInv, DeletesWhatItSent, SentIsSafe
      <3>2. batch[t] \in Seq(Records) /\ buffer \in Seq(Records)
        BY DEF TypeOK
      <3>3. Range(buffer) = Range(batch[t]) \cup Range(buffer')
        BY <2>4, <3>1, <3>2, WithoutRange
      <3>4. Range(buffer) \subseteq Range(buffer') \cup Safe'
        BY <2>2, <3>1, <3>3 DEF Safe
      <3> QED BY <2>1, <2>2, <3>4, KeepFrame
    <2> QED BY <1>8, <2>3, <2>4 DEF RedisReturns
  <1>9. ASSUME NEW b \in Seq(Records), AddRows(b), UNCHANGED <<accepted, queue, buffer, backlog, dropped>>
        PROVE  NoRecordVanishes' /\ Safe \subseteq Safe'
    <2>1. Stored \subseteq Stored'
      BY <1>9, AddRowsProperties DEF TypeOK
    <2>2. Safe \subseteq Safe'
      BY <1>9, <2>1 DEF Safe
    <2> QED BY <1>9, <2>2, KeepFrame
  <1>10. ASSUME NEW t \in Tasks, StoreCommits(t) PROVE NoRecordVanishes' /\ Safe \subseteq Safe'
    <2>1. batch[t] \in Seq(Records)
      BY DEF TypeOK
    <2> QED BY <1>9, <1>10, <2>1 DEF StoreCommits
  <1>11. CASE LateCommit
    <2>1. PICK k \in 1 .. Len(late) : AddRows(late[k]) /\ UNCHANGED <<memVars, backlog, ghostVars>>
      BY <1>11 DEF LateCommit
    <2>2. late[k] \in Seq(Records)
      BY <2>1, ElementOfSeq DEF TypeOK
    <2> QED BY <1>9, <2>1, <2>2
  <1>12. ASSUME NEW t \in Tasks, RedisRaises(t) PROVE NoRecordVanishes' /\ Safe \subseteq Safe'
    BY <1>1, <1>12, GoDownKeeps DEF RedisRaises
  <1>13. CASE CancelTimer \/ CancelProc
    BY <1>1, <1>13 DEF CancelTimer, CancelProc, CancelTask
  <1>14. CASE Exit \/ Crash
    BY <1>14, GoDownKeeps DEF Exit, Crash
  <1> QED
    BY <1>2, <1>3, <1>4, <1>5, <1>6, <1>7, <1>8, <1>10, <1>11, <1>12, <1>13, <1>14
    DEF Next, FlushStep, StoreAnswers, Fault, StopStep

\* Every accepted record is stored, in the backlog, in memory, or died in the
\* memory of a process that ended.
THEOREM RecordsKept == Spec => []NoRecordVanishes
  <1>1. Init => NoRecordVanishes
    BY DEF Init, NoRecordVanishes
  <1> QED BY <1>1, KeepStep, TypeCorrect, BatchInvariant, PTL DEF Spec

\* What is in Redis or in the Store stays in one of them, across crashes,
\* cancellations and restarts.
THEOREM SafeForever == Spec => SafeStaysSafe
  <1>1. TypeOK /\ TypeOK' /\ BatchInv /\ NoRecordVanishes /\ [Next]_vars
          => [Range(backlog) \cup Stored \subseteq Range(backlog') \cup Stored']_vars
    BY KeepStep DEF Safe
  <1> QED BY <1>1, TypeCorrect, BatchInvariant, RecordsKept, PTL DEF Spec, SafeStaysSafe

-----------------------------------------------------------------------------
(* A clean stop.  From the moment stop() has joined the queue nothing      *)
(* enters it; its flush empties the backlog first and the buffer then.     *)

Gone == {"cancelTimer", "cancelProc", "done"}
NotStopping == {"idle", "down"}

DrainInv ==
  /\ pc["stop"] \in NotStopping => net["stop"] = "none"
  /\ clean /\ pc["stop"] \notin NotStopping =>
       /\ scheduled = 0 /\ ~running
       /\ pc["stop"] # "rpush" /\ net["stop"] # "refused"
       /\ pc["stop"] # "join" => unfinished = 0
       /\ pc["stop"] = "postBuffer" => backlog = <<>>
       /\ pc["stop"] \in Gone => backlog = <<>> /\ buffer = <<>> /\ pc["timer"] \notin InFlush
       /\ pc["stop"] \in {"cancelProc", "done"} => pc["timer"] = "dead"

\* With no unfinished record, the queue is empty and the processor waits for it.
LEMMA NothingUnfinished ==
  ASSUME TypeInv, unfinished = 0
  PROVE  queue = <<>> /\ pc["proc"] \notin Working
  <1>1. queue \in Seq(Records) /\ Len(queue) \in Nat
    BY DEF TypeInv, TypeOK
  <1>2. Len(queue) = 0 /\ pc["proc"] \notin Working
    BY <1>1 DEF TypeInv, UnfinishedCount
  <1> QED BY <1>1, <1>2, EmptySeq

\* The first batch is empty only of an empty list.
LEMMA FirstBatchEmpty ==
  ASSUME NEW s \in Seq(Records), FirstBatch(s) = <<>>
  PROVE  s = <<>>
  <1> DEFINE n == IF Len(s) < BatchSize THEN Len(s) ELSE BatchSize
  <1>1. Len(s) \in Nat /\ n \in 0 .. Len(s) /\ (n = 0 => Len(s) = 0)
    BY HubAssumption
  <1>2. Len(SubSeq(s, 1, n)) = n
    BY <1>1
  <1> QED BY <1>1, <1>2, EmptySeq DEF FirstBatch

\* A step that leaves alone stop() and what it has emptied.
LEMMA DrainFrame ==
  ASSUME DrainInv, clean' => clean, pc'["stop"] = pc["stop"], net'["stop"] = net["stop"],
         UNCHANGED <<scheduled, unfinished, buffer, backlog, running>>,
         clean /\ pc["stop"] \in Gone => pc'["timer"] = pc["timer"]
  PROVE  DrainInv'
  BY DEF DrainInv, NotStopping, Gone

\* What the processor or the timer does inside flush() cannot disturb the
\* flush of stop(): either that has not begun, or they could not be inside.
LEMMA DrainOther ==
  ASSUME TypeInv, LockInv, DrainInv, NEW t \in {"proc", "timer"}, pc[t] \in InFlush,
         clean' => clean, pc'["stop"] = pc["stop"], net'["stop"] = net["stop"],
         UNCHANGED <<scheduled, running>>, t = "timer" => unfinished' = unfinished
  PROVE  DrainInv'
  <1>1. pc["stop"] \notin InFlush
    BY DEF LockInv, Tasks
  <1>2. t = "proc" => unfinished # 0
    BY NothingUnfinished DEF Working
  <1>3. t = "timer" => ~(clean /\ pc["stop"] \in Gone)
    BY DEF DrainInv, Gone, NotStopping
  <1>4. t = "proc" /\ clean => pc["stop"] \in NotStopping \cup {"join"}
    BY <1>2 DEF DrainInv
  <1>5. pc["stop"] # "postBuffer"
    BY <1>1 DEF InFlush, Posting
  <1> QED BY <1>3, <1>4, <1>5 DEF DrainInv, Gone, NotStopping

\* A task calls flush().
LEMMA CallFlushDrain ==
  ASSUME TypeInv, NEW t \in Tasks, CallFlush(t)
  PROVE  /\ pc' = [pc EXCEPT ![t] = pc'[t]]
         /\ pc'[t] \in {"lrange", "lock"}
  BY DEF CallFlush, TypeInv, TypeOK

\* stop() leaves its flush with everything empty, or not clean.
LEMMA LeaveFlushDrain ==
  ASSUME TypeInv, LockInv, DrainInv, pc["stop"] \in InFlush, LeaveFlush("stop"),
         clean' => clean, UNCHANGED <<scheduled, running>>,
         clean' => backlog' = <<>> /\ buffer' = <<>>
  PROVE  DrainInv'
  <1>1. pc' = [pc EXCEPT !["stop"] = "cancelTimer"] /\ net' = [net EXCEPT !["stop"] = "none"]
        /\ unfinished' = unfinished
    BY DEF LeaveFlush, AfterFlush
  <1>2. pc \in [Tasks -> PC] /\ net \in [Tasks -> {"none", "sent", "applied", "refused"}]
        /\ "stop" \in Tasks /\ "timer" \in Tasks
    BY DEF TypeInv, TypeOK, Tasks
  <1>3. pc'["stop"] = "cancelTimer" /\ net'["stop"] = "none" /\ pc'["timer"] \notin InFlush
    BY <1>1, <1>2 DEF LockInv
  <1>4. pc["stop"] \notin NotStopping \cup {"join"}
    BY DEF InFlush, Posting, Redis, NotStopping
  <1> QED BY <1>1, <1>3, <1>4 DEF DrainInv, NotStopping

\* stop() sends a request inside its flush.
LEMMA SendDrain ==
  ASSUME TypeInv, DrainInv, pc["stop"] \in InFlush, NEW p \in InFlush, NEW b, Send("stop", p, b),
         clean' => clean, UNCHANGED <<scheduled, running>>,
         clean /\ p = "postBuffer" => backlog' = <<>>,
         clean => p # "rpush"
  PROVE  DrainInv'
  <1>1. pc'["stop"] = p /\ net'["stop"] = "sent" /\ unfinished' = unfinished
    BY DEF Send, TypeInv, TypeOK, Tasks
  <1>2. {pc["stop"], p} \cap (NotStopping \cup Gone \cup {"join"}) = {}
    BY DEF InFlush, Posting, Redis, NotStopping, Gone
  <1> QED BY <1>1, <1>2 DEF DrainInv, Gone

\* The loop of stop() over the buffer, after the backlog has been emptied.
LEMMA BufferLoopDrain ==
  ASSUME TypeInv, LockInv, DrainInv, pc["stop"] \in InFlush, BufferLoop("stop", buffer'),
         clean' => clean, UNCHANGED <<scheduled, running>>, clean => backlog' = <<>>
  PROVE  DrainInv'
  <1>1. "postBuffer" \in InFlush
    BY DEF InFlush, Posting
  <1>2. CASE buffer' # <<>>
    BY <1>1, <1>2, SendDrain DEF BufferLoop, Forced
  <1>3. CASE buffer' = <<>>
    BY <1>3, LeaveFlushDrain DEF BufferLoop
  <1> QED BY <1>2, <1>3

\* The process has ended.
LEMMA GoDownDrain ==
  ASSUME GoDown
  PROVE  DrainInv'
  <1>1. pc'["stop"] = "down" /\ net'["stop"] = "none"
    BY DEF GoDown, Tasks
  <1> QED BY <1>1 DEF DrainInv, NotStopping

\* Every step keeps the drain.
LEMMA DrainStep == TypeInv /\ TypeInv' /\ LockInv /\ DrainInv /\ [Next]_vars => DrainInv'
  <1> SUFFICES ASSUME TypeInv, TypeInv', LockInv, DrainInv, [Next]_vars PROVE DrainInv'
    OBVIOUS
  <1> USE DEF lockVars, netVars, memVars, ghostVars, faultVars
  <1>1. /\ pc \in [Tasks -> PC] /\ net \in [Tasks -> {"none", "sent", "applied", "refused"}]
        /\ scheduled \in Nat /\ queue \in Seq(Records)
    BY DEF TypeInv, TypeOK
  <1>2. "stop" \in Tasks /\ "timer" \in Tasks /\ "proc" \in Tasks
        /\ \A t \in Tasks : t # "stop" => t \in {"proc", "timer"}
    BY DEF Tasks
  <1>3. CASE OnMessage \/ PutCallback \/ Ingest
    <2>1. /\ running \/ scheduled > 0
          /\ UNCHANGED <<pc, net, clean>>
      BY <1>3 DEF OnMessage, PutCallback, Ingest, Enqueue
    <2> QED BY <2>1 DEF DrainInv
  <1>4. CASE Process
    <2>1. pc'["stop"] = pc["stop"] /\ UNCHANGED <<scheduled, running, clean, net, backlog>>
      BY <1>1, <1>2, <1>4, CallFlushDrain DEF Process
    <2>2. unfinished # 0
      BY <1>4, NothingUnfinished DEF Process
    <2>3. clean => pc["stop"] \in NotStopping \cup {"join"}
      BY <2>2 DEF DrainInv
    <2> QED BY <2>1, <2>3 DEF DrainInv, NotStopping, Gone
  <1>5. CASE TimerFires
    <2>1. pc'["stop"] = pc["stop"] /\ UNCHANGED <<scheduled, running, clean, net, backlog, buffer, unfinished>>
      BY <1>1, <1>2, <1>5, CallFlushDrain DEF TimerFires
    <2>2. pc["stop"] # "cancelTimer" /\ pc["timer"] # "dead"
      BY <1>5 DEF TimerFires, Active
    <2>3. ~(clean /\ pc["stop"] \in Gone)
      BY <2>2 DEF DrainInv, NotStopping, Gone
    <2> QED BY <2>1, <2>3, DrainFrame
  <1>6. CASE StopFlushes
    <2>1. /\ pc["stop"] = "join" /\ unfinished = 0 /\ pc'["stop"] \in {"lrange", "lock"}
          /\ UNCHANGED <<scheduled, running, clean, net, unfinished>>
      BY <1>1, <1>2, <1>6, CallFlushDrain DEF StopFlushes
    <2> QED BY <2>1 DEF DrainInv, NotStopping, Gone
  <1>7. ASSUME NEW t \in Tasks, GetLock(t) PROVE DrainInv'
    <2>1. pc[t] = "lock" /\ pc'[t] = "lrange" /\ (\A u \in Tasks : u # t => pc'[u] = pc[u])
          /\ UNCHANGED <<scheduled, running, clean, net, backlog, buffer, unfinished>>
      BY <1>1, <1>7 DEF GetLock
    <2>2. CASE t = "stop"
      BY <2>1, <2>2 DEF DrainInv, NotStopping, Gone
    <2>3. CASE t # "stop"
      <3>1. t = "timer" => ~(clean /\ pc["stop"] \in Gone)
        BY <1>7, <2>1 DEF DrainInv, NotStopping, Gone, GetLock, Active
      <3> QED BY <1>2, <2>1, <2>3, <3>1, DrainFrame
    <2> QED BY <2>2, <2>3
  <1>8. ASSUME NEW t \in {"proc", "timer"},
               BacklogRead(t) \/ PostReturns(t) \/ RedisReturns(t) \/ RedisApplies(t)
                 \/ StoreCommits(t) \/ StoreRefuses(t) \/ PostTimesOut(t) \/ ReplyLost(t)
                 \/ RedisRaises(t)
        PROVE  DrainInv'
    <2>1. t \in Tasks /\ t # "stop"
      BY <1>2
    <2>2. pc[t] \in InFlush /\ (clean' => clean)
      BY <1>8 DEF BacklogRead, PostReturns, RedisReturns, RedisApplies, StoreCommits, StoreRefuses,
                  PostTimesOut, ReplyLost, RedisRaises, Glitch, InFlush, Redis
    <2>3. UNCHANGED <<scheduled, running>>
      BY <1>8, <2>1 DEF BacklogRead, PostReturns, RedisReturns, RedisApplies, StoreCommits,
                        StoreRefuses, PostTimesOut, ReplyLost, RedisRaises
    <2>4. pc'["stop"] = pc["stop"] /\ net'["stop"] = net["stop"]
      BY <1>1, <1>2, <1>8, <2>1
      DEF BacklogRead, PostReturns, RedisReturns, RedisApplies, StoreCommits, StoreRefuses,
          PostTimesOut, ReplyLost, RedisRaises, BufferLoop, LeaveFlush, Send
    <2>5. t = "timer" => unfinished' = unfinished
      BY <1>8
      DEF BacklogRead, PostReturns, RedisReturns, RedisApplies, StoreCommits, StoreRefuses,
          PostTimesOut, ReplyLost, RedisRaises, BufferLoop, LeaveFlush, Send
    <2> QED BY <2>2, <2>3, <2>4, <2>5, DrainOther
  <1>9. CASE BacklogRead("stop")
    <2>1. pc["stop"] \in InFlush /\ "postBacklog" \in InFlush
          /\ UNCHANGED <<scheduled, running, clean, backlog, buffer>>
      BY <1>9 DEF BacklogRead, InFlush, Redis, Posting
    <2>2. CASE Send("stop", "postBacklog", FirstBatch(backlog))
      BY <2>1, <2>2, SendDrain
    <2>3. CASE FirstBatch(backlog) = <<>> /\ BufferLoop("stop", buffer)
      <3>1. backlog \in Seq(Records)
        BY DEF TypeInv, TypeOK
      <3>2. backlog = <<>>
        BY <2>3, <3>1, FirstBatchEmpty
      <3> QED BY <2>1, <2>3, <3>2, BufferLoopDrain
    <2> QED BY <1>9, <2>2, <2>3 DEF BacklogRead, Forced
  <1>10. CASE PostReturns("stop")
    <2>1. pc["stop"] \in Posting /\ pc["stop"] \in InFlush /\ "ltrim" \in InFlush /\ "rpush" \in InFlush
          /\ pc["stop"] \notin NotStopping
          /\ UNCHANGED <<scheduled, running, clean, backlog>>
      BY <1>10 DEF PostReturns, InFlush, Redis, Posting, NotStopping
    <2>2. clean => net["stop"] # "refused" /\ (pc["stop"] = "postBuffer" => backlog = <<>>)
      BY <2>1 DEF DrainInv
    <2>3. CASE pc["stop"] = "postBacklog" /\ net["stop"] = "applied"
      BY <1>10, <2>1, <2>3, SendDrain DEF PostReturns
    <2>4. CASE net["stop"] = "refused" /\ LeaveFlush("stop")
      BY <2>1, <2>2, <2>4, LeaveFlushDrain
    <2>5. CASE net["stop"] = "refused" /\ Send("stop", "rpush", batch["stop"])
      BY <2>1, <2>2, <2>5, SendDrain
    <2>6. CASE pc["stop"] = "postBuffer" /\ BufferLoop("stop", buffer')
      BY <2>1, <2>2, <2>6, BufferLoopDrain
    <2> QED BY <1>10, <2>3, <2>4, <2>5, <2>6 DEF PostReturns
  <1>11. CASE RedisApplies("stop") \/ StoreCommits("stop")
    <2>1. pc' = pc /\ net'["stop"] = "applied" /\ pc["stop"] \in InFlush
          /\ UNCHANGED <<scheduled, running, clean, unfinished, buffer>>
          /\ (pc["stop"] = "postBuffer" => backlog' = backlog)
      BY <1>1, <1>2, <1>11 DEF RedisApplies, StoreCommits, InFlush, Redis
    <2>2. pc["stop"] \notin NotStopping \cup Gone
      BY <2>1 DEF InFlush, Posting, Redis, NotStopping, Gone
    <2> QED BY <2>1, <2>2 DEF DrainInv
  <1>12. CASE StoreRefuses("stop") \/ PostTimesOut("stop") \/ ReplyLost("stop")
    <2>1. pc' = pc /\ ~clean' /\ pc["stop"] \in InFlush
      BY <1>12 DEF StoreRefuses, PostTimesOut, ReplyLost, Glitch, InFlush
    <2>2. pc["stop"] \notin NotStopping
      BY <2>1 DEF InFlush, Posting, Redis, NotStopping
    <2> QED BY <2>1, <2>2 DEF DrainInv
  <1>13. CASE RedisReturns("stop")
    <2>1. pc["stop"] \in InFlush /\ pc["stop"] \notin NotStopping \cup {"join"}
          /\ UNCHANGED <<scheduled, running, clean, backlog>>
      BY <1>13 DEF RedisReturns, InFlush, Redis, NotStopping
    <2>2. CASE pc' = [pc EXCEPT !["stop"] = "lrange"] /\ net' = [net EXCEPT !["stop"] = "none"]
               /\ unfinished' = unfinished
      <3>1. pc'["stop"] = "lrange" /\ net'["stop"] = "none"
        BY <1>1, <1>2, <2>2
      <3> QED BY <2>1, <2>2, <3>1 DEF DrainInv, NotStopping, Gone
    <2>3. CASE pc["stop"] = "rpush" /\ LeaveFlush("stop")
      BY <2>1, <2>3, LeaveFlushDrain DEF DrainInv
    <2> QED BY <1>13, <2>2, <2>3 DEF RedisReturns
  <1>14. CASE RedisRaises("stop")
    BY <1>14, GoDownDrain DEF RedisRaises
  <1>15. CASE LateCommit \/ LateLost
    <2>1. UNCHANGED <<pc, net, scheduled, unfinished, buffer, backlog, running, clean>>
      BY <1>15 DEF LateCommit, LateLost
    <2> QED BY <2>1, DrainFrame
  <1>16. CASE BeginStop
    <2>1. pc'["stop"] = "join" /\ net'["stop"] = "none" /\ ~running'
          /\ (clean' => scheduled' = 0)
      BY <1>1, <1>2, <1>16 DEF BeginStop, DrainInv, NotStopping
    <2> QED BY <2>1 DEF DrainInv, NotStopping, Gone
  <1>17. CASE CancelTimer
    <2>1. /\ pc["stop"] = "cancelTimer" /\ pc'["stop"] = "cancelProc" /\ pc'["timer"] = "dead"
          /\ net'["stop"] = net["stop"] /\ UNCHANGED <<scheduled, running, clean, buffer, backlog, unfinished>>
      BY <1>1, <1>2, <1>17 DEF CancelTimer, CancelTask, LeaveCancelled
    <2>2. pc'["timer"] \notin InFlush
      BY <2>1, OutsidePoints
    <2> QED BY <2>1, <2>2 DEF DrainInv, NotStopping, Gone
  <1>18. CASE CancelProc
    <2>1. /\ pc["stop"] = "cancelProc" /\ pc'["stop"] = "done" /\ pc'["timer"] = pc["timer"]
          /\ net'["stop"] = net["stop"] /\ UNCHANGED <<scheduled, running, clean, buffer, backlog>>
          /\ (unfinished' = unfinished \/ pc["proc"] \in Working)
      BY <1>1, <1>2, <1>18 DEF CancelProc, CancelTask, LeaveCancelled
    <2>2. clean => unfinished' = 0
      BY <2>1, NothingUnfinished DEF DrainInv, NotStopping
    <2> QED BY <2>1, <2>2 DEF DrainInv, NotStopping, Gone
  <1>19. CASE Exit \/ Crash
    BY <1>19, GoDownDrain DEF Exit, Crash
  <1>20. CASE Restart
    <2>1. pc'["stop"] = "idle" /\ net'["stop"] = net["stop"] /\ pc["stop"] = "down"
      BY <1>2, <1>20 DEF Restart, FirstPC
    <2> QED BY <2>1 DEF DrainInv, NotStopping
  <1>21. CASE UNCHANGED vars
    BY <1>21, DrainFrame DEF vars
  <1>22. ASSUME NEW t \in Tasks, FlushStep(t) \/ StoreAnswers(t) \/ Fault(t) PROVE DrainInv'
    <2>1. CASE t = "stop"
      BY <1>7, <1>9, <1>10, <1>11, <1>12, <1>13, <1>14, <1>22, <2>1
      DEF FlushStep, StoreAnswers, Fault
    <2>2. CASE t # "stop"
      BY <1>2, <1>7, <1>8, <1>22, <2>2 DEF FlushStep, StoreAnswers, Fault
    <2> QED BY <2>1, <2>2
  <1> QED
    BY <1>3, <1>4, <1>5, <1>6, <1>15, <1>16, <1>17, <1>18, <1>19, <1>20, <1>21, <1>22
    DEF Next, StopStep

\* When stop() returns, with no callback pending as it began and nothing failed
\* since, neither the process nor the backlog holds a record, however the
\* flushes of the other tasks were interleaved with it.
THEOREM CleanStopCorrect == Spec => []CleanStopDrains
  <1>1. Init => DrainInv
    BY DEF Init, DrainInv, FirstPC, Tasks, NotStopping
  <1>2. TypeInv /\ DrainInv => CleanStopDrains
    BY NothingUnfinished DEF DrainInv, CleanStopDrains, NotStopping, Gone
  <1> QED BY <1>1, <1>2, DrainStep, TypeInvariant, LockInvariant, PTL DEF Spec

-----------------------------------------------------------------------------
(* The order of what waits.  Backlog, buffer and queue are one line that   *)
(* ends before the number of the next record; records move along it.       *)

InOrder(s) == \A j, k \in DOMAIN s : j < k => s[j] < s[k]

\* Lists of numbers and their concatenation.
Lists == Seq(Nat)
Cat(s, t) == s \o t

Line(b, u, q, n) == Cat(Cat(b, u), Cat(q, <<n + 1>>))

OrderInv == glitches = 0 => InOrder(Line(backlog, UnspilledBuffer, queue, accepted))

\* The algebra of lists: the rest of the proof sees no more of them.
LEMMA ListAlgebra ==
  /\ <<>> \in Lists
  /\ \A s, t \in Lists : Cat(s, t) \in Lists
  /\ \A s, t, u \in Lists : Cat(Cat(s, t), u) = Cat(s, Cat(t, u))
  /\ \A s \in Lists : Cat(s, <<>>) = s /\ Cat(<<>>, s) = s
  <1>1. \A s, t, u \in Seq(Nat) : (s \o t) \o u = s \o (t \o u)
    OBVIOUS
  <1>2. \A s, t \in Seq(Nat) : s \o t \in Seq(Nat)
    OBVIOUS
  <1>3. \A s \in Seq(Nat) : s \o <<>> = s /\ <<>> \o s = s
    BY ConcatEmptySeq
  <1>4. <<>> \in Seq(Nat)
    OBVIOUS
  <1> QED BY <1>1, <1>2, <1>3, <1>4, Zenon DEF Lists, Cat

\* An ordered list stays one when a part of it is left out.
LEMMA DropMiddle ==
  ASSUME NEW a \in Seq(Nat), NEW m \in Seq(Nat), NEW c \in Seq(Nat), InOrder((a \o m) \o c)
  PROVE  InOrder(a \o c)
  <1> DEFINE s == (a \o m) \o c
             t == a \o c
             f(j) == IF j <= Len(a) THEN j ELSE j + Len(m)
  <1>1. /\ a \o m \in Seq(Nat) /\ Len(a \o m) = Len(a) + Len(m)
        /\ \A i \in 1 .. Len(a) + Len(m) : (a \o m)[i] = IF i <= Len(a) THEN a[i] ELSE m[i - Len(a)]
    BY ConcatProperties
  <1>2. /\ s \in Seq(Nat) /\ Len(s) = Len(a) + Len(m) + Len(c)
        /\ \A i \in 1 .. Len(a) + Len(m) + Len(c) :
             s[i] = IF i <= Len(a) + Len(m) THEN (a \o m)[i] ELSE c[i - (Len(a) + Len(m))]
    BY <1>1, ConcatProperties
  <1>3. /\ t \in Seq(Nat) /\ Len(t) = Len(a) + Len(c)
        /\ \A i \in 1 .. Len(a) + Len(c) : t[i] = IF i <= Len(a) THEN a[i] ELSE c[i - Len(a)]
    BY ConcatProperties
  <1>4. Len(a) \in Nat /\ Len(m) \in Nat /\ Len(c) \in Nat
    OBVIOUS
  <1>5. InOrder(s)
    OBVIOUS
  <1>6. DOMAIN s = 1 .. Len(s) /\ DOMAIN t = 1 .. Len(t)
    BY <1>2, <1>3
  <1> HIDE DEF s, t
  <1>7. \A j \in DOMAIN t : f(j) \in DOMAIN s /\ t[j] = s[f(j)]
    <2> TAKE j \in DOMAIN t
    <2>0. j \in 1 .. Len(a) + Len(c)
      BY <1>3, <1>6
    <2>1. CASE j <= Len(a)
      <3>1. f(j) = j /\ j \in 1 .. Len(a) + Len(m) /\ j \in 1 .. Len(a) + Len(m) + Len(c)
        BY <1>4, <2>0, <2>1
      <3>2. t[j] = a[j]
        BY <1>3, <2>0, <2>1
      <3>3. s[j] = (a \o m)[j] /\ (a \o m)[j] = a[j]
        BY <1>1, <1>2, <1>4, <2>1, <3>1
      <3> QED BY <1>2, <1>6, <3>1, <3>2, <3>3
    <2>2. CASE j > Len(a)
      <3>1. /\ f(j) = j + Len(m) /\ f(j) \in 1 .. Len(a) + Len(m) + Len(c)
            /\ f(j) > Len(a) + Len(m) /\ f(j) - (Len(a) + Len(m)) = j - Len(a)
        BY <1>3, <1>4, <1>6, <2>2
      <3>2. t[j] = c[j - Len(a)]
        BY <1>3, <1>4, <2>0, <2>2
      <3> HIDE DEF f
      <3>3. ~(f(j) <= Len(a) + Len(m))
        BY <1>4, <3>1
      <3>4. s[f(j)] = c[f(j) - (Len(a) + Len(m))]
        BY <1>2, <3>1, <3>3
      <3> QED BY <1>2, <1>6, <3>1, <3>2, <3>4
    <2> QED BY <1>3, <1>4, <1>6, <2>1, <2>2
  <1>8. \A j, k \in DOMAIN t : j < k => f(j) < f(k)
    BY <1>3, <1>4, <1>6, SMTT(30)
  <1> HIDE DEF f
  <1>9. InOrder(t)
    BY <1>5, <1>7, <1>8 DEF InOrder
  <1> QED BY <1>9 DEF t

\* An ordered list stays one when it grows by a greater number.
LEMMA AppendGreater ==
  ASSUME NEW s \in Seq(Nat), NEW x \in Nat, NEW y \in Nat, x < y, InOrder(Append(s, x))
  PROVE  InOrder(Append(Append(s, x), y))
  <1> DEFINE t == Append(s, x)  v == Append(t, y)  n == Len(s) + 1
  <1>1. t \in Seq(Nat) /\ Len(t) = n /\ n \in Nat /\ t[n] = x
    BY AppendProperties
  <1>2. Len(v) = n + 1 /\ (\A i \in 1 .. n : v[i] = t[i]) /\ v[n + 1] = y
    BY <1>1, AppendProperties
  <1>3. DOMAIN t = 1 .. n /\ DOMAIN v = 1 .. n + 1
    <2>1. v \in Seq(Nat)
      BY <1>1, AppendProperties
    <2> QED BY <1>1, <1>2, <2>1
  <1>4. InOrder(t) /\ n \in DOMAIN t
    BY <1>1, <1>3
  <1>5. \A i \in 1 .. n : t[i] \in Nat /\ t[i] <= x
    <2> TAKE i \in 1 .. n
    <2>1. t[i] \in Nat
      BY <1>1, <1>3, ElementOfSeq
    <2>2. i < n => t[i] < t[n]
      BY <1>3, <1>4 DEF InOrder
    <2> QED BY <1>1, <2>1, <2>2
  <1> HIDE DEF t, v, n
  <1>6. \A j, k \in 1 .. n + 1 : j < k => v[j] < v[k]
    <2> TAKE j, k \in 1 .. n + 1
    <2> HAVE j < k
    <2>1. CASE k <= n
      <3>1. j \in 1 .. n /\ k \in 1 .. n
        BY <1>1, <2>1
      <3>2. t[j] < t[k]
        BY <1>3, <1>4, <3>1 DEF InOrder
      <3> QED BY <1>2, <3>1, <3>2
    <2>2. CASE k = n + 1
      <3>1. j \in 1 .. n /\ v[j] = t[j] /\ v[k] = y
        BY <1>1, <1>2, <2>2
      <3> QED BY <1>5, <3>1
    <2> QED BY <1>1, <2>1, <2>2
  <1> QED BY <1>3, <1>6 DEF InOrder, t, v

\* Adding at the end, and taking from the front.
LEMMA ListSteps ==
  ASSUME NEW s \in Lists
  PROVE  /\ \A x \in Nat : <<x>> \in Lists /\ Append(s, x) = Cat(s, <<x>>)
         /\ s # <<>> => /\ Head(s) \in Nat /\ Tail(s) \in Lists
                       /\ s = Cat(<<Head(s)>>, Tail(s))
  <1>1. \A x \in Nat : <<x>> \in Seq(Nat) /\ Append(s, x) = s \o <<x>>
    BY AppendIsConcat DEF Lists
  <1>2. s # <<>> => Head(s) \in Nat /\ Tail(s) \in Seq(Nat) /\ s = <<Head(s)>> \o Tail(s)
    BY HeadTailProperties DEF Lists
  <1> QED BY <1>1, <1>2, Zenon DEF Lists, Cat

\* The same about lists whose elements do not matter.
LEMMA DropPart == \A x, m, z \in Lists : InOrder(Cat(Cat(x, m), z)) => InOrder(Cat(x, z))
  BY DropMiddle, Zenon DEF Lists, Cat

\* A record joins the line at its end.
LEMMA LineGrows ==
  ASSUME NEW b \in Lists, NEW u \in Lists, NEW q \in Lists, NEW n \in Nat,
         InOrder(Line(b, u, q, n))
  PROVE  InOrder(Line(b, u, Append(q, n + 1), n + 1))
  <1> DEFINE s == Cat(Cat(b, u), q)  x == n + 1  y == (n + 1) + 1
  <1>1. x \in Nat /\ y \in Nat /\ x < y
    OBVIOUS
  <1>2. s \in Lists /\ <<x>> \in Lists /\ <<y>> \in Lists /\ Append(q, x) = Cat(q, <<x>>)
    BY <1>1, ListAlgebra, ListSteps
  <1>3. /\ Line(b, u, q, n) = Cat(Cat(b, u), Cat(q, <<x>>))
        /\ Line(b, u, Append(q, x), x) = Cat(Cat(b, u), Cat(Append(q, x), <<y>>))
    BY Zenon DEF Line
  <1> DEFINE e == <<x>>  g == <<y>>  v == Append(q, x)
  <1> HIDE DEF e, g, v, x, y
  <1>4. Cat(Cat(b, u), Cat(q, e)) = Cat(s, e) /\ Cat(s, e) \in Lists
        /\ Cat(Cat(b, u), Cat(Cat(q, e), g)) = Cat(Cat(s, e), g)
    BY <1>2, ListAlgebra DEF e, g
  <1> HIDE DEF s
  <1>5. Append(s, x) = Cat(s, e) /\ Append(Cat(s, e), y) = Cat(Cat(s, e), g)
    BY <1>1, <1>2, <1>4, ListSteps DEF e, g
  <1>6. /\ Line(b, u, q, n) = Append(s, x)
        /\ Line(b, u, Append(q, x), x) = Append(Append(s, x), y)
    BY <1>2, <1>3, <1>4, <1>5, Zenon DEF e, g
  <1>7. InOrder(Append(Append(s, x), y))
    BY <1>1, <1>2, <1>6, AppendGreater DEF Lists
  <1> QED BY <1>6, <1>7, Zenon DEF x

\* A record moves from the queue to the buffer.
LEMMA LineMoves ==
  ASSUME NEW b \in Lists, NEW u \in Lists, NEW q \in Lists, NEW n \in Nat, q # <<>>
  PROVE  Line(b, Append(u, Head(q)), Tail(q), n) = Line(b, u, q, n)
  <1> DEFINE h == <<Head(q)>>  r == Tail(q)  e == <<n + 1>>
  <1>1. h \in Lists /\ r \in Lists /\ e \in Lists /\ q = Cat(h, r)
        /\ Append(u, Head(q)) = Cat(u, h)
    <2>1. Head(q) \in Nat /\ r \in Lists /\ q = Cat(h, r)
      BY ListSteps
    <2>2. Append(u, Head(q)) = Cat(u, h) /\ h \in Lists
      BY <2>1, ListSteps, Zenon
    <2>3. n + 1 \in Nat
      OBVIOUS
    <2>4. e \in Lists
      BY <2>3, ListSteps, Zenon
    <2> QED BY <2>1, <2>2, <2>4
  <1> HIDE DEF h, r, e
  <1>2. Cat(Cat(b, Cat(u, h)), Cat(r, e)) = Cat(Cat(b, u), Cat(Cat(h, r), e))
    BY <1>1, ListAlgebra
  <1> QED BY <1>1, <1>2, Zenon DEF Line, r, e

\* A batch leaves the line from the front of the buffer or of the backlog, or
\* moves from the one to the other; at the end only the backlog is left.
LEMMA LineShrinks ==
  ASSUME NEW b \in Lists, NEW c \in Lists, NEW w \in Lists, NEW q \in Lists, NEW n \in Nat
  PROVE  /\ InOrder(Line(b, Cat(c, w), q, n)) => InOrder(Line(b, w, q, n))
         /\ InOrder(Line(Cat(c, w), b, q, n)) => InOrder(Line(w, b, q, n))
         /\ Line(Cat(b, c), w, q, n) = Line(b, Cat(c, w), q, n)
         /\ InOrder(Line(b, w, q, n)) => InOrder(Line(b, <<>>, <<>>, n))
  <1> DEFINE e == <<n + 1>>
  <1>1. e \in Lists
    <2>1. n + 1 \in Nat
      OBVIOUS
    <2> QED BY <2>1, ListSteps
  <1>2. \A x, m, z \in Lists : InOrder(Cat(Cat(x, m), z)) => InOrder(Cat(x, z))
    BY DropPart
  <1>3. \A x, y, z \in Lists : Line(x, y, z, n) = Cat(Cat(x, y), Cat(z, e))
    BY Zenon DEF Line
  <1> HIDE DEF e
  <1> DEFINE r == Cat(q, e)
  <1>4. r \in Lists /\ Cat(w, r) \in Lists /\ Cat(w, Cat(b, r)) \in Lists /\ Cat(w, q) \in Lists
        /\ Cat(c, w) \in Lists /\ Cat(b, c) \in Lists /\ <<>> \in Lists
    BY <1>1, ListAlgebra
  <1>5. /\ Line(b, Cat(c, w), q, n) = Cat(Cat(b, c), Cat(w, r))
        /\ Line(Cat(b, c), w, q, n) = Cat(Cat(b, c), Cat(w, r))
        /\ Line(b, w, q, n) = Cat(b, Cat(w, r))
    BY <1>1, <1>3, <1>4, ListAlgebra
  <1>6. /\ Line(Cat(c, w), b, q, n) = Cat(Cat(<<>>, c), Cat(w, Cat(b, r)))
        /\ Line(w, b, q, n) = Cat(<<>>, Cat(w, Cat(b, r)))
    BY <1>1, <1>3, <1>4, ListAlgebra
  <1>7. /\ Line(b, w, q, n) = Cat(Cat(b, Cat(w, q)), e)
        /\ Line(b, <<>>, <<>>, n) = Cat(b, e)
    BY <1>1, <1>3, <1>4, ListAlgebra
  <1> HIDE DEF r
  <1>8. InOrder(Line(b, Cat(c, w), q, n)) => InOrder(Line(b, w, q, n))
    BY <1>2, <1>4, <1>5
  <1>9. InOrder(Line(Cat(c, w), b, q, n)) => InOrder(Line(w, b, q, n))
    BY <1>2, <1>4, <1>6
  <1>10. InOrder(Line(b, w, q, n)) => InOrder(Line(b, <<>>, <<>>, n))
    BY <1>1, <1>2, <1>4, <1>7
  <1>11. Line(Cat(b, c), w, q, n) = Line(b, Cat(c, w), q, n)
    BY <1>5
  <1> QED BY <1>8, <1>9, <1>10, <1>11

\* Lists of records are lists of numbers.
LEMMA RecordLists == \A s \in Seq(Records) : s \in Lists
  BY HubAssumption DEF Lists, Records

\* A list is the batch in front of it and the rest.
LEMMA PrefixSplit ==
  ASSUME NEW b \in Seq(Records), NEW s \in Seq(Records), IsPrefix(b, s)
  PROVE  s = Cat(b, Without(s, b))
  <1>1. Len(b) \in Nat /\ Len(s) \in Nat /\ Len(b) <= Len(s)
    BY DEF IsPrefix
  <1>2. b = SubSeq(s, 1, Len(b))
    BY SubSeqFull DEF IsPrefix
  <1>3. s = SubSeq(s, 1, Len(s))
    BY SubSeqFull
  <1>4. 1 \in 1 .. Len(s) + 1 /\ Len(b) \in (1 - 1) .. Len(s) /\ Len(s) \in Len(b) .. Len(s)
    BY <1>1
  <1>5. SubSeq(s, 1, Len(b)) \o SubSeq(s, Len(b) + 1, Len(s)) = SubSeq(s, 1, Len(s))
    BY <1>4, ConcatAdjacentSubSeq
  <1> QED BY <1>2, <1>3, <1>5 DEF Without, Cat

\* A record appended behind a batch is appended to the rest.
LEMMA WithoutAppend ==
  ASSUME NEW b \in Seq(Records), NEW s \in Seq(Records), NEW x \in Records, IsPrefix(b, s)
  PROVE  Without(Append(s, x), b) = Append(Without(s, b), x)
  <1> DEFINE v == Append(s, x)  m == Len(b) + 1  n == Len(s) + 1
  <1>1. Len(b) \in Nat /\ Len(s) \in Nat /\ Len(b) <= Len(s)
    BY DEF IsPrefix
  <1>2. v \in Seq(Records) /\ Len(v) = n /\ v[n] = x /\ v = s \o <<x>>
    BY AppendProperties, AppendIsConcat
  <1>3. m \in 1 .. Len(v) /\ n \in m .. Len(v) /\ n - 1 = Len(s)
    BY <1>1, <1>2
  <1> HIDE DEF v
  <1>4. SubSeq(v, m, n) = SubSeq(v, m, n - 1) \o <<v[n]>>
    BY <1>2, <1>3, SubSeqRecursiveSecond
  <1>5. SubSeq(v, m, Len(s)) = SubSeq(s, m, Len(s))
    <2>1. CASE m <= Len(s)
      <3>1. m \in 1 .. Len(s) /\ Len(s) \in 1 .. Len(s) /\ <<x>> \in Seq(Records)
        BY <1>1, <2>1
      <3> QED BY <1>2, <3>1, SubSeqOfConcat1
    <2>2. CASE m > Len(s)
      BY <1>1, <2>2, SubSeqEmpty
    <2> QED BY <1>1, <2>1, <2>2
  <1>6. Without(v, b) = SubSeq(s, m, Len(s)) \o <<x>>
    BY <1>2, <1>3, <1>4, <1>5 DEF Without
  <1>7. Append(Without(s, b), x) = Without(s, b) \o <<x>>
    BY WithoutType, AppendIsConcat
  <1> QED BY <1>6, <1>7 DEF v, Without

\* Task t waits for an rpush that Redis has executed.
Spills(t) == pc[t] = "rpush" /\ net[t] = "applied"

\* The one flush that may be spilling tells what is left of the buffer.
LEMMA UnspilledIs ==
  ASSUME LockInv
  PROVE  /\ \A t \in Tasks : Spills(t) => UnspilledBuffer = Without(buffer, batch[t])
         /\ (\A t \in Tasks : ~Spills(t)) => UnspilledBuffer = buffer
  <1>1. ASSUME NEW t \in Tasks, Spills(t) PROVE UnspilledBuffer = Without(buffer, batch[t])
    <2>1. \A u \in Tasks : pc[u] = "rpush" => u = t
      BY <1>1 DEF LockInv, Spills, InFlush, Redis
    <2>2. (CHOOSE u \in Tasks : pc[u] = "rpush") = t
      BY <1>1, <2>1 DEF Spills
    <2> QED BY <1>1, <2>2 DEF UnspilledBuffer, Spills
  <1> QED BY <1>1 DEF UnspilledBuffer, Spills

LEMMA UnspilledIsNext ==
  ASSUME LockInv'
  PROVE  /\ \A t \in Tasks : Spills(t)' => UnspilledBuffer' = Without(buffer', batch'[t])
         /\ (\A t \in Tasks : ~Spills(t)') => UnspilledBuffer' = buffer'
  <1>1. ASSUME NEW t \in Tasks, Spills(t)' PROVE UnspilledBuffer' = Without(buffer', batch'[t])
    <2>1. \A u \in Tasks : pc'[u] = "rpush" => u = t
      BY <1>1 DEF LockInv, Spills, InFlush, Redis
    <2>2. (CHOOSE u \in Tasks : pc'[u] = "rpush") = t
      BY <1>1, <2>1 DEF Spills
    <2> QED BY <1>1, <2>2 DEF UnspilledBuffer, Spills
  <1> QED BY <1>1 DEF UnspilledBuffer, Spills

\* A step that changes neither the buffer nor who is spilling what.
LEMMA UnspilledFrame ==
  ASSUME LockInv, LockInv', buffer' = buffer,
         \A t \in Tasks : (Spills(t)' <=> Spills(t)) /\ (Spills(t) => batch'[t] = batch[t])
  PROVE  UnspilledBuffer' = UnspilledBuffer
  <1>1. CASE \E t \in Tasks : Spills(t)
    <2>1. PICK t \in Tasks : Spills(t)
      BY <1>1
    <2>2. Spills(t)' /\ batch'[t] = batch[t]
      BY <2>1
    <2> QED BY <2>1, <2>2, UnspilledIs, UnspilledIsNext
  <1>2. CASE \A t \in Tasks : ~Spills(t)
    BY <1>2, UnspilledIs, UnspilledIsNext
  <1> QED BY <1>1, <1>2

\* A step that leaves the line alone, or a fault, after which nothing is claimed.
LEMMA OrderFrame ==
  ASSUME TypeOK, OrderInv, glitches' \in Nat, glitches' >= glitches,
         glitches' = 0 => UNCHANGED <<backlog, queue, accepted, UnspilledBuffer>>
  PROVE  OrderInv'
  <1>1. glitches' = 0 => glitches = 0
    BY DEF TypeOK
  <1> QED BY <1>1 DEF OrderInv

\* The task that is inside flush() and does not spill is the only one that could.
LEMMA InsideAlone ==
  ASSUME LockInv, NEW t \in Tasks, pc[t] \in InFlush
  PROVE  \A u \in Tasks \ {t} : pc[u] \notin InFlush /\ ~Spills(u)
  BY DEF LockInv, Spills, InFlush, Redis

\* A task that calls flush() spills nothing yet.
LEMMA CallFlushStays ==
  ASSUME TypeOK, NEW t \in Tasks, CallFlush(t)
  PROVE  pc'[t] \in {"lrange", "lock"} /\ \A u \in Tasks \ {t} : pc'[u] = pc[u]
  BY DEF TypeOK, CallFlush

\* A record is appended to the queue under the next number.
LEMMA EnqueueOrder ==
  ASSUME TypeOK, LockInv, LockInv', OrderInv, Enqueue
  PROVE  OrderInv'
  <1>1. UNCHANGED <<backlog, buffer, pc, batch, net, glitches>>
    BY DEF Enqueue, netVars, lockVars, faultVars
  <1>2. UnspilledBuffer' = UnspilledBuffer
    BY <1>1, UnspilledFrame DEF Spills
  <1>3. backlog \in Lists /\ queue \in Lists /\ UnspilledBuffer \in Lists /\ accepted \in Nat
    <2>1. UnspilledBuffer \in Seq(Records)
      BY WithoutType DEF UnspilledBuffer, TypeOK
    <2> QED BY <2>1, RecordLists DEF TypeOK
  <1>4. queue' = Append(queue, accepted + 1) /\ accepted' = accepted + 1
    BY DEF Enqueue
  <1> QED BY <1>1, <1>2, <1>3, <1>4, LineGrows DEF OrderInv

\* A record moves from the queue to the end of the buffer, whoever spills the
\* front of it at the same time.
LEMMA ProcessOrder ==
  ASSUME TypeOK, LockInv, LockInv', BatchInv, OrderInv, Process
  PROVE  OrderInv'
  <1> USE DEF lockVars, netVars, memVars, ghostVars, faultVars
  <1>1. queue \in Seq(Records) /\ queue # <<>> /\ Head(queue) \in Records /\ backlog \in Seq(Records)
        /\ buffer \in Seq(Records) /\ accepted \in Nat /\ (\A t \in Tasks : batch[t] \in Seq(Records))
    BY HeadTailProperties DEF Process, TypeOK
  <1>2. queue' = Tail(queue) /\ buffer' = Append(buffer, Head(queue))
        /\ UNCHANGED <<backlog, accepted, glitches, batch, net>>
    BY DEF Process
  <1>3. \A u \in Tasks : Spills(u)' <=> Spills(u)
    <2>1. pc["proc"] = "get" /\ "proc" \in Tasks
      BY DEF Process, Tasks
    <2>2. CASE CallFlush("proc")
      BY <1>2, <2>1, <2>2, CallFlushStays DEF Spills
    <2>3. CASE pc' = pc
      BY <1>2, <2>3 DEF Spills
    <2> QED BY <2>2, <2>3 DEF Process
  <1>4. UnspilledBuffer' = Append(UnspilledBuffer, Head(queue)) /\ UnspilledBuffer \in Seq(Records)
    <2>1. CASE \E t \in Tasks : Spills(t)
      <3>1. PICK t \in Tasks : Spills(t)
        BY <2>1
      <3>2. Spills(t)' /\ batch'[t] = batch[t]
        BY <1>2, <1>3, <3>1
      <3>3. IsPrefix(batch[t], buffer)
        BY <3>1 DEF BatchInv, DeletesWhatItSent, Spills
      <3>4. UnspilledBuffer = Without(buffer, batch[t])
            /\ UnspilledBuffer' = Without(Append(buffer, Head(queue)), batch[t])
        BY <1>2, <3>1, <3>2, UnspilledIs, UnspilledIsNext
      <3> QED BY <1>1, <3>3, <3>4, WithoutAppend, WithoutType
    <2>2. CASE \A t \in Tasks : ~Spills(t)
      BY <1>1, <1>2, <1>3, <2>2, UnspilledIs, UnspilledIsNext
    <2> QED BY <2>1, <2>2
  <1>5. backlog \in Lists /\ queue \in Lists /\ UnspilledBuffer \in Lists
    BY <1>1, <1>4, RecordLists
  <1>6. Line(backlog, Append(UnspilledBuffer, Head(queue)), Tail(queue), accepted)
          = Line(backlog, UnspilledBuffer, queue, accepted)
    BY <1>1, <1>5, LineMoves
  <1> QED BY <1>2, <1>4, <1>6 DEF OrderInv

\* An answer of the Store: what it has taken leaves the buffer.
LEMMA PostOrder ==
  ASSUME TypeOK, LockInv, LockInv', BatchInv, OrderInv, NEW t \in Tasks, PostReturns(t)
  PROVE  OrderInv'
  <1> USE DEF lockVars, netVars, memVars, ghostVars, faultVars
  <1>1. pc[t] \in Posting /\ pc[t] \in InFlush /\ UNCHANGED <<backlog, queue, accepted, glitches>>
    BY DEF PostReturns, InFlush
  <1>2. \A u \in Tasks : ~Spills(u)
    BY <1>1, InsideAlone DEF Spills, Posting
  <1>3. \A u \in Tasks : ~Spills(u)'
    <2>1. (\E p, b : Send(t, p, b)) \/ LeaveFlush(t)
      BY DEF PostReturns, BufferLoop
    <2>2. \A u \in Tasks \ {t} : pc'[u] = pc[u] /\ net'[u] = net[u]
      BY <2>1 DEF Send, LeaveFlush, TypeOK
    <2>3. net'[t] # "applied"
      BY <2>1 DEF Send, LeaveFlush, TypeOK
    <2> QED BY <1>2, <2>2, <2>3 DEF Spills
  <1>4. UnspilledBuffer = buffer /\ UnspilledBuffer' = buffer'
    BY <1>2, <1>3, UnspilledIs, UnspilledIsNext
  <1>5. CASE buffer' = buffer
    BY <1>1, <1>4, <1>5 DEF OrderInv
  <1>6. CASE pc[t] = "postBuffer" /\ buffer' = Without(buffer, batch[t])
    <2>1. batch[t] \in Seq(Records) /\ buffer \in Seq(Records) /\ backlog \in Seq(Records)
          /\ queue \in Seq(Records) /\ accepted \in Nat
      BY DEF TypeOK
    <2>2. buffer = Cat(batch[t], buffer') /\ buffer' \in Seq(Records)
      BY <1>6, <2>1, PrefixSplit, WithoutType DEF BatchInv, DeletesWhatItSent
    <2>3. batch[t] \in Lists /\ buffer' \in Lists /\ backlog \in Lists /\ queue \in Lists
      BY <2>1, <2>2, RecordLists
    <2>4. InOrder(Line(backlog, buffer, queue, accepted)) => InOrder(Line(backlog, buffer', queue, accepted))
      BY <2>1, <2>2, <2>3, LineShrinks
    <2> QED BY <1>1, <1>4, <2>4 DEF OrderInv
  <1> QED BY <1>5, <1>6 DEF PostReturns

\* Redis executes a command: the batch of an ltrim leaves the backlog, that of
\* an rpush goes to its end, from the front of the buffer.
LEMMA RedisOrder ==
  ASSUME TypeOK, LockInv, LockInv', BatchInv, OrderInv, NEW t \in Tasks, RedisApplies(t)
  PROVE  OrderInv'
  <1> USE DEF lockVars, netVars, memVars, ghostVars, faultVars
  <1>1. pc[t] \in {"ltrim", "rpush"} /\ net[t] = "sent" /\ net' = [net EXCEPT ![t] = "applied"]
        /\ UNCHANGED <<buffer, queue, accepted, glitches, pc, batch>>
    BY DEF RedisApplies
  <1>2. pc[t] \in InFlush /\ net'[t] = "applied"
    BY <1>1 DEF InFlush, Redis, TypeOK
  <1>3. \A u \in Tasks : ~Spills(u)
    BY <1>1, <1>2, InsideAlone DEF Spills
  <1>4. UnspilledBuffer = buffer
    BY <1>3, UnspilledIs
  <1>5. batch[t] \in Seq(Records) /\ buffer \in Seq(Records) /\ backlog \in Seq(Records)
        /\ queue \in Seq(Records) /\ accepted \in Nat
    BY DEF TypeOK
  <1>6. batch[t] \in Lists /\ buffer \in Lists /\ backlog \in Lists /\ queue \in Lists
    BY <1>5, RecordLists
  <1>7. CASE pc[t] = "ltrim"
    <2>1. backlog' = Without(backlog, batch[t])
      BY <1>7 DEF RedisApplies
    <2>2. \A u \in Tasks : ~Spills(u)'
      BY <1>1, <1>2, <1>7, InsideAlone DEF Spills, InFlush, Redis
    <2>3. UnspilledBuffer' = buffer
      BY <1>1, <2>2, UnspilledIsNext
    <2>4. backlog = Cat(batch[t], backlog') /\ backlog' \in Lists
      BY <1>1, <1>5, <1>7, <2>1, PrefixSplit, WithoutType, RecordLists DEF BatchInv, DeletesWhatItSent
    <2>5. InOrder(Line(backlog, buffer, queue, accepted)) => InOrder(Line(backlog', buffer, queue, accepted))
      BY <1>5, <1>6, <2>4, LineShrinks
    <2> QED BY <1>1, <1>4, <2>3, <2>5 DEF OrderInv
  <1>8. CASE pc[t] = "rpush"
    <2>1. backlog' = Cat(backlog, batch[t])
      BY <1>8 DEF RedisApplies, Cat
    <2>2. UnspilledBuffer' = Without(buffer, batch[t])
      BY <1>1, <1>2, <1>8, UnspilledIsNext DEF Spills
    <2>3. buffer = Cat(batch[t], Without(buffer, batch[t])) /\ Without(buffer, batch[t]) \in Lists
      BY <1>1, <1>5, <1>8, PrefixSplit, WithoutType, RecordLists DEF BatchInv, DeletesWhatItSent
    <2>4. Line(backlog', UnspilledBuffer', queue, accepted) = Line(backlog, buffer, queue, accepted)
      BY <1>5, <1>6, <2>1, <2>2, <2>3, LineShrinks
    <2> QED BY <1>1, <1>4, <2>4 DEF OrderInv
  <1> QED BY <1>1, <1>7, <1>8

\* A command returns: a spilled batch is deleted from the buffer, where it did
\* not count any more.
LEMMA ReturnOrder ==
  ASSUME TypeOK, LockInv, LockInv', OrderInv, NEW t \in Tasks, RedisReturns(t)
  PROVE  OrderInv'
  <1> USE DEF lockVars, netVars, memVars, ghostVars, faultVars
  <1>1. pc[t] \in {"ltrim", "rpush"} /\ pc[t] \in InFlush /\ net[t] = "applied"
        /\ UNCHANGED <<backlog, queue, accepted, glitches>>
    BY DEF RedisReturns, InFlush, Redis
  <1>2. \A u \in Tasks \ {t} : ~Spills(u)
    BY <1>1, InsideAlone
  <1>3. \A u \in Tasks : ~Spills(u)'
    <2>1. CASE LeaveFlush(t)
      BY <1>2, <2>1 DEF LeaveFlush, Spills, TypeOK
    <2>2. CASE net' = [net EXCEPT ![t] = "none"] /\ pc' = [pc EXCEPT ![t] = "lrange"]
      BY <1>2, <2>2 DEF Spills, TypeOK
    <2> QED BY <2>1, <2>2 DEF RedisReturns
  <1>4. UnspilledBuffer' = buffer'
    BY <1>3, UnspilledIsNext
  <1>5. CASE pc[t] = "ltrim"
    <2>1. buffer' = buffer
      BY <1>5 DEF RedisReturns
    <2>2. UnspilledBuffer = buffer
      BY <1>2, <1>5, UnspilledIs DEF Spills
    <2> QED BY <1>1, <1>4, <2>1, <2>2 DEF OrderInv
  <1>6. CASE pc[t] = "rpush"
    <2>1. buffer' = Without(buffer, batch[t])
      BY <1>6 DEF RedisReturns
    <2>2. UnspilledBuffer = Without(buffer, batch[t])
      BY <1>1, <1>6, UnspilledIs DEF Spills
    <2> QED BY <1>1, <1>4, <2>1, <2>2 DEF OrderInv
  <1> QED BY <1>1, <1>5, <1>6

\* The process ends: what is left of the line is the backlog.
LEMMA ExitOrder ==
  ASSUME TypeOK, LockInv, LockInv', OrderInv, GoDown, glitches' = glitches
  PROVE  OrderInv'
  <1>1. \A u \in Tasks : ~Spills(u)'
    BY DEF GoDown, Spills
  <1>2. UnspilledBuffer' = <<>> /\ queue' = <<>> /\ UNCHANGED <<backlog, accepted>>
    BY <1>1, UnspilledIsNext DEF GoDown
  <1>3. backlog \in Lists /\ queue \in Lists /\ UnspilledBuffer \in Lists /\ accepted \in Nat
    <2>1. UnspilledBuffer \in Seq(Records)
      BY WithoutType DEF UnspilledBuffer, TypeOK
    <2> QED BY <2>1, RecordLists DEF TypeOK
  <1>4. InOrder(Line(backlog, UnspilledBuffer, queue, accepted))
          => InOrder(Line(backlog, <<>>, <<>>, accepted))
    BY <1>3, LineShrinks
  <1> QED BY <1>2, <1>4 DEF OrderInv

\* Every step keeps the line in order, or is a fault.
LEMMA OrderStep ==
  TypeOK /\ TypeOK' /\ LockInv /\ LockInv' /\ BatchInv /\ OrderInv /\ [Next]_vars => OrderInv'
  <1> SUFFICES ASSUME TypeOK, TypeOK', LockInv, LockInv', BatchInv, OrderInv, [Next]_vars
               PROVE  OrderInv'
    OBVIOUS
  <1> USE DEF lockVars, netVars, memVars, ghostVars, faultVars
  <1>1. glitches \in Nat /\ glitches' \in Nat /\ pc \in [Tasks -> PC]
        /\ net \in [Tasks -> {"none", "sent", "applied", "refused"}]
    BY DEF TypeOK
  <1>2. ASSUME UNCHANGED <<backlog, queue, accepted, buffer, glitches>>,
               \A t \in Tasks : (Spills(t)' <=> Spills(t)) /\ (Spills(t) => batch'[t] = batch[t])
        PROVE  OrderInv'
    BY <1>1, <1>2, UnspilledFrame, OrderFrame
  <1>3. CASE Glitch
    BY <1>1, <1>3, OrderFrame DEF Glitch
  <1>4. CASE OnMessage \/ LateCommit \/ LateLost
    BY <1>2, <1>4 DEF OnMessage, LateCommit, LateLost, Spills
  <1>5. CASE PutCallback \/ Ingest
    BY <1>5, EnqueueOrder DEF PutCallback, Ingest
  <1>6. CASE Process
    BY <1>6, ProcessOrder
  <1>7. CASE TimerFires \/ StopFlushes
    <2>1. PICK t \in {"timer", "stop"} : CallFlush(t) /\ pc[t] # "rpush"
      BY <1>7 DEF TimerFires, StopFlushes
    <2>2. UNCHANGED <<batch, net, backlog, queue, accepted, buffer, glitches>> /\ t \in Tasks
      BY <1>7 DEF TimerFires, StopFlushes, Tasks
    <2>3. \A u \in Tasks : Spills(u)' <=> Spills(u)
      BY <2>1, <2>2, CallFlushStays DEF Spills
    <2> QED BY <1>2, <2>2, <2>3
  <1>8. ASSUME NEW t \in Tasks, GetLock(t) PROVE OrderInv'
    BY <1>1, <1>2, <1>8 DEF GetLock, Spills
  <1>9. ASSUME NEW t \in Tasks, BacklogRead(t) PROVE OrderInv'
    <2>1. (\E p, b : Send(t, p, b)) \/ LeaveFlush(t)
      BY <1>9 DEF BacklogRead, BufferLoop
    <2>2. pc[t] = "lrange" /\ UNCHANGED <<backlog, queue, accepted, buffer, glitches>>
      BY <1>9 DEF BacklogRead
    <2>3. \A u \in Tasks \ {t} : pc'[u] = pc[u] /\ net'[u] = net[u] /\ batch'[u] = batch[u]
      BY <2>1 DEF Send, LeaveFlush, TypeOK
    <2>4. net'[t] # "applied"
      BY <2>1 DEF Send, LeaveFlush, TypeOK
    <2> QED BY <1>2, <2>2, <2>3, <2>4 DEF Spills
  <1>10. ASSUME NEW t \in Tasks, StoreAnswers(t) PROVE OrderInv'
    <2>1. UNCHANGED <<backlog, queue, accepted, buffer, glitches, pc, batch>> /\ pc[t] # "rpush"
          /\ \A u \in Tasks \ {t} : net'[u] = net[u]
      BY <1>1, <1>10 DEF StoreAnswers, StoreCommits, StoreRefuses, Posting
    <2> QED BY <1>2, <2>1 DEF Spills
  <1>11. ASSUME NEW t \in Tasks, Fault(t) PROVE OrderInv'
    BY <1>3, <1>11 DEF Fault, PostTimesOut, ReplyLost, RedisRaises
  <1>12. CASE BeginStop
    BY <1>1, <1>2, <1>12 DEF BeginStop, Spills
  <1>13. ASSUME NEW t \in {"timer", "proc"}, NEW next \in {"cancelProc", "done"}, CancelTask(t, next),
               pc["stop"] \in {"cancelTimer", "cancelProc"}
         PROVE  OrderInv'
    <2>1. t \in Tasks /\ t # "stop" /\ "stop" \in Tasks
      BY DEF Tasks
    <2>2. UNCHANGED <<backlog, queue, accepted, buffer>>
          /\ (\A u \in Tasks \ {t} : net'[u] = net[u] /\ batch'[u] = batch[u])
          /\ (\A u \in Tasks \ {t, "stop"} : pc'[u] = pc[u])
          /\ pc'[t] = "dead" /\ pc'["stop"] = next
      BY <1>13, <2>1 DEF CancelTask, TypeOK
    <2>3. CASE Spills(t)
      <3>1. pc[t] \in Working /\ net[t] # "none"
        BY <2>3 DEF Spills, Working, InFlush, Redis
      <3>2. glitches' = glitches + 1
        BY <1>13, <3>1 DEF CancelTask, LeaveCancelled
      <3> QED BY <1>1, <3>2, OrderFrame
    <2>4. CASE ~Spills(t)
      <3>1. glitches' >= glitches
        BY <1>1, <1>13 DEF CancelTask, LeaveCancelled
      <3>2. UnspilledBuffer' = UnspilledBuffer
        BY <1>13, <2>1, <2>2, <2>4, UnspilledFrame DEF Spills
      <3> QED BY <1>1, <2>2, <3>1, <3>2, OrderFrame
    <2> QED BY <2>3, <2>4
  <1>14. CASE Exit
    BY <1>14, ExitOrder DEF Exit
  <1>15. CASE Crash
    BY <1>3, <1>15 DEF Crash
  <1>16. CASE Restart
    <2>1. \A t \in Tasks : ~Spills(t) /\ ~Spills(t)'
      BY <1>16, OutsidePoints DEF Restart, Spills, InFlush, Redis
    <2> QED BY <1>2, <1>16, <2>1 DEF Restart
  <1>17. CASE UNCHANGED vars
    BY <1>2, <1>17 DEF vars, Spills
  <1> QED
    BY <1>4, <1>5, <1>6, <1>7, <1>8, <1>9, <1>10, <1>11, <1>12, <1>13, <1>14, <1>15, <1>16, <1>17,
       PostOrder, RedisOrder, ReturnOrder
    DEF Next, FlushStep, StopStep, CancelTimer, CancelProc

\* Without a fault, backlog, buffer and queue together hold the records in the
\* order they arrived in, each once: no spill lets a later record overtake.
THEOREM OrderCorrect == Spec => []PendingInOrder
  <1>1. Init => OrderInv
    <2> SUFFICES ASSUME Init PROVE OrderInv
      OBVIOUS
    <2>1. UnspilledBuffer = <<>> /\ queue = <<>> /\ backlog = <<>>
      BY DEF Init, UnspilledBuffer, FirstPC, Tasks
    <2>2. Line(backlog, UnspilledBuffer, queue, accepted) = <<accepted + 1>>
      BY <2>1, ConcatEmptySeq DEF Line, Cat
    <2> QED BY <2>2 DEF OrderInv, InOrder
  <1>2. TypeOK /\ OrderInv => PendingInOrder
    <2> SUFFICES ASSUME TypeOK, OrderInv, glitches = 0
                 PROVE  InOrder(backlog \o UnspilledBuffer \o queue)
      BY DEF PendingInOrder, InOrder
    <2>1. backlog \in Lists /\ queue \in Lists /\ UnspilledBuffer \in Lists /\ accepted + 1 \in Nat
      <3>1. UnspilledBuffer \in Seq(Records)
        BY WithoutType DEF UnspilledBuffer, TypeOK
      <3> QED BY <3>1, RecordLists DEF TypeOK
    <2> DEFINE e == <<accepted + 1>>  s == Cat(Cat(backlog, UnspilledBuffer), queue)
    <2>2. e \in Lists
      BY <2>1, ListSteps
    <2> HIDE DEF e
    <2>3. Line(backlog, UnspilledBuffer, queue, accepted) = Cat(Cat(s, e), <<>>) /\ s \in Lists
      BY <2>1, <2>2, ListAlgebra DEF Line, e
    <2> HIDE DEF s
    <2>4. InOrder(Cat(s, <<>>))
      BY <2>2, <2>3, DropPart, ListAlgebra DEF OrderInv
    <2>5. InOrder(s)
      BY <2>3, <2>4, ListAlgebra
    <2> QED BY <2>5 DEF s, Cat
  <1> QED BY <1>1, <1>2, OrderStep, TypeCorrect, LockInvariant, BatchInvariant, PTL DEF Spec

-----------------------------------------------------------------------------
(* The delivery contract.  On top of the invariants above it needs that    *)
(* the places a record can be in hold accepted records only, and that a    *)
(* process that is down does nothing.                                      *)

Accepted == 1 .. accepted

\* Every list of the hub, and every batch on its way, holds accepted records.
KnownInv ==
  /\ queue \in Seq(Accepted) /\ buffer \in Seq(Accepted) /\ backlog \in Seq(Accepted)
  /\ batch \in [Tasks -> Seq(Accepted)]
  /\ late \in Seq(Seq(Accepted))

\* All tasks end together, and no message is taken while there are none.
DownInv ==
  pc["stop"] = "down" =>
    scheduled = 0 /\ ~running /\ \A t \in Tasks : pc[t] = "down"

-----------------------------------------------------------------------------
(* Only accepted records are known.                                        *)

\* Sending and leaving keep the batches known.
LEMMA LeaveFlushKnown ==
  ASSUME NEW S, NEW t \in Tasks, batch \in [Tasks -> Seq(S)], LeaveFlush(t)
  PROVE  batch' \in [Tasks -> Seq(S)]
  BY DEF LeaveFlush

LEMMA SendKnown ==
  ASSUME NEW S, NEW t \in Tasks, batch \in [Tasks -> Seq(S)], NEW p, NEW b \in Seq(S), Send(t, p, b)
  PROVE  batch' \in [Tasks -> Seq(S)]
  BY DEF Send

LEMMA BufferLoopKnown ==
  ASSUME NEW S, NEW t \in Tasks, batch \in [Tasks -> Seq(S)], NEW b \in Seq(S), BufferLoop(t, b)
  PROVE  batch' \in [Tasks -> Seq(S)]
  <1>1. FirstBatch(b) \in Seq(S)
    BY FirstBatchType
  <1> QED BY <1>1, LeaveFlushKnown, SendKnown DEF BufferLoop

\* A request given up holds a known batch.
LEMMA AbandonedKnown ==
  ASSUME KnownInv, NEW t \in Tasks
  PROVE  Abandoned(t) \in Seq(Seq(Accepted))
  BY AppendProperties DEF Abandoned, KnownInv

\* The end of the process leaves known records only.
LEMMA GoDownKnown ==
  ASSUME KnownInv, GoDown
  PROVE  KnownInv'
  <1>1. Accepted' = Accepted
    BY DEF GoDown, Accepted
  <1>2. late' \in Seq(Seq(Accepted))
    BY AbandonedKnown DEF GoDown, KnownInv
  <1> QED BY <1>1, <1>2 DEF GoDown, KnownInv

\* A record is known from its acceptance on.
LEMMA EnqueueKnown ==
  ASSUME TypeOK, KnownInv, Enqueue
  PROVE  KnownInv'
  <1>1. accepted \in Nat /\ accepted' = accepted + 1
    BY DEF TypeOK, Enqueue
  <1>2. Accepted \subseteq Accepted' /\ accepted + 1 \in Accepted'
    BY <1>1 DEF Accepted
  <1>3. Seq(Accepted) \subseteq Seq(Accepted')
    BY <1>2, SeqMonotonic
  <1>4. Seq(Seq(Accepted)) \subseteq Seq(Seq(Accepted'))
    BY <1>3, SeqMonotonic
  <1>5. queue' \in Seq(Accepted')
    BY <1>2, <1>3, AppendProperties DEF Enqueue, KnownInv
  <1>6. batch' \in [Tasks -> Seq(Accepted')]
    BY <1>3 DEF Enqueue, KnownInv, netVars
  <1> QED BY <1>3, <1>4, <1>5, <1>6 DEF Enqueue, KnownInv, faultVars

\* Every step keeps known records.
LEMMA KnownStep == TypeOK /\ KnownInv /\ [Next]_vars => KnownInv'
  <1> SUFFICES ASSUME TypeOK, KnownInv, [Next]_vars PROVE KnownInv'
    OBVIOUS
  <1> USE DEF lockVars, netVars, memVars, ghostVars, faultVars
  <1> DEFINE A == Accepted
  <1> HIDE DEF A
  <1>1. /\ queue \in Seq(A) /\ buffer \in Seq(A) /\ backlog \in Seq(A)
        /\ batch \in [Tasks -> Seq(A)] /\ late \in Seq(Seq(A))
    BY DEF KnownInv, A
  <1>2. ASSUME accepted' = accepted,
               queue' \in Seq(A), buffer' \in Seq(A), backlog' \in Seq(A),
               batch' \in [Tasks -> Seq(A)], late' \in Seq(Seq(A))
        PROVE  KnownInv'
    BY <1>2 DEF KnownInv, A, Accepted
  <1>3. CASE OnMessage \/ TimerFires \/ StopFlushes \/ BeginStop \/ Restart \/ UNCHANGED vars
    BY <1>1, <1>2, <1>3 DEF OnMessage, TimerFires, StopFlushes, BeginStop, Restart, vars
  <1>4. CASE PutCallback \/ Ingest
    BY <1>4, EnqueueKnown DEF PutCallback, Ingest
  <1>5. CASE Process
    <2>1. Tail(queue) \in Seq(A) /\ Append(buffer, Head(queue)) \in Seq(A)
      BY <1>1, <1>5, HeadTailProperties, AppendProperties DEF Process
    <2> QED BY <1>1, <1>2, <1>5, <2>1 DEF Process
  <1>6. ASSUME NEW t \in Tasks,
               \/ GetLock(t) \/ StoreCommits(t) \/ StoreRefuses(t) \/ ReplyLost(t)
        PROVE  KnownInv'
    BY <1>1, <1>2, <1>6 DEF GetLock, StoreCommits, StoreRefuses, ReplyLost
  <1>7. ASSUME NEW t \in Tasks, BacklogRead(t) PROVE KnownInv'
    <2>1. FirstBatch(backlog) \in Seq(A)
      BY <1>1, FirstBatchType
    <2>2. batch' \in [Tasks -> Seq(A)]
      BY <1>1, <1>7, <2>1, SendKnown, BufferLoopKnown DEF BacklogRead
    <2> QED BY <1>1, <1>2, <1>7, <2>2 DEF BacklogRead
  <1>8. ASSUME NEW t \in Tasks, PostReturns(t) PROVE KnownInv'
    <2>1. buffer' \in Seq(A)
      BY <1>1, <1>8, WithoutType DEF PostReturns
    <2>2. batch' \in [Tasks -> Seq(A)]
      BY <1>1, <1>8, <2>1, SendKnown, LeaveFlushKnown, BufferLoopKnown DEF PostReturns
    <2> QED BY <1>1, <1>2, <1>8, <2>1, <2>2 DEF PostReturns
  <1>9. ASSUME NEW t \in Tasks, RedisApplies(t) PROVE KnownInv'
    <2>1. batch[t] \in Seq(A)
      BY <1>1
    <2>2. Without(backlog, batch[t]) \in Seq(A)
      BY <1>1, <2>1, WithoutType
    <2>3. backlog \o batch[t] \in Seq(A)
      BY <1>1, <2>1, ConcatProperties
    <2>4. backlog' \in Seq(A) /\ UNCHANGED <<accepted, queue, buffer, batch, late>>
      BY <1>9, <2>2, <2>3 DEF RedisApplies
    <2> QED BY <1>1, <1>2, <2>4
  <1>10. ASSUME NEW t \in Tasks, RedisReturns(t) PROVE KnownInv'
    <2>1. buffer' \in Seq(A)
      BY <1>1, <1>10, WithoutType DEF RedisReturns
    <2>2. batch' \in [Tasks -> Seq(A)]
      <3>1. CASE batch' = [batch EXCEPT ![t] = <<>>]
        BY <1>1, <3>1
      <3>2. CASE LeaveFlush(t)
        BY <1>1, <3>2, LeaveFlushKnown
      <3> QED BY <1>10, <3>1, <3>2 DEF RedisReturns
    <2> QED BY <1>1, <1>2, <1>10, <2>1, <2>2 DEF RedisReturns
  <1>11. ASSUME NEW t \in Tasks, PostTimesOut(t) PROVE KnownInv'
    <2>1. late' \in Seq(Seq(A))
      BY <1>1, <1>11, AppendProperties DEF PostTimesOut
    <2> QED BY <1>1, <1>2, <1>11, <2>1 DEF PostTimesOut
  <1>12. ASSUME NEW t \in Tasks, RedisRaises(t) PROVE KnownInv'
    <2>1. CASE GoDown
      BY <2>1, GoDownKnown
    <2>2. CASE LeaveFlush(t) /\ UNCHANGED <<accepted, queue, buffer, backlog, late>>
      <3>1. batch' \in [Tasks -> Seq(A)]
        BY <1>1, <2>2, LeaveFlushKnown
      <3> QED BY <1>1, <1>2, <2>2, <3>1
    <2> QED BY <1>12, <2>1, <2>2 DEF RedisRaises
  <1>13. CASE LateCommit \/ LateLost
    <2>1. late' \in Seq(Seq(A))
      BY <1>1, <1>13, RemoveAtType DEF LateCommit, LateLost
    <2> QED BY <1>1, <1>2, <1>13, <2>1 DEF LateCommit, LateLost
  <1>14. CASE CancelTimer \/ CancelProc
    <2>1. PICK t \in Tasks, next \in PC : CancelTask(t, next)
      <3>1. {"timer", "proc"} \subseteq Tasks /\ {"cancelProc", "done"} \subseteq PC
        BY DEF Tasks, PC
      <3> QED BY <1>14, <3>1 DEF CancelTimer, CancelProc
    <2>2. late' \in Seq(Seq(A))
      BY <1>1, <2>1, AbandonedKnown DEF CancelTask, LeaveCancelled, A
    <2>3. batch' \in [Tasks -> Seq(A)]
      BY <1>1, <2>1 DEF CancelTask
    <2> QED BY <1>1, <1>2, <2>1, <2>2, <2>3 DEF CancelTask
  <1>15. CASE Exit \/ Crash
    BY <1>15, GoDownKnown DEF Exit, Crash
  <1> QED
    BY <1>3, <1>4, <1>5, <1>6, <1>7, <1>8, <1>9, <1>10, <1>11, <1>12, <1>13, <1>14, <1>15
    DEF Next, FlushStep, StoreAnswers, Fault, StopStep

-----------------------------------------------------------------------------
(* A process that is down.                                                 *)

\* The points of flush(), and those it leads to, are points of a process that
\* is up.
LEMMA UpPoints ==
  /\ "down" \notin Working \cup {"lock", "lrange", "join", "cancelProc", "done", "dead"}
  /\ \A t \in Tasks : AfterFlush(t) # "down" /\ FirstPC[t] # "down"
  BY DEF Working, InFlush, Posting, Redis, AfterFlush, FirstPC, Tasks

\* Every step of a task finds the process up, and only the end of the process
\* and a start change that.
LEMMA UpStep ==
  ASSUME TypeOK, DownInv, [Next]_vars
  PROVE  \/ Up /\ (Up' \/ GoDown)
         \/ ~Up /\ (Restart \/ LateCommit \/ LateLost \/ UNCHANGED vars)
  <1> USE DEF lockVars, netVars, memVars, ghostVars, faultVars
  <1>1. "stop" \in Tasks /\ pc \in [Tasks -> PC]
    BY DEF Tasks, TypeOK
  <1>2. CASE ~Up
    <2>1. scheduled = 0 /\ ~running /\ \A t \in Tasks : pc[t] = "down"
      BY <1>2 DEF Up, DownInv
    <2>2. ~OnMessage /\ ~PutCallback /\ ~Ingest /\ ~BeginStop
      BY <2>1 DEF OnMessage, PutCallback, Ingest, BeginStop
    <2>3. {"proc", "timer", "stop"} \subseteq Tasks
      BY DEF Tasks
    <2>4. ~Process /\ ~TimerFires /\ ~StopStep /\ ~Crash
      BY <2>1, <2>3, <1>2
      DEF Process, TimerFires, StopStep, StopFlushes, CancelTimer, CancelProc, Exit, Crash
    <2>5. ASSUME NEW t \in Tasks
          PROVE  ~FlushStep(t) /\ ~StoreAnswers(t) /\ ~Fault(t)
      BY <2>1
      DEF FlushStep, GetLock, BacklogRead, PostReturns, RedisApplies, RedisReturns, StoreAnswers,
          StoreCommits, StoreRefuses, Fault, PostTimesOut, ReplyLost, RedisRaises, Posting, Redis
    <2> QED BY <1>2, <2>2, <2>4, <2>5 DEF Next
  <1>3. CASE Up
    <2> SUFFICES ASSUME ~GoDown PROVE Up'
      BY <1>3
    <2>1. CASE pc' = pc
      BY <1>3, <2>1 DEF Up
    <2>2. ASSUME NEW t \in Tasks, NEW p \in PC \ {"down"}, pc' = [pc EXCEPT ![t] = p]
          PROVE  Up'
      BY <1>1, <1>3, <2>2 DEF Up
    <2>3. ASSUME NEW t \in Tasks, CallFlush(t) PROVE Up'
      <3>1. {"lock", "lrange"} \subseteq PC \ {"down"}
        BY DEF PC, Working, InFlush, Redis
      <3> QED BY <2>2, <2>3, <3>1 DEF CallFlush
    <2>4. ASSUME NEW t \in Tasks, LeaveFlush(t) PROVE Up'
      <3>1. AfterFlush(t) \in PC \ {"down"}
        BY DEF AfterFlush, Tasks, PC
      <3> QED BY <2>2, <2>4, <3>1 DEF LeaveFlush
    <2>5. ASSUME NEW t \in Tasks, NEW p \in InFlush, NEW b, Send(t, p, b) PROVE Up'
      <3>1. p \in PC \ {"down"}
        BY UpPoints DEF PC, Working
      <3> QED BY <2>2, <2>5, <3>1 DEF Send
    <2>6. {"postBacklog", "postBuffer", "ltrim", "rpush", "lrange"} \subseteq InFlush
      BY DEF InFlush, Posting, Redis
    <2>7. ASSUME NEW t \in Tasks, NEW b, BufferLoop(t, b) PROVE Up'
      BY <2>4, <2>5, <2>6, <2>7 DEF BufferLoop
    <2>8. CASE OnMessage \/ PutCallback \/ Ingest \/ LateCommit \/ LateLost \/ UNCHANGED vars
      BY <2>1, <2>8 DEF OnMessage, PutCallback, Ingest, Enqueue, LateCommit, LateLost, vars
    <2>9. CASE Process \/ TimerFires \/ StopFlushes
      <3>1. {"proc", "timer", "stop"} \subseteq Tasks
        BY DEF Tasks
      <3> QED BY <2>1, <2>3, <2>9, <3>1 DEF Process, TimerFires, StopFlushes
    <2>10. ASSUME NEW t \in Tasks, GetLock(t) \/ RedisReturns(t) PROVE Up'
      <3>1. CASE pc' = [pc EXCEPT ![t] = "lrange"]
        <4>1. "lrange" \in PC \ {"down"}
          BY DEF PC, Working, InFlush, Redis
        <4> QED BY <2>2, <3>1, <4>1
      <3> QED BY <2>4, <2>10, <3>1 DEF GetLock, RedisReturns
    <2>11. ASSUME NEW t \in Tasks, BacklogRead(t) PROVE Up'
      BY <2>5, <2>6, <2>7, <2>11 DEF BacklogRead
    <2>12. ASSUME NEW t \in Tasks, PostReturns(t) PROVE Up'
      BY <2>4, <2>5, <2>6, <2>7, <2>12 DEF PostReturns
    <2>13. ASSUME NEW t \in Tasks,
                  RedisApplies(t) \/ StoreAnswers(t) \/ PostTimesOut(t) \/ ReplyLost(t)
           PROVE  Up'
      BY <2>1, <2>13
      DEF RedisApplies, StoreAnswers, StoreCommits, StoreRefuses, PostTimesOut, ReplyLost
    <2>14. ASSUME NEW t \in Tasks, RedisRaises(t) PROVE Up'
      BY <2>4, <2>14 DEF RedisRaises
    <2>15. CASE BeginStop
      <3>1. "join" \in PC \ {"down"}
        BY DEF PC
      <3> QED BY <1>1, <2>2, <2>15, <3>1 DEF BeginStop
    <2>16. CASE CancelTimer \/ CancelProc
      BY <1>1, <2>16 DEF CancelTimer, CancelProc, CancelTask, Up
    <2>17. CASE Exit \/ Crash
      BY <2>17 DEF Exit, Crash
    <2>18. CASE Restart
      BY <1>1, <1>3, <2>18 DEF Restart, Up
    <2> QED
      BY <2>8, <2>9, <2>10, <2>11, <2>12, <2>13, <2>14, <2>15, <2>16, <2>17, <2>18
      DEF Next, FlushStep, Fault, StopStep
  <1> QED BY <1>2, <1>3

\* Every other step leaves the process up or down.
LEMMA UpStays ==
  ASSUME TypeOK, DownInv, [Next]_vars, ~(GoDown /\ Up), ~Restart
  PROVE  Up' = Up
  <1>1. LateCommit \/ LateLost \/ UNCHANGED vars => pc' = pc
    BY DEF LateCommit, LateLost, vars, netVars
  <1>2. pc' = pc => Up' = Up
    BY DEF Up
  <1>3. (Up /\ Up') \/ pc' = pc
    BY <1>1, UpStep
  <1> QED BY <1>2, <1>3 DEF Up

\* Every step keeps the tasks ending together.
LEMMA DownStep == TypeOK /\ DownInv /\ [Next]_vars => DownInv'
  <1> SUFFICES ASSUME TypeOK, DownInv, [Next]_vars PROVE DownInv'
    OBVIOUS
  <1>1. CASE Up'
    BY <1>1 DEF Up, DownInv
  <1>2. CASE GoDown
    BY <1>2 DEF GoDown, DownInv
  <1>3. CASE Restart
    BY <1>3, UpPoints DEF Restart, DownInv, Tasks
  <1>4. CASE LateCommit \/ LateLost \/ UNCHANGED vars
    BY <1>4 DEF LateCommit, LateLost, vars, memVars, netVars, DownInv
  <1> QED BY <1>1, <1>2, <1>3, <1>4, UpStep

\* Which records are known, and that the tasks end together, holds throughout
\* every run of the hub.
THEOREM KnownInvariant == Spec => [](KnownInv /\ DownInv)
  <1>1. Init => KnownInv /\ DownInv
    BY UpPoints DEF Init, KnownInv, DownInv, Tasks
  <1>2. TypeOK /\ (KnownInv /\ DownInv) /\ [Next]_vars => (KnownInv /\ DownInv)'
    BY KnownStep, DownStep
  <1> QED BY <1>1, <1>2, TypeCorrect, PTL DEF Spec

-----------------------------------------------------------------------------
(* Steps of the contract.  Memory is the queue and the buffer; a batch     *)
(* that was sent stays in the buffer until its answer is there.            *)

Volatile == Range(queue) \cup Range(buffer)

\* All that is known was accepted.
LEMMA KnownRanges ==
  ASSUME KnownInv
  PROVE  /\ Volatile \subseteq Accepted /\ Range(backlog) \subseteq Accepted
         /\ \A t \in Tasks : batch[t] \in Seq(Accepted) /\ Range(batch[t]) \subseteq Accepted
         /\ \A k \in 1 .. Len(late) : late[k] \in Seq(Accepted) /\ Range(late[k]) \subseteq Accepted
  <1>1. Volatile \subseteq Accepted /\ Range(backlog) \subseteq Accepted
    BY RangeOfSeq DEF KnownInv, Volatile
  <1>2. \A t \in Tasks : batch[t] \in Seq(Accepted)
    BY DEF KnownInv
  <1>3. \A k \in 1 .. Len(late) : late[k] \in Seq(Accepted)
    BY ElementOfSeq DEF KnownInv
  <1> QED BY <1>1, <1>2, <1>3, RangeOfSeq

\* A step that leaves the records where they are, with the process up or down
\* as before, is a stutter.
LEMMA Stutters ==
  ASSUME UNCHANGED <<accepted, queue, buffer, backlog, copies, dropped>>, Up' = Up
  PROVE  UNCHANGED Contract!vars
  <1>1. Stored' = Stored
    BY DEF Stored
  <1> QED BY <1>1 DEF Contract!vars

\* Enqueueing adds the record with the next number to the memory.
LEMMA EnqueueRange ==
  ASSUME TypeOK, Reserved', Enqueue, scheduled' \in Nat
  PROVE  /\ accepted < MaxItems /\ accepted' = accepted + 1
         /\ Volatile' = Volatile \cup {accepted + 1}
         /\ UNCHANGED <<backlog, copies, dropped, pc, batch, net, late>>
  <1> USE DEF ghostVars, netVars, faultVars
  <1>1. accepted \in Nat /\ accepted' = accepted + 1 /\ accepted' + scheduled' <= MaxItems
    BY DEF Enqueue, TypeOK, Reserved
  <1>2. accepted < MaxItems
    <2>1. \A a, s, m \in Nat : a + 1 + s <= m => a < m
      OBVIOUS
    <2>2. accepted + 1 + scheduled' <= MaxItems
      BY <1>1
    <2> QED BY <1>1, <2>1, <2>2, HubAssumption
  <1>3. /\ UNCHANGED <<buffer, backlog, copies, dropped, pc, batch, net, late>>
        /\ queue' = Append(queue, accepted + 1)
    BY DEF Enqueue
  <1>4. accepted + 1 \in Records /\ queue \in Seq(Records)
    BY <1>1, <1>2, HubAssumption DEF Records, TypeOK
  <1>5. Range(queue') = Range(queue) \cup {accepted + 1}
    <2>1. queue' = queue \o <<accepted + 1>> /\ <<accepted + 1>> \in Seq(Records)
      BY <1>3, <1>4, AppendIsConcat
    <2>2. Range(queue \o <<accepted + 1>>) = Range(queue) \cup Range(<<accepted + 1>>)
      BY <1>4, <2>1, RangeConcatenation
    <2>3. Range(<<accepted + 1>>) = {accepted + 1}
      BY DEF Range
    <2> QED BY <2>1, <2>2, <2>3
  <1> QED BY <1>1, <1>2, <1>3, <1>5 DEF Volatile

\* Enqueueing accepts a record.
LEMMA Accepts ==
  ASSUME TypeOK, Reserved', Up, Enqueue, scheduled' \in Nat
  PROVE  Contract!Accept
  <1>1. Stored' = Stored /\ Up' = Up
    BY EnqueueRange DEF Stored, Up
  <1> QED BY <1>1, EnqueueRange DEF Contract!Accept, Volatile

\* A record that moves from the queue to the buffer stays in memory.
LEMMA ProcessRange ==
  ASSUME TypeOK, Process
  PROVE  Volatile' = Volatile /\ UNCHANGED <<accepted, backlog, copies, dropped>>
  <1> USE DEF ghostVars
  <1> DEFINE x == Head(queue)
  <1>1. /\ queue \in Seq(Records) /\ queue # <<>> /\ buffer \in Seq(Records)
        /\ queue' = Tail(queue) /\ buffer' = Append(buffer, x)
        /\ UNCHANGED <<accepted, backlog, copies, dropped>>
    BY DEF Process, TypeOK
  <1>2. x \in Records /\ <<x>> \in Seq(Records) /\ Tail(queue) \in Seq(Records)
    BY <1>1, HeadTailProperties
  <1>3. Range(<<x>>) = {x}
    BY DEF Range
  <1>4. Range(buffer') = Range(buffer) \cup {x}
    <2>1. buffer' = buffer \o <<x>>
      BY <1>1, <1>2, AppendIsConcat
    <2>2. Range(buffer \o <<x>>) = Range(buffer) \cup Range(<<x>>)
      BY <1>1, <1>2, RangeConcatenation, ZenonT(30)
    <2> QED BY <1>3, <2>1, <2>2
  <1>5. Range(queue) = {x} \cup Range(queue')
    <2>1. queue = <<x>> \o Tail(queue)
      BY <1>1, <1>2
    <2>2. Range(<<x>> \o Tail(queue)) = Range(<<x>>) \cup Range(Tail(queue))
      BY <1>2, RangeConcatenation, ZenonT(30)
    <2> QED BY <1>1, <1>3, <2>1, <2>2
  <1> QED BY <1>1, <1>4, <1>5 DEF Volatile

LEMMA ProcessStutters ==
  ASSUME TypeOK, Process, Up' = Up
  PROVE  UNCHANGED Contract!vars
  <1>1. Stored' = Stored
    BY ProcessRange DEF Stored
  <1> QED BY <1>1, ProcessRange DEF Contract!vars, Volatile

\* Deleting a batch from the front of the buffer releases some of its records.
LEMMA ReleaseRange ==
  ASSUME TypeOK, KnownInv, queue' = queue,
         NEW b \in Seq(Records), IsPrefix(b, buffer), buffer' = Without(buffer, b)
  PROVE  \E S \in SUBSET Accepted : S \subseteq Range(b) /\ Volatile' = Volatile \ S
  <1> DEFINE S == Volatile \ Volatile'
  <1>1. Range(buffer) = Range(b) \cup Range(buffer')
    BY WithoutRange DEF TypeOK
  <1>2. S \subseteq Range(b) /\ Volatile' = Volatile \ S
    BY <1>1 DEF Volatile
  <1>3. S \in SUBSET Accepted
    BY KnownRanges
  <1> QED BY <1>2, <1>3

\* A flush that shortens the buffer by records that are safe releases them.
LEMMA Releases ==
  ASSUME TypeOK, KnownInv, Up, Up', UNCHANGED <<accepted, queue, backlog, copies, dropped>>,
         NEW b \in Seq(Records), IsPrefix(b, buffer), Range(b) \subseteq Safe,
         buffer' = Without(buffer, b)
  PROVE  Contract!Next
  <1>1. PICK S \in SUBSET Accepted : S \subseteq Range(b) /\ Volatile' = Volatile \ S
    BY ReleaseRange
  <1>2. Stored' = Stored
    BY DEF Stored
  <1>3. Contract!Release(S)
    BY <1>1, <1>2 DEF Contract!Release, Volatile, Safe
  <1> QED BY <1>3 DEF Contract!Next, Accepted

\* Storing a batch of accepted records delivers it.
LEMMA Delivers ==
  ASSUME TypeOK, NEW b \in Seq(Records), Range(b) \subseteq Accepted, AddRows(b),
         UNCHANGED <<accepted, queue, buffer, backlog, dropped>>, Up' = Up
  PROVE  Contract!Next
  <1>1. Stored' = Stored \cup Range(b)
    BY AddRowsProperties DEF TypeOK
  <1>2. Contract!Deliver(Range(b))
    BY <1>1 DEF Contract!Deliver
  <1> QED BY <1>2 DEF Contract!Next, Accepted

\* ltrim takes records of the batch from the backlog, rpush adds the batch,
\* which is still in the buffer.
LEMMA RedisRange ==
  ASSUME TypeOK, KnownInv, BatchInv, NEW t \in Tasks, RedisApplies(t)
  PROVE  /\ UNCHANGED <<accepted, queue, buffer, copies, dropped, pc>>
         /\ \/ /\ pc[t] = "ltrim" /\ net[t] = "sent"
               /\ \E S \in SUBSET Accepted :
                    S \subseteq Range(batch[t]) /\ Range(backlog') = Range(backlog) \ S
            \/ \E S \in SUBSET Accepted :
                 S \subseteq Volatile /\ Range(backlog') = Range(backlog) \cup S
  <1>1. UNCHANGED <<accepted, queue, buffer, copies, dropped, pc>> /\ net[t] = "sent"
    BY DEF RedisApplies, memVars, ghostVars
  <1>2. batch[t] \in Seq(Records) /\ backlog \in Seq(Records) /\ buffer \in Seq(Records)
    BY DEF TypeOK
  <1>3. CASE pc[t] = "ltrim" /\ backlog' = Without(backlog, batch[t])
    <2> DEFINE S == Range(backlog) \ Range(backlog')
    <2>1. IsPrefix(batch[t], backlog)
      BY <1>1, <1>3 DEF BatchInv, DeletesWhatItSent
    <2>2. Range(backlog) = Range(batch[t]) \cup Range(backlog')
      BY <1>2, <1>3, <2>1, WithoutRange
    <2>3. S \subseteq Range(batch[t]) /\ Range(backlog') = Range(backlog) \ S
      BY <2>2
    <2>4. S \in SUBSET Accepted
      BY KnownRanges
    <2> QED BY <1>1, <1>3, <2>3, <2>4
  <1>4. CASE pc[t] = "rpush" /\ backlog' = backlog \o batch[t]
    <2>1. IsPrefix(batch[t], buffer)
      BY <1>4 DEF BatchInv, DeletesWhatItSent
    <2>2. Range(batch[t]) \subseteq Range(buffer)
      BY <1>2, <2>1, WithoutRange
    <2>3. Range(backlog \o batch[t]) = Range(backlog) \cup Range(batch[t])
      BY <1>2, RangeConcatenation
    <2>4. Range(backlog') = Range(backlog) \cup Range(batch[t])
      BY <1>4, <2>3
    <2>5. Range(batch[t]) \in SUBSET Accepted /\ Range(batch[t]) \subseteq Volatile
      BY <2>2, KnownRanges DEF Volatile
    <2> QED BY <1>1, <2>4, <2>5
  <1> QED BY <1>3, <1>4 DEF RedisApplies

\* ltrim trims stored records, rpush spills records that are in the buffer.
LEMMA TrimsOrSpills ==
  ASSUME TypeOK, KnownInv, BatchInv, NEW t \in Tasks, RedisApplies(t), Up' = Up
  PROVE  Contract!Next
  <1>1. UNCHANGED <<accepted, queue, buffer, copies, dropped>> /\ Stored' = Stored
    BY RedisRange DEF Stored
  <1>2. ASSUME NEW S \in SUBSET Accepted, pc[t] = "ltrim", S \subseteq Range(batch[t]),
               Range(backlog') = Range(backlog) \ S
        PROVE  Contract!Trim(S)
    BY <1>1, <1>2 DEF Contract!Trim, BatchInv, SentIsSafe
  <1>3. ASSUME NEW S \in SUBSET Accepted, S \subseteq Volatile,
               Range(backlog') = Range(backlog) \cup S
        PROVE  Contract!Spill(S)
    BY <1>1, <1>3 DEF Contract!Spill, Volatile
  <1> QED BY <1>2, <1>3, RedisRange DEF Contract!Next, Accepted

\* The end of the process empties its memory.
LEMMA GoDownRange ==
  ASSUME GoDown
  PROVE  ~Up' /\ Volatile' = {} /\ UNCHANGED <<accepted, backlog, copies>>
  BY DEF GoDown, Up, Tasks, Volatile, Range

\* It loses what only the memory held.
LEMMA GoesDown ==
  ASSUME Up, GoDown
  PROVE  Contract!GoDown
  <1>1. Stored' = Stored
    BY GoDownRange DEF Stored
  <1>2. dropped' = dropped \cup ((Range(queue) \cup Range(buffer)) \ (Stored \cup Range(backlog)))
    BY DEF GoDown
  <1> QED BY <1>1, <1>2, GoDownRange DEF Contract!GoDown, Volatile

\* A start finds what Redis and the Store have.
LEMMA GoesUp ==
  ASSUME Restart
  PROVE  Contract!GoUp
  <1> USE DEF memVars, lockVars, faultVars
  <1>1. ~Up /\ Up'
    BY UpPoints DEF Restart, Up, Tasks
  <1>2. Stored' = Stored /\ UNCHANGED <<accepted, queue, buffer, backlog, dropped>>
    BY DEF Restart, Stored
  <1> QED BY <1>1, <1>2 DEF Contract!GoUp

\* Every step of the hub is a step of the contract, or a stutter.
LEMMA ContractStep ==
  TypeOK /\ TypeInv' /\ BatchInv /\ KnownInv /\ DownInv /\ [Next]_vars
    => [Contract!Next]_(Contract!vars)
  <1> SUFFICES ASSUME TypeOK, TypeInv', BatchInv, KnownInv, DownInv, [Next]_vars
               PROVE  Contract!Next \/ UNCHANGED Contract!vars
    OBVIOUS
  <1> USE DEF lockVars, netVars, memVars, ghostVars, faultVars
  <1>1. TypeOK' /\ Reserved'
    BY DEF TypeInv
  <1>2. \A t \in Tasks : batch[t] \in Seq(Records)
    BY DEF TypeOK
  <1>3. CASE GoDown /\ Up
    BY <1>3, GoesDown DEF Contract!Next
  <1>4. CASE Restart
    BY <1>4, GoesUp DEF Contract!Next
  <1>5. CASE ~(GoDown /\ Up) /\ ~Restart
    <2>1. Up' = Up
      BY <1>5, UpStays
    <2>2. ASSUME UNCHANGED <<accepted, queue, buffer, backlog, copies, dropped>>
          PROVE  UNCHANGED Contract!vars
      BY <2>1, <2>2, Stutters
    <2>3. CASE OnMessage \/ TimerFires \/ StopFlushes \/ BeginStop \/ LateLost \/ UNCHANGED vars
      BY <2>2, <2>3 DEF OnMessage, TimerFires, StopFlushes, BeginStop, LateLost, vars
    <2>4. CASE PutCallback \/ Ingest
      <3>1. Up
        BY <2>4, <1>1 DEF DownInv, Up, PutCallback, Ingest, TypeOK
      <3> QED BY <1>1, <2>4, <3>1, Accepts DEF PutCallback, Ingest, Contract!Next, TypeOK
    <2>5. CASE Process
      BY <2>1, <2>5, ProcessStutters
    <2>6. ASSUME NEW t \in Tasks,
                 \/ GetLock(t) \/ BacklogRead(t) \/ StoreRefuses(t) \/ PostTimesOut(t) \/ ReplyLost(t)
          PROVE  UNCHANGED Contract!vars
      BY <2>1, <2>2, <2>6 DEF GetLock, BacklogRead, StoreRefuses, PostTimesOut, ReplyLost
    <2>7. ASSUME NEW t \in Tasks, RedisRaises(t) PROVE UNCHANGED Contract!vars
      <3>1. Up
        BY <2>7 DEF RedisRaises, Redis, DownInv, Up
      <3> QED BY <1>5, <2>2, <2>7, <3>1 DEF RedisRaises
    <2>8. ASSUME NEW t \in Tasks, PostReturns(t) PROVE Contract!Next \/ UNCHANGED Contract!vars
      <3>1. UNCHANGED <<accepted, queue, backlog, copies, dropped>>
        BY <2>8 DEF PostReturns
      <3>2. CASE buffer' = buffer
        BY <2>2, <3>1, <3>2
      <3>3. CASE pc[t] = "postBuffer" /\ net[t] = "applied" /\ buffer' = Without(buffer, batch[t])
        <4>1. IsPrefix(batch[t], buffer) /\ Range(batch[t]) \subseteq Safe
          BY <3>3 DEF BatchInv, DeletesWhatItSent, SentIsSafe, Posting, Safe
        <4>2. Up /\ Up'
          BY <2>1, <3>3 DEF DownInv, Up
        <4> QED BY <1>2, <3>1, <3>3, <4>1, <4>2, Releases
      <3> QED BY <2>8, <3>2, <3>3 DEF PostReturns
    <2>9. ASSUME NEW t \in Tasks, RedisReturns(t) PROVE Contract!Next \/ UNCHANGED Contract!vars
      <3>1. UNCHANGED <<accepted, queue, backlog, copies, dropped>>
        BY <2>9 DEF RedisReturns
      <3>2. CASE buffer' = buffer
        BY <2>2, <3>1, <3>2
      <3>3. CASE pc[t] = "rpush" /\ net[t] = "applied" /\ buffer' = Without(buffer, batch[t])
        <4>1. IsPrefix(batch[t], buffer) /\ Range(batch[t]) \subseteq Safe
          BY <3>3 DEF BatchInv, DeletesWhatItSent, SentIsSafe, Safe
        <4>2. Up /\ Up'
          BY <2>1, <3>3 DEF DownInv, Up
        <4> QED BY <1>2, <3>1, <3>3, <4>1, <4>2, Releases
      <3> QED BY <2>9, <3>2, <3>3 DEF RedisReturns
    <2>10. ASSUME NEW t \in Tasks, RedisApplies(t) PROVE Contract!Next
      BY <2>1, <2>10, TrimsOrSpills
    <2>11. ASSUME NEW t \in Tasks, StoreCommits(t) PROVE Contract!Next
      <3>1. AddRows(batch[t]) /\ UNCHANGED <<accepted, queue, buffer, backlog, dropped>>
        BY <2>11 DEF StoreCommits
      <3> QED BY <1>2, <2>1, <3>1, KnownRanges, Delivers
    <2>12. CASE LateCommit
      <3>1. PICK k \in 1 .. Len(late) : AddRows(late[k]) /\ UNCHANGED <<memVars, backlog, ghostVars>>
        BY <2>12 DEF LateCommit
      <3>2. late[k] \in Seq(Records)
        BY <3>1, ElementOfSeq DEF TypeOK
      <3>3. Range(late[k]) \subseteq Accepted
        BY KnownRanges
      <3> QED BY <2>1, <3>1, <3>2, <3>3, Delivers
    <2>13. CASE CancelTimer \/ CancelProc
      BY <2>2, <2>13 DEF CancelTimer, CancelProc, CancelTask
    <2>14. CASE Exit \/ Crash
      BY <1>5, <2>14 DEF Exit, Crash, Up
    <2> QED
      BY <1>5, <2>3, <2>4, <2>5, <2>6, <2>7, <2>8, <2>9, <2>10, <2>11, <2>12, <2>13, <2>14
      DEF Next, FlushStep, StoreAnswers, Fault, StopStep
  <1> QED BY <1>3, <1>4, <1>5

\* The hub implements the delivery contract: batching, the lock, the retries,
\* cancellation and crashes let a record leave a place only when a safer one
\* holds it, and nothing but the end of the process loses one.
THEOREM ContractImplemented == Spec => ImplementsContract
  <1>1. Init => Contract!Init
    <2> SUFFICES ASSUME Init PROVE Contract!Init
      OBVIOUS
    <2>1. Range(queue) = {} /\ Range(buffer) = {} /\ Range(backlog) = {} /\ Stored = {}
      BY DEF Init, Range, Stored
    <2>2. Up
      BY UpPoints DEF Init, Up, Tasks
    <2> QED BY <2>1, <2>2 DEF Init, Contract!Init
  <1> QED
    BY <1>1, ContractStep, TypeInvariant, TypeCorrect, BatchInvariant, KnownInvariant, PTL
    DEF Spec, ImplementsContract, Contract!Spec

-----------------------------------------------------------------------------
(* Rows and faults.  A record occurs in lists, in requests nobody waits    *)
(* for and in rows of the Store; a fault at most doubles its occurrences.  *)

\* One more element doubles the number of subsets, and so a power of two.
LEMMA PowerDoubles ==
  ASSUME NEW g \in Nat
  PROVE  2 ^ g \in Nat /\ 2 ^ g > 0 /\ 2 ^ (g + 1) \in Nat /\ 2 ^ (g + 1) = 2 ^ g + 2 ^ g
  <1> DEFINE S == 1 .. g   T == 1 .. g + 1   e == g + 1
             With(X) == X \cup {e}
             f == [X \in SUBSET S |-> With(X)]
             U == {With(X) : X \in SUBSET S}
  <1>1. IsFiniteSet(S) /\ Cardinality(S) = g /\ IsFiniteSet(T) /\ Cardinality(T) = g + 1
    BY FS_Interval
  <1>2. /\ IsFiniteSet(SUBSET S) /\ Cardinality(SUBSET S) = 2 ^ g
        /\ IsFiniteSet(SUBSET T) /\ Cardinality(SUBSET T) = 2 ^ (g + 1)
    BY <1>1, FS_SUBSET
  <1>3. e \notin S /\ T = S \cup {e}
    OBVIOUS
  <1> HIDE DEF S, T, e
  <1>4. f \in Bijection(SUBSET S, U)
    <2>1. f \in [SUBSET S -> U]
      OBVIOUS
    <2>2. \A X, Y \in SUBSET S : f[X] = f[Y] => X = Y
      BY <1>3
    <2>3. \A V \in U : \E X \in SUBSET S : f[X] = V
      OBVIOUS
    <2> QED BY <2>1, <2>2, <2>3, Zenon DEF Bijection, Injection, Surjection, IsInjective
  <1>5. IsFiniteSet(U) /\ Cardinality(U) = 2 ^ g
    <2>1. ExistsBijection(SUBSET S, U)
      BY <1>4, Zenon DEF ExistsBijection
    <2> QED BY <1>2, <2>1, FS_Bijection
  <1>6. SUBSET T = (SUBSET S) \cup U /\ (SUBSET S) \cap U = {}
    <2>1. ASSUME NEW X \in SUBSET T, X \notin SUBSET S PROVE X \in U
      <3>1. X \ {e} \in SUBSET S
        BY <1>3
      <3>2. e \in X
        BY <1>3, <2>1
      <3>3. With(X \ {e}) = X
        BY <3>2
      <3> QED BY <3>1, <3>3
    <2>2. \A X \in SUBSET S : With(X) \in SUBSET T /\ X \in SUBSET T /\ e \notin X /\ e \in With(X)
      BY <1>3
    <2>3. \A Y \in U : Y \in SUBSET T /\ e \in Y
      BY <2>2
    <2>4. (SUBSET S) \cap U = {}
      BY <2>2, <2>3
    <2>5. SUBSET T \subseteq (SUBSET S) \cup U
      BY <2>1
    <2>6. (SUBSET S) \cup U \subseteq SUBSET T
      BY <2>2, <2>3
    <2> QED BY <2>4, <2>5, <2>6, Zenon
  <1>7. Cardinality(SUBSET T) = Cardinality(SUBSET S) + Cardinality(U) - Cardinality((SUBSET S) \cap U)
    BY <1>2, <1>5, <1>6, FS_Union
  <1>8. Cardinality(SUBSET S) \in Nat /\ Cardinality(SUBSET S) # 0 /\ Cardinality(SUBSET T) \in Nat
    BY <1>2, FS_CardinalityType, FS_EmptySet
  <1>9. Cardinality((SUBSET S) \cap U) = 0
    BY <1>6, FS_EmptySet
  <1> QED BY <1>2, <1>5, <1>7, <1>8, <1>9

\* Where record i is in a list.
Places(s, i) == {k \in DOMAIN s : s[k] = i}

LEMMA PlacesFinite ==
  ASSUME NEW s \in Lists, NEW i
  PROVE  /\ IsFiniteSet(Places(s, i))
         /\ Count(s, i) = Cardinality(Places(s, i)) /\ Count(s, i) \in Nat
  <1>1. DOMAIN s = 1 .. Len(s) /\ Len(s) \in Nat
    BY DEF Lists
  <1>2. IsFiniteSet(1 .. Len(s))
    BY <1>1, FS_Interval
  <1>3. IsFiniteSet(Places(s, i))
    BY <1>1, <1>2, FS_Subset DEF Places
  <1> QED BY <1>3, FS_CardinalityType DEF Count, Places

\* The occurrences in two lists add up.
LEMMA CountCat ==
  ASSUME NEW s \in Lists, NEW t \in Lists, NEW i
  PROVE  Count(Cat(s, t), i) = Count(s, i) + Count(t, i)
  <1> DEFINE n == Len(s)  u == Cat(s, t)
             A == Places(s, i)  B == Places(t, i)
             f == [k \in B |-> k + n]
             C == {k + n : k \in B}
  <1>1. /\ u \in Lists /\ n \in Nat /\ Len(t) \in Nat /\ DOMAIN s = 1 .. n /\ DOMAIN t = 1 .. Len(t)
        /\ DOMAIN u = 1 .. n + Len(t)
        /\ \A k \in 1 .. n : u[k] = s[k]
        /\ \A k \in 1 .. Len(t) : u[k + n] = t[k]
    BY ConcatProperties DEF Lists, Cat
  <1> HIDE DEF n, u
  <1>2. Places(u, i) = A \cup C
    <2>1. ASSUME NEW k \in Places(u, i) PROVE k \in A \cup C
      <3>1. k \in 1 .. n + Len(t) /\ u[k] = i
        BY <1>1, <2>1 DEF Places
      <3>2. CASE k <= n
        BY <1>1, <3>1, <3>2 DEF Places
      <3>3. CASE k > n
        <4>1. k - n \in 1 .. Len(t) /\ (k - n) + n = k
          BY <1>1, <3>1, <3>3
        <4>2. k - n \in B
          BY <1>1, <3>1, <4>1 DEF Places
        <4> QED BY <4>1, <4>2
      <3> QED BY <1>1, <3>1, <3>2, <3>3
    <2>2. ASSUME NEW k \in A PROVE k \in Places(u, i)
      BY <1>1 DEF Places
    <2>3. ASSUME NEW k \in B PROVE k + n \in Places(u, i)
      BY <1>1 DEF Places
    <2> QED BY <2>1, <2>2, <2>3
  <1>3. A \cap C = {}
    BY <1>1 DEF Places
  <1>4. f \in Bijection(B, C)
    <2>1. f \in [B -> C]
      OBVIOUS
    <2>2. \A k, m \in B : f[k] = f[m] => k = m
      BY <1>1 DEF Places
    <2>3. \A c \in C : \E k \in B : f[k] = c
      OBVIOUS
    <2> QED BY <2>1, <2>2, <2>3, Zenon DEF Bijection, Injection, Surjection, IsInjective
  <1>5. IsFiniteSet(C) /\ Cardinality(C) = Cardinality(B)
    <2>1. ExistsBijection(B, C)
      BY <1>4, Zenon DEF ExistsBijection
    <2> QED BY <2>1, PlacesFinite, FS_Bijection
  <1> HIDE DEF A, B, C
  <1>6. IsFiniteSet(A) /\ Cardinality(A) = Count(s, i) /\ Cardinality(B) = Count(t, i)
        /\ Count(u, i) = Cardinality(Places(u, i)) /\ Count(s, i) \in Nat /\ Count(t, i) \in Nat
    BY <1>1, PlacesFinite DEF A, B
  <1>7. Cardinality(A \cup C) = Cardinality(A) + Cardinality(C) - Cardinality(A \cap C)
    BY <1>5, <1>6, FS_Union
  <1>8. Cardinality(A \cap C) = 0
    BY <1>3, FS_EmptySet
  <1> QED BY <1>2, <1>5, <1>6, <1>7, <1>8 DEF u

\* A list of one record holds that record once, an empty one none.
LEMMA CountOne ==
  ASSUME NEW x, NEW i
  PROVE  /\ Count(<<x>>, i) = IF x = i THEN 1 ELSE 0
         /\ Count(<<>>, i) = 0
  <1>1. Places(<<x>>, i) = IF x = i THEN {1} ELSE {}
    BY DEF Places
  <1>2. Places(<<>>, i) = {}
    BY DEF Places
  <1>3. Cardinality({1}) = 1 /\ Cardinality({}) = 0
    BY FS_Singleton, FS_EmptySet
  <1> QED BY <1>1, <1>2, <1>3 DEF Count, Places

\* Where record i is in the requests of a list: which request, which place.
LatePlaces(l, i) ==
  {p \in (1 .. Len(l)) \X Nat : p[2] \in DOMAIN l[p[1]] /\ l[p[1]][p[2]] = i}

LateCount(l, i) == Cardinality(LatePlaces(l, i))

\* A request of a list of requests is a list.
LEMMA LateElement ==
  ASSUME NEW l \in Seq(Lists), NEW k \in 1 .. Len(l)
  PROVE  /\ l[k] \in Lists /\ Len(l[k]) \in Nat /\ DOMAIN l[k] = 1 .. Len(l[k])
         /\ IsFiniteSet(DOMAIN l[k])
  <1>1. l[k] \in Lists
    BY ElementOfSeq
  <1>2. Len(l[k]) \in Nat /\ DOMAIN l[k] = 1 .. Len(l[k])
    BY <1>1 DEF Lists
  <1> QED BY <1>1, <1>2, FS_Interval

LEMMA LateFinite ==
  ASSUME NEW l \in Seq(Lists), NEW i
  PROVE  IsFiniteSet(LatePlaces(l, i)) /\ LateCount(l, i) \in Nat
  <1> DEFINE K == 1 .. Len(l)
             f == [k \in K |-> DOMAIN l[k]]
             D == {f[k] : k \in K}
  <1>1. IsFiniteSet(K)
    BY FS_Interval
  <1>2. f \in Surjection(K, D)
    BY DEF Surjection
  <1>3. IsFiniteSet(D)
    BY <1>1, <1>2, FS_Surjection
  <1>4. \A T \in D : IsFiniteSet(T)
    BY LateElement
  <1>5. IsFiniteSet(K \X UNION D)
    <2> HIDE DEF K, D
    <2> QED BY <1>1, <1>3, <1>4, FS_UNION, FS_Product
  <1>6. LatePlaces(l, i) \in SUBSET (K \X UNION D)
    <2> SUFFICES ASSUME NEW p \in LatePlaces(l, i) PROVE p \in K \X UNION D
      OBVIOUS
    <2>1. p = <<p[1], p[2]>> /\ p[1] \in K /\ p[2] \in DOMAIN l[p[1]]
      BY DEF LatePlaces
    <2>2. f[p[1]] \in D /\ p[2] \in f[p[1]]
      BY <2>1
    <2> HIDE DEF K, D, f
    <2>3. p[2] \in UNION D
      BY <2>2
    <2> QED BY <2>1, <2>3
  <1>7. IsFiniteSet(LatePlaces(l, i))
    <2> HIDE DEF K, D
    <2> QED BY <1>5, <1>6, FS_Subset
  <1> QED BY <1>7, FS_CardinalityType DEF LateCount

\* The places of record i in request k.
LatePart(l, k, i) == {p \in LatePlaces(l, i) : p[1] = k}

LEMMA LatePartCount ==
  ASSUME NEW l \in Seq(Lists), NEW k \in 1 .. Len(l), NEW i
  PROVE  IsFiniteSet(LatePart(l, k, i)) /\ Cardinality(LatePart(l, k, i)) = Count(l[k], i)
  <1> DEFINE P == Places(l[k], i)  Q == LatePart(l, k, i)  f == [j \in P |-> <<k, j>>]
  <1>0. l[k] \in Lists /\ DOMAIN l[k] \subseteq Nat
    BY LateElement
  <1>1. \A j \in P : <<k, j>> \in Q
    BY <1>0 DEF Places, LatePart, LatePlaces
  <1>2. \A q \in Q : q = <<k, q[2]>> /\ q[2] \in P
    BY DEF Places, LatePart, LatePlaces
  <1>3. f \in Bijection(P, Q)
    <2> HIDE DEF P, Q
    <2>1. f \in [P -> Q]
      BY <1>1
    <2>2. \A a, b \in P : f[a] = f[b] => a = b
      OBVIOUS
    <2>3. \A q \in Q : \E j \in P : f[j] = q
      BY <1>2
    <2> HIDE DEF f
    <2> QED BY <2>1, <2>2, <2>3, Zenon DEF Bijection, Injection, Surjection, IsInjective
  <1>4. ExistsBijection(P, Q)
    <2> HIDE DEF P, Q, f
    <2> QED BY <1>3, Zenon DEF ExistsBijection
  <1>5. IsFiniteSet(P) /\ Cardinality(P) = Count(l[k], i)
    BY <1>0, PlacesFinite
  <1> HIDE DEF P, Q
  <1>6. IsFiniteSet(Q) /\ Cardinality(Q) = Cardinality(P)
    BY <1>4, <1>5, FS_Bijection
  <1> QED BY <1>5, <1>6 DEF Q

\* A request given up adds its records.
LEMMA LateAppend ==
  ASSUME NEW l \in Seq(Lists), NEW b \in Lists, NEW i
  PROVE  /\ Append(l, b) \in Seq(Lists)
         /\ LateCount(Append(l, b), i) = LateCount(l, i) + Count(b, i)
  <1> DEFINE m == Append(l, b)  e == Len(l) + 1
  <1>1. /\ m \in Seq(Lists) /\ Len(m) = e /\ m[e] = b /\ Len(l) \in Nat
        /\ \A k \in 1 .. Len(l) : m[k] = l[k]
    BY AppendProperties
  <1> HIDE DEF m
  <1>2. \A k \in 1 .. Len(m) : k \in 1 .. Len(l) \/ k = e
    BY <1>1
  <1>3. LatePlaces(m, i) = LatePlaces(l, i) \cup LatePart(m, e, i)
    <2>1. ASSUME NEW p \in LatePlaces(m, i), p[1] # e PROVE p \in LatePlaces(l, i)
      BY <1>1, <1>2, <2>1 DEF LatePlaces
    <2>2. ASSUME NEW p \in LatePlaces(l, i) PROVE p \in LatePlaces(m, i)
      BY <1>1, <2>2 DEF LatePlaces
    <2> QED BY <2>1, <2>2 DEF LatePart
  <1>4. LatePlaces(l, i) \cap LatePart(m, e, i) = {}
    BY <1>1 DEF LatePlaces, LatePart
  <1>5. IsFiniteSet(LatePart(m, e, i)) /\ Cardinality(LatePart(m, e, i)) = Count(b, i)
    <2>1. e \in 1 .. Len(m)
      BY <1>1
    <2> QED BY <1>1, <2>1, LatePartCount
  <1>6. IsFiniteSet(LatePlaces(l, i)) /\ Cardinality(LatePlaces(l, i)) \in Nat /\ Count(b, i) \in Nat
    BY LateFinite, PlacesFinite DEF LateCount
  <1>7. Cardinality(LatePlaces(m, i))
          = Cardinality(LatePlaces(l, i)) + Cardinality(LatePart(m, e, i)) - 0
    <2>1. Cardinality(LatePlaces(l, i) \cap LatePart(m, e, i)) = 0
      BY <1>4, FS_EmptySet
    <2> QED BY <1>3, <1>5, <1>6, <2>1, FS_Union
  <1> QED BY <1>1, <1>5, <1>6, <1>7 DEF m, LateCount

\* The requests before the removed one keep their places, the others move up.
LEMMA RemoveAtPlaces ==
  ASSUME NEW S, NEW l \in Seq(S), NEW k \in 1 .. Len(l)
  PROVE  /\ RemoveAt(l, k) \in Seq(S) /\ Len(RemoveAt(l, k)) = Len(l) - 1
         /\ \A m \in 1 .. Len(l) - 1 : RemoveAt(l, k)[m] = IF m < k THEN l[m] ELSE l[m + 1]
  <1> DEFINE a == SubSeq(l, 1, k - 1)  c == SubSeq(l, k + 1, Len(l))
  <1>0. Len(l) \in Nat /\ k \in Nat /\ \A m \in 1 .. Len(l) : l[m] \in S
    BY ElementOfSeq
  <1>1. a \in Seq(S) /\ Len(a) = k - 1 /\ \A m \in 1 .. k - 1 : a[m] = l[m]
    BY <1>0
  <1>2. c \in Seq(S) /\ Len(c) = Len(l) - k /\ \A m \in 1 .. Len(l) - k : c[m] = l[k + m]
    BY <1>0
  <1> HIDE DEF a, c
  <1>3. /\ a \o c \in Seq(S) /\ Len(a \o c) = Len(l) - 1
        /\ \A m \in 1 .. Len(l) - 1 : (a \o c)[m] = IF m <= k - 1 THEN a[m] ELSE c[m - (k - 1)]
    <2>1. k - 1 + (Len(l) - k) = Len(l) - 1 /\ Len(a) \in Nat /\ Len(c) \in Nat
      BY <1>0, <1>1, <1>2
    <2>2. /\ a \o c \in Seq(S) /\ Len(a \o c) = Len(a) + Len(c)
          /\ \A m \in 1 .. Len(a) + Len(c) : (a \o c)[m] = IF m <= Len(a) THEN a[m] ELSE c[m - Len(a)]
      BY <1>1, <1>2, ConcatProperties, Zenon
    <2>3. Len(a) + Len(c) = Len(l) - 1
      BY <1>1, <1>2, <2>1
    <2> QED BY <1>1, <2>2, <2>3
  <1>4. \A m \in 1 .. Len(l) - 1 : (a \o c)[m] = IF m < k THEN l[m] ELSE l[m + 1]
    <2> SUFFICES ASSUME NEW m \in 1 .. Len(l) - 1
                 PROVE  (a \o c)[m] = IF m < k THEN l[m] ELSE l[m + 1]
      OBVIOUS
    <2>1. CASE m < k
      <3>1. m <= k - 1 /\ m \in 1 .. k - 1
        BY <1>0, <2>1
      <3>2. (a \o c)[m] = a[m]
        BY <1>3, <3>1
      <3> QED BY <1>1, <2>1, <3>1, <3>2
    <2>2. CASE m >= k
      <3>1. m - (k - 1) \in 1 .. Len(l) - k /\ k + (m - (k - 1)) = m + 1
        BY <1>0, <2>2
      <3>2. c[m - (k - 1)] = l[m + 1]
        BY <1>2, <3>1
      <3>3. ~(m <= k - 1) /\ ~(m < k)
        BY <1>0, <2>2
      <3>4. (a \o c)[m] = c[m - (k - 1)]
        BY <1>3, <3>3
      <3> QED BY <3>2, <3>3, <3>4
    <2>3. m < k \/ m >= k
      BY <1>0
    <2> QED BY <2>1, <2>2, <2>3, Zenon
  <1> QED BY <1>3, <1>4 DEF RemoveAt, a, c

\* A request that is over takes its records along.
LEMMA LateRemove ==
  ASSUME NEW l \in Seq(Lists), NEW k \in 1 .. Len(l), NEW i
  PROVE  /\ RemoveAt(l, k) \in Seq(Lists)
         /\ LateCount(l, i) = LateCount(RemoveAt(l, k), i) + Count(l[k], i)
  <1> DEFINE r == RemoveAt(l, k)
             P == LatePlaces(l, i)  R == LatePart(l, k, i)  Q == LatePlaces(r, i)
             f == [p \in P \ R |-> <<IF p[1] < k THEN p[1] ELSE p[1] - 1, p[2]>>]
  <1>1. /\ r \in Seq(Lists) /\ Len(r) = Len(l) - 1 /\ Len(l) \in Nat /\ k \in Nat
        /\ \A m \in 1 .. Len(l) - 1 : r[m] = IF m < k THEN l[m] ELSE l[m + 1]
    BY RemoveAtPlaces
  <1> HIDE DEF r
  <1>2. ASSUME NEW p \in P \ R PROVE f[p] \in Q
    <2>1. p[1] \in 1 .. Len(l) /\ p[1] # k /\ p[2] \in Nat /\ p[2] \in DOMAIN l[p[1]] /\ l[p[1]][p[2]] = i
      BY DEF LatePlaces, LatePart
    <2>2. CASE p[1] < k
      <3>1. p[1] \in 1 .. Len(r) /\ r[p[1]] = l[p[1]]
        BY <1>1, <2>1, <2>2
      <3> QED BY <2>1, <2>2, <3>1 DEF LatePlaces
    <2>3. CASE p[1] > k
      <3>1. p[1] - 1 \in 1 .. Len(r) /\ r[p[1] - 1] = l[p[1]] /\ ~(p[1] < k)
        BY <1>1, <2>1, <2>3
      <3> QED BY <2>1, <3>1 DEF LatePlaces
    <2> QED BY <1>1, <2>1, <2>2, <2>3
  <1>3. ASSUME NEW p \in P \ R, NEW q \in P \ R, f[p] = f[q] PROVE p = q
    <2>1. /\ p = <<p[1], p[2]>> /\ q = <<q[1], q[2]>>
          /\ p[1] \in 1 .. Len(l) /\ q[1] \in 1 .. Len(l) /\ p[1] # k /\ q[1] # k
      BY DEF LatePlaces, LatePart
    <2>2. /\ p[2] = q[2]
          /\ (IF p[1] < k THEN p[1] ELSE p[1] - 1) = (IF q[1] < k THEN q[1] ELSE q[1] - 1)
      BY <1>3
    <2>3. p[1] = q[1]
      BY <1>1, <2>1, <2>2
    <2> QED BY <2>1, <2>2, <2>3
  <1>4. ASSUME NEW q \in Q PROVE \E p \in P \ R : f[p] = q
    <2>1. /\ q = <<q[1], q[2]>> /\ q[1] \in 1 .. Len(r) /\ q[2] \in Nat
          /\ q[2] \in DOMAIN r[q[1]] /\ r[q[1]][q[2]] = i
      BY DEF LatePlaces
    <2> DEFINE h == IF q[1] < k THEN q[1] ELSE q[1] + 1
    <2>2. /\ h \in 1 .. Len(l) /\ h # k /\ r[q[1]] = l[h]
          /\ (IF h < k THEN h ELSE h - 1) = q[1]
      BY <1>1, <2>1
    <2> HIDE DEF h
    <2>3. <<h, q[2]>> \in P \ R
      BY <2>1, <2>2 DEF LatePlaces, LatePart
    <2>4. f[<<h, q[2]>>] = q
      BY <2>1, <2>2, <2>3
    <2> QED BY <2>3, <2>4
  <1>5. ExistsBijection(P \ R, Q)
    <2>1. f \in [P \ R -> Q]
      BY <1>2
    <2> HIDE DEF P, Q, R, f
    <2>2. f \in Bijection(P \ R, Q)
      BY <1>3, <1>4, <2>1, Zenon DEF Bijection, Injection, Surjection, IsInjective
    <2> QED BY <2>2, Zenon DEF ExistsBijection
  <1>6. /\ IsFiniteSet(P) /\ IsFiniteSet(R) /\ Cardinality(R) = Count(l[k], i)
        /\ Cardinality(P) \in Nat /\ Cardinality(R) \in Nat
    BY LateFinite, LatePartCount, FS_CardinalityType
  <1>7. P \cap R = R
    BY DEF LatePart
  <1> HIDE DEF P, Q, R
  <1>8. IsFiniteSet(P \ R) /\ Cardinality(P \ R) = Cardinality(P) - Cardinality(R)
    <2>1. IsFiniteSet(P \ R) /\ Cardinality(P \ R) = Cardinality(P) - Cardinality(P \cap R)
      BY <1>6, FS_Difference, Zenon
    <2> QED BY <1>7, <2>1
  <1>9. Cardinality(Q) = Cardinality(P \ R)
    BY <1>5, <1>8, FS_Bijection
  <1> QED BY <1>1, <1>6, <1>8, <1>9 DEF P, Q, r, LateCount

\* Without requests, nothing is late.
LEMMA LateNone == \A i : LateCount(<<>>, i) = 0
  <1>1. \A i : LatePlaces(<<>>, i) = {}
    BY DEF LatePlaces
  <1> QED BY <1>1, FS_EmptySet DEF LateCount

-----------------------------------------------------------------------------
(* What the proof of DuplicatesNeedFaults knows.  A record may be counted  *)
(* twice while a flush holds an answer it has not acted upon; a fault at   *)
(* that point makes the second count a second occurrence.                  *)

\* All occurrences of record i.
Total(i) ==
  copies[i] + LateCount(late, i) + Count(queue, i) + Count(buffer, i) + Count(backlog, i)

\* Task t has an acknowledgement, of the Store or of Redis, for a batch that
\* is still in the list it comes from.
Acked(t) == (pc[t] \in Posting /\ net[t] = "applied") \/ (pc[t] = "ltrim" /\ net[t] = "sent")

Surplus(t, i) == IF Acked(t) \/ Spills(t) THEN Count(batch[t], i) ELSE 0

\* Nobody knows whether the request of task t will be served.
Sent(t) == pc[t] \in Posting /\ net[t] = "sent"

Open(t, i) == IF Sent(t) THEN Count(batch[t], i) ELSE 0

\* A stop that got so far has ended the two loops.
StoppedInv ==
  /\ pc["stop"] \in {"cancelProc", "done"} => pc["timer"] = "dead"
  /\ pc["stop"] = "done" => pc["proc"] = "dead"

\* What was acknowledged is there as often as the batch holds it.
HeldInv ==
  \A i \in Records : \A t \in Tasks :
    /\ Acked(t) => Count(batch[t], i) <= copies[i]
    /\ Spills(t) => Count(batch[t], i) <= Count(backlog, i)

\* The Store has rows of accepted records only.
StoredKnown == Stored \subseteq Accepted

\* The occurrences, but those counted twice, double at most with each fault.
RowsInv == \A i \in Records : \E t \in Tasks : Total(i) <= 2 ^ glitches + Surplus(t, i)

-----------------------------------------------------------------------------
(* The counts.                                                             *)

\* Requests are lists.
LEMMA LateLists ==
  ASSUME NEW l \in Seq(Seq(Records))
  PROVE  l \in Seq(Lists)
  <1>1. Seq(Records) \subseteq Lists
    BY RecordLists
  <1> QED BY <1>1, SeqMonotonic

\* Every count is a natural number.
LEMMA CountTypes ==
  ASSUME TypeOK, NEW i \in Records
  PROVE  /\ copies[i] \in Nat /\ LateCount(late, i) \in Nat
         /\ Count(queue, i) \in Nat /\ Count(buffer, i) \in Nat /\ Count(backlog, i) \in Nat
         /\ Total(i) \in Nat
         /\ \A t \in Tasks : /\ Count(batch[t], i) \in Nat
                             /\ Surplus(t, i) \in Nat /\ Open(t, i) \in Nat
         /\ 2 ^ glitches \in Nat /\ 2 ^ glitches > 0
  <1>1. copies[i] \in Nat
    BY DEF TypeOK
  <1>2. LateCount(late, i) \in Nat
    BY LateLists, LateFinite DEF TypeOK
  <1>3. Count(queue, i) \in Nat /\ Count(buffer, i) \in Nat /\ Count(backlog, i) \in Nat
    BY RecordLists, PlacesFinite DEF TypeOK
  <1>4. \A t \in Tasks : Count(batch[t], i) \in Nat
    BY RecordLists, PlacesFinite DEF TypeOK
  <1>5. Total(i) \in Nat
    BY <1>1, <1>2, <1>3 DEF Total
  <1>6. \A t \in Tasks : Surplus(t, i) \in Nat /\ Open(t, i) \in Nat
    BY <1>4 DEF Surplus, Open
  <1>7. 2 ^ glitches \in Nat /\ 2 ^ glitches > 0
    BY PowerDoubles DEF TypeOK
  <1> QED BY <1>1, <1>2, <1>3, <1>4, <1>5, <1>6, <1>7

\* So they are after a step that keeps the types.
CountsOK ==
  /\ 2 ^ glitches \in Nat
  /\ \A i \in Records : Total(i) \in Nat /\ \A t \in Tasks : Surplus(t, i) \in Nat

LEMMA CountsNext == TypeOK' => CountsOK'
  <1>1. TypeOK => CountsOK
    <2>1. TypeOK => 2 ^ glitches \in Nat
      BY PowerDoubles DEF TypeOK
    <2> QED BY <2>1, CountTypes DEF CountsOK
  <1> QED BY <1>1, PTL

\* A record appended to a list is there once more.
LEMMA CountAppend ==
  ASSUME NEW s \in Seq(Records), NEW x \in Records, NEW i
  PROVE  Count(Append(s, x), i) = Count(s, i) + (IF x = i THEN 1 ELSE 0)
  <1>1. <<x>> \in Seq(Records) /\ Append(s, x) = s \o <<x>>
    BY AppendIsConcat
  <1>2. Append(s, x) = Cat(s, <<x>>) /\ s \in Lists /\ <<x>> \in Lists
    BY <1>1, RecordLists DEF Cat
  <1> QED BY <1>2, CountCat, CountOne

\* The first record of a list is there once less without it.
LEMMA CountTail ==
  ASSUME NEW s \in Seq(Records), s # <<>>, NEW i
  PROVE  /\ Head(s) \in Records
         /\ Count(s, i) = Count(Tail(s), i) + (IF Head(s) = i THEN 1 ELSE 0)
  <1>1. Head(s) \in Records /\ Tail(s) \in Seq(Records) /\ s = <<Head(s)>> \o Tail(s)
    BY HeadTailProperties
  <1>2. s = Cat(<<Head(s)>>, Tail(s)) /\ <<Head(s)>> \in Lists /\ Tail(s) \in Lists
    <2>1. <<Head(s)>> \in Seq(Records)
      BY <1>1
    <2> QED BY <1>1, <2>1, RecordLists DEF Cat
  <1>3. Count(s, i) = Count(<<Head(s)>>, i) + Count(Tail(s), i) /\ Count(Tail(s), i) \in Nat
    BY <1>2, CountCat, PlacesFinite
  <1> QED BY <1>1, <1>3, CountOne

\* A list without the batch in front of it.
LEMMA CountWithout ==
  ASSUME NEW b \in Seq(Records), NEW s \in Seq(Records), IsPrefix(b, s), NEW i
  PROVE  Count(s, i) = Count(b, i) + Count(Without(s, b), i)
  <1>1. b \in Lists /\ Without(s, b) \in Lists
    BY WithoutType, RecordLists
  <1>2. s = Cat(b, Without(s, b))
    BY PrefixSplit
  <1> QED BY <1>1, <1>2, CountCat

\* A list with a batch behind it.
LEMMA CountBehind ==
  ASSUME NEW b \in Seq(Records), NEW s \in Seq(Records), NEW i
  PROVE  Count(s \o b, i) = Count(s, i) + Count(b, i)
  BY RecordLists, CountCat DEF Cat

\* The batch of a flush is counted in the list it has to be deleted from.
LEMMA BatchCounted ==
  ASSUME TypeOK, BatchInv, NEW t \in Tasks, NEW i \in Records
  PROVE  /\ pc[t] \in {"postBuffer", "rpush"} => Count(batch[t], i) <= Count(buffer, i)
         /\ pc[t] = "postBacklog" \/ (pc[t] = "ltrim" /\ net[t] = "sent")
              => Count(batch[t], i) <= Count(backlog, i)
  <1>1. ASSUME NEW s \in Seq(Records), NEW b \in Seq(Records), IsPrefix(b, s)
        PROVE  Count(b, i) <= Count(s, i)
    <2>1. Count(s, i) = Count(b, i) + Count(Without(s, b), i)
      BY <1>1, CountWithout
    <2>2. Count(b, i) \in Nat /\ Count(Without(s, b), i) \in Nat
      BY WithoutType, RecordLists, PlacesFinite
    <2> QED BY <2>1, <2>2
  <1>2. batch[t] \in Seq(Records) /\ buffer \in Seq(Records) /\ backlog \in Seq(Records)
    BY DEF TypeOK
  <1> QED BY <1>1, <1>2 DEF BatchInv, DeletesWhatItSent

\* Storing a batch adds its counts.
LEMMA AddRowsCount ==
  ASSUME NEW b, AddRows(b), NEW i \in Records
  PROVE  copies'[i] = copies[i] + Count(b, i)
  BY DEF AddRows

-----------------------------------------------------------------------------
(* Steps without a fault.                                                  *)

\* The task inside flush() is the only one with a surplus.
LEMMA SurplusInside ==
  ASSUME TypeOK, NEW t \in Tasks, NEW i \in Records, pc[t] \notin InFlush
  PROVE  Surplus(t, i) = 0 /\ Open(t, i) = 0
  BY DEF Surplus, Open, Sent, Acked, Spills, InFlush, Redis

LEMMA RowsOfOne ==
  ASSUME TypeOK, RowsInv, NEW t \in Tasks, \A u \in Tasks \ {t} : pc[u] \notin InFlush,
         NEW i \in Records
  PROVE  Total(i) <= 2 ^ glitches + Surplus(t, i)
  <1>1. PICK u \in Tasks : Total(i) <= 2 ^ glitches + Surplus(u, i)
    BY DEF RowsInv
  <1>2. CASE u # t
    <2>1. Surplus(u, i) = 0
      BY <1>2, SurplusInside
    <2> QED BY <1>1, <2>1, CountTypes
  <1> QED BY <1>1, <1>2

\* A step that adds no occurrence and acts upon no answer.
LEMMA RowsFrame ==
  ASSUME TypeOK, TypeOK', RowsInv, glitches' = glitches,
         \A i \in Records : Total(i)' <= Total(i),
         \A u \in Tasks : Acked(u) \/ Spills(u) =>
           pc'[u] = pc[u] /\ batch'[u] = batch[u] /\ net'[u] = net[u]
  PROVE  RowsInv'
  <1> SUFFICES ASSUME NEW i \in Records
               PROVE  \E t \in Tasks : Total(i)' <= 2 ^ (glitches') + Surplus(t, i)'
    BY DEF RowsInv
  <1>1. PICK t \in Tasks : Total(i) <= 2 ^ glitches + Surplus(t, i)
    BY DEF RowsInv
  <1>2. Surplus(t, i)' \in Nat /\ Total(i)' \in Nat
    BY CountsNext DEF CountsOK
  <1>3. Surplus(t, i) <= Surplus(t, i)'
    <2>1. CASE Acked(t) \/ Spills(t)
      <3>1. Acked(t)' \/ Spills(t)'
        BY <2>1 DEF Acked, Spills
      <3> QED BY <2>1, <3>1, CountTypes DEF Surplus
    <2>2. CASE ~(Acked(t) \/ Spills(t))
      BY <1>2, <2>2 DEF Surplus
    <2> QED BY <2>1, <2>2
  <1>4. Total(i)' <= Total(i)
    OBVIOUS
  <1>5. 2 ^ (glitches') = 2 ^ glitches
    OBVIOUS
  <1>6. Total(i)' <= 2 ^ glitches + Surplus(t, i)'
    BY <1>1, <1>2, <1>3, <1>4, CountTypes
  <1> QED BY <1>5, <1>6

\* A step of the task inside flush() that adds no more occurrences than it
\* counts twice from then on.
LEMMA RowsFlush ==
  ASSUME TypeOK, TypeOK', LockInv, RowsInv, glitches' = glitches,
         NEW t \in Tasks, pc[t] \in InFlush,
         \A i \in Records : Total(i)' + Surplus(t, i) <= Total(i) + Surplus(t, i)'
  PROVE  RowsInv'
  <1> SUFFICES ASSUME NEW i \in Records
               PROVE  Total(i)' <= 2 ^ (glitches') + Surplus(t, i)'
    BY DEF RowsInv
  <1>1. Total(i) <= 2 ^ glitches + Surplus(t, i)
    <2>1. \A u \in Tasks \ {t} : pc[u] \notin InFlush
      BY InsideAlone
    <2> QED BY <2>1, RowsOfOne
  <1>2. Surplus(t, i)' \in Nat /\ Total(i)' \in Nat
    BY CountsNext DEF CountsOK
  <1>3. Total(i)' + Surplus(t, i) <= Total(i) + Surplus(t, i)'
    OBVIOUS
  <1>4. Total(i)' <= 2 ^ glitches + Surplus(t, i)'
    BY <1>1, <1>2, <1>3, CountTypes
  <1> QED BY <1>4

-----------------------------------------------------------------------------
(* Steps with a fault.                                                     *)

\* What is counted twice is at most half of all, and so is a batch whose
\* request is open: with one of them dropped or added the total still doubles
\* at most.
LEMMA Doubling ==
  ASSUME TypeOK, LockInv, BatchInv, HeldInv, RowsInv, NEW t \in Tasks, NEW i \in Records
  PROVE  Total(i) + Open(t, i) <= 2 ^ (glitches + 1)
  <1>1. PICK u \in Tasks : Total(i) <= 2 ^ glitches + Surplus(u, i)
    BY DEF RowsInv
  <1>2. /\ 2 ^ glitches \in Nat /\ 2 ^ (glitches + 1) \in Nat
        /\ 2 ^ (glitches + 1) = 2 ^ glitches + 2 ^ glitches
    BY PowerDoubles DEF TypeOK
  <1> DEFINE c == Count(batch[u], i)
  <1>3. /\ copies[i] \in Nat /\ LateCount(late, i) \in Nat
        /\ Count(queue, i) \in Nat /\ Count(buffer, i) \in Nat /\ Count(backlog, i) \in Nat
        /\ Total(i) \in Nat /\ Open(t, i) \in Nat /\ c \in Nat /\ Count(batch[t], i) \in Nat
    BY CountTypes
  <1> HIDE DEF c
  <1>4. CASE Acked(u) \/ Spills(u)
    <2>1. c + c <= Total(i)
      <3>1. CASE Acked(u)
        <4>1. c <= copies[i]
          BY <3>1 DEF HeldInv, c
        <4>2. c <= Count(buffer, i) \/ c <= Count(backlog, i)
          BY <3>1, BatchCounted DEF Acked, Posting, c
        <4> QED BY <1>3, <4>1, <4>2 DEF Total
      <3>2. CASE Spills(u)
        <4>1. c <= Count(backlog, i)
          BY <3>2 DEF HeldInv, c
        <4>2. c <= Count(buffer, i)
          BY <3>2, BatchCounted DEF Spills, c
        <4> QED BY <1>3, <4>1, <4>2 DEF Total
      <3> QED BY <1>4, <3>1, <3>2
    <2>2. Open(t, i) = 0
      <3>1. pc[u] \in InFlush /\ ~Sent(u)
        BY <1>4 DEF Acked, Spills, Sent, InFlush, Redis, Posting
      <3>2. Sent(t) => t = u
        BY <3>1 DEF LockInv, Sent, InFlush
      <3> QED BY <3>1, <3>2 DEF Open
    <2>3. Surplus(u, i) = c
      BY <1>4 DEF Surplus, c
    <2> QED BY <1>1, <1>2, <1>3, <2>1, <2>2, <2>3
  <1>5. CASE ~(Acked(u) \/ Spills(u))
    <2>1. Total(i) <= 2 ^ glitches
      BY <1>1, <1>2, <1>3, <1>5 DEF Surplus
    <2>2. Open(t, i) <= Total(i)
      <3>1. Sent(t) => Count(batch[t], i) <= Count(buffer, i) \/ Count(batch[t], i) <= Count(backlog, i)
        BY BatchCounted DEF Sent, Posting
      <3> QED BY <1>3, <3>1 DEF Open, Total
    <2> QED BY <1>2, <1>3, <2>1, <2>2
  <1> QED BY <1>4, <1>5

\* A fault at most makes an open request late.
LEMMA RowsGlitch ==
  ASSUME TypeOK, TypeOK', LockInv, BatchInv, HeldInv, RowsInv, glitches' = glitches + 1,
         NEW t \in Tasks, \A i \in Records : Total(i)' <= Total(i) + Open(t, i)
  PROVE  RowsInv'
  <1> SUFFICES ASSUME NEW i \in Records
               PROVE  Total(i)' <= 2 ^ (glitches') + Surplus(t, i)'
    BY DEF RowsInv
  <1>1. Surplus(t, i)' \in Nat /\ Total(i)' \in Nat /\ 2 ^ (glitches') \in Nat
    BY CountsNext DEF CountsOK
  <1>2. Total(i) + Open(t, i) <= 2 ^ (glitches')
    BY Doubling
  <1>3. Total(i)' <= Total(i) + Open(t, i)
    OBVIOUS
  <1> QED BY <1>1, <1>2, <1>3, CountTypes

\* A request given up is late if it was open.
LEMMA AbandonedCount ==
  ASSUME TypeOK, NEW t \in Tasks, NEW i \in Records
  PROVE  LateCount(Abandoned(t), i) = LateCount(late, i) + Open(t, i)
  <1>1. late \in Seq(Lists) /\ batch[t] \in Lists /\ LateCount(late, i) \in Nat
    BY LateLists, RecordLists, CountTypes DEF TypeOK
  <1> QED BY <1>1, LateAppend DEF Abandoned, Open, Sent

\* The end of the process drops what is in memory.
LEMMA GoDownTotal ==
  ASSUME TypeOK, GoDown
  PROVE  \E t \in Tasks : \A i \in Records :
           Total(i)' <= Total(i) + (IF owner = t THEN Open(t, i) ELSE 0)
  <1>1. UNCHANGED <<copies, backlog>> /\ queue' = <<>> /\ buffer' = <<>>
    BY DEF GoDown
  <1>2. PICK t \in Tasks : owner \in Tasks => owner = t
    BY DEF Tasks
  <1>3. ASSUME NEW i \in Records
        PROVE  Total(i)' <= Total(i) + (IF owner = t THEN Open(t, i) ELSE 0)
    <2>1. /\ copies[i] \in Nat /\ LateCount(late, i) \in Nat
          /\ Count(queue, i) \in Nat /\ Count(buffer, i) \in Nat /\ Count(backlog, i) \in Nat
          /\ Open(t, i) \in Nat
      BY CountTypes
    <2>2. LateCount(late', i) = LateCount(late, i) + (IF owner = t THEN Open(t, i) ELSE 0)
      <3>1. CASE owner = t
        BY <3>1, AbandonedCount DEF GoDown
      <3>2. CASE owner # t
        BY <1>2, <2>1, <3>2 DEF GoDown
      <3> QED BY <3>1, <3>2
    <2>3. Count(queue', i) = 0 /\ Count(buffer', i) = 0
      BY <1>1, CountOne
    <2> QED BY <1>1, <2>1, <2>2, <2>3 DEF Total
  <1> QED BY <1>3

-----------------------------------------------------------------------------
(* Every step keeps these invariants.                                      *)

\* A task that is not dead moves, and stop() does not end a loop by it.
LEMMA MoveStopped ==
  ASSUME TypeOK, StoppedInv, NEW t \in Tasks, NEW p, pc[t] # "dead",
         pc' = [pc EXCEPT ![t] = p], t = "stop" => p \notin {"cancelProc", "done"}
  PROVE  StoppedInv'
  BY DEF TypeOK, StoppedInv, Tasks

\* Calling and leaving flush() are such moves.
LEMMA FlushStopped ==
  ASSUME TypeOK, StoppedInv, NEW t \in Tasks, pc[t] # "dead",
         CallFlush(t) \/ LeaveFlush(t) \/ \E p \in InFlush : \E b : Send(t, p, b)
  PROVE  StoppedInv'
  <1>1. CASE CallFlush(t)
    BY <1>1, MoveStopped DEF CallFlush
  <1>2. CASE LeaveFlush(t)
    <2>1. pc' = [pc EXCEPT ![t] = AfterFlush(t)]
      BY <1>2 DEF LeaveFlush
    <2>2. t = "stop" => AfterFlush(t) \notin {"cancelProc", "done"}
      BY DEF AfterFlush
    <2> QED BY <2>1, <2>2, MoveStopped
  <1>3. CASE \E p \in InFlush : \E b : Send(t, p, b)
    <2>1. PICK p \in InFlush : pc' = [pc EXCEPT ![t] = p]
      BY <1>3 DEF Send
    <2>2. p \notin {"cancelProc", "done"}
      BY OutsidePoints
    <2> QED BY <2>1, <2>2, MoveStopped
  <1> QED BY <1>1, <1>2, <1>3

LEMMA StoppedStep == TypeOK /\ StoppedInv /\ [Next]_vars => StoppedInv'
  <1> SUFFICES ASSUME TypeOK, StoppedInv, [Next]_vars PROVE StoppedInv'
    OBVIOUS
  <1> USE DEF lockVars, netVars, memVars, ghostVars, faultVars
  <1>0. "proc" \in Tasks /\ "timer" \in Tasks /\ "stop" \in Tasks
    BY DEF Tasks
  <1>1. CASE UNCHANGED pc
    BY <1>1 DEF StoppedInv
  <1>2. CASE OnMessage \/ PutCallback \/ Ingest \/ LateCommit \/ LateLost \/ UNCHANGED vars
    BY <1>1, <1>2 DEF OnMessage, PutCallback, Ingest, Enqueue, LateCommit, LateLost, vars
  <1>3. CASE Process
    BY <1>0, <1>1, <1>3, FlushStopped DEF Process
  <1>4. CASE TimerFires \/ StopFlushes
    BY <1>0, <1>4, FlushStopped DEF TimerFires, StopFlushes
  <1>5. ASSUME NEW t \in Tasks, GetLock(t) PROVE StoppedInv'
    BY <1>5, MoveStopped DEF GetLock
  <1>6. ASSUME NEW t \in Tasks, BacklogRead(t) PROVE StoppedInv'
    <2>1. {"postBacklog", "postBuffer"} \subseteq InFlush
      BY DEF InFlush, Posting
    <2> QED BY <1>6, <2>1, FlushStopped DEF BacklogRead, BufferLoop
  <1>7. ASSUME NEW t \in Tasks, PostReturns(t) PROVE StoppedInv'
    <2>1. {"ltrim", "rpush", "postBuffer"} \subseteq InFlush /\ pc[t] # "dead"
      BY <1>7 DEF InFlush, Posting, Redis, PostReturns
    <2>2. \/ Send(t, "ltrim", batch[t]) \/ Send(t, "rpush", batch[t])
          \/ LeaveFlush(t) \/ BufferLoop(t, buffer')
      BY <1>7 DEF PostReturns
    <2> QED BY <2>1, <2>2, FlushStopped DEF BufferLoop
  <1>8. ASSUME NEW t \in Tasks, RedisReturns(t) PROVE StoppedInv'
    <2>1. pc[t] # "dead"
      BY <1>8 DEF RedisReturns
    <2>2. pc' = [pc EXCEPT ![t] = "lrange"] \/ LeaveFlush(t)
      BY <1>8 DEF RedisReturns
    <2> QED BY <2>1, <2>2, MoveStopped, FlushStopped
  <1>9. ASSUME NEW t \in Tasks,
               RedisApplies(t) \/ StoreAnswers(t) \/ PostTimesOut(t) \/ ReplyLost(t)
        PROVE  StoppedInv'
    BY <1>1, <1>9
    DEF RedisApplies, StoreAnswers, StoreCommits, StoreRefuses, PostTimesOut, ReplyLost
  <1>10. CASE GoDown
    BY <1>0, <1>10 DEF GoDown, StoppedInv
  <1>11. ASSUME NEW t \in Tasks, RedisRaises(t) PROVE StoppedInv'
    <2>1. pc[t] # "dead"
      BY <1>11 DEF RedisRaises, Redis
    <2> QED BY <1>10, <1>11, <2>1, FlushStopped DEF RedisRaises
  <1>12. CASE BeginStop
    BY <1>0, <1>12, MoveStopped DEF BeginStop
  <1>13. CASE CancelTimer
    <2>1. pc' = [pc EXCEPT !["timer"] = "dead", !["stop"] = "cancelProc"]
      BY <1>13 DEF CancelTimer, CancelTask
    <2>2. pc'["timer"] = "dead" /\ pc'["stop"] = "cancelProc"
      BY <1>0, <2>1 DEF TypeOK
    <2> QED BY <2>2 DEF StoppedInv
  <1>14. CASE CancelProc
    <2>1. pc' = [pc EXCEPT !["proc"] = "dead", !["stop"] = "done"] /\ pc["timer"] = "dead"
      BY <1>14 DEF CancelProc, CancelTask, StoppedInv
    <2>2. pc'["proc"] = "dead" /\ pc'["timer"] = "dead"
      BY <1>0, <2>1 DEF TypeOK
    <2> QED BY <2>2 DEF StoppedInv
  <1>15. CASE Exit \/ Crash
    BY <1>10, <1>15 DEF Exit, Crash
  <1>16. CASE Restart
    BY <1>16 DEF Restart, FirstPC, StoppedInv, Tasks
  <1> QED
    BY <1>2, <1>3, <1>4, <1>5, <1>6, <1>7, <1>8, <1>9, <1>11, <1>12, <1>13, <1>14, <1>15, <1>16
    DEF Next, FlushStep, Fault, StopStep

\* The Store gets rows of accepted records only.
LEMMA StoredStep == TypeOK /\ KnownInv /\ StoredKnown /\ [Next]_vars => StoredKnown'
  <1> SUFFICES ASSUME TypeOK, KnownInv, StoredKnown, [Next]_vars PROVE StoredKnown'
    OBVIOUS
  <1> USE DEF lockVars, netVars, memVars, ghostVars, faultVars
  <1>1. ASSUME UNCHANGED copies, accepted' = accepted \/ accepted' = accepted + 1 PROVE StoredKnown'
    <2>1. Accepted \subseteq Accepted'
      BY <1>1 DEF Accepted, TypeOK
    <2> QED BY <1>1, <2>1 DEF StoredKnown, Stored
  <1>2. ASSUME NEW b \in Seq(Records), Range(b) \subseteq Accepted, AddRows(b), accepted' = accepted
        PROVE  StoredKnown'
    <2>1. Stored' = Stored \cup Range(b)
      BY <1>2, AddRowsProperties DEF TypeOK
    <2>2. Accepted' = Accepted
      BY <1>2 DEF Accepted
    <2> QED BY <1>2, <2>1, <2>2 DEF StoredKnown
  <1>3. CASE OnMessage \/ PutCallback \/ Ingest \/ LateLost \/ UNCHANGED vars
    BY <1>1, <1>3 DEF OnMessage, PutCallback, Ingest, Enqueue, LateLost, vars
  <1>4. CASE Process \/ TimerFires \/ BeginStop \/ Restart
    BY <1>1, <1>4 DEF Process, TimerFires, BeginStop, Restart
  <1>5. ASSUME NEW t \in Tasks, FlushStep(t) PROVE StoredKnown'
    <2>1. UNCHANGED <<copies, accepted>>
      BY <1>5 DEF FlushStep, GetLock, BacklogRead, PostReturns, RedisApplies, RedisReturns
    <2> QED BY <1>1, <2>1
  <1>6. ASSUME NEW t \in Tasks, StoreCommits(t) PROVE StoredKnown'
    <2>1. batch[t] \in Seq(Records) /\ Range(batch[t]) \subseteq Accepted
      BY KnownRanges DEF TypeOK
    <2> QED BY <1>2, <1>6, <2>1 DEF StoreCommits
  <1>7. ASSUME NEW t \in Tasks, StoreRefuses(t) \/ Fault(t) PROVE StoredKnown'
    <2>1. UNCHANGED <<copies, accepted>>
      BY <1>7 DEF StoreRefuses, Fault, PostTimesOut, ReplyLost, RedisRaises, GoDown
    <2> QED BY <1>1, <2>1
  <1>8. CASE LateCommit
    <2>1. PICK k \in 1 .. Len(late) : AddRows(late[k])
      BY <1>8 DEF LateCommit
    <2>2. late[k] \in Seq(Records) /\ Range(late[k]) \subseteq Accepted
      BY ElementOfSeq, KnownRanges DEF TypeOK
    <2> QED BY <1>2, <1>8, <2>1, <2>2 DEF LateCommit
  <1>9. CASE StopStep \/ Crash
    <2>1. UNCHANGED <<copies, accepted>>
      BY <1>9
      DEF StopStep, StopFlushes, CancelTimer, CancelProc, CancelTask, Exit, Crash, GoDown
    <2> QED BY <1>1, <2>1
  <1> QED BY <1>3, <1>4, <1>5, <1>6, <1>7, <1>8, <1>9 DEF Next, StoreAnswers

\* Steps that leave the batches with an answer alone keep what it says.
LEMMA HeldFrame ==
  ASSUME TypeOK, HeldInv, backlog' = backlog,
         \A i \in Records : copies[i] <= copies'[i] /\ copies'[i] \in Nat,
         \A u \in Tasks : (Acked(u)' => Acked(u) /\ batch'[u] = batch[u])
                          /\ (Spills(u)' => Spills(u) /\ batch'[u] = batch[u])
  PROVE  HeldInv'
  <1> SUFFICES ASSUME NEW i \in Records, NEW t \in Tasks
               PROVE  /\ Acked(t)' => Count(batch'[t], i) <= copies'[i]
                      /\ Spills(t)' => Count(batch'[t], i) <= Count(backlog', i)
    BY DEF HeldInv
  <1>1. copies[i] \in Nat /\ Count(batch[t], i) \in Nat
    BY CountTypes
  <1>2. Acked(t) => Count(batch[t], i) <= copies[i]
    BY DEF HeldInv
  <1>3. Spills(t) => Count(batch[t], i) <= Count(backlog, i)
    BY DEF HeldInv
  <1>4. copies[i] <= copies'[i] /\ copies'[i] \in Nat
    OBVIOUS
  <1> QED BY <1>1, <1>2, <1>3, <1>4

\* Points at which a task holds no answer.
LEMMA PlainPoints ==
  /\ \A t \in Tasks : pc'[t] \notin {"postBacklog", "postBuffer", "ltrim", "rpush"}
                        => ~Acked(t)' /\ ~Spills(t)'
  /\ \A t \in Tasks : pc[t] \notin {"postBacklog", "postBuffer", "ltrim", "rpush"}
                        => ~Acked(t) /\ ~Spills(t)
  BY DEF Acked, Spills, Posting

LEMMA HeldStep == TypeOK /\ TypeOK' /\ LockInv /\ HeldInv /\ [Next]_vars => HeldInv'
  <1> SUFFICES ASSUME TypeOK, TypeOK', LockInv, HeldInv, [Next]_vars PROVE HeldInv'
    OBVIOUS
  <1> USE DEF lockVars, netVars, memVars, ghostVars, faultVars
  <1>0. "proc" \in Tasks /\ "timer" \in Tasks /\ "stop" \in Tasks
    BY DEF Tasks
  \* Only task t moves, to a point at which it has no answer.
  <1>1. ASSUME NEW t \in Tasks, UNCHANGED <<backlog, copies>>,
               \A u \in Tasks \ {t} : pc'[u] = pc[u] /\ batch'[u] = batch[u] /\ net'[u] = net[u],
               ~Acked(t)' /\ ~Spills(t)'
        PROVE  HeldInv'
    <2>1. \A i \in Records : copies[i] <= copies'[i] /\ copies'[i] \in Nat
      BY <1>1 DEF TypeOK
    <2>2. \A u \in Tasks \ {t} : (Acked(u)' <=> Acked(u)) /\ (Spills(u)' <=> Spills(u))
      BY <1>1 DEF Acked, Spills
    <2> QED BY <1>1, <2>1, <2>2, HeldFrame
  <1>2. ASSUME UNCHANGED <<backlog, netVars>>,
               \A i \in Records : copies[i] <= copies'[i] /\ copies'[i] \in Nat
        PROVE  HeldInv'
    BY <1>2, HeldFrame DEF Acked, Spills
  <1>3. ASSUME UNCHANGED <<backlog, copies, netVars>> PROVE HeldInv'
    BY <1>2, <1>3 DEF TypeOK
  <1>4. CASE OnMessage \/ PutCallback \/ Ingest \/ LateLost \/ UNCHANGED vars
    BY <1>3, <1>4 DEF OnMessage, PutCallback, Ingest, Enqueue, LateLost, vars
  <1>5. ASSUME NEW t \in Tasks, CallFlush(t), UNCHANGED <<backlog, copies, batch, net>>
        PROVE  HeldInv'
    <2>1. pc'[t] \in {"lrange", "lock"} /\ \A u \in Tasks \ {t} : pc'[u] = pc[u]
      BY <1>5, CallFlushStays
    <2> QED BY <1>1, <1>5, <2>1, PlainPoints
  <1>6. CASE Process \/ TimerFires \/ StopFlushes
    BY <1>0, <1>3, <1>5, <1>6 DEF Process, TimerFires, StopFlushes
  <1>7. ASSUME NEW t \in Tasks, LeaveFlush(t), UNCHANGED <<backlog, copies>> PROVE HeldInv'
    <2>1. pc'[t] = AfterFlush(t)
          /\ \A u \in Tasks \ {t} : pc'[u] = pc[u] /\ batch'[u] = batch[u] /\ net'[u] = net[u]
      BY <1>7 DEF LeaveFlush, TypeOK
    <2>2. AfterFlush(t) \notin {"postBacklog", "postBuffer", "ltrim", "rpush"}
      BY DEF AfterFlush, Tasks
    <2> QED BY <1>1, <1>7, <2>1, <2>2, PlainPoints
  <1>8. ASSUME NEW t \in Tasks, NEW p \in InFlush, p # "ltrim", NEW b, Send(t, p, b),
               UNCHANGED <<backlog, copies>>
        PROVE  HeldInv'
    <2>1. /\ pc'[t] = p /\ net'[t] = "sent"
          /\ \A u \in Tasks \ {t} : pc'[u] = pc[u] /\ batch'[u] = batch[u] /\ net'[u] = net[u]
      BY <1>8 DEF Send, TypeOK
    <2>2. ~Acked(t)' /\ ~Spills(t)'
      BY <1>8, <2>1 DEF Acked, Spills
    <2> QED BY <1>1, <1>8, <2>1, <2>2
  <1>9. ASSUME NEW t \in Tasks, GetLock(t) PROVE HeldInv'
    <2>1. pc'[t] = "lrange" /\ \A u \in Tasks \ {t} : pc'[u] = pc[u]
      BY <1>9 DEF GetLock, TypeOK
    <2> QED BY <1>1, <1>9, <2>1, PlainPoints DEF GetLock
  <1>10. ASSUME NEW t \in Tasks, BacklogRead(t) PROVE HeldInv'
    <2>1. {"postBacklog", "postBuffer"} \subseteq InFlush
      BY DEF InFlush, Posting
    <2> QED BY <1>7, <1>8, <1>10, <2>1 DEF BacklogRead, BufferLoop
  <1>11. ASSUME NEW t \in Tasks, PostReturns(t) PROVE HeldInv'
    <2>1. {"rpush", "postBuffer"} \subseteq InFlush /\ UNCHANGED <<backlog, copies>>
      BY <1>11 DEF InFlush, Posting, Redis, PostReturns
    <2>2. \/ pc[t] = "postBacklog" /\ net[t] = "applied" /\ Send(t, "ltrim", batch[t])
          \/ Send(t, "rpush", batch[t])
          \/ LeaveFlush(t) \/ BufferLoop(t, buffer')
      BY <1>11 DEF PostReturns
    <2>3. CASE pc[t] = "postBacklog" /\ net[t] = "applied" /\ Send(t, "ltrim", batch[t])
      <3>1. /\ pc'[t] = "ltrim" /\ batch'[t] = batch[t]
            /\ \A u \in Tasks \ {t} : pc'[u] = pc[u] /\ batch'[u] = batch[u] /\ net'[u] = net[u]
        BY <2>3 DEF Send, TypeOK
      <3>2. Acked(t) /\ ~Spills(t)'
        BY <2>3, <3>1 DEF Acked, Spills, Posting
      <3>3. \A u \in Tasks \ {t} : (Acked(u)' <=> Acked(u)) /\ (Spills(u)' <=> Spills(u))
        BY <3>1 DEF Acked, Spills
      <3>4. \A i \in Records : copies[i] <= copies'[i] /\ copies'[i] \in Nat
        BY <2>1 DEF TypeOK
      <3> QED BY <2>1, <3>1, <3>2, <3>3, <3>4, HeldFrame
    <2> QED BY <1>7, <1>8, <2>1, <2>2, <2>3 DEF BufferLoop
  <1>12. ASSUME NEW t \in Tasks, RedisApplies(t) PROVE HeldInv'
    <2>1. /\ pc[t] \in {"ltrim", "rpush"} /\ UNCHANGED <<copies, pc, batch>> /\ net'[t] = "applied"
          /\ \A u \in Tasks \ {t} : net'[u] = net[u]
      BY <1>12 DEF RedisApplies, TypeOK
    <2>2. \A u \in Tasks \ {t} : pc[u] \notin InFlush
      BY <2>1, InsideAlone DEF InFlush, Redis
    <2>3. \A u \in Tasks \ {t} : ~Acked(u)' /\ ~Spills(u)'
      BY <2>1, <2>2 DEF Acked, Spills, InFlush, Redis
    <2>4. ~Acked(t)' /\ (Spills(t)' => pc[t] = "rpush")
      BY <2>1 DEF Acked, Spills, Posting
    <2>5. ASSUME NEW i \in Records, pc[t] = "rpush" PROVE Count(batch[t], i) <= Count(backlog', i)
      <3>1. backlog' = backlog \o batch[t] /\ batch[t] \in Seq(Records) /\ backlog \in Seq(Records)
        BY <1>12, <2>5 DEF RedisApplies, TypeOK
      <3>2. Count(backlog', i) = Count(backlog, i) + Count(batch[t], i)
        BY <3>1, CountBehind
      <3> QED BY <3>2, CountTypes
    <2> QED BY <2>1, <2>3, <2>4, <2>5 DEF HeldInv
  <1>13. ASSUME NEW t \in Tasks, RedisReturns(t) PROVE HeldInv'
    <2>1. CASE /\ pc' = [pc EXCEPT ![t] = "lrange"]
               /\ batch' = [batch EXCEPT ![t] = <<>>]
               /\ net' = [net EXCEPT ![t] = "none"]
      <3>1. /\ pc'[t] = "lrange"
            /\ \A u \in Tasks \ {t} : pc'[u] = pc[u] /\ batch'[u] = batch[u] /\ net'[u] = net[u]
        BY <2>1 DEF TypeOK
      <3> QED BY <1>1, <1>13, <3>1, PlainPoints DEF RedisReturns
    <2> QED BY <1>7, <1>13, <2>1 DEF RedisReturns
  <1>14. ASSUME NEW t \in Tasks, StoreCommits(t) PROVE HeldInv'
    <2>1. /\ pc[t] \in Posting /\ UNCHANGED <<pc, batch, backlog>> /\ AddRows(batch[t])
          /\ \A u \in Tasks \ {t} : net'[u] = net[u]
      BY <1>14 DEF StoreCommits, TypeOK
    <2>2. \A u \in Tasks \ {t} : pc[u] \notin InFlush
      BY <2>1, InsideAlone DEF InFlush
    <2>3. \A u \in Tasks \ {t} : ~Acked(u)' /\ ~Spills(u)'
      BY <2>1, <2>2 DEF Acked, Spills, InFlush, Redis
    <2>4. ~Spills(t)'
      BY <2>1 DEF Spills, Posting
    <2>5. \A i \in Records : Count(batch[t], i) <= copies'[i]
      BY <2>1, AddRowsCount, CountTypes
    <2> QED BY <2>1, <2>3, <2>4, <2>5 DEF HeldInv
  <1>15. ASSUME NEW t \in Tasks, StoreRefuses(t) \/ PostTimesOut(t) \/ ReplyLost(t) PROVE HeldInv'
    <2>1. /\ UNCHANGED <<pc, batch, backlog, copies>> /\ net'[t] = "refused"
          /\ \A u \in Tasks \ {t} : net'[u] = net[u]
      BY <1>15 DEF StoreRefuses, PostTimesOut, ReplyLost, TypeOK
    <2>2. ~Acked(t)' /\ ~Spills(t)'
      BY <2>1 DEF Acked, Spills
    <2> QED BY <1>1, <2>1, <2>2
  <1>16. CASE GoDown
    <2>1. \A u \in Tasks : ~Acked(u)' /\ ~Spills(u)'
      BY <1>16, PlainPoints DEF GoDown
    <2> QED BY <2>1 DEF HeldInv
  <1>17. ASSUME NEW t \in Tasks, RedisRaises(t) PROVE HeldInv'
    BY <1>7, <1>16, <1>17 DEF RedisRaises
  <1>18. CASE LateCommit
    <2>1. PICK k \in 1 .. Len(late) : AddRows(late[k])
      BY <1>18 DEF LateCommit
    <2>2. late[k] \in Lists
      BY ElementOfSeq, RecordLists DEF TypeOK
    <2>3. \A i \in Records : copies[i] <= copies'[i] /\ copies'[i] \in Nat
      BY <2>1, <2>2, AddRowsCount, PlacesFinite, CountTypes
    <2> QED BY <1>2, <1>18, <2>3 DEF LateCommit
  <1>19. CASE BeginStop
    <2>1. pc'["stop"] = "join" /\ \A u \in Tasks \ {"stop"} : pc'[u] = pc[u]
      BY <1>0, <1>19 DEF BeginStop, TypeOK
    <2> QED BY <1>0, <1>1, <1>19, <2>1, PlainPoints DEF BeginStop
  <1>20. ASSUME NEW t \in {"timer", "proc"}, NEW next \in {"cancelProc", "done"}, CancelTask(t, next)
         PROVE  HeldInv'
    <2>1. /\ pc'[t] = "dead" /\ pc'["stop"] = next /\ t \in Tasks /\ t # "stop"
          /\ \A u \in Tasks \ {t} : batch'[u] = batch[u] /\ net'[u] = net[u]
          /\ \A u \in Tasks \ {t, "stop"} : pc'[u] = pc[u]
          /\ UNCHANGED <<backlog, copies>>
      BY <1>20 DEF CancelTask, TypeOK, Tasks
    <2>2. ~Acked(t)' /\ ~Spills(t)' /\ ~Acked("stop")' /\ ~Spills("stop")'
      BY <1>0, <2>1, PlainPoints
    <2>3. \A u \in Tasks \ {t, "stop"} : (Acked(u)' <=> Acked(u)) /\ (Spills(u)' <=> Spills(u))
      BY <2>1 DEF Acked, Spills
    <2>4. \A i \in Records : copies[i] <= copies'[i] /\ copies'[i] \in Nat
      BY <2>1 DEF TypeOK
    <2> QED BY <2>1, <2>2, <2>3, <2>4, HeldFrame
  <1>21. CASE CancelTimer \/ CancelProc
    BY <1>20, <1>21 DEF CancelTimer, CancelProc
  <1>22. CASE Exit \/ Crash
    BY <1>16, <1>22 DEF Exit, Crash
  <1>23. CASE Restart
    <2>1. \A u \in Tasks : ~Acked(u)' /\ ~Spills(u)'
      BY <1>23, PlainPoints DEF Restart, FirstPC, Tasks
    <2> QED BY <2>1 DEF HeldInv
  <1> QED
    BY <1>4, <1>6, <1>9, <1>10, <1>11, <1>12, <1>13, <1>14, <1>15, <1>17, <1>18, <1>19, <1>21,
       <1>22, <1>23
    DEF Next, FlushStep, StoreAnswers, Fault, StopStep

\* A record that was not accepted yet is nowhere.
LEMMA CountUnknown ==
  ASSUME TypeOK, KnownInv, StoredKnown, NEW i \in Records, i \notin Accepted
  PROVE  Total(i) = 0
  <1>1. ASSUME NEW b \in Seq(Accepted) PROVE Count(b, i) = 0
    <2>1. Places(b, i) = {}
      <3>1. \A k \in DOMAIN b : b[k] \in Accepted
        BY ElementOfSeq
      <3> QED BY <3>1 DEF Places
    <2> QED BY <2>1, FS_EmptySet DEF Count, Places
  <1>2. Count(queue, i) = 0 /\ Count(buffer, i) = 0 /\ Count(backlog, i) = 0
    BY <1>1 DEF KnownInv
  <1>3. LateCount(late, i) = 0
    <2>1. LatePlaces(late, i) = {}
      <3>1. ASSUME NEW p \in LatePlaces(late, i) PROVE FALSE
        <4>1. p[1] \in 1 .. Len(late) /\ p[2] \in DOMAIN late[p[1]] /\ late[p[1]][p[2]] = i
          BY <3>1 DEF LatePlaces
        <4>2. late[p[1]] \in Seq(Accepted)
          BY <4>1, KnownRanges
        <4>3. late[p[1]][p[2]] \in Accepted
          BY <4>1, <4>2, ElementOfSeq
        <4> QED BY <4>1, <4>3
      <3> QED BY <3>1
    <2> QED BY <2>1, FS_EmptySet DEF LateCount
  <1>4. copies[i] = 0
    BY DEF StoredKnown, Stored, TypeOK
  <1> QED BY <1>2, <1>3, <1>4 DEF Total

\* A new record occurs once.
LEMMA EnqueueRows ==
  ASSUME TypeOK, TypeOK', KnownInv, StoredKnown, RowsInv, Enqueue
  PROVE  RowsInv'
  <1>1. /\ UNCHANGED <<copies, late, buffer, backlog, pc, batch, net, glitches>>
        /\ queue' = Append(queue, accepted + 1) /\ queue \in Seq(Records)
    BY DEF Enqueue, netVars, faultVars, TypeOK
  <1>2. accepted + 1 \in Records /\ accepted + 1 \notin Accepted
    <2>1. accepted \in Nat /\ accepted' = accepted + 1 /\ accepted' <= MaxItems /\ MaxItems \in Nat
      BY HubAssumption DEF Enqueue, TypeOK
    <2> QED BY <2>1 DEF Records, Accepted
  <1>3. ASSUME NEW i \in Records
        PROVE  Total(i)' = Total(i) + (IF accepted + 1 = i THEN 1 ELSE 0)
    <2>1. Count(queue', i) = Count(queue, i) + (IF accepted + 1 = i THEN 1 ELSE 0)
      BY <1>1, <1>2, CountAppend
    <2>2. /\ copies[i] \in Nat /\ LateCount(late, i) \in Nat /\ Count(queue, i) \in Nat
          /\ Count(buffer, i) \in Nat /\ Count(backlog, i) \in Nat
      BY CountTypes
    <2>3. /\ copies'[i] = copies[i] /\ LateCount(late', i) = LateCount(late, i)
          /\ Count(buffer', i) = Count(buffer, i) /\ Count(backlog', i) = Count(backlog, i)
      BY <1>1
    <2> QED BY <2>1, <2>2, <2>3 DEF Total
  <1> SUFFICES ASSUME NEW i \in Records
               PROVE  \E t \in Tasks : Total(i)' <= 2 ^ (glitches') + Surplus(t, i)'
    BY DEF RowsInv
  <1>4. PICK t \in Tasks : Total(i) <= 2 ^ glitches + Surplus(t, i)
    BY DEF RowsInv
  <1>5. Surplus(t, i)' = Surplus(t, i) /\ 2 ^ (glitches') = 2 ^ glitches
    BY <1>1 DEF Surplus, Acked, Spills
  <1>6. CASE i = accepted + 1
    <2>1. Total(i) = 0
      BY <1>2, <1>6, CountUnknown
    <2>2. Total(i)' = 1
      BY <1>3, <1>6, <2>1
    <2> QED BY <1>5, <2>2, CountTypes
  <1>7. CASE i # accepted + 1
    <2>1. Total(i)' = Total(i)
      BY <1>3, <1>7, CountTypes
    <2> QED BY <1>4, <1>5, <2>1
  <1> QED BY <1>6, <1>7

\* A record that moves from the queue to the buffer occurs as often.
LEMMA ProcessTotal ==
  ASSUME TypeOK, Process, NEW i \in Records
  PROVE  Total(i)' = Total(i)
  <1>1. /\ queue # <<>> /\ queue' = Tail(queue) /\ buffer' = Append(buffer, Head(queue))
        /\ UNCHANGED <<copies, late, backlog>> /\ queue \in Seq(Records) /\ buffer \in Seq(Records)
    BY DEF Process, faultVars, TypeOK
  <1>2. Count(queue, i) = Count(queue', i) + (IF Head(queue) = i THEN 1 ELSE 0)
        /\ Head(queue) \in Records
    BY <1>1, CountTail
  <1>3. Count(buffer', i) = Count(buffer, i) + (IF Head(queue) = i THEN 1 ELSE 0)
    BY <1>1, <1>2, CountAppend
  <1>4. Count(queue', i) \in Nat
    <2>1. Tail(queue) \in Seq(Records)
      BY <1>1, HeadTailProperties
    <2> QED BY <1>1, <2>1, RecordLists, PlacesFinite
  <1>5. /\ copies[i] \in Nat /\ LateCount(late, i) \in Nat /\ Count(queue, i) \in Nat
        /\ Count(buffer, i) \in Nat /\ Count(backlog, i) \in Nat
    BY CountTypes
  <1>6. /\ copies'[i] = copies[i] /\ LateCount(late', i) = LateCount(late, i)
        /\ Count(backlog', i) = Count(backlog, i)
    BY <1>1
  <1> QED BY <1>2, <1>3, <1>4, <1>5, <1>6 DEF Total

\* A request that is over leaves the late ones, whether or not it was served.
LEMMA LateTotal ==
  ASSUME TypeOK, LateCommit \/ LateLost, NEW i \in Records
  PROVE  Total(i)' <= Total(i)
  <1>1. PICK k \in 1 .. Len(late) :
          late' = RemoveAt(late, k) /\ (AddRows(late[k]) \/ UNCHANGED copies)
    BY DEF LateCommit, LateLost
  <1>2. UNCHANGED <<queue, buffer, backlog>>
    BY DEF LateCommit, LateLost, memVars
  <1>3. late \in Seq(Lists) /\ late[k] \in Lists
    BY LateLists, LateElement DEF TypeOK
  <1>4. LateCount(late, i) = LateCount(late', i) + Count(late[k], i)
    BY <1>1, <1>3, LateRemove
  <1>5. Count(late[k], i) \in Nat /\ LateCount(late', i) \in Nat
    <2>1. late' \in Seq(Lists)
      BY <1>1, <1>3, LateRemove
    <2> QED BY <1>3, <2>1, PlacesFinite, LateFinite
  <1>6. copies'[i] = copies[i] + Count(late[k], i) \/ copies'[i] = copies[i]
    BY <1>1, AddRowsCount
  <1>7. /\ copies[i] \in Nat /\ LateCount(late, i) \in Nat /\ Count(queue, i) \in Nat
        /\ Count(buffer, i) \in Nat /\ Count(backlog, i) \in Nat
    BY CountTypes
  <1>8. /\ Count(queue', i) = Count(queue, i) /\ Count(buffer', i) = Count(buffer, i)
        /\ Count(backlog', i) = Count(backlog, i)
    BY <1>2
  <1>9. copies'[i] + LateCount(late', i) <= copies[i] + LateCount(late, i)
    BY <1>4, <1>5, <1>6, <1>7
  <1>10. copies'[i] \in Nat
    BY <1>5, <1>6, <1>7
  <1> QED BY <1>5, <1>7, <1>8, <1>9, <1>10, SMTT(30) DEF Total

\* A step that leaves lists, rows and late requests alone.
LEMMA SameTotal ==
  ASSUME TypeOK, UNCHANGED <<copies, late, queue, buffer, backlog>>
  PROVE  \A i \in Records : Total(i)' = Total(i)
  BY DEF Total

\* What a task counts twice after it sent a request or left flush().
LEMMA SurplusAfter ==
  ASSUME TypeOK, NEW t \in Tasks, NEW i \in Records
  PROVE  /\ LeaveFlush(t) => Surplus(t, i)' = 0
         /\ \A b : \A p \in InFlush \ {"ltrim"} : Send(t, p, b) => Surplus(t, i)' = 0
         /\ \A b : Send(t, "ltrim", b) => Surplus(t, i)' = Count(b, i)
  <1>1. ASSUME LeaveFlush(t) PROVE Surplus(t, i)' = 0
    <2>1. net'[t] = "none" /\ pc'[t] = AfterFlush(t)
      BY <1>1 DEF LeaveFlush, TypeOK
    <2>2. AfterFlush(t) \notin {"ltrim", "rpush"}
      BY DEF AfterFlush, Tasks
    <2> QED BY <2>1, <2>2 DEF Surplus, Acked, Spills
  <1>2. ASSUME NEW b, NEW p \in InFlush, Send(t, p, b)
        PROVE  Surplus(t, i)' = IF p = "ltrim" THEN Count(b, i) ELSE 0
    <2>1. net'[t] = "sent" /\ pc'[t] = p /\ batch'[t] = b
      BY <1>2 DEF Send, TypeOK
    <2> QED BY <2>1 DEF Surplus, Acked, Spills
  <1>3. "ltrim" \in InFlush
    BY DEF InFlush, Redis
  <1> QED BY <1>1, <1>2, <1>3

\* Deleting the batch of a flush from the buffer.
LEMMA DeleteTotal ==
  ASSUME TypeOK, NEW t \in Tasks, IsPrefix(batch[t], buffer), buffer' = Without(buffer, batch[t]),
         UNCHANGED <<copies, late, queue, backlog>>, NEW i \in Records
  PROVE  Total(i)' + Count(batch[t], i) = Total(i)
  <1>1. batch[t] \in Seq(Records) /\ buffer \in Seq(Records)
    BY DEF TypeOK
  <1>2. Count(buffer, i) = Count(batch[t], i) + Count(buffer', i)
    BY <1>1, CountWithout
  <1>3. Count(buffer', i) \in Nat
    BY <1>1, WithoutType, RecordLists, PlacesFinite
  <1> QED BY <1>2, <1>3, CountTypes DEF Total

\* The answer of the Store.
LEMMA PostRows ==
  ASSUME TypeOK, TypeOK', LockInv, BatchInv, RowsInv, NEW t \in Tasks, PostReturns(t)
  PROVE  RowsInv'
  <1> USE DEF faultVars, ghostVars
  <1>1. /\ pc[t] \in InFlush /\ glitches' = glitches /\ UNCHANGED <<copies, late, queue, backlog>>
        /\ {"postBuffer", "rpush"} \subseteq InFlush \ {"ltrim"}
    BY DEF PostReturns, InFlush, Posting, Redis
  <1> SUFFICES ASSUME NEW i \in Records
               PROVE  Total(i)' + Surplus(t, i) <= Total(i) + Surplus(t, i)'
    BY <1>1, RowsFlush
  <1>2. Total(i) \in Nat /\ Surplus(t, i) \in Nat /\ Count(batch[t], i) \in Nat
    BY CountTypes
  <1>3. Total(i)' \in Nat /\ Surplus(t, i)' \in Nat
    BY CountsNext DEF CountsOK
  <1>4. CASE pc[t] = "postBacklog" /\ net[t] = "applied" /\ Send(t, "ltrim", batch[t]) /\ UNCHANGED buffer
    <2>1. Total(i)' = Total(i)
      BY <1>1, <1>4, SameTotal
    <2>2. Surplus(t, i) = Count(batch[t], i) /\ Surplus(t, i)' = Count(batch[t], i)
      BY <1>4, SurplusAfter DEF Surplus, Acked, Posting
    <2> QED BY <1>2, <2>1, <2>2
  <1>5. CASE net[t] = "refused" /\ (LeaveFlush(t) \/ Send(t, "rpush", batch[t])) /\ UNCHANGED buffer
    <2>1. Total(i)' = Total(i)
      BY <1>1, <1>5, SameTotal
    <2>2. Surplus(t, i) = 0
      BY <1>5 DEF Surplus, Acked, Spills
    <2> QED BY <1>2, <1>3, <2>1, <2>2
  <1>6. CASE /\ pc[t] = "postBuffer" /\ net[t] = "applied"
             /\ buffer' = Without(buffer, batch[t]) /\ BufferLoop(t, buffer')
    <2>1. Total(i)' + Count(batch[t], i) = Total(i)
      BY <1>1, <1>6, DeleteTotal DEF BatchInv, DeletesWhatItSent
    <2>2. Surplus(t, i) = Count(batch[t], i)
      BY <1>6 DEF Surplus, Acked, Posting
    <2> QED BY <1>2, <1>3, <2>1, <2>2
  <1> QED BY <1>4, <1>5, <1>6 DEF PostReturns

\* Redis executes a command.
LEMMA RedisRows ==
  ASSUME TypeOK, TypeOK', LockInv, BatchInv, RowsInv, NEW t \in Tasks, RedisApplies(t)
  PROVE  RowsInv'
  <1> USE DEF faultVars, memVars
  <1>1. /\ pc[t] \in InFlush /\ glitches' = glitches /\ UNCHANGED <<copies, late, queue, buffer, pc, batch>>
        /\ net[t] = "sent" /\ net'[t] = "applied"
        /\ batch[t] \in Seq(Records) /\ backlog \in Seq(Records)
    BY DEF RedisApplies, InFlush, Redis, TypeOK
  <1> SUFFICES ASSUME NEW i \in Records
               PROVE  Total(i)' + Surplus(t, i) <= Total(i) + Surplus(t, i)'
    BY <1>1, RowsFlush
  <1> DEFINE c == Count(batch[t], i)
  <1>2. /\ Total(i) \in Nat /\ c \in Nat /\ Count(backlog, i) \in Nat
        /\ copies[i] \in Nat /\ LateCount(late, i) \in Nat /\ Count(queue, i) \in Nat /\ Count(buffer, i) \in Nat
    BY CountTypes
  <1>3. CASE pc[t] = "ltrim" /\ backlog' = Without(backlog, batch[t])
    <2>1. IsPrefix(batch[t], backlog)
      BY <1>1, <1>3 DEF BatchInv, DeletesWhatItSent
    <2>2. Count(backlog, i) = c + Count(backlog', i)
      BY <1>1, <1>3, <2>1, CountWithout
    <2>3. Count(backlog', i) \in Nat
      BY <1>1, <1>3, WithoutType, RecordLists, PlacesFinite
    <2>4. Surplus(t, i) = c /\ Surplus(t, i)' = 0
      BY <1>1, <1>3 DEF Surplus, Acked, Spills, Posting
    <2> HIDE DEF c
    <2> QED BY <1>1, <1>2, <2>2, <2>3, <2>4, SMTT(30) DEF Total
  <1>4. CASE pc[t] = "rpush" /\ backlog' = backlog \o batch[t]
    <2>1. Count(backlog', i) = Count(backlog, i) + c
      BY <1>1, <1>4, CountBehind
    <2>2. Surplus(t, i) = 0 /\ Surplus(t, i)' = c
      BY <1>1, <1>4 DEF Surplus, Acked, Spills, Posting
    <2> HIDE DEF c
    <2> QED BY <1>1, <1>2, <2>1, <2>2 DEF Total
  <1> QED BY <1>3, <1>4 DEF RedisApplies

\* The answer of Redis.
LEMMA ReturnRows ==
  ASSUME TypeOK, TypeOK', LockInv, BatchInv, RowsInv, NEW t \in Tasks, RedisReturns(t)
  PROVE  RowsInv'
  <1> USE DEF faultVars
  <1>1. /\ pc[t] \in InFlush /\ net[t] = "applied" /\ glitches' = glitches
        /\ UNCHANGED <<copies, late, queue, backlog>>
    BY DEF RedisReturns, InFlush, Redis
  <1> SUFFICES ASSUME NEW i \in Records
               PROVE  Total(i)' + Surplus(t, i) <= Total(i) + Surplus(t, i)'
    BY <1>1, RowsFlush
  <1>2. Total(i) \in Nat /\ Count(batch[t], i) \in Nat
    BY CountTypes
  <1>3. Total(i)' \in Nat /\ Surplus(t, i)' \in Nat
    BY CountsNext DEF CountsOK
  <1>4. CASE pc[t] = "ltrim" /\ UNCHANGED buffer
    <2>1. Total(i)' = Total(i)
      BY <1>1, <1>4, SameTotal
    <2>2. Surplus(t, i) = 0
      BY <1>1, <1>4 DEF Surplus, Acked, Spills, Posting
    <2> QED BY <1>2, <1>3, <2>1, <2>2
  <1>5. CASE pc[t] = "rpush" /\ buffer' = Without(buffer, batch[t])
    <2>1. Total(i)' + Count(batch[t], i) = Total(i)
      BY <1>1, <1>5, DeleteTotal DEF BatchInv, DeletesWhatItSent
    <2>2. Surplus(t, i) = Count(batch[t], i)
      BY <1>1, <1>5 DEF Surplus, Spills
    <2> QED BY <1>2, <1>3, <2>1, <2>2
  <1> QED BY <1>4, <1>5 DEF RedisReturns

\* The Store commits the batch of an open request.
LEMMA CommitRows ==
  ASSUME TypeOK, TypeOK', LockInv, RowsInv, NEW t \in Tasks, StoreCommits(t)
  PROVE  RowsInv'
  <1>1. /\ pc[t] \in InFlush /\ net[t] = "sent" /\ net'[t] = "applied" /\ glitches' = glitches
        /\ UNCHANGED <<late, queue, buffer, backlog, pc, batch>> /\ AddRows(batch[t])
        /\ pc[t] \in Posting
    BY DEF StoreCommits, InFlush, TypeOK, memVars, faultVars
  <1> SUFFICES ASSUME NEW i \in Records
               PROVE  Total(i)' + Surplus(t, i) <= Total(i) + Surplus(t, i)'
    BY <1>1, RowsFlush
  <1>2. copies'[i] = copies[i] + Count(batch[t], i)
    BY <1>1, AddRowsCount
  <1>3. Surplus(t, i) = 0 /\ Surplus(t, i)' = Count(batch[t], i)
    BY <1>1 DEF Surplus, Acked, Spills, Posting
  <1> QED BY <1>1, <1>2, <1>3, CountTypes DEF Total

\* The end of the process at a fault, or after stop() when nobody flushes.
LEMMA GoDownRows ==
  ASSUME TypeOK, TypeOK', LockInv, BatchInv, HeldInv, RowsInv, GoDown,
         \/ glitches' = glitches + 1
         \/ glitches' = glitches /\ \A u \in Tasks : pc[u] \notin InFlush
  PROVE  RowsInv'
  <1>1. PICK t \in Tasks : \A i \in Records :
          Total(i)' <= Total(i) + (IF owner = t THEN Open(t, i) ELSE 0)
    BY GoDownTotal
  <1>2. CASE glitches' = glitches + 1
    <2>1. ASSUME NEW i \in Records PROVE Total(i)' <= Total(i) + Open(t, i)
      <3>1. Total(i) \in Nat /\ Open(t, i) \in Nat
        BY CountTypes
      <3>2. Total(i)' \in Nat
        BY CountsNext DEF CountsOK
      <3> QED BY <1>1, <3>1, <3>2
    <2> QED BY <1>2, <2>1, RowsGlitch
  <1>3. CASE glitches' = glitches /\ \A u \in Tasks : pc[u] \notin InFlush
    <2>1. \A i \in Records : Total(i)' <= Total(i)
      BY <1>1, <1>3, SurplusInside, CountTypes
    <2>2. \A u \in Tasks : ~Acked(u) /\ ~Spills(u)
      BY <1>3 DEF Acked, Spills, InFlush, Redis
    <2> QED BY <1>3, <2>1, <2>2, RowsFrame
  <1> QED BY <1>2, <1>3

\* A task cancelled while a request is out is a fault, another is not.
LEMMA CancelRows ==
  ASSUME TypeOK, TypeOK', LockInv, BatchInv, HeldInv, RowsInv,
         NEW t \in {"timer", "proc"}, NEW next, CancelTask(t, next), pc["stop"] \notin InFlush
  PROVE  RowsInv'
  <1>1. /\ t \in Tasks /\ UNCHANGED <<copies, queue, buffer, backlog>>
        /\ \A u \in Tasks \ {t, "stop"} : pc'[u] = pc[u] /\ batch'[u] = batch[u] /\ net'[u] = net[u]
    BY DEF CancelTask, Tasks, TypeOK
  <1>2. CASE pc[t] \in Working /\ net[t] # "none"
    <2>1. late' = Abandoned(t) /\ glitches' = glitches + 1
      BY <1>2 DEF CancelTask, LeaveCancelled
    <2>2. ASSUME NEW i \in Records PROVE Total(i)' <= Total(i) + Open(t, i)
      <3>1. LateCount(late', i) = LateCount(late, i) + Open(t, i)
        BY <1>1, <2>1, AbandonedCount
      <3>2. Open(t, i) \in Nat
        BY <1>1, CountTypes
      <3> QED BY <1>1, <3>1, <3>2, CountTypes DEF Total
    <2> QED BY <1>1, <2>1, <2>2, RowsGlitch
  <1>3. CASE pc[t] \notin Working \/ net[t] = "none"
    <2>1. late' = late /\ glitches' = glitches
      BY <1>3 DEF CancelTask, LeaveCancelled, Abandoned
    <2>2. \A i \in Records : Total(i)' <= Total(i)
      BY <1>1, <2>1, SameTotal, CountTypes
    <2>3. ~Acked(t) /\ ~Spills(t) /\ ~Acked("stop") /\ ~Spills("stop")
      BY <1>3 DEF Acked, Spills, Working, InFlush, Redis
    <2> QED BY <1>1, <2>1, <2>2, <2>3, RowsFrame
  <1> QED BY <1>2, <1>3

\* Every step doubles the occurrences of a record at most, and only with a fault.
LEMMA RowsStep ==
  TypeOK /\ TypeOK' /\ LockInv /\ BatchInv /\ KnownInv
    /\ StoredKnown /\ StoppedInv /\ HeldInv /\ RowsInv /\ [Next]_vars
      => RowsInv'
  <1> SUFFICES ASSUME TypeOK, TypeOK', LockInv, BatchInv, KnownInv,
                      StoredKnown, StoppedInv, HeldInv, RowsInv, [Next]_vars
               PROVE  RowsInv'
    OBVIOUS
  <1> USE DEF lockVars, netVars, memVars, ghostVars, faultVars
  <1>0. "proc" \in Tasks /\ "timer" \in Tasks /\ "stop" \in Tasks
    BY DEF Tasks
  \* A task that has no answer goes somewhere else.
  <1>1. ASSUME NEW t \in Tasks, ~Acked(t), ~Spills(t), glitches' = glitches,
               \A u \in Tasks \ {t} : pc'[u] = pc[u], UNCHANGED <<batch, net>>,
               \A i \in Records : Total(i)' = Total(i)
        PROVE  RowsInv'
    <2>1. \A i \in Records : Total(i)' <= Total(i)
      BY <1>1, CountTypes
    <2> QED BY <1>1, <2>1, RowsFrame
  <1>2. ASSUME UNCHANGED <<copies, late, queue, buffer, backlog, pc, batch, net, glitches>>
        PROVE  RowsInv'
    <2>1. \A i \in Records : Total(i)' <= Total(i)
      BY <1>2, SameTotal, CountTypes
    <2> QED BY <1>2, <2>1, RowsFrame
  <1>3. CASE OnMessage \/ UNCHANGED vars
    BY <1>2, <1>3 DEF OnMessage, vars
  <1>4. CASE PutCallback \/ Ingest
    BY <1>4, EnqueueRows DEF PutCallback, Ingest
  <1>5. CASE Process
    <2>1. pc["proc"] = "get" /\ UNCHANGED <<batch, net, glitches>>
      BY <1>5 DEF Process
    <2>2. \A u \in Tasks \ {"proc"} : pc'[u] = pc[u]
      BY <1>0, <1>5, CallFlushStays DEF Process
    <2>3. ~Acked("proc") /\ ~Spills("proc")
      BY <1>0, <2>1, PlainPoints
    <2> QED BY <1>0, <1>1, <1>5, <2>1, <2>2, <2>3, ProcessTotal
  <1>6. ASSUME NEW t \in Tasks, CallFlush(t), pc[t] \in {"sleep", "join"},
               UNCHANGED <<copies, late, queue, buffer, backlog, batch, net, glitches>>
        PROVE  RowsInv'
    BY <1>1, <1>6, CallFlushStays, PlainPoints, SameTotal
  <1>7. CASE TimerFires \/ StopFlushes
    BY <1>0, <1>6, <1>7 DEF TimerFires, StopFlushes
  <1>8. ASSUME NEW t \in Tasks, GetLock(t) PROVE RowsInv'
    <2>1. pc[t] = "lock" /\ \A u \in Tasks \ {t} : pc'[u] = pc[u]
      BY <1>8 DEF GetLock, TypeOK
    <2>2. UNCHANGED <<copies, late, queue, buffer, backlog, batch, net, glitches>>
      BY <1>8 DEF GetLock
    <2> QED BY <1>1, <2>1, <2>2, PlainPoints, SameTotal
  <1>9. ASSUME NEW t \in Tasks, BacklogRead(t) PROVE RowsInv'
    <2>1. pc[t] \in InFlush /\ glitches' = glitches
      BY <1>9 DEF BacklogRead, InFlush, Redis
    <2>2. ASSUME NEW i \in Records PROVE Total(i)' + Surplus(t, i) <= Total(i) + Surplus(t, i)'
      <3>1. Total(i)' = Total(i)
        BY <1>9, SameTotal DEF BacklogRead
      <3>2. Surplus(t, i) = 0
        BY <1>9, PlainPoints DEF BacklogRead, Surplus
      <3>3. Surplus(t, i)' \in Nat /\ Total(i) \in Nat
        BY CountsNext, CountTypes DEF CountsOK
      <3> QED BY <3>1, <3>2, <3>3
    <2> QED BY <2>1, <2>2, RowsFlush
  <1>10. ASSUME NEW t \in Tasks, StoreRefuses(t) PROVE RowsInv'
    <2>1. /\ ~Acked(t) /\ ~Spills(t) /\ UNCHANGED <<pc, batch, glitches>>
          /\ \A u \in Tasks \ {t} : net'[u] = net[u]
      BY <1>10 DEF StoreRefuses, Acked, Spills, Posting, TypeOK
    <2>2. \A i \in Records : Total(i)' <= Total(i)
      BY <1>10, SameTotal, CountTypes DEF StoreRefuses
    <2> QED BY <2>1, <2>2, RowsFrame
  <1>11. ASSUME NEW t \in Tasks, PostTimesOut(t) PROVE RowsInv'
    <2>1. UNCHANGED <<copies, queue, buffer, backlog>> /\ glitches' = glitches + 1 /\ late' = Abandoned(t)
      BY <1>11 DEF PostTimesOut, Glitch, Abandoned
    <2>2. \A i \in Records : Total(i)' <= Total(i) + Open(t, i)
      BY <2>1, AbandonedCount, CountTypes DEF Total
    <2> QED BY <2>1, <2>2, RowsGlitch
  <1>12. ASSUME NEW t \in Tasks, glitches' = glitches + 1,
                UNCHANGED <<copies, late, queue, buffer, backlog>>
         PROVE  RowsInv'
    <2>1. \A i \in Records : Total(i)' <= Total(i) + Open(t, i)
      BY <1>12, SameTotal, CountTypes
    <2> QED BY <1>12, <2>1, RowsGlitch
  <1>13. ASSUME NEW t \in Tasks, ReplyLost(t) \/ RedisRaises(t) PROVE RowsInv'
    BY <1>12, <1>13, GoDownRows DEF ReplyLost, RedisRaises, Glitch
  <1>14. CASE LateCommit \/ LateLost
    <2>1. UNCHANGED <<pc, batch, net, glitches>>
      BY <1>14 DEF LateCommit, LateLost
    <2> QED BY <1>14, <2>1, LateTotal, RowsFrame
  <1>15. CASE BeginStop
    <2>1. /\ pc["stop"] = "idle" /\ \A u \in Tasks \ {"stop"} : pc'[u] = pc[u]
          /\ UNCHANGED <<copies, late, queue, buffer, backlog, batch, net, glitches>>
      BY <1>15 DEF BeginStop, TypeOK
    <2> QED BY <1>0, <1>1, <2>1, PlainPoints, SameTotal
  <1>16. CASE CancelTimer \/ CancelProc
    BY <1>16, OutsidePoints, CancelRows DEF CancelTimer, CancelProc
  <1>17. CASE Crash
    BY <1>17, GoDownRows DEF Crash, Glitch
  <1>18. CASE Exit
    <2>1. pc["stop"] = "done" /\ pc["timer"] = "dead" /\ pc["proc"] = "dead"
      BY <1>18 DEF Exit, StoppedInv
    <2>2. \A u \in Tasks : pc[u] \notin InFlush
      BY <2>1, OutsidePoints DEF Tasks
    <2> QED BY <1>18, <2>2, GoDownRows DEF Exit
  <1>19. CASE Restart
    <2>1. \A u \in Tasks : ~Acked(u) /\ ~Spills(u)
      BY <1>19, PlainPoints DEF Restart
    <2>2. \A i \in Records : Total(i)' <= Total(i)
      BY <1>19, SameTotal, CountTypes DEF Restart
    <2> QED BY <1>19, <2>1, <2>2, RowsFrame DEF Restart
  <1> QED
    BY <1>3, <1>4, <1>5, <1>7, <1>8, <1>9, <1>10, <1>11, <1>13, <1>14, <1>15, <1>16, <1>17, <1>18,
       <1>19, PostRows, RedisRows, ReturnRows, CommitRows
    DEF Next, FlushStep, StoreAnswers, Fault, StopStep

\* The invariant of the rows, throughout every run of the hub.
DupInv == StoredKnown /\ StoppedInv /\ HeldInv /\ RowsInv

THEOREM RowsInvariant == Spec => []DupInv
  <1>1. Init => DupInv
    <2> SUFFICES ASSUME Init PROVE DupInv
      OBVIOUS
    <2>1. StoredKnown /\ StoppedInv /\ HeldInv
      BY DEF Init, StoredKnown, Stored, StoppedInv, HeldInv, Acked, Spills, FirstPC, Tasks
    <2>2. ASSUME NEW i \in Records PROVE Total(i) = 0
      <3>1. /\ copies[i] = 0 /\ LateCount(late, i) = 0
            /\ Count(queue, i) = 0 /\ Count(buffer, i) = 0 /\ Count(backlog, i) = 0
        BY CountOne, LateNone DEF Init
      <3> QED BY <3>1 DEF Total
    <2>3. \A i \in Records, t \in Tasks : Surplus(t, i) = 0
      BY DEF Init, Surplus, Acked, Spills
    <2>4. 2 ^ glitches \in Nat
      BY PowerDoubles DEF Init
    <2>5. "stop" \in Tasks
      BY DEF Tasks
    <2> QED BY <2>1, <2>2, <2>3, <2>4, <2>5 DEF DupInv, RowsInv
  <1>2. TypeOK /\ TypeOK' /\ LockInv /\ BatchInv /\ KnownInv /\ DupInv /\ [Next]_vars
          => DupInv'
    BY StoredStep, StoppedStep, HeldStep, RowsStep DEF DupInv
  <1> QED BY <1>1, <1>2, TypeCorrect, LockInvariant, BatchInvariant, KnownInvariant, PTL DEF Spec

\* Without a fault the Store gets at most one row of a record, however flushes,
\* retries, stops and restarts interleave, and every fault doubles the rows at
\* most: the hub itself sends nothing twice.
THEOREM DuplicatesCorrect == Spec => []DuplicatesNeedFaults
  <1>1. TypeOK /\ DupInv /\ BatchInv => DuplicatesNeedFaults
    <2> SUFFICES ASSUME TypeOK, DupInv, BatchInv, NEW i \in Records
                 PROVE  copies[i] <= 2 ^ glitches
      BY DEF DuplicatesNeedFaults
    <2>1. PICK t \in Tasks : Total(i) <= 2 ^ glitches + Surplus(t, i)
      BY DEF DupInv, RowsInv
    <2>2. Surplus(t, i) <= Count(buffer, i) \/ Surplus(t, i) <= Count(backlog, i)
      BY BatchCounted, CountTypes DEF Surplus, Acked, Spills, Posting
    <2> QED BY <2>1, <2>2, CountTypes DEF Total
  <1> QED BY <1>1, TypeCorrect, RowsInvariant, BatchInvariant, PTL
=============================================================================
