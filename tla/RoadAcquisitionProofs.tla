----------------------- MODULE RoadAcquisitionProofs -----------------------
(***************************************************************************)
(* Proofs about the agent, and about the agent, the broker and the edge    *)
(* together, for files of any lengths, any batch size and any losses of    *)
(* the edge's link: what is published, what reaches the hub, how it is     *)
(* classified, and what main() leaves behind.                              *)
(***************************************************************************)
EXTENDS RoadAcquisition, TLAPS

-----------------------------------------------------------------------------
(* Remainders.                                                             *)

LEMMA Unique ==
  ASSUME NEW r \in Nat \ {0}, NEW p \in Int, NEW q \in Int, NEW k \in 0 .. r - 1, NEW m \in 0 .. r - 1,
         r * p + k = r * q + m
  PROVE  k = m
  <1>1. CASE p < q
    <2>1. r * q >= r * (p + 1)
      BY <1>1
    <2>2. r * (p + 1) = r * p + r
      OBVIOUS
    <2> QED BY <2>1, <2>2
  <1>2. CASE q < p
    <2>1. r * p >= r * (q + 1)
      BY <1>2
    <2>2. r * (q + 1) = r * q + r
      OBVIOUS
    <2> QED BY <2>1, <2>2
  <1>3. CASE p = q
    BY <1>3
  <1> QED BY <1>1, <1>2, <1>3

LEMMA DivMod ==
  ASSUME NEW n \in Nat, NEW r \in Nat \ {0}
  PROVE  (n % r) \in 0 .. r - 1 /\ n = (r * (n \div r)) + (n % r) /\ n \div r \in Int
  OBVIOUS

\* The remainder goes up by one, and back to 0 after r - 1.
LEMMA ModStep ==
  ASSUME NEW n \in Nat, NEW r \in Nat \ {0}
  PROVE  (n + 1) % r = IF n % r = r - 1 THEN 0 ELSE (n % r) + 1
  <1> DEFINE q == n \div r  m == n % r  p == (n + 1) \div r  k == (n + 1) % r
  <1>1. m \in 0 .. r - 1 /\ n = r * q + m /\ q \in Int
    BY DivMod
  <1>2. k \in 0 .. r - 1 /\ n + 1 = r * p + k /\ p \in Int
    BY DivMod
  <1> HIDE DEF q, m, p, k
  <1>3. CASE m = r - 1
    <2>1. r * p + k = r * (q + 1) + 0
      <3>1. r * (q + 1) = r * q + r
        BY <1>1
      <3> QED BY <1>1, <1>2, <1>3, <3>1
    <2>2. k = 0
      BY <1>1, <1>2, <2>1, Unique
    <2> QED BY <1>3, <2>2 DEF k, m
  <1>4. CASE m # r - 1
    <2>1. r * p + k = r * q + (m + 1)
      BY <1>1, <1>2
    <2>2. k = m + 1
      BY <1>1, <1>2, <1>4, <2>1, Unique
    <2> QED BY <1>4, <2>2 DEF k, m
  <1> QED BY <1>3, <1>4

LEMMA OneMore ==
  ASSUME NEW n \in Nat, NEW r \in Nat \ {0}, n % r = 0
  PROVE  (n + r) % r = 0
  <1> DEFINE q == n \div r  p == (n + r) \div r  k == (n + r) % r
  <1>1. n = r * q /\ q \in Int
    BY DivMod
  <1>2. k \in 0 .. r - 1 /\ n + r = r * p + k /\ p \in Int
    BY DivMod
  <1> HIDE DEF q, p, k
  <1>3. r * p + k = r * (q + 1) + 0
    <2>1. r * (q + 1) = r * q + r
      BY <1>1
    <2> QED BY <1>1, <1>2, <2>1
  <1>4. k = 0
    BY <1>1, <1>2, <1>3, Unique
  <1> QED BY <1>4 DEF k

-----------------------------------------------------------------------------
(* The agent alone: what it has read and published, for files of any       *)
(* lengths and any size of the batches.                                    *)

Record == [Files -> Nat]

TypeInv ==
  /\ loop \in BOOLEAN /\ interrupted \in BOOLEAN
  /\ rows \in [Files -> 0 .. MaxRows] /\ {"acc", "gps"} \subseteq Files /\ pos \in [Files -> Nat]
  /\ pc \in {"start", "sleep", "read", "publish", "failed", "ended", "raised"}
  /\ records \in Seq(Record)
  /\ out \in Seq([row : Record, rc : {0, 1}])

\* The records read so far.
Count == Len(out) + Len(records)

IsShortest(n) == (\E f \in Files : rows[f] = n) /\ \A f \in Files : n <= rows[f]

\* Batches are full,
Whole ==
  /\ pc \in {"start", "sleep", "read"} => Len(out) % BatchSize = 0
  /\ pc = "publish" => Count % BatchSize = 0

\* as long as no file has ended.  Without looping, the readers are together after
\* the records read; or one has ended, and the others may have gone on, but no
\* record is added.
InStep == \A f \in Files : pos[f] = Count /\ Count <= rows[f]
OneEnded == (\E f \in Files : AtEnd(f)) /\ IsShortest(Count)

\* With looping, the first record shows that no file is empty.
CountInv ==
  /\ \A f \in Files : pos[f] <= rows[f]
  /\ ~loop => (InStep /\ Whole) \/ (OneEnded /\ (pc = "read" => records = <<>>))
  /\ loop => Whole
  /\ loop /\ Count > 0 => \A f \in Files : rows[f] > 0
  /\ pc \in {"start", "sleep"} => records = <<>>
  /\ pc = "publish" => records # <<>>
  /\ pc = "ended" /\ ~interrupted => ~loop /\ IsShortest(Len(out))

Inv == TypeInv /\ CountInv

LEMMA InitInv == ASSUME Init PROVE Inv
  <1>1. PICK files \in Configured : rows \in [files -> 0 .. MaxRows]
    BY DEF Init
  <1>2. rows \in [Files -> 0 .. MaxRows] /\ {"acc", "gps"} \subseteq Files /\ \A f \in Files : rows[f] \in Nat
    BY <1>1, DatasourceAssumption DEF Files, Configured
  <1>3. pos = [f \in Files |-> 0] /\ records = <<>> /\ out = <<>> /\ pc = "start"
        /\ loop \in BOOLEAN /\ interrupted \in BOOLEAN
    BY DEF Init
  <1>4. TypeInv
    BY <1>2, <1>3 DEF TypeInv
  <1>5. Count = 0
    BY <1>3 DEF Count
  <1>6. Whole
    BY <1>3, DatasourceAssumption DEF Whole
  <1>7. CountInv
    BY <1>2, <1>3, <1>5, <1>6 DEF CountInv, InStep
  <1> QED BY <1>4, <1>7 DEF Inv

\* A step that reads and publishes nothing, and does not end the agent by itself.
LEMMA QuietStep ==
  ASSUME Inv, UNCHANGED <<rows, loop, pos, records, out>>, interrupted' \in BOOLEAN,
         pc' \in {"sleep", "read", "publish", "failed", "ended", "raised"},
         pc' \in {"sleep", "read"} => records = <<>>, pc' = "publish" => records # <<>>,
         pc' = "ended" => interrupted', Whole => Whole'
  PROVE  Inv'
  BY DEF Inv, TypeInv, CountInv, InStep, OneEnded, IsShortest, Count, AtEnd, Files, Record

LEMMA ReadStep == ASSUME Inv, ReadRecord PROVE Inv'
  <1>1. /\ pc = "read" /\ \A f \in Files : HasNext(f)
        /\ pos' = [f \in Files |-> NextRow(f)]
        /\ records' = Append(records, [f \in Files |-> NextRow(f)])
        /\ UNCHANGED <<rows, loop, pc, out, interrupted>>
    BY DEF ReadRecord, Moved
  <1>2. Files' = Files /\ Record' = Record
    BY <1>1 DEF Files, Record
  <1>3. \A f \in Files : NextRow(f) \in Nat /\ pos[f] \in Nat /\ rows[f] \in Nat
    BY DEF NextRow, Inv, TypeInv
  <1>4. [f \in Files |-> NextRow(f)] \in Record
    BY <1>3 DEF Record
  <1>5. records' \in Seq(Record) /\ Len(records') = Len(records) + 1 /\ Len(records) \in Nat /\ Len(out) \in Nat
    BY <1>1, <1>4 DEF Inv, TypeInv
  <1>6. TypeInv'
    BY <1>1, <1>2, <1>3, <1>5 DEF Inv, TypeInv
  <1>7. Count' = Count + 1
    BY <1>1, <1>5 DEF Count
  <1>8. ASSUME ~loop PROVE InStep' /\ Whole
    <2>1. \A f \in Files : ~AtEnd(f)
      BY <1>1, <1>8 DEF HasNext
    <2>2. \A f \in Files : pos'[f] = pos[f] + 1 /\ pos[f] # rows[f]
      BY <1>1, <2>1 DEF NextRow, AtEnd
    <2>3. InStep /\ Whole
      BY <1>8, <2>1 DEF Inv, CountInv, OneEnded
    <2>4. \A f \in Files : pos'[f] = Count + 1 /\ Count + 1 <= rows[f]
      BY <1>3, <1>5, <2>2, <2>3 DEF InStep, Count
    <2> QED BY <1>1, <1>2, <1>7, <2>3, <2>4 DEF InStep
  <1>9. ASSUME loop PROVE \A f \in Files : rows[f] > 0
    <2> SUFFICES ASSUME NEW f \in Files, rows[f] = 0 PROVE FALSE
      BY <1>3
    <2>1. pos[f] = rows[f]
      BY <1>3 DEF Inv, CountInv
    <2> QED BY <1>1, <2>1 DEF HasNext, AtEnd
  <1>10. \A f \in Files : pos'[f] <= rows[f]
    <2> SUFFICES ASSUME NEW f \in Files PROVE NextRow(f) <= rows[f]
      BY <1>1
    <2>1. pos[f] <= rows[f] /\ HasNext(f)
      BY <1>1 DEF Inv, CountInv
    <2> QED BY <1>3, <2>1 DEF HasNext, NextRow, AtEnd
  <1>11. Whole => Whole'
    BY <1>1 DEF Whole
  <1>12. CountInv'
    BY <1>1, <1>2, <1>8, <1>9, <1>10, <1>11 DEF Inv, CountInv
  <1> QED BY <1>6, <1>12 DEF Inv

LEMMA PublishStep == ASSUME Inv, NEW rc \in {0, 1}, Publish(rc) PROVE Inv'
  <1>1. /\ pc = "publish" /\ records # <<>> /\ records \in Seq(Record)
        /\ out' = Append(out, [row |-> Head(records), rc |-> rc]) /\ records' = Tail(records)
        /\ pc' = IF Len(records) = 1 THEN "sleep" ELSE "publish"
        /\ UNCHANGED <<rows, loop, pos, interrupted>>
    BY DEF Publish, Inv, TypeInv, CountInv
  <1>2. Files' = Files /\ Record' = Record
    BY <1>1 DEF Files, Record
  <1>3. /\ Head(records) \in Record /\ Tail(records) \in Seq(Record)
        /\ Len(records) \in Nat \ {0} /\ Len(Tail(records)) = Len(records) - 1
    BY <1>1
  <1>4. /\ out' \in Seq([row : Record, rc : {0, 1}]) /\ Len(out') = Len(out) + 1 /\ Len(out) \in Nat
    BY <1>1, <1>3 DEF Inv, TypeInv
  <1>5. TypeInv'
    BY <1>1, <1>2, <1>3, <1>4 DEF Inv, TypeInv
  <1>6. Count' = Count
    BY <1>1, <1>3, <1>4 DEF Count
  <1>7. (pc' = "sleep" => records' = <<>>) /\ (pc' = "publish" => records' # <<>>) /\ pc' \in {"sleep", "publish"}
    BY <1>1, <1>3
  <1>8. Whole => Whole'
    <2>1. Whole => Count' % BatchSize = 0
      BY <1>1, <1>6 DEF Whole
    <2>2. pc' = "sleep" => Len(out') = Count'
      BY <1>1, <1>3, <1>4 DEF Count
    <2> QED BY <1>7, <2>1, <2>2 DEF Whole
  <1>9. /\ InStep => InStep'
        /\ OneEnded => OneEnded'
        /\ (loop /\ Count > 0 => \A f \in Files : rows[f] > 0)'
        /\ (\A f \in Files : pos[f] <= rows[f])'
    BY <1>1, <1>2, <1>6 DEF Inv, CountInv, InStep, OneEnded, IsShortest, AtEnd
  <1> QED BY <1>1, <1>5, <1>7, <1>8, <1>9 DEF Inv, CountInv

\* One file has ended: what was read is what the shortest file allows.
LEMMA EndStep == ASSUME Inv, EndOfFile PROVE Inv'
  <1>1. /\ pc = "read" /\ ~loop
        /\ pos' = [f \in Files |-> IF f = "temp" \/ AtEnd(f) THEN pos[f] ELSE pos[f] + 1]
        /\ pc' = IF records = <<>> THEN "ended" ELSE "publish"
        /\ UNCHANGED <<rows, loop, records, out, interrupted>>
    BY DEF EndOfFile, Returned
  <1>2. PICK g \in Files : AtEnd(g)
    BY DEF EndOfFile
  <1>3. Files' = Files /\ Record' = Record /\ Count' = Count /\ Len(out) \in Nat
    BY <1>1 DEF Files, Record, Count, Inv, TypeInv
  <1>4. TypeInv'
    BY <1>1, <1>3 DEF Inv, TypeInv
  <1>5. IsShortest(Count)
    BY <1>1, <1>2 DEF Inv, CountInv, InStep, OneEnded, IsShortest, AtEnd
  <1>6. OneEnded'
    <2>1. pos'[g] = pos[g]
      BY <1>1, <1>2
    <2>2. IsShortest(Count)'
      BY <1>1, <1>3, <1>5 DEF IsShortest
    <2> QED BY <1>1, <1>2, <1>3, <2>1, <2>2 DEF OneEnded, AtEnd
  <1>7. ASSUME records = <<>> PROVE IsShortest(Len(out))
    BY <1>3, <1>5, <1>7 DEF Count
  <1>8. \A f \in Files : pos'[f] <= rows[f]
    <2>1. \A f \in Files : pos[f] \in Nat /\ rows[f] \in Nat /\ pos[f] <= rows[f]
      BY DEF Inv, TypeInv, CountInv
    <2> QED BY <1>1, <2>1 DEF AtEnd
  <1>9. CountInv'
    BY <1>1, <1>3, <1>6, <1>7, <1>8 DEF CountInv, IsShortest
  <1> QED BY <1>4, <1>9 DEF Inv

LEMMA NextStep == ASSUME Inv, [Next]_vars PROVE Inv'
  <1>1. CASE Start
    <2>1. Whole => Whole'
      BY <1>1 DEF Start, Whole
    <2> QED BY <1>1, <2>1, QuietStep DEF Start, Inv, TypeInv, CountInv
  <1>2. CASE BeginRead
    <2>1. records = <<>> /\ records' = records
      BY <1>2 DEF BeginRead, Inv, CountInv
    <2>2. Whole => Whole'
      BY <1>2 DEF BeginRead, Whole
    <2> QED BY <1>2, <2>1, <2>2, QuietStep DEF BeginRead, Inv, TypeInv
  <1>3. CASE FullBatch
    <2>1. records # <<>> /\ pc' = "publish" /\ pc = "read" /\ UNCHANGED <<records, out>>
      BY <1>3, DatasourceAssumption DEF FullBatch, Returned
    <2>2. Count' = Len(out) + BatchSize /\ Len(out) \in Nat
      BY <1>3, <2>1 DEF FullBatch, Count, Inv, TypeInv
    <2>3. Whole => Whole'
      BY <2>1, <2>2, OneMore, DatasourceAssumption DEF Whole
    <2> QED BY <1>3, <2>1, <2>3, QuietStep DEF FullBatch, Inv, TypeInv
  <1>4. CASE Interrupt
    BY <1>4, QuietStep DEF Interrupt, Whole
  <1>5. CASE ReadRaises
    BY <1>5, QuietStep DEF ReadRaises, Whole, Inv, TypeInv
  <1>6. CASE UNCHANGED vars
    BY <1>6 DEF vars, Inv, TypeInv, CountInv, Whole, InStep, OneEnded, IsShortest, Count, AtEnd, Files, Record
  <1> QED BY <1>1, <1>2, <1>3, <1>4, <1>5, <1>6, ReadStep, PublishStep, EndStep DEF Next, Step

LEMMA ShortestIs == ASSUME TypeInv, NEW n \in Nat, IsShortest(n) PROVE Shortest = n
  <1> DEFINE S == {rows[f] : f \in Files}
  <1>1. n \in S /\ \A f \in Files : n <= rows[f]
    BY DEF IsShortest
  <1>2. \A m \in S : m \in Nat /\ n <= m
    BY <1>1 DEF TypeInv
  <1>3. \A m \in S : (\A f \in Files : m <= rows[f]) => m = n
    BY <1>1, <1>2
  <1> QED BY <1>1, <1>3 DEF Shortest

-----------------------------------------------------------------------------
(* Steps of the system are steps of its parts.                             *)

LEMMA AgentOfSystem == ASSUME [SystemNext]_allVars PROVE [Next]_vars
  BY DEF SystemNext, AgentPublishes, AgentAlone, EdgeStep, allVars, agentVars, Next, Step, vars

\* The invariant of the agent alone holds of the agent in the system.
THEOREM AgentInvariance == SystemSpec => []Inv
  <1>1. SystemInit => Inv
    BY InitInv DEF SystemInit
  <1>2. Inv /\ [SystemNext]_allVars => Inv'
    BY AgentOfSystem, NextStep
  <1> QED BY <1>1, <1>2, PTL DEF SystemSpec

-----------------------------------------------------------------------------
(* The threads of the edge.                                                *)

\* The hub's client is marked as connected exactly while its thread runs, but in
\* the middle of connect() or after an interrupt there; and the broker has a
\* subscription only between a connection of the loop and stop().
ThreadInv ==
  /\ connected \in BOOLEAN /\ hubLoop \in BOOLEAN /\ cut \in BOOLEAN
  /\ main \in {"start", "looping", "hub", "loop"} => ~cut
  /\ main = "looping" => hubLoop = TRUE
  /\ ~cut /\ main # "looping" => hubLoop = connected
  /\ ~cut /\ main = "stopped" => ~connected
  /\ ~cut /\ main \in {"start", "looping", "hub", "stopHub", "stopped"} => ~subscribed

LEMMA ThreadStep == ASSUME ThreadInv, [SystemNext]_allVars PROVE ThreadInv'
  <1>1. CASE Edge!HubConnect
    BY <1>1 DEF Edge!HubConnect, ThreadInv, Edge!clientVars
  <1>2. CASE Edge!AgentConnect
    BY <1>2 DEF Edge!AgentConnect, Edge!Dial, ThreadInv, Edge!clientVars
  <1>3. CASE Edge!Redial
    BY <1>3 DEF Edge!Redial, Edge!Dial, ThreadInv
  <1>4. CASE Edge!OnConnect
    BY <1>4 DEF Edge!OnConnect, ThreadInv
  <1>5. CASE Edge!Refused
    BY <1>5 DEF Edge!Refused, Edge!Lose, Edge!Hangup, ThreadInv
  <1>6. CASE Edge!OnMessage
    BY <1>6 DEF Edge!OnMessage, ThreadInv
  <1>7. CASE Edge!Interrupt
    BY <1>7 DEF Edge!Interrupt, ThreadInv, Edge!clientVars
  <1>8. CASE Edge!Disconnect
    BY <1>8 DEF Edge!Disconnect, Edge!Hangup, ThreadInv
  <1>9. CASE Edge!HubStop
    BY <1>9 DEF Edge!HubStop, ThreadInv, Edge!clientVars
  <1>10. CASE Edge!Outside
    BY <1>10 DEF Edge!Outside, Edge!Lose, Edge!Hangup, Edge!Arrive, ThreadInv
  <1>11. CASE UNCHANGED <<main, connected, hubLoop, subscribed, cut>>
    BY <1>11 DEF ThreadInv
  <1>12. AgentPublishes \/ AgentAlone \/ UNCHANGED allVars => UNCHANGED <<main, connected, hubLoop, subscribed, cut>>
    BY DEF AgentPublishes, AgentAlone, Edge!Arrive, allVars, edgeVars
  <1>13. CASE Edge!HubConnected
    BY <1>13 DEF Edge!HubConnected, ThreadInv, Edge!clientVars
  <1>14. CASE Edge!StopInterrupted
    BY <1>14 DEF Edge!StopInterrupted, ThreadInv, Edge!clientVars
  <1> QED BY <1>1, <1>2, <1>3, <1>4, <1>5, <1>6, <1>7, <1>8, <1>9, <1>10, <1>11, <1>12, <1>13, <1>14
          DEF SystemNext, EdgeStep, Edge!Next

\* main() of src/edge leaves no network thread and no subscription behind,
\* whichever of its two connections failed and wherever it was interrupted but
\* between loop_start() and the assignment after it, or inside stop().
THEOREM ThreadsCorrect == SystemSpec => []NoThreadLeft
  <1>1. SystemInit => ThreadInv
    BY DEF SystemInit, Edge!Init, Edge!ClientInit, ThreadInv
  <1>2. ThreadInv => NoThreadLeft
    BY DEF ThreadInv, NoThreadLeft, Edge!NoThreadLeft
  <1> QED BY <1>1, <1>2, ThreadStep, PTL DEF SystemSpec

-----------------------------------------------------------------------------
(* Rows, counted round a file.                                             *)

\* The row of file f in the n-th record.
RowAt(n, f) == ((n - 1) % rows[f]) + 1

LEMMA RowAtSteps ==
  ASSUME TypeInv, NEW f \in Files, rows[f] > 0, NEW n \in Nat \ {0}
  PROVE  /\ RowAt(n, f) \in 1 .. rows[f]
         /\ RowAt(1, f) = 1 /\ (n <= rows[f] => RowAt(n, f) = n)
         /\ RowAt(n + 1, f) = IF RowAt(n, f) = rows[f] THEN 1 ELSE RowAt(n, f) + 1
  <1> DEFINE r == rows[f]
  <1>1. r \in Nat \ {0} /\ n - 1 \in Nat
    BY DatasourceAssumption DEF TypeInv
  <1> HIDE DEF r
  <1>2. (n - 1) % r \in 0 .. r - 1 /\ 0 % r = 0 /\ (n <= r => (n - 1) % r = n - 1)
    BY <1>1
  <1>3. n % r = IF (n - 1) % r = r - 1 THEN 0 ELSE ((n - 1) % r) + 1
    <2>1. (n - 1) + 1 = n
      OBVIOUS
    <2> QED BY <1>1, <2>1, ModStep
  <1> QED BY <1>1, <1>2, <1>3 DEF RowAt, r

-----------------------------------------------------------------------------
(* The agent: what is read is in step.                                     *)

\* The batch goes on where the published records end, and so do the readers; and
\* the records read had no damaged rows.
RecordInv ==
  /\ \A k \in 1 .. Len(records), f \in Files : rows[f] > 0 /\ records[k][f] = RowAt(Len(out) + k, f)
  /\ loop => \A f \in Files : pos[f] = IF Count = 0 THEN 0 ELSE RowAt(Count, f)
  /\ \A k \in 1 .. Count, f \in Files : RowAt(k, f) \notin bad[f]

\* A reader that goes on returns the row of the next record.
LEMMA NextIs ==
  ASSUME Inv, RecordInv, NEW f \in Files, HasNext(f), loop \/ InStep
  PROVE  rows[f] > 0 /\ NextRow(f) = RowAt(Count + 1, f)
  <1>1. rows[f] \in Nat /\ pos[f] \in Nat /\ pos[f] <= rows[f] /\ Count \in Nat
    BY DatasourceAssumption DEF Inv, TypeInv, CountInv, Count
  <1>2. rows[f] > 0
    BY <1>1 DEF HasNext, AtEnd
  <1>3. CASE loop
    <2>1. pos[f] = IF Count = 0 THEN 0 ELSE RowAt(Count, f)
      BY <1>3 DEF RecordInv
    <2>2. CASE Count = 0
      <3>1. RowAt(1, f) = 1
        BY <1>2, RowAtSteps DEF Inv
      <3> QED BY <1>2, <2>1, <2>2, <3>1 DEF NextRow, AtEnd
    <2>3. CASE Count # 0
      <3>1. RowAt(Count + 1, f) = IF RowAt(Count, f) = rows[f] THEN 1 ELSE RowAt(Count, f) + 1
        BY <1>1, <1>2, <2>3, RowAtSteps DEF Inv
      <3> QED BY <1>2, <2>1, <2>3, <3>1 DEF NextRow, AtEnd
    <2> QED BY <2>2, <2>3
  <1>4. CASE ~loop
    <2>1. pos[f] = Count /\ ~AtEnd(f)
      BY <1>4 DEF HasNext, InStep
    <2>2. Count + 1 <= rows[f] /\ NextRow(f) = Count + 1
      BY <1>1, <2>1 DEF AtEnd, NextRow
    <2>3. RowAt(Count + 1, f) = Count + 1
      BY <1>1, <1>2, <2>2, RowAtSteps DEF Inv
    <2> QED BY <1>2, <2>2, <2>3
  <1> QED BY <1>3, <1>4

LEMMA RecordStep == ASSUME Inv, Inv', RecordInv, [Next]_vars PROVE RecordInv'
  <1>1. /\ records \in Seq(Record) /\ Len(records) \in Nat /\ Len(out) \in Nat /\ rows' = rows /\ loop' = loop
        /\ bad' = bad /\ Files' = Files
    BY DEF Inv, TypeInv, Next, Step, vars, Start, BeginRead, ReadRecord, FullBatch, EndOfFile, ReadRaises,
           Publish, Interrupt, Files
  <1>2. CASE UNCHANGED <<pos, records, out>>
    BY <1>1, <1>2 DEF RecordInv, RowAt, Count
  <1>3. CASE BeginRead
    <2>1. records' = records /\ UNCHANGED <<pos, out>>
      BY <1>3 DEF BeginRead, Inv, CountInv
    <2> QED BY <1>1, <2>1 DEF RecordInv, RowAt, Count
  <1>4. CASE ReadRecord
    <2> DEFINE record == [f \in Files |-> NextRow(f)]
    <2>1. /\ records' = Append(records, record) /\ pos' = record /\ UNCHANGED out
          /\ \A f \in Files : HasNext(f)
      BY <1>4 DEF ReadRecord, Moved
    <2>2. ASSUME NEW f \in Files
          PROVE  rows[f] > 0 /\ NextRow(f) = RowAt(Count + 1, f) /\ NextRow(f) \notin bad[f]
      <3>1. loop \/ InStep
        <4>1. ~loop => \A g \in Files : ~AtEnd(g)
          BY <2>1 DEF HasNext
        <4> QED BY <4>1 DEF Inv, CountInv, OneEnded
      <3>2. NextRow(f) \notin bad[f]
        BY <1>4, <2>1 DEF ReadRecord, Damaged, Inv, TypeInv
      <3> QED BY <2>1, <3>1, <3>2, NextIs
    <2>3. record \in Record
      BY DEF Record, NextRow, Inv, TypeInv
    <2>4. /\ Len(records') = Len(records) + 1 /\ records'[Len(records) + 1] = record
          /\ \A k \in 1 .. Len(records) : records'[k] = records[k]
      <3> HIDE DEF record
      <3> QED BY <1>1, <2>1, <2>3
    <2>5. Count' = Count + 1 /\ Count = Len(out) + Len(records)
      BY <1>1, <2>1, <2>4 DEF Count
    <2>6. \A k \in 1 .. Len(records') : k \in 1 .. Len(records) \/ k = Len(records) + 1
      BY <1>1, <2>4
    <2>7. \A n \in Nat, f \in Files : RowAt(n, f)' = RowAt(n, f)
      BY <1>1 DEF RowAt
    <2>8. ASSUME NEW k \in 1 .. Len(records'), NEW f \in Files
          PROVE  rows[f] > 0 /\ records'[k][f] = RowAt(Len(out) + k, f)
      <3>1. CASE k \in 1 .. Len(records)
        BY <2>4, <3>1 DEF RecordInv
      <3>2. CASE k = Len(records) + 1
        <4>1. Len(out) + k = Count + 1
          BY <1>1, <2>5, <3>2
        <4> QED BY <2>2, <2>4, <3>2, <4>1
      <3> QED BY <2>6, <3>1, <3>2
    <2>9. \A f \in Files : pos'[f] = RowAt(Count', f)
      BY <2>1, <2>2, <2>5
    <2>10. \A k \in 1 .. Count', f \in Files : RowAt(k, f) \notin bad[f]
      <3>1. \A k \in 1 .. Count' : k \in 1 .. Count \/ k = Count + 1
        BY <1>1, <2>5
      <3> QED BY <2>2, <3>1 DEF RecordInv
    <2> QED BY <1>1, <2>1, <2>5, <2>8, <2>9, <2>10 DEF RecordInv, RowAt
  <1>5. ASSUME NEW rc \in {0, 1}, Publish(rc) PROVE RecordInv'
    <2>1. records # <<>> /\ records' = Tail(records) /\ Len(out') = Len(out) + 1 /\ UNCHANGED pos
      BY <1>5 DEF Publish, Inv, TypeInv, CountInv
    <2>2. /\ Len(records) >= 1 /\ Len(records') = Len(records) - 1
          /\ \A k \in 1 .. Len(records') : records'[k] = records[k + 1] /\ k + 1 \in 1 .. Len(records)
      BY <1>1, <2>1
    <2>3. Count' = Count
      BY <1>1, <2>1, <2>2 DEF Count
    <2>4. ASSUME NEW k \in 1 .. Len(records'), NEW f \in Files
          PROVE  rows[f] > 0 /\ records'[k][f] = RowAt(Len(out') + k, f)
      <3>1. Len(out') + k = Len(out) + (k + 1)
        BY <1>1, <2>1
      <3> QED BY <2>2, <3>1 DEF RecordInv
    <2> QED BY <1>1, <2>1, <2>3, <2>4 DEF RecordInv, RowAt
  <1>6. CASE EndOfFile
    BY <1>1, <1>6 DEF EndOfFile, RecordInv, RowAt, Count
  <1> QED BY <1>2, <1>3, <1>4, <1>5, <1>6
          DEF Next, Step, vars, Start, FullBatch, ReadRaises, Interrupt

-----------------------------------------------------------------------------
(* The agent that ends with an exception.                                  *)

Sound(n) == \A f \in Files : RowAt(n, f) \notin bad[f]

RaisedInv ==
  pc = "raised" =>
    \/ (loop => IsShortest(0)) /\ IsShortest(Len(out))
    \/ /\ Len(out) % BatchSize = 0
       /\ \E n \in Len(out) + 1 .. Len(out) + BatchSize : ~Sound(n) /\ \A k \in 1 .. n - 1 : Sound(k)

\* An empty file shows before anything is read; a damaged row in a batch that
\* begins where the last full one ended, or after all there is.
LEMMA Raise == ASSUME Inv, RecordInv, ReadRaises PROVE RaisedInv'
  <1>1. /\ pc = "read" /\ Len(records) < BatchSize /\ Len(out) \in Nat /\ Len(records) \in Nat
        /\ UNCHANGED <<rows, bad, loop, out>> /\ records \in Seq(Record)
    BY DEF ReadRaises, Inv, TypeInv
  <1>2. Count = Len(out) + Len(records) /\ Count \in Nat
    BY <1>1 DEF Count
  <1>3. \/ (loop => IsShortest(0)) /\ IsShortest(Len(out))
        \/ /\ Len(out) % BatchSize = 0
           /\ \E n \in Len(out) + 1 .. Len(out) + BatchSize : ~Sound(n) /\ \A k \in 1 .. n - 1 : Sound(k)
    <2>1. CASE loop /\ \E f \in Files : rows[f] = 0
      <3>1. Count = 0
        BY <1>2, <2>1 DEF Inv, CountInv
      <3>2. Len(out) = 0
        BY <1>1, <1>2, <3>1
      <3>3. IsShortest(0)
        BY <2>1 DEF IsShortest, Inv, TypeInv
      <3> QED BY <3>2, <3>3
    <2>2. CASE ~loop /\ OneEnded /\ records = <<>>
      <3>1. Len(out) = Count
        BY <1>2, <2>2
      <3> QED BY <2>2, <3>1 DEF OneEnded
    <2>3. CASE Damaged /\ Whole /\ (loop \/ InStep)
      <3>1. PICK f \in Files : HasNext(f) /\ NextRow(f) \in bad[f]
        BY <2>3 DEF Damaged
      <3>2. NextRow(f) = RowAt(Count + 1, f)
        BY <2>3, <3>1, NextIs
      <3>3. ~Sound(Count + 1)
        BY <3>1, <3>2 DEF Sound
      <3>4. \A k \in 1 .. Count : Sound(k)
        BY DEF RecordInv, Sound
      <3>5. Count + 1 \in Len(out) + 1 .. Len(out) + BatchSize /\ (Count + 1) - 1 = Count
        BY <1>1, <1>2, DatasourceAssumption
      <3>6. Len(out) % BatchSize = 0
        BY <1>1, <2>3 DEF Whole
      <3> QED BY <3>3, <3>4, <3>5, <3>6
    <2> QED BY <1>1, <2>1, <2>2, <2>3 DEF ReadRaises, Inv, CountInv
  <1> QED BY <1>1, <1>3 DEF RaisedInv, IsShortest, Sound, RowAt, Files

LEMMA RaisedStep == ASSUME Inv, RecordInv, RaisedInv, [Next]_vars PROVE RaisedInv'
  <1>1. CASE ReadRaises
    BY <1>1, Raise
  <1>2. CASE UNCHANGED vars
    BY <1>2 DEF vars, RaisedInv, IsShortest, Sound, RowAt, Files
  <1>3. CASE ~ReadRaises /\ ~UNCHANGED vars
    <2>1. pc' # "raised"
      BY <1>3 DEF Next, Step, Start, BeginRead, ReadRecord, FullBatch, EndOfFile, Returned, Publish, Interrupt
    <2> QED BY <2>1 DEF RaisedInv
  <1> QED BY <1>1, <1>2, <1>3

-----------------------------------------------------------------------------
(* The messages: what the broker has of the agent.                         *)

Messages == [y : Int, z : Int, record : Nat, row : Record] \cup {Invalid}

\* A message of the agent, with the rows of its record.
Genuine(m) ==
  /\ m.y \in Int /\ m.z \in Int /\ m.record \in 1 .. Len(out)
  /\ \A f \in Files : rows[f] > 0 /\ m.row[f] = RowAt(m.record, f)

SentInv ==
  /\ sent \in Seq(Messages)
  /\ \A i \in 1 .. Len(sent) : sent[i] # Invalid => Genuine(sent[i])
  /\ \A i, j \in 1 .. Len(sent) :
       i < j /\ sent[i] # Invalid /\ sent[j] # Invalid => sent[i].record < sent[j].record

\* The agent publishes more.
LEMMA StillGenuine ==
  ASSUME Len(out) \in Nat, Len(out') \in Nat, Len(out) <= Len(out'), rows' = rows, NEW m, Genuine(m)
  PROVE  Genuine(m)'
  BY DEF Genuine, RowAt, Files

LEMMA SentKept ==
  ASSUME SentInv, UNCHANGED <<sent, rows>>, Len(out) \in Nat, Len(out') \in Nat, Len(out) <= Len(out')
  PROVE  SentInv'
  <1>1. Messages' = Messages
    BY DEF Messages, Record, Files
  <1>2. \A i \in 1 .. Len(sent) : sent[i] # Invalid => Genuine(sent[i])'
    BY StillGenuine DEF SentInv
  <1>3. \A i \in 1 .. Len(sent') : sent'[i] # Invalid => Genuine(sent[i])'
    BY <1>2
  <1> QED BY <1>1, <1>3 DEF SentInv

LEMMA SentMore ==
  ASSUME SentInv, UNCHANGED rows, Len(out) \in Nat, Len(out') \in Nat, Len(out) <= Len(out'),
         NEW m \in Messages, sent' = Append(sent, m),
         m # Invalid => /\ m.y \in Int /\ m.z \in Int /\ m.record = Len(out') /\ m.record > Len(out)
                        /\ \A f \in Files : rows[f] > 0 /\ m.row[f] = RowAt(m.record, f)
  PROVE  SentInv'
  <1>1. Messages' = Messages
    BY DEF Messages, Record, Files
  <1>2. /\ sent' \in Seq(Messages) /\ Len(sent) \in Nat /\ Len(sent') = Len(sent) + 1
        /\ sent'[Len(sent) + 1] = m /\ \A i \in 1 .. Len(sent) : sent'[i] = sent[i]
    BY DEF SentInv
  <1>3. \A i \in 1 .. Len(sent') : i \in 1 .. Len(sent) \/ i = Len(sent) + 1
    BY <1>2
  <1>4. ASSUME NEW i \in 1 .. Len(sent'), sent'[i] # Invalid PROVE Genuine(sent[i])'
    <2>1. CASE i \in 1 .. Len(sent)
      <3>1. Genuine(sent[i])
        BY <1>2, <1>4, <2>1 DEF SentInv
      <3>2. \A x : Genuine(x) => Genuine(x)'
        BY StillGenuine
      <3>3. \A x : x = sent[i] => Genuine(x)'
        BY <3>1, <3>2
      <3> QED BY <1>2, <2>1, <3>3 DEF Genuine
    <2>2. CASE i = Len(sent) + 1
      <3>1. Genuine(m)'
        BY <1>2, <1>4, <2>2 DEF Genuine, RowAt, Files
      <3> QED BY <1>2, <2>2, <3>1 DEF Genuine
    <2> QED BY <1>3, <2>1, <2>2
  <1>5. ASSUME NEW i \in 1 .. Len(sent'), NEW j \in 1 .. Len(sent'), i < j, sent'[i] # Invalid, sent'[j] # Invalid
        PROVE  sent'[i].record < sent'[j].record
    <2>1. i \in 1 .. Len(sent)
      BY <1>2, <1>5
    <2>2. sent[i].record \in 1 .. Len(out)
      BY <1>2, <1>5, <2>1 DEF SentInv, Genuine
    <2>3. CASE j \in 1 .. Len(sent)
      BY <1>2, <1>5, <2>1, <2>3 DEF SentInv
    <2>4. CASE j = Len(sent) + 1
      <3>1. m.record > Len(out) /\ m.record \in 1 .. Len(out')
        BY <1>2, <1>5, <2>4 DEF Genuine
      <3> QED BY <1>2, <2>1, <2>2, <2>4, <3>1
    <2> QED BY <1>3, <2>3, <2>4
  <1> QED BY <1>1, <1>2, <1>4, <1>5 DEF SentInv

LEMMA SentStep == ASSUME Inv, Inv', RecordInv, SentInv, [SystemNext]_allVars PROVE SentInv'
  <1>1. Len(out) \in Nat /\ Len(out') \in Nat /\ rows' = rows
    <2>1. [Next]_vars
      BY AgentOfSystem
    <2>2. rows' = rows
      BY <2>1 DEF Next, Step, vars, Start, BeginRead, ReadRecord, FullBatch, EndOfFile, ReadRaises, Publish,
         Interrupt
    <2> QED BY <2>2 DEF Inv, TypeInv
  <1>2. CASE EdgeStep
    <2>1. UNCHANGED <<rows, out>>
      BY <1>2 DEF EdgeStep, agentVars, vars
    <2>2. UNCHANGED sent \/ Edge!Arrive(Invalid)
      BY <1>2 DEF EdgeStep, Edge!Next, Edge!HubConnect, Edge!HubConnected, Edge!StopInterrupted, Edge!AgentConnect, Edge!Redial, Edge!OnConnect,
         Edge!Refused, Edge!OnMessage, Edge!Interrupt, Edge!Disconnect, Edge!HubStop, Edge!Outside,
         Edge!Dial, Edge!Lose, Edge!clientVars
    <2>3. CASE UNCHANGED sent
      BY <1>1, <2>1, <2>3, SentKept
    <2>4. CASE Edge!Arrive(Invalid)
      <3>1. sent' = Append(sent, Invalid) /\ Invalid \in Messages
        BY <2>4 DEF Edge!Arrive, Messages
      <3> QED BY <1>1, <2>1, <3>1, SentMore
    <2> QED BY <2>2, <2>3, <2>4
  <1>3. CASE AgentAlone \/ UNCHANGED allVars
    <2>1. UNCHANGED <<sent, out>>
      BY <1>3 DEF AgentAlone, edgeVars, allVars, agentVars, vars, Start, BeginRead, ReadRecord, FullBatch,
         EndOfFile, ReadRaises, Interrupt
    <2> QED BY <1>1, <2>1, SentKept
  <1>4. CASE AgentPublishes
    <2>1. Len(out') = Len(out) + 1
      BY <1>4 DEF AgentPublishes, Publish, Inv, TypeInv
    <2>2. CASE UNCHANGED edgeVars
      BY <1>1, <2>1, <2>2, SentKept DEF edgeVars
    <2> DEFINE row == Head(records)  m == Message(Len(out'), row)
    <2>3. CASE Edge!Arrive(m)
      <3>1. records # <<>> /\ records \in Seq(Record)
        BY <1>4 DEF AgentPublishes, Publish, Inv, TypeInv, CountInv
      <3>2. row = records[1] /\ 1 \in 1 .. Len(records) /\ row \in Record
        BY <3>1
      <3>3. \A f \in Files : rows[f] > 0 /\ row[f] = RowAt(Len(out'), f)
        BY <2>1, <3>2 DEF RecordInv
      <3>4. row["acc"] \in 1 .. MaxRows
        <4>1. "acc" \in Files /\ rows["acc"] \in 0 .. MaxRows /\ Len(out') \in Nat \ {0}
          BY <1>1, <2>1 DEF Inv, TypeInv
        <4>2. rows["acc"] > 0 /\ row["acc"] = RowAt(Len(out'), "acc")
          BY <3>3, <4>1
        <4>3. RowAt(Len(out'), "acc") \in 1 .. rows["acc"]
          BY <4>1, <4>2, RowAtSteps DEF Inv
        <4> QED BY <4>1, <4>2, <4>3, DatasourceAssumption
      <3> HIDE DEF row
      <3>5. /\ m.y \in Int /\ m.z \in Int /\ m.record = Len(out') /\ m.row = row
            /\ m \in [y : Int, z : Int, record : Nat, row : Record]
        BY <1>1, <3>2, <3>4, AccelerationAssumption DEF Message
      <3>6. sent' = Append(sent, m) /\ m \in Messages
        BY <2>3, <3>5 DEF Edge!Arrive, Messages
      <3> HIDE DEF m
      <3>7. Len(out) <= Len(out') /\ m.record > Len(out)
            /\ \A f \in Files : rows[f] > 0 /\ m.row[f] = RowAt(m.record, f)
        BY <1>1, <2>1, <3>3, <3>5
      <3> QED BY <1>1, <3>5, <3>6, <3>7, SentMore
    <2> QED BY <1>4, <2>2, <2>3 DEF AgentPublishes
  <1> QED BY <1>2, <1>3, <1>4 DEF SystemNext

-----------------------------------------------------------------------------
(* The edge: what it has received and forwarded.                           *)

Forwards == [number : Nat, state : {"GOOD", "WARNING", "BAD"}]

\* What waits for the edge goes up in number.
InboxInv ==
  /\ inbox \in Seq(Nat)
  /\ \A i \in 1 .. Len(inbox) : inbox[i] \in 1 .. Len(sent)
  /\ \A i, j \in 1 .. Len(inbox) : i < j => inbox[i] < inbox[j]

\* So does what was forwarded, and it is below what waits.
OrderInv ==
  /\ forwarded \in Seq(Forwards)
  /\ \A n \in 1 .. Len(forwarded) : forwarded[n].number \in 1 .. Len(sent)
  /\ \A m, n \in 1 .. Len(forwarded) : m < n => forwarded[m].number < forwarded[n].number
  /\ \A n \in 1 .. Len(forwarded), i \in 1 .. Len(inbox) : forwarded[n].number < inbox[i]

\* Only valid messages are forwarded, with the state of their road.
StateInv ==
  \A n \in 1 .. Len(forwarded) :
    /\ sent[forwarded[n].number] # Invalid
    /\ forwarded[n].state = Edge!RoadState(sent[forwarded[n].number])

ForwardInv == InboxInv /\ OrderInv /\ StateInv

\* Something arrives, or nothing does, and the edge forwards nothing.
LEMMA Quiet ==
  ASSUME SentInv, ForwardInv, UNCHANGED forwarded,
         \/ UNCHANGED <<sent, inbox>>
         \/ UNCHANGED sent /\ inbox' = <<>>
         \/ \E m : Edge!Arrive(m)
  PROVE  ForwardInv'
  <1>1. CASE UNCHANGED <<sent, inbox>>
    <2>1. InboxInv' /\ OrderInv'
      BY <1>1 DEF ForwardInv, InboxInv, OrderInv
    <2>2. StateInv'
      BY <1>1 DEF ForwardInv, StateInv, Edge!RoadState, Edge!Spike, Edge!Deviation, Edge!Abs
    <2> QED BY <2>1, <2>2 DEF ForwardInv
  <1>2. CASE UNCHANGED sent /\ inbox' = <<>>
    <2>1. InboxInv' /\ OrderInv'
      BY <1>2 DEF ForwardInv, InboxInv, OrderInv
    <2>2. StateInv'
      BY <1>2 DEF ForwardInv, StateInv, Edge!RoadState, Edge!Spike, Edge!Deviation, Edge!Abs
    <2> QED BY <2>1, <2>2 DEF ForwardInv
  <1>3. ASSUME NEW m, Edge!Arrive(m) PROVE ForwardInv'
    <2>1. sent' = Append(sent, m) /\ inbox' = IF subscribed THEN Append(inbox, Len(sent) + 1) ELSE inbox
      BY <1>3 DEF Edge!Arrive
    <2>2. /\ Len(sent) \in Nat /\ Len(inbox) \in Nat /\ Len(forwarded) \in Nat
          /\ Len(sent') = Len(sent) + 1 /\ \A i \in 1 .. Len(sent) : sent'[i] = sent[i]
      BY <2>1 DEF SentInv, ForwardInv, InboxInv, OrderInv
    <2>3. \/ inbox' = inbox
          \/ /\ inbox' \in Seq(Nat)
             /\ Len(inbox') = Len(inbox) + 1 /\ inbox'[Len(inbox) + 1] = Len(sent) + 1
             /\ \A i \in 1 .. Len(inbox) : inbox'[i] = inbox[i]
      <3>1. CASE subscribed
        BY <2>1, <2>2, <3>1 DEF ForwardInv, InboxInv
      <3>2. CASE ~subscribed
        BY <2>1, <3>2
      <3> QED BY <3>1, <3>2
    <2>4. InboxInv' /\ OrderInv'
      <3>1. CASE inbox' = inbox
        BY <2>2, <3>1 DEF ForwardInv, InboxInv, OrderInv
      <3>2. CASE /\ inbox' \in Seq(Nat)
                 /\ Len(inbox') = Len(inbox) + 1 /\ inbox'[Len(inbox) + 1] = Len(sent) + 1
                 /\ \A i \in 1 .. Len(inbox) : inbox'[i] = inbox[i]
        <4>1. \A i \in 1 .. Len(inbox') : i \in 1 .. Len(inbox) \/ i = Len(inbox) + 1
          BY <2>2, <3>2
        <4>2. \A i \in 1 .. Len(inbox) : inbox'[i] \in 1 .. Len(sent)
          BY <3>2 DEF ForwardInv, InboxInv
        <4>3. \A i \in 1 .. Len(inbox') : inbox'[i] \in 1 .. Len(sent')
          BY <2>2, <3>2, <4>1, <4>2
        <4>4. ASSUME NEW i \in 1 .. Len(inbox'), NEW j \in 1 .. Len(inbox'), i < j
              PROVE  inbox'[i] < inbox'[j]
          <5>1. i \in 1 .. Len(inbox)
            BY <2>2, <3>2, <4>4
          <5>2. CASE j \in 1 .. Len(inbox)
            BY <3>2, <4>4, <5>1, <5>2 DEF ForwardInv, InboxInv
          <5>3. CASE j = Len(inbox) + 1
            BY <2>2, <3>2, <4>2, <5>1, <5>3
          <5> QED BY <4>1, <5>2, <5>3
        <4>5. InboxInv'
          BY <3>2, <4>3, <4>4 DEF InboxInv
        <4>6. \A n \in 1 .. Len(forwarded) : forwarded[n].number \in 1 .. Len(sent)
          BY DEF ForwardInv, OrderInv
        <4>7. ASSUME NEW n \in 1 .. Len(forwarded'), NEW i \in 1 .. Len(inbox')
              PROVE  forwarded'[n].number < inbox'[i]
          <5>1. CASE i \in 1 .. Len(inbox)
            BY <3>2, <5>1 DEF ForwardInv, OrderInv
          <5>2. CASE i = Len(inbox) + 1
            BY <2>2, <3>2, <4>6, <5>2
          <5> QED BY <4>1, <5>1, <5>2
        <4>8. \A n \in 1 .. Len(forwarded') : forwarded'[n].number \in 1 .. Len(sent')
          BY <2>2, <4>6
        <4> QED BY <4>5, <4>7, <4>8 DEF ForwardInv, OrderInv, Forwards
      <3> QED BY <2>3, <3>1, <3>2
    <2>6. ASSUME NEW n \in 1 .. Len(forwarded') PROVE sent'[forwarded'[n].number] = sent[forwarded[n].number]
      BY <2>2 DEF ForwardInv, OrderInv
    <2>7. StateInv'
      BY <2>6 DEF ForwardInv, StateInv, Edge!RoadState, Edge!Spike, Edge!Deviation, Edge!Abs
    <2> QED BY <2>4, <2>7 DEF ForwardInv
  <1> QED BY <1>1, <1>2, <1>3

LEMMA Forward == ASSUME ForwardInv, Edge!OnMessage PROVE ForwardInv'
  <1>1. inbox # <<>> /\ inbox' = Tail(inbox) /\ UNCHANGED sent
    BY DEF Edge!OnMessage
  <1>2. /\ Len(inbox) \in Nat /\ Len(inbox) > 0 /\ Head(inbox) = inbox[1]
        /\ inbox' \in Seq(Nat) /\ Len(inbox') = Len(inbox) - 1
        /\ \A i \in 1 .. Len(inbox') : inbox'[i] = inbox[i + 1]
    BY <1>1 DEF ForwardInv, InboxInv
  <1>3. \A i \in 1 .. Len(inbox') : i + 1 \in 1 .. Len(inbox) /\ inbox[1] < inbox'[i]
    <2>1. SUFFICES ASSUME NEW i \in 1 .. Len(inbox') PROVE i + 1 \in 1 .. Len(inbox) /\ inbox[1] < inbox'[i]
      OBVIOUS
    <2>2. 1 \in 1 .. Len(inbox) /\ i + 1 \in 1 .. Len(inbox) /\ 1 < i + 1
      BY <1>2
    <2>3. inbox[1] < inbox[i + 1]
      BY <2>2 DEF ForwardInv, InboxInv
    <2> QED BY <1>2, <2>2, <2>3
  <1>4. InboxInv'
    BY <1>1, <1>2 DEF ForwardInv, InboxInv
  <1>5. CASE UNCHANGED forwarded
    <2>1. OrderInv'
      BY <1>1, <1>2, <1>3, <1>5 DEF ForwardInv, OrderInv
    <2>2. StateInv'
      BY <1>1, <1>5 DEF ForwardInv, StateInv, Edge!RoadState, Edge!Spike, Edge!Deviation, Edge!Abs
    <2> QED BY <1>4, <2>1, <2>2 DEF ForwardInv
  <1> DEFINE e == Edge!Entry(Head(inbox))
  <1>6. CASE sent[Head(inbox)] # Invalid /\ forwarded' = Append(forwarded, e)
    <2>1. inbox[1] \in Nat /\ inbox[1] \in 1 .. Len(sent)
      BY <1>2 DEF ForwardInv, InboxInv
    <2>2. e.number = inbox[1] /\ e.state = Edge!RoadState(sent[inbox[1]]) /\ e \in Forwards
      BY <1>2, <2>1 DEF Edge!Entry, Edge!RoadState, Forwards
    <2> HIDE DEF e
    <2>3. /\ forwarded' \in Seq(Forwards)
          /\ Len(forwarded) \in Nat /\ Len(forwarded') = Len(forwarded) + 1
          /\ forwarded'[Len(forwarded) + 1] = e
          /\ \A n \in 1 .. Len(forwarded) : forwarded'[n] = forwarded[n]
      BY <1>6, <2>2 DEF ForwardInv, OrderInv
    <2>4. \A n \in 1 .. Len(forwarded') : n \in 1 .. Len(forwarded) \/ n = Len(forwarded) + 1
      BY <2>3
    <2>5. \A n \in 1 .. Len(forwarded) : forwarded[n].number < inbox[1] /\ forwarded[n].number \in 1 .. Len(sent)
      BY <1>2 DEF ForwardInv, OrderInv
    <2>6. \A n \in 1 .. Len(forwarded') : forwarded'[n].number \in 1 .. Len(sent)
      BY <2>1, <2>2, <2>3, <2>4, <2>5
    <2>7. ASSUME NEW m \in 1 .. Len(forwarded'), NEW n \in 1 .. Len(forwarded'), m < n
          PROVE  forwarded'[m].number < forwarded'[n].number
      <3>1. m \in 1 .. Len(forwarded)
        BY <2>3, <2>7
      <3>2. CASE n \in 1 .. Len(forwarded)
        BY <2>3, <2>7, <3>1, <3>2 DEF ForwardInv, OrderInv
      <3>3. CASE n = Len(forwarded) + 1
        BY <2>2, <2>3, <2>5, <3>1, <3>3
      <3> QED BY <2>4, <3>2, <3>3
    <2>8. ASSUME NEW n \in 1 .. Len(forwarded'), NEW i \in 1 .. Len(inbox')
          PROVE  forwarded'[n].number < inbox'[i]
      <3>1. inbox'[i] \in Nat /\ inbox[1] < inbox'[i]
        BY <1>2, <1>3
      <3>2. CASE n \in 1 .. Len(forwarded)
        BY <2>1, <2>3, <2>5, <3>1, <3>2
      <3>3. CASE n = Len(forwarded) + 1
        BY <2>2, <2>3, <3>1, <3>3
      <3> QED BY <2>4, <3>2, <3>3
    <2>9. OrderInv'
      BY <1>1, <2>3, <2>6, <2>7, <2>8 DEF OrderInv, Forwards
    <2>10. ASSUME NEW n \in 1 .. Len(forwarded')
           PROVE  sent[forwarded'[n].number] # Invalid
                  /\ forwarded'[n].state = Edge!RoadState(sent[forwarded'[n].number])
      <3>1. CASE n \in 1 .. Len(forwarded)
        BY <2>3, <3>1 DEF ForwardInv, StateInv
      <3>2. CASE n = Len(forwarded) + 1
        BY <1>2, <1>6, <2>2, <2>3, <3>2
      <3> QED BY <2>4, <3>1, <3>2
    <2>11. StateInv'
      BY <1>1, <2>10 DEF StateInv, Edge!RoadState, Edge!Spike, Edge!Deviation, Edge!Abs
    <2> QED BY <1>4, <2>9, <2>11 DEF ForwardInv
  <1> QED BY <1>5, <1>6 DEF Edge!OnMessage

LEMMA ForwardStep == ASSUME SentInv, ForwardInv, [SystemNext]_allVars PROVE ForwardInv'
  <1>1. CASE Edge!OnMessage
    BY <1>1, Forward
  <1>2. CASE AgentPublishes \/ AgentAlone \/ UNCHANGED allVars
    <2>1. UNCHANGED forwarded /\ (UNCHANGED <<sent, inbox>> \/ \E m : Edge!Arrive(m))
      BY <1>2 DEF AgentPublishes, AgentAlone, allVars, edgeVars
    <2> QED BY <2>1, Quiet
  <1>3. CASE Edge!Outside
    <2>1. UNCHANGED forwarded
      BY <1>3 DEF Edge!Outside
    <2>2. (UNCHANGED sent /\ inbox' = <<>>) \/ \E m : Edge!Arrive(m)
      BY <1>3 DEF Edge!Outside, Edge!Lose, Edge!Hangup
    <2> QED BY <2>1, <2>2, Quiet
  <1>4. CASE Edge!Refused \/ Edge!Disconnect
    <2>1. UNCHANGED forwarded /\ UNCHANGED sent /\ inbox' = <<>>
      BY <1>4 DEF Edge!Refused, Edge!Disconnect, Edge!Lose, Edge!Hangup
    <2> QED BY <2>1, Quiet
  <1>5. CASE Edge!HubConnect \/ Edge!HubConnected \/ Edge!StopInterrupted \/ Edge!AgentConnect \/ Edge!Redial \/ Edge!OnConnect \/ Edge!Interrupt \/ Edge!HubStop
    <2>1. UNCHANGED <<forwarded, sent, inbox>>
      BY <1>5 DEF Edge!HubConnect, Edge!HubConnected, Edge!StopInterrupted, Edge!AgentConnect, Edge!Redial, Edge!OnConnect, Edge!Interrupt,
         Edge!HubStop, Edge!Dial, Edge!clientVars
    <2> QED BY <2>1, Quiet
  <1> QED BY <1>1, <1>2, <1>3, <1>4, <1>5 DEF SystemNext, EdgeStep, Edge!Next

-----------------------------------------------------------------------------
(* Together.                                                               *)

SystemInv == Inv /\ RecordInv /\ RaisedInv /\ SentInv /\ ForwardInv

\* What is known of the agent, of the messages and of the edge, throughout
\* every run.
THEOREM SystemInvariance == SystemSpec => []SystemInv
  <1>1. SystemInit => SystemInv
    <2>1. SUFFICES ASSUME SystemInit PROVE SystemInv
      OBVIOUS
    <2>2. Inv
      BY <2>1, InitInv DEF SystemInit
    <2>3. RecordInv /\ RaisedInv
      BY <2>1 DEF SystemInit, Init, RecordInv, RaisedInv, Count
    <2>4. SentInv /\ ForwardInv
      BY <2>1 DEF SystemInit, Edge!Init, Edge!ClientInit, SentInv, ForwardInv, InboxInv, OrderInv, StateInv
    <2> QED BY <2>2, <2>3, <2>4 DEF SystemInv
  <1>2. SystemInv /\ [SystemNext]_allVars => SystemInv'
    <2>1. SUFFICES ASSUME SystemInv, [SystemNext]_allVars PROVE SystemInv'
      OBVIOUS
    <2>2. Inv'
      BY <2>1, AgentOfSystem, NextStep DEF SystemInv
    <2> QED BY <2>1, <2>2, AgentOfSystem, RecordStep, RaisedStep, SentStep, ForwardStep DEF SystemInv
  <1> QED BY <1>1, <1>2, PTL DEF SystemSpec

\* An agent that publish_loop() ends by itself has published every record its
\* shortest file allows, in whatever batches; one that ends with an exception of
\* read(), that or all full batches before the record that cannot be read.
THEOREM NothingLeft == SystemSpec => []NothingLeftUnread
  <1>1. SystemInv => NothingLeftUnread
    <2> SUFFICES ASSUME SystemInv PROVE NothingLeftUnread
      OBVIOUS
    <2>1. TypeInv /\ Len(out) \in Nat /\ Inv /\ RaisedInv
      BY DEF SystemInv, Inv, TypeInv
    <2>2. ASSUME pc = "ended", ~interrupted PROVE ~loop /\ Len(out) = Shortest
      <3>1. ~loop /\ IsShortest(Len(out))
        BY <2>1, <2>2 DEF Inv, CountInv
      <3> QED BY <2>1, <3>1, ShortestIs
    <2>3. IsShortest(Len(out)) => Shortest = Len(out)
      BY <2>1, ShortestIs
    <2>4. IsShortest(0) => Shortest = 0
      BY <2>1, ShortestIs
    <2>5. \A n : Unreadable(n) <=> ~Sound(n)
      BY DEF Unreadable, Sound, RowAt
    <2>6. pc = "raised" =>
            \/ (loop => Shortest = 0) /\ Len(out) = Shortest
            \/ /\ Len(out) % BatchSize = 0
               /\ \E n \in Len(out) + 1 .. Len(out) + BatchSize :
                    Unreadable(n) /\ \A k \in 1 .. n - 1 : ~Unreadable(k)
      BY <2>1, <2>3, <2>4, <2>5 DEF RaisedInv
    <2> QED BY <2>2, <2>6 DEF NothingLeftUnread
  <1> QED BY <1>1, SystemInvariance, PTL

\* A record that is forwarded is one of the agent.
LEMMA Received ==
  ASSUME SentInv, ForwardInv, NEW n \in DOMAIN forwarded
  PROVE  /\ Genuine(sent[forwarded[n].number])
         /\ forwarded[n].state = Edge!RoadState(sent[forwarded[n].number])
         /\ forwarded[n].number \in 1 .. Len(sent) /\ sent[forwarded[n].number] # Invalid
         /\ n \in 1 .. Len(forwarded)
  <1>1. n \in 1 .. Len(forwarded)
    BY DEF ForwardInv, OrderInv
  <1>2. /\ forwarded[n].number \in 1 .. Len(sent) /\ sent[forwarded[n].number] # Invalid
        /\ forwarded[n].state = Edge!RoadState(sent[forwarded[n].number])
    BY <1>1 DEF ForwardInv, OrderInv, StateInv
  <1>3. \A i \in 1 .. Len(sent) : sent[i] # Invalid => Genuine(sent[i])
    BY DEF SentInv
  <1> QED BY <1>1, <1>2, <1>3

\* The hub sees the records of the agent in their order, each at most once,
\* and each with the rows of the files that belong together.
THEOREM FilesInStep == SystemSpec => []HubSeesFilesInStep
  <1>1. SystemInv => HubSeesFilesInStep
    <2>1. SUFFICES ASSUME SystemInv PROVE HubSeesFilesInStep
      OBVIOUS
    <2>2. ASSUME NEW m \in DOMAIN forwarded, NEW n \in DOMAIN forwarded, m < n
          PROVE  sent[forwarded[m].number].record < sent[forwarded[n].number].record
      <3> DEFINE i == forwarded[m].number  j == forwarded[n].number
      <3>1. i \in 1 .. Len(sent) /\ j \in 1 .. Len(sent) /\ sent[i] # Invalid /\ sent[j] # Invalid
        BY <2>1, Received DEF SystemInv
      <3>2. i < j
        BY <2>1, <2>2, Received DEF SystemInv, ForwardInv, OrderInv
      <3> HIDE DEF i, j
      <3>3. sent[i].record < sent[j].record
        BY <2>1, <3>1, <3>2 DEF SystemInv, SentInv
      <3> QED BY <3>3 DEF i, j
    <2>3. ASSUME NEW n \in DOMAIN forwarded, NEW f \in Files
          PROVE  /\ rows[f] > 0
                 /\ sent[forwarded[n].number].row[f] = ((sent[forwarded[n].number].record - 1) % rows[f]) + 1
      BY <2>1, Received DEF SystemInv, Genuine, RowAt
    <2> QED BY <2>2, <2>3 DEF HubSeesFilesInStep
  <1> QED BY <1>1, SystemInvariance, PTL

-----------------------------------------------------------------------------
(* The classification.                                                     *)

Acceleration(r) == r.y \in Int /\ r.z \in Int

\* The state is the worse of the two axes.
LEMMA WorseAxis ==
  ASSUME NEW r, Acceleration(r)
  PROVE  /\ Edge!Spike(r) \in Nat /\ Edge!Deviation(r) \in Nat
         /\ Edge!Badness[Edge!RoadState(r)] =
              IF Edge!Spike(r) >= 15000 \/ Edge!Deviation(r) >= 34200 THEN 2
              ELSE IF Edge!Spike(r) >= 13500 \/ Edge!Deviation(r) >= 33200 THEN 1 ELSE 0
  BY DEF Acceleration, Edge!Spike, Edge!Deviation, Edge!Abs, Edge!RoadState, Edge!Badness

LEMMA Monotonic ==
  ASSUME NEW a, NEW b, Acceleration(a), Acceleration(b),
         Edge!Spike(a) <= Edge!Spike(b), Edge!Deviation(a) <= Edge!Deviation(b)
  PROVE  Edge!Badness[Edge!RoadState(a)] <= Edge!Badness[Edge!RoadState(b)]
  BY WorseAxis

LEMMA Alone ==
  ASSUME NEW a, Acceleration(a)
  PROVE  LET y == [y |-> a.y, z |-> 16500]
             z == [y |-> 0, z |-> a.z]
             state(r) == Edge!Badness[Edge!RoadState(r)]
         IN state(a) \in {state(y), state(z)} /\ \A s \in {state(y), state(z)} : s <= state(a)
  <1> DEFINE y == [y |-> a.y, z |-> 16500]  z == [y |-> 0, z |-> a.z]
  <1>1. /\ Acceleration(y) /\ Edge!Spike(y) = Edge!Spike(a) /\ Edge!Deviation(y) = 0
        /\ Acceleration(z) /\ Edge!Spike(z) = 0 /\ Edge!Deviation(z) = Edge!Deviation(a)
    BY DEF Acceleration, Edge!Spike, Edge!Deviation, Edge!Abs
  <1> HIDE DEF y, z
  <1>2. /\ Edge!Badness[Edge!RoadState(a)] \in {Edge!Badness[Edge!RoadState(y)], Edge!Badness[Edge!RoadState(z)]}
        /\ \A s \in {Edge!Badness[Edge!RoadState(y)], Edge!Badness[Edge!RoadState(z)]} :
             s <= Edge!Badness[Edge!RoadState(a)]
    BY <1>1, WorseAxis
  <1> QED BY <1>2 DEF y, z

\* What reaches the hub is classified by its worse axis, whatever was read,
\* lost or published by others.
THEOREM OrderCorrect == SystemSpec => []WorseIsWorse
  <1>1. SystemInv => WorseIsWorse
    <2>1. SUFFICES ASSUME SystemInv, NEW m \in DOMAIN forwarded, NEW n \in DOMAIN forwarded
          PROVE  LET a == sent[forwarded[m].number]
                     b == sent[forwarded[n].number]
                     state(r) == Edge!Badness[Edge!RoadState(r)]
                     alone == {state([y |-> a.y, z |-> 16500]), state([y |-> 0, z |-> a.z])}
                 IN /\ Edge!Spike(a) <= Edge!Spike(b) /\ Edge!Deviation(a) <= Edge!Deviation(b) =>
                         Edge!Badness[forwarded[m].state] <= Edge!Badness[forwarded[n].state]
                    /\ Edge!Badness[forwarded[m].state] \in alone
                    /\ \A s \in alone : s <= Edge!Badness[forwarded[m].state]
      BY DEF WorseIsWorse, Edge!WorseIsWorse
    <2> DEFINE a == sent[forwarded[m].number]  b == sent[forwarded[n].number]
    <2>2. /\ Acceleration(a) /\ Acceleration(b)
          /\ forwarded[m].state = Edge!RoadState(a) /\ forwarded[n].state = Edge!RoadState(b)
      BY <2>1, Received DEF SystemInv, Genuine, Acceleration
    <2> HIDE DEF a, b
    <2>3. Edge!Spike(a) <= Edge!Spike(b) /\ Edge!Deviation(a) <= Edge!Deviation(b) =>
            Edge!Badness[forwarded[m].state] <= Edge!Badness[forwarded[n].state]
      BY <2>2, Monotonic
    <2>4. LET y == [y |-> a.y, z |-> 16500]
              z == [y |-> 0, z |-> a.z]
              state(r) == Edge!Badness[Edge!RoadState(r)]
          IN state(a) \in {state(y), state(z)} /\ \A s \in {state(y), state(z)} : s <= state(a)
      BY <2>2, Alone
    <2> QED BY <2>2, <2>3, <2>4 DEF a, b
  <1> QED BY <1>1, SystemInvariance, PTL

=============================================================================
