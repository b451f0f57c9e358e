-------------------------- MODULE StoreCrudProofs --------------------------
(***************************************************************************)
(* Proofs about StoreCrud: types, who holds a row, and what the answers    *)
(* to PUT and DELETE say of the versions the table has had.                *)
(***************************************************************************)
EXTENDS StoreCrud, TLAPS

\* A PUT or DELETE whose session has read its row.
HasRead(r) ==
  /\ req[r].op \in {"put", "delete"}
  /\ seen[r] \in 1 .. Len(versions[Row(r)]) /\ Snapshot(r) # NoRow

ReadInv ==
  \A r \in Requests :
    at[r] \in {"write", "commit"} \/ (req[r].op \in {"put", "delete"} /\ answer[r].status = 200) => HasRead(r)

\* A request about to commit holds its row, unless it has nothing to do there.
CommitInv ==
  \A r \in Requests : at[r] = "commit" =>
    \/ holder[Row(r)] = r
    \/ req[r].op = "put" /\ Changed(r) = {}
    \/ req[r].op = "delete" /\ Table(Row(r)) = NoRow

\* A request under way has no answer.
AnswerInv == \A r \in Requests : at[r] # "done" => answer[r].status = 0

VersionsInv == \A i \in Ids : versions[i] # <<>>

Inv ==
  /\ TypeOK /\ VersionsInv /\ ReadInv /\ HoldersCommit /\ CommitInv
  /\ AnswerInv /\ AcknowledgedTookPlace

-----------------------------------------------------------------------------
(* The table.                                                              *)

Content == Rows \cup {NoRow}

\* What a request asks for has a row of the table, and a PUT has a new one.
LEMMA AskType ==
  ASSUME TypeOK, NEW r \in Requests
  PROVE  /\ req[r].op \in {"get", "list", "delete", "put"} /\ Row(r) \in Ids
         /\ req[r].op = "put" => req[r].val \in Rows
  <1>1. req[r] \in Asks
    BY DEF TypeOK
  <1> QED BY <1>1 DEF Asks, Row

\* The current row is the last of the versions of its id.
LEMMA TableType ==
  ASSUME TypeOK, VersionsInv, NEW i \in Ids
  PROVE  /\ versions[i] \in Seq(Content) /\ Len(versions[i]) \in Nat \ {0}
         /\ Table(i) = versions[i][Len(versions[i])] /\ Table(i) \in Content
  <1>1. versions[i] \in Seq(Content) /\ versions[i] # <<>>
    BY DEF TypeOK, VersionsInv, Content
  <1>2. Len(versions[i]) \in Nat \ {0} /\ DOMAIN versions[i] = 1 .. Len(versions[i])
    BY <1>1
  <1>3. Table(i) = versions[i][Len(versions[i])]
    BY <1>1 DEF Table, Last
  <1> QED BY <1>1, <1>2, <1>3

\* Versions are only added, and none after the row has gone.
Grow ==
  \A i \in Ids :
    /\ versions'[i] \in Seq(Content) /\ Len(versions'[i]) >= Len(versions[i])
    /\ \A k \in 1 .. Len(versions[i]) : versions'[i][k] = versions[i][k]
    /\ Table(i) = NoRow => Table(i)' = NoRow

LEMMA Unchanged ==
  ASSUME TypeOK, VersionsInv, UNCHANGED versions
  PROVE  Grow /\ versions' \in [Ids -> Seq(Content)] /\ VersionsInv'
  BY TableType DEF Grow, TypeOK, VersionsInv, Table, Content

\* What a transaction leaves of the row it holds.
LEMMA WrittenType ==
  ASSUME Inv, NEW r \in Requests, at[r] = "commit", holder[Row(r)] = r
  PROVE  /\ Written(r) \in Content /\ Table(Row(r)) # NoRow
         /\ req[r].op = "put" => Written(r) \in Rows /\ \A c \in Changed(r) : Written(r)[c] = req[r].val[c]
  <1>1. Row(r) \in Ids /\ r # Free
    BY AskType, CrudAssumption DEF Inv
  <1>2. Table(Row(r)) \in Rows /\ Table(Row(r)) # NoRow
    BY <1>1, TableType DEF Inv, HoldersCommit, Content
  <1>3. ASSUME req[r].op = "put"
        PROVE  Written(r) \in Rows /\ \A c \in Changed(r) : Written(r)[c] = req[r].val[c]
    <2>1. req[r].val \in [Columns -> Values] /\ Table(Row(r)) \in [Columns -> Values]
      BY <1>2, <1>3, AskType DEF Inv, Rows
    <2>2. Changed(r) \subseteq Columns
      BY DEF Changed
    <2> QED BY <1>3, <2>1, <2>2 DEF Written, Rows
  <1>4. req[r].op \in {"put", "delete"}
    BY DEF Inv, ReadInv, HasRead
  <1>5. CASE req[r].op = "delete"
    BY <1>2, <1>5 DEF Written, Content
  <1>6. CASE req[r].op = "put"
    BY <1>2, <1>3, <1>6 DEF Content
  <1> QED BY <1>4, <1>5, <1>6

\* COMMIT adds the row to its versions and gives it free.
LEMMA Applies ==
  ASSUME Inv, NEW r \in Requests, at[r] = "commit", Apply(r)
  PROVE  /\ Grow /\ versions' \in [Ids -> Seq(Content)] /\ VersionsInv'
         /\ \A i \in Ids : holder'[i] = IF holder[i] = r THEN Free ELSE holder[i]
         /\ \A i \in Ids : holder[i] # r => versions'[i] = versions[i]
         /\ holder' \in [Ids -> Requests \cup {Free}]
         /\ holder[Row(r)] = r =>
              /\ Len(versions'[Row(r)]) = Len(versions[Row(r)]) + 1
              /\ versions'[Row(r)][Len(versions[Row(r)]) + 1] = Written(r)
              /\ \A i \in Ids : i = Row(r) => Table(i)' = Written(r)
  <1>1. TypeOK /\ VersionsInv /\ Row(r) \in Ids /\ r # Free
    BY AskType, CrudAssumption DEF Inv
  <1>2. \A i \in Ids : holder[i] = r => i = Row(r)
    BY <1>1 DEF Inv, HoldersCommit
  <1>3. CASE holder[Row(r)] # r
    BY <1>1, <1>2, <1>3, Unchanged DEF Apply, TypeOK
  <1>4. CASE holder[Row(r)] = r
    <2> DEFINE s == versions[Row(r)]  w == Written(r)
    <2>1. s \in Seq(Content) /\ w \in Content /\ Table(Row(r)) # NoRow
      BY <1>1, <1>4, TableType, WrittenType
    <2>2. /\ Append(s, w) \in Seq(Content) /\ Append(s, w) # <<>> /\ Len(Append(s, w)) = Len(s) + 1
          /\ Len(s) \in Nat /\ Append(s, w)[Len(s) + 1] = w
          /\ \A k \in 1 .. Len(s) : Append(s, w)[k] = s[k]
      BY <2>1
    <2>3. versions' = [versions EXCEPT ![Row(r)] = Append(s, w)] /\ holder' = [holder EXCEPT ![Row(r)] = Free]
      BY <1>4 DEF Apply
    <2> HIDE DEF s, w
    <2>4. /\ versions'[Row(r)] = Append(s, w) /\ versions' \in [Ids -> Seq(Content)]
          /\ \A i \in Ids \ {Row(r)} : versions'[i] = versions[i]
      BY <1>1, <2>2, <2>3 DEF TypeOK, Content
    <2>5. VersionsInv'
      BY <1>1, <2>2, <2>4 DEF VersionsInv
    <2>6. ASSUME NEW i \in Ids, i = Row(r) PROVE Table(i)' = w
      <3>1. Table(i)' = versions'[i][Len(versions'[i])]
        BY DEF Table, Last
      <3> QED BY <2>2, <2>4, <2>6, <3>1
    <2>7. ASSUME NEW i \in Ids \ {Row(r)} PROVE Table(i)' = Table(i)
      BY <2>4 DEF Table
    <2>8. Grow
      <3>1. ASSUME NEW i \in Ids
            PROVE  /\ Len(versions'[i]) >= Len(versions[i])
                   /\ \A k \in 1 .. Len(versions[i]) : versions'[i][k] = versions[i][k]
                   /\ Table(i) = NoRow => Table(i)' = NoRow
        <4>1. CASE i = Row(r)
          BY <2>1, <2>2, <2>4, <4>1 DEF s
        <4>2. CASE i # Row(r)
          BY <1>1, <2>4, <2>7, <4>2, TableType
        <4> QED BY <4>1, <4>2
      <3> QED BY <2>4, <3>1 DEF Grow
    <2>9. \A i \in Ids : holder'[i] = IF holder[i] = r THEN Free ELSE holder[i]
      BY <1>1, <1>2, <1>4, <2>3 DEF TypeOK
    <2>10. holder' \in [Ids -> Requests \cup {Free}]
      BY <1>1, <2>3 DEF TypeOK
    <2>11. \A i \in Ids : holder[i] # r => versions'[i] = versions[i]
      BY <1>4, <2>4
    <2> QED BY <2>2, <2>4, <2>5, <2>6, <2>8, <2>9, <2>10, <2>11 DEF s, w
  <1> QED BY <1>3, <1>4

-----------------------------------------------------------------------------
(* A step of one request leaves what is known of the others.               *)

\* Inv, request by request.
Knows(r) ==
  /\ at[r] \in {"write", "commit"} \/ (req[r].op \in {"put", "delete"} /\ answer[r].status = 200) => HasRead(r)
  /\ at[r] = "commit" =>
       \/ holder[Row(r)] = r
       \/ req[r].op = "put" /\ Changed(r) = {}
       \/ req[r].op = "delete" /\ Table(Row(r)) = NoRow
  /\ at[r] # "done" => answer[r].status = 0

Told(r) ==
  answer[r].status = 200 =>
    /\ req[r].op = "delete" => Table(Row(r)) = NoRow
    /\ req[r].op = "put" /\ Changed(r) # {} =>
         \E k \in seen[r] + 1 .. Len(versions[Row(r)]) :
           /\ versions[Row(r)][k] # NoRow
           /\ \A c \in Changed(r) : versions[Row(r)][k][c] = req[r].val[c]

Holds(r) == \A i \in Ids : holder[i] = r => at[r] = "commit" /\ Row(r) = i /\ Table(i) # NoRow

LEMMA ByRequest ==
  ASSUME TypeOK, VersionsInv
  PROVE  Inv <=> \A r \in Requests : Knows(r) /\ Told(r) /\ Holds(r)
  <1>1. HoldersCommit <=> \A r \in Requests : Holds(r)
    BY CrudAssumption DEF TypeOK, HoldersCommit, Holds
  <1>2. ReadInv /\ CommitInv /\ AnswerInv <=> \A r \in Requests : Knows(r)
    BY DEF ReadInv, CommitInv, AnswerInv, Knows
  <1>3. AcknowledgedTookPlace <=> \A r \in Requests : Told(r)
    BY DEF AcknowledgedTookPlace, Told
  <1> QED BY <1>1, <1>2, <1>3 DEF Inv

\* A step of r: the rows of other transactions, and their handlers, stay.
Frame(r) ==
  /\ Grow /\ VersionsInv' /\ req' = req
  /\ \A i \in Ids : holder'[i] \in {Free, r, holder[i]}
  /\ \A i \in Ids : holder[i] \notin {Free, r} => holder'[i] = holder[i] /\ versions'[i] = versions[i]
  /\ \A q \in Requests \ {r} : at'[q] = at[q] /\ seen'[q] = seen[q] /\ answer'[q] = answer[q]

\* What a session has read stays among the versions.
LEMMA Keeps ==
  ASSUME Inv, Grow, req' = req, NEW r \in Requests, HasRead(r), seen'[r] = seen[r]
  PROVE  HasRead(r)' /\ Snapshot(r)' = Snapshot(r) /\ Changed(r)' = Changed(r)
  <1>1. Row(r) \in Ids /\ Row(r)' = Row(r)
    BY AskType DEF Inv, Row
  <1>2. /\ versions[Row(r)] \in Seq(Content) /\ versions'[Row(r)] \in Seq(Content)
        /\ Len(versions'[Row(r)]) >= Len(versions[Row(r)])
        /\ \A k \in 1 .. Len(versions[Row(r)]) : versions'[Row(r)][k] = versions[Row(r)][k]
    BY <1>1, TableType DEF Inv, Grow
  <1>3. seen[r] \in 1 .. Len(versions[Row(r)]) /\ seen[r] \in 1 .. Len(versions'[Row(r)])
    BY <1>2 DEF HasRead
  <1>4. Snapshot(r)' = Snapshot(r)
    BY <1>1, <1>2, <1>3 DEF Snapshot
  <1> QED BY <1>1, <1>3, <1>4 DEF HasRead, Changed

\* What has been told of a row stays true as its versions grow.
LEMMA StaysTold ==
  ASSUME Inv, Grow, req' = req, NEW r \in Requests, Told(r), at[r] = "done", seen'[r] = seen[r], answer'[r] = answer[r]
  PROVE  Told(r)'
  <1>1. Row(r) \in Ids /\ Row(r)' = Row(r)
    BY AskType DEF Inv, Row
  <1>2. ASSUME NEW i \in Ids
        PROVE  /\ Len(versions[i]) \in Nat /\ Len(versions'[i]) \in Nat /\ Len(versions'[i]) >= Len(versions[i])
               /\ \A k \in 1 .. Len(versions[i]) : versions'[i][k] = versions[i][k]
               /\ Table(i) = NoRow => Table(i)' = NoRow
    <2>1. versions[i] \in Seq(Content) /\ versions'[i] \in Seq(Content)
      BY TableType DEF Inv, Grow
    <2>2. DOMAIN versions[i] = 1 .. Len(versions[i]) /\ DOMAIN versions'[i] = 1 .. Len(versions'[i])
      BY <2>1
    <2>3. Len(versions'[i]) >= Len(versions[i]) /\ \A k \in 1 .. Len(versions[i]) : versions'[i][k] = versions[i][k]
      BY DEF Grow
    <2>4. Len(versions[i]) \in Nat /\ Len(versions'[i]) \in Nat
      BY <2>1
    <2> QED BY <2>3, <2>4 DEF Grow
  <1> SUFFICES ASSUME answer[r].status = 200 PROVE Told(r)'
    BY DEF Told
  <1>3. ASSUME req[r].op = "delete" PROVE Table(Row(r))' = NoRow
    <2>1. Table(Row(r)) = NoRow
      BY <1>3 DEF Told
    <2>2. \A i \in Ids : i = Row(r) => Table(i)' = NoRow
      BY <1>2, <2>1
    <2>3. \A i \in Ids : i = Row(r) => Last(versions'[i]) = NoRow
      BY <2>2 DEF Table
    <2> QED BY <1>1, <2>3 DEF Table
  <1>4. ASSUME req[r].op = "put", Changed(r)' # {}
        PROVE  \E k \in seen[r] + 1 .. Len(versions'[Row(r)]) :
                 /\ versions'[Row(r)][k] # NoRow
                 /\ \A c \in Changed(r)' : versions'[Row(r)][k][c] = req[r].val[c]
    <2>1. HasRead(r)
      BY <1>4 DEF Inv, ReadInv
    <2>2. Changed(r)' = Changed(r)
      BY <2>1, Keeps
    <2>3. PICK k \in seen[r] + 1 .. Len(versions[Row(r)]) :
            /\ versions[Row(r)][k] # NoRow
            /\ \A c \in Changed(r) : versions[Row(r)][k][c] = req[r].val[c]
      BY <1>4, <2>2 DEF Told
    <2>4. k \in 1 .. Len(versions[Row(r)]) /\ k \in seen[r] + 1 .. Len(versions'[Row(r)])
      BY <1>1, <1>2, <2>1, <2>3 DEF HasRead
    <2> QED BY <1>1, <1>2, <2>2, <2>3, <2>4
  <1> QED BY <1>1, <1>3, <1>4 DEF Told

LEMMA StepLemma ==
  ASSUME Inv, NEW r \in Requests, Frame(r), TypeOK', Knows(r)', Told(r)', Holds(r)'
  PROVE  Inv'
  <1>1. \A q \in Requests : Knows(q) /\ Told(q) /\ Holds(q)
    BY ByRequest DEF Inv
  <1>2. ASSUME NEW q \in Requests \ {r}
        PROVE  Knows(q)' /\ Told(q)' /\ Holds(q)'
    <2>1. q # Free /\ Row(q) \in Ids /\ Row(q)' = Row(q) /\ Row(q) \in Ids
      BY CrudAssumption, AskType DEF Frame, Inv, Row
    <2>2. at'[q] = at[q] /\ seen'[q] = seen[q] /\ answer'[q] = answer[q] /\ req' = req /\ Grow
      BY DEF Frame
    <2>3. HasRead(q) => HasRead(q)' /\ Changed(q)' = Changed(q)
      BY <2>2, Keeps
    <2>4. \A i \in Ids : holder[i] = q => holder'[i] = q /\ versions'[i] = versions[i]
      BY <2>1 DEF Frame
    <2>5. \A i \in Ids : Table(i) = NoRow => Last(versions'[i]) = NoRow
      BY <2>2 DEF Grow, Table
    <2>6. Knows(q)'
      BY <1>1, <2>1, <2>2, <2>3, <2>4, <2>5 DEF Knows, Table
    <2>7. Told(q)'
      <3>1. CASE at[q] = "done"
        BY <1>1, <2>2, <3>1, StaysTold
      <3>2. CASE at[q] # "done"
        BY <1>1, <2>2, <3>2 DEF Knows, Told
      <3> QED BY <3>1, <3>2
    <2>8. Holds(q)'
      <3> SUFFICES ASSUME NEW i \in Ids, holder'[i] = q
                   PROVE  at'[q] = "commit" /\ Row(q) = i /\ Last(versions'[i]) # NoRow
        BY <2>1 DEF Holds, Table
      <3>1. holder[i] = q
        BY <2>1 DEF Frame
      <3> QED BY <1>1, <2>2, <2>4, <3>1 DEF Holds, Table
    <2> QED BY <2>6, <2>7, <2>8
  <1>3. VersionsInv'
    BY DEF Frame
  <1>4. \A q \in Requests : Knows(q)' /\ Told(q)' /\ Holds(q)'
    BY <1>1, <1>2
  <1>5. HoldersCommit'
    BY <1>4, CrudAssumption DEF TypeOK, HoldersCommit, Holds
  <1>6. ReadInv' /\ CommitInv' /\ AnswerInv'
    BY <1>4 DEF ReadInv, CommitInv, AnswerInv, Knows
  <1>7. AcknowledgedTookPlace'
    BY <1>4 DEF AcknowledgedTookPlace, Told
  <1> QED BY <1>3, <1>5, <1>6, <1>7 DEF Inv

-----------------------------------------------------------------------------
(* The steps.                                                              *)

Bodies == Content \cup [Ids -> Content]

LEMMA TypeParts ==
  ASSUME TypeOK
  PROVE  /\ holder \in [Ids -> Requests \cup {Free}] /\ seen \in [Requests -> Nat]
         /\ at \in [Requests -> {"idle", "select", "write", "commit", "done"}]
         /\ answer \in [Requests -> [status : {0, 200, 404, 500}, body : Bodies]]
  BY DEF TypeOK, Bodies, Content

LEMMA Responds ==
  ASSUME TypeOK, NEW r \in Requests, NEW status \in {0, 200, 404, 500}, NEW body \in Bodies, Respond(r, status, body)
  PROVE  /\ at' \in [Requests -> {"idle", "select", "write", "commit", "done"}] /\ at'[r] = "done"
         /\ answer' \in [Requests -> [status : {0, 200, 404, 500}, body : Bodies]]
         /\ answer'[r].status = status /\ answer'[r].body = body
         /\ \A q \in Requests \ {r} : at'[q] = at[q] /\ answer'[q] = answer[q]
  BY DEF TypeOK, Respond, Bodies, Content

\* A request that is not about to commit holds nothing.
LEMMA HoldsNothing ==
  ASSUME Inv, NEW r \in Requests, at[r] # "commit"
  PROVE  \A i \in Ids : holder[i] # r
  BY CrudAssumption DEF Inv, HoldersCommit

\* What is common to the steps that change no row.
LEMMA QuietStep ==
  ASSUME Inv, NEW r \in Requests, UNCHANGED <<versions, req>>,
         holder' \in [Ids -> Requests \cup {Free}],
         \A i \in Ids : holder'[i] \in {Free, r, holder[i]} /\ (holder[i] \notin {Free, r} => holder'[i] = holder[i]),
         at' \in [Requests -> {"idle", "select", "write", "commit", "done"}],
         seen' \in [Requests -> Nat],
         answer' \in [Requests -> [status : {0, 200, 404, 500}, body : Bodies]],
         \A q \in Requests \ {r} : at'[q] = at[q] /\ seen'[q] = seen[q] /\ answer'[q] = answer[q]
  PROVE  Frame(r) /\ TypeOK'
  <1>1. TypeOK /\ VersionsInv
    BY DEF Inv
  <1>2. Grow /\ VersionsInv'
    BY <1>1, Unchanged
  <1>3. TypeOK'
    BY <1>1 DEF TypeOK, Bodies, Content
  <1> QED BY <1>2, <1>3 DEF Frame

\* An answer that says of no row what it is, given by a request that holds none.
LEMMA Refusal ==
  ASSUME Inv, NEW r \in Requests, Frame(r), TypeOK',
         at'[r] = "done", answer'[r].status \in {404, 500}, \A i \in Ids : holder'[i] # r
  PROVE  Inv'
  <1>1. Knows(r)' /\ Told(r)' /\ Holds(r)'
    BY DEF Knows, Told, Holds
  <1> QED BY <1>1, StepLemma

LEMMA BeginStep == ASSUME Inv, NEW r \in Requests, Begin(r) PROVE Inv'
  <1>1. at[r] = "idle" /\ at' = [at EXCEPT ![r] = "select"] /\ UNCHANGED <<versions, holder, req, seen, answer>>
    BY DEF Begin
  <1>2. TypeOK /\ answer[r].status = 0 /\ \A i \in Ids : holder[i] # r
    BY <1>1, HoldsNothing DEF Inv, AnswerInv
  <1>3. /\ at' \in [Requests -> {"idle", "select", "write", "commit", "done"}] /\ at'[r] = "select"
        /\ \A q \in Requests \ {r} : at'[q] = at[q]
    BY <1>1, <1>2 DEF TypeOK
  <1>4. Frame(r) /\ TypeOK'
    BY <1>1, <1>2, <1>3, TypeParts, QuietStep
  <1>5. Knows(r)' /\ Told(r)' /\ Holds(r)'
    BY <1>1, <1>2, <1>3 DEF Knows, Told, Holds
  <1> QED BY <1>4, <1>5, StepLemma

\* The body of an answer is a row, no row, or all rows.
LEMMA ReadStep == ASSUME Inv, NEW r \in Requests, Read(r) \/ ListRows(r) \/ NotFound(r) PROVE Inv'
  <1> DEFINE body == IF req[r].op = "list" THEN [i \in Ids |-> Table(i)] ELSE Table(Row(r))
             status == IF body = NoRow /\ req[r].op # "list" THEN 404 ELSE 200
  <1>1. TypeOK /\ VersionsInv /\ Row(r) \in Ids
    BY AskType DEF Inv
  <1>2. \A i \in Ids : Table(i) \in Content
    BY <1>1, TableType
  <1>3. body \in Bodies
    BY <1>1, <1>2 DEF Bodies
  <1>4. /\ Respond(r, status, body) /\ UNCHANGED <<versions, holder, req, seen>>
        /\ at[r] = "select" /\ (status = 200 => req[r].op \in {"get", "list"})
    BY DEF Read, ListRows, NotFound
  <1>5. status \in {200, 404}
    OBVIOUS
  <1> HIDE DEF status
  <1>6. \A i \in Ids : holder[i] # r
    BY <1>4, HoldsNothing
  <1>7. /\ at' \in [Requests -> {"idle", "select", "write", "commit", "done"}] /\ at'[r] = "done"
        /\ answer' \in [Requests -> [status : {0, 200, 404, 500}, body : Bodies]]
        /\ answer'[r].status = status /\ answer'[r].body = body
        /\ \A q \in Requests \ {r} : at'[q] = at[q] /\ answer'[q] = answer[q]
    <2> HIDE DEF body
    <2> QED BY <1>1, <1>3, <1>4, <1>5, Responds
  <1>8. Frame(r) /\ TypeOK'
    <2> HIDE DEF body
    <2> QED BY <1>1, <1>4, <1>7, TypeParts, QuietStep
  <1>9. CASE status = 404
    BY <1>4, <1>6, <1>7, <1>8, <1>9, Refusal
  <1>10. CASE status = 200
    <2>1. Knows(r)' /\ Holds(r)'
      BY <1>4, <1>6, <1>7, <1>10 DEF Knows, Holds
    <2>2. Told(r)'
      BY <1>4, <1>10 DEF Told
    <2> QED BY <1>8, <2>1, <2>2, StepLemma
  <1> QED BY <1>5, <1>9, <1>10

LEMMA SelectStep == ASSUME Inv, NEW r \in Requests, Select(r) PROVE Inv'
  <1>1. /\ at[r] = "select" /\ req[r].op \in {"put", "delete"} /\ Table(Row(r)) # NoRow
        /\ seen' = [seen EXCEPT ![r] = Len(versions[Row(r)])] /\ at' = [at EXCEPT ![r] = "write"]
        /\ UNCHANGED <<versions, holder, req, answer>>
    BY DEF Select
  <1>2. TypeOK /\ VersionsInv /\ Row(r) \in Ids /\ answer[r].status = 0 /\ \A i \in Ids : holder[i] # r
    BY <1>1, AskType, HoldsNothing DEF Inv, AnswerInv
  <1>3. Len(versions[Row(r)]) \in Nat \ {0} /\ Table(Row(r)) = versions[Row(r)][Len(versions[Row(r)])]
    BY <1>2, TableType
  <1>4. /\ at' \in [Requests -> {"idle", "select", "write", "commit", "done"}] /\ at'[r] = "write"
        /\ seen' \in [Requests -> Nat] /\ seen'[r] = Len(versions[Row(r)])
        /\ \A q \in Requests \ {r} : at'[q] = at[q] /\ seen'[q] = seen[q]
    BY <1>1, <1>2, <1>3 DEF TypeOK
  <1>5. Frame(r) /\ TypeOK'
    BY <1>1, <1>2, <1>4, TypeParts, QuietStep
  <1>6. HasRead(r)'
    BY <1>1, <1>3, <1>4 DEF HasRead, Snapshot, Row
  <1>7. Knows(r)' /\ Told(r)' /\ Holds(r)'
    BY <1>1, <1>2, <1>4, <1>6 DEF Knows, Told, Holds
  <1> QED BY <1>5, <1>7, StepLemma

\* The row of r is written, or there is nothing to write: r may commit.
LEMMA WriteStep ==
  ASSUME Inv, NEW r \in Requests, at[r] = "write", at' = [at EXCEPT ![r] = "commit"],
         UNCHANGED <<versions, req, seen, answer>>,
         \/ /\ holder[Row(r)] = Free /\ Table(Row(r)) # NoRow
            /\ holder' = [holder EXCEPT ![Row(r)] = r]
         \/ /\ UNCHANGED holder
            /\ \/ req[r].op = "put" /\ Changed(r) = {}
               \/ req[r].op = "delete" /\ Table(Row(r)) = NoRow
  PROVE  Inv'
  <1>1. TypeOK /\ Row(r) \in Ids /\ Row(r)' = Row(r) /\ answer[r].status = 0 /\ \A i \in Ids : holder[i] # r
    BY AskType, HoldsNothing DEF Inv, AnswerInv, Row
  <1>2. /\ at' \in [Requests -> {"idle", "select", "write", "commit", "done"}] /\ at'[r] = "commit"
        /\ \A q \in Requests \ {r} : at'[q] = at[q]
    BY <1>1 DEF TypeOK
  <1>3. /\ holder' \in [Ids -> Requests \cup {Free}]
        /\ \A i \in Ids : holder'[i] \in {Free, r, holder[i]} /\ (holder[i] \notin {Free, r} => holder'[i] = holder[i])
        /\ \A i \in Ids : holder'[i] = r => i = Row(r) /\ Table(Row(r)) # NoRow
    <2>1. CASE UNCHANGED holder
      BY <1>1, <2>1 DEF TypeOK
    <2>2. CASE holder[Row(r)] = Free /\ Table(Row(r)) # NoRow /\ holder' = [holder EXCEPT ![Row(r)] = r]
      <3>1. holder \in [Ids -> Requests \cup {Free}]
        BY <1>1 DEF TypeOK
      <3>2. \A i \in Ids : holder'[i] = IF i = Row(r) THEN r ELSE holder[i]
        BY <2>2, <3>1
      <3>3. holder' \in [Ids -> Requests \cup {Free}]
        BY <2>2, <3>1
      <3> QED BY <1>1, <2>2, <3>2, <3>3
    <2> QED BY <2>1, <2>2
  <1>4. Frame(r) /\ TypeOK'
    BY <1>1, <1>2, <1>3, TypeParts, QuietStep
  <1>5. HasRead(r) /\ Grow
    BY <1>4 DEF Inv, ReadInv, Frame
  <1>6. HasRead(r)' /\ Changed(r)' = Changed(r)
    BY <1>5, Keeps
  <1>7. \/ holder'[Row(r)] = r
        \/ req[r].op = "put" /\ Changed(r) = {}
        \/ req[r].op = "delete" /\ Table(Row(r)) = NoRow
    BY <1>1 DEF TypeOK
  <1>8. Knows(r)'
    BY <1>1, <1>2, <1>6, <1>7 DEF Knows, Table
  <1>9. Told(r)' /\ Holds(r)'
    BY <1>1, <1>2, <1>3 DEF Told, Holds, Table
  <1> QED BY <1>4, <1>8, <1>9, StepLemma

LEMMA UpdateStep == ASSUME Inv, NEW r \in Requests, Update(r) PROVE Inv'
  <1>1. at[r] = "write" /\ req[r].op = "put" /\ UNCHANGED <<versions, req, seen>>
    BY DEF Update
  <1>2. CASE Changed(r) = {} /\ at' = [at EXCEPT ![r] = "commit"] /\ UNCHANGED <<holder, answer>>
    BY <1>1, <1>2, WriteStep
  <1>3. CASE Table(Row(r)) # NoRow /\ Lock(r) /\ UNCHANGED answer
    BY <1>1, <1>3, WriteStep DEF Lock
  <1>4. CASE Respond(r, 500, NoRow) /\ UNCHANGED holder
    <2>1. TypeOK /\ NoRow \in Bodies /\ \A i \in Ids : holder[i] # r
      BY <1>1, HoldsNothing DEF Inv, Bodies, Content
    <2>2. /\ at' \in [Requests -> {"idle", "select", "write", "commit", "done"}] /\ at'[r] = "done"
          /\ answer' \in [Requests -> [status : {0, 200, 404, 500}, body : Bodies]]
          /\ answer'[r].status = 500
          /\ \A q \in Requests \ {r} : at'[q] = at[q] /\ answer'[q] = answer[q]
      BY <1>4, <2>1, Responds
    <2>3. Frame(r) /\ TypeOK'
      BY <1>1, <1>4, <2>1, <2>2, TypeParts, QuietStep
    <2> QED BY <1>4, <2>1, <2>2, <2>3, Refusal
  <1> QED BY <1>2, <1>3, <1>4 DEF Update

LEMMA DeleteStep == ASSUME Inv, NEW r \in Requests, Delete(r) PROVE Inv'
  BY WriteStep DEF Delete, Lock

\* COMMIT, seen from the others.
LEMMA CommitFrame ==
  ASSUME Inv, NEW r \in Requests, at[r] = "commit", Apply(r), UNCHANGED <<req, seen>>,
         NEW status \in {200, 500}, NEW body \in Bodies, Respond(r, status, body)
  PROVE  /\ Frame(r) /\ TypeOK' /\ \A i \in Ids : holder'[i] # r
         /\ at'[r] = "done" /\ answer'[r].status = status /\ answer'[r].body = body
  <1>1. TypeOK /\ r # Free
    BY CrudAssumption DEF Inv
  <1>2. /\ at' \in [Requests -> {"idle", "select", "write", "commit", "done"}] /\ at'[r] = "done"
        /\ answer' \in [Requests -> [status : {0, 200, 404, 500}, body : Bodies]]
        /\ answer'[r].status = status /\ answer'[r].body = body
        /\ \A q \in Requests \ {r} : at'[q] = at[q] /\ answer'[q] = answer[q]
    BY <1>1, Responds
  <1>3. /\ Grow /\ versions' \in [Ids -> Seq(Content)] /\ VersionsInv'
        /\ \A i \in Ids : holder'[i] = IF holder[i] = r THEN Free ELSE holder[i]
        /\ \A i \in Ids : holder[i] # r => versions'[i] = versions[i]
        /\ holder' \in [Ids -> Requests \cup {Free}]
    BY Applies
  <1>4. TypeOK'
    BY <1>1, <1>2, <1>3 DEF TypeOK, Bodies, Content
  <1> QED BY <1>1, <1>2, <1>3, <1>4 DEF Frame

LEMMA CommitPutStep == ASSUME Inv, NEW r \in Requests, CommitPut(r) PROVE Inv'
  <1>1. /\ at[r] = "commit" /\ req[r].op = "put" /\ Apply(r) /\ Respond(r, 200, req[r].val) /\ UNCHANGED <<req, seen>>
    BY DEF CommitPut
  <1>2. TypeOK /\ VersionsInv /\ Row(r) \in Ids /\ Row(r)' = Row(r) /\ req[r].val \in Bodies
    BY <1>1, AskType DEF Inv, Bodies, Content, Row
  <1>3. /\ Frame(r) /\ TypeOK' /\ \A i \in Ids : holder'[i] # r
        /\ at'[r] = "done" /\ answer'[r].status = 200
    BY <1>1, <1>2, CommitFrame
  <1>4. HasRead(r) /\ Grow
    BY <1>1, <1>3 DEF Inv, ReadInv, Frame
  <1>5. HasRead(r)' /\ Changed(r)' = Changed(r)
    BY <1>1, <1>4, Keeps
  <1>6. Knows(r)' /\ Holds(r)'
    BY <1>3, <1>5 DEF Knows, Holds
  <1>7. ASSUME Changed(r) # {}
        PROVE  \E k \in seen[r] + 1 .. Len(versions'[Row(r)]) :
                 /\ versions'[Row(r)][k] # NoRow
                 /\ \A c \in Changed(r) : versions'[Row(r)][k][c] = req[r].val[c]
    <2>1. holder[Row(r)] = r
      BY <1>1, <1>7 DEF Inv, CommitInv
    <2>2. /\ Len(versions'[Row(r)]) = Len(versions[Row(r)]) + 1
          /\ versions'[Row(r)][Len(versions[Row(r)]) + 1] = Written(r)
      BY <1>1, <2>1, Applies
    <2>3. Written(r) # NoRow /\ \A c \in Changed(r) : Written(r)[c] = req[r].val[c]
      BY <1>1, <2>1, WrittenType, CrudAssumption DEF Rows
    <2>4. Len(versions[Row(r)]) + 1 \in seen[r] + 1 .. Len(versions'[Row(r)])
      BY <1>2, <1>4, <2>2, TableType DEF HasRead
    <2> QED BY <2>2, <2>3, <2>4
  <1>8. Told(r)'
    BY <1>1, <1>2, <1>5, <1>7 DEF Told
  <1> QED BY <1>3, <1>6, <1>8, StepLemma

LEMMA CommitDeleteStep == ASSUME Inv, NEW r \in Requests, CommitDelete(r) PROVE Inv'
  <1>1. /\ at[r] = "commit" /\ req[r].op = "delete" /\ Apply(r) /\ Respond(r, 200, Snapshot(r)) /\ UNCHANGED <<req, seen>>
    BY DEF CommitDelete
  <1>2. TypeOK /\ VersionsInv /\ Row(r) \in Ids /\ Row(r)' = Row(r) /\ HasRead(r)
    BY <1>1, AskType DEF Inv, ReadInv, Row
  <1>3. Snapshot(r) \in Bodies
    <2>1. versions[Row(r)] \in Seq(Content) /\ seen[r] \in 1 .. Len(versions[Row(r)])
      BY <1>2, TableType DEF HasRead
    <2> QED BY <2>1 DEF Bodies, Snapshot
  <1>4. /\ Frame(r) /\ TypeOK' /\ \A i \in Ids : holder'[i] # r
        /\ at'[r] = "done" /\ answer'[r].status = 200
    BY <1>1, <1>3, CommitFrame
  <1>5. HasRead(r)' /\ Grow
    BY <1>1, <1>2, <1>4, Keeps DEF Frame
  <1>6. Knows(r)' /\ Holds(r)'
    BY <1>4, <1>5 DEF Knows, Holds
  <1>7. Last(versions'[Row(r)]) = NoRow
    <2>1. CASE holder[Row(r)] = r
      BY <1>1, <1>2, <2>1, Applies DEF Written, Table
    <2>2. CASE holder[Row(r)] # r
      BY <1>1, <1>2, <1>5, <2>2 DEF Inv, CommitInv, Grow, Table
    <2> QED BY <2>1, <2>2
  <1>8. Told(r)'
    BY <1>1, <1>2, <1>7 DEF Told, Table
  <1> QED BY <1>4, <1>6, <1>8, StepLemma

LEMMA FailsStep == ASSUME Inv, NEW r \in Requests, Fails(r) PROVE Inv'
  <1>1. Respond(r, 500, NoRow) /\ UNCHANGED <<req, seen>> /\ NoRow \in Bodies /\ TypeOK /\ r # Free
    BY CrudAssumption DEF Fails, Bodies, Content, Inv
  <1>2. CASE holder' = [i \in Ids |-> IF holder[i] = r THEN Free ELSE holder[i]] /\ UNCHANGED versions
    <2>1. /\ at' \in [Requests -> {"idle", "select", "write", "commit", "done"}] /\ at'[r] = "done"
          /\ answer' \in [Requests -> [status : {0, 200, 404, 500}, body : Bodies]]
          /\ answer'[r].status = 500
          /\ \A q \in Requests \ {r} : at'[q] = at[q] /\ answer'[q] = answer[q]
      BY <1>1, Responds
    <2>2. /\ holder' \in [Ids -> Requests \cup {Free}] /\ \A i \in Ids : holder'[i] # r
          /\ \A i \in Ids : holder'[i] \in {Free, r, holder[i]} /\ (holder[i] \notin {Free, r} => holder'[i] = holder[i])
      BY <1>1, <1>2 DEF TypeOK
    <2>3. Frame(r) /\ TypeOK'
      BY <1>1, <1>2, <2>1, <2>2, TypeParts, QuietStep
    <2> QED BY <2>1, <2>2, <2>3, Refusal
  <1>3. CASE at[r] = "commit" /\ Apply(r)
    BY <1>1, <1>3, CommitFrame, Refusal
  <1> QED BY <1>2, <1>3 DEF Fails

LEMMA NextStep == ASSUME Inv, [Next]_vars PROVE Inv'
  <1>1. CASE UNCHANGED vars
    <2>1. \A r \in Requests :
            /\ Snapshot(r)' = Snapshot(r) /\ Changed(r)' = Changed(r)
            /\ Row(r)' = Row(r) /\ HasRead(r)' = HasRead(r)
      BY <1>1 DEF vars, Snapshot, Changed, Row, HasRead
    <2>2. \A i \in Ids : Table(i)' = Table(i)
      BY <1>1 DEF vars, Table
    <2>3. TypeOK' /\ VersionsInv' /\ AnswerInv'
      BY <1>1 DEF vars, Inv, TypeOK, VersionsInv, AnswerInv
    <2>4. ReadInv' /\ CommitInv' /\ HoldersCommit'
      BY <1>1 DEF vars, Inv, ReadInv, HasRead, CommitInv, HoldersCommit, Snapshot, Changed, Row, Table
    <2>5. AcknowledgedTookPlace'
      BY <1>1 DEF vars, Inv, AcknowledgedTookPlace, Snapshot, Changed, Row, Table
    <2> QED BY <2>3, <2>4, <2>5 DEF Inv
  <1>2. ASSUME NEW r \in Requests, Begin(r) \/ Serve(r) \/ Fails(r) PROVE Inv'
    BY <1>2, BeginStep, ReadStep, SelectStep, UpdateStep, DeleteStep, CommitPutStep, CommitDeleteStep, FailsStep DEF Serve
  <1> QED BY <1>1, <1>2 DEF Next

-----------------------------------------------------------------------------
(* The theorems.                                                           *)

LEMMA InitInv == ASSUME Init PROVE Inv
  <1>1. \A i \in Ids : \E row \in Rows : versions[i] = <<row>>
    BY DEF Init
  <1>2. ASSUME NEW i \in Ids PROVE versions[i] \in Seq(Content) /\ versions[i] # <<>>
    <2>1. PICK row \in Content : versions[i] = <<row>>
      BY <1>1 DEF Content
    <2> QED BY <2>1
  <1>3. TypeOK /\ VersionsInv
    <2>1. versions \in [Ids -> Seq(Content)] /\ VersionsInv
      BY <1>2 DEF Init, VersionsInv
    <2> QED BY <2>1 DEF Init, TypeOK, Unanswered, Content
  <1>4. \A r \in Requests : at[r] = "idle" /\ answer[r].status = 0
    BY DEF Init, Unanswered
  <1>5. \A i \in Ids : holder[i] = Free
    BY DEF Init
  <1> QED BY <1>3, <1>4, <1>5
    DEF Inv, ReadInv, HoldersCommit, CommitInv, AnswerInv, AcknowledgedTookPlace

\* No step brings a row back: only COMMIT writes, to rows that exist.
LEMMA Deleted ==
  ASSUME Inv, [Next]_vars, NEW i \in Ids, Table(i) = NoRow
  PROVE  Table(i)' = NoRow
  <1>1. CASE UNCHANGED versions
    BY <1>1 DEF Table
  <1>2. ASSUME NEW r \in Requests, at[r] = "commit", Apply(r) PROVE Table(i)' = NoRow
    BY <1>2, Applies DEF Grow
  <1>3. UNCHANGED versions \/ \E r \in Requests : at[r] = "commit" /\ Apply(r)
    BY DEF Next, vars, Begin, Serve, Read, ListRows, NotFound, Select, Update, Delete, CommitPut, CommitDelete, Fails
  <1> QED BY <1>1, <1>2, <1>3

\* What is known of the table and the requests, throughout every run.
THEOREM Invariance == Spec => []Inv
  <1>1. Init => Inv
    BY InitInv
  <1>2. Inv /\ [Next]_vars => Inv'
    BY NextStep
  <1> QED BY <1>1, <1>2, PTL DEF Spec

\* Every variable keeps its type, whatever the requests ask for (the models of
\* src/repository/processed_agent_data.py).
THEOREM TypeCorrect == Spec => []TypeOK
  <1>1. Inv => TypeOK
    BY DEF Inv
  <1> QED BY <1>1, Invariance, PTL

\* A row is held only by a transaction that is about to commit: whoever waits
\* for it in flush() is let in by a commit or a rollback.
THEOREM HoldersCorrect == Spec => []HoldersCommit
  <1>1. Inv => HoldersCommit
    BY DEF Inv
  <1> QED BY <1>1, Invariance, PTL

\* An update() or delete() answered 200 has taken place, and the changed
\* columns of an update were committed together.
THEOREM AcknowledgedCorrect == Spec => []AcknowledgedTookPlace
  <1>1. Inv => AcknowledgedTookPlace
    BY DEF Inv
  <1> QED BY <1>1, Invariance, PTL

\* The UPDATE of an update() that lost the race against a delete() does not
\* bring the row back.
THEOREM DeletedCorrect == Spec => DeletedStaysDeleted
  <1>1. Inv /\ [Next]_vars => [\A i \in Ids : Table(i) = NoRow => Table(i)' = NoRow]_vars
    BY Deleted
  <1> QED BY <1>1, Invariance, PTL DEF Spec, DeletedStaysDeleted

=============================================================================
