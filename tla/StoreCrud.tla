------------------------------ MODULE StoreCrud ------------------------------
(***************************************************************************)
(* GET, PUT and DELETE of the Store API over the rows of a table.          *)
(*                                                                         *)
(* Each request has a session and a transaction of its own (READ           *)
(* COMMITTED).  PUT and DELETE select the row first and write it in        *)
(* another statement, which waits for the row while another transaction    *)
(* has changed it and then acts on what that has left.  The session sends  *)
(* only the columns that differ from the row it has read.  Rows are only   *)
(* added under new ids, so that a deleted id stays free.                   *)
(***************************************************************************)
EXTENDS Naturals, SequencesExt

CONSTANTS
  Requests,      \* requests, each served once
  Ids,           \* ids of rows
  Columns,       \* columns a PUT may change
  Values,        \* what a column may hold
  NoRow          \* the absence of a row

Free == "free"

ASSUME CrudAssumption == NoRow \notin [Columns -> Values] /\ Free \notin Requests

VARIABLES
  versions,  \* versions[i]: the committed versions of row i, the last one is current
  holder,    \* holder[i]: the transaction that has written row i, not committed
  at,        \* where the handler of each request is
  req,       \* what each request asks for
  seen,      \* the version its session has read
  answer     \* status and body of its response

vars == <<versions, holder, at, req, seen, answer>>

Rows == [Columns -> Values]

Asks == [op : {"get", "list", "delete"}, id : Ids] \cup [op : {"put"}, id : Ids, val : Rows]

Unanswered == [status |-> 0, body |-> NoRow]

Init ==
  /\ versions \in [Ids -> {<<row>> : row \in Rows}]
  /\ holder = [i \in Ids |-> Free]
  /\ at = [r \in Requests |-> "idle"]
  /\ req \in [Requests -> Asks]
  /\ seen = [r \in Requests |-> 0]
  /\ answer = [r \in Requests |-> Unanswered]

\* The committed row i.
Table(i) == Last(versions[i])

Row(r) == req[r].id

Respond(r, status, body) ==
  /\ at' = [at EXCEPT ![r] = "done"]
  /\ answer' = [answer EXCEPT ![r] = [status |-> status, body |-> body]]

-----------------------------------------------------------------------------
Begin(r) ==
  /\ at[r] = "idle"
  /\ at' = [at EXCEPT ![r] = "select"]
  /\ UNCHANGED <<versions, holder, req, seen, answer>>

\* get_by_id finds a row: GET answers it.
Read(r) ==
  /\ at[r] = "select" /\ req[r].op = "get" /\ Table(Row(r)) # NoRow
  /\ Respond(r, 200, Table(Row(r)))
  /\ UNCHANGED <<versions, holder, req, seen>>

\* One statement reads all rows.
ListRows(r) ==
  /\ at[r] = "select" /\ req[r].op = "list"
  /\ Respond(r, 200, [i \in Ids |-> Table(i)])
  /\ UNCHANGED <<versions, holder, req, seen>>

\* get_by_id finds no row.
NotFound(r) ==
  /\ at[r] = "select" /\ req[r].op # "list" /\ Table(Row(r)) = NoRow
  /\ Respond(r, 404, NoRow)
  /\ UNCHANGED <<versions, holder, req, seen>>

\* update() or delete() has its row, and flush() goes on to write it.
Select(r) ==
  /\ at[r] = "select" /\ req[r].op \in {"put", "delete"} /\ Table(Row(r)) # NoRow
  /\ seen' = [seen EXCEPT ![r] = Len(versions[Row(r)])]
  /\ at' = [at EXCEPT ![r] = "write"]
  /\ UNCHANGED <<versions, holder, req, answer>>

\* The row as the session of r has read it, and the columns of its UPDATE.
Snapshot(r) == versions[Row(r)][seen[r]]
Changed(r) == {c \in Columns : req[r].val[c] # Snapshot(r)[c]}

\* The row is locked by the statement, when no other transaction has it.
Lock(r) ==
  /\ holder[Row(r)] = Free
  /\ holder' = [holder EXCEPT ![Row(r)] = r]
  /\ at' = [at EXCEPT ![r] = "commit"]

\* Mutant: an UPDATE that matches no row is taken for a success.
MutUpdate(r) ==
  /\ at[r] = "write" /\ req[r].op = "put"
  /\ \/ /\ Changed(r) = {} \/ Table(Row(r)) = NoRow
        /\ at' = [at EXCEPT ![r] = "commit"]
        /\ UNCHANGED holder
     \/ Changed(r) # {} /\ Table(Row(r)) # NoRow /\ Lock(r)
  /\ UNCHANGED <<versions, answer, req, seen>>

\* Mutant: a row that has gone is inserted again when all columns are sent.
MutUpsert(r) ==
  /\ at[r] = "write" /\ req[r].op = "put"
  /\ \/ Changed(r) = {} /\ at' = [at EXCEPT ![r] = "commit"] /\ UNCHANGED holder
     \/ Changed(r) # {} /\ (Table(Row(r)) # NoRow \/ Changed(r) = Columns) /\ Lock(r)
  /\ UNCHANGED <<versions, answer, req, seen>>

\* UPDATE: nothing to send when nothing differs; an error (StaleDataError) when
\* the row has gone meanwhile.
Update(r) ==
  /\ at[r] = "write" /\ req[r].op = "put"
  /\ \/ /\ Changed(r) = {}
        /\ at' = [at EXCEPT ![r] = "commit"]
        /\ UNCHANGED <<holder, answer>>
     \/ /\ Changed(r) # {} /\ Table(Row(r)) # NoRow
        /\ Lock(r)
        /\ UNCHANGED answer
     \/ /\ Changed(r) # {} /\ Table(Row(r)) = NoRow
        /\ Respond(r, 500, NoRow)
        /\ UNCHANGED holder
  /\ UNCHANGED <<versions, req, seen>>

\* DELETE: a row that has gone meanwhile is only warned about.
Delete(r) ==
  /\ at[r] = "write" /\ req[r].op = "delete"
  /\ \/ Table(Row(r)) # NoRow /\ Lock(r)
     \/ /\ Table(Row(r)) = NoRow
        /\ at' = [at EXCEPT ![r] = "commit"]
        /\ UNCHANGED holder
  /\ UNCHANGED <<versions, req, seen, answer>>

\* What r leaves of its row.
Written(r) ==
  IF req[r].op = "delete" THEN NoRow
  ELSE [c \in Columns |-> IF c \in Changed(r) THEN req[r].val[c] ELSE Table(Row(r))[c]]

\* The changes of r become visible, and the row is free.
Apply(r) ==
  IF holder[Row(r)] = r
  THEN /\ versions' = [versions EXCEPT ![Row(r)] = Append(@, Written(r))]
       /\ holder' = [holder EXCEPT ![Row(r)] = Free]
  ELSE UNCHANGED <<versions, holder>>

\* PUT answers the object of its session, which is not read again.
CommitPut(r) ==
  /\ at[r] = "commit" /\ req[r].op = "put"
  /\ Apply(r)
  /\ Respond(r, 200, req[r].val)
  /\ UNCHANGED <<req, seen>>

\* DELETE answers the row it has read.
CommitDelete(r) ==
  /\ at[r] = "commit" /\ req[r].op = "delete"
  /\ Apply(r)
  /\ Respond(r, 200, Snapshot(r))
  /\ UNCHANGED <<req, seen>>

\* Mutant: no rollback after an error.
MutFails(r) ==
  /\ at[r] \in {"select", "write", "commit"}
  /\ Respond(r, 500, NoRow)
  /\ UNCHANGED <<versions, holder, req, seen>>

\* The database raises, and the transaction is rolled back; or the commit
\* raises although it took place.
Fails(r) ==
  /\ at[r] \in {"select", "write", "commit"}
  /\ \/ /\ holder' = [i \in Ids |-> IF holder[i] = r THEN Free ELSE holder[i]]
        /\ UNCHANGED versions
     \/ at[r] = "commit" /\ Apply(r)
  /\ Respond(r, 500, NoRow)
  /\ UNCHANGED <<req, seen>>

-----------------------------------------------------------------------------
Serve(r) ==
  \/ Read(r) \/ ListRows(r) \/ NotFound(r) \/ Select(r)
  \/ Update(r) \/ Delete(r) \/ CommitPut(r) \/ CommitDelete(r)

Next == \E r \in Requests : Begin(r) \/ Serve(r) \/ Fails(r)

Spec == Init /\ [][Next]_vars

\* The database answers every statement that need not wait for a row.
Fairness == \A r \in Requests : WF_vars(Serve(r))

-----------------------------------------------------------------------------
(* Properties.                                                             *)

TypeOK ==
  /\ versions \in [Ids -> Seq(Rows \cup {NoRow})]
  /\ holder \in [Ids -> Requests \cup {Free}]
  /\ at \in [Requests -> {"idle", "select", "write", "commit", "done"}]
  /\ req \in [Requests -> Asks]
  /\ seen \in [Requests -> Nat]
  /\ answer \in [Requests -> [status : {0, 200, 404, 500},
                              body : Rows \cup {NoRow} \cup [Ids -> Rows \cup {NoRow}]]]

\* A row is held only by a transaction that is about to commit, and what it
\* holds exists: a rollback or a commit leaves nobody waiting for ever.
HoldersCommit ==
  \A i \in Ids : holder[i] # Free =>
    at[holder[i]] = "commit" /\ Row(holder[i]) = i /\ Table(i) # NoRow

\* A PUT that has read its row before a concurrent DELETE does not bring it back.
DeletedStaysDeleted == [][\A i \in Ids : Table(i) = NoRow => Table(i)' = NoRow]_vars

\* What a request was answered 200 for has happened: the row of a DELETE is
\* gone, the columns a PUT has changed were committed together.
AcknowledgedTookPlace ==
  \A r \in Requests : answer[r].status = 200 =>
    /\ req[r].op = "delete" => Table(Row(r)) = NoRow
    /\ req[r].op = "put" /\ Changed(r) # {} =>
         \E k \in seen[r] + 1 .. Len(versions[Row(r)]) :
           /\ versions[Row(r)][k] # NoRow
           /\ \A c \in Changed(r) : versions[Row(r)][k][c] = req[r].val[c]

\* Every request is answered, whoever it waits for.
EventuallyAnswered == \A r \in Requests : at[r] = "select" ~> at[r] = "done"
=============================================================================
