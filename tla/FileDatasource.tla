--------------------------- MODULE FileDatasource ---------------------------
(***************************************************************************)
(* The agent: FileDatasource reads accelerometer, gps and, when configured, *)
(* temperature rows in step, and publish_loop sends them in batches.       *)
(*                                                                         *)
(* Each file has a reader of its own.  With loop_reading a reader that has *)
(* reached the end starts its file again, whatever the others do; without  *)
(* it the first end ends the agent.  A row with a cell that is missing or   *)
(* no number raises out of read(), and the batch read so far goes with it. *)
(***************************************************************************)
EXTENDS Integers, SequencesExt

CONSTANTS
  MaxRows,       \* bound of the rows of a file
  BatchSize,     \* records of one read()
  MaxRecords     \* bound of the records read while looping

ASSUME DatasourceAssumption ==
  /\ MaxRows \in Nat
  /\ BatchSize \in Nat \ {0}
  /\ MaxRecords \in Nat

VARIABLES
  rows,          \* rows[f]: how many rows file f has; its domain is the configured files
  bad,           \* bad[f]: the rows of f that cannot be parsed
  loop,          \* loop_reading
  pc,            \* where publish_loop is
  pos,           \* pos[f]: the row the reader of f has returned last
  records,       \* the batch: for each record, the row of every file
  out,           \* what was published, with the return code
  interrupted    \* Ctrl-C

vars == <<rows, bad, loop, pc, pos, records, out, interrupted>>

Configured == {{"acc", "gps"}, {"acc", "gps", "temp"}}
Files == DOMAIN rows

Init ==
  /\ \E files \in Configured : rows \in [files -> 0 .. MaxRows]
  /\ bad \in [Files -> SUBSET (1 .. MaxRows)]
  /\ loop \in BOOLEAN
  /\ pc = "start"
  /\ pos = [f \in Files |-> 0]
  /\ records = <<>>
  /\ out = <<>>
  /\ interrupted = FALSE

-----------------------------------------------------------------------------
(* _next_row                                                               *)

AtEnd(f) == pos[f] = rows[f]

\* There is a next row: the file goes on, or is started again.
HasNext(f) == ~AtEnd(f) \/ (loop /\ rows[f] > 0)

\* The number of that row.
NextRow(f) == IF AtEnd(f) THEN 1 ELSE pos[f] + 1

\* Mutant: the reader that starts the file again is not kept.
MutMoved(f) == IF AtEnd(f) THEN pos[f] ELSE pos[f] + 1

\* The reader of f once it has returned that row.
Moved(f) == NextRow(f)

-----------------------------------------------------------------------------
\* start_reading opens all files, or fails before publish_loop's try.
Start ==
  /\ pc = "start"
  /\ pc' \in {"sleep", "failed"}
  /\ UNCHANGED <<rows, bad, loop, pos, records, out, interrupted>>

\* The delay is over, and read() begins an empty batch.
BeginRead ==
  /\ pc = "sleep"
  /\ loop => Len(out) < MaxRecords
  /\ pc' = "read"
  /\ records' = <<>>
  /\ UNCHANGED <<rows, bad, loop, pos, out, interrupted>>

\* The next pass of the loop of read() meets a row that cannot be parsed.  The
\* rows of accelerometer and gps are read together and parsed, then the one of
\* temperature.
Damaged ==
  /\ HasNext("acc") /\ HasNext("gps")
  /\ \E f \in Files : HasNext(f) /\ NextRow(f) \in bad[f]

\* One pass of the loop finds a row in every file.
ReadRecord ==
  /\ pc = "read" /\ Len(records) < BatchSize
  /\ ~Damaged /\ \A f \in Files : HasNext(f)
  /\ records' = Append(records, [f \in Files |-> NextRow(f)])
  /\ pos' = [f \in Files |-> Moved(f)]
  /\ UNCHANGED <<rows, bad, loop, pc, out, interrupted>>

\* publish_loop has the batch; an empty one ends it.
Returned == pc' = IF records = <<>> THEN "ended" ELSE "publish"

FullBatch ==
  /\ pc = "read" /\ Len(records) = BatchSize
  /\ Returned
  /\ UNCHANGED <<rows, bad, loop, pos, records, out, interrupted>>

\* Mutant: the records before the end are not returned.
MutEndOfFile ==
  /\ pc = "read" /\ Len(records) < BatchSize
  /\ ~loop /\ \E f \in Files : AtEnd(f)
  /\ pc' = "ended"
  /\ UNCHANGED <<rows, bad, loop, pos, records, out, interrupted>>

\* Without looping, one file has ended.
EndOfFile ==
  /\ pc = "read" /\ Len(records) < BatchSize
  /\ ~Damaged /\ ~loop /\ \E f \in Files : AtEnd(f)
  /\ pos' = [f \in Files |-> IF f = "temp" \/ AtEnd(f) THEN pos[f] ELSE pos[f] + 1]
  /\ Returned
  /\ UNCHANGED <<rows, bad, loop, records, out, interrupted>>

\* read() raises, for a damaged row or, with looping, a file without rows; the
\* exception passes publish_loop, which cleans up.
ReadRaises ==
  /\ pc = "read" /\ Len(records) < BatchSize
  /\ Damaged \/ (loop /\ \E f \in Files : rows[f] = 0)
  /\ pc' = "raised"
  /\ UNCHANGED <<rows, bad, loop, pos, records, out, interrupted>>

\* The next record of the batch; a return code other than 0 is only logged.
Publish(rc) ==
  /\ pc = "publish"
  /\ out' = Append(out, [row |-> Head(records), rc |-> rc])
  /\ records' = Tail(records)
  /\ pc' = IF Len(records) = 1 THEN "sleep" ELSE "publish"
  /\ UNCHANGED <<rows, bad, loop, pos, interrupted>>

\* KeyboardInterrupt inside the try.
Interrupt ==
  /\ pc \in {"sleep", "read", "publish"}
  /\ interrupted' = TRUE
  /\ pc' = "ended"
  /\ UNCHANGED <<rows, bad, loop, pos, records, out>>

Step == Start \/ BeginRead \/ ReadRecord \/ FullBatch \/ EndOfFile \/ ReadRaises
        \/ \E rc \in {0, 1} : Publish(rc)

Next == Step \/ Interrupt

Spec == Init /\ [][Next]_vars

-----------------------------------------------------------------------------
(* Properties.                                                             *)

Shortest == CHOOSE n \in {rows[f] : f \in Files} : \A f \in Files : n <= rows[f]

\* Record n has a row that cannot be parsed.
Unreadable(n) == \E f \in Files : ((n - 1) % rows[f]) + 1 \in bad[f]

\* An agent that ends without an exception or an interrupt does not loop, and
\* has published every record its shortest file allows.  One that ends with an
\* exception has done so too (no file has more, or one is empty), or it has
\* published all full batches before the first record that cannot be read: a
\* damaged row costs the records of its batch before it, and no other.
NothingLeftUnread ==
  /\ pc = "ended" /\ ~interrupted => ~loop /\ Len(out) = Shortest
  /\ pc = "raised" =>
       \/ (loop => Shortest = 0) /\ Len(out) = Shortest
       \/ /\ Len(out) % BatchSize = 0
          /\ \E n \in Len(out) + 1 .. Len(out) + BatchSize :
               Unreadable(n) /\ \A k \in 1 .. n - 1 : ~Unreadable(k)
=============================================================================
