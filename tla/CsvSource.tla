----------------------------- MODULE CsvSource -----------------------------
(***************************************************************************)
(* The sensors agent: MultiSensorCsvSource merges one CSV file per sensor  *)
(* type by timestamp, iter_time_slices groups equal timestamps, and        *)
(* publish_stream sends a slice at a time under a new timestamp.           *)
(*                                                                         *)
(* The generators read one row ahead in each file, and a row that cannot   *)
(* be read raises when it is read ahead, out of publish_stream.            *)
(***************************************************************************)
EXTENDS Integers, SequencesExt

CONSTANTS
  Sources,    \* how many files are configured
  Contents,   \* what a file may hold
  Bad,        \* a row that raises in _next_row
  Delays,     \* what sensors_delay may be, in ticks of the clock
  Second,     \* a second has this many ticks
  MaxLate     \* bound: a slice is at most this many ticks later than its delay

\* A file is a sequence of rows in the order of their timestamps.
ASSUME SourceAssumption ==
  /\ Sources \in Nat
  /\ Delays \subseteq Nat /\ Second \in Nat \ {0} /\ MaxLate \in Nat
  /\ \A file \in Contents :
       /\ file \in Seq(Range(file))
       /\ \A k \in DOMAIN file : file[k] # Bad => file[k].time \in Nat
       /\ \A j, k \in DOMAIN file :
            j < k /\ file[j] # Bad /\ file[k] # Bad => file[j].time <= file[k].time

VARIABLES
  files,        \* the rows of each file; a file that does not exist has none
  loop,         \* sensors_loop_reading
  delay,        \* sensors_delay, which may be less than a second
  pc,           \* where publish_stream is
  head,         \* head[f]: the row of f that is read ahead
  batch,        \* the slice being collected or published
  now,          \* the clock in ticks, since the second in which the round began
  out,          \* what this round has published, with its new timestamp
  interrupted   \* Ctrl-C

vars == <<files, loop, delay, pc, head, batch, now, out, interrupted>>

Init ==
  /\ files \in [1 .. Sources -> Contents]
  /\ loop \in BOOLEAN /\ delay \in Delays
  /\ pc = "open"
  /\ head = [f \in 1 .. Sources |-> 1]
  /\ batch = <<>>
  /\ now = 0
  /\ out = <<>>
  /\ interrupted = FALSE

-----------------------------------------------------------------------------
(* A reading is the place of its row: <<file, row>>.                       *)

Readings == UNION {{<<f, k>> : k \in DOMAIN files[f]} : f \in 1 .. Sources}

Row(p) == files[p[1]][p[2]]
Time(p) == Row(p).time

\* The order of the merge: by time, then by the place of the file, then in it.
Before(p, q) ==
  \/ Time(p) < Time(q)
  \/ Time(p) = Time(q) /\ p[1] < q[1]
  \/ Time(p) = Time(q) /\ p[1] = q[1] /\ p[2] < q[2]

\* The files that have a row left, and the rows they have read ahead.
Heads == {<<f, head[f]>> : f \in {g \in 1 .. Sources : head[g] <= Len(files[g])}}

\* min() over the heads takes the first file of the smallest timestamp.
IsMin(p) == \A q \in Heads \ {p} : Before(p, q)

-----------------------------------------------------------------------------
\* The files are opened and one row is read ahead in each, anywhere in a second.
Open ==
  /\ pc = "open"
  /\ head' = [f \in 1 .. Sources |-> 1]
  /\ batch' = <<>> /\ out' = <<>> /\ now' \in 0 .. Second - 1
  /\ pc' = IF \E f \in 1 .. Sources : files[f] # <<>> /\ files[f][1] = Bad
           THEN "failed" ELSE "merge"
  /\ UNCHANGED <<files, loop, delay, interrupted>>

\* Mutant: a slice is closed when it has sensors_batch_size readings.
MutInSlice(p) == batch # <<>> => Time(p) = Time(batch[1]) /\ Len(batch) < 2

\* The slice is empty, or of the same timestamp.
InSlice(p) == batch # <<>> => Time(p) = Time(batch[1])

\* Mutant: a row that cannot be read ends its file.
MutTake(p) ==
  /\ pc = "merge" /\ p \in Heads /\ IsMin(p) /\ InSlice(p)
  /\ batch' = Append(batch, p)
  /\ head' = [head EXCEPT ![p[1]] = @ + 1]
  /\ pc' = IF p[2] < Len(files[p[1]]) /\ files[p[1]][p[2] + 1] = Bad THEN "publish" ELSE "merge"
  /\ UNCHANGED <<files, loop, delay, now, out, interrupted>>

\* The earliest head joins the slice, and the next row of its file is read.
Take(p) ==
  /\ pc = "merge" /\ p \in Heads /\ IsMin(p) /\ InSlice(p)
  /\ batch' = Append(batch, p)
  /\ head' = [head EXCEPT ![p[1]] = @ + 1]
  /\ pc' = IF p[2] < Len(files[p[1]]) /\ files[p[1]][p[2] + 1] = Bad THEN "failed" ELSE "merge"
  /\ UNCHANGED <<files, loop, delay, now, out, interrupted>>

\* Mutant: the slice at the end of the files is not yielded.
MutSliceEnds ==
  /\ pc = "merge" /\ batch # <<>>
  /\ \/ \E p \in Heads : IsMin(p) /\ ~InSlice(p) /\ pc' = "publish"
     \/ Heads = {} /\ pc' = IF loop THEN "again" ELSE "done"
  /\ UNCHANGED <<files, loop, delay, head, batch, now, out, interrupted>>

\* The earliest head belongs to another slice, or no row is left.
SliceEnds ==
  /\ pc = "merge" /\ batch # <<>>
  /\ \A p \in Heads : IsMin(p) => ~InSlice(p)
  /\ pc' = "publish"
  /\ UNCHANGED <<files, loop, delay, head, batch, now, out, interrupted>>

\* datetime.now(UTC).replace(microsecond=0), read once for the slice.
Stamp == now \div Second

\* One message of the slice under its new timestamp; a return code other than 0
\* is only logged.
Publish ==
  /\ pc = "publish"
  /\ out' = Append(out, [row |-> Head(batch), stamp |-> Stamp])
  /\ batch' = Tail(batch)
  /\ pc' = IF Len(batch) = 1 THEN "sleep" ELSE "publish"
  /\ UNCHANGED <<files, loop, delay, head, now, interrupted>>

\* sleep() lasts at least the delay; publishing and reading take time, too.
Sleep ==
  /\ pc = "sleep"
  /\ now' \in now + delay .. now + delay + MaxLate
  /\ pc' = "merge"
  /\ UNCHANGED <<files, loop, delay, head, batch, out, interrupted>>

\* No row and no slice is left.
RoundEnds ==
  /\ pc = "merge" /\ batch = <<>> /\ Heads = {}
  /\ pc' = IF loop THEN "again" ELSE "done"
  /\ UNCHANGED <<files, loop, delay, head, batch, now, out, interrupted>>

\* The files are replayed after another delay.
Again ==
  /\ pc = "again"
  /\ pc' = "open"
  /\ UNCHANGED <<files, loop, delay, head, batch, now, out, interrupted>>

\* KeyboardInterrupt ends publish_stream wherever it is.
Interrupt ==
  /\ pc \notin {"done", "failed"}
  /\ interrupted' = TRUE
  /\ pc' = "done"
  /\ UNCHANGED <<files, loop, delay, head, batch, now, out>>

Step == Open \/ (\E p \in Readings : Take(p)) \/ SliceEnds \/ Publish \/ Sleep \/ RoundEnds \/ Again

Next == Step \/ Interrupt

Spec == Init /\ [][Next]_vars

-----------------------------------------------------------------------------
(* Properties.                                                             *)

Published == {out[n].row : n \in DOMAIN out}

\* What a round has published is a beginning of the merged files: in order, with
\* nothing left out before it, whatever the ties and wherever it is stopped.  The
\* new timestamps are in that order, too; readings with the same timestamp get the
\* same new one, and readings with different ones get different ones as long as
\* sensors_delay is not less than the second the new timestamps are cut to.
MergedInSlices ==
  /\ \A m, n \in DOMAIN out :
       /\ m < n => Before(out[m].row, out[n].row) /\ out[m].stamp <= out[n].stamp
       /\ Time(out[m].row) = Time(out[n].row) => out[m].stamp = out[n].stamp
       /\ delay >= Second /\ out[m].stamp = out[n].stamp => Time(out[m].row) = Time(out[n].row)
  /\ \A p \in Readings, q \in Published :
       Row(p) # Bad /\ Before(p, q) => p \in Published

\* A slice is published whole or not at all, also before a row that cannot be read.
WholeSlices ==
  pc # "publish" /\ ~interrupted =>
    \A p \in Readings, q \in Published :
      Row(p) # Bad /\ Time(p) = Time(q) => p \in Published

\* A round that comes to its end has published every row of every file.
RoundComplete ==
  pc = "again" \/ (pc = "done" /\ ~interrupted) => Published = Readings
=============================================================================
