---------------------------- MODULE MCStoreCrud ----------------------------
(***************************************************************************)
(* Concurrent requests for one row, and what the documentation says of a   *)
(* PUT where the code does otherwise.                                      *)
(***************************************************************************)
EXTENDS StoreCrud

CONSTANTS r1, r2, r3, a, b

\* Three requests of which the first two write: reads alone show nothing.  The
\* two values of a column are as good as one another.
WritersInit ==
  /\ Init
  /\ \A r \in {r1, r2} : req[r].op \in {"put", "delete"}
  /\ \A i \in Ids : Table(i) = [c \in Columns |-> 0]

WritersSpec == WritersInit /\ [][Next]_vars /\ Fairness

\* The docstring of update(): it updates the record and returns the updated
\* object.  So the body of a 200 is a version the row has had.
PutAnswersRow ==
  \A r \in Requests : req[r].op = "put" /\ answer[r].status = 200 =>
    answer[r].body \in Range(versions[Row(r)])

\* Two PUTs that the database serves without an error.
TwoPutsSpec ==
  /\ Init /\ \A r \in Requests : req[r].op = "put"
  /\ [][Next /\ \A r \in Requests : answer'[r].status # 500]_vars
=============================================================================
