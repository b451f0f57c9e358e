--------------------------- MODULE NetworkAnomaly ---------------------------
(***************************************************************************)
(* The Store's network anomaly detector beside the requests it measures.   *)
(*                                                                         *)
(* The middleware counts requests; the detector's task takes the           *)
(* difference of the counters once per window, updates three series in     *)
(* turn and writes an event for an anomalous one, which is where it awaits *)
(* and the requests go on.  The lifespan of the application starts it and  *)
(* stops it by cancellation.  Whether a value is anomalous is free here;   *)
(* module EwmaSeries has the numbers.                                      *)
(***************************************************************************)
EXTENDS Sums, SequencesExt

CONSTANTS
  MinSamples,    \* windows before a series may be anomalous
  MaxRequests,   \* bound of the requests
  MaxWindows     \* bound of the windows

ASSUME AnomalyAssumption == MinSamples \in Nat /\ MaxRequests \in Nat /\ MaxWindows \in Nat

Names == <<"latency_p95_ms", "request_rate_rps", "error_rate">>

VARIABLES
  total,      \* the counters: requests answered, requests that raised
  snapshot,   \* the counters at the last window
  windows,    \* the differences of each window
  samples,    \* how many values each series has taken
  at,         \* where the task is
  todo,       \* the series of this window not yet done; the first is being written
  counted,    \* <<window, series>> of NETWORK_ANOMALIES_TOTAL
  table,      \* <<window, series>> of the rows of network_anomalies
  app         \* the application: "up", "stopping" or "down"

vars == <<total, snapshot, windows, samples, at, todo, counted, table, app>>

NoRequests == [requests |-> 0, errors |-> 0]

\* start() has created the task.
Init ==
  /\ total = NoRequests /\ snapshot = NoRequests
  /\ windows = <<>>
  /\ samples = [s \in Range(Names) |-> 0]
  /\ at = "created"
  /\ todo = <<>>
  /\ counted = {} /\ table = {}
  /\ app = "up"

-----------------------------------------------------------------------------
(* Requests                                                                *)

\* A request whose handler raises is an error and not a request.
Raise == total' = [total EXCEPT !.errors = @ + 1]

Respond == total' = [total EXCEPT !.requests = @ + 1]

Request ==
  /\ app = "up" /\ total.requests + total.errors < MaxRequests
  /\ Raise \/ Respond
  /\ UNCHANGED <<snapshot, windows, samples, at, todo, counted, table, app>>

-----------------------------------------------------------------------------
(* The task                                                                *)

Begin ==
  /\ at = "created" /\ app = "up"
  /\ at' = "sleep"
  /\ UNCHANGED <<total, snapshot, windows, samples, todo, counted, table, app>>

\* The counter is incremented before the event is written.
Count(event) == counted' = counted \cup {event}

\* The series of names are updated in turn up to the first anomalous one, which
\* is counted and then written; anomalous ones have enough samples.
Proceed(names, window) ==
  \E j \in 1 .. Len(names) + 1 :
    LET done == Range(SubSeq(names, 1, IF j > Len(names) THEN Len(names) ELSE j)) IN
    /\ samples' = [s \in DOMAIN samples |-> IF s \in done THEN samples[s] + 1 ELSE samples[s]]
    /\ IF j > Len(names)
       THEN at' = "sleep" /\ todo' = <<>> /\ UNCHANGED counted
       ELSE /\ samples'[names[j]] >= MinSamples
            /\ Count(<<window, names[j]>>)
            /\ todo' = SubSeq(names, j, Len(names))
            /\ at' = "persist"

Difference == [requests |-> total.requests - snapshot.requests,
               errors |-> total.errors - snapshot.errors]

\* Mutant: the counters of this window are remembered when the next one ends.
MutSample ==
  /\ windows' = Append(windows, Difference)
  /\ snapshot' = IF windows = <<>> THEN total ELSE
       [requests |-> snapshot.requests + Last(windows).requests,
        errors |-> snapshot.errors + Last(windows).errors]

\* _sample_metrics: the counters since the last window.
Sample ==
  /\ windows' = Append(windows, Difference)
  /\ snapshot' = total

\* The sleep of a window is over.
Tick ==
  /\ at = "sleep" /\ app = "up" /\ Len(windows) < MaxWindows
  /\ Sample
  /\ Proceed(Names, Len(windows) + 1)
  /\ UNCHANGED <<total, table, app>>

Event == <<Len(windows), Head(todo)>>

\* The event is written, or not when the database raises, or raises after the
\* commit.
Write == table' \in {table, table \cup {Event}}

\* An error of the database is logged, and the window goes on.
Persisted ==
  /\ at = "persist" /\ app = "up"
  /\ Write
  /\ Proceed(Tail(todo), Len(windows))
  /\ UNCHANGED <<total, snapshot, windows, app>>

-----------------------------------------------------------------------------
(* The lifespan                                                            *)

\* Mutant: the application does not wait for the task.
MutStop ==
  /\ app = "up"
  /\ app' = "down"
  /\ UNCHANGED <<total, snapshot, windows, samples, at, todo, counted, table>>

\* stop() cancels the task and awaits it.
Stop ==
  /\ app = "up"
  /\ app' = "stopping"
  /\ UNCHANGED <<total, snapshot, windows, samples, at, todo, counted, table>>

\* The cancellation reaches the task where it awaits; a commit may be done.
Cancelled ==
  /\ app # "up" /\ at \in {"created", "sleep", "persist"}
  /\ at' = "off"
  /\ IF at = "persist" THEN Write ELSE UNCHANGED table
  /\ UNCHANGED <<total, snapshot, windows, samples, todo, counted, app>>

\* stop() returns, and the engine is disposed of.
Stopped ==
  /\ app = "stopping" /\ at = "off"
  /\ app' = "down"
  /\ UNCHANGED <<total, snapshot, windows, samples, at, todo, counted, table>>

TaskStep == Begin \/ Tick \/ Persisted \/ Cancelled

Next == Request \/ TaskStep \/ Stop \/ Stopped

Spec == Init /\ [][Next]_vars

-----------------------------------------------------------------------------
(* Properties.                                                             *)

InWindows(field) == SumOf([k \in DOMAIN windows |-> windows[k][field]])

\* Every request is in exactly one window or in the one that is running, also
\* when requests end while an event is being written.
EachRequestInOneWindow ==
  \A field \in {"requests", "errors"} :
    InWindows(field) + Difference[field] = total[field] /\ InWindows(field) = snapshot[field]

\* When the engine is disposed of, the detector does not use it any more.
NothingAfterDispose ==
  [][app = "down" => UNCHANGED <<samples, counted, table>>]_vars
=============================================================================
