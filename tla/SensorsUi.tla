------------------------------ MODULE SensorsUi ------------------------------
(***************************************************************************)
(* The tabs of the sensors: each reading that comes over the WebSocket     *)
(* replaces what its sensor shows, and so does, every 20 seconds, the      *)
(* newest reading in the page of rows that a request brings back.  A       *)
(* request is not waited for before the next one is sent.                  *)
(***************************************************************************)
EXTENDS Naturals, SequencesExt, FiniteSetsExt

CONSTANTS
  Sensors,      \* sensors that show their newest reading
  Limit,        \* rows of a page ("?limit=500")
  Requests,     \* requests that may be under way at the same time (bound)
  MaxReadings,  \* bound of the readings
  MaxTime,      \* bound of the timestamps
  MaxLosses     \* bound of the losses of the WebSocket

SensorsUiAssumption ==
  /\ Limit \in Nat \ {0}
  /\ MaxReadings \in Nat /\ MaxTime \in Nat /\ MaxLosses \in Nat

VARIABLES
  rows,     \* the table: a sequence of [sensor, time]
  toCast,   \* row -> how often its broadcast may still come to the page
  wire,     \* rows on their way over the WebSocket
  ws,       \* "connecting", "open" or "retry"
  asked,    \* request -> "no", "sent", "answered"
  answer,   \* request -> sensor -> row (0: the page has none)
  shown,    \* sensor -> row (0: nothing yet)
  losses

vars == <<rows, toCast, wire, ws, asked, answer, shown, losses>>

Nothing == [s \in Sensors |-> 0]

Init ==
  /\ rows = <<>> /\ wire = <<>>
  /\ toCast = [i \in 1 .. MaxReadings |-> 0]
  /\ ws = "connecting"
  /\ asked = [q \in Requests |-> "no"]
  /\ answer = [q \in Requests |-> Nothing]
  /\ shown = Nothing
  /\ losses = 0

-----------------------------------------------------------------------------
(* The Store                                                               *)

Of(s) == {i \in DOMAIN rows : rows[i].sensor = s}

\* The rows of N with no later one: SQL and the page choose among equals.
Newest(N) == {i \in N : \A j \in N : rows[j].time <= rows[i].time}

Commit ==
  /\ Len(rows) < MaxReadings
  /\ \E s \in Sensors, t \in 1 .. MaxTime : rows' = Append(rows, [sensor |-> s, time |-> t])
  /\ toCast' = [toCast EXCEPT ![Len(rows')] = 2]
  /\ UNCHANGED <<wire, ws, asked, answer, shown, losses>>

\* Of the rows that are being broadcast one comes to the page, if it is
\* connected, or will not come any more: the loops of several requests take
\* turns, may fail, and may leave the page out or come to it twice (StorePost).
Broadcast ==
  /\ \E i \in DOMAIN rows :
       /\ toCast[i] > 0
       /\ \/ toCast' = [toCast EXCEPT ![i] = @ - 1] /\ ws = "open" /\ wire' = Append(wire, i)
          \/ toCast' = [toCast EXCEPT ![i] = 0] /\ UNCHANGED wire
  /\ UNCHANGED <<rows, ws, asked, answer, shown, losses>>

\* A page: Limit rows, no other row being later than one of them.
IsPage(N) ==
  /\ Cardinality(N) = Min({Limit, Len(rows)})
  /\ \A i \in N, j \in DOMAIN rows \ N : rows[j].time <= rows[i].time

\* Request q is answered with a page, of which the newest row of each sensor
\* is used.
ListFiltered(q) ==
  /\ asked[q] = "sent"
  /\ asked' = [asked EXCEPT ![q] = "answered"]
  /\ \E N \in SUBSET DOMAIN rows : \E latest \in [Sensors -> N \cup {0}] :
       /\ IsPage(N)
       /\ \A s \in Sensors : IF Of(s) \cap N = {} THEN latest[s] = 0
                                                  ELSE latest[s] \in Newest(Of(s) \cap N)
       /\ answer' = [answer EXCEPT ![q] = latest]
  /\ UNCHANGED <<rows, toCast, wire, ws, shown, losses>>

-----------------------------------------------------------------------------
(* The page                                                                *)

\* The readings replace what their sensors show.
Dispatch(latest) == shown' = [s \in Sensors |-> IF latest[s] # 0 THEN latest[s] ELSE shown[s]]

OnMessage ==
  /\ ws = "open" /\ wire # <<>>
  /\ Dispatch([Nothing EXCEPT ![rows[Head(wire)].sensor] = Head(wire)])
  /\ wire' = Tail(wire)
  /\ UNCHANGED <<rows, toCast, ws, asked, answer, losses>>

Open ==
  /\ ws = "connecting"
  /\ ws' = "open"
  /\ UNCHANGED <<rows, toCast, wire, asked, answer, shown, losses>>

OnClose ==
  /\ ws \in {"connecting", "open"} /\ losses < MaxLosses
  /\ ws' = "retry" /\ wire' = <<>>
  /\ losses' = losses + 1
  /\ UNCHANGED <<rows, toCast, asked, answer, shown>>

Retry ==
  /\ ws = "retry"
  /\ ws' = "connecting"
  /\ UNCHANGED <<rows, toCast, wire, asked, answer, shown, losses>>

\* Mutant: the rows are requested when the page is loaded and not again.
MutHydrate(q) ==
  /\ asked[q] = "no" /\ rows = <<>>
  /\ asked' = [asked EXCEPT ![q] = "sent"]
  /\ UNCHANGED <<rows, toCast, wire, ws, answer, shown, losses>>

\* hydrateRecent, when the page is loaded and every 20 seconds.
Hydrate(q) ==
  /\ asked[q] = "no"
  /\ asked' = [asked EXCEPT ![q] = "sent"]
  /\ UNCHANGED <<rows, toCast, wire, ws, answer, shown, losses>>

\* The answer arrives, maybe after that of a later request.
Hydrated(q) ==
  /\ asked[q] = "answered"
  /\ Dispatch(answer[q])
  /\ asked' = [asked EXCEPT ![q] = "no"]
  /\ answer' = [answer EXCEPT ![q] = Nothing]
  /\ UNCHANGED <<rows, toCast, wire, ws, losses>>

\* The request fails, or its answer is not an "ok".
NotHydrated(q) ==
  /\ asked[q] # "no"
  /\ asked' = [asked EXCEPT ![q] = "no"]
  /\ answer' = [answer EXCEPT ![q] = Nothing]
  /\ UNCHANGED <<rows, toCast, wire, ws, shown, losses>>

Next ==
  \/ Commit \/ Broadcast \/ OnMessage \/ Open \/ OnClose \/ Retry
  \/ \E q \in Requests : Hydrate(q) \/ ListFiltered(q) \/ Hydrated(q) \/ NotHydrated(q)

Spec == Init /\ [][Next]_vars

\* The browser's timers and callbacks run, the Store serves, and of the requests
\* sent again and again some are answered.
Fairness ==
  /\ WF_vars(Broadcast) /\ WF_vars(OnMessage) /\ WF_vars(Open) /\ WF_vars(Retry)
  /\ \A q \in Requests : WF_vars(Hydrate(q)) /\ SF_vars(ListFiltered(q)) /\ SF_vars(Hydrated(q))

FairSpec == Spec /\ Fairness

-----------------------------------------------------------------------------
(* Properties.                                                             *)

\* Sensor s shows its newest reading.
UpToDate(s) == shown[s] \in Newest(Of(s))

\* Once no more readings come, every sensor that is in any page of rows shows its
\* newest reading and goes on showing it, whatever the WebSocket lost and in
\* whatever order answers and messages arrived.
EventuallyLatest ==
  <>[](\A s \in Sensors :
         (\A N \in SUBSET DOMAIN rows : IsPage(N) => Of(s) \cap N # {}) => UpToDate(s))
=============================================================================
