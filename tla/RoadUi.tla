------------------------------- MODULE RoadUi -------------------------------
(***************************************************************************)
(* The map page beside the Store: it loads all stored points with one      *)
(* request, then opens the WebSocket, and opens it again after each close. *)
(*                                                                         *)
(* The Store is that of StorePost: POST /processed_agent_data/ and /ws are *)
(* the same code as POST /sensor_readings/ and /ws/sensors, without the    *)
(* counter, which nothing here looks at.  Each WebSocket the page opens is *)
(* a connection of its own; other clients have other connections.          *)
(***************************************************************************)
EXTENDS StorePost

CONSTANT
  PageConns      \* connections the page makes, one after the other (bound)

ASSUME RoadUiAssumption == PageConns \subseteq Clients

VARIABLES
  page,       \* "load", "loading", "loaded"
  reply,      \* the points the request has read
  conn,       \* the connection of the page's WebSocket, or NoClient
  read,       \* how many of its messages have been processed
  shown,      \* how often each point was put on the map
  stirred     \* ghost: requests under whose broadcasts the set was changed

pageVars == <<page, reply, conn, read, shown>>
roadVars == <<vars, pageVars, stirred>>

Points == Requests \X (1 .. BatchLen)

RoadInit ==
  /\ Init
  /\ page = "load" /\ reply = {}
  /\ conn = NoClient /\ read = 0
  /\ shown = [x \in Points |-> 0]
  /\ stirred = {}

-----------------------------------------------------------------------------
(* The page.                                                               *)

\* A point goes on the map and into the counters, whether it is there or not.
ProcessPoints(points) ==
  shown' = [x \in Points |-> IF x \in points THEN shown[x] + 1 ELSE shown[x]]

\* A WebSocket is made.
ConnectWS(c) ==
  /\ Connect(c)
  /\ conn' = c /\ read' = 0

\* The request of loadHistory is served.  It may read a batch whose commit has
\* taken place and not returned to its handler yet.
ServeHistory ==
  /\ page = "load"
  /\ page' = "loading"
  /\ \E R \in SUBSET {r \in Requests : rc[r] = "commit"} :
       reply' = rows \cup UNION {Records(r) : r \in R}
  /\ UNCHANGED <<vars, conn, read, shown, stirred>>

\* Its response is processed, or an error is shown; then connectWS.
HistoryLoaded ==
  /\ page = "loading"
  /\ page' = "loaded"
  /\ \/ ProcessPoints(reply) /\ UNCHANGED reply
     \/ reply' = {} /\ UNCHANGED shown
  /\ \E c \in PageConns : ConnectWS(c)
  /\ UNCHANGED stirred

OnMessage ==
  /\ conn # NoClient /\ read < Len(got[conn])
  /\ ProcessPoints({got[conn][read + 1]})
  /\ read' = read + 1
  /\ UNCHANGED <<vars, page, reply, conn, stirred>>

\* The connection has ended; what was still on its way is lost.
OnClose ==
  /\ conn \in gone
  /\ conn' = NoClient /\ read' = 0
  /\ UNCHANGED <<vars, page, reply, shown, stirred>>

\* Mutant: the history is loaded again with every connection.
MutRetry ==
  /\ page = "loaded" /\ conn = NoClient
  /\ ProcessPoints(rows)
  /\ \E c \in PageConns : ConnectWS(c)
  /\ UNCHANGED <<page, reply, stirred>>

\* After 3.5 s connectWS is called again, and loadHistory is not.
Retry ==
  /\ page = "loaded" /\ conn = NoClient
  /\ \E c \in PageConns : ConnectWS(c)
  /\ UNCHANGED <<page, reply, shown, stirred>>

-----------------------------------------------------------------------------
\* The Store, its other clients, and what becomes of the page's connections.  A
\* commit that the history has seen did take place.
StoreStep ==
  /\ \/ \E r \in Requests : Post(r) \/ HandlerStep(r)
     \/ \E c \in Clients : Register(c) \/ Leave(c) \/ Disconnected(c) \/ EndpointRaises(c)
     \/ \E c \in Clients \ PageConns : Connect(c)
     \/ Crash
  /\ \A r \in Requests : Records(r) \subseteq reply => rc'[r] = "commit" \/ Records(r) \subseteq rows'
  /\ stirred' = stirred \cup {r \in Requests : it'[r].moved}
  /\ UNCHANGED pageVars

RoadNext == StoreStep \/ ServeHistory \/ HistoryLoaded \/ OnMessage \/ OnClose \/ Retry

RoadSpec == RoadInit /\ [][RoadNext]_roadVars

-----------------------------------------------------------------------------
(* Properties.                                                             *)

Unread == {got[conn][m] : m \in read + 1 .. Len(got[conn])}

\* Every point of a batch that was committed while the page was connected is on
\* the map or on its way when the POST is answered 201, as long as the page stays
\* connected and the batch is due (see SubscribersServed).  A point is put on the
\* map at most once from the history and once from all WebSockets together,
\* unless the set of connections was changed under its broadcast: then it may
\* be missing, or there any number of times.
ShownSinceOpen ==
  /\ \A r \in Requests : <<conn, r>> \in due /\ rc[r] = "ok" =>
       \A x \in Records(r) : shown[x] > 0 \/ x \in Unread
  /\ \A r \in Requests \ stirred : \A x \in Records(r) :
       shown[x] <= IF x \in reply THEN 2 ELSE 1
=============================================================================
