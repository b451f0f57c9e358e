----------------------------- MODULE StorePost -----------------------------
(***************************************************************************)
(* POST /sensor_readings/ of the Store API, with the connections of        *)
(* /ws/sensors that its records are broadcast to.  POST                    *)
(* /processed_agent_data/ with /ws is the same without the counter.        *)
(*                                                                         *)
(* The handlers and the WebSocket endpoints are coroutines of one event    *)
(* loop: the code between two awaits is one step.  A request is served     *)
(* once; its k-th record is <<r, k>>.  A client stands for one connection; *)
(* a browser that reconnects is another client.                            *)
(*                                                                         *)
(* broadcast() iterates over a live set across its awaits.  CPython raises *)
(* RuntimeError at the next element when the size of the set is not what   *)
(* it was when the iteration began.  With the size unchanged, the iterator *)
(* goes on at its place in the hash table, which holds other connections   *)
(* when one was added meanwhile or when the table was rebuilt: adding may  *)
(* do that, and so may the `-=` at the end of another broadcast, with      *)
(* nothing to remove too, if enough removed connections have left holes.   *)
(***************************************************************************)
EXTENDS Naturals, FiniteSets, SequencesExt

CONSTANTS
  Requests,      \* POST requests
  Clients,       \* WebSocket connections
  BatchLen,      \* records in a request
  MaxCrashes     \* bound: crashes of the Store process

NoClient == "noclient"

ASSUME StorePostAssumption ==
  /\ IsFiniteSet(Clients) /\ NoClient \notin Clients
  /\ BatchLen \in Nat \ {0}
  /\ MaxCrashes \in Nat

VARIABLES
  rc,         \* where each request is
  it,         \* the locals of each request's loops
  rows,       \* the table: records committed
  counted,    \* records SENSOR_READINGS_TOTAL was incremented for
  active,     \* ConnectionManager._active
  ep,         \* where the endpoint of each connection is
  gone,       \* connections that are closed, or lost without a word
  got,        \* got[c]: the records client c received, in order
  due,        \* ghost: <<c, r>> when c must be shown the batch of r
  crashes     \* crashes of the process so far

connVars == <<ep, gone>>
vars == <<rc, it, rows, counted, active, ep, gone, got, due, crashes>>

Records(r) == {<<r, k>> : k \in 1 .. BatchLen}

NotSending == [k |-> 0, target |-> NoClient, ahead |-> {}, size |-> 0,
               dead |-> {}, moved |-> FALSE]

Init ==
  /\ rc = [r \in Requests |-> "idle"]
  /\ it = [r \in Requests |-> NotSending]
  /\ rows = {} /\ counted = {} /\ active = {} /\ gone = {} /\ due = {}
  /\ ep = [c \in Clients |-> "new"]
  /\ got = [c \in Clients |-> <<>>]
  /\ crashes = 0

-----------------------------------------------------------------------------
\* The loops when the connections have other places in the hash table.
Moved == [r \in Requests |-> [it[r] EXCEPT !.moved = (rc[r] = "send")]]

\* Connections left the set that is now act.  How many of them make a
\* difference rebuild its table is left open; CPython takes more than a quarter
\* of the slots.
HasHoles(act) == gone \ act # {}

\* Request r goes on to the k-th record, with the connections act and the loops
\* of the other requests.  The record is counted and sent to the first
\* connection; without one broadcast() does not wait, and the loop runs through.
StartBroadcast(r, k, act, loops) ==
  \/ /\ k > BatchLen \/ act = {}
     /\ counted' = counted \cup {<<r, j>> : j \in k .. BatchLen}
     /\ it' = [loops EXCEPT ![r] = NotSending]
     /\ rc' = [rc EXCEPT ![r] = "ok"]
  \/ /\ k <= BatchLen
     /\ counted' = counted \cup {<<r, k>>}
     /\ \E c \in act :
          it' = [loops EXCEPT ![r] = [k |-> k, target |-> c, ahead |-> act \ {c},
                                      size |-> Cardinality(act), dead |-> {}, moved |-> FALSE]]
     /\ rc' = [rc EXCEPT ![r] = "send"]

-----------------------------------------------------------------------------
(* The handler up to its commit.                                           *)

\* A request arrives; add_all and flush wait for the database.
Post(r) ==
  /\ rc[r] = "idle"
  /\ rc' = [rc EXCEPT ![r] = "insert"]
  /\ UNCHANGED <<it, rows, counted, active, connVars, got, due, crashes>>

\* Mutant: the records are broadcast before the commit.
MutInserted(r) ==
  /\ rc[r] = "insert"
  /\ StartBroadcast(r, 1, active, it)
  /\ UNCHANGED <<rows, active, connVars, got, due, crashes>>

\* The rows are inserted in the transaction, and commit is sent.
Inserted(r) ==
  /\ rc[r] = "insert"
  /\ rc' = [rc EXCEPT ![r] = "commit"]
  /\ UNCHANGED <<it, rows, counted, active, connVars, got, due, crashes>>

\* The database raises: rollback, and the error is passed on.  A commit may
\* raise although it took place.
DatabaseFails(r) ==
  /\ \/ rc[r] \in {"insert", "commit"} /\ UNCHANGED rows
     \/ rc[r] = "commit" /\ rows' = rows \cup Records(r)
  /\ rc' = [rc EXCEPT ![r] = "error"]
  /\ UNCHANGED <<it, counted, active, connVars, got, due, crashes>>

-----------------------------------------------------------------------------
(* broadcast().                                                            *)

\* commit returns: the rows are in the table and the first broadcast begins.
Commit(r) ==
  /\ rc[r] = "commit"
  /\ rows' = rows \cup Records(r)
  /\ due' = due \cup {<<c, r>> : c \in active \ gone}
  /\ StartBroadcast(r, 1, active, it)
  /\ UNCHANGED <<active, connVars, got, crashes>>

\* The connections of the set that are still to be visited by loop i.
Ahead(i) == IF i.moved THEN SUBSET active ELSE {i.ahead \cap active}

\* The next connection of the set.
NextConnection(r, d) ==
  /\ \E S \in Ahead(it[r]) : \E c \in S :
       it' = [it EXCEPT ![r] = [it[r] EXCEPT !.target = c, !.ahead = S \ {c},
                                             !.dead = d, !.moved = FALSE]]
  /\ UNCHANGED <<rc, counted, active, due>>

\* No connection is left: those that failed are dropped, which may rebuild the
\* table under the other broadcasts, and the next record begins.
EndBroadcast(r, d) ==
  /\ active' = active \ d
  /\ \/ StartBroadcast(r, it[r].k + 1, active', it) /\ UNCHANGED due
     \/ /\ HasHoles(active')
        /\ StartBroadcast(r, it[r].k + 1, active', Moved)
        /\ due' = {p \in due : p[2] = r \/ rc[p[2]] # "send"}

\* Mutant: broadcast() swallows the RuntimeError and leaves the rest out.
MutAdvance(r, d) ==
  LET sizeChanged == Cardinality(active) # it[r].size IN
  \/ ~sizeChanged /\ NextConnection(r, d)
  \/ (sizeChanged \/ {} \in Ahead(it[r])) /\ EndBroadcast(r, d)

\* send_text is over for the target of request r, and d are the connections
\* that failed so far.  The next element of the set is asked for: an error if
\* its size has changed, the next connection, or the end of this broadcast.
Advance(r, d) ==
  LET sizeChanged == Cardinality(active) # it[r].size IN
  \/ /\ sizeChanged
     /\ rc' = [rc EXCEPT ![r] = "error"]
     /\ it' = [it EXCEPT ![r] = NotSending]
     /\ UNCHANGED <<counted, active, due>>
  \/ ~sizeChanged /\ NextConnection(r, d)
  \/ ~sizeChanged /\ {} \in Ahead(it[r]) /\ EndBroadcast(r, d)

\* The client receives the record.
Delivered(r) ==
  LET c == it[r].target IN
  /\ rc[r] = "send" /\ c \notin gone
  /\ got' = [got EXCEPT ![c] = Append(@, <<r, it[r].k>>)]
  /\ Advance(r, it[r].dead)
  /\ UNCHANGED <<rows, connVars, crashes>>

\* Mutant: a send that fails is tried again until the endpoint has discarded
\* the connection.
MutNotDelivered(r) ==
  LET c == it[r].target IN
  /\ rc[r] = "send" /\ c \in gone \ active
  /\ Advance(r, it[r].dead) \/ Advance(r, it[r].dead \cup {c})
  /\ UNCHANGED <<rows, connVars, got, crashes>>

\* The client is gone: send_text raises, or the record is lost unnoticed.
NotDelivered(r) ==
  LET c == it[r].target IN
  /\ rc[r] = "send" /\ c \in gone
  /\ Advance(r, it[r].dead) \/ Advance(r, it[r].dead \cup {c})
  /\ UNCHANGED <<rows, connVars, got, crashes>>

-----------------------------------------------------------------------------
(* The WebSocket endpoint.                                                 *)

\* A browser connects; connect() waits for accept().
Connect(c) ==
  /\ ep[c] = "new"
  /\ ep' = [ep EXCEPT ![c] = "accepting"]
  /\ UNCHANGED <<rc, it, rows, counted, active, gone, got, due, crashes>>

\* The connection is accepted and added to the set, in whatever iterations
\* are under way.
Register(c) ==
  /\ ep[c] = "accepting"
  /\ ep' = [ep EXCEPT ![c] = "receiving"]
  /\ active' = active \cup {c}
  /\ it' = Moved
  /\ due' = {p \in due : rc[p[2]] # "send"}
  /\ UNCHANGED <<rc, rows, counted, gone, got, crashes>>

\* The browser goes away.  The endpoint has not noticed yet.
Leave(c) ==
  /\ ep[c] \in {"accepting", "receiving"} /\ c \notin gone
  /\ gone' = gone \cup {c}
  /\ due' = {p \in due : p[1] # c}
  /\ UNCHANGED <<rc, it, rows, counted, active, ep, got, crashes>>

\* receive_text raises WebSocketDisconnect: the connection is discarded.
Disconnected(c) ==
  /\ ep[c] = "receiving" /\ c \in gone
  /\ ep' = [ep EXCEPT ![c] = "done"]
  /\ active' = active \ {c}
  /\ UNCHANGED <<rc, it, rows, counted, gone, got, due, crashes>>

\* accept raises on a client that has left, or receive_text raises something
\* else (a binary frame has no text): the connection is closed, and stays in
\* the set if it is there.
EndpointRaises(c) ==
  /\ \/ ep[c] = "accepting" /\ c \in gone
     \/ ep[c] = "receiving"
  /\ ep' = [ep EXCEPT ![c] = "done"]
  /\ gone' = gone \cup {c}
  /\ due' = {p \in due : p[1] # c}
  /\ UNCHANGED <<rc, it, rows, counted, active, got, crashes>>

-----------------------------------------------------------------------------
\* The process dies and is started again: requests under way are cut off,
\* connections are closed, and the counters start from zero.
Crash ==
  /\ crashes < MaxCrashes
  /\ crashes' = crashes + 1
  /\ rc' = [r \in Requests |-> IF rc[r] \in {"insert", "commit", "send"} THEN "error" ELSE rc[r]]
  /\ it' = [r \in Requests |-> NotSending]
  /\ ep' = [c \in Clients |-> IF ep[c] = "new" THEN "new" ELSE "done"]
  /\ gone' = {c \in Clients : ep[c] # "new"}
  /\ active' = {} /\ counted' = {} /\ due' = {}
  /\ UNCHANGED <<rows, got>>

HandlerStep(r) ==
  Inserted(r) \/ Commit(r) \/ DatabaseFails(r) \/ Delivered(r) \/ NotDelivered(r)

Next ==
  \/ \E r \in Requests : Post(r) \/ HandlerStep(r)
  \/ \E c \in Clients :
       Connect(c) \/ Register(c) \/ Leave(c) \/ Disconnected(c) \/ EndpointRaises(c)
  \/ Crash

Spec == Init /\ [][Next]_vars

\* The database answers, and a send ends: keepalive closes a connection whose
\* client does not read.
FairSpec == Spec /\ \A r \in Requests : WF_vars(HandlerStep(r))

-----------------------------------------------------------------------------
(* Properties.                                                             *)

\* Each variable holds a value the code can give it; a request has a target
\* exactly while it sends.
TypeOK ==
  /\ rc \in [Requests -> {"idle", "insert", "commit", "send", "ok", "error"}]
  /\ it \in [Requests -> [k : 0 .. BatchLen, target : Clients \cup {NoClient},
                          ahead : SUBSET Clients, size : Nat, dead : SUBSET Clients,
                          moved : BOOLEAN]]
  /\ \A r \in Requests : rc[r] = "send" <=> it[r].target \in Clients
  /\ rows \subseteq Requests \X (1 .. BatchLen)
  /\ counted \subseteq Requests \X (1 .. BatchLen)
  /\ active \subseteq Clients /\ gone \subseteq Clients
  /\ ep \in [Clients -> {"new", "accepting", "receiving", "done"}]
  /\ got \in [Clients -> Seq(Requests \X (1 .. BatchLen))]
  /\ due \subseteq Clients \X Requests
  /\ crashes \in 0 .. MaxCrashes

\* Of the records of request r exactly the first n have been received, each of
\* them once and in order.
Seen(received, r, n) ==
  LET at == {m \in DOMAIN received : received[m][1] = r} IN
  /\ \A k \in 1 .. n : \E m \in at : received[m][2] = k
  /\ \A m \in at : received[m][2] <= n
  /\ \A l, m \in at : l < m => received[l][2] < received[m][2]

\* A client that was subscribed when a batch was committed, and stays, has
\* received each of its records exactly once and in order when the POST is
\* answered 201, however other broadcasts, sends that fail and disconnections
\* interleave.  Not due is a batch during whose broadcast a connection was added
\* or the table rebuilt by the end of another broadcast: then a subscriber may
\* be left out or served twice, and the answer is 201 all the same.
SubscribersServed == \A p \in due : rc[p[2]] = "ok" => Seen(got[p[1]], p[2], BatchLen)

\* The counter never runs ahead of the table, and never lags behind what a
\* subscriber saw, as long as the process that counts lives.
CountedBetween ==
  /\ counted \subseteq rows
  /\ crashes = 0 => \A c \in Clients : Range(got[c]) \subseteq counted

\* Every POST is answered, however the set of connections changes meanwhile.
EventuallyAnswered == \A r \in Requests : rc[r] = "insert" ~> rc[r] \in {"ok", "error"}

\* The handler implements what the hub relies on.
Contract == INSTANCE StoreContract WITH
  stored <- {r \in Requests : Records(r) \subseteq rows},
  shown <- {r \in Requests : \E c \in Clients : \E m \in Range(got[c]) : m[1] = r},
  answer <- [r \in Requests |-> IF rc[r] \in {"ok", "error"} THEN rc[r] ELSE "none"]

ImplementsStore == Contract!Spec
=============================================================================
