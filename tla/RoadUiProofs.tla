---------------------------- MODULE RoadUiProofs ----------------------------
(***************************************************************************)
(* Proof of what the map page shows, for any number of requests, records,  *)
(* clients and connections of the page.  The Store keeps its invariant, as *)
(* all that happens to it there are steps of StorePost; what is added is   *)
(* how often a point has come over the WebSockets of the page, and that of *)
(* the page's connections only the present one can still be sent anything. *)
(***************************************************************************)
EXTENDS RoadUi, StorePostProofs, SequenceTheorems

PageTypes ==
  /\ page \in {"load", "loading", "loaded"}
  /\ reply \subseteq Points
  /\ conn \in PageConns \cup {NoClient}
  /\ read \in Nat
  /\ shown \in [Points -> Nat]
  /\ stirred \subseteq Requests

\* Only connections that were made are in the set and in the iterations over
\* it, and receive anything.
MadeInv ==
  /\ \A c \in active : ep[c] # "new"
  /\ \A r \in Requests : rc[r] = "send" =>
       \A c \in it[r].ahead \cup {it[r].target} : ep[c] # "new"
  /\ \A c \in Clients : ep[c] = "new" => got[c] = <<>>

\* The connections the page had before are gone.
ConnInv ==
  /\ \A c \in PageConns \ {conn} : ep[c] # "new" => c \in gone
  /\ conn # NoClient => page = "loaded" /\ ep[conn] # "new" /\ read <= Len(got[conn])

\* The m-th message on connection c of the page was x.
At(c, m, x) == c \in PageConns /\ m \in 1 .. Len(got[c]) /\ got[c][m] = x

\* A point of request r that the page was sent was not sent to it twice, and no
\* connection that is still to be visited could receive it again.
Sent(r) ==
  /\ \A c, d \in PageConns, m, n \in Nat, k \in 1 .. BatchLen :
       At(c, m, <<r, k>>) /\ At(d, n, <<r, k>>) => c = d /\ m = n
  /\ \A c \in PageConns, m \in Nat, k \in 1 .. BatchLen :
       At(c, m, <<r, k>>) =>
         /\ rc[r] \in {"send", "ok", "error"}
         /\ rc[r] = "send" => k <= it[r].k
         /\ rc[r] = "send" /\ k = it[r].k => (it[r].ahead \cup {it[r].target}) \cap PageConns \subseteq gone

SentInv ==
  /\ \A r \in Requests : it[r].moved => r \in stirred
  /\ \A r \in Requests \ stirred : Sent(r)

FromHistory(x) == IF x \in reply THEN 1 ELSE 0

\* What is shown more often than the history has it came in a message, and
\* every message that was read is shown.
ShownInv ==
  \A x \in Points :
    /\ page # "loaded" => shown[x] = 0
    /\ x[1] \notin stirred => shown[x] <= FromHistory(x) + 1
    /\ shown[x] > FromHistory(x) => \E c \in PageConns, m \in Nat : At(c, m, x) /\ (c = conn => m <= read)
    /\ \A m \in 1 .. read : conn # NoClient /\ At(conn, m, x) => shown[x] > 0

RoadInv == Inv /\ PageTypes /\ MadeInv /\ ConnInv /\ SentInv /\ ShownInv

-----------------------------------------------------------------------------
(* The Store in this module.                                               *)

LEMMA NextOfStore == RoadNext => [Next]_vars
  BY RoadUiAssumption
     DEF RoadNext, StoreStep, ServeHistory, HistoryLoaded, OnMessage, OnClose, Retry, ConnectWS, Next, vars

LEMMA InvStep == Inv /\ [RoadNext]_roadVars => Inv'
  <1>1. Inv /\ [Next]_vars => Inv'
    BY TypeStep, WholeStep, CountedStep, ServedStep DEF Inv
  <1>2. [RoadNext]_roadVars => [Next]_vars
    BY NextOfStore DEF roadVars
  <1> QED BY <1>1, <1>2

\* After a send request r has ended, begins the next record, or goes on to a
\* connection that was ahead, if its iteration was not moved.
LEMMA Continues ==
  ASSUME Inv, NEW r \in Requests, Delivered(r) \/ NotDelivered(r)
  PROVE  /\ OthersKept(r) /\ active' \subseteq active /\ rc[r] = "send"
         /\ UNCHANGED <<gone, ep>>
         /\ it[r].k \in 1 .. BatchLen /\ it[r].target \in Clients \ it[r].ahead
         /\ \/ rc'[r] \in {"ok", "error"}
            \/ /\ rc'[r] = "send" /\ it'[r].k = it[r].k + 1
               /\ it'[r].ahead \cup {it'[r].target} \subseteq active
            \/ /\ rc'[r] = "send" /\ it'[r].k = it[r].k
               /\ it'[r].ahead \cup {it'[r].target} \subseteq active
               /\ ~it[r].moved => it'[r].ahead \cup {it'[r].target} \subseteq it[r].ahead
  <1>1. /\ TypeOK /\ rc[r] = "send" /\ it[r].target \in Clients /\ it[r].k \in 1 .. BatchLen
        /\ UNCHANGED <<gone, ep>> /\ it[r].target \notin it[r].ahead
    BY SendReturns DEF Inv, ServedInv, connVars
  <1>2. PICK d \in SUBSET Clients : Advance(r, d)
    BY SendReturns
  <1>3. it[r].k >= 1 /\ it[r].k + 1 \in 1 .. BatchLen + 1
    BY <1>1, StorePostAssumption
  <1>4. OthersKept(r)
    BY <1>1, <1>2, AdvancesLocal
  <1>5. /\ active' \subseteq active
        /\ Breaks(r) \/ Ends(r, d) \/ \E S \in SUBSET active : \E c \in S : NextSend(r, d, S, c)
    BY <1>1, <1>2, <1>3, Advances
  <1> DEFINE Goal == \/ rc'[r] \in {"ok", "error"}
                     \/ /\ rc'[r] = "send" /\ it'[r].k = it[r].k + 1
                        /\ it'[r].ahead \cup {it'[r].target} \subseteq active
                     \/ /\ rc'[r] = "send" /\ it'[r].k = it[r].k
                        /\ it'[r].ahead \cup {it'[r].target} \subseteq active
                        /\ ~it[r].moved => it'[r].ahead \cup {it'[r].target} \subseteq it[r].ahead
  <1>6. ASSUME Breaks(r) PROVE Goal
    BY <1>1, <1>6 DEF Breaks, TypeOK
  <1>7. ASSUME NEW S \in SUBSET active, NEW c \in S, NextSend(r, d, S, c) PROVE Goal
    <2>1. rc'[r] = "send" /\ it'[r].k = it[r].k /\ it'[r].target = c /\ it'[r].ahead = S \ {c}
      BY <1>1, <1>7 DEF NextSend, TypeOK
    <2>2. ~it[r].moved => S \subseteq it[r].ahead
      BY <1>7 DEF NextSend
    <2> QED BY <2>1, <2>2
  <1>8. ASSUME Ends(r, d) PROVE Goal
    <2>1. PICK loops \in {it, Moved} : StartBroadcast(r, it[r].k + 1, active', loops)
      BY <1>8 DEF Ends
    <2>2. Alike(loops) /\ active' \in SUBSET Clients
      BY <1>1, <1>5, LoopsAlike DEF TypeOK
    <2>3. ASSUME RunsThrough(r, it[r].k + 1, active', loops) PROVE Goal
      BY <1>1, <2>3 DEF RunsThrough, TypeOK
    <2>4. ASSUME NEW c \in active', NEW n \in Nat, FirstSend(r, it[r].k + 1, active', loops, c, n)
          PROVE  Goal
      <3>1. /\ rc'[r] = "send" /\ it'[r].k = it[r].k + 1 /\ it'[r].target = c
            /\ it'[r].ahead = active' \ {c}
        BY <1>1, <2>2, <2>4 DEF FirstSend, TypeOK, Alike
      <3> QED BY <1>5, <3>1
    <2> QED BY <1>3, <2>1, <2>2, <2>3, <2>4, Starts
  <1> QED BY <1>1, <1>4, <1>5, <1>6, <1>7, <1>8

\* Messages only come to the target of a send, behind those it has.
LEMMA Messages ==
  ASSUME Inv, StoreStep
  PROVE  \/ UNCHANGED got
         \/ \E r \in Requests :
              /\ Delivered(r) /\ it[r].target \in Clients \ gone
              /\ got' = [got EXCEPT ![it[r].target] = Append(@, <<r, it[r].k>>)]
  <1>1. ASSUME NEW r \in Requests, Delivered(r)
        PROVE  /\ it[r].target \in Clients \ gone
               /\ got' = [got EXCEPT ![it[r].target] = Append(@, <<r, it[r].k>>)]
    BY <1>1, SendReturns DEF Delivered
  <1>2. (\A r \in Requests : ~Delivered(r)) => UNCHANGED got
    BY DEF StoreStep, HandlerStep, Post, Inserted, Commit, DatabaseFails, NotDelivered, Connect, Register,
           Leave, Disconnected, EndpointRaises, Crash
  <1> QED BY <1>1, <1>2

\* So a message keeps its place, and at most one is new.
LEMMA Kept ==
  ASSUME Inv, StoreStep
  PROVE  /\ \A c \in Clients : Len(got[c]) \in Nat /\ Len(got'[c]) \in Nat /\ Len(got[c]) <= Len(got'[c])
         /\ \A c \in Clients : \A m \in 1 .. Len(got[c]) : got'[c][m] = got[c][m]
         /\ \A c \in Clients : \A m \in 1 .. Len(got'[c]) : m \notin 1 .. Len(got[c]) =>
              \E r \in Requests : /\ Delivered(r) /\ c = it[r].target /\ c \notin gone
                                  /\ m = Len(got[c]) + 1 /\ got'[c][m] = <<r, it[r].k>>
  <1>1. \A c \in Clients : got[c] \in Seq(Points)
    BY DEF Inv, TypeOK, Points
  <1>2. CASE UNCHANGED got
    BY <1>1, <1>2
  <1>3. ASSUME NEW r \in Requests, Delivered(r), it[r].target \in Clients \ gone,
               got' = [got EXCEPT ![it[r].target] = Append(@, <<r, it[r].k>>)]
        PROVE  /\ \A c \in Clients : Len(got[c]) \in Nat /\ Len(got'[c]) \in Nat /\ Len(got[c]) <= Len(got'[c])
               /\ \A c \in Clients : \A m \in 1 .. Len(got[c]) : got'[c][m] = got[c][m]
               /\ \A c \in Clients : \A m \in 1 .. Len(got'[c]) : m \notin 1 .. Len(got[c]) =>
                    /\ Delivered(r) /\ c = it[r].target /\ c \notin gone
                    /\ m = Len(got[c]) + 1 /\ got'[c][m] = <<r, it[r].k>>
    <2>1. \A c \in Clients \ {it[r].target} : got'[c] = got[c]
      BY <1>3 DEF Inv, TypeOK
    <2> DEFINE t == it[r].target
    <2>2. <<r, it[r].k>> \in Points /\ got'[t] = Append(got[t], <<r, it[r].k>>)
      BY <1>3, SendReturns DEF Inv, TypeOK, Points
    <2>3. /\ Len(got'[t]) = Len(got[t]) + 1 /\ Len(got[t]) \in Nat
          /\ \A m \in 1 .. Len(got[t]) : got'[t][m] = got[t][m]
          /\ got'[t][Len(got[t]) + 1] = <<r, it[r].k>>
      BY <1>1, <1>3, <2>2
    <2> HIDE DEF t
    <2>4. ASSUME NEW c \in Clients
          PROVE  /\ Len(got[c]) \in Nat /\ Len(got'[c]) \in Nat /\ Len(got[c]) <= Len(got'[c])
                 /\ \A m \in 1 .. Len(got[c]) : got'[c][m] = got[c][m]
                 /\ \A m \in 1 .. Len(got'[c]) : m \notin 1 .. Len(got[c]) =>
                      c = t /\ m = Len(got[c]) + 1 /\ got'[c][m] = <<r, it[r].k>>
      <3>1. CASE c = t
        BY <2>3, <3>1
      <3>2. CASE c # t
        BY <1>1, <2>1, <3>2 DEF t
      <3> QED BY <3>1, <3>2
    <2> QED BY <1>3, <2>4 DEF t
  <1>4. CASE \E r \in Requests :
               /\ Delivered(r) /\ it[r].target \in Clients \ gone
               /\ got' = [got EXCEPT ![it[r].target] = Append(@, <<r, it[r].k>>)]
    BY <1>3, <1>4
  <1> QED BY <1>2, <1>4, Messages

-----------------------------------------------------------------------------
(* The steps of the Store.                                                 *)

LEMMA StoreTypes == RoadInv /\ StoreStep => PageTypes'
  BY DEF RoadInv, PageTypes, StoreStep, pageVars, Points

LEMMA StoreMade == RoadInv /\ StoreStep => MadeInv'
  <1> SUFFICES ASSUME RoadInv, StoreStep PROVE MadeInv'
    OBVIOUS
  <1>1. Inv /\ TypeOK /\ MadeInv
    BY DEF RoadInv, Inv
  <1>2. \A c \in Clients : ep[c] # "new" => ep'[c] # "new"
    BY <1>1 DEF StoreStep, HandlerStep, Post, Inserted, Commit, DatabaseFails, Delivered, NotDelivered,
       Connect, Register, Leave, Disconnected, EndpointRaises, Crash, connVars, TypeOK
  <1>3. ASSUME NEW c \in Clients, ep'[c] = "new" PROVE got'[c] = <<>>
    <2>1. ep[c] = "new" /\ got[c] = <<>>
      BY <1>1, <1>2, <1>3 DEF MadeInv
    <2>2. ASSUME NEW r \in Requests, Delivered(r) PROVE c # it[r].target
      <3>1. rc[r] = "send"
        BY <2>2 DEF Delivered
      <3> QED BY <1>1, <2>1, <3>1 DEF MadeInv
    <2> QED BY <1>1, <2>1, <2>2, Messages DEF TypeOK
  <1>4. ASSUME NEW r \in Requests, Delivered(r) \/ NotDelivered(r)
        PROVE  /\ \A c \in active' : ep'[c] # "new"
               /\ \A q \in Requests : rc'[q] = "send" =>
                    \A c \in it'[q].ahead \cup {it'[q].target} : ep'[c] # "new"
    <2>1. \A c \in active : ep'[c] = ep[c] /\ ep[c] # "new"
      BY <1>1, <1>4, Continues DEF MadeInv
    <2>2. ASSUME NEW q \in Requests \ {r}, rc'[q] = "send"
          PROVE  \A c \in it'[q].ahead \cup {it'[q].target} : ep'[c] # "new"
      BY <1>1, <1>4, <2>2, Continues DEF MadeInv, OthersKept
    <2>3. ASSUME rc'[r] = "send"
          PROVE  \A c \in it'[r].ahead \cup {it'[r].target} : ep'[c] # "new"
      BY <1>1, <1>4, <2>1, <2>3, Continues
    <2> QED BY <1>1, <1>4, <2>1, <2>2, <2>3, Continues
  <1>5. ASSUME NEW r \in Requests, Commit(r)
        PROVE  /\ \A c \in active' : ep'[c] # "new"
               /\ \A q \in Requests : rc'[q] = "send" =>
                    \A c \in it'[q].ahead \cup {it'[q].target} : ep'[c] # "new"
    <2>1. /\ UNCHANGED <<active, ep>> /\ StartBroadcast(r, 1, active, it)
          /\ 1 \in 1 .. BatchLen + 1 /\ active \in SUBSET Clients
      BY <1>1, <1>5, StorePostAssumption DEF Commit, connVars, TypeOK
    <2>2. \A q \in Requests \ {r} : rc'[q] = rc[q] /\ it'[q] = it[q]
      BY <1>1, <1>5, CommitLocal
    <2>3. ASSUME NEW c \in active, NEW n \in Nat, FirstSend(r, 1, active, it, c, n)
          PROVE  it'[r].ahead \cup {it'[r].target} \subseteq active
      BY <1>1, <2>3 DEF FirstSend, TypeOK
    <2>4. RunsThrough(r, 1, active, it) => rc'[r] # "send"
      BY <1>1 DEF RunsThrough, TypeOK
    <2>5. rc'[r] = "send" => it'[r].ahead \cup {it'[r].target} \subseteq active
      BY <2>1, <2>3, <2>4, Starts
    <2> QED BY <1>1, <2>1, <2>2, <2>5 DEF MadeInv
  <1>6. ASSUME NEW r \in Requests, Post(r) \/ Inserted(r) \/ DatabaseFails(r)
        PROVE  /\ UNCHANGED <<active, ep, it>> /\ \A q \in Requests : rc'[q] = "send" => rc[q] = "send"
    BY <1>1, <1>6 DEF Post, Inserted, DatabaseFails, connVars, TypeOK
  <1>7. ASSUME NEW c \in Clients, Connect(c) \/ Leave(c) \/ Disconnected(c) \/ EndpointRaises(c)
        PROVE  /\ UNCHANGED <<rc, it>> /\ active' \subseteq active
    BY <1>7 DEF Connect, Leave, Disconnected, EndpointRaises
  <1>8. ASSUME NEW c \in Clients, Register(c)
        PROVE  /\ UNCHANGED rc /\ active' = active \cup {c} /\ ep'[c] # "new"
               /\ \A q \in Requests : it'[q].ahead = it[q].ahead /\ it'[q].target = it[q].target
    BY <1>1, <1>8, LoopsAlike DEF Register, Alike, TypeOK
  <1>9. Crash => active' = {} /\ \A q \in Requests : rc'[q] # "send"
    BY <1>1 DEF Crash, TypeOK
  <1>10. active \subseteq Clients /\ \A q \in Requests : rc[q] = "send" => it[q].ahead \cup {it[q].target} \subseteq Clients
    BY <1>1 DEF TypeOK
  <1>11. /\ \A c \in active' : ep'[c] # "new"
         /\ \A q \in Requests : rc'[q] = "send" =>
              \A c \in it'[q].ahead \cup {it'[q].target} : ep'[c] # "new"
    <2>1. CASE \E r \in Requests : Post(r) \/ Inserted(r) \/ DatabaseFails(r)
      BY <1>1, <1>6, <2>1 DEF MadeInv
    <2>2. CASE \E c \in Clients : Connect(c) \/ Leave(c) \/ Disconnected(c) \/ EndpointRaises(c)
      BY <1>1, <1>2, <1>7, <1>10, <2>2 DEF MadeInv
    <2>3. CASE \E c \in Clients : Register(c)
      BY <1>1, <1>2, <1>8, <1>10, <2>3 DEF MadeInv
    <2> QED BY <1>4, <1>5, <1>9, <2>1, <2>2, <2>3 DEF StoreStep, HandlerStep
  <1> QED BY <1>3, <1>11 DEF MadeInv

\* A connection of the page that was lost stays lost.
LEMMA StoreConn == RoadInv /\ StoreStep => ConnInv'
  <1> SUFFICES ASSUME RoadInv, StoreStep PROVE ConnInv'
    OBVIOUS
  <1>1. Inv /\ TypeOK /\ ConnInv /\ PageTypes /\ UNCHANGED pageVars
    BY DEF RoadInv, Inv, StoreStep
  <1>2. ASSUME NEW c \in PageConns
        PROVE  /\ ep'[c] # "new" <=> ep[c] # "new"
               /\ c \in gone /\ ep[c] # "new" => c \in gone'
    <2>1. c \in Clients
      BY RoadUiAssumption
    <2> QED
      BY <1>1, <2>1 DEF StoreStep, HandlerStep, Post, Inserted, Commit, DatabaseFails, Delivered, NotDelivered,
         Connect, Register, Leave, Disconnected, EndpointRaises, Crash, connVars, TypeOK
  <1>3. ASSUME conn # NoClient
        PROVE  read <= Len(got'[conn])
    <2>1. conn \in Clients /\ read <= Len(got[conn]) /\ read \in Nat
      BY <1>1, <1>3, RoadUiAssumption DEF PageTypes, ConnInv
    <2> QED BY <1>1, <2>1, Kept
  <1>4. \A c \in PageConns \ {conn'} : ep'[c] # "new" => c \in gone'
    BY <1>1, <1>2 DEF ConnInv, pageVars
  <1>5. conn' # NoClient => page' = "loaded" /\ ep'[conn'] # "new" /\ read' <= Len(got'[conn'])
    BY <1>1, <1>2, <1>3 DEF ConnInv, pageVars, PageTypes
  <1> QED BY <1>4, <1>5 DEF ConnInv

LEMMA StoreShown == RoadInv /\ StoreStep => ShownInv'
  <1> SUFFICES ASSUME RoadInv, StoreStep, NEW x \in Points
               PROVE  /\ page # "loaded" => shown[x] = 0
                      /\ x[1] \notin stirred' => shown[x] <= FromHistory(x) + 1
                      /\ shown[x] > FromHistory(x) =>
                           \E c \in PageConns, m \in Nat : At(c, m, x)' /\ (c = conn => m <= read)
                      /\ \A m \in 1 .. read : conn # NoClient /\ At(conn, m, x)' => shown[x] > 0
    BY DEF ShownInv, StoreStep, pageVars, FromHistory, Points
  <1>1. Inv /\ ShownInv /\ ConnInv /\ PageTypes /\ stirred \subseteq stirred'
    BY DEF RoadInv, StoreStep
  <1>2. ASSUME NEW c \in PageConns, NEW m \in Nat, At(c, m, x) PROVE At(c, m, x)'
    BY <1>1, <1>2, Kept, RoadUiAssumption DEF At
  <1>3. ASSUME NEW m \in 1 .. read, conn # NoClient, At(conn, m, x)' PROVE At(conn, m, x)
    <2>1. conn \in PageConns /\ conn \in Clients /\ read <= Len(got[conn]) /\ read \in Nat
      BY <1>1, <1>3, RoadUiAssumption DEF ConnInv, PageTypes
    <2>2. conn' = conn
      BY DEF StoreStep, pageVars
    <2>3. m \in 1 .. Len(got[conn]) /\ got'[conn][m] = x
      BY <1>1, <1>3, <2>1, <2>2, Kept DEF At
    <2> QED BY <1>1, <2>1, <2>3, Kept DEF At
  <1> QED BY <1>1, <1>2, <1>3 DEF ShownInv

\* A broadcast under which the set was not changed visits connections that were
\* ahead, or is at a later record.
LEMMA Iterates ==
  ASSUME RoadInv, StoreStep, NEW r \in Requests, r \notin stirred', rc[r] \in {"send", "ok", "error"}
  PROVE  /\ rc'[r] \in {"send", "ok", "error"}
         /\ rc'[r] = "send" =>
              /\ rc[r] = "send" /\ gone \subseteq gone'
              /\ \/ it'[r].k = it[r].k + 1
                 \/ /\ it'[r].k = it[r].k
                    /\ it'[r].ahead \cup {it'[r].target} \subseteq it[r].ahead \cup {it[r].target}
  <1> DEFINE Same == /\ rc'[r] = rc[r] /\ it'[r].k = it[r].k /\ gone \subseteq gone'
                     /\ it'[r].target = it[r].target /\ it'[r].ahead = it[r].ahead
  <1>1. Inv /\ TypeOK
    BY DEF RoadInv, Inv
  <1>2. ~it[r].moved
    BY DEF RoadInv, SentInv, StoreStep
  <1>3. ASSUME NEW q \in Requests, Post(q) \/ Inserted(q) \/ DatabaseFails(q) PROVE Same
    BY <1>1, <1>3 DEF Post, Inserted, DatabaseFails, connVars, TypeOK
  <1>4. ASSUME NEW q \in Requests, Commit(q) PROVE Same
    <2>1. q # r /\ gone' = gone
      BY <1>4 DEF Commit, connVars
    <2> QED BY <1>1, <1>4, <2>1, CommitLocal
  <1>5. ASSUME NEW q \in Requests \ {r}, Delivered(q) \/ NotDelivered(q) PROVE Same
    BY <1>1, <1>5, Continues DEF OthersKept
  <1>6. ASSUME NEW c \in Clients, Connect(c) \/ Leave(c) \/ Disconnected(c) \/ EndpointRaises(c) PROVE Same
    BY <1>6 DEF Connect, Leave, Disconnected, EndpointRaises
  <1>7. ASSUME NEW c \in Clients, Register(c) PROVE Same
    BY <1>1, <1>7, LoopsAlike DEF Register, Alike
  <1>8. CASE Delivered(r) \/ NotDelivered(r)
    BY <1>1, <1>2, <1>8, Continues
  <1>9. CASE Crash
    BY <1>1, <1>9 DEF Crash, TypeOK
  <1>10. CASE Same
    BY <1>10
  <1> QED BY <1>3, <1>4, <1>5, <1>6, <1>7, <1>8, <1>9, <1>10 DEF StoreStep, HandlerStep

\* A point that is sent to the page now was not sent to it before, and will not
\* be sent to it again.
LEMMA FirstTime ==
  ASSUME RoadInv, NEW r \in Requests \ stirred, Delivered(r), it[r].target \in PageConns \ gone
  PROVE  /\ \A c \in PageConns, m \in Nat : ~At(c, m, <<r, it[r].k>>)
         /\ it[r].ahead \cap PageConns \subseteq gone
  <1>1. Inv /\ Sent(r) /\ MadeInv /\ ConnInv
    BY DEF RoadInv, SentInv
  <1>2. rc[r] = "send" /\ it[r].k \in 1 .. BatchLen /\ it[r].target \notin it[r].ahead
    BY <1>1, Continues
  <1>3. ASSUME NEW c \in PageConns, NEW m \in Nat PROVE ~At(c, m, <<r, it[r].k>>)
    BY <1>1, <1>2 DEF Sent
  <1>4. it[r].target = conn
    BY <1>1, <1>2 DEF MadeInv, ConnInv
  <1>5. ASSUME NEW c \in it[r].ahead \cap PageConns PROVE c \in gone
    BY <1>1, <1>2, <1>4 DEF MadeInv, ConnInv
  <1> QED BY <1>3, <1>5

LEMMA StoreSent == RoadInv /\ StoreStep => SentInv'
  <1> SUFFICES ASSUME RoadInv, StoreStep PROVE SentInv'
    OBVIOUS
  <1>1. Inv /\ PageConns \subseteq Clients /\ stirred \subseteq stirred'
    BY RoadUiAssumption DEF RoadInv, StoreStep
  <1>2. \A r \in Requests : it'[r].moved => r \in stirred'
    BY DEF StoreStep
  <1>3. ASSUME NEW r \in Requests \ stirred' PROVE Sent(r)'
    <2>1. r \in Requests \ stirred /\ Sent(r) /\ ~it[r].moved
      BY <1>1 DEF RoadInv, SentInv
    <2> DEFINE New(c, m, k) == /\ Delivered(r) /\ c = it[r].target /\ c \notin gone
                               /\ m = Len(got[c]) + 1 /\ k = it[r].k
    <2>2. ASSUME NEW c \in PageConns, NEW m \in Nat, NEW k \in 1 .. BatchLen, At(c, m, <<r, k>>)'
          PROVE  At(c, m, <<r, k>>) \/ New(c, m, k)
      <3>1. m \in 1 .. Len(got'[c]) /\ got'[c][m] = <<r, k>> /\ c \in Clients
        BY <1>1, <2>2 DEF At
      <3>2. CASE m \in 1 .. Len(got[c])
        BY <1>1, <3>1, <3>2, Kept DEF At
      <3>3. CASE m \notin 1 .. Len(got[c])
        <4>1. PICK q \in Requests : /\ Delivered(q) /\ c = it[q].target /\ c \notin gone
                                    /\ m = Len(got[c]) + 1 /\ got'[c][m] = <<q, it[q].k>>
          BY <1>1, <3>1, <3>3, Kept
        <4>2. q = r /\ k = it[r].k
          BY <3>1, <4>1
        <4> QED BY <4>1, <4>2
      <3> QED BY <3>2, <3>3
    <2>3. ASSUME NEW c \in PageConns, NEW m \in Nat, NEW k \in 1 .. BatchLen, New(c, m, k)
          PROVE  /\ \A d \in PageConns, n \in Nat : ~At(d, n, <<r, k>>)
                 /\ it[r].ahead \cap PageConns \subseteq gone
      BY <2>1, <2>3, FirstTime
    <2>4. ASSUME NEW c \in PageConns, NEW d \in PageConns, NEW m \in Nat, NEW n \in Nat, NEW k \in 1 .. BatchLen,
                 At(c, m, <<r, k>>)', At(d, n, <<r, k>>)'
          PROVE  c = d /\ m = n
      <3>1. CASE At(c, m, <<r, k>>) /\ At(d, n, <<r, k>>)
        BY <2>1, <3>1 DEF Sent
      <3>2. CASE New(c, m, k) /\ New(d, n, k)
        BY <3>2
      <3>3. ~(At(c, m, <<r, k>>) /\ New(d, n, k)) /\ ~(New(c, m, k) /\ At(d, n, <<r, k>>))
        BY <2>3
      <3> QED BY <2>2, <2>4, <3>1, <3>2, <3>3
    <2>5. ASSUME NEW c \in PageConns, NEW m \in Nat, NEW k \in 1 .. BatchLen, At(c, m, <<r, k>>)
          PROVE  /\ rc'[r] \in {"send", "ok", "error"}
                 /\ rc'[r] = "send" => k <= it'[r].k
                 /\ rc'[r] = "send" /\ k = it'[r].k =>
                      (it'[r].ahead \cup {it'[r].target}) \cap PageConns \subseteq gone'
      <3>1. /\ rc[r] \in {"send", "ok", "error"}
            /\ rc[r] = "send" => k <= it[r].k
            /\ rc[r] = "send" /\ k = it[r].k => (it[r].ahead \cup {it[r].target}) \cap PageConns \subseteq gone
        BY <2>1, <2>5 DEF Sent
      <3>2. rc[r] = "send" => it[r].k \in 1 .. BatchLen
        BY <1>1 DEF Inv, CountedInv
      <3>3. BatchLen \in Nat
        BY StorePostAssumption
      <3> QED BY <3>1, <3>2, <3>3, Iterates
    <2>6. ASSUME NEW c \in PageConns, NEW m \in Nat, NEW k \in 1 .. BatchLen, New(c, m, k)
          PROVE  /\ rc'[r] \in {"send", "ok", "error"}
                 /\ rc'[r] = "send" => k <= it'[r].k
                 /\ rc'[r] = "send" /\ k = it'[r].k =>
                      (it'[r].ahead \cup {it'[r].target}) \cap PageConns \subseteq gone'
      <3>1. it[r].ahead \cap PageConns \subseteq gone /\ k = it[r].k
        BY <2>3, <2>6
      <3>2. BatchLen \in Nat
        BY StorePostAssumption
      <3> QED BY <1>1, <2>1, <2>6, <3>1, <3>2, Continues
    <2>7. ASSUME NEW c \in PageConns, NEW m \in Nat, NEW k \in 1 .. BatchLen, At(c, m, <<r, k>>)'
          PROVE  /\ rc'[r] \in {"send", "ok", "error"}
                 /\ rc'[r] = "send" => k <= it'[r].k
                 /\ rc'[r] = "send" /\ k = it'[r].k =>
                      (it'[r].ahead \cup {it'[r].target}) \cap PageConns \subseteq gone'
      BY <2>2, <2>5, <2>6, <2>7
    <2> QED BY <2>4, <2>7 DEF Sent
  <1> QED BY <1>2, <1>3 DEF SentInv

LEMMA StoreKeeps == ASSUME RoadInv, StoreStep PROVE RoadInv'
  <1>1. Inv'
    BY InvStep DEF RoadInv, RoadNext
  <1> QED BY <1>1, StoreTypes, StoreMade, StoreConn, StoreSent, StoreShown DEF RoadInv

-----------------------------------------------------------------------------
(* The steps of the page.                                                  *)

\* Nothing of the Store changes but that a connection may be made.
LEMMA PageQuiet ==
  ASSUME RoadInv, UNCHANGED <<rc, it, active, gone, got, stirred>>,
         \A c \in Clients : ep[c] # "new" => ep'[c] # "new"
  PROVE  SentInv' /\ MadeInv' /\ \A c, m, x : At(c, m, x)' <=> At(c, m, x)
  <1>1. TypeOK /\ SentInv /\ MadeInv
    BY DEF RoadInv, Inv
  <1>2. SentInv' /\ \A c, m, x : At(c, m, x)' <=> At(c, m, x)
    BY <1>1 DEF SentInv, Sent, At
  <1>3. active \subseteq Clients /\ \A r \in Requests : rc[r] = "send" => it[r].ahead \cup {it[r].target} \subseteq Clients
    BY <1>1 DEF TypeOK
  <1>4. MadeInv'
    BY <1>1, <1>3 DEF MadeInv
  <1> QED BY <1>2, <1>4

\* A new connection owes the page nothing yet, and the one before it is gone.
LEMMA Connects ==
  ASSUME RoadInv, NEW c \in PageConns, ConnectWS(c), conn = NoClient, page' = "loaded"
  PROVE  /\ ConnInv' /\ conn' \in PageConns \cup {NoClient} /\ read' \in Nat
         /\ \A x : \A d \in PageConns, m \in Nat : At(d, m, x) => d # conn'
         /\ UNCHANGED <<rc, it, active, gone, got>>
         /\ \A d \in Clients : ep[d] # "new" => ep'[d] # "new"
  <1>1. TypeOK /\ ConnInv /\ MadeInv /\ c \in Clients
    BY RoadUiAssumption DEF RoadInv, Inv
  <1>2. /\ conn' = c /\ read' = 0 /\ ep[c] = "new" /\ ep' = [ep EXCEPT ![c] = "accepting"]
        /\ UNCHANGED <<rc, it, active, gone, got>>
    BY DEF ConnectWS, Connect
  <1>3. /\ ep'[c] = "accepting" /\ got[c] = <<>> /\ \A d \in Clients \ {c} : ep'[d] = ep[d]
    BY <1>1, <1>2 DEF MadeInv, TypeOK
  <1>4. \A d \in PageConns \ {c} : ep'[d] # "new" => d \in gone
    <2>1. NoClient \notin PageConns /\ PageConns \subseteq Clients
      BY StorePostAssumption, RoadUiAssumption
    <2> QED BY <1>1, <1>3, <2>1 DEF ConnInv
  <1>5. Len(got[c]) = 0
    BY <1>3
  <1>6. ConnInv'
    BY <1>2, <1>3, <1>4, <1>5 DEF ConnInv
  <1>7. \A x : \A d \in PageConns, m \in Nat : At(d, m, x) => d # c
    BY <1>5 DEF At
  <1> QED BY <1>2, <1>3, <1>6, <1>7

LEMMA ServeStep == ASSUME RoadInv, ServeHistory PROVE RoadInv'
  <1>1. /\ page = "load" /\ page' = "loading" /\ UNCHANGED <<vars, conn, read, shown, stirred>>
        /\ Inv /\ PageTypes /\ ConnInv /\ ShownInv
    BY DEF ServeHistory, RoadInv
  <1>2. Inv'
    BY InvStep DEF RoadInv, RoadNext
  <1>3. SentInv' /\ MadeInv' /\ \A c, m, x : At(c, m, x)' <=> At(c, m, x)
    BY <1>1, PageQuiet DEF vars, connVars
  <1>4. reply' \subseteq Points
    BY <1>1 DEF ServeHistory, Inv, TypeOK, Points, Records
  <1>5. PageTypes'
    BY <1>1, <1>4 DEF PageTypes
  <1>6. ConnInv' /\ conn = NoClient
    BY <1>1 DEF ConnInv, vars, connVars
  <1>7. ShownInv'
    <2>1. \A x \in Points : shown'[x] = 0 /\ FromHistory(x)' \in {0, 1}
      BY <1>1 DEF ShownInv, FromHistory
    <2> QED BY <1>1, <1>6, <2>1 DEF ShownInv, Points
  <1> QED BY <1>2, <1>3, <1>5, <1>6, <1>7 DEF RoadInv

\* Before its history has come a page shows nothing.
LEMMA LoadedStep == ASSUME RoadInv, HistoryLoaded PROVE RoadInv'
  <1>1. /\ page = "loading" /\ page' = "loaded" /\ UNCHANGED stirred
        /\ Inv /\ PageTypes /\ ConnInv /\ ShownInv /\ conn = NoClient
    BY DEF HistoryLoaded, RoadInv, ConnInv
  <1>2. Inv'
    BY InvStep DEF RoadInv, RoadNext
  <1>3. PICK c \in PageConns : ConnectWS(c)
    BY DEF HistoryLoaded
  <1>4. /\ ConnInv' /\ conn' \in PageConns \cup {NoClient} /\ read' \in Nat /\ read' = 0
        /\ UNCHANGED <<rc, it, active, gone, got>>
        /\ \A d \in Clients : ep[d] # "new" => ep'[d] # "new"
    BY <1>1, <1>3, Connects DEF ConnectWS
  <1>5. SentInv' /\ MadeInv'
    BY <1>1, <1>4, PageQuiet
  <1>6. /\ reply' \subseteq Points /\ shown' \in [Points -> Nat]
        /\ \A x \in Points : shown'[x] <= FromHistory(x)'
    <2>1. \A x \in Points : shown[x] = 0
      BY <1>1 DEF ShownInv
    <2>2. CASE ProcessPoints(reply) /\ UNCHANGED reply
      BY <1>1, <2>1, <2>2 DEF ProcessPoints, FromHistory, PageTypes
    <2>3. CASE reply' = {} /\ UNCHANGED shown
      BY <1>1, <2>1, <2>3 DEF FromHistory, PageTypes
    <2> QED BY <2>2, <2>3 DEF HistoryLoaded
  <1>7. PageTypes'
    BY <1>1, <1>4, <1>6 DEF PageTypes
  <1>8. ShownInv'
    <2>1. \A x \in Points : shown'[x] \in Nat /\ FromHistory(x)' \in {0, 1}
      BY <1>6 DEF FromHistory
    <2> QED BY <1>1, <1>4, <1>6, <2>1 DEF ShownInv, Points
  <1> QED BY <1>2, <1>4, <1>5, <1>7, <1>8 DEF RoadInv

\* The point that is read now was not read before, so it is there from the
\* history at most.
LEMMA MessageStep == ASSUME RoadInv, OnMessage PROVE RoadInv'
  <1> DEFINE y == got[conn][read + 1]
  <1>1. /\ UNCHANGED <<vars, page, reply, conn, stirred>>
        /\ conn # NoClient /\ read < Len(got[conn]) /\ read' = read + 1
        /\ Inv /\ PageTypes /\ ConnInv /\ ShownInv /\ SentInv
    BY DEF OnMessage, RoadInv
  <1>2. conn \in PageConns /\ conn \in Clients /\ read \in Nat /\ page = "loaded"
    BY <1>1, RoadUiAssumption DEF PageTypes, ConnInv
  <1>3. got[conn] \in Seq(Points) /\ Len(got[conn]) \in Nat
    BY <1>1, <1>2 DEF Inv, TypeOK, Points
  <1>4. y \in Points /\ At(conn, read + 1, y)
    <2>1. read + 1 \in 1 .. Len(got[conn])
      BY <1>1, <1>2, <1>3
    <2> QED BY <1>2, <1>3, <2>1, ElementOfSeq DEF At
  <1>5. \A x \in Points : shown'[x] = IF x = y THEN shown[x] + 1 ELSE shown[x]
    BY DEF OnMessage, ProcessPoints
  <1>6. Inv'
    BY InvStep DEF RoadInv, RoadNext
  <1>7. SentInv' /\ MadeInv' /\ \A c, m, x : At(c, m, x)' <=> At(c, m, x)
    BY <1>1, PageQuiet DEF vars, connVars
  <1>8. PageTypes'
    BY <1>1, <1>2, <1>5 DEF PageTypes, OnMessage, ProcessPoints
  <1>9. ConnInv'
    BY <1>1, <1>2, <1>3 DEF ConnInv, vars, connVars
  <1>10. y[1] \notin stirred => shown[y] <= FromHistory(y)
    <2> SUFFICES ASSUME y[1] \notin stirred, ~(shown[y] <= FromHistory(y)) PROVE FALSE
      OBVIOUS
    <2>1. y[1] \in Requests \ stirred /\ y[2] \in 1 .. BatchLen /\ y = <<y[1], y[2]>>
      BY <1>4 DEF Points
    <2>2. shown[y] \in Nat /\ FromHistory(y) \in Nat
      BY <1>1, <1>4 DEF PageTypes, FromHistory
    <2>3. PICK c \in PageConns, m \in Nat : At(c, m, y) /\ (c = conn => m <= read)
      BY <1>1, <1>4, <2>2 DEF ShownInv
    <2>4. Sent(y[1]) /\ read + 1 \in Nat
      BY <1>1, <1>2, <2>1 DEF SentInv
    <2>5. At(c, m, <<y[1], y[2]>>) /\ At(conn, read + 1, <<y[1], y[2]>>)
      BY <1>4, <2>1, <2>3
    <2> HIDE DEF y
    <2>6. c = conn /\ m = read + 1
      BY <1>2, <2>1, <2>3, <2>4, <2>5 DEF Sent
    <2> QED BY <1>2, <2>3, <2>6
  <1> HIDE DEF y
  <1>11. ASSUME NEW x \in Points
         PROVE  /\ x[1] \notin stirred => shown'[x] <= FromHistory(x) + 1
                /\ shown'[x] > FromHistory(x) => \E c \in PageConns, m \in Nat : At(c, m, x) /\ (c = conn => m <= read + 1)
                /\ \A m \in 1 .. read + 1 : At(conn, m, x) => shown'[x] > 0
    <2>1. shown[x] \in Nat /\ FromHistory(x) \in Nat
      BY <1>1 DEF PageTypes, FromHistory
    <2>2. CASE x = y
      <3>1. shown'[x] = shown[x] + 1 /\ read + 1 \in Nat
        BY <1>2, <1>5, <2>2
      <3>2. \E c \in PageConns, m \in Nat : At(c, m, x) /\ (c = conn => m <= read + 1)
        BY <1>2, <1>4, <2>2, <3>1
      <3> QED BY <1>10, <2>1, <2>2, <3>1, <3>2
    <2>3. CASE x # y
      <3>1. shown'[x] = shown[x]
        BY <1>5, <2>3
      <3>2. \A m \in 1 .. read + 1 : At(conn, m, x) => m \in 1 .. read
        <4>1. ~At(conn, read + 1, x)
          BY <1>4, <2>3 DEF At
        <4> QED BY <1>2, <4>1
      <3>3. shown[x] > FromHistory(x) => \E c \in PageConns, m \in Nat : At(c, m, x) /\ (c = conn => m <= read)
        BY <1>1 DEF ShownInv
      <3>4. \A m \in Nat : m <= read => m <= read + 1
        BY <1>2
      <3>5. /\ x[1] \notin stirred => shown[x] <= FromHistory(x) + 1
            /\ \A m \in 1 .. read : At(conn, m, x) => shown[x] > 0
        BY <1>1 DEF ShownInv
      <3> QED BY <3>1, <3>2, <3>3, <3>4, <3>5
    <2> QED BY <2>2, <2>3
  <1>12. ShownInv'
    BY <1>1, <1>2, <1>7, <1>11 DEF ShownInv, FromHistory, Points
  <1> QED BY <1>6, <1>7, <1>8, <1>9, <1>12 DEF RoadInv

LEMMA CloseStep == ASSUME RoadInv, OnClose PROVE RoadInv'
  <1>1. /\ UNCHANGED <<vars, page, reply, shown, stirred>>
        /\ conn \in gone /\ conn' = NoClient /\ read' = 0
        /\ Inv /\ PageTypes /\ ConnInv /\ ShownInv
    BY DEF OnClose, RoadInv
  <1>2. NoClient \notin PageConns
    BY StorePostAssumption, RoadUiAssumption
  <1>3. Inv'
    BY InvStep DEF RoadInv, RoadNext
  <1>4. SentInv' /\ MadeInv' /\ \A c, m, x : At(c, m, x)' <=> At(c, m, x)
    BY <1>1, PageQuiet DEF vars, connVars
  <1>5. PageTypes' /\ ConnInv'
    BY <1>1 DEF PageTypes, ConnInv, vars, connVars
  <1>6. ShownInv'
    BY <1>1, <1>2, <1>4 DEF ShownInv, FromHistory, Points
  <1> QED BY <1>3, <1>4, <1>5, <1>6 DEF RoadInv

LEMMA RetryStep == ASSUME RoadInv, Retry PROVE RoadInv'
  <1>1. /\ page = "loaded" /\ conn = NoClient /\ UNCHANGED <<page, reply, shown, stirred>>
        /\ Inv /\ PageTypes /\ ConnInv /\ ShownInv
    BY DEF Retry, RoadInv
  <1>2. Inv'
    BY InvStep DEF RoadInv, RoadNext
  <1>3. PICK c \in PageConns : ConnectWS(c)
    BY DEF Retry
  <1>4. /\ ConnInv' /\ conn' \in PageConns \cup {NoClient} /\ read' \in Nat /\ read' = 0
        /\ \A x : \A d \in PageConns, m \in Nat : At(d, m, x) => d # conn'
        /\ UNCHANGED <<rc, it, active, gone, got>>
        /\ \A d \in Clients : ep[d] # "new" => ep'[d] # "new"
    BY <1>1, <1>3, Connects DEF ConnectWS
  <1>5. SentInv' /\ MadeInv' /\ \A d, m, x : At(d, m, x)' <=> At(d, m, x)
    BY <1>1, <1>4, PageQuiet
  <1>6. PageTypes'
    BY <1>1, <1>4 DEF PageTypes
  <1>7. ShownInv'
    <2>1. \A x \in Points : FromHistory(x)' = FromHistory(x) /\ shown'[x] = shown[x]
      BY <1>1 DEF FromHistory
    <2> QED BY <1>1, <1>4, <1>5, <2>1 DEF ShownInv, Points
  <1> QED BY <1>2, <1>4, <1>5, <1>6, <1>7 DEF RoadInv

LEMMA RoadStep == RoadInv /\ [RoadNext]_roadVars => RoadInv'
  <1>1. ASSUME RoadInv, UNCHANGED roadVars PROVE RoadInv'
    <2>1. Inv'
      BY <1>1, InvStep DEF RoadInv
    <2>2. SentInv' /\ MadeInv' /\ \A c, m, x : At(c, m, x)' <=> At(c, m, x)
      BY <1>1, PageQuiet DEF roadVars, vars, connVars
    <2>3. PageTypes' /\ ConnInv' /\ ShownInv'
      BY <1>1, <2>2 DEF RoadInv, PageTypes, ConnInv, ShownInv, FromHistory, Points, roadVars, vars, pageVars, connVars
    <2> QED BY <2>1, <2>2, <2>3 DEF RoadInv
  <1> QED BY <1>1, StoreKeeps, ServeStep, LoadedStep, MessageStep, CloseStep, RetryStep DEF RoadNext

LEMMA RoadInitInv == RoadInit => RoadInv
  <1> SUFFICES ASSUME RoadInit PROVE RoadInv
    OBVIOUS
  <1>1. Inv
    BY InitInv DEF RoadInit
  <1>2. /\ Init /\ page = "load" /\ reply = {} /\ conn = NoClient /\ read = 0 /\ stirred = {}
        /\ shown = [x \in Points |-> 0]
    BY DEF RoadInit
  <1>3. \A c \in PageConns : Len(got[c]) = 0
    BY <1>2, RoadUiAssumption DEF Init
  <1>4. PageTypes
    BY <1>2 DEF PageTypes
  <1>5. MadeInv /\ ConnInv
    BY <1>2, RoadUiAssumption DEF MadeInv, ConnInv, Init
  <1>6. SentInv
    BY <1>2, <1>3 DEF SentInv, Sent, At, Init, NotSending
  <1>7. ShownInv
    BY <1>2 DEF ShownInv, FromHistory
  <1> QED BY <1>1, <1>4, <1>5, <1>6, <1>7 DEF RoadInv

-----------------------------------------------------------------------------
(* What the page shows.                                                    *)

\* Every reachable state satisfies the invariant.
THEOREM RoadInvariance == RoadSpec => []RoadInv
  BY RoadInitInv, RoadStep, PTL DEF RoadSpec

\* The page misses no point of a batch it is due while it stays connected, and
\* a point comes at most once from its history and once over its WebSockets,
\* unless the set of connections was changed under the broadcast.
THEOREM NothingMissed == RoadSpec => []ShownSinceOpen
  <1>1. RoadInv => ShownSinceOpen
    <2> SUFFICES ASSUME RoadInv PROVE ShownSinceOpen
      OBVIOUS
    <2>1. Inv /\ PageTypes /\ ConnInv /\ ShownInv
      BY DEF RoadInv
    <2>2. ASSUME NEW r \in Requests, <<conn, r>> \in due, rc[r] = "ok", NEW x \in Records(r)
          PROVE  shown[x] > 0 \/ x \in Unread
      <3>1. conn \in Clients /\ Seen(got[conn], r, BatchLen)
        BY <2>1, <2>2 DEF Inv, ServedInv, TypeOK
      <3>2. conn # NoClient /\ conn \in PageConns /\ x \in Points
        BY <2>1, <3>1, StorePostAssumption DEF PageTypes, Records, Points
      <3>3. PICK k \in 1 .. BatchLen : x = <<r, k>>
        BY <2>2 DEF Records
      <3>4. got[conn] \in Seq(Points) /\ Len(got[conn]) \in Nat
        BY <2>1, <3>1 DEF Inv, TypeOK, Points
      <3>5. PICK m \in 1 .. Len(got[conn]) : got[conn][m] = x
        <4>1. PICK m \in DOMAIN got[conn] : got[conn][m][1] = r /\ got[conn][m][2] = k
          BY <3>1 DEF Seen
        <4>2. m \in 1 .. Len(got[conn]) /\ got[conn][m] \in Points
          BY <3>4, <4>1, ElementOfSeq
        <4> QED BY <3>3, <4>1, <4>2 DEF Points
      <3>6. CASE m <= read
        <4>1. m \in 1 .. read /\ At(conn, m, x)
          BY <2>1, <3>2, <3>4, <3>5, <3>6 DEF At, PageTypes
        <4> QED BY <2>1, <3>2, <4>1 DEF ShownInv
      <3>7. CASE ~(m <= read)
        <4>1. m \in read + 1 .. Len(got[conn])
          BY <2>1, <3>4, <3>7 DEF PageTypes
        <4> QED BY <3>5, <4>1 DEF Unread
      <3> QED BY <3>6, <3>7
    <2>3. ASSUME NEW r \in Requests \ stirred, NEW x \in Records(r)
          PROVE  shown[x] <= IF x \in reply THEN 2 ELSE 1
      <3>1. x \in Points /\ x[1] \notin stirred
        BY <2>3 DEF Records, Points
      <3>2. shown[x] <= FromHistory(x) + 1
        BY <2>1, <3>1 DEF ShownInv
      <3> QED BY <3>2 DEF FromHistory
    <2> QED BY <2>2, <2>3 DEF ShownSinceOpen
  <1> QED BY <1>1, RoadInvariance, PTL
=============================================================================
