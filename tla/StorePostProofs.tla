-------------------------- MODULE StorePostProofs --------------------------
(***************************************************************************)
(* Proofs about StorePost: types, what the counter and the subscribers see *)
(* of the table, and that a subscriber that stays is served.               *)
(***************************************************************************)
EXTENDS StorePost, FiniteSetTheorems, TLAPS

\* A batch is in the table when its broadcast begins, and not before its commit.
Whole ==
  \A r \in Requests :
    /\ rc[r] \in {"idle", "insert", "commit"} => Records(r) \cap rows = {}
    /\ rc[r] \in {"send", "ok"} => Records(r) \subseteq rows

\* A record that is being sent is counted, and what was counted or received is
\* in the table.
CountedInv ==
  /\ counted \subseteq rows
  /\ \A r \in Requests : rc[r] = "send" => it[r].k \in 1 .. BatchLen /\ <<r, it[r].k>> \in counted
  /\ \A c \in Clients : Range(got[c]) \subseteq rows
  /\ crashes = 0 => \A c \in Clients : Range(got[c]) \subseteq counted

\* How many records of request r client c has received when it is served.
Progress(c, r) ==
  IF c \in it[r].ahead \cup {it[r].target} THEN it[r].k - 1 ELSE it[r].k

\* Only connections that are gone are dropped, and a client that is due stays
\* in the set and has received what the broadcasts of its batch have come to.
ServedInv ==
  /\ \A r \in Requests : rc[r] = "send" => it[r].dead \subseteq gone /\ it[r].target \notin it[r].ahead
  /\ \A p \in due :
       /\ p[1] \in active \ gone
       /\ rc[p[2]] \in {"send", "ok", "error"}
       /\ rc[p[2]] = "send" => ~it[p[2]].moved /\ Seen(got[p[1]], p[2], Progress(p[1], p[2]))
       /\ rc[p[2]] = "ok" => Seen(got[p[1]], p[2], BatchLen)

Inv == TypeOK /\ Whole /\ CountedInv /\ ServedInv

-----------------------------------------------------------------------------
(* What the helpers of the model do.                                       *)

Stages == {"idle", "insert", "commit", "send", "ok", "error"}

Loops == [k : 0 .. BatchLen, target : Clients \cup {NoClient}, ahead : SUBSET Clients,
          size : Nat, dead : SUBSET Clients, moved : BOOLEAN]

\* A set of connections has a size.
LEMMA SizeType ==
  ASSUME NEW S \in SUBSET Clients
  PROVE  Cardinality(S) \in Nat
  BY StorePostAssumption, FS_Subset, FS_CardinalityType

\* A request outside of its broadcasts has the locals of none.
LEMMA NotSendingType == NotSending \in Loops /\ NotSending.target \notin Clients
  BY StorePostAssumption DEF NotSending, Loops

\* The ways in which StartBroadcast and Advance go on.
RunsThrough(r, k, act, loops) ==
  /\ k > BatchLen \/ act = {}
  /\ it' = [loops EXCEPT ![r] = NotSending]
  /\ rc' = [rc EXCEPT ![r] = "ok"]

FirstSend(r, k, act, loops, c, n) ==
  /\ k \in 1 .. BatchLen /\ <<r, k>> \in counted'
  /\ it' = [loops EXCEPT ![r] = [k |-> k, target |-> c, ahead |-> act \ {c},
                                 size |-> n, dead |-> {}, moved |-> FALSE]]
  /\ rc' = [rc EXCEPT ![r] = "send"]

Breaks(r) ==
  /\ rc' = [rc EXCEPT ![r] = "error"]
  /\ it' = [it EXCEPT ![r] = NotSending]
  /\ due' = due

NextSend(r, d, S, c) ==
  /\ rc' = rc /\ due' = due
  /\ ~it[r].moved => S = it[r].ahead \cap active
  /\ it' = [it EXCEPT ![r] = [it[r] EXCEPT !.target = c, !.ahead = S \ {c},
                                           !.dead = d, !.moved = FALSE]]

Ends(r, d) ==
  /\ ~it[r].moved => it[r].ahead \cap active = {}
  /\ active' = active \ d
  /\ due' \subseteq due
  /\ \E loops \in {it, Moved} :
       /\ StartBroadcast(r, it[r].k + 1, active', loops)
       /\ \A p \in due' : loops = it \/ p[2] = r \/ rc[p[2]] # "send"

\* Locals that differ from those of now in what is moved at most.
Alike(loops) ==
  /\ loops \in [Requests -> Loops]
  /\ \A q \in Requests : /\ loops[q].k = it[q].k /\ loops[q].target = it[q].target
                         /\ loops[q].ahead = it[q].ahead /\ loops[q].dead = it[q].dead

Counts(r) == counted \subseteq counted' /\ counted' \subseteq counted \cup Records(r)

\* The table may be rebuilt under the loops.
LEMMA LoopsAlike == TypeOK => Alike(it) /\ Alike(Moved)
  <1> SUFFICES ASSUME TypeOK PROVE Alike(it) /\ Alike(Moved)
    OBVIOUS
  <1>1. it \in [Requests -> Loops]
    BY DEF TypeOK, Loops
  <1>2. ASSUME NEW q \in Requests
        PROVE  /\ Moved[q] \in Loops /\ Moved[q].k = it[q].k /\ Moved[q].target = it[q].target
               /\ Moved[q].ahead = it[q].ahead /\ Moved[q].dead = it[q].dead
    <2>1. it[q] \in Loops /\ (rc[q] = "send") \in BOOLEAN
      BY <1>1
    <2>2. Moved[q] = [it[q] EXCEPT !.moved = (rc[q] = "send")]
      BY DEF Moved
    <2> QED BY <2>1, <2>2 DEF Loops
  <1>3. Moved = [q \in Requests |-> Moved[q]]
    BY DEF Moved
  <1>4. Moved \in [Requests -> Loops]
    BY <1>2, <1>3
  <1> QED BY <1>1, <1>2, <1>4 DEF Alike

\* A broadcast that begins counts its record, or the loop runs through.
LEMMA Starts ==
  ASSUME NEW r \in Requests, NEW k \in 1 .. BatchLen + 1, NEW act \in SUBSET Clients, NEW loops,
         StartBroadcast(r, k, act, loops)
  PROVE  /\ Counts(r)
         /\ \/ RunsThrough(r, k, act, loops)
            \/ \E c \in act : \E n \in Nat : FirstSend(r, k, act, loops, c, n)
  <1>1. CASE /\ k > BatchLen \/ act = {}
             /\ counted' = counted \cup {<<r, j>> : j \in k .. BatchLen}
             /\ it' = [loops EXCEPT ![r] = NotSending]
             /\ rc' = [rc EXCEPT ![r] = "ok"]
    BY <1>1, StorePostAssumption DEF Records, RunsThrough, Counts
  <1>2. CASE /\ k <= BatchLen
             /\ counted' = counted \cup {<<r, k>>}
             /\ \E c \in act :
                  it' = [loops EXCEPT ![r] = [k |-> k, target |-> c, ahead |-> act \ {c},
                                              size |-> Cardinality(act), dead |-> {}, moved |-> FALSE]]
             /\ rc' = [rc EXCEPT ![r] = "send"]
    <2>1. k \in 1 .. BatchLen /\ <<r, k>> \in Records(r)
      BY <1>2, StorePostAssumption DEF Records
    <2>2. Counts(r)
      BY <1>2, <2>1 DEF Counts
    <2>3. \E c \in act : FirstSend(r, k, act, loops, c, Cardinality(act))
      BY <1>2, <2>1 DEF FirstSend
    <2> QED BY <2>2, <2>3, SizeType
  <1> QED BY <1>1, <1>2 DEF StartBroadcast

\* After a send: the error, the next connection of the set as it is now, or the
\* end of this broadcast.
LEMMA Advances ==
  ASSUME TypeOK, NEW r \in Requests, NEW d \in SUBSET Clients, it[r].k >= 1, Advance(r, d)
  PROVE  /\ Counts(r)
         /\ active \ d \subseteq active' /\ active' \subseteq active /\ due' \subseteq due
         /\ Breaks(r) \/ Ends(r, d) \/ \E S \in SUBSET active : \E c \in S : NextSend(r, d, S, c)
  <1>1. CASE /\ rc' = [rc EXCEPT ![r] = "error"]
             /\ it' = [it EXCEPT ![r] = NotSending]
             /\ UNCHANGED <<counted, active, due>>
    BY <1>1 DEF Breaks, Counts
  <1>2. CASE NextConnection(r, d)
    <2>1. PICK S \in Ahead(it[r]) : \E c \in S :
            it' = [it EXCEPT ![r] = [it[r] EXCEPT !.target = c, !.ahead = S \ {c},
                                                  !.dead = d, !.moved = FALSE]]
      BY <1>2 DEF NextConnection
    <2>2. S \in SUBSET active /\ (~it[r].moved => S = it[r].ahead \cap active)
      BY DEF Ahead
    <2>3. UNCHANGED <<rc, counted, active, due>>
      BY <1>2 DEF NextConnection
    <2>4. \E c \in S : NextSend(r, d, S, c)
      BY <2>1, <2>2, <2>3 DEF NextSend
    <2> QED BY <2>2, <2>3, <2>4 DEF Counts
  <1>3. CASE {} \in Ahead(it[r]) /\ EndBroadcast(r, d)
    <2>1. /\ ~it[r].moved => it[r].ahead \cap active = {}
          /\ active' = active \ d
      BY <1>3 DEF Ahead, EndBroadcast
    <2>2. PICK loops \in {it, Moved} :
            /\ StartBroadcast(r, it[r].k + 1, active', loops)
            /\ due' \subseteq due
            /\ \A p \in due' : loops = it \/ p[2] = r \/ rc[p[2]] # "send"
      BY <1>3 DEF EndBroadcast
    <2>3. it[r].k + 1 \in 1 .. BatchLen + 1 /\ active' \in SUBSET Clients
      BY <2>1, StorePostAssumption DEF TypeOK
    <2>4. Counts(r)
      BY <2>2, <2>3, Starts
    <2> QED BY <2>1, <2>2, <2>4 DEF Ends
  <1> QED BY <1>1, <1>2, <1>3 DEF Advance

-----------------------------------------------------------------------------
(* Types.                                                                  *)

\* What a step of the broadcast has to leave typed.
BroadcastTypes ==
  /\ rc \in [Requests -> Stages] /\ it \in [Requests -> Loops]
  /\ \A r \in Requests : rc[r] = "send" <=> it[r].target \in Clients
  /\ counted \subseteq Requests \X (1 .. BatchLen)
  /\ active \subseteq Clients

\* A request that gets a point and locals that fit together.
LEMMA SetTyped ==
  ASSUME TypeOK, NEW r \in Requests, NEW p \in Stages, NEW x \in Loops, NEW loops, Alike(loops),
         p = "send" <=> x.target \in Clients,
         rc' = [rc EXCEPT ![r] = p], it' = [loops EXCEPT ![r] = x],
         counted' \subseteq Requests \X (1 .. BatchLen), active' \subseteq Clients
  PROVE  BroadcastTypes'
  <1>1. rc' \in [Requests -> Stages] /\ it' \in [Requests -> Loops]
    BY DEF TypeOK, Stages, Alike
  <1>2. ASSUME NEW q \in Requests PROVE rc'[q] = "send" <=> it'[q].target \in Clients
    BY DEF TypeOK, Alike
  <1> QED BY <1>1, <1>2 DEF BroadcastTypes

\* The records of a request are pairs.
LEMMA CountsTyped ==
  ASSUME TypeOK, NEW r \in Requests, Counts(r)
  PROVE  counted' \subseteq Requests \X (1 .. BatchLen)
  BY DEF TypeOK, Counts, Records

LEMMA StartsTyped ==
  ASSUME TypeOK, NEW r \in Requests, NEW k \in 1 .. BatchLen + 1, NEW act \in SUBSET Clients,
         NEW loops, Alike(loops), StartBroadcast(r, k, act, loops), active' \subseteq Clients
  PROVE  BroadcastTypes'
  <1>1. counted' \subseteq Requests \X (1 .. BatchLen)
    BY Starts, CountsTyped
  <1>2. CASE RunsThrough(r, k, act, loops)
    BY <1>1, <1>2, NotSendingType, SetTyped DEF RunsThrough, Stages
  <1>3. ASSUME NEW c \in act, NEW n \in Nat, FirstSend(r, k, act, loops, c, n) PROVE BroadcastTypes'
    <2> DEFINE x == [k |-> k, target |-> c, ahead |-> act \ {c},
                     size |-> n, dead |-> {}, moved |-> FALSE]
    <2>1. x \in Loops /\ x.target \in Clients
      BY <1>3, StorePostAssumption DEF FirstSend, Loops
    <2>2. rc' = [rc EXCEPT ![r] = "send"] /\ it' = [loops EXCEPT ![r] = x]
      BY <1>3 DEF FirstSend
    <2> HIDE DEF x
    <2> QED BY <1>1, <2>1, <2>2, SetTyped DEF Stages
  <1> QED BY <1>2, <1>3, Starts

LEMMA AdvancesTyped ==
  ASSUME TypeOK, NEW r \in Requests, NEW d \in SUBSET Clients, rc[r] = "send", it[r].k >= 1,
         Advance(r, d)
  PROVE  BroadcastTypes'
  <1>1. counted' \subseteq Requests \X (1 .. BatchLen) /\ active' \subseteq Clients
    BY Advances, CountsTyped DEF TypeOK
  <1>2. CASE Breaks(r)
    BY <1>1, <1>2, NotSendingType, LoopsAlike, SetTyped DEF Breaks, Stages
  <1>3. ASSUME NEW S \in SUBSET active, NEW c \in S, NextSend(r, d, S, c) PROVE BroadcastTypes'
    <2> DEFINE x == [it[r] EXCEPT !.target = c, !.ahead = S \ {c}, !.dead = d, !.moved = FALSE]
    <2>1. it[r] \in Loops /\ c \in Clients /\ S \ {c} \in SUBSET Clients
      BY DEF TypeOK, Loops
    <2>2. x \in Loops /\ x.target \in Clients
      BY <2>1 DEF Loops
    <2>3. rc' = [rc EXCEPT ![r] = "send"] /\ it' = [it EXCEPT ![r] = x]
      BY <1>3 DEF NextSend, TypeOK
    <2> HIDE DEF x
    <2> QED BY <1>1, <2>2, <2>3, LoopsAlike, SetTyped DEF Stages
  <1>4. CASE Ends(r, d)
    <2>1. it[r].k + 1 \in 1 .. BatchLen + 1 /\ active' \in SUBSET Clients
      BY <1>1, StorePostAssumption DEF TypeOK
    <2>2. PICK loops \in {it, Moved} : StartBroadcast(r, it[r].k + 1, active', loops)
      BY <1>4 DEF Ends
    <2>3. Alike(loops)
      BY LoopsAlike
    <2> QED BY <1>1, <2>1, <2>2, <2>3, StartsTyped
  <1> QED BY <1>2, <1>3, <1>4, Advances

\* Every action keeps the types.
LEMMA TypeStep == Inv /\ [Next]_vars => TypeOK'
  <1> SUFFICES ASSUME Inv, [Next]_vars PROVE TypeOK'
    OBVIOUS
  <1>1. TypeOK
    BY DEF Inv
  <1>2. ASSUME NEW r \in Requests, rc[r] = "send"
        PROVE  it[r].k >= 1 /\ it[r].k \in 1 .. BatchLen /\ it[r].target \in Clients /\ it[r].dead \in SUBSET Clients
    <2>1. it[r] \in Loops
      BY <1>1 DEF TypeOK, Loops
    <2>2. it[r].k \in 1 .. BatchLen
      BY <1>2 DEF Inv, CountedInv
    <2>3. it[r].target \in Clients
      BY <1>1, <1>2 DEF TypeOK
    <2>4. it[r].dead \in SUBSET Clients
      BY <2>1 DEF Loops
    <2> QED BY <2>2, <2>3, <2>4, StorePostAssumption
  <1>3. CASE UNCHANGED vars
    BY <1>1, <1>3 DEF vars, connVars, TypeOK
  <1>4. ASSUME NEW r \in Requests, Post(r) \/ Inserted(r) \/ DatabaseFails(r) PROVE TypeOK'
    <2>1. UNCHANGED <<it, counted, active, connVars, got, due, crashes>>
      BY <1>4 DEF Post, Inserted, DatabaseFails
    <2>2. rows' \subseteq Requests \X (1 .. BatchLen)
      BY <1>1, <1>4 DEF Post, Inserted, DatabaseFails, TypeOK, Records
    <2>3. \E p \in Stages \ {"send"} : rc' = [rc EXCEPT ![r] = p] /\ rc[r] # "send"
      BY <1>4 DEF Post, Inserted, DatabaseFails, Stages
    <2>4. rc' \in [Requests -> Stages] /\ \A q \in Requests : rc'[q] = "send" <=> rc[q] = "send"
      BY <1>1, <2>3 DEF TypeOK, Stages
    <2> QED BY <1>1, <2>1, <2>2, <2>4 DEF TypeOK, connVars, Stages
  <1>5. ASSUME NEW r \in Requests, Commit(r) PROVE TypeOK'
    <2>1. UNCHANGED <<active, connVars, got, crashes>>
      BY <1>5 DEF Commit
    <2>2. rows' \subseteq Requests \X (1 .. BatchLen) /\ due' \subseteq Clients \X Requests
      BY <1>1, <1>5 DEF Commit, TypeOK, Records
    <2>3. BroadcastTypes'
      <3>1. 1 \in 1 .. BatchLen + 1 /\ active \in SUBSET Clients /\ active' \subseteq Clients
        BY <1>1, <2>1, StorePostAssumption DEF TypeOK
      <3> QED BY <1>1, <1>5, <3>1, LoopsAlike, StartsTyped DEF Commit
    <2> QED BY <1>1, <2>1, <2>2, <2>3 DEF TypeOK, BroadcastTypes, connVars, Stages, Loops
  <1>6. ASSUME NEW r \in Requests, Delivered(r) PROVE TypeOK'
    <2>1. rc[r] = "send" /\ Advance(r, it[r].dead) /\ UNCHANGED <<rows, connVars, crashes>>
      BY <1>6 DEF Delivered
    <2>2. BroadcastTypes' /\ due' \subseteq due
      BY <1>1, <1>2, <2>1, Advances, AdvancesTyped
    <2>3. got' \in [Clients -> Seq(Requests \X (1 .. BatchLen))]
      BY <1>1, <1>2, <1>6, <2>1 DEF Delivered, TypeOK
    <2> QED BY <1>1, <2>1, <2>2, <2>3 DEF TypeOK, BroadcastTypes, connVars, Stages, Loops
  <1>7. ASSUME NEW r \in Requests, NotDelivered(r) PROVE TypeOK'
    <2>1. /\ rc[r] = "send"
          /\ Advance(r, it[r].dead) \/ Advance(r, it[r].dead \cup {it[r].target})
          /\ UNCHANGED <<rows, connVars, got, crashes>>
      BY <1>7 DEF NotDelivered
    <2>2. BroadcastTypes' /\ due' \subseteq due
      <3>1. it[r].dead \in SUBSET Clients /\ it[r].dead \cup {it[r].target} \in SUBSET Clients
        BY <1>2, <2>1
      <3> QED BY <1>1, <1>2, <2>1, <3>1, Advances, AdvancesTyped
    <2> QED BY <1>1, <2>1, <2>2 DEF TypeOK, BroadcastTypes, connVars, Stages, Loops
  <1>8. ASSUME NEW c \in Clients, Connect(c) \/ Leave(c) \/ Disconnected(c) \/ EndpointRaises(c)
        PROVE  TypeOK'
    BY <1>1, <1>8 DEF Connect, Leave, Disconnected, EndpointRaises, TypeOK, connVars
  <1>9. ASSUME NEW c \in Clients, Register(c) PROVE TypeOK'
    <2>1. it' \in [Requests -> Loops] /\ \A r \in Requests : it'[r].target = it[r].target
      BY <1>1, <1>9, LoopsAlike DEF Register, Alike
    <2> QED BY <1>1, <1>9, <2>1 DEF Register, TypeOK, Loops
  <1>10. CASE Crash
    <2>1. it' \in [Requests -> Loops] /\ \A r \in Requests : it'[r].target \notin Clients
      BY <1>10, NotSendingType DEF Crash
    <2>2. rc' \in [Requests -> Stages] /\ \A r \in Requests : rc'[r] # "send"
      BY <1>1, <1>10 DEF Crash, TypeOK, Stages
    <2>3. /\ ep' \in [Clients -> {"new", "accepting", "receiving", "done"}]
          /\ gone' \subseteq Clients /\ crashes' \in 0 .. MaxCrashes
      BY <1>1, <1>10, StorePostAssumption DEF Crash, TypeOK
    <2> QED BY <1>1, <1>10, <2>1, <2>2, <2>3 DEF Crash, TypeOK, Loops, Stages
  <1> QED
    BY <1>3, <1>4, <1>5, <1>6, <1>7, <1>8, <1>9, <1>10 DEF Next, HandlerStep

-----------------------------------------------------------------------------
(* The table, the counter and what was received.                           *)

\* A broadcast is a matter of its own request.
LEMMA StartsLocal ==
  ASSUME TypeOK, NEW r \in Requests, NEW k \in 1 .. BatchLen + 1, NEW act \in SUBSET Clients,
         NEW loops, Alike(loops), StartBroadcast(r, k, act, loops)
  PROVE  /\ \A q \in Requests \ {r} : rc'[q] = rc[q] /\ it'[q] = loops[q]
         /\ \/ rc'[r] = "ok"
            \/ rc'[r] = "send" /\ it'[r].k \in 1 .. BatchLen /\ <<r, it'[r].k>> \in counted'
  <1>1. CASE RunsThrough(r, k, act, loops)
    BY <1>1 DEF RunsThrough, TypeOK, Alike
  <1>2. ASSUME NEW c \in act, NEW n \in Nat, FirstSend(r, k, act, loops, c, n)
        PROVE  /\ \A q \in Requests \ {r} : rc'[q] = rc[q] /\ it'[q] = loops[q]
               /\ rc'[r] = "send" /\ it'[r].k \in 1 .. BatchLen /\ <<r, it'[r].k>> \in counted'
    <2>1. it'[r].k = k
      BY <1>2 DEF FirstSend, Alike
    <2> QED BY <1>2, <2>1 DEF FirstSend, TypeOK, Alike
  <1> QED BY <1>1, <1>2, Starts

\* A commit leaves the other requests alone.
LEMMA CommitLocal ==
  ASSUME TypeOK, NEW r \in Requests, Commit(r)
  PROVE  \A q \in Requests \ {r} : rc'[q] = rc[q] /\ it'[q] = it[q]
  <1>1. 1 \in 1 .. BatchLen + 1 /\ active \in SUBSET Clients
    BY StorePostAssumption DEF TypeOK
  <1> QED BY <1>1, LoopsAlike, StartsLocal DEF Commit

\* What a step of request r leaves of the others: they are where they were, and
\* their iteration is not moved as long as anybody is due.
OthersKept(r) ==
  /\ \A q \in Requests \ {r} :
       /\ rc'[q] = rc[q] /\ it'[q].k = it[q].k /\ it'[q].target = it[q].target
       /\ it'[q].ahead = it[q].ahead /\ it'[q].dead = it[q].dead
  /\ \A p \in due' : p[2] \in Requests \ {r} /\ rc[p[2]] = "send" => it'[p[2]] = it[p[2]]

LEMMA AdvancesLocal ==
  ASSUME Inv, NEW r \in Requests, NEW d \in SUBSET Clients, rc[r] = "send", Advance(r, d)
  PROVE  /\ OthersKept(r) /\ due' \subseteq due
         /\ \/ rc'[r] \in {"ok", "error"}
            \/ rc'[r] = "send" /\ it'[r].k \in 1 .. BatchLen /\ <<r, it'[r].k>> \in counted'
  <1>1. TypeOK /\ it[r].k \in 1 .. BatchLen /\ <<r, it[r].k>> \in counted
    BY DEF Inv, CountedInv
  <1>2. it[r].k >= 1 /\ it[r].k + 1 \in 1 .. BatchLen + 1
    BY <1>1, StorePostAssumption
  <1>3. ASSUME \A q \in Requests \ {r} : rc'[q] = rc[q] /\ it'[q] = it[q]
        PROVE  OthersKept(r)
    BY <1>3 DEF OthersKept
  <1>4. due' \subseteq due
    BY <1>1, <1>2, Advances
  <1>5. CASE Breaks(r)
    BY <1>1, <1>3, <1>4, <1>5 DEF Breaks, TypeOK
  <1>6. ASSUME NEW S \in SUBSET active, NEW c \in S, NextSend(r, d, S, c)
        PROVE  /\ OthersKept(r)
               /\ rc'[r] = "send" /\ it'[r].k \in 1 .. BatchLen /\ <<r, it'[r].k>> \in counted'
    <2>1. it'[r].k = it[r].k
      BY <1>1, <1>6 DEF NextSend, TypeOK
    <2>2. <<r, it[r].k>> \in counted'
      BY <1>1, <1>2, Advances DEF Counts
    <2> QED BY <1>1, <1>3, <1>6, <2>1, <2>2 DEF NextSend, TypeOK
  <1>7. CASE Ends(r, d)
    <2>1. active' \in SUBSET Clients
      BY <1>1, <1>7 DEF Ends, TypeOK
    <2>2. PICK loops \in {it, Moved} :
            /\ StartBroadcast(r, it[r].k + 1, active', loops)
            /\ \A p \in due' : loops = it \/ p[2] = r \/ rc[p[2]] # "send"
      BY <1>7 DEF Ends
    <2>3. Alike(loops)
      BY <1>1, LoopsAlike
    <2>4. /\ \A q \in Requests \ {r} : rc'[q] = rc[q] /\ it'[q] = loops[q]
          /\ \/ rc'[r] = "ok"
             \/ rc'[r] = "send" /\ it'[r].k \in 1 .. BatchLen /\ <<r, it'[r].k>> \in counted'
      BY <1>1, <1>2, <2>1, <2>2, <2>3, StartsLocal
    <2>5. OthersKept(r)
      BY <2>2, <2>3, <2>4 DEF OthersKept, Alike
    <2> QED BY <1>4, <2>4, <2>5
  <1> QED BY <1>1, <1>2, <1>4, <1>5, <1>6, <1>7, Advances

\* What both kinds of ends of a send have in common.
LEMMA SendReturns ==
  ASSUME Inv, NEW r \in Requests, Delivered(r) \/ NotDelivered(r)
  PROVE  /\ rc[r] = "send" /\ UNCHANGED <<rows, connVars, crashes>>
         /\ it[r].target \in Clients /\ it[r].k \in 1 .. BatchLen /\ <<r, it[r].k>> \in counted
         /\ \E d \in {it[r].dead, it[r].dead \cup (gone \cap {it[r].target})} :
              d \in SUBSET Clients /\ Advance(r, d)
  <1>1. rc[r] = "send" /\ UNCHANGED <<rows, connVars, crashes>>
    BY DEF Delivered, NotDelivered
  <1>2. it[r].k \in 1 .. BatchLen /\ <<r, it[r].k>> \in counted
    BY <1>1 DEF Inv, CountedInv
  <1>3. it[r].target \in Clients /\ it[r].dead \in SUBSET Clients
    <2>1. TypeOK
      BY DEF Inv
    <2> QED BY <1>1, <2>1 DEF TypeOK
  <1>4. \E d \in {it[r].dead, it[r].dead \cup (gone \cap {it[r].target})} : Advance(r, d)
    <2>1. CASE Delivered(r)
      BY <2>1 DEF Delivered
    <2>2. CASE NotDelivered(r)
      <3>1. gone \cap {it[r].target} = {it[r].target}
        BY <2>2 DEF NotDelivered
      <3> QED BY <2>2, <3>1 DEF NotDelivered
    <2> QED BY <2>1, <2>2
  <1> QED BY <1>1, <1>2, <1>3, <1>4

LEMMA WholeStep == Inv /\ [Next]_vars => Whole'
  <1> SUFFICES ASSUME Inv, [Next]_vars, NEW q \in Requests
               PROVE  /\ rc'[q] \in {"idle", "insert", "commit"} => Records(q) \cap rows' = {}
                      /\ rc'[q] \in {"send", "ok"} => Records(q) \subseteq rows'
    BY DEF Whole
  <1>1. /\ TypeOK
        /\ rc[q] \in {"idle", "insert", "commit"} => Records(q) \cap rows = {}
        /\ rc[q] \in {"send", "ok"} => Records(q) \subseteq rows
    BY DEF Inv, Whole
  <1>2. CASE rows' = rows /\ (rc'[q] = rc[q] \/ rc'[q] = "error")
    BY <1>1, <1>2
  <1>3. ASSUME NEW r \in Requests, rows' = rows \cup Records(r), rc'[q] = rc[q], q # r
        PROVE  /\ rc'[q] \in {"idle", "insert", "commit"} => Records(q) \cap rows' = {}
               /\ rc'[q] \in {"send", "ok"} => Records(q) \subseteq rows'
    <2>1. Records(r) \cap Records(q) = {}
      BY <1>3 DEF Records
    <2> QED BY <1>1, <1>3, <2>1
  <1>4. ASSUME NEW r \in Requests, Post(r) \/ Inserted(r)
        PROVE  /\ rc'[q] \in {"idle", "insert", "commit"} => Records(q) \cap rows' = {}
               /\ rc'[q] \in {"send", "ok"} => Records(q) \subseteq rows'
    BY <1>1, <1>4 DEF Post, Inserted, TypeOK
  <1>5. ASSUME NEW r \in Requests, DatabaseFails(r)
        PROVE  /\ rc'[q] \in {"idle", "insert", "commit"} => Records(q) \cap rows' = {}
               /\ rc'[q] \in {"send", "ok"} => Records(q) \subseteq rows'
    <2>1. rc' = [rc EXCEPT ![r] = "error"] /\ (rows' = rows \/ rows' = rows \cup Records(r))
      BY <1>5 DEF DatabaseFails
    <2> QED BY <1>1, <1>3, <2>1 DEF TypeOK
  <1>6. ASSUME NEW r \in Requests, Commit(r)
        PROVE  /\ rc'[q] \in {"idle", "insert", "commit"} => Records(q) \cap rows' = {}
               /\ rc'[q] \in {"send", "ok"} => Records(q) \subseteq rows'
    <2>1. rows' = rows \cup Records(r) /\ 1 \in 1 .. BatchLen + 1 /\ active \in SUBSET Clients
      BY <1>1, <1>6, StorePostAssumption DEF Commit, TypeOK
    <2>2. rc'[r] \in {"ok", "send"} /\ (q # r => rc'[q] = rc[q])
      BY <1>1, <1>6, <2>1, LoopsAlike, StartsLocal DEF Commit
    <2> QED BY <1>1, <1>3, <2>1, <2>2
  <1>7. ASSUME NEW r \in Requests, Delivered(r) \/ NotDelivered(r)
        PROVE  /\ rc'[q] \in {"idle", "insert", "commit"} => Records(q) \cap rows' = {}
               /\ rc'[q] \in {"send", "ok"} => Records(q) \subseteq rows'
    <2>1. rows' = rows /\ rc[r] = "send" /\ \E d \in SUBSET Clients : Advance(r, d)
      BY <1>7, SendReturns
    <2>2. rc'[r] \in {"ok", "send", "error"} /\ (q # r => rc'[q] = rc[q])
      BY <2>1, AdvancesLocal DEF OthersKept
    <2> QED BY <1>1, <2>1, <2>2
  <1>8. CASE UNCHANGED vars
    BY <1>2, <1>8 DEF vars
  <1>9. ASSUME NEW c \in Clients, Connect(c) \/ Register(c) \/ Leave(c) \/ Disconnected(c) \/ EndpointRaises(c)
        PROVE  rows' = rows /\ rc' = rc
    BY <1>9 DEF Connect, Register, Leave, Disconnected, EndpointRaises
  <1>10. CASE Crash
    BY <1>2, <1>10 DEF Crash
  <1> QED BY <1>2, <1>4, <1>5, <1>6, <1>7, <1>8, <1>9, <1>10 DEF Next, HandlerStep

\* Receiving a record adds it to what was received.
LEMMA Received ==
  ASSUME NEW S, NEW s \in Seq(S), NEW m \in S
  PROVE  Range(Append(s, m)) = Range(s) \cup {m}
  <1>1. /\ DOMAIN Append(s, m) = 1 .. Len(s) + 1 /\ DOMAIN s = 1 .. Len(s) /\ Len(s) \in Nat
        /\ Append(s, m)[Len(s) + 1] = m
        /\ \A j \in 1 .. Len(s) : Append(s, m)[j] = s[j]
    OBVIOUS
  <1> QED BY <1>1 DEF Range

\* What a client has received after a send.
LEMMA Gets ==
  ASSUME Inv, NEW r \in Requests, Delivered(r) \/ NotDelivered(r), NEW c \in Clients
  PROVE  \/ got'[c] = got[c]
         \/ /\ c = it[r].target /\ c \notin gone /\ got'[c] = Append(got[c], <<r, it[r].k>>)
            /\ Range(got'[c]) = Range(got[c]) \cup {<<r, it[r].k>>}
  <1>1. TypeOK /\ it[r].k \in 1 .. BatchLen
    BY SendReturns DEF Inv
  <1>2. CASE Delivered(r)
    <2>1. CASE c = it[r].target
      <3>1. got'[c] = Append(got[c], <<r, it[r].k>>) /\ c \notin gone
        BY <1>1, <1>2, <2>1 DEF Delivered, TypeOK
      <3>2. got[c] \in Seq(Requests \X (1 .. BatchLen)) /\ <<r, it[r].k>> \in Requests \X (1 .. BatchLen)
        BY <1>1 DEF TypeOK
      <3>3. Range(Append(got[c], <<r, it[r].k>>)) = Range(got[c]) \cup {<<r, it[r].k>>}
        BY <3>2, Received
      <3> QED BY <2>1, <3>1, <3>3
    <2>2. CASE c # it[r].target
      BY <1>1, <1>2, <2>2 DEF Delivered, TypeOK
    <2> QED BY <2>1, <2>2
  <1>3. CASE NotDelivered(r)
    BY <1>3 DEF NotDelivered
  <1> QED BY <1>2, <1>3

LEMMA CountedStep == Inv /\ [Next]_vars => CountedInv'
  <1> SUFFICES ASSUME Inv, [Next]_vars PROVE CountedInv'
    OBVIOUS
  <1>1. TypeOK /\ Whole /\ CountedInv
    BY DEF Inv
  <1>2. CASE UNCHANGED vars
    BY <1>1, <1>2 DEF vars, CountedInv
  <1>3. ASSUME NEW r \in Requests, Post(r) \/ Inserted(r) \/ DatabaseFails(r) PROVE CountedInv'
    <2>1. UNCHANGED <<it, counted, got, crashes>> /\ rows \subseteq rows'
      BY <1>3 DEF Post, Inserted, DatabaseFails
    <2>2. \A q \in Requests : rc'[q] = "send" => rc[q] = "send"
      BY <1>1, <1>3 DEF Post, Inserted, DatabaseFails, TypeOK
    <2> QED BY <1>1, <2>1, <2>2 DEF CountedInv
  <1>4. ASSUME NEW r \in Requests, Commit(r) PROVE CountedInv'
    <2>1. /\ rows' = rows \cup Records(r) /\ UNCHANGED <<got, crashes>>
          /\ 1 \in 1 .. BatchLen + 1 /\ active \in SUBSET Clients
      BY <1>1, <1>4, StorePostAssumption DEF Commit, TypeOK
    <2>2. Counts(r)
      BY <1>4, <2>1, Starts DEF Commit
    <2>3. /\ \A q \in Requests \ {r} : rc'[q] = rc[q] /\ it'[q] = it[q]
          /\ \/ rc'[r] = "ok"
             \/ rc'[r] = "send" /\ it'[r].k \in 1 .. BatchLen /\ <<r, it'[r].k>> \in counted'
      <3>1. Alike(it) /\ StartBroadcast(r, 1, active, it)
        BY <1>1, <1>4, LoopsAlike DEF Commit
      <3> QED BY <1>1, <2>1, <3>1, StartsLocal
    <2>4. ASSUME NEW q \in Requests, rc'[q] = "send"
          PROVE  it'[q].k \in 1 .. BatchLen /\ <<q, it'[q].k>> \in counted'
      BY <1>1, <2>2, <2>3, <2>4 DEF CountedInv, Counts
    <2> QED BY <1>1, <2>1, <2>2, <2>4 DEF CountedInv, Counts
  <1>5. ASSUME NEW r \in Requests, Delivered(r) \/ NotDelivered(r) PROVE CountedInv'
    <2>1. PICK d \in SUBSET Clients : rc[r] = "send" /\ Advance(r, d)
      BY <1>5, SendReturns
    <2>2. UNCHANGED <<rows, crashes>> /\ it[r].k \in 1 .. BatchLen /\ <<r, it[r].k>> \in counted
      BY <1>5, SendReturns
    <2>3. Counts(r)
      BY <1>1, <2>1, <2>2, Advances, StorePostAssumption
    <2>4. Records(r) \subseteq rows
      BY <1>1, <2>1 DEF Whole
    <2>5. ASSUME NEW q \in Requests, rc'[q] = "send"
          PROVE  it'[q].k \in 1 .. BatchLen /\ <<q, it'[q].k>> \in counted'
      <3>1. CASE q = r
        BY <2>1, <2>5, <3>1, AdvancesLocal
      <3>2. CASE q # r
        <4>1. rc'[q] = rc[q] /\ it'[q].k = it[q].k
          BY <2>1, <3>2, AdvancesLocal DEF OthersKept
        <4> QED BY <1>1, <2>3, <2>5, <4>1 DEF CountedInv, Counts
      <3> QED BY <3>1, <3>2
    <2>6. ASSUME NEW c \in Clients
          PROVE  Range(got'[c]) \subseteq Range(got[c]) \cup {<<r, it[r].k>>}
      BY <1>5, Gets
    <2> QED BY <1>1, <2>2, <2>3, <2>4, <2>5, <2>6 DEF CountedInv, Counts
  <1>6. ASSUME NEW c \in Clients, Connect(c) \/ Leave(c) \/ Disconnected(c) \/ EndpointRaises(c)
        PROVE  CountedInv'
    BY <1>1, <1>6 DEF Connect, Leave, Disconnected, EndpointRaises, CountedInv
  <1>7. ASSUME NEW c \in Clients, Register(c) PROVE CountedInv'
    <2>1. UNCHANGED <<rc, rows, counted, got, crashes>>
      BY <1>7 DEF Register
    <2>2. \A q \in Requests : it'[q].k = it[q].k
      BY <1>1, <1>7, LoopsAlike DEF Register, Alike
    <2> QED BY <1>1, <2>1, <2>2 DEF CountedInv
  <1>8. CASE Crash
    <2>1. crashes' # 0 /\ counted' = {} /\ UNCHANGED <<rows, got>>
      BY <1>1, <1>8 DEF Crash, TypeOK
    <2>2. \A q \in Requests : rc'[q] # "send"
      BY <1>1, <1>8 DEF Crash, TypeOK
    <2> QED BY <1>1, <2>1, <2>2 DEF CountedInv
  <1> QED BY <1>2, <1>3, <1>4, <1>5, <1>6, <1>7, <1>8 DEF Next, HandlerStep

-----------------------------------------------------------------------------
(* Subscribers.                                                            *)

\* A record that is received is the next of its request, and none of another.
LEMMA SeenNext ==
  ASSUME NEW s \in Seq(Requests \X (1 .. BatchLen)), NEW r \in Requests, NEW k \in 1 .. BatchLen,
         Seen(s, r, k - 1)
  PROVE  Seen(Append(s, <<r, k>>), r, k)
  <1> DEFINE t == Append(s, <<r, k>>)
  <1>1. /\ DOMAIN t = 1 .. Len(s) + 1 /\ DOMAIN s = 1 .. Len(s) /\ Len(s) \in Nat
        /\ t[Len(s) + 1] = <<r, k>>
        /\ \A j \in 1 .. Len(s) : t[j] = s[j] /\ s[j] \in Requests \X (1 .. BatchLen)
    OBVIOUS
  <1> HIDE DEF t
  <1>2. BatchLen \in Nat /\ k \in Nat
    BY StorePostAssumption
  <1>3. ASSUME NEW j \in 1 .. k PROVE \E m \in DOMAIN t : t[m][1] = r /\ t[m][2] = j
    <2>1. CASE j = k
      BY <1>1, <2>1
    <2>2. CASE j # k
      <3>1. j \in 1 .. k - 1
        BY <1>2, <2>2
      <3>2. PICK m \in DOMAIN s : s[m][1] = r /\ s[m][2] = j
        BY <3>1 DEF Seen
      <3> QED BY <1>1, <3>2
    <2> QED BY <2>1, <2>2
  <1>4. ASSUME NEW m \in DOMAIN t, t[m][1] = r PROVE t[m][2] <= k
    <2>1. CASE m = Len(s) + 1
      BY <1>1, <1>2, <2>1
    <2>2. CASE m # Len(s) + 1
      <3>1. m \in DOMAIN s /\ s[m][1] = r /\ s[m][2] <= k - 1 /\ s[m][2] \in 1 .. BatchLen
        BY <1>1, <1>4, <2>2 DEF Seen
      <3> QED BY <1>1, <1>2, <3>1
    <2> QED BY <2>1, <2>2
  <1>5. ASSUME NEW l \in DOMAIN t, NEW m \in DOMAIN t, t[l][1] = r, t[m][1] = r, l < m
        PROVE  t[l][2] < t[m][2]
    <2>1. l \in DOMAIN s /\ s[l][1] = r /\ s[l][2] \in 1 .. BatchLen /\ t[l] = s[l]
      BY <1>1, <1>5
    <2>2. CASE m = Len(s) + 1
      <3>1. s[l][2] <= k - 1 /\ t[m][2] = k
        BY <1>1, <2>1, <2>2 DEF Seen
      <3> QED BY <1>2, <2>1, <3>1
    <2>3. CASE m # Len(s) + 1
      <3>1. m \in DOMAIN s /\ t[m] = s[m]
        BY <1>1, <2>3
      <3> QED BY <1>5, <2>1, <3>1 DEF Seen
    <2> QED BY <2>2, <2>3
  <1> QED BY <1>3, <1>4, <1>5 DEF Seen, t

LEMMA SeenOther ==
  ASSUME NEW s \in Seq(Requests \X (1 .. BatchLen)), NEW q \in Requests, NEW n \in Nat,
         NEW m \in Requests \X (1 .. BatchLen), m[1] # q, Seen(s, q, n)
  PROVE  Seen(Append(s, m), q, n)
  <1> DEFINE t == Append(s, m)
  <1>1. /\ DOMAIN t = 1 .. Len(s) + 1 /\ DOMAIN s = 1 .. Len(s) /\ Len(s) \in Nat
        /\ t[Len(s) + 1] = m
        /\ \A j \in 1 .. Len(s) : t[j] = s[j]
    OBVIOUS
  <1> HIDE DEF t
  <1>2. ASSUME NEW j \in DOMAIN t, t[j][1] = q PROVE j \in DOMAIN s /\ s[j][1] = q /\ t[j] = s[j]
    BY <1>1, <1>2
  <1>3. ASSUME NEW j \in DOMAIN s PROVE j \in DOMAIN t /\ t[j] = s[j]
    BY <1>1
  <1>4. ASSUME NEW j \in 1 .. n PROVE \E l \in DOMAIN t : t[l][1] = q /\ t[l][2] = j
    BY <1>3 DEF Seen
  <1>5. ASSUME NEW j \in DOMAIN t, t[j][1] = q PROVE t[j][2] <= n
    BY <1>2, <1>5 DEF Seen
  <1>6. ASSUME NEW l \in DOMAIN t, NEW j \in DOMAIN t, t[l][1] = q, t[j][1] = q, l < j
        PROVE  t[l][2] < t[j][2]
    BY <1>2, <1>6 DEF Seen
  <1> QED BY <1>4, <1>5, <1>6 DEF Seen, t

\* The two parts of ServedInv.
DeadAreGone(r) == rc[r] = "send" => it[r].dead \subseteq gone /\ it[r].target \notin it[r].ahead

Served(p) ==
  /\ p[1] \in active \ gone
  /\ rc[p[2]] \in {"send", "ok", "error"}
  /\ rc[p[2]] = "send" => ~it[p[2]].moved /\ Seen(got[p[1]], p[2], Progress(p[1], p[2]))
  /\ rc[p[2]] = "ok" => Seen(got[p[1]], p[2], BatchLen)

LEMMA ServedParts ==
  /\ ServedInv <=> (\A r \in Requests : DeadAreGone(r)) /\ \A p \in due : Served(p)
  /\ (\A r \in Requests : DeadAreGone(r)') /\ (\A p \in due' : Served(p)') => ServedInv'
  BY DEF ServedInv, DeadAreGone, Served

\* Nothing of a batch is received before it is committed.
LEMMA SeenNothing ==
  ASSUME Inv, NEW r \in Requests, rc[r] = "commit", NEW c \in Clients
  PROVE  Seen(got[c], r, 0)
  <1>1. got[c] \in Seq(Requests \X (1 .. BatchLen)) /\ Range(got[c]) \cap Records(r) = {}
    BY DEF Inv, TypeOK, Whole, CountedInv
  <1>2. ASSUME NEW m \in DOMAIN got[c], got[c][m][1] = r PROVE FALSE
    <2>1. got[c][m] \in Requests \X (1 .. BatchLen) /\ got[c][m] \in Range(got[c])
      BY <1>1 DEF Range
    <2>2. got[c][m] \in Records(r)
      BY <1>2, <2>1 DEF Records
    <2> QED BY <1>1, <2>1, <2>2
  <1> QED BY <1>2 DEF Seen

\* A step that leaves a due client and its request alone.
LEMMA ServedKept ==
  ASSUME NEW p, Served(p), rc'[p[2]] = rc[p[2]], it'[p[2]] = it[p[2]], got'[p[1]] = got[p[1]],
         p[1] \in active' \ gone'
  PROVE  Served(p)'
  BY DEF Served, Progress

\* The first broadcast of a batch begins with every client that is due.
LEMMA CommitServes ==
  ASSUME Inv, NEW r \in Requests, Commit(r)
  PROVE  ServedInv'
  <1>1. /\ TypeOK /\ rc[r] = "commit" /\ due' = due \cup {<<c, r>> : c \in active \ gone}
        /\ UNCHANGED <<active, connVars, got>> /\ StartBroadcast(r, 1, active, it)
        /\ 1 \in 1 .. BatchLen + 1 /\ active \in SUBSET Clients
    BY StorePostAssumption DEF Inv, Commit, TypeOK
  <1>2. \A q \in Requests \ {r} : rc'[q] = rc[q] /\ it'[q] = it[q]
    BY <1>1, LoopsAlike, StartsLocal
  <1>3. ASSUME NEW q \in Requests PROVE DeadAreGone(q)'
    <2>1. CASE q = r
      <3>1. CASE RunsThrough(r, 1, active, it)
        BY <1>1, <2>1, <3>1 DEF RunsThrough, DeadAreGone, TypeOK
      <3>2. ASSUME NEW c \in active, NEW n \in Nat, FirstSend(r, 1, active, it, c, n) PROVE DeadAreGone(q)'
        <4>1. it'[r].dead = {} /\ it'[r].target = c /\ it'[r].ahead = active \ {c}
          BY <1>1, <3>2 DEF FirstSend, TypeOK
        <4> QED BY <2>1, <4>1 DEF DeadAreGone
      <3> QED BY <1>1, <3>1, <3>2, Starts
    <2>2. CASE q # r
      <3>1. DeadAreGone(q)
        BY ServedParts DEF Inv
      <3> QED BY <1>1, <1>2, <2>2, <3>1 DEF DeadAreGone, connVars
    <2> QED BY <2>1, <2>2
  <1>4. ASSUME NEW p \in due PROVE Served(p)'
    <2>1. Served(p) /\ p[1] \in Clients /\ p[2] \in Requests
      BY <1>1, ServedParts DEF Inv, TypeOK
    <2>2. p[2] # r
      BY <1>1, <2>1 DEF Served
    <2> QED BY <1>1, <1>2, <2>1, <2>2, ServedKept DEF Served, connVars
  <1>5. ASSUME NEW c \in active \ gone PROVE Served(<<c, r>>)'
    <2>1. Seen(got[c], r, 0) /\ got' = got /\ c \in active' \ gone'
      BY <1>1, SeenNothing DEF connVars
    <2>2. ~RunsThrough(r, 1, active, it)
      BY StorePostAssumption DEF RunsThrough
    <2>3. PICK b \in active, n \in Nat : FirstSend(r, 1, active, it, b, n)
      BY <1>1, <2>2, Starts
    <2>4. /\ it'[r].k = 1 /\ it'[r].target = b /\ it'[r].ahead = active \ {b} /\ ~it'[r].moved
          /\ rc'[r] = "send"
      BY <1>1, <2>3 DEF FirstSend, TypeOK
    <2>5. Progress(c, r)' = 0
      BY <2>4 DEF Progress
    <2> QED BY <2>1, <2>4, <2>5 DEF Served
  <1>6. \A p \in due' : Served(p)'
    BY <1>1, <1>4, <1>5
  <1> QED BY <1>3, <1>6, ServedParts

\* A send that is over has brought each due client of its request as far as the
\* iteration has come.
LEMMA SendSeen ==
  ASSUME Inv, NEW r \in Requests, Delivered(r) \/ NotDelivered(r), NEW c, <<c, r>> \in due
  PROVE  Seen(got'[c], r, IF c \in it[r].ahead THEN it[r].k - 1 ELSE it[r].k)
  <1>1. /\ c \in Clients \ gone /\ rc[r] = "send" /\ Seen(got[c], r, Progress(c, r))
        /\ it[r].k \in 1 .. BatchLen /\ it[r].target \notin it[r].ahead
    <2>1. Served(<<c, r>>) /\ DeadAreGone(r) /\ <<c, r>> \in Clients \X Requests
      BY ServedParts DEF Inv, TypeOK
    <2>2. rc[r] = "send" /\ it[r].k \in 1 .. BatchLen
      BY SendReturns
    <2> QED BY <2>1, <2>2 DEF Served, DeadAreGone
  <1>2. CASE c = it[r].target
    <2>1. got'[c] = Append(got[c], <<r, it[r].k>>)
      <3>1. Delivered(r)
        BY <1>1, <1>2 DEF NotDelivered
      <3> QED BY <1>1, <1>2, <3>1 DEF Delivered, Inv, TypeOK
    <2>2. Seen(got[c], r, it[r].k - 1)
      BY <1>1, <1>2 DEF Progress
    <2>3. Seen(got'[c], r, it[r].k)
      <3>1. got[c] \in Seq(Requests \X (1 .. BatchLen)) /\ r \in Requests
        BY <1>1 DEF Inv, TypeOK
      <3> QED BY <1>1, <2>1, <2>2, <3>1, SeenNext
    <2> QED BY <1>1, <1>2, <2>3
  <1>3. CASE c # it[r].target
    <2>1. got'[c] = got[c]
      BY <1>1, <1>3, Gets
    <2> QED BY <1>1, <1>3, <2>1 DEF Progress
  <1> QED BY <1>2, <1>3

\* What a client has received of one request does not change with a send of
\* another.
LEMMA SeenKept ==
  ASSUME Inv, NEW r \in Requests, Delivered(r) \/ NotDelivered(r), NEW c \in Clients,
         NEW q \in Requests \ {r}, NEW n \in Nat, Seen(got[c], q, n)
  PROVE  Seen(got'[c], q, n)
  <1>1. got[c] \in Seq(Requests \X (1 .. BatchLen)) /\ <<r, it[r].k>> \in Requests \X (1 .. BatchLen)
    BY SendReturns DEF Inv, TypeOK
  <1>2. got'[c] = got[c] \/ got'[c] = Append(got[c], <<r, it[r].k>>)
    BY Gets
  <1> QED BY <1>1, <1>2, SeenOther

\* Whatever a send ends with, the due clients of its request are served.
LEMMA SendServes ==
  ASSUME Inv, NEW r \in Requests, Delivered(r) \/ NotDelivered(r)
  PROVE  ServedInv'
  <1>1. /\ TypeOK /\ rc[r] = "send" /\ UNCHANGED connVars
        /\ it[r].k \in 1 .. BatchLen /\ it[r].target \in Clients /\ DeadAreGone(r)
    BY SendReturns, ServedParts DEF Inv
  <1>2. PICK d \in SUBSET Clients : d \subseteq gone /\ Advance(r, d)
    <2>1. it[r].dead \subseteq gone
      BY <1>1 DEF DeadAreGone
    <2> QED BY <2>1, SendReturns
  <1>3. OthersKept(r) /\ due' \subseteq due /\ rc'[r] \in {"send", "ok", "error"}
    BY <1>1, <1>2, AdvancesLocal
  <1>4. it[r].k >= 1 /\ it[r].k + 1 \in 1 .. BatchLen + 1 /\ it[r].k \in Nat
    BY <1>1, StorePostAssumption
  <1>5. active \ gone \subseteq active' \ gone' /\ active' \in SUBSET Clients
    BY <1>1, <1>2, <1>4, Advances DEF connVars, TypeOK
  <1>6. Breaks(r) \/ Ends(r, d) \/ \E S \in SUBSET active : \E c \in S : NextSend(r, d, S, c)
    BY <1>1, <1>2, <1>4, Advances
  <1>7. ASSUME NEW q \in Requests \ {r} PROVE DeadAreGone(q)'
    <2>1. DeadAreGone(q)
      BY ServedParts DEF Inv
    <2> QED BY <1>1, <1>3, <2>1 DEF DeadAreGone, OthersKept, connVars
  <1>8. ASSUME NEW p \in due', p[2] # r PROVE Served(p)'
    <2>1. Served(p) /\ p[1] \in Clients /\ p[2] \in Requests \ {r}
      BY <1>1, <1>3, <1>8, ServedParts DEF Inv, TypeOK
    <2>2. /\ p[1] \in active' \ gone' /\ rc'[p[2]] = rc[p[2]]
          /\ rc[p[2]] = "send" => it'[p[2]] = it[p[2]]
      BY <1>3, <1>5, <2>1 DEF Served, OthersKept
    <2>3. CASE rc[p[2]] = "send"
      <3>1. it[p[2]].k \in 1 .. BatchLen
        BY <2>1, <2>3 DEF Inv, CountedInv
      <3>2. Progress(p[1], p[2]) \in Nat /\ Progress(p[1], p[2])' = Progress(p[1], p[2])
        BY <2>2, <2>3, <3>1, StorePostAssumption DEF Progress
      <3>3. Seen(got'[p[1]], p[2], Progress(p[1], p[2]))
        BY <2>1, <2>3, <3>2, SeenKept DEF Served
      <3> QED BY <2>1, <2>2, <2>3, <3>2, <3>3 DEF Served
    <2>4. CASE rc[p[2]] = "ok"
      <3>1. Seen(got'[p[1]], p[2], BatchLen)
        BY <2>1, <2>4, SeenKept, StorePostAssumption DEF Served
      <3> QED BY <2>1, <2>2, <2>4, <3>1 DEF Served
    <2>5. CASE rc[p[2]] = "error"
      BY <2>1, <2>2, <2>5 DEF Served
    <2> QED BY <2>1, <2>3, <2>4, <2>5 DEF Served
  <1> DEFINE far(c) == IF c \in it[r].ahead THEN it[r].k - 1 ELSE it[r].k
  <1>9. ASSUME NEW c, <<c, r>> \in due
        PROVE  /\ c \in active /\ c \in active' \ gone' /\ ~it[r].moved
               /\ Seen(got'[c], r, far(c))
    <2>1. Served(<<c, r>>)
      BY <1>9, ServedParts DEF Inv
    <2> QED BY <1>1, <1>5, <1>9, <2>1, SendSeen DEF Served
  <1>10. CASE Breaks(r)
    <2>1. rc'[r] = "error"
      BY <1>1, <1>10 DEF Breaks, TypeOK
    <2>2. ASSUME NEW c, <<c, r>> \in due PROVE Served(<<c, r>>)'
      BY <1>9, <2>1, <2>2 DEF Served
    <2>3. DeadAreGone(r)'
      BY <2>1 DEF DeadAreGone
    <2>4. \A p \in due' : Served(p)'
      BY <1>1, <1>3, <1>8, <2>2 DEF TypeOK
    <2> QED BY <1>7, <2>3, <2>4, ServedParts
  <1>11. ASSUME NEW S \in SUBSET active, NEW b \in S, NextSend(r, d, S, b) PROVE ServedInv'
    <2>1. /\ rc'[r] = "send" /\ it'[r].k = it[r].k /\ it'[r].target = b /\ it'[r].ahead = S \ {b}
          /\ it'[r].dead = d /\ ~it'[r].moved
      BY <1>1, <1>11 DEF NextSend, TypeOK
    <2>2. ASSUME NEW c, <<c, r>> \in due PROVE Served(<<c, r>>)'
      <3>1. c \in S <=> c \in it[r].ahead
        BY <1>9, <1>11, <2>2 DEF NextSend
      <3>2. Progress(c, r)' = far(c)
        BY <2>1, <3>1 DEF Progress
      <3> QED BY <1>9, <2>1, <2>2, <3>2 DEF Served
    <2>3. DeadAreGone(r)'
      BY <1>1, <1>2, <2>1 DEF DeadAreGone, connVars
    <2>4. \A p \in due' : Served(p)'
      BY <1>1, <1>3, <1>8, <2>2 DEF TypeOK
    <2> QED BY <1>7, <2>3, <2>4, ServedParts
  <1>12. CASE Ends(r, d)
    <2>1. ASSUME NEW c, <<c, r>> \in due
          PROVE  c \in active' \ gone' /\ Seen(got'[c], r, it[r].k)
      BY <1>9, <1>12, <2>1 DEF Ends
    <2> DEFINE next == it[r].k + 1
    <2>2. ASSUME NEW loops \in {it, Moved}, RunsThrough(r, next, active', loops) PROVE ServedInv'
      <3>1. rc'[r] = "ok"
        BY <1>1, <2>2 DEF RunsThrough, TypeOK
      <3>2. ASSUME NEW c, <<c, r>> \in due PROVE Served(<<c, r>>)'
        <4>1. it[r].k = BatchLen
          BY <1>1, <2>1, <2>2, <3>2, StorePostAssumption DEF RunsThrough
        <4> QED BY <2>1, <3>1, <3>2, <4>1 DEF Served
      <3>3. DeadAreGone(r)'
        BY <3>1 DEF DeadAreGone
      <3>4. \A p \in due' : Served(p)'
        BY <1>1, <1>3, <1>8, <3>2 DEF TypeOK
      <3> QED BY <1>7, <3>3, <3>4, ServedParts
    <2>3. ASSUME NEW loops \in {it, Moved}, NEW b \in active', NEW n \in Nat,
                 FirstSend(r, next, active', loops, b, n)
          PROVE  ServedInv'
      <3>1. /\ rc'[r] = "send" /\ it'[r].k = it[r].k + 1 /\ it'[r].target = b
            /\ it'[r].ahead = active' \ {b} /\ it'[r].dead = {} /\ ~it'[r].moved
        BY <1>1, <2>3, LoopsAlike DEF FirstSend, TypeOK, Alike
      <3>2. ASSUME NEW c, <<c, r>> \in due PROVE Served(<<c, r>>)'
        <4>1. Progress(c, r)' = it[r].k
          BY <1>4, <2>1, <3>1, <3>2 DEF Progress
        <4> QED BY <2>1, <3>1, <3>2, <4>1 DEF Served
      <3>3. DeadAreGone(r)'
        BY <3>1 DEF DeadAreGone
      <3>4. \A p \in due' : Served(p)'
        BY <1>1, <1>3, <1>8, <3>2 DEF TypeOK
      <3> QED BY <1>7, <3>3, <3>4, ServedParts
    <2>4. PICK loops \in {it, Moved} : StartBroadcast(r, next, active', loops)
      BY <1>12 DEF Ends
    <2>5. \/ RunsThrough(r, next, active', loops)
          \/ \E b \in active' : \E n \in Nat : FirstSend(r, next, active', loops, b, n)
      BY <1>4, <1>5, <2>4, Starts
    <2> QED BY <2>2, <2>3, <2>5
  <1> QED BY <1>6, <1>10, <1>11, <1>12

LEMMA ServedStep == Inv /\ [Next]_vars => ServedInv'
  <1> SUFFICES ASSUME Inv, [Next]_vars PROVE ServedInv'
    OBVIOUS
  <1>1. TypeOK /\ (\A r \in Requests : DeadAreGone(r)) /\ (\A p \in due : Served(p))
    BY ServedParts DEF Inv
  <1>2. CASE UNCHANGED vars
    BY <1>2 DEF vars, connVars, Inv, ServedInv, Progress
  <1>3. ASSUME NEW r \in Requests, Post(r) \/ Inserted(r) \/ DatabaseFails(r) PROVE ServedInv'
    <2>1. /\ UNCHANGED <<it, active, connVars, got, due>>
          /\ rc[r] \in {"idle", "insert", "commit"} /\ rc'[r] # "send"
          /\ \A q \in Requests \ {r} : rc'[q] = rc[q]
      BY <1>1, <1>3 DEF Post, Inserted, DatabaseFails, TypeOK
    <2>2. ASSUME NEW q \in Requests PROVE DeadAreGone(q)'
      BY <1>1, <2>1 DEF DeadAreGone, connVars
    <2>3. ASSUME NEW p \in due PROVE Served(p)'
      <3>1. Served(p) /\ p[2] \in Requests
        BY <1>1 DEF TypeOK
      <3>2. p[2] # r
        BY <2>1, <3>1 DEF Served
      <3> QED BY <2>1, <3>1, <3>2, ServedKept DEF Served, connVars
    <2> QED BY <2>1, <2>2, <2>3, ServedParts
  <1>4. ASSUME NEW c \in Clients, Connect(c) \/ Disconnected(c) PROVE ServedInv'
    <2>1. /\ UNCHANGED <<rc, it, gone, got, due>>
          /\ active' = active \/ (c \in gone /\ active' = active \ {c})
      BY <1>4 DEF Connect, Disconnected
    <2>2. ASSUME NEW q \in Requests PROVE DeadAreGone(q)'
      BY <1>1, <2>1 DEF DeadAreGone
    <2>3. ASSUME NEW p \in due PROVE Served(p)'
      BY <1>1, <2>1, ServedKept DEF Served
    <2> QED BY <2>1, <2>2, <2>3, ServedParts
  <1>5. ASSUME NEW c \in Clients, Leave(c) \/ EndpointRaises(c) PROVE ServedInv'
    <2>1. /\ UNCHANGED <<rc, it, active, got>>
          /\ gone' = gone \cup {c} /\ due' = {p \in due : p[1] # c}
      BY <1>5 DEF Leave, EndpointRaises
    <2>2. ASSUME NEW q \in Requests PROVE DeadAreGone(q)'
      BY <1>1, <2>1 DEF DeadAreGone
    <2>3. ASSUME NEW p \in due' PROVE Served(p)'
      BY <1>1, <2>1, ServedKept DEF Served
    <2> QED BY <2>2, <2>3, ServedParts
  <1>6. ASSUME NEW c \in Clients, Register(c) PROVE ServedInv'
    <2>1. /\ UNCHANGED <<rc, gone, got>> /\ active' = active \cup {c}
          /\ due' = {p \in due : rc[p[2]] # "send"}
      BY <1>6 DEF Register
    <2>2. ASSUME NEW q \in Requests PROVE DeadAreGone(q)'
      <3>1. it'[q].dead = it[q].dead /\ it'[q].target = it[q].target /\ it'[q].ahead = it[q].ahead
        BY <1>1, <1>6, LoopsAlike DEF Register, Alike
      <3> QED BY <1>1, <2>1, <3>1 DEF DeadAreGone
    <2>3. ASSUME NEW p \in due' PROVE Served(p)'
      BY <1>1, <2>1 DEF Served
    <2> QED BY <2>2, <2>3, ServedParts
  <1>7. CASE Crash
    <2>1. due' = {} /\ \A q \in Requests : rc'[q] # "send"
      BY <1>1, <1>7 DEF Crash, TypeOK
    <2> QED BY <2>1, ServedParts DEF DeadAreGone
  <1> QED
    BY <1>2, <1>3, <1>4, <1>5, <1>6, <1>7, CommitServes, SendServes DEF Next, HandlerStep

-----------------------------------------------------------------------------
(* The theorems.                                                           *)

LEMMA InitInv == Init => Inv
  <1> SUFFICES ASSUME Init PROVE Inv
    OBVIOUS
  <1>1. TypeOK
    BY NotSendingType, StorePostAssumption DEF Init, TypeOK, Loops
  <1>2. Whole
    BY DEF Init, Whole
  <1>3. CountedInv
    BY DEF Init, CountedInv, Range
  <1>4. ServedInv
    BY DEF Init, ServedInv
  <1> QED BY <1>1, <1>2, <1>3, <1>4 DEF Inv

\* What is known of the handlers and their broadcasts, throughout every run.
THEOREM Invariance == Spec => []Inv
  <1>1. Inv /\ [Next]_vars => Inv'
    BY TypeStep, WholeStep, CountedStep, ServedStep DEF Inv
  <1> QED BY <1>1, InitInv, PTL DEF Spec

\* Every variable of the Store keeps its type, for any batch length and any
\* number of requests, connections and crashes.
THEOREM TypeCorrect == Spec => []TypeOK
  BY Invariance, PTL DEF Inv

\* The counter of readings is never ahead of the table, nor behind what a
\* subscriber has received while the process lives.
THEOREM CountedCorrect == Spec => []CountedBetween
  <1>1. Inv => CountedBetween
    BY DEF Inv, CountedInv, CountedBetween
  <1> QED BY <1>1, Invariance, PTL

\* A subscriber that stays receives every record of a batch that is answered
\* 201, once and in order, although broadcast() iterates over a set that other
\* coroutines change.
THEOREM SubscribersCorrect == Spec => []SubscribersServed
  <1>1. Inv => SubscribersServed
    BY DEF Inv, ServedInv, SubscribersServed
  <1> QED BY <1>1, Invariance, PTL

-----------------------------------------------------------------------------
(* The contract with the hub.                                              *)

StoredRequests == {r \in Requests : Records(r) \subseteq rows}

ShownRequests == {r \in Requests : \E c \in Clients : \E m \in Range(got[c]) : m[1] = r}

Answer(p) == IF p \in {"ok", "error"} THEN p ELSE "none"

Answers == [r \in Requests |-> Answer(rc[r])]

\* The answer of one request changes with its point.
LEMMA AnswersOne ==
  ASSUME NEW r \in Requests, \A q \in Requests \ {r} : rc'[q] = rc[q]
  PROVE  /\ Answers[r] = Answer(rc[r])
         /\ Answers' = [Answers EXCEPT ![r] = Answer(rc'[r])]
         /\ Answer(rc'[r]) \in {"none", "ok", "error"}
  BY DEF Answers, Answer

\* The commit of a batch stores its request and no other.
LEMMA CommitStores ==
  ASSUME NEW r \in Requests, Records(r) \cap rows = {}, rows' = rows \cup Records(r)
  PROVE  r \notin StoredRequests /\ StoredRequests' = StoredRequests \cup {r}
  <1>1. <<r, 1>> \in Records(r)
    BY StorePostAssumption DEF Records
  <1>2. ASSUME NEW q \in Requests, q # r PROVE Records(q) \cap Records(r) = {}
    BY <1>2 DEF Records
  <1> QED BY <1>1, <1>2 DEF StoredRequests

\* A record that is received shows its request, and no other.
LEMMA SendShows ==
  ASSUME Inv, NEW r \in Requests, Delivered(r)
  PROVE  ShownRequests' = ShownRequests \cup {r}
  <1>1. it[r].target \in Clients /\ <<r, it[r].k>>[1] = r
    BY SendReturns
  <1>2. Range(got'[it[r].target]) = Range(got[it[r].target]) \cup {<<r, it[r].k>>}
    <2>1. got[it[r].target] \in Seq(Requests \X (1 .. BatchLen)) /\ <<r, it[r].k>> \in Requests \X (1 .. BatchLen)
      BY <1>1, SendReturns DEF Inv, TypeOK
    <2>2. got'[it[r].target] = Append(got[it[r].target], <<r, it[r].k>>)
      BY <1>1 DEF Delivered, Inv, TypeOK
    <2> QED BY <2>1, <2>2, Received
  <1>3. \A c \in Clients \ {it[r].target} : got'[c] = got[c]
    BY DEF Delivered, Inv, TypeOK
  <1> QED BY <1>1, <1>2, <1>3 DEF ShownRequests

\* Every step of the Store is one of the contract.
LEMMA ContractStep == Inv /\ [Next]_vars => [Contract!Next]_Contract!vars
  <1> SUFFICES ASSUME Inv, [Next]_vars PROVE Contract!Next \/ UNCHANGED Contract!vars
    OBVIOUS
  <1>1. TypeOK /\ Whole
    BY DEF Inv
  <1>2. CASE UNCHANGED <<rows, got>> /\ Answers' = Answers
    BY <1>2 DEF Contract!vars, Answers, Answer
  <1>3. ASSUME NEW r \in Requests, r \notin StoredRequests, StoredRequests' = StoredRequests \cup {r},
               UNCHANGED got, Answers[r] = "none",
               \E a \in {"none", "ok", "error"} : Answers' = [Answers EXCEPT ![r] = a]
        PROVE  Contract!Next
    BY <1>3 DEF Contract!Next, Contract!Store, Answers, Answer, StoredRequests
  <1>4. ASSUME NEW R \in SUBSET Requests, UNCHANGED <<rows, got>>, \A r \in R : Answers[r] = "none",
               Answers' = [r \in Requests |-> IF r \in R THEN "error" ELSE Answers[r]]
        PROVE  Contract!Next
    BY <1>4 DEF Contract!Next, Contract!Fail, Answers, Answer
  <1>5. ASSUME NEW r \in Requests, r \in StoredRequests, UNCHANGED rows, Answers[r] = "none",
               ShownRequests' = ShownRequests \cup {r},
               \E a \in {"none", "ok", "error"} : Answers' = [Answers EXCEPT ![r] = a]
        PROVE  Contract!Next
    BY <1>5 DEF Contract!Next, Contract!Show, Answers, Answer, StoredRequests, ShownRequests
  <1>6. ASSUME NEW r \in Requests, r \in StoredRequests, UNCHANGED <<rows, got>>, Answers[r] = "none",
               Answers' = [Answers EXCEPT ![r] = "ok"]
        PROVE  Contract!Next
    BY <1>6 DEF Contract!Next, Contract!Accept, Answers, Answer, StoredRequests
  <1>7. CASE UNCHANGED vars
    BY <1>2, <1>7 DEF vars, Answers
  <1>8. ASSUME NEW r \in Requests, Post(r) \/ Inserted(r) PROVE Contract!Next \/ UNCHANGED Contract!vars
    <2>1. UNCHANGED <<rows, got>> /\ \A q \in Requests : Answer(rc'[q]) = Answer(rc[q])
      BY <1>1, <1>8 DEF Post, Inserted, TypeOK, Answer
    <2> QED BY <1>2, <2>1 DEF Answers
  <1>9. ASSUME NEW r \in Requests, DatabaseFails(r) PROVE Contract!Next
    <2>1. /\ UNCHANGED got /\ rc[r] \in {"insert", "commit"} /\ rc'[r] = "error"
          /\ \A q \in Requests \ {r} : rc'[q] = rc[q]
          /\ Records(r) \cap rows = {}
      BY <1>1, <1>9 DEF DatabaseFails, TypeOK, Whole
    <2>2. Answers[r] = "none" /\ Answers' = [Answers EXCEPT ![r] = "error"]
      BY <2>1, AnswersOne DEF Answer
    <2>3. CASE rows' = rows
      <3>1. Answers' = [q \in Requests |-> IF q \in {r} THEN "error" ELSE Answers[q]]
        BY <2>2 DEF Answers
      <3> QED BY <1>4, <2>1, <2>2, <2>3, <3>1
    <2>4. CASE rows' = rows \cup Records(r)
      BY <1>3, <2>1, <2>2, <2>4, CommitStores
    <2> QED BY <1>9, <2>3, <2>4 DEF DatabaseFails
  <1>10. ASSUME NEW r \in Requests, Commit(r) PROVE Contract!Next
    <2>1. /\ UNCHANGED got /\ rc[r] = "commit" /\ rows' = rows \cup Records(r)
          /\ Records(r) \cap rows = {} /\ 1 \in 1 .. BatchLen + 1 /\ active \in SUBSET Clients
      BY <1>1, <1>10, StorePostAssumption DEF Commit, TypeOK, Whole
    <2>2. \A q \in Requests \ {r} : rc'[q] = rc[q]
      BY <1>1, <1>10, CommitLocal
    <2>3. Answers[r] = "none" /\ \E a \in {"none", "ok", "error"} : Answers' = [Answers EXCEPT ![r] = a]
      BY <2>1, <2>2, AnswersOne DEF Answer
    <2> QED BY <1>3, <2>1, <2>3, CommitStores
  <1>11. ASSUME NEW r \in Requests, Delivered(r) \/ NotDelivered(r)
         PROVE  Contract!Next \/ UNCHANGED Contract!vars
    <2>1. /\ UNCHANGED rows /\ rc[r] = "send" /\ r \in StoredRequests
          /\ \E d \in SUBSET Clients : Advance(r, d)
      BY <1>1, <1>11, SendReturns DEF Whole, StoredRequests
    <2>2. /\ \A q \in Requests \ {r} : rc'[q] = rc[q]
          /\ rc'[r] \in {"send", "ok", "error"}
      BY <2>1, AdvancesLocal DEF OthersKept
    <2>3. Answers[r] = "none" /\ Answers' = [Answers EXCEPT ![r] = Answer(rc'[r])]
      BY <2>1, <2>2, AnswersOne DEF Answer
    <2>4. CASE Delivered(r)
      BY <1>5, <2>1, <2>2, <2>3, <2>4, AnswersOne, SendShows
    <2>5. CASE NotDelivered(r)
      <3>1. UNCHANGED got
        BY <2>5 DEF NotDelivered
      <3>2. CASE rc'[r] = "send"
        <4>1. Answers' = Answers
          BY <2>3, <3>2 DEF Answer, Answers
        <4> QED BY <1>2, <2>1, <3>1, <4>1
      <3>3. CASE rc'[r] = "ok"
        BY <1>6, <2>1, <2>3, <3>1, <3>3 DEF Answer
      <3>4. CASE rc'[r] = "error"
        <4>1. Answers' = [q \in Requests |-> IF q \in {r} THEN "error" ELSE Answers[q]]
          BY <2>3, <3>4 DEF Answers, Answer
        <4> QED BY <1>4, <2>1, <2>3, <3>1, <4>1
      <3> QED BY <2>2, <3>2, <3>3, <3>4
    <2> QED BY <1>11, <2>4, <2>5
  <1>12. ASSUME NEW c \in Clients, Connect(c) \/ Register(c) \/ Leave(c) \/ Disconnected(c) \/ EndpointRaises(c)
         PROVE  UNCHANGED <<rc, rows, got>>
    BY <1>12 DEF Connect, Register, Leave, Disconnected, EndpointRaises
  <1>13. CASE Crash
    <2> DEFINE R == {r \in Requests : rc[r] \in {"insert", "commit", "send"}}
    <2>1. UNCHANGED <<rows, got>> /\ \A r \in R : Answers[r] = "none"
      BY <1>13 DEF Crash, Answers, Answer
    <2>2. Answers' = [r \in Requests |-> IF r \in R THEN "error" ELSE Answers[r]]
      BY <1>1, <1>13 DEF Crash, Answers, Answer, TypeOK
    <2> HIDE DEF R
    <2>3. R \in SUBSET Requests
      BY DEF R
    <2> QED BY <1>4, <2>1, <2>2, <2>3
  <1> QED
    BY <1>2, <1>7, <1>8, <1>9, <1>10, <1>11, <1>12, <1>13 DEF Next, HandlerStep, Answers

\* The handler with its transaction, its broadcasts and its crashes implements
\* what the hub relies on, for any number of requests, connections and records.
THEOREM StoreImplemented == Spec => ImplementsStore
  <1>1. Init => Contract!Init
    <2> SUFFICES ASSUME Init PROVE Contract!Init
      OBVIOUS
    <2>1. \A r \in Requests : <<r, 1>> \in Records(r) \ rows
      BY StorePostAssumption DEF Init, Records
    <2>2. \A c \in Clients : Range(got[c]) = {}
      BY DEF Init, Range
    <2> QED BY <2>1, <2>2 DEF Init, Contract!Init
  <1> QED
    BY <1>1, ContractStep, Invariance, PTL DEF Spec, ImplementsStore, Contract!Spec
=============================================================================
