---------------------- MODULE SensorsAcquisitionProofs ----------------------
(***************************************************************************)
(* Proofs about the agent and the edge of the sensors: the agent merges    *)
(* its files in the order of their timestamps and publishes whole slices,  *)
(* for any number of files, any rows in the order of their timestamps and  *)
(* any damaged rows; and the edge gives every reading the flags its values *)
(* call for, for any values and any losses of its link.  At the end, the   *)
(* generator of the files: the events it plans, for any draws.             *)
(***************************************************************************)
EXTENDS SensorsAcquisition, SyntheticSensors, WellFoundedInduction, SequenceTheorems, TLAPS

-----------------------------------------------------------------------------
(* The agent.                                                              *)

Files == 1 .. Sources

Good(p) == p \in Readings /\ Row(p) # Bad

\* The generators have gone past p.
Taken(p) == p[2] < head[p[1]]

\* What was taken, in the order of the merge: published or in the slice.
Total == Len(out) + Len(batch)
Line == [i \in 1 .. Total |-> IF i <= Len(out) THEN out[i].row ELSE batch[i - Len(out)]]

TypeInv ==
  /\ files \in [Files -> Contents]
  /\ loop \in BOOLEAN /\ delay \in Delays /\ interrupted \in BOOLEAN
  /\ pc \in {"open", "merge", "publish", "sleep", "again", "done", "failed"}
  /\ head \in [Files -> Nat \ {0}]
  /\ now \in Nat
  /\ batch \in Seq(Readings)
  /\ out \in Seq([row : Readings, stamp : Nat])

\* A row that cannot be read is not waited for: it has raised.
HeadInv ==
  pc \in {"merge", "publish", "sleep"} =>
    \A f \in Files : head[f] <= Len(files[f]) => files[f][head[f]] # Bad

\* What was taken is sorted, and comes before what was not.
LineInv ==
  /\ \A i \in 1 .. Total : Good(Line[i])
  /\ \A p \in Readings : Taken(p) <=> \E i \in 1 .. Total : Line[i] = p
  /\ \A i, j \in 1 .. Total : i < j => Before(Line[i], Line[j])
  /\ \A i \in 1 .. Total, p \in Readings : Good(p) /\ ~Taken(p) => Before(Line[i], p)

\* The stamps of what is published, in order; they tell the slices apart when the
\* delay is not less than a second.
OutInv ==
  \A m, n \in 1 .. Len(out) :
    /\ m < n => out[m].stamp <= out[n].stamp
    /\ Time(out[m].row) = Time(out[n].row) => out[m].stamp = out[n].stamp
    /\ delay >= Second /\ out[m].stamp = out[n].stamp => Time(out[m].row) = Time(out[n].row)

\* The slice that is being published belongs to one stamp.
NowInv ==
  batch # <<>> /\ \A n \in 1 .. Len(out) :
    /\ Time(out[n].row) = Time(batch[1]) => out[n].stamp = Stamp
    /\ delay >= Second /\ out[n].stamp = Stamp => Time(out[n].row) = Time(batch[1])

\* One time in the slice; the clock is not behind the stamps, and ahead of them
\* whenever a slice begins after a second or more.
StampInv ==
  /\ OutInv
  /\ \A m, n \in 1 .. Len(batch) : Time(batch[m]) = Time(batch[n])
  /\ pc \in {"merge", "publish", "sleep"} => \A n \in 1 .. Len(out) : out[n].stamp <= Stamp
  /\ pc = "merge" /\ delay >= Second => \A n \in 1 .. Len(out) : out[n].stamp < Stamp
  /\ pc = "publish" => NowInv
  /\ pc = "sleep" => batch = <<>>

\* No reading of a published slice is left behind, and while one is being
\* published none of it is left in the files.
SliceInv ==
  /\ pc # "publish" /\ ~interrupted =>
       \A m \in 1 .. Len(out), p \in Readings :
         Good(p) /\ Time(p) = Time(out[m].row) => \E n \in 1 .. Len(out) : out[n].row = p
  /\ pc = "publish" =>
       \A i \in 1 .. Total, p \in Readings : Good(p) /\ ~Taken(p) => Time(Line[i]) # Time(p)

EndInv ==
  /\ interrupted => pc = "done"
  /\ pc = "again" \/ (pc = "done" /\ ~interrupted) => batch = <<>> /\ Heads = {}

Inv == TypeInv /\ HeadInv /\ LineInv /\ StampInv /\ SliceInv /\ EndInv

-----------------------------------------------------------------------------
(* The clock cut to seconds.                                               *)

LEMMA DivMod ==
  ASSUME NEW n \in Nat
  PROVE  /\ (n % Second) \in 0 .. Second - 1 /\ n = (Second * (n \div Second)) + (n % Second)
         /\ n \div Second \in Int
  BY SourceAssumption

\* What is not earlier is not cut to an earlier second, and what is a second
\* later is cut to a later one.
LEMMA Cut ==
  ASSUME NEW a \in Nat, NEW b \in Nat, a <= b
  PROVE  /\ a \div Second \in Nat /\ a \div Second <= b \div Second
         /\ a + Second <= b => a \div Second < b \div Second
  <1> DEFINE q == a \div Second  m == a % Second  p == b \div Second  k == b % Second
  <1>1. /\ Second \in Nat /\ Second > 0
        /\ q \in Int /\ p \in Int /\ m \in Nat /\ k \in Nat /\ m < Second /\ k < Second
        /\ a = (Second * q) + m /\ b = (Second * p) + k
    BY DivMod, SourceAssumption
  <1> HIDE DEF q, m, p, k
  <1>2. q >= 0
    <2>1. ASSUME q <= 0 - 1 PROVE FALSE
      <3>1. Second * q <= Second * (0 - 1)
        BY <1>1, <2>1
      <3> QED BY <1>1, <3>1
    <2> QED BY <1>1, <2>1
  <1>3. q <= p
    <2>1. ASSUME p + 1 <= q PROVE FALSE
      <3>1. Second * (p + 1) <= Second * q /\ Second * (p + 1) = (Second * p) + Second
        BY <1>1, <2>1
      <3> QED BY <1>1, <3>1
    <2> QED BY <1>1, <2>1
  <1>4. ASSUME a + Second <= b PROVE q < p
    <2>1. ASSUME p <= q PROVE FALSE
      <3>1. Second * p <= Second * q
        BY <1>1, <2>1
      <3> QED BY <1>1, <1>4, <3>1
    <2> QED BY <1>1, <2>1
  <1> QED BY <1>1, <1>2, <1>3, <1>4 DEF q, p

LEMMA StampNat == ASSUME TypeInv PROVE Stamp \in Nat
  BY Cut DEF TypeInv, Stamp

-----------------------------------------------------------------------------
(* Readings and their order.                                               *)

LEMMA FileType ==
  ASSUME TypeInv, NEW f \in Files
  PROVE  /\ files[f] \in Contents /\ Len(files[f]) \in Nat /\ DOMAIN files[f] = 1 .. Len(files[f])
         /\ (files[f] # <<>> <=> Len(files[f]) > 0)
  <1>1. files[f] \in Seq(Range(files[f])) /\ files[f] \in Contents
    BY SourceAssumption DEF TypeInv
  <1> QED BY <1>1

LEMMA ReadingType ==
  ASSUME TypeInv, NEW p
  PROVE  /\ p \in Readings <=> \E f \in Files, k \in Nat \ {0} : k <= Len(files[f]) /\ p = <<f, k>>
         /\ p \in Readings => /\ p[1] \in Files /\ p[2] \in Nat \ {0} /\ p[2] <= Len(files[p[1]])
                              /\ p = <<p[1], p[2]>> /\ head[p[1]] \in Nat \ {0}
         /\ Good(p) => Time(p) \in Nat
  <1>1. p \in Readings <=> \E f \in Files, k \in Nat \ {0} : k <= Len(files[f]) /\ p = <<f, k>>
    <2>1. p \in Readings <=> \E f \in Files : \E k \in DOMAIN files[f] : p = <<f, k>>
      BY DEF Readings, Files
    <2>2. \A f \in Files : Len(files[f]) \in Nat /\ DOMAIN files[f] = 1 .. Len(files[f])
      BY FileType
    <2> QED BY <2>1, <2>2
  <1>2. p \in Readings => /\ p[1] \in Files /\ p[2] \in Nat \ {0} /\ p[2] <= Len(files[p[1]])
                          /\ p = <<p[1], p[2]>> /\ head[p[1]] \in Nat \ {0}
    BY <1>1 DEF TypeInv
  <1>3. ASSUME Good(p) PROVE Time(p) \in Nat
    <2>1. p[1] \in Files /\ p[2] \in DOMAIN files[p[1]] /\ files[p[1]] \in Contents
      BY <1>2, <1>3, FileType DEF Good
    <2> QED BY <1>3, <2>1, SourceAssumption DEF Good, Time, Row
  <1> QED BY <1>1, <1>2, <1>3

\* Two readings of a file.
LEMMA Sorted ==
  ASSUME TypeInv, NEW p, NEW q, Good(p), Good(q), p[1] = q[1], p[2] <= q[2]
  PROVE  Time(p) <= Time(q) /\ (p[2] < q[2] => Before(p, q))
  <1>1. /\ p[1] \in Files /\ p[2] \in Nat /\ q[2] \in Nat /\ Time(p) \in Nat /\ Time(q) \in Nat
        /\ p[2] \in DOMAIN files[p[1]] /\ q[2] \in DOMAIN files[p[1]] /\ files[p[1]] \in Contents
    BY ReadingType, FileType DEF Good
  <1>2. CASE p[2] = q[2]
    BY <1>1, <1>2 DEF Time, Row
  <1>3. CASE p[2] < q[2]
    <2>1. files[p[1]][p[2]] # Bad /\ files[p[1]][q[2]] # Bad
      BY DEF Good, Row
    <2>2. files[p[1]][p[2]].time <= files[p[1]][q[2]].time
      BY <1>1, <1>3, <2>1, SourceAssumption
    <2>3. Time(p) <= Time(q)
      BY <2>2 DEF Time, Row
    <2> QED BY <1>1, <2>3 DEF Before
  <1> QED BY <1>1, <1>2, <1>3

LEMMA Asymmetric ==
  ASSUME TypeInv, NEW p, NEW q, Good(p), Good(q), Before(p, q)
  PROVE  ~Before(q, p) /\ Time(p) <= Time(q)
  <1>1. p[1] \in Int /\ q[1] \in Int /\ p[2] \in Int /\ q[2] \in Int /\ Time(p) \in Int /\ Time(q) \in Int
    BY ReadingType, SourceAssumption DEF Good, Files
  <1> HIDE DEF Time
  <1> QED BY <1>1 DEF Before

\* Before a head is before the rows behind it.
LEMMA BeforeBehind ==
  ASSUME TypeInv, NEW p, NEW h, NEW q, Good(p), Good(h), Good(q),
         Before(p, h), p[1] # h[1], h[1] = q[1], h[2] <= q[2]
  PROVE  Before(p, q)
  <1>1. p[1] \in Int /\ h[1] \in Int /\ Time(p) \in Int /\ Time(h) \in Int /\ Time(q) \in Int
    BY ReadingType, SourceAssumption DEF Good, Files
  <1>2. Time(h) <= Time(q)
    BY Sorted
  <1> HIDE DEF Time
  <1> QED BY <1>1, <1>2 DEF Before

\* A reading that is not taken is at or behind the head of its file.
LEMMA BehindHead ==
  ASSUME Inv, pc = "merge", NEW q, Good(q), ~Taken(q)
  PROVE  LET h == <<q[1], head[q[1]]>> IN h \in Heads /\ Good(h) /\ h[2] <= q[2]
  <1> DEFINE h == <<q[1], head[q[1]]>>
  <1>1. q[1] \in Files /\ q[2] \in Nat /\ q[2] <= Len(files[q[1]]) /\ head[q[1]] \in Nat \ {0} /\ Len(files[q[1]]) \in Nat
    BY ReadingType, FileType DEF Inv, Good
  <1>2. head[q[1]] <= q[2] /\ head[q[1]] <= Len(files[q[1]])
    BY <1>1 DEF Taken
  <1>3. h \in Heads
    BY <1>1, <1>2 DEF Heads, Files
  <1>4. h \in Readings
    BY <1>1, <1>2, ReadingType DEF Inv
  <1>5. Row(h) # Bad
    BY <1>1, <1>2 DEF Inv, HeadInv, Row
  <1> QED BY <1>2, <1>3, <1>4, <1>5 DEF Good

-----------------------------------------------------------------------------
(* min() over the heads.                                                   *)

LEMMA Least ==
  ASSUME NEW S \in SUBSET Nat, S # {}
  PROVE  \E m \in S : \A n \in S : m <= n
  <1> DEFINE R == OpToRel(<, Nat)
  <1>1. IsWellFoundedOn(R, Nat)
    BY NatLessThanWellFounded
  <1>2. \A m, n \in Nat : m < n => <<m, n>> \in R
    BY DEF OpToRel
  <1> HIDE DEF R
  <1>3. PICK m \in S : \A n \in S : ~(<<n, m>> \in R)
    BY <1>1, WFMin
  <1>4. ASSUME NEW n \in S PROVE m <= n
    <2>1. m \in Nat /\ n \in Nat
      OBVIOUS
    <2>2. ~(n < m)
      BY <1>2, <1>3, <2>1
    <2> QED BY <2>1, <2>2
  <1> QED BY <1>4

\* There is an earliest head.
LEMMA MinHead ==
  ASSUME Inv, pc = "merge", Heads # {}
  PROVE  \E p \in Heads : IsMin(p) /\ Good(p)
  <1>1. \A p \in Heads : p[1] \in Files /\ p = <<p[1], head[p[1]]>> /\ Good(p) /\ Time(p) \in Nat
    <2>1. SUFFICES ASSUME NEW p \in Heads
                   PROVE  p[1] \in Files /\ p = <<p[1], head[p[1]]>> /\ Good(p) /\ Time(p) \in Nat
      OBVIOUS
    <2>2. PICK f \in Files : p = <<f, head[f]>> /\ head[f] <= Len(files[f])
      BY DEF Heads, Files
    <2>3. p \in Readings
      BY <2>2, ReadingType DEF Inv, TypeInv
    <2>4. Row(p) # Bad
      BY <2>2 DEF Row, Inv, HeadInv
    <2> QED BY <2>2, <2>3, <2>4, ReadingType DEF Good, Inv
  <1> DEFINE T == {Time(p) : p \in Heads}
  <1>2. T \in SUBSET Nat /\ T # {}
    BY <1>1
  <1>3. PICK t \in T : \A u \in T : t <= u
    BY <1>2, Least
  <1> DEFINE F == {p[1] : p \in {q \in Heads : Time(q) = t}}
  <1>4. F \in SUBSET Nat /\ F # {}
    BY <1>1, <1>3, SourceAssumption DEF Files
  <1>5. PICK f \in F : \A g \in F : f <= g
    BY <1>4, Least
  <1>6. PICK p \in Heads : Time(p) = t /\ p[1] = f
    BY <1>5
  <1>7. ASSUME NEW q \in Heads \ {p} PROVE Before(p, q)
    <2>1. Time(p) \in Nat /\ Time(q) \in Nat /\ Time(p) <= Time(q) /\ p[1] \in Nat /\ q[1] \in Nat
      BY <1>1, <1>3, <1>6, SourceAssumption DEF Files
    <2>2. p[1] # q[1]
      BY <1>1
    <2>3. Time(q) = Time(p) => p[1] <= q[1]
      BY <1>5, <1>6
    <2> HIDE DEF Time
    <2> QED BY <2>1, <2>2, <2>3 DEF Before
  <1> QED BY <1>1, <1>6, <1>7 DEF IsMin

\* The earliest head is before everything else that is left.
LEMMA MinFirst ==
  ASSUME Inv, pc = "merge", NEW p \in Heads, IsMin(p), Good(p), NEW q, Good(q), ~Taken(q), q # p
  PROVE  Before(p, q)
  <1>1. PICK f \in Files : p = <<f, head[f]>>
    BY DEF Heads, Files
  <1> DEFINE h == <<q[1], head[q[1]]>>
  <1>2. h \in Heads /\ Good(h) /\ h[2] <= q[2]
    BY BehindHead
  <1>3. q[1] \in Files /\ q[2] \in Nat /\ q = <<q[1], q[2]>> /\ head[q[1]] \in Nat
    BY ReadingType DEF Good, Inv
  <1>4. CASE q[1] = f
    <2>1. p[1] = q[1] /\ p[2] <= q[2] /\ p[2] # q[2] /\ p[2] \in Nat
      BY <1>1, <1>2, <1>3, <1>4
    <2> QED BY <1>3, <2>1, Sorted DEF Inv
  <1>5. CASE q[1] # f
    <2>1. h # p /\ h[1] = q[1] /\ p[1] # h[1]
      BY <1>1, <1>5
    <2>2. Before(p, h)
      BY <1>2, <2>1 DEF IsMin
    <2> QED BY <1>2, <2>1, <2>2, BeforeBehind DEF Inv
  <1> QED BY <1>4, <1>5

-----------------------------------------------------------------------------
(* Steps that take and publish nothing.                                    *)

LEMMA LineType ==
  ASSUME TypeInv
  PROVE  /\ Len(out) \in Nat /\ Len(batch) \in Nat /\ Total \in Nat /\ Total = Len(out) + Len(batch)
         /\ \A i \in 1 .. Len(out) : out[i].row = Line[i] /\ i \in 1 .. Total
         /\ \A i \in 1 .. Len(batch) : batch[i] = Line[Len(out) + i] /\ Len(out) + i \in 1 .. Total
  BY DEF TypeInv, Total, Line

LEMMA StampType ==
  ASSUME TypeInv, NEW n \in 1 .. Len(out)
  PROVE  out[n].stamp \in Nat /\ out[n].row \in Readings
  <1> DEFINE S == [row : Readings, stamp : Nat]
  <1>1. out \in Seq(S)
    BY DEF TypeInv
  <1>2. out[n] \in S
    <2> HIDE DEF S
    <2> QED BY <1>1
  <1> QED BY <1>2

LEMMA LineKept ==
  ASSUME LineInv, UNCHANGED <<files, head>>, Total' = Total, Line' = Line
  PROVE  LineInv'
  BY DEF LineInv, Good, Taken, Before, Time, Row, Readings

LEMMA InitInv == ASSUME Init PROVE Inv
  <1>1. head = [f \in Files |-> 1] /\ batch = <<>> /\ out = <<>> /\ pc = "open" /\ now = 0 /\ interrupted = FALSE
        /\ files \in [Files -> Contents] /\ loop \in BOOLEAN /\ delay \in Delays
    BY DEF Init, Files
  <1>2. TypeInv
    <2>1. interrupted \in BOOLEAN /\ now \in Nat
      BY <1>1
    <2>3. head \in [Files -> Nat \ {0}]
      <3>1. 1 \in Nat \ {0}
        OBVIOUS
      <3> QED BY <1>1, <3>1
    <2>2. batch \in Seq(Readings) /\ out \in Seq([row : Readings, stamp : Nat])
      BY <1>1
    <2> QED BY <1>1, <2>1, <2>2, <2>3 DEF TypeInv
  <1>3. Total = 0 /\ \A p \in Readings : ~Taken(p)
    BY <1>1, <1>2, ReadingType DEF Total, Taken
  <1>4. LineInv
    BY <1>3 DEF LineInv
  <1> QED BY <1>1, <1>2, <1>3, <1>4 DEF Inv, HeadInv, StampInv, OutInv, SliceInv, EndInv

LEMMA OpenStep == ASSUME Inv, Open PROVE Inv'
  <1>1. head' = [f \in Files |-> 1] /\ batch' = <<>> /\ out' = <<>> /\ pc' \in {"failed", "merge"} /\ now' \in Nat
        /\ UNCHANGED <<files, loop, delay, interrupted>> /\ pc = "open"
        /\ (pc' = "merge" => ~\E f \in Files : files[f] # <<>> /\ files[f][1] = Bad)
    BY SourceAssumption DEF Open, Files
  <1>2. Readings' = Readings /\ Files' = Files
    BY <1>1 DEF Readings, Files
  <1>3. TypeInv'
    BY <1>1, <1>2 DEF Inv, TypeInv
  <1>4. HeadInv'
    BY <1>1, FileType DEF Inv, HeadInv, Files
  <1>5. Total' = 0
    BY <1>1 DEF Total
  <1>6. ASSUME NEW p \in Readings PROVE ~(p[2] < head'[p[1]])
    BY <1>1, ReadingType DEF Inv
  <1>7. LineInv'
    BY <1>2, <1>5, <1>6 DEF LineInv, Taken
  <1>8. ~interrupted
    BY <1>1 DEF Inv, EndInv
  <1> QED BY <1>1, <1>3, <1>4, <1>5, <1>7, <1>8 DEF Inv, StampInv, OutInv, SliceInv, EndInv

\* Sleep, the end of a round, the delay before the next, and the end.
LEMMA QuietStep ==
  ASSUME Inv, UNCHANGED <<files, loop, delay, head, batch, out>>,
         \/ Sleep
         \/ (RoundEnds \/ Again \/ Interrupt) /\ UNCHANGED now
         \/ UNCHANGED <<pc, now, interrupted>>
  PROVE  Inv'
  <1>1. Readings' = Readings /\ Total' = Total /\ Line' = Line /\ Heads' = Heads
    BY DEF Readings, Total, Line, Heads
  <1>2. LineInv'
    BY <1>1, LineKept DEF Inv
  <1>3. pc' \in {"open", "merge", "publish", "sleep", "again", "done", "failed"} /\ interrupted' \in BOOLEAN /\ now' \in Nat
    <2>1. now \in Nat /\ delay \in Nat /\ MaxLate \in Nat
      BY SourceAssumption DEF Inv, TypeInv
    <2>2. CASE Sleep
      BY <2>1, <2>2 DEF Inv, TypeInv, Sleep
    <2>3. CASE (RoundEnds \/ Again \/ Interrupt) /\ UNCHANGED now
      BY <2>1, <2>3 DEF Inv, TypeInv, RoundEnds, Again, Interrupt
    <2>4. CASE UNCHANGED <<pc, now, interrupted>>
      BY <2>1, <2>4 DEF Inv, TypeInv
    <2> QED BY <2>2, <2>3, <2>4
  <1>4. TypeInv'
    BY <1>1, <1>3 DEF Inv, TypeInv
  <1>5. CASE Sleep
    <2>1. /\ pc = "sleep" /\ pc' = "merge" /\ UNCHANGED interrupted /\ delay \in Nat
          /\ now' \in Nat /\ now \in Nat /\ now + delay <= now'
      BY <1>5, SourceAssumption DEF Sleep, Inv, TypeInv
    <2>2. HeadInv'
      BY <2>1 DEF Inv, HeadInv
    <2>3. Stamp \in Nat /\ Stamp <= Stamp' /\ (delay >= Second => Stamp < Stamp') /\ Stamp' \in Nat
      <3>1. now <= now' /\ (delay >= Second => now + Second <= now')
        BY <2>1, SourceAssumption
      <3> QED BY <2>1, <3>1, Cut DEF Stamp
    <2>4. StampInv'
      <3>1. \A n \in 1 .. Len(out) : out[n].stamp \in Nat /\ out[n].stamp <= Stamp
        BY <2>1, StampType DEF Inv, StampInv
      <3>2. \A n \in 1 .. Len(out) : out[n].stamp <= Stamp' /\ (delay >= Second => out[n].stamp < Stamp')
        BY <2>3, <3>1
      <3> QED BY <2>1, <3>2 DEF Inv, StampInv, OutInv, Time, Row
    <2>5. SliceInv' /\ EndInv'
      BY <1>1, <2>1 DEF Inv, SliceInv, EndInv, Good, Time, Row
    <2> QED BY <1>2, <1>4, <2>2, <2>4, <2>5 DEF Inv
  <1>6. CASE (RoundEnds \/ Again \/ Interrupt) /\ UNCHANGED now
    <2>1. /\ pc' \in {"again", "done", "open"} /\ HeadInv'
          /\ (pc # "publish" /\ UNCHANGED interrupted) \/ (interrupted' /\ pc' = "done")
      BY <1>6 DEF RoundEnds, Again, Interrupt, HeadInv
    <2>2. StampInv'
      BY <2>1 DEF Inv, StampInv, OutInv, Time, Row
    <2>3. SliceInv'
      BY <1>1, <2>1 DEF Inv, SliceInv, Good, Time, Row
    <2>4. EndInv'
      BY <1>1, <1>6 DEF Inv, EndInv, RoundEnds, Again, Interrupt
    <2> QED BY <1>2, <1>4, <2>1, <2>2, <2>3, <2>4 DEF Inv
  <1>7. CASE UNCHANGED <<pc, now, interrupted>>
    <2>1. HeadInv' /\ StampInv' /\ EndInv'
      BY <1>1, <1>7 DEF Inv, HeadInv, StampInv, OutInv, NowInv, Stamp, EndInv, Time, Row
    <2>2. SliceInv'
      BY <1>1, <1>7 DEF Inv, SliceInv, Good, Taken, Time, Row
    <2> QED BY <1>2, <1>4, <2>1, <2>2 DEF Inv
  <1> QED BY <1>5, <1>6, <1>7

-----------------------------------------------------------------------------
(* The merge.                                                              *)

\* The earliest head goes to the end of the line.
LEMMA TakeLine ==
  ASSUME Inv, NEW p \in Readings, Take(p)
  PROVE  /\ Good(p) /\ head[p[1]] = p[2] /\ LineInv' /\ TypeInv'
         /\ pc = "merge" /\ pc' \in {"merge", "failed"}
  <1>1. /\ pc = "merge" /\ p \in Heads /\ IsMin(p) /\ batch' = Append(batch, p)
        /\ head' = [head EXCEPT ![p[1]] = @ + 1] /\ UNCHANGED <<files, loop, delay, now, out, interrupted>>
        /\ pc' \in {"merge", "failed"}
    BY DEF Take
  <1>2. PICK f \in Files : p = <<f, head[f]>> /\ head[f] <= Len(files[f])
    BY <1>1 DEF Heads, Files
  <1>3. Good(p) /\ p[1] = f /\ p[2] = head[f] /\ head[f] \in Nat \ {0}
    BY <1>1, <1>2 DEF Good, Row, Inv, HeadInv, TypeInv
  <1>4. Readings' = Readings
    BY <1>1 DEF Readings
  <1>5. TypeInv'
    <2>1. head' \in [Files -> Nat \ {0}]
      BY <1>1, <1>3 DEF Inv, TypeInv
    <2>2. batch' \in Seq(Readings)
      BY <1>1 DEF Inv, TypeInv
    <2> QED BY <1>1, <1>4, <2>1, <2>2 DEF Inv, TypeInv
  <1>6. /\ Total \in Nat /\ Total' = Total + 1 /\ Line'[Total + 1] = p
        /\ \A i \in 1 .. Total : Line'[i] = Line[i]
    <2>1. /\ batch \in Seq(Readings) /\ Len(batch) \in Nat /\ Len(out) \in Nat
          /\ Len(batch') = Len(batch) + 1 /\ batch'[Len(batch) + 1] = p
          /\ \A i \in 1 .. Len(batch) : batch'[i] = batch[i]
      BY <1>1 DEF Inv, TypeInv
    <2>2. Total \in Nat /\ Total' = Total + 1 /\ Total = Len(out) + Len(batch)
      BY <1>1, <2>1 DEF Total
    <2>3. Line'[Total + 1] = p
      <3>1. Line' = [i \in 1 .. Total' |-> IF i <= Len(out) THEN out[i].row ELSE batch'[i - Len(out)]]
        BY <1>1 DEF Line
      <3> DEFINE n == Total + 1
      <3>2. n \in 1 .. Total' /\ ~(n <= Len(out)) /\ n - Len(out) = Len(batch) + 1
        BY <2>1, <2>2
      <3> HIDE DEF n
      <3>3. Line'[n] = batch'[n - Len(out)]
        BY <3>1, <3>2
      <3>4. Line'[n] = p
        BY <2>1, <3>2, <3>3
      <3> QED BY <3>4 DEF n
    <2>4. ASSUME NEW i \in 1 .. Total PROVE Line'[i] = Line[i]
      <3>1. i \in 1 .. Total' /\ (~(i <= Len(out)) => i - Len(out) \in 1 .. Len(batch))
        BY <2>1, <2>2
      <3> QED BY <1>1, <2>1, <3>1 DEF Line
    <2> QED BY <2>2, <2>3, <2>4
  <1>7. \A i \in 1 .. Total' : i \in 1 .. Total \/ i = Total + 1
    BY <1>6
  <1>8. ASSUME NEW q \in Readings PROVE (q[2] < head'[q[1]]) <=> (Taken(q) \/ q = p)
    <2>1. q[1] \in Files /\ q[2] \in Nat /\ q = <<q[1], q[2]>> /\ head[q[1]] \in Nat
      BY ReadingType DEF Inv
    <2>2. CASE q[1] = f
      <3>1. head'[q[1]] = head[f] + 1 /\ head[q[1]] = head[f]
        BY <1>1, <1>3, <2>2 DEF Inv, TypeInv
      <3>2. q[2] < head[f] + 1 <=> q[2] < head[f] \/ q[2] = head[f]
        BY <1>3, <2>1
      <3> QED BY <1>2, <2>1, <2>2, <3>1, <3>2 DEF Taken
    <2>3. CASE q[1] # f
      BY <1>1, <1>2, <1>3, <2>1, <2>3 DEF Inv, TypeInv, Taken
    <2> QED BY <2>2, <2>3
  <1>9. LineInv'
    <2>1. \A i \in 1 .. Total' : Good(Line'[i])
      BY <1>3, <1>6, <1>7 DEF Inv, LineInv
    <2>2. \A q \in Readings : q[2] < head'[q[1]] <=> \E i \in 1 .. Total' : Line'[i] = q
      <3>1. SUFFICES ASSUME NEW q \in Readings PROVE (Taken(q) \/ q = p) <=> \E i \in 1 .. Total' : Line'[i] = q
        BY <1>8
      <3>2. Taken(q) <=> \E i \in 1 .. Total : Line[i] = q
        BY DEF Inv, LineInv
      <3>3. \A i \in 1 .. Total : i \in 1 .. Total'
        BY <1>6
      <3>4. Total + 1 \in 1 .. Total'
        BY <1>6
      <3> QED BY <1>6, <1>7, <3>2, <3>3, <3>4
    <2>3. ~Taken(p)
      BY <1>3 DEF Taken
    <2>4. ASSUME NEW i \in 1 .. Total', NEW j \in 1 .. Total', i < j PROVE Before(Line'[i], Line'[j])
      <3>1. i \in 1 .. Total
        BY <1>6, <2>4
      <3>2. CASE j \in 1 .. Total
        BY <1>6, <2>4, <3>1, <3>2 DEF Inv, LineInv
      <3>3. CASE j = Total + 1
        <4>1. Before(Line[i], p)
          BY <1>3, <2>3, <3>1 DEF Inv, LineInv
        <4> QED BY <1>6, <3>1, <3>3, <4>1
      <3> QED BY <1>7, <3>2, <3>3
    <2>5. ASSUME NEW i \in 1 .. Total', NEW q \in Readings, Good(q), ~(q[2] < head'[q[1]])
          PROVE  Before(Line'[i], q)
      <3>1. ~Taken(q) /\ q # p
        BY <1>8, <2>5
      <3>2. CASE i \in 1 .. Total
        BY <1>6, <2>5, <3>1, <3>2 DEF Inv, LineInv
      <3>3. CASE i = Total + 1
        BY <1>1, <1>3, <1>6, <2>5, <3>1, <3>3, MinFirst
      <3> QED BY <1>7, <3>2, <3>3
    <2> QED BY <1>1, <1>4, <2>1, <2>2, <2>4, <2>5, SMTT(30) DEF LineInv, Good, Taken, Before, Time, Row
  <1> QED BY <1>1, <1>3, <1>5, <1>9

LEMMA TakeStep == ASSUME Inv, NEW p \in Readings, Take(p) PROVE Inv'
  <1>1. /\ InSlice(p) /\ batch' = Append(batch, p)
        /\ head' = [head EXCEPT ![p[1]] = @ + 1] /\ UNCHANGED <<files, loop, delay, now, out, interrupted>>
        /\ (pc' = "merge" => ~(p[2] < Len(files[p[1]]) /\ files[p[1]][p[2] + 1] = Bad))
    BY DEF Take
  <1>2. /\ Good(p) /\ head[p[1]] = p[2] /\ LineInv' /\ TypeInv' /\ pc = "merge" /\ pc' \in {"merge", "failed"}
    BY TakeLine
  <1>3. HeadInv'
    <2>1. SUFFICES ASSUME pc' = "merge", NEW f \in Files, head'[f] <= Len(files[f]) PROVE files[f][head'[f]] # Bad
      BY <1>1, <1>2 DEF HeadInv, Files
    <2>2. CASE f = p[1]
      <3>1. head'[f] = p[2] + 1 /\ p[2] \in Nat /\ Len(files[f]) \in Nat
        BY <1>1, <1>2, <2>2, ReadingType, FileType DEF Inv, TypeInv
      <3> QED BY <1>1, <2>1, <2>2, <3>1
    <2>3. CASE f # p[1]
      BY <1>1, <1>2, <2>1, <2>3 DEF Inv, TypeInv, HeadInv
    <2> QED BY <2>2, <2>3
  <1>4. \A m, n \in 1 .. Len(batch') : Time(batch'[m]) = Time(batch'[n])
    <2>1. /\ Len(batch) \in Nat /\ Len(batch') = Len(batch) + 1 /\ batch'[Len(batch) + 1] = p
          /\ \A i \in 1 .. Len(batch) : batch'[i] = batch[i]
          /\ (Len(batch) > 0 => batch # <<>>)
      BY <1>1 DEF Inv, TypeInv
    <2>2. \A i \in 1 .. Len(batch') : i \in 1 .. Len(batch) \/ i = Len(batch) + 1
      BY <2>1
    <2>3. ASSUME NEW i \in 1 .. Len(batch) PROVE Time(batch[i]) = Time(p)
      <3>1. 1 \in 1 .. Len(batch) /\ batch # <<>>
        BY <2>1
      <3>2. Time(batch[i]) = Time(batch[1])
        BY <3>1 DEF Inv, StampInv
      <3> QED BY <1>1, <3>1, <3>2 DEF InSlice
    <2>4. \A i \in 1 .. Len(batch') : Time(batch'[i]) = Time(p)
      BY <2>1, <2>2, <2>3
    <2> QED BY <2>4
  <1>5. StampInv'
    BY <1>1, <1>2, <1>4, SMTT(30) DEF Inv, StampInv, OutInv, Stamp, Time, Row
  <1>6. EndInv' /\ ~interrupted
    BY <1>1, <1>2 DEF Inv, EndInv
  <1>7. SliceInv'
    <2>1. \A m \in 1 .. Len(out), q \in Readings :
            Good(q) /\ Time(q) = Time(out[m].row) => \E n \in 1 .. Len(out) : out[n].row = q
      BY <1>1, <1>2, <1>6 DEF Inv, SliceInv
    <2>2. Readings' = Readings /\ \A q : Good(q)' = Good(q) /\ Time(q)' = Time(q)
      BY <1>1 DEF Good, Time, Row, Readings
    <2> QED BY <1>1, <1>2, <2>1, <2>2 DEF SliceInv
  <1> QED BY <1>2, <1>3, <1>5, <1>6, <1>7 DEF Inv

-----------------------------------------------------------------------------
(* The slices.                                                             *)

LEMMA SliceEndsStep == ASSUME Inv, SliceEnds PROVE Inv'
  <1>1. /\ pc = "merge" /\ batch # <<>> /\ pc' = "publish" /\ \A p \in Heads : IsMin(p) => ~InSlice(p)
        /\ UNCHANGED <<files, loop, delay, head, batch, now, out, interrupted>>
    BY DEF SliceEnds
  <1>2. Readings' = Readings /\ Total' = Total /\ Line' = Line /\ ~interrupted
    BY <1>1 DEF Readings, Total, Line, Inv, EndInv
  <1>3. LineInv' /\ TypeInv' /\ HeadInv' /\ EndInv'
    BY <1>1, <1>2, LineKept DEF Inv, TypeInv, HeadInv, EndInv
  <1>4. /\ Len(out) \in Nat /\ Len(batch) \in Nat \ {0} /\ Total = Len(out) + Len(batch)
        /\ \A i \in 1 .. Len(out) : out[i].row = Line[i] /\ i \in 1 .. Total
        /\ \A i \in 1 .. Len(batch) : batch[i] = Line[Len(out) + i] /\ Len(out) + i \in 1 .. Total
    <2>1. Len(batch) # 0
      BY <1>1 DEF Inv, TypeInv
    <2> QED BY <2>1, LineType DEF Inv
  <1>5. batch[1] = Line[Len(out) + 1] /\ Len(out) + 1 \in 1 .. Total /\ Good(batch[1])
    BY <1>4 DEF Inv, LineInv
  <1>6. ASSUME NEW n \in 1 .. Len(out) PROVE Time(out[n].row) # Time(batch[1])
    <2>1. SUFFICES ASSUME Time(batch[1]) = Time(out[n].row) PROVE FALSE
      OBVIOUS
    <2>2. PICK m \in 1 .. Len(out) : out[m].row = batch[1]
      BY <1>1, <1>2, <1>5, <2>1 DEF Inv, SliceInv, Good
    <2>3. Before(Line[m], Line[Len(out) + 1]) /\ Line[m] = batch[1]
      BY <1>4, <1>5, <2>2 DEF Inv, LineInv
    <2> QED BY <1>5, <2>3, Asymmetric DEF Inv
  <1>7. StampInv'
    <2>1. \A n \in 1 .. Len(out) :
            out[n].stamp \in Nat /\ out[n].stamp <= Stamp /\ (delay >= Second => out[n].stamp < Stamp)
      BY <1>1, StampType DEF Inv, StampInv
    <2>2. Stamp \in Nat /\ Stamp' = Stamp
      BY <1>1, StampNat DEF Inv, Stamp
    <2>3. NowInv
      BY <1>1, <1>6, <2>1, <2>2 DEF NowInv
    <2>4. NowInv'
      BY <1>1, <2>2, <2>3 DEF NowInv, Time, Row
    <2> QED BY <1>1, <2>1, <2>2, <2>4 DEF Inv, StampInv, OutInv, Time, Row
  <1>8. ASSUME NEW i \in 1 .. Total, NEW p \in Readings, Good(p), ~Taken(p) PROVE Time(Line[i]) # Time(p)
    <2>1. CASE i <= Len(out)
      <3>1. SUFFICES ASSUME Time(p) = Time(Line[i]) PROVE FALSE
        OBVIOUS
      <3>2. PICK m \in 1 .. Len(out) : out[m].row = p
        BY <1>1, <1>2, <1>4, <1>8, <2>1, <3>1 DEF Inv, SliceInv
      <3>3. Line[m] = p /\ m \in 1 .. Total
        BY <1>4, <3>2
      <3> QED BY <1>8, <3>3 DEF Inv, LineInv
    <2>2. CASE ~(i <= Len(out))
      <3>1. i - Len(out) \in 1 .. Len(batch) /\ 1 \in 1 .. Len(batch) /\ Line[i] = batch[i - Len(out)]
        BY <1>4, <2>2
      <3>2. Time(Line[i]) = Time(batch[1])
        BY <3>1 DEF Inv, StampInv
      <3>3. Heads # {}
        BY <1>1, <1>8, BehindHead
      <3>4. PICK h \in Heads : IsMin(h) /\ Good(h)
        BY <1>1, <3>3, MinHead
      <3>5. Time(h) # Time(batch[1])
        BY <1>1, <3>4 DEF InSlice
      <3>6. h \in Readings /\ ~Taken(h)
        <4>1. PICK f \in Files : h = <<f, head[f]>>
          BY <3>4 DEF Heads, Files
        <4>2. head[f] \in Nat /\ h[1] = f /\ h[2] = head[f]
          BY <4>1 DEF Inv, TypeInv
        <4> QED BY <3>4, <4>2 DEF Good, Taken
      <3>7. Before(batch[1], h)
        BY <1>5, <3>4, <3>6 DEF Inv, LineInv
      <3>8. h = p \/ Before(h, p)
        BY <1>1, <1>8, <3>4, MinFirst
      <3>9. Time(batch[1]) <= Time(h) /\ Time(h) <= Time(p)
        <4>1. Time(batch[1]) <= Time(h)
          BY <1>5, <3>4, <3>7, Asymmetric DEF Inv
        <4>2. CASE h = p
          BY <4>1, <4>2, <3>4, ReadingType DEF Inv
        <4>3. CASE Before(h, p)
          BY <1>8, <3>4, <4>1, <4>3, Asymmetric DEF Inv
        <4> QED BY <3>8, <4>2, <4>3
      <3>10. Time(batch[1]) \in Nat /\ Time(h) \in Nat /\ Time(p) \in Nat
        BY <1>5, <1>8, <3>4, ReadingType DEF Inv
      <3> HIDE DEF Time
      <3> QED BY <3>2, <3>5, <3>9, <3>10
    <2> QED BY <2>1, <2>2
  <1>9. SliceInv'
    BY <1>1, <1>2, <1>8 DEF SliceInv, Good, Taken, Time, Row
  <1> QED BY <1>3, <1>7, <1>9 DEF Inv

LEMMA PublishStep == ASSUME Inv, Publish PROVE Inv'
  <1> DEFINE entry == [row |-> Head(batch), stamp |-> Stamp]
  <1>1. /\ pc = "publish" /\ out' = Append(out, entry) /\ batch' = Tail(batch) /\ batch # <<>>
        /\ pc' = IF Len(batch) = 1 THEN "sleep" ELSE "publish"
        /\ UNCHANGED <<files, loop, delay, head, now, interrupted>>
    BY DEF Publish, Inv, StampInv, NowInv
  <1>2. Readings' = Readings /\ ~interrupted
    BY <1>1 DEF Readings, Inv, EndInv
  <1>3. /\ batch \in Seq(Readings) /\ Len(batch) \in Nat /\ Len(batch) >= 1
        /\ Head(batch) = batch[1] /\ batch[1] \in Readings
        /\ Len(batch') = Len(batch) - 1 /\ batch' \in Seq(Readings)
        /\ \A i \in 1 .. Len(batch') : batch'[i] = batch[i + 1] /\ i + 1 \in 1 .. Len(batch)
        /\ (Len(batch) = 1 <=> batch' = <<>>)
    <2>1. batch \in Seq(Readings) /\ batch # <<>> /\ batch' = Tail(batch)
      BY <1>1 DEF Inv, TypeInv
    <2>2. /\ Len(batch) \in Nat /\ Len(batch) >= 1 /\ Head(batch) = batch[1] /\ batch[1] \in Readings
          /\ Len(batch') = Len(batch) - 1 /\ batch' \in Seq(Readings)
          /\ \A i \in 1 .. Len(batch') : batch'[i] = batch[i + 1]
      BY <2>1
    <2>3. \A i \in 1 .. Len(batch') : i + 1 \in 1 .. Len(batch)
      BY <2>2
    <2>4. Len(batch) = 1 <=> batch' = <<>>
      BY <2>2
    <2> QED BY <2>1, <2>2, <2>3, <2>4
  <1>4. entry \in [row : Readings, stamp : Nat] /\ entry.row = batch[1] /\ entry.stamp = Stamp
    BY <1>3, StampNat DEF Inv
  <1> HIDE DEF entry
  <1>5. /\ out' \in Seq([row : Readings, stamp : Nat]) /\ Len(out) \in Nat /\ Len(out') = Len(out) + 1
        /\ out'[Len(out) + 1] = entry /\ \A i \in 1 .. Len(out) : out'[i] = out[i]
    <2> DEFINE S == [row : Readings, stamp : Nat]
    <2>1. out \in Seq(S) /\ entry \in S
      BY <1>4 DEF Inv, TypeInv
    <2>2. out' \in Seq(S) /\ Len(out) \in Nat /\ Len(out') = Len(out) + 1
          /\ out'[Len(out) + 1] = entry /\ \A i \in 1 .. Len(out) : out'[i] = out[i]
      <3> HIDE DEF S
      <3> QED BY <1>1, <2>1
    <2> QED BY <2>2
  <1>6. TypeInv' /\ HeadInv' /\ EndInv'
    BY <1>1, <1>2, <1>3, <1>5 DEF Inv, TypeInv, HeadInv, EndInv
  <1>7. Total' = Total /\ Total = Len(out) + Len(batch) /\ \A i \in 1 .. Len(out') : i \in 1 .. Len(out) \/ i = Len(out) + 1
    BY <1>3, <1>5 DEF Total
  <1>8. Line' = Line
    <2>1. ASSUME NEW i \in 1 .. Total
          PROVE  (IF i <= Len(out') THEN out'[i].row ELSE batch'[i - Len(out')])
                   = IF i <= Len(out) THEN out[i].row ELSE batch[i - Len(out)]
      <3>1. CASE i <= Len(out)
        <4>1. i \in 1 .. Len(out) /\ i <= Len(out')
          BY <1>5, <1>7, <3>1
        <4> QED BY <1>5, <3>1, <4>1
      <3>2. CASE i = Len(out) + 1
        <4>1. ~(i <= Len(out)) /\ i <= Len(out') /\ i - Len(out) = 1
          BY <1>5, <3>2
        <4> QED BY <1>4, <1>5, <3>2, <4>1
      <3>3. CASE i > Len(out) + 1
        <4>1. ~(i <= Len(out)) /\ ~(i <= Len(out')) /\ i - Len(out') \in 1 .. Len(batch')
              /\ (i - Len(out')) + 1 = i - Len(out)
          BY <1>3, <1>5, <1>7, <3>3
        <4>2. batch'[i - Len(out')] = batch[(i - Len(out')) + 1]
          BY <1>3, <4>1
        <4> QED BY <4>1, <4>2
      <3> QED BY <1>5, <3>1, <3>2, <3>3
    <2> QED BY <1>7, <2>1 DEF Line
  <1>9. LineInv'
    BY <1>1, <1>7, <1>8, LineKept DEF Inv
  <1>10. \A n \in 1 .. Len(batch) : Time(batch[n]) = Time(batch[1])
    BY <1>3 DEF Inv, StampInv
  <1>11. \A n \in 1 .. Len(out) :
           /\ out[n].stamp <= Stamp
           /\ Time(out[n].row) = Time(batch[1]) => out[n].stamp = Stamp
           /\ delay >= Second /\ out[n].stamp = Stamp => Time(out[n].row) = Time(batch[1])
    BY <1>1 DEF Inv, StampInv, NowInv
  <1>12. ASSUME NEW m \in 1 .. Len(out'), NEW n \in 1 .. Len(out')
         PROVE  /\ m < n => out'[m].stamp <= out'[n].stamp
                /\ Time(out'[m].row) = Time(out'[n].row) => out'[m].stamp = out'[n].stamp
                /\ delay >= Second /\ out'[m].stamp = out'[n].stamp => Time(out'[m].row) = Time(out'[n].row)
    <2> HIDE DEF Time
    <2>1. CASE m \in 1 .. Len(out) /\ n \in 1 .. Len(out)
      BY <1>5, <2>1 DEF Inv, StampInv, OutInv
    <2>2. CASE m \in 1 .. Len(out) /\ n = Len(out) + 1
      BY <1>4, <1>5, <1>11, <2>2
    <2>3. CASE m = Len(out) + 1 /\ n \in 1 .. Len(out)
      BY <1>4, <1>5, <1>11, <2>3
    <2>4. CASE m = Len(out) + 1 /\ n = Len(out) + 1
      BY <2>4
    <2> QED BY <1>7, <2>1, <2>2, <2>3, <2>4
  <1>13. \A n \in 1 .. Len(out') : out'[n].stamp <= Stamp
    <2>1. Stamp <= Stamp
      BY StampNat DEF Inv
    <2> QED BY <1>4, <1>5, <1>7, <1>11, <2>1
  <1>14. ASSUME Len(batch) # 1 PROVE batch' # <<>> /\ Time(batch'[1]) = Time(batch[1])
    <2>1. batch'[1] = batch[2] /\ 2 \in 1 .. Len(batch) /\ batch' # <<>>
      BY <1>3, <1>14
    <2> QED BY <1>10, <2>1
  <1>15. \A n \in 1 .. Len(out') :
           /\ Time(out'[n].row) = Time(batch[1]) => out'[n].stamp = Stamp
           /\ delay >= Second /\ out'[n].stamp = Stamp => Time(out'[n].row) = Time(batch[1])
    <2> HIDE DEF Time
    <2> QED BY <1>4, <1>5, <1>7, <1>11
  <1>16. \A m, n \in 1 .. Len(batch') : Time(batch'[m]) = Time(batch'[n])
    <2>1. \A m \in 1 .. Len(batch') : Time(batch'[m]) = Time(batch[1])
      BY <1>3, <1>10
    <2> QED BY <2>1
  <1>17. StampInv'
    <2>1. /\ pc' # "merge" /\ (pc' = "sleep" => batch' = <<>>)
          /\ (pc' = "publish" => Len(batch) # 1)
      BY <1>1, <1>3
    <2>2. ASSUME pc' = "publish", NEW n \in 1 .. Len(out')
          PROVE  /\ Time(out'[n].row) = Time(batch'[1]) => out'[n].stamp = Stamp
                 /\ delay >= Second /\ out'[n].stamp = Stamp => Time(out'[n].row) = Time(batch'[1])
      BY <1>14, <1>15, <2>1, <2>2
    <2>3. pc' = "publish" => batch' # <<>>
      BY <1>14, <2>1
    <2>4. Stamp' = Stamp /\ files' = files /\ delay' = delay
      BY <1>1 DEF Stamp
    <2>5. OutInv'
      BY <1>12, <2>4 DEF OutInv, Time, Row
    <2>6. pc' = "publish" => NowInv'
      BY <2>2, <2>3, <2>4 DEF NowInv, Time, Row
    <2> QED BY <1>13, <1>16, <2>1, <2>4, <2>5, <2>6 DEF StampInv, Time, Row
  <1>18. ASSUME NEW i \in 1 .. Total, NEW p \in Readings, Good(p), ~Taken(p) PROVE Time(Line[i]) # Time(p)
    BY <1>1, <1>18 DEF Inv, SliceInv
  <1>19. ASSUME batch' = <<>>, NEW m \in 1 .. Len(out'), NEW p \in Readings, Good(p), Time(p) = Time(out'[m].row)
         PROVE  \E n \in 1 .. Len(out') : out'[n].row = p
    <2>1. Total = Len(out') /\ \A i \in 1 .. Len(out') : out'[i].row = Line[i]
      <3>1. Len(batch') = 0 /\ Total = Len(out')
        BY <1>3, <1>5, <1>7, <1>19
      <3>2. Line = [i \in 1 .. Total |-> IF i <= Len(out') THEN out'[i].row ELSE batch'[i - Len(out')]]
        BY <1>7, <1>8 DEF Line
      <3> QED BY <1>5, <3>1, <3>2
    <2>2. Taken(p)
      BY <1>18, <1>19, <2>1
    <2> QED BY <2>1, <2>2 DEF Inv, LineInv
  <1>20. SliceInv'
    <2>1. CASE Len(batch) = 1
      BY <1>1, <1>2, <1>3, <1>19, <2>1 DEF SliceInv, Good, Time, Row
    <2>2. CASE Len(batch) # 1
      BY <1>1, <1>2, <1>7, <1>8, <1>18, <2>2 DEF SliceInv, Good, Taken, Time, Row
    <2> QED BY <2>1, <2>2
  <1> QED BY <1>6, <1>9, <1>17, <1>20 DEF Inv

-----------------------------------------------------------------------------

LEMMA NextStep == ASSUME Inv, [Next]_vars PROVE Inv'
  <1>1. CASE Open
    BY <1>1, OpenStep
  <1>2. CASE \E p \in Readings : Take(p)
    BY <1>2, TakeStep
  <1>3. CASE SliceEnds
    BY <1>3, SliceEndsStep
  <1>4. CASE Publish
    BY <1>4, PublishStep
  <1>5. CASE Sleep
    BY <1>5, QuietStep DEF Sleep
  <1>6. CASE RoundEnds \/ Again \/ Interrupt
    BY <1>6, QuietStep DEF RoundEnds, Again, Interrupt
  <1>7. CASE UNCHANGED vars
    BY <1>7, QuietStep DEF vars
  <1> QED BY <1>1, <1>2, <1>3, <1>4, <1>5, <1>6, <1>7 DEF Next, Step

\* What is known of the merge and of the slices, throughout every run.
THEOREM Invariance == Spec => []Inv
  BY InitInv, NextStep, PTL DEF Spec

\* What is published is the beginning of the line.
LEMMA PublishedLine ==
  ASSUME Inv
  PROVE  /\ Published = {Line[i] : i \in 1 .. Len(out)}
         /\ \A i \in 1 .. Len(out) : Good(Line[i]) /\ i \in 1 .. Total
  <1>1. DOMAIN out = 1 .. Len(out)
    BY DEF Inv, TypeInv
  <1>2. \A i \in 1 .. Len(out) : out[i].row = Line[i] /\ i \in 1 .. Total
    BY LineType DEF Inv
  <1> QED BY <1>1, <1>2 DEF Published, Inv, LineInv

\* iter_readings and iter_time_slices of src/sensors_agent/csv_source.py: what a
\* round publishes is a beginning of the merged files in order, and so are its new
\* timestamps: one for each slice, and for no other slice unless sensors_delay is
\* less than a second.
THEOREM MergeCorrect == Spec => []MergedInSlices
  <1>1. Inv => MergedInSlices
    <2>1. SUFFICES ASSUME Inv PROVE MergedInSlices
      OBVIOUS
    <2>2. DOMAIN out = 1 .. Len(out) /\ Len(out) \in Nat
      BY <2>1 DEF Inv, TypeInv
    <2>3. \A i \in 1 .. Len(out) : out[i].row = Line[i] /\ i \in 1 .. Total
      BY <2>1, LineType DEF Inv
    <2>4. ASSUME NEW m \in DOMAIN out, NEW n \in DOMAIN out
          PROVE  /\ m < n => Before(out[m].row, out[n].row) /\ out[m].stamp <= out[n].stamp
                 /\ Time(out[m].row) = Time(out[n].row) => out[m].stamp = out[n].stamp
                 /\ delay >= Second /\ out[m].stamp = out[n].stamp => Time(out[m].row) = Time(out[n].row)
      <3>1. m < n => Before(Line[m], Line[n])
        BY <2>1, <2>2, <2>3 DEF Inv, LineInv
      <3>2. /\ m < n => out[m].stamp <= out[n].stamp
            /\ Time(out[m].row) = Time(out[n].row) => out[m].stamp = out[n].stamp
            /\ delay >= Second /\ out[m].stamp = out[n].stamp => Time(out[m].row) = Time(out[n].row)
        BY <2>1, <2>2 DEF Inv, StampInv, OutInv
      <3> QED BY <2>2, <2>3, <3>1, <3>2
    <2>5. ASSUME NEW p \in Readings, NEW q \in Published, Row(p) # Bad, Before(p, q) PROVE p \in Published
      <3>1. PICK j \in 1 .. Len(out) : q = Line[j] /\ Good(q) /\ j \in 1 .. Total
        BY <2>1, PublishedLine
      <3>2. Good(p) /\ ~Before(q, p)
        BY <2>1, <2>5, <3>1, Asymmetric DEF Good, Inv
      <3>3. Taken(p)
        BY <2>1, <3>1, <3>2 DEF Inv, LineInv
      <3>4. PICK i \in 1 .. Total : Line[i] = p
        BY <2>1, <3>3 DEF Inv, LineInv
      <3>5. ~(j < i)
        BY <2>1, <3>1, <3>2, <3>4 DEF Inv, LineInv
      <3>6. i \in 1 .. Len(out)
        BY <2>1, <2>2, <3>1, <3>4, <3>5, LineType DEF Inv
      <3> QED BY <2>1, <3>4, <3>6, PublishedLine
    <2> QED BY <2>4, <2>5 DEF MergedInSlices
  <1> QED BY <1>1, Invariance, PTL

\* A slice of iter_time_slices is published whole or not at all, also before a
\* row that cannot be read.
THEOREM SlicesCorrect == Spec => []WholeSlices
  <1>1. Inv => WholeSlices
    <2>1. SUFFICES ASSUME Inv, pc # "publish", ~interrupted, NEW p \in Readings, NEW q \in Published,
                          Row(p) # Bad, Time(p) = Time(q)
                   PROVE  p \in Published
      BY DEF WholeSlices
    <2>2. DOMAIN out = 1 .. Len(out)
      BY <2>1 DEF Inv, TypeInv
    <2>3. PICK m \in 1 .. Len(out) : q = out[m].row
      BY <2>2 DEF Published
    <2>4. PICK n \in 1 .. Len(out) : out[n].row = p
      BY <2>1, <2>3 DEF Inv, SliceInv, Good
    <2> QED BY <2>2, <2>4 DEF Published
  <1> QED BY <1>1, Invariance, PTL

\* publish_stream comes to the end of a round only when every row of every file
\* has been published.
THEOREM RoundCorrect == Spec => []RoundComplete
  <1>1. Inv => RoundComplete
    <2>1. SUFFICES ASSUME Inv, pc = "again" \/ (pc = "done" /\ ~interrupted) PROVE Published = Readings
      BY DEF RoundComplete
    <2>2. batch = <<>> /\ Heads = {}
      BY <2>1 DEF Inv, EndInv
    <2>3. Total = Len(out)
      BY <2>1, <2>2, LineType DEF Inv
    <2>4. ASSUME NEW p \in Readings PROVE Taken(p)
      <3>1. p[1] \in Files /\ p[2] \in Nat /\ p[2] <= Len(files[p[1]]) /\ head[p[1]] \in Nat
            /\ Len(files[p[1]]) \in Nat
        BY <2>1, ReadingType, FileType DEF Inv
      <3>2. ~(head[p[1]] <= Len(files[p[1]]))
        BY <2>2, <3>1 DEF Heads, Files
      <3> QED BY <3>1, <3>2 DEF Taken
    <2>5. Readings \subseteq Published
      BY <2>1, <2>3, <2>4, PublishedLine DEF Inv, LineInv
    <2>6. Published \subseteq Readings
      BY <2>1, PublishedLine DEF Good
    <2> QED BY <2>5, <2>6
  <1> QED BY <1>1, Invariance, PTL

-----------------------------------------------------------------------------
(* The rules of the edge.                                                  *)

\* Each kind of payload: the chain of thresholds against one range per flag.
LEMMA CarParkRules ==
  ASSUME NEW p, None \notin Int, p.kind = "car_park",
         p.occupied \in Int, p.total \in Int, p.stay \in Int \cup {None}
  PROVE  Edge!CarParkFlags(p) = Edge!Due(p)
  <1> SUFFICES ASSUME NEW f PROVE f \in Edge!CarParkFlags(p) <=> f \in Edge!Due(p)
    OBVIOUS
  <1>1. f \in Edge!CarParkFlags(p) <=>
          \/ f = "overcrowded" /\ 100 * p.occupied >= 95 * p.total
          \/ f = "long_stay" /\ p.stay # None /\ p.stay >= 240
    BY DEF Edge!CarParkFlags, Edge!When
  <1>2. f \in Edge!Due(p) <=>
          \/ f = "overcrowded" /\ 20 * (p.total - p.occupied) <= p.total
          \/ f = "long_stay" /\ p.stay # None /\ 240 <= p.stay
    BY DEF Edge!Due, Edge!From
  <1>3. 100 * p.occupied >= 95 * p.total <=> 20 * (p.total - p.occupied) <= p.total
    OBVIOUS
  <1>4. p.stay # None => (p.stay >= 240 <=> 240 <= p.stay)
    OBVIOUS
  <1> QED BY <1>1, <1>2, <1>3, <1>4

LEMMA TrafficLightRules ==
  ASSUME NEW p, None \notin Int, p.kind = "traffic_light", p.queue \in Int
  PROVE  Edge!TrafficLightFlags(p) = Edge!Due(p)
  BY DEF Edge!TrafficLightFlags, Edge!Due, Edge!When, Edge!From, Edge!Within

LEMMA AirQualityRules ==
  ASSUME NEW p, None \notin Int, p.kind = "air_quality",
         p.pm25 \in Int, p.pm10 \in Int, p.no2 \in Int, p.o3 \in Int \cup {None}
  PROVE  Edge!AirQualityFlags(p) = Edge!Due(p)
  <1> SUFFICES ASSUME NEW f PROVE f \in Edge!AirQualityFlags(p) <=> f \in Edge!Due(p)
    OBVIOUS
  <1>1. f \in Edge!AirQualityFlags(p) <=>
          \/ f = "hazardous_pm25" /\ p.pm25 >= 150
          \/ f = "very_unhealthy_pm25" /\ p.pm25 >= 55 /\ ~(p.pm25 >= 150)
          \/ f = "unhealthy_pm25" /\ p.pm25 >= 35 /\ ~(p.pm25 >= 55) /\ ~(p.pm25 >= 150)
          \/ f = "unhealthy_pm10" /\ p.pm10 >= 150
          \/ f = "high_no2" /\ p.no2 >= 60
          \/ f = "high_o3" /\ p.o3 # None /\ p.o3 >= 100
    BY DEF Edge!AirQualityFlags, Edge!When
  <1>2. f \in Edge!Due(p) <=>
          \/ f = "hazardous_pm25" /\ Edge!From(p.pm25, 150)
          \/ f = "very_unhealthy_pm25" /\ Edge!Within(p.pm25, 55, 150)
          \/ f = "unhealthy_pm25" /\ Edge!Within(p.pm25, 35, 55)
          \/ f = "unhealthy_pm10" /\ Edge!From(p.pm10, 150)
          \/ f = "high_no2" /\ Edge!From(p.no2, 60)
          \/ f = "high_o3" /\ Edge!From(p.o3, 100)
    BY ZenonT(60) DEF Edge!Due
  <1>3. /\ p.pm25 >= 150 <=> Edge!From(p.pm25, 150)
        /\ p.pm25 >= 55 /\ ~(p.pm25 >= 150) <=> Edge!Within(p.pm25, 55, 150)
        /\ p.pm25 >= 35 /\ ~(p.pm25 >= 55) /\ ~(p.pm25 >= 150) <=> Edge!Within(p.pm25, 35, 55)
    BY DEF Edge!From, Edge!Within
  <1>4. /\ p.pm10 >= 150 <=> Edge!From(p.pm10, 150)
        /\ p.no2 >= 60 <=> Edge!From(p.no2, 60)
        /\ p.o3 # None /\ p.o3 >= 100 <=> Edge!From(p.o3, 100)
    BY DEF Edge!From
  <1> QED BY <1>1, <1>2, <1>3, <1>4

LEMMA EnergyMeterRules ==
  ASSUME NEW p, None \notin Int, p.kind = "energy_meter",
         p.voltage \in Int, p.pf \in Int \cup {None}, p.power \in Int
  PROVE  Edge!EnergyMeterFlags(p) = Edge!Due(p)
  <1> SUFFICES ASSUME NEW f PROVE f \in Edge!EnergyMeterFlags(p) <=> f \in Edge!Due(p)
    OBVIOUS
  <1>1. f \in Edge!EnergyMeterFlags(p) <=>
          \/ f = "voltage_out_of_range" /\ ~(207 <= p.voltage /\ p.voltage <= 253)
          \/ f = "poor_power_factor" /\ p.pf # None /\ p.pf < 90
          \/ f = "power_overload" /\ p.power >= 6
    BY DEF Edge!EnergyMeterFlags, Edge!When
  <1>2. f \in Edge!Due(p) <=>
          \/ f = "voltage_out_of_range" /\ ~Edge!Within(p.voltage, 207, 254)
          \/ f = "poor_power_factor" /\ p.pf # None /\ ~Edge!From(p.pf, 90)
          \/ f = "power_overload" /\ Edge!From(p.power, 6)
    BY DEF Edge!Due
  <1>3. /\ (207 <= p.voltage /\ p.voltage <= 253) <=> Edge!Within(p.voltage, 207, 254)
        /\ p.power >= 6 <=> Edge!From(p.power, 6)
    BY DEF Edge!From, Edge!Within
  <1>4. p.pf # None => (p.pf < 90 <=> ~Edge!From(p.pf, 90))
    BY DEF Edge!From
  <1> QED BY <1>1, <1>2, <1>3, <1>4

LEMMA RulesAreDue ==
  ASSUME NEW m \in Messages
  PROVE  Edge!DetectAnomalyFlags(m.payload) = Edge!Due(m.payload)
  BY MessagesAssumption, CarParkRules, TrafficLightRules, AirQualityRules, EnergyMeterRules
     DEF Edge!MessagesAssumption, Edge!DetectAnomalyFlags

-----------------------------------------------------------------------------
(* The edge.                                                               *)

\* The flags of a message: its own and those of the rules.
FlagsOf(m) == m.flags \cup Edge!DetectAnomalyFlags(m.payload)

Forwarded == [number : Nat, flags : {FlagsOf(m) : m \in Messages}]

\* What was published keeps its number, and what waits has one.
EdgeInv ==
  /\ sent \in Seq(Messages)
  /\ inbox \in Seq(1 .. Len(sent))
  /\ forwarded \in Seq(Forwarded)
  /\ \A k \in 1 .. Len(forwarded) :
       forwarded[k].number \in 1 .. Len(sent) /\ forwarded[k].flags = FlagsOf(sent[forwarded[k].number])

LEMMA EnrichedFields ==
  ASSUME NEW n \in Nat, sent[n] \in Messages
  PROVE  /\ Edge!Enriched(n) \in Forwarded
         /\ Edge!Enriched(n).number = n /\ Edge!Enriched(n).flags = FlagsOf(sent[n])
  BY DEF Edge!Enriched, FlagsOf, Forwarded

LEMMA EdgeInvInit == Edge!Init => EdgeInv
  <1> SUFFICES ASSUME Edge!Init PROVE EdgeInv
    OBVIOUS
  <1>1. sent = <<>> /\ inbox = <<>> /\ forwarded = <<>>
    BY DEF Edge!Init, Edge!ClientInit
  <1> QED BY <1>1 DEF EdgeInv

\* A longer list of messages has the same ones in front.
LEMMA ArriveKeeps ==
  ASSUME EdgeInv, NEW message \in Messages, Edge!Arrive(message), UNCHANGED forwarded
  PROVE  EdgeInv'
  <1>1. /\ sent' \in Seq(Messages) /\ Len(sent') = Len(sent) + 1 /\ Len(sent) \in Nat
        /\ \A n \in 1 .. Len(sent) : sent'[n] = sent[n]
    BY AppendProperties DEF EdgeInv, Edge!Arrive
  <1>2. inbox' \in Seq(1 .. Len(sent'))
    <2>1. 1 .. Len(sent) \subseteq 1 .. Len(sent') /\ Len(sent) + 1 \in 1 .. Len(sent')
      BY <1>1
    <2>2. inbox \in Seq(1 .. Len(sent'))
      BY <2>1, SeqMonotonic DEF EdgeInv
    <2>3. Append(inbox, Len(sent) + 1) \in Seq(1 .. Len(sent'))
      BY <2>1, <2>2, AppendProperties
    <2> QED BY <2>2, <2>3 DEF Edge!Arrive
  <1>3. ASSUME NEW k \in 1 .. Len(forwarded)
        PROVE  /\ forwarded[k].number \in 1 .. Len(sent')
               /\ forwarded[k].flags = FlagsOf(sent'[forwarded[k].number])
    <2>1. forwarded[k].number \in 1 .. Len(sent) /\ forwarded[k].flags = FlagsOf(sent[forwarded[k].number])
      BY DEF EdgeInv
    <2> QED BY <1>1, <2>1
  <1> QED BY <1>1, <1>2, <1>3 DEF EdgeInv

\* What is published is made of a message that waited.
LEMMA OnMessageKeeps == ASSUME EdgeInv, Edge!OnMessage PROVE EdgeInv'
  <1>1. sent' = sent /\ inbox # <<>> /\ inbox' = Tail(inbox)
    BY DEF Edge!OnMessage
  <1>2. Head(inbox) \in 1 .. Len(sent) /\ inbox' \in Seq(1 .. Len(sent))
    BY <1>1, EmptySeq DEF EdgeInv
  <1>3. CASE forwarded' = forwarded
    BY <1>1, <1>2, <1>3 DEF EdgeInv
  <1>4. CASE forwarded' = Append(forwarded, Edge!Enriched(Head(inbox)))
    <2> DEFINE n == Head(inbox)
    <2>1. sent[n] \in Messages /\ n \in Nat
      BY <1>2, ElementOfSeq DEF EdgeInv
    <2> HIDE DEF n
    <2>2. /\ Edge!Enriched(n) \in Forwarded
          /\ Edge!Enriched(n).number = n /\ Edge!Enriched(n).flags = FlagsOf(sent[n])
      BY <2>1, EnrichedFields
    <2>3. /\ forwarded' \in Seq(Forwarded) /\ Len(forwarded') = Len(forwarded) + 1
          /\ \A k \in 1 .. Len(forwarded) + 1 :
               forwarded'[k] = IF k <= Len(forwarded) THEN forwarded[k] ELSE Edge!Enriched(n)
      BY <1>4, <2>2, AppendProperties DEF EdgeInv, n
    <2>4. n \in 1 .. Len(sent) /\ Len(forwarded) \in Nat
      BY <1>2 DEF EdgeInv, n
    <2>5. ASSUME NEW k \in 1 .. Len(forwarded')
          PROVE  /\ forwarded'[k].number \in 1 .. Len(sent)
                 /\ forwarded'[k].flags = FlagsOf(sent[forwarded'[k].number])
      <3>1. CASE k <= Len(forwarded)
        <4>1. k \in 1 .. Len(forwarded) /\ forwarded'[k] = forwarded[k]
          BY <2>3, <2>4, <3>1
        <4> QED BY <4>1 DEF EdgeInv
      <3>2. CASE ~(k <= Len(forwarded))
        <4>1. forwarded'[k] = Edge!Enriched(n)
          BY <2>3, <2>4, <3>2
        <4>2. forwarded'[k].number = n /\ forwarded'[k].flags = FlagsOf(sent[n])
          BY <2>2, <4>1
        <4> QED BY <2>4, <4>2
      <3> QED BY <3>1, <3>2
    <2> QED BY <1>1, <1>2, <2>3, <2>5 DEF EdgeInv
  <1> QED BY <1>3, <1>4 DEF Edge!OnMessage

LEMMA EdgeInvStep == ASSUME EdgeInv, [EachNext]_<<process, vars, edgeVars>> PROVE EdgeInv'
  <1>1. ASSUME UNCHANGED <<sent, forwarded>>, inbox' = inbox \/ inbox' = <<>> PROVE EdgeInv'
    <2>1. inbox' \in Seq(1 .. Len(sent))
      BY <1>1, <<>> \in Seq(1 .. Len(sent)) DEF EdgeInv
    <2> QED BY <1>1, <2>1 DEF EdgeInv
  <1>2. CASE Edge!Connect \/ Edge!Redial \/ Edge!OnConnect \/ Edge!Interrupt \/ Edge!Stop
    BY <1>1, <1>2 DEF Edge!Connect, Edge!Redial, Edge!OnConnect, Edge!Interrupt, Edge!Stop,
                      Edge!Dial, Edge!Hangup, Edge!clientVars
  <1>3. CASE Edge!Outside
    BY <1>1, <1>3, ArriveKeeps DEF Edge!Outside, Edge!Lose, Edge!Hangup
  <1>4. CASE UNCHANGED edgeVars
    BY <1>1, <1>4 DEF edgeVars
  <1> QED BY <1>2, <1>3, <1>4, OnMessageKeeps DEF EachNext, Edge!Next

\* What reaches the hub has the flags that its values call for on their own
\* terms and those of the device: detect_anomaly_flags of
\* src/sensors_edge/anomaly_rules.py, through _on_message.
THEOREM FlagsCorrect == EachSpec => []FlagsAreDue
  <1>1. EachInit => EdgeInv
    BY EdgeInvInit DEF EachInit
  <1>2. EdgeInv => FlagsAreDue
    <2> SUFFICES ASSUME EdgeInv, NEW k \in 1 .. Len(forwarded)
                 PROVE  forwarded[k].flags = sent[forwarded[k].number].flags
                                               \cup Edge!Due(sent[forwarded[k].number].payload)
      <3>1. DOMAIN forwarded = 1 .. Len(forwarded)
        BY DEF EdgeInv
      <3> QED BY <3>1 DEF FlagsAreDue, Edge!FlagsAreDue
    <2>1. forwarded[k].number \in 1 .. Len(sent) /\ forwarded[k].flags = FlagsOf(sent[forwarded[k].number])
      BY DEF EdgeInv
    <2>2. sent[forwarded[k].number] \in Messages
      BY <2>1, ElementOfSeq DEF EdgeInv
    <2> QED BY <2>1, <2>2, RulesAreDue DEF FlagsOf
  <1> QED BY <1>1, <1>2, EdgeInvStep, PTL DEF EachSpec

-----------------------------------------------------------------------------
(* The generator, which makes the files the agent is started with.  Its    *)
(* values are kept between bounds: one lemma per operator says between     *)
(* which bounds its result is, and one per kind of sensor that a step      *)
(* keeps that kind's values within the bounds of its invariant.  A flag is *)
(* certain where both ends of the values call for it.                      *)

\* All values of v lie between a and b.
Within(v, a, b) ==
  /\ v.lo \in Int /\ v.hi \in Int
  /\ a <= v.lo /\ v.lo <= v.hi /\ v.hi <= b

LEMMA WithinMore ==
  ASSUME NEW v, NEW a \in Int, NEW b \in Int, NEW c \in Int, NEW d \in Int,
         Within(v, c, d), a <= c, d <= b
  PROVE  Within(v, a, b)
  BY DEF Within

LEMMA ExactlyWithin ==
  ASSUME NEW a \in Int, NEW x \in Int, NEW y \in Int, x <= a, a <= y
  PROVE  Within(Gen!Exactly(a), x, y)
  BY DEF Within, Gen!Exactly, Gen!Between

LEMMA PlusWithin ==
  ASSUME NEW v, NEW a \in Int, NEW b \in Int, Within(v, a, b),
         NEW w, NEW c \in Int, NEW d \in Int, Within(w, c, d)
  PROVE  Within(Gen!Plus(v, w), a + c, b + d)
  BY DEF Within, Gen!Plus, Gen!Between

LEMMA AtMostWithin ==
  ASSUME NEW v, NEW a \in Int, NEW b \in Int, Within(v, a, b), NEW n \in Int,
         NEW x \in Int, NEW y \in Int, x <= a, x <= n, b <= y \/ n <= y
  PROVE  Within(Gen!AtMost(v, n), x, y)
  BY DEF Within, Gen!AtMost, Gen!Between

\* Products with a percentage.
LEMMA Scaled ==
  ASSUME NEW a \in Int, NEW b \in Int, a <= b, NEW p \in Nat
  PROVE  a * p \in Int /\ b * p \in Int /\ a * p <= b * p
  <1>1. (b - a) * p >= 0
    BY b - a \in Nat
  <1>2. (b - a) * p = b * p - a * p
    OBVIOUS
  <1> QED BY <1>1, <1>2

\* p percent of a value between a and b are between x and y.
FadeMoves(a, b, p, x, y) ==
  /\ a \in Int /\ b \in Int /\ p \in Nat /\ x \in Int /\ y \in Int
  /\ 100 * x <= a * p /\ b * p < 100 * y

LEMMA FadeWithin ==
  ASSUME NEW a, NEW b, NEW p, NEW x, NEW y, FadeMoves(a, b, p, x, y), NEW v, Within(v, a, b)
  PROVE  Within(Gen!Fade(v, p), x, y)
  <1>0. /\ a \in Int /\ b \in Int /\ p \in Nat /\ x \in Int /\ y \in Int
        /\ 100 * x <= a * p /\ b * p < 100 * y
    BY DEF FadeMoves
  <1> DEFINE l == v.lo * p
             h == v.hi * p
  <1>1. v.lo \in Int /\ v.hi \in Int /\ a <= v.lo /\ v.lo <= v.hi /\ v.hi <= b
    BY DEF Within
  <1>2. l \in Int /\ h \in Int /\ a * p <= l /\ l <= h /\ h <= b * p /\ a * p \in Int /\ b * p \in Int
    BY <1>0, <1>1, Scaled
  <1>3. Gen!Fade(v, p).lo = l \div 100 /\ Gen!Fade(v, p).hi = h \div 100 + 1
    BY DEF Gen!Fade, Gen!Between
  <1> HIDE DEF l, h
  <1>4. 100 * x <= l /\ h < 100 * y
    BY <1>0, <1>2
  <1>5. x <= l \div 100 /\ l \div 100 <= h \div 100 + 1 /\ h \div 100 + 1 <= y
    BY <1>0, <1>2, <1>4
  <1>6. l \div 100 \in Int /\ h \div 100 + 1 \in Int
    BY <1>2
  <1> QED BY <1>3, <1>5, <1>6 DEF Within

\* A value between a and b gets to between x and y when it is pulled to between
\* d and e.
OuMoves(a, b, d, e, t, n, x, y) ==
  /\ a \in Int /\ b \in Int /\ d \in Int /\ e \in Int
  /\ t \in 0 .. 100 /\ n \in Nat /\ x \in Int /\ y \in Int
  /\ 100 * (x + n + 1) <= a * (100 - t) + d * t
  /\ b * (100 - t) + e * t <= 100 * (y - n - 2)

LEMMA OuWithin ==
  ASSUME NEW a, NEW b, NEW d, NEW e, NEW t, NEW n, NEW x, NEW y, OuMoves(a, b, d, e, t, n, x, y),
         NEW c, Within(c, a, b), NEW m, Within(m, d, e)
  PROVE  Within(Gen!Ou(c, m, t, n), x, y)
  <1>0. /\ a \in Int /\ b \in Int /\ d \in Int /\ e \in Int
        /\ t \in 0 .. 100 /\ n \in Nat /\ x \in Int /\ y \in Int
        /\ 100 * (x + n + 1) <= a * (100 - t) + d * t
        /\ b * (100 - t) + e * t <= 100 * (y - n - 2)
    BY DEF OuMoves
  <1> DEFINE cl == c.lo * (100 - t)
             ch == c.hi * (100 - t)
             ml == m.lo * t
             mh == m.hi * t
  <1>1. /\ c.lo \in Int /\ c.hi \in Int /\ a <= c.lo /\ c.lo <= c.hi /\ c.hi <= b
        /\ m.lo \in Int /\ m.hi \in Int /\ d <= m.lo /\ m.lo <= m.hi /\ m.hi <= e
        /\ t \in Nat /\ 100 - t \in Nat
    BY <1>0 DEF Within
  <1>2. /\ cl \in Int /\ ch \in Int /\ a * (100 - t) <= cl /\ cl <= ch /\ ch <= b * (100 - t)
        /\ a * (100 - t) \in Int /\ b * (100 - t) \in Int
    BY <1>0, <1>1, Scaled
  <1>3. /\ ml \in Int /\ mh \in Int /\ d * t <= ml /\ ml <= mh /\ mh <= e * t
        /\ d * t \in Int /\ e * t \in Int
    BY <1>0, <1>1, Scaled
  <1>4. /\ Gen!Ou(c, m, t, n).lo = cl \div 100 + ml \div 100 + (-n)
        /\ Gen!Ou(c, m, t, n).hi = (ch \div 100 + 1) + (mh \div 100 + 1) + n
    BY DEF Gen!Ou, Gen!Plus, Gen!Fade, Gen!Between
  <1> HIDE DEF cl, ch, ml, mh
  <1>5. 100 * (x + n + 1) <= cl + ml /\ ch + mh <= 100 * (y - n - 2)
    BY <1>0, <1>2, <1>3
  <1>6. /\ x <= cl \div 100 + ml \div 100 + (-n)
        /\ cl \div 100 + ml \div 100 + (-n) <= (ch \div 100 + 1) + (mh \div 100 + 1) + n
        /\ (ch \div 100 + 1) + (mh \div 100 + 1) + n <= y
    BY <1>0, <1>2, <1>3, <1>5
  <1>7. /\ cl \div 100 + ml \div 100 + (-n) \in Int
        /\ (ch \div 100 + 1) + (mh \div 100 + 1) + n \in Int
    BY <1>0, <1>2, <1>3
  <1> QED BY <1>4, <1>6, <1>7 DEF Within


-----------------------------------------------------------------------------
(* The values between the events.                                          *)

\* So many steps after the gridlock began.
SinceJam(n, a, b, c, d, w) ==
  step = plan.gridlock + n =>
    /\ Within(state.queue, a, b) /\ Within(state.extra, c, d)
    /\ state.queue.hi - state.queue.lo <= w

LightInv ==
  /\ step <= plan.congested => Within(state.queue, 0, 8850) /\ Within(state.extra, 0, 5)
  /\ step <= plan.gridlock => Within(state.queue, 0, 17000) /\ Within(state.extra, 0, 8000)
  /\ SinceJam(1, 19900, 22700, 18000, 18000, 1010)
  /\ SinceJam(2, 18000, 22800, 14040, 14041, 1735)
  /\ SinceJam(3, 15800, 22000, 10951, 10953, 2255)
  /\ SinceJam(4, 13500, 20700, 8541, 8545, 2630)
  /\ "congested" \in reported \/ SinceJam(5, 16220, 19610, 6661, 8000, 3280)
  /\ step >= plan.gridlock + 6 => "congested" \in reported
  /\ step > plan.gridlock => "gridlock" \in reported
  /\ step > plan.off => "signal_off" \in reported

ParkInv ==
  /\ Within(state.rate, 20, 980) /\ Within(state.oc, 0, 305)
  /\ Within(state.boost, 0, 260000) /\ Within(state.stay, 0, 400000)
  /\ step <= Gen!FirstEvent =>
       /\ Within(state.rate, 20, 890) /\ Within(state.oc, 0, 5)
       /\ Within(state.boost, 0, 5) /\ Within(state.stay, 0, 125000)
  /\ step > plan.long => "long_stay" \in reported

AirInv ==
  /\ Within(state.pm25, 0, 75000) /\ Within(state.plume.pm25, 0, 48000)
  /\ step <= plan.unhealthy =>
       /\ Within(state.pm25, 0, 26000) /\ Within(state.pm10, 0, 42000)
       /\ Within(state.no2, 0, 39000) /\ Within(state.o3, 0, 78000)
       /\ \A m \in Gen!Metrics : Within(state.plume[m], 0, 5)
  /\ step > plan.very => "very_unhealthy_pm25" \in reported

MeterInv ==
  /\ Within(state.voltage, 200000, 260000) /\ Within(state.off.voltage, -26000, 26000)
  /\ Within(state.current, 0, 50000) /\ Within(state.off.current, 0, 20000)
  /\ Within(state.pf, 7800, 9900) /\ Within(state.off.pf, -1000, 5)
  /\ step <= Gen!FirstEvent =>
       /\ Within(state.voltage, 226000, 234000) /\ Within(state.off.voltage, 0, 5)
       /\ Within(state.current, 0, 22000) /\ Within(state.off.current, 0, 5)
       /\ Within(state.pf, 9200, 9600) /\ Within(state.off.pf, 0, 5)
  /\ step > plan.voltage => "voltage_out_of_range" \in reported
  /\ step > plan.pf => "poor_power_factor" \in reported
  /\ step > plan.overload => "power_overload" \in reported

ValuesInv ==
  CASE kind = "traffic_light" -> LightInv [] kind = "car_park" -> ParkInv
    [] kind = "air_quality" -> AirInv [] kind = "energy_meter" -> MeterInv


-----------------------------------------------------------------------------
(* What the factories draw.                                                *)

LEMMA QuotientBounds ==
  ASSUME NEW d \in Nat, NEW k \in Nat, NEW q \in Nat \ {0}, k <= q
  PROVE  (d * k) \div q \in 0 .. d
  <1>1. d * k \in Nat /\ d * q \in Nat /\ d * k <= d * q
    <2>1. k * d \in Int /\ q * d \in Int /\ k * d <= q * d
      BY Scaled
    <2>2. k * d = d * k /\ q * d = d * q
      OBVIOUS
    <2>3. d * k \in Nat /\ d * q \in Nat
      OBVIOUS
    <2> QED BY <2>1, <2>2, <2>3
  <1> DEFINE n == d * k
             z == n \div q
  <1>2. n \in Nat
    BY <1>1
  <1>3. z \in Int /\ q * z <= n /\ n < q * z + q
    <2> HIDE DEF n
    <2> QED BY <1>2
  <1> HIDE DEF n, z
  <1>4. z >= 0
    <2>1. CASE z <= -1
      <3>1. z * q \in Int /\ (-1) * q \in Int /\ z * q <= (-1) * q
        BY <1>3, <2>1, Scaled
      <3>2. q * z = z * q
        BY <1>3
      <3> QED BY <1>2, <1>3, <3>1, <3>2
    <2> QED BY <1>3, <2>1
  <1>5. z <= d
    <2>1. CASE z >= d + 1
      <3>1. (d + 1) * q \in Int /\ z * q \in Int /\ (d + 1) * q <= z * q
        BY <1>3, <2>1, Scaled
      <3>2. q * z = z * q /\ (d + 1) * q = d * q + q
        BY <1>3
      <3>3. n <= d * q /\ d * q \in Nat
        BY <1>1 DEF n
      <3> QED BY <1>2, <1>3, <3>1, <3>2, <3>3
    <2> QED BY <1>3, <2>1
  <1>6. z \in 0 .. d
    BY <1>3, <1>4, <1>5
  <1> QED BY <1>6 DEF n, z

LEMMA RandintBetween ==
  ASSUME Gen!PayloadAssumption, NEW a \in Int, NEW b \in Int, a <= b
  PROVE  Gen!Randint(a, b) \subseteq a .. b
  <1> SUFFICES ASSUME NEW r \in Gen!Randint(a, b) PROVE r \in a .. b
    OBVIOUS
  <1>1. PICK k \in 0 .. Picks - 1 : r = a + ((b - a) * k) \div (Picks - 1)
    BY DEF Gen!Randint
  <1>2. b - a \in Nat /\ k \in Nat /\ Picks - 1 \in Nat \ {0} /\ k <= Picks - 1
    BY <1>1 DEF Gen!PayloadAssumption
  <1>3. ((b - a) * k) \div (Picks - 1) \in 0 .. (b - a)
    BY <1>2, QuotientBounds
  <1> QED BY <1>1, <1>3

\* The ranges of the drawn fields.
LightDrawn ==
  /\ plan.cycle \in {60, 75, 90, 120} /\ plan.offset \in 0 .. 3
  /\ plan.congested \in 12 .. 24 /\ plan.gridlock \in 40 .. 60 /\ plan.off \in 90 .. 140

ParkDrawn ==
  plan.total \in {30, 60, 120, 200, 350} /\ plan.overcrowded \in 10 .. 30 /\ plan.long \in 24 .. 50

AirDrawn ==
  /\ plan.unhealthy \in 15 .. 30 /\ plan.very \in 50 .. 70
  /\ plan.no2 \in 70 .. 100 /\ plan.o3 \in 90 .. 130

MeterDrawn ==
  /\ plan.phase \in 0 .. 95 /\ plan.voltage \in 36 .. 60
  /\ plan.overload \in 72 .. 100 /\ plan.pf \in 48 .. 80

LEMMA Drawn ==
  ASSUME Gen!PayloadAssumption, plan \in Gen!Plans(kind)
  PROVE  /\ kind = "traffic_light" => LightDrawn
         /\ kind = "car_park" => ParkDrawn
         /\ kind = "air_quality" => AirDrawn
         /\ kind = "energy_meter" => MeterDrawn
  <1>1. ASSUME kind = "traffic_light" PROVE LightDrawn
    <2>1. plan \in Gen!LightPlans
      BY <1>1 DEF Gen!Plans
    <2>2. /\ Gen!Randint(0, 3) \subseteq 0 .. 3 /\ Gen!Randint(12, 24) \subseteq 12 .. 24
          /\ Gen!Randint(40, 60) \subseteq 40 .. 60 /\ Gen!Randint(90, 140) \subseteq 90 .. 140
      <3>1. Gen!Randint(0, 3) \subseteq 0 .. 3
        BY RandintBetween, SMTT(30)
      <3>2. Gen!Randint(12, 24) \subseteq 12 .. 24
        BY RandintBetween, SMTT(30)
      <3>3. Gen!Randint(40, 60) \subseteq 40 .. 60
        BY RandintBetween, SMTT(30)
      <3>4. Gen!Randint(90, 140) \subseteq 90 .. 140
        BY RandintBetween, SMTT(30)
      <3> QED BY <3>1, <3>2, <3>3, <3>4
    <2>3. /\ plan.cycle \in {60, 75, 90, 120} /\ plan.offset \in Gen!Randint(0, 3)
          /\ plan.congested \in Gen!Randint(12, 24) /\ plan.gridlock \in Gen!Randint(40, 60)
          /\ plan.off \in Gen!Randint(90, 140)
      BY <2>1 DEF Gen!LightPlans
    <2> QED BY <2>2, <2>3 DEF LightDrawn
  <1>2. ASSUME kind = "car_park" PROVE ParkDrawn
    <2>1. plan \in Gen!ParkPlans
      BY <1>2 DEF Gen!Plans
    <2>2. Gen!Randint(10, 30) \subseteq 10 .. 30 /\ Gen!Randint(24, 50) \subseteq 24 .. 50
      <3>1. Gen!Randint(10, 30) \subseteq 10 .. 30
        BY RandintBetween, SMTT(30)
      <3>2. Gen!Randint(24, 50) \subseteq 24 .. 50
        BY RandintBetween, SMTT(30)
      <3> QED BY <3>1, <3>2
    <2>3. /\ plan.total \in {30, 60, 120, 200, 350}
          /\ plan.overcrowded \in Gen!Randint(10, 30) /\ plan.long \in Gen!Randint(24, 50)
      BY <2>1 DEF Gen!ParkPlans
    <2> QED BY <2>2, <2>3 DEF ParkDrawn
  <1>3. ASSUME kind = "air_quality" PROVE AirDrawn
    <2>1. plan \in Gen!AirPlans
      BY <1>3 DEF Gen!Plans
    <2>2. /\ Gen!Randint(15, 30) \subseteq 15 .. 30 /\ Gen!Randint(50, 70) \subseteq 50 .. 70
          /\ Gen!Randint(70, 100) \subseteq 70 .. 100 /\ Gen!Randint(90, 130) \subseteq 90 .. 130
      <3>1. Gen!Randint(15, 30) \subseteq 15 .. 30
        BY RandintBetween, SMTT(30)
      <3>2. Gen!Randint(50, 70) \subseteq 50 .. 70
        BY RandintBetween, SMTT(30)
      <3>3. Gen!Randint(70, 100) \subseteq 70 .. 100
        BY RandintBetween, SMTT(30)
      <3>4. Gen!Randint(90, 130) \subseteq 90 .. 130
        BY RandintBetween, SMTT(30)
      <3> QED BY <3>1, <3>2, <3>3, <3>4
    <2>3. /\ plan.unhealthy \in Gen!Randint(15, 30) /\ plan.very \in Gen!Randint(50, 70)
          /\ plan.no2 \in Gen!Randint(70, 100) /\ plan.o3 \in Gen!Randint(90, 130)
      BY <2>1 DEF Gen!AirPlans
    <2> QED BY <2>2, <2>3 DEF AirDrawn
  <1>4. ASSUME kind = "energy_meter" PROVE MeterDrawn
    <2>1. plan \in Gen!MeterPlans
      BY <1>4 DEF Gen!Plans
    <2>2. /\ Gen!Randint(0, 95) \subseteq 0 .. 95 /\ Gen!Randint(36, 60) \subseteq 36 .. 60
          /\ Gen!Randint(72, 100) \subseteq 72 .. 100 /\ Gen!Randint(48, 80) \subseteq 48 .. 80
      <3>1. Gen!Randint(0, 95) \subseteq 0 .. 95
        <4>1. 0 \in Int /\ 95 \in Int /\ 0 <= 95
          OBVIOUS
        <4> QED BY <4>1, RandintBetween, Zenon
      <3>2. Gen!Randint(36, 60) \subseteq 36 .. 60
        BY RandintBetween, SMTT(30)
      <3>3. Gen!Randint(72, 100) \subseteq 72 .. 100
        BY RandintBetween, SMTT(30)
      <3>4. Gen!Randint(48, 80) \subseteq 48 .. 80
        BY RandintBetween, SMTT(30)
      <3> QED BY <3>1, <3>2, <3>3, <3>4
    <2>3. /\ plan.phase \in Gen!Randint(0, 95) /\ plan.voltage \in Gen!Randint(36, 60)
          /\ plan.overload \in Gen!Randint(72, 100) /\ plan.pf \in Gen!Randint(48, 80)
      BY <2>1 DEF Gen!MeterPlans
    <2> QED BY <2>2, <2>3 DEF MeterDrawn
  <1> QED BY <1>1, <1>2, <1>3, <1>4

LEMMA EventCases ==
  ASSUME step \in Nat, NEW n \in Nat, NEW every \in Nat \ {0}
  PROVE  /\ step = n => Gen!Event(n, every)
         /\ step < n => ~Gen!Event(n, every)
         /\ n < step /\ step < n + every => ~Gen!Event(n, every)
  <1>1. step = n => (step - n) % every = 0
    <2>1. 0 % every = 0
      BY SMT
    <2> QED BY <2>1
  <1>2. n < step /\ step < n + every => (step - n) % every = step - n
    <2> SUFFICES ASSUME n < step, step < n + every
                 PROVE  (step - n) % every = step - n
      OBVIOUS
    <2> DEFINE r == step - n
    <2>1. r \in 1 .. every - 1
      OBVIOUS
    <2> HIDE DEF r
    <2>2. r % every = r
      BY <2>1, SMT
    <2> QED BY <2>2 DEF r
  <1> QED BY <1>1, <1>2 DEF Gen!Event

-----------------------------------------------------------------------------
(* Flags and payloads.                                                     *)

LEMMA CertainBoth ==
  ASSUME NEW p, NEW q, NEW f, f \in Gen!DetectAnomalyFlags(p), f \in Gen!DetectAnomalyFlags(q)
  PROVE  f \in Gen!Certain({p, q})
  BY DEF Gen!Certain

\* Values raised to at least c to d.
LEMMA Raising ==
  ASSUME NEW v, NEW a \in Int, NEW b \in Int, Within(v, a, b),
         NEW c \in Int, NEW d \in Int, c <= d, NEW y \in Int, b <= y, d <= y
  PROVE  Within(Gen!AtLeast(v, Gen!Between(c, d)), a, y) /\ Within(Gen!AtLeast(v, Gen!Between(c, d)), c, y)
  <1> DEFINE l == v.lo
             h == v.hi
             q == Gen!AtLeast(v, Gen!Between(c, d))
  <1>1. l \in Int /\ h \in Int /\ a <= l /\ l <= h /\ h <= b
    BY DEF Within
  <1>2. /\ q.lo = IF l < c THEN c ELSE l
        /\ q.hi = IF h < d THEN d ELSE h
    BY DEF Gen!AtLeast, Gen!Between
  <1> HIDE DEF l, h, q
  <1>3. /\ q.lo \in Int /\ q.hi \in Int /\ a <= q.lo /\ c <= q.lo /\ q.lo <= q.hi /\ q.hi <= y
    BY <1>1, <1>2
  <1>4. Within(q, a, y) /\ Within(q, c, y)
    BY <1>3 DEF Within
  <1> QED BY <1>4 DEF q

LEMMA RaisingExactly ==
  ASSUME NEW v, NEW a \in Int, NEW b \in Int, Within(v, a, b),
         NEW n \in Int, NEW y \in Int, b <= y, n <= y
  PROVE  Within(Gen!AtLeast(v, Gen!Exactly(n)), a, y) /\ Within(Gen!AtLeast(v, Gen!Exactly(n)), n, y)
  BY Raising DEF Gen!Exactly

LEMMA LightFlags ==
  ASSUME NEW p, p.kind = "traffic_light", p.queue \in Int
  PROVE  /\ p.queue >= 20 => "gridlock" \in Gen!DetectAnomalyFlags(p)
         /\ 10 <= p.queue /\ p.queue < 20 => "congested" \in Gen!DetectAnomalyFlags(p)
         /\ p.state = "off" => "signal_off" \in Gen!DetectAnomalyFlags(p)
         /\ p.queue < 10 /\ p.state # "off" => Gen!DetectAnomalyFlags(p) = {}
  <1>1. Gen!DetectAnomalyFlags(p) = Gen!TrafficLightFlags(p)
    BY DEF Gen!DetectAnomalyFlags
  <1> QED BY <1>1 DEF Gen!TrafficLightFlags, Gen!When

-----------------------------------------------------------------------------
(* Traffic lights.                                                         *)

LEMMA LightLights ==
  ASSUME step \in Nat, LightDrawn
  PROVE  Gen!Light \in {"red", "yellow", "green"}
  <1> DEFINE span == CASE plan.cycle = 60 -> 3 [] plan.cycle = 75 -> 4 [] plan.cycle = 90 -> 5
                       [] plan.cycle = 120 -> 6
             k == ((step \div span) + plan.offset) % 4
  <1>1. span \in {3, 4, 5, 6}
    BY DEF LightDrawn
  <1>2. step \div span \in Int /\ plan.offset \in Int
    <2> HIDE DEF span
    <2> QED BY <1>1 DEF LightDrawn
  <1>3. k \in 0 .. 3
    <2> HIDE DEF span
    <2> QED BY <1>2
  <1>4. Gen!Light = <<"red", "green", "yellow", "red">>[k + 1]
    BY DEF Gen!Light
  <1> HIDE DEF k
  <1> QED BY <1>3, <1>4

\* The parts of BuildLight.
LightTarget == CASE Gen!Light = "red" -> 7000 [] Gen!Light = "yellow" -> 2500 [] Gen!Light = "green" -> 1000

LightBusy ==
  IF Gen!Event(plan.congested, 36)
  THEN Gen!AtLeast(Gen!Fade(state.extra, 78), Gen!Between(6000, 8000)) ELSE Gen!Fade(state.extra, 78)

LightExtra ==
  IF Gen!Event(plan.gridlock, 84) THEN Gen!AtLeast(LightBusy, Gen!Exactly(18000)) ELSE LightBusy

LightWaiting == IF Gen!Event(plan.gridlock, 84) THEN Gen!Jammed(state.queue) ELSE state.queue

LEMMA LightParts ==
  /\ Gen!BuildLight.extra = LightExtra
  /\ Gen!BuildLight.queue =
       Gen!AtLeast(Gen!Ou(LightWaiting, Gen!Plus(Gen!Exactly(LightTarget), LightExtra), 28, 500), Gen!Exactly(0))
  <1>1. Gen!BuildLight = [extra |-> LightExtra,
                      queue |-> Gen!AtLeast(Gen!Ou(LightWaiting, Gen!Plus(Gen!Exactly(LightTarget), LightExtra),
                                           28, 500), Gen!Exactly(0))]
    BY SMT DEF Gen!BuildLight, LightBusy, LightTarget, LightExtra, LightWaiting
  <1> QED BY <1>1

LEMMA LightMean ==
  ASSUME step \in Nat, LightDrawn,
         NEW extra, NEW u \in Int, NEW v \in Int, Within(extra, u, v)
  PROVE  /\ Within(Gen!Plus(Gen!Exactly(LightTarget), extra), 1000 + u, 7000 + v)
         /\ Gen!Plus(Gen!Exactly(LightTarget), extra).hi - Gen!Plus(Gen!Exactly(LightTarget), extra).lo <= v - u
  <1>1. LightTarget \in 1000 .. 7000
    BY LightLights DEF LightTarget
  <1> DEFINE t == LightTarget
  <1>2. t \in 1000 .. 7000
    BY <1>1
  <1> HIDE DEF t
  <1> DEFINE m == Gen!Plus(Gen!Exactly(t), extra)
  <1>3. m.lo = t + extra.lo /\ m.hi = t + extra.hi
    BY DEF Gen!Plus, Gen!Exactly, Gen!Between
  <1>4. extra.lo \in Int /\ extra.hi \in Int /\ u <= extra.lo /\ extra.lo <= extra.hi /\ extra.hi <= v
    BY DEF Within
  <1> DEFINE el == extra.lo
             eh == extra.hi
  <1>5. /\ el \in Int /\ eh \in Int /\ u <= el /\ el <= eh /\ eh <= v
        /\ m.lo = t + el /\ m.hi = t + eh
    BY <1>3, <1>4
  <1> HIDE DEF m, el, eh
  <1>6. /\ m.lo \in Int /\ m.hi \in Int /\ 1000 + u <= m.lo /\ m.lo <= m.hi /\ m.hi <= 7000 + v
        /\ m.hi - m.lo <= v - u
    BY <1>2, <1>5
  <1>7. Within(m, 1000 + u, 7000 + v)
    BY <1>6 DEF Within
  <1> QED BY <1>6, <1>7 DEF m, t

\* A queue between a and b, its bounds at most w apart, gets to between x and y,
\* at most z apart, when it is pulled to between d and e, at most s apart.
QueueMoves(a, b, w, d, e, s, x, y, z) ==
  /\ a \in Nat /\ b \in Int /\ w \in Int /\ d \in Nat /\ e \in Int /\ s \in Int
  /\ x \in Int /\ y \in Int /\ z \in Int
  /\ x <= 0 \/ 100 * (x + 501) <= a * 72 + d * 28
  /\ b * 72 + e * 28 <= 100 * (y - 502) /\ 0 <= y
  /\ w * 72 + s * 28 + 100398 <= 100 * z

\* The queue a step leads to.
LEMMA LightQueue ==
  ASSUME NEW a, NEW b, NEW w, NEW d, NEW e, NEW s, NEW x, NEW y, NEW z,
         QueueMoves(a, b, w, d, e, s, x, y, z),
         NEW c, Within(c, a, b), c.hi - c.lo <= w,
         NEW m, Within(m, d, e), m.hi - m.lo <= s,
         NEW q, q = Gen!AtLeast(Gen!Ou(c, m, 28, 500), Gen!Exactly(0))
  PROVE  Within(q, x, y) /\ q.hi - q.lo <= z
  <1>0. /\ a \in Nat /\ b \in Int /\ w \in Int /\ d \in Nat /\ e \in Int /\ s \in Int
        /\ x \in Int /\ y \in Int /\ z \in Int
        /\ x <= 0 \/ 100 * (x + 501) <= a * 72 + d * 28
        /\ b * 72 + e * 28 <= 100 * (y - 502) /\ 0 <= y
        /\ w * 72 + s * 28 + 100398 <= 100 * z
    BY DEF QueueMoves
  <1> DEFINE r == Gen!Ou(c, m, 28, 500)
             x0 == (a * 72 + d * 28) \div 100 - 501
  <1>1. x0 \in Int /\ 100 * (x0 + 501) <= a * 72 + d * 28
    BY <1>0
  <1>2. x <= 0 \/ x <= x0
    BY <1>0
  <1> HIDE DEF x0
  <1>3. /\ c.lo \in Int /\ c.hi \in Int /\ a <= c.lo /\ c.lo <= c.hi /\ c.hi <= b
        /\ m.lo \in Int /\ m.hi \in Int /\ d <= m.lo /\ m.lo <= m.hi /\ m.hi <= e
    BY DEF Within
  <1> DEFINE cl == c.lo
             ch == c.hi
             ml == m.lo
             mh == m.hi
             l == (cl * 72) \div 100 + (ml * 28) \div 100 + (-500)
             h == ((ch * 72) \div 100 + 1) + ((mh * 28) \div 100 + 1) + 500
  <1>4. r.lo = l /\ r.hi = h
    BY DEF Gen!Ou, Gen!Plus, Gen!Fade, Gen!Between
  <1>5. /\ q.lo = IF r.lo < 0 THEN 0 ELSE r.lo
        /\ q.hi = IF r.hi < 0 THEN 0 ELSE r.hi
    BY DEF Gen!AtLeast, Gen!Exactly, Gen!Between
  <1>6. /\ cl \in Int /\ ch \in Int /\ a <= cl /\ cl <= ch /\ ch <= b /\ ch - cl <= w
        /\ ml \in Int /\ mh \in Int /\ d <= ml /\ ml <= mh /\ mh <= e /\ mh - ml <= s
    BY <1>3
  <1> HIDE DEF cl, ch, ml, mh, r
  <1>7. l \in Int /\ h \in Int /\ x0 <= l /\ l <= h /\ h <= y
    BY <1>0, <1>1, <1>6
  <1>8. h - l <= z
    BY <1>0, <1>6
  <1> HIDE DEF l, h
  <1>9. /\ q.lo = IF l < 0 THEN 0 ELSE l
        /\ q.hi = IF h < 0 THEN 0 ELSE h
    BY <1>4, <1>5
  <1>10. /\ q.lo \in Int /\ q.hi \in Int /\ x <= q.lo /\ q.lo <= q.hi /\ q.hi <= y
         /\ q.hi - q.lo <= z
    BY <1>0, <1>1, <1>2, <1>7, <1>8, <1>9
  <1> QED BY <1>10 DEF Within


\* The same of the queue and what an event has added to it.
LightMoves(a, b, w, c, d, u, v, x, y, z) ==
  /\ a \in Nat /\ b \in Int /\ w \in Int /\ c \in Nat /\ d \in Int /\ u \in Nat /\ v \in Int
  /\ FadeMoves(c, d, 78, u, v)
  /\ QueueMoves(a, b, w, 1000 + u, 7000 + v, v - u, x, y, z)

\* A step that begins no gridlock.
LEMMA LightCalm ==
  ASSUME step \in Nat, LightDrawn, ~Gen!Event(plan.gridlock, 84),
         NEW a, NEW b, NEW w, NEW c, NEW d, NEW u, NEW v, NEW x, NEW y, NEW z,
         LightMoves(a, b, w, c, d, u, v, x, y, z),
         Within(state.queue, a, b), state.queue.hi - state.queue.lo <= w,
         Within(state.extra, c, d), Gen!Event(plan.congested, 36) => 8000 <= v
  PROVE  /\ Within(Gen!BuildLight.queue, x, y) /\ Within(Gen!BuildLight.extra, u, v)
         /\ Gen!BuildLight.queue.hi - Gen!BuildLight.queue.lo <= z
  <1> DEFINE m == Gen!Plus(Gen!Exactly(LightTarget), LightBusy)
  <1>0. /\ c \in Int /\ d \in Int /\ u \in Int /\ v \in Int
        /\ FadeMoves(c, d, 78, u, v)
        /\ QueueMoves(a, b, w, 1000 + u, 7000 + v, v - u, x, y, z)
    BY DEF LightMoves
  <1>1. /\ Gen!BuildLight.extra = LightBusy
        /\ Gen!BuildLight.queue = Gen!AtLeast(Gen!Ou(state.queue, m, 28, 500), Gen!Exactly(0))
    BY LightParts DEF LightExtra, LightWaiting
  <1>2. Within(Gen!Fade(state.extra, 78), u, v)
    BY <1>0, FadeWithin
  <1>3. Within(LightBusy, u, v)
    <2>1. CASE ~Gen!Event(plan.congested, 36)
      BY <1>2, <2>1 DEF LightBusy
    <2>2. CASE Gen!Event(plan.congested, 36)
      <3>1. 8000 <= v /\ 6000 <= 8000 /\ v <= v
        BY <1>0, <2>2
      <3>3. Within(Gen!AtLeast(Gen!Fade(state.extra, 78), Gen!Between(6000, 8000)), u, v)
        BY <1>0, <1>2, <3>1, Raising
      <3> QED BY <2>2, <3>3 DEF LightBusy
    <2> QED BY <2>1, <2>2
  <1>4. Within(m, 1000 + u, 7000 + v) /\ m.hi - m.lo <= v - u
    BY <1>0, <1>3, LightMean
  <1> HIDE DEF m
  <1>6. Within(Gen!BuildLight.queue, x, y) /\ Gen!BuildLight.queue.hi - Gen!BuildLight.queue.lo <= z
    BY <1>0, <1>1, <1>4, LightQueue
  <1> QED BY <1>1, <1>3, <1>6

\* The step that begins one.
LEMMA LightJam ==
  ASSUME step \in Nat, LightDrawn, Gen!Event(plan.gridlock, 84),
         Within(state.queue, 0, 17000), Within(state.extra, 0, 8000)
  PROVE  /\ Within(Gen!BuildLight.queue, 19900, 22700) /\ Within(Gen!BuildLight.extra, 18000, 18000)
         /\ Gen!BuildLight.queue.hi - Gen!BuildLight.queue.lo <= 1010
  <1> DEFINE extra == Gen!AtLeast(LightBusy, Gen!Exactly(18000))
             queue == Gen!Jammed(state.queue)
             m == Gen!Plus(Gen!Exactly(LightTarget), extra)
  <1>1. /\ Gen!BuildLight.extra = extra
        /\ Gen!BuildLight.queue = Gen!AtLeast(Gen!Ou(queue, m, 28, 500), Gen!Exactly(0))
    BY LightParts DEF LightExtra, LightWaiting
  <1>2. Within(Gen!Fade(state.extra, 78), 0, 8000)
    <2>1. FadeMoves(0, 8000, 78, 0, 8000)
      BY DEF FadeMoves
    <2> QED BY <2>1, FadeWithin
  <1>3. Within(LightBusy, 0, 8000)
    <2>1. Within(Gen!AtLeast(Gen!Fade(state.extra, 78), Gen!Between(6000, 8000)), 0, 8000)
      BY <1>2, Raising
    <2> QED BY <1>2, <2>1 DEF LightBusy
  <1>4. Within(extra, 18000, 18000)
    BY <1>3, RaisingExactly
  <1>5. Within(queue, 21000, 21000)
    <2>1. Within(Gen!AtLeast(state.queue, Gen!Exactly(21000)), 21000, 21000)
      BY RaisingExactly
    <2> QED BY <2>1 DEF Gen!Jammed
  <1>6. Within(m, 1000 + 18000, 7000 + 18000) /\ m.hi - m.lo <= 18000 - 18000
    BY <1>4, LightMean
  <1> HIDE DEF extra, queue, m
  <1>7. queue.hi - queue.lo <= 0
    BY <1>5 DEF Within
  <1>8. /\ Within(m, 19000, 25000) /\ m.hi - m.lo <= 0
        /\ QueueMoves(21000, 21000, 0, 19000, 25000, 0, 19900, 22700, 1010)
    BY <1>6 DEF QueueMoves
  <1>9. Within(Gen!BuildLight.queue, 19900, 22700) /\ Gen!BuildLight.queue.hi - Gen!BuildLight.queue.lo <= 1010
    BY <1>1, <1>5, <1>7, <1>8, LightQueue
  <1> QED BY <1>1, <1>4, <1>9

\* The payloads of a traffic light.
LEMMA LightPayloads ==
  ASSUME NEW end \in {"lo", "hi"}, kind = "traffic_light", kind' = kind, plan' = plan,
         NEW a \in Int, NEW b \in Int, Within(state'.queue, a, b),
         NEW p, p = Gen!LightPayload(end)
  PROVE  /\ a >= 19500 => "gridlock" \in Gen!DetectAnomalyFlags(p)
         /\ a >= 9500 /\ b < 19500 => "congested" \in Gen!DetectAnomalyFlags(p)
         /\ Gen!Event(plan.off, 144) => "signal_off" \in Gen!DetectAnomalyFlags(p)
         /\ b < 9500 /\ ~Gen!Event(plan.off, 144) /\ step \in Nat /\ LightDrawn => Gen!DetectAnomalyFlags(p) = {}
         /\ Gen!OccupancyFits(p)
  <1> DEFINE v == state'.queue[end]
             n == (v + 500) \div 1000
  <1>1. v \in Int /\ a <= v /\ v <= b
    BY DEF Within
  <1>2. /\ p.kind = "traffic_light" /\ p.queue = n
        /\ Gen!Event(plan.off, 144) => p.state = "off"
        /\ ~Gen!Event(plan.off, 144) => p.state = Gen!Light
    BY DEF Gen!LightPayload
  <1>3. ~Gen!Event(plan.off, 144) /\ step \in Nat /\ LightDrawn => p.state # "off"
    BY <1>2, LightLights
  <1> HIDE DEF v
  <1>4. n \in Int /\ (a >= 19500 => n >= 20) /\ (a >= 9500 => n >= 10) /\ (b < 19500 => n < 20)
        /\ (b < 9500 => n < 10)
    BY <1>1
  <1> HIDE DEF n
  <1>5. /\ n >= 20 => "gridlock" \in Gen!DetectAnomalyFlags(p)
        /\ 10 <= n /\ n < 20 => "congested" \in Gen!DetectAnomalyFlags(p)
        /\ p.state = "off" => "signal_off" \in Gen!DetectAnomalyFlags(p)
        /\ n < 10 /\ p.state # "off" => Gen!DetectAnomalyFlags(p) = {}
    BY <1>2, <1>4, LightFlags
  <1>6. Gen!OccupancyFits(p)
    BY <1>2 DEF Gen!OccupancyFits
  <1> QED BY <1>2, <1>3, <1>4, <1>5, <1>6

LEMMA LightStep ==
  ASSUME step \in Nat, kind = "traffic_light", LightDrawn, LightInv,
         Gen!Build("traffic_light", Gen!BuildLight, Gen!LightPayload("lo"), Gen!LightPayload("hi")),
         step' = step + 1, reported' = reported \cup Gen!Certain(payloads'), kind' = kind, plan' = plan
  PROVE  LightInv' /\ Gen!QuietBeforeEvents'
  <1> DEFINE c == plan.congested
             g == plan.gridlock
             q == Gen!BuildLight.queue
             e == Gen!BuildLight.extra
             w == Gen!BuildLight.queue.hi - Gen!BuildLight.queue.lo
             p(end) == Gen!LightPayload(end)
  <1>1. /\ c \in 12 .. 24 /\ g \in 40 .. 60 /\ plan.off \in 90 .. 140
        /\ c \in Nat /\ g \in Nat /\ plan.off \in Nat
    BY DEF LightDrawn
  <1>2. /\ state'.queue = q /\ state'.extra = e /\ payloads' = {p("lo"), p("hi")}
        /\ reported \subseteq reported'
        /\ \A f : f \in Gen!DetectAnomalyFlags(p("lo")) /\ f \in Gen!DetectAnomalyFlags(p("hi"))
                    => f \in reported'
    <2>1. state' = Gen!BuildLight /\ payloads' = {p("lo"), p("hi")}
      BY DEF Gen!Build
    <2>2. \A f : f \in Gen!DetectAnomalyFlags(p("lo")) /\ f \in Gen!DetectAnomalyFlags(p("hi"))
                   => f \in Gen!Certain(payloads')
      BY <2>1, CertainBoth
    <2> QED BY <2>1, <2>2
  <1>3. /\ step < c => ~Gen!Event(c, 36)
        /\ step = g => Gen!Event(g, 84)
        /\ step # g /\ step < g + 84 => ~Gen!Event(g, 84)
        /\ step = plan.off => Gen!Event(plan.off, 144)
        /\ step < plan.off => ~Gen!Event(plan.off, 144)
    <2>1. step < c => ~Gen!Event(c, 36)
      BY <1>1, EventCases
    <2>2. /\ step = g => Gen!Event(g, 84)
          /\ step # g /\ step < g + 84 => ~Gen!Event(g, 84)
      BY <1>1, EventCases
    <2>3. /\ step = plan.off => Gen!Event(plan.off, 144)
          /\ step < plan.off => ~Gen!Event(plan.off, 144)
      BY <1>1, EventCases
    <2> QED BY <2>1, <2>2, <2>3
  \* The bounds after the step.
  <1>4. step < c => Within(q, 0, 8850) /\ Within(e, 0, 5)
    <2> SUFFICES ASSUME step < c PROVE Within(q, 0, 8850) /\ Within(e, 0, 5)
      OBVIOUS
    <2>1. Within(state.queue, 0, 8850) /\ Within(state.extra, 0, 5)
      BY <1>1 DEF LightInv
    <2>2. ~Gen!Event(g, 84) /\ (Gen!Event(plan.congested, 36) => 8000 <= 5)
      BY <1>1, <1>3
    <2>3. state.queue.hi - state.queue.lo <= 8850
      BY <2>1 DEF Within
    <2>4. LightMoves(0, 8850, 8850, 0, 5, 0, 5, 0, 8850, 8850)
      BY DEF LightMoves, FadeMoves, QueueMoves
    <2> QED BY <2>1, <2>2, <2>3, <2>4, LightCalm
  <1>5. step < g => Within(q, 0, 17000) /\ Within(e, 0, 8000)
    <2> SUFFICES ASSUME step < g PROVE Within(q, 0, 17000) /\ Within(e, 0, 8000)
      OBVIOUS
    <2>1. Within(state.queue, 0, 17000) /\ Within(state.extra, 0, 8000)
      BY <1>1 DEF LightInv
    <2>2. ~Gen!Event(g, 84) /\ (Gen!Event(plan.congested, 36) => 8000 <= 8000)
      BY <1>1, <1>3
    <2>3. state.queue.hi - state.queue.lo <= 17000
      BY <2>1 DEF Within
    <2>4. LightMoves(0, 17000, 17000, 0, 8000, 0, 8000, 0, 17000, 17000)
      BY DEF LightMoves, FadeMoves, QueueMoves
    <2> QED BY <2>1, <2>2, <2>3, <2>4, LightCalm
  <1>6. step = g => Within(q, 19900, 22700) /\ Within(e, 18000, 18000) /\ w <= 1010
    <2> SUFFICES ASSUME step = g
                 PROVE  Within(q, 19900, 22700) /\ Within(e, 18000, 18000) /\ w <= 1010
      OBVIOUS
    <2>1. Within(state.queue, 0, 17000) /\ Within(state.extra, 0, 8000)
      BY <1>1 DEF LightInv
    <2> QED BY <1>3, <2>1, LightJam
  <1>7. step = g + 1 =>
         Within(q, 18000, 22800) /\ Within(e, 14040, 14041) /\ w <= 1735
    <2> SUFFICES ASSUME step = g + 1
                 PROVE  Within(q, 18000, 22800) /\ Within(e, 14040, 14041) /\ w <= 1735
      OBVIOUS
    <2>1. SinceJam(1, 19900, 22700, 18000, 18000, 1010)
      BY DEF LightInv
    <2>2. /\ Within(state.queue, 19900, 22700) /\ Within(state.extra, 18000, 18000)
          /\ state.queue.hi - state.queue.lo <= 1010
      BY <2>1 DEF SinceJam
    <2>3. ~Gen!Event(g, 84) /\ (Gen!Event(plan.congested, 36) => 8000 <= 14041)
      BY <1>1, <1>3
    <2>4. LightMoves(19900, 22700, 1010, 18000, 18000, 14040, 14041, 18000, 22800, 1735)
      BY DEF LightMoves, FadeMoves, QueueMoves
    <2> QED BY <2>2, <2>3, <2>4, LightCalm
  <1>8. step = g + 2 =>
         Within(q, 15800, 22000) /\ Within(e, 10951, 10953) /\ w <= 2255
    <2> SUFFICES ASSUME step = g + 2
                 PROVE  Within(q, 15800, 22000) /\ Within(e, 10951, 10953) /\ w <= 2255
      OBVIOUS
    <2>1. SinceJam(2, 18000, 22800, 14040, 14041, 1735)
      BY DEF LightInv
    <2>2. /\ Within(state.queue, 18000, 22800) /\ Within(state.extra, 14040, 14041)
          /\ state.queue.hi - state.queue.lo <= 1735
      BY <2>1 DEF SinceJam
    <2>3. ~Gen!Event(g, 84) /\ (Gen!Event(plan.congested, 36) => 8000 <= 10953)
      BY <1>1, <1>3
    <2>4. LightMoves(18000, 22800, 1735, 14040, 14041, 10951, 10953, 15800, 22000, 2255)
      BY DEF LightMoves, FadeMoves, QueueMoves
    <2> QED BY <2>2, <2>3, <2>4, LightCalm
  <1>9. step = g + 3 =>
         Within(q, 13500, 20700) /\ Within(e, 8541, 8545) /\ w <= 2630
    <2> SUFFICES ASSUME step = g + 3
                 PROVE  Within(q, 13500, 20700) /\ Within(e, 8541, 8545) /\ w <= 2630
      OBVIOUS
    <2>1. SinceJam(3, 15800, 22000, 10951, 10953, 2255)
      BY DEF LightInv
    <2>2. /\ Within(state.queue, 15800, 22000) /\ Within(state.extra, 10951, 10953)
          /\ state.queue.hi - state.queue.lo <= 2255
      BY <2>1 DEF SinceJam
    <2>3. ~Gen!Event(g, 84) /\ (Gen!Event(plan.congested, 36) => 8000 <= 8545)
      BY <1>1, <1>3
    <2>4. LightMoves(15800, 22000, 2255, 10951, 10953, 8541, 8545, 13500, 20700, 2630)
      BY DEF LightMoves, FadeMoves, QueueMoves
    <2> QED BY <2>2, <2>3, <2>4, LightCalm
  <1>10. step = g + 4 =>
         Within(q, 11360, 19610) /\ Within(e, 6661, 8000) /\ w <= 3280
    <2> SUFFICES ASSUME step = g + 4
                 PROVE  Within(q, 11360, 19610) /\ Within(e, 6661, 8000) /\ w <= 3280
      OBVIOUS
    <2>1. SinceJam(4, 13500, 20700, 8541, 8545, 2630)
      BY DEF LightInv
    <2>2. /\ Within(state.queue, 13500, 20700) /\ Within(state.extra, 8541, 8545)
          /\ state.queue.hi - state.queue.lo <= 2630
      BY <2>1 DEF SinceJam
    <2>3. ~Gen!Event(g, 84) /\ (Gen!Event(plan.congested, 36) => 8000 <= 8000)
      BY <1>1, <1>3
    <2>4. LightMoves(13500, 20700, 2630, 8541, 8545, 6661, 8000, 11360, 19610, 3280)
      BY DEF LightMoves, FadeMoves, QueueMoves
    <2> QED BY <2>2, <2>3, <2>4, LightCalm
  <1>11. step = g + 5 /\ "congested" \notin reported =>
         Within(q, 12900, 18900) /\ Within(e, 5195, 8000) /\ w <= 4200
    <2> SUFFICES ASSUME step = g + 5, "congested" \notin reported
                 PROVE  Within(q, 12900, 18900) /\ Within(e, 5195, 8000) /\ w <= 4200
      OBVIOUS
    <2>1. SinceJam(5, 16220, 19610, 6661, 8000, 3280)
      BY DEF LightInv
    <2>2. /\ Within(state.queue, 16220, 19610) /\ Within(state.extra, 6661, 8000)
          /\ state.queue.hi - state.queue.lo <= 3280
      BY <2>1 DEF SinceJam
    <2>3. ~Gen!Event(g, 84) /\ (Gen!Event(plan.congested, 36) => 8000 <= 8000)
      BY <1>1, <1>3
    <2>4. LightMoves(16220, 19610, 3280, 6661, 8000, 5195, 8000, 12900, 18900, 4200)
      BY DEF LightMoves, FadeMoves, QueueMoves
    <2> QED BY <2>2, <2>3, <2>4, LightCalm
  \* The flags of the step.
  <1>12. \A end \in {"lo", "hi"} : Gen!OccupancyFits(p(end))
    BY DEF Gen!OccupancyFits, Gen!LightPayload
  <1>13. step < c => \A end \in {"lo", "hi"} : Gen!DetectAnomalyFlags(p(end)) = {}
    <2>1. step < c => Within(state'.queue, 0, 8850) /\ ~Gen!Event(plan.off, 144)
      BY <1>1, <1>2, <1>3, <1>4
    <2> QED BY <2>1, LightPayloads
  <1>14. step = g => "gridlock" \in reported'
    <2> SUFFICES ASSUME step = g PROVE "gridlock" \in reported'
      OBVIOUS
    <2>1. Within(state'.queue, 19900, 22700)
      BY <1>2, <1>6
    <2>2. "gridlock" \in Gen!DetectAnomalyFlags(p("lo")) /\ "gridlock" \in Gen!DetectAnomalyFlags(p("hi"))
      BY <2>1, LightPayloads
    <2> QED BY <1>2, <2>2
  <1>15. step = plan.off => "signal_off" \in reported'
    <2> SUFFICES ASSUME step = plan.off PROVE "signal_off" \in reported'
      OBVIOUS
    <2>1. /\ Gen!LightPayload("lo").kind = "traffic_light" /\ Gen!LightPayload("lo").state = "off"
          /\ Gen!LightPayload("hi").kind = "traffic_light" /\ Gen!LightPayload("hi").state = "off"
      BY <1>3 DEF Gen!LightPayload
    <2>2. "signal_off" \in Gen!DetectAnomalyFlags(p("lo")) /\ "signal_off" \in Gen!DetectAnomalyFlags(p("hi"))
      BY <2>1 DEF Gen!DetectAnomalyFlags, Gen!TrafficLightFlags, Gen!When
    <2> QED BY <1>2, <2>2
  <1>16. step = g + 4 =>
           \/ "congested" \in reported'
           \/ Within(q, 16220, 19610) /\ Within(e, 6661, 8000) /\ w <= 3280
    <2> SUFFICES ASSUME step = g + 4
                 PROVE  \/ "congested" \in reported'
                        \/ Within(q, 16220, 19610) /\ Within(e, 6661, 8000) /\ w <= 3280
      OBVIOUS
    <2>1. CASE q.hi < 19500
      <3>1. Within(state'.queue, 11360, 19499)
        BY <1>2, <1>10, <2>1 DEF Within
      <3>2. "congested" \in Gen!DetectAnomalyFlags(p("lo")) /\ "congested" \in Gen!DetectAnomalyFlags(p("hi"))
        BY <3>1, LightPayloads
      <3> QED BY <1>2, <3>2
    <2>2. CASE ~(q.hi < 19500)
      BY <1>10, <2>2 DEF Within
    <2> QED BY <2>1, <2>2
  <1>17. step = g + 5 => "congested" \in reported'
    <2> SUFFICES ASSUME step = g + 5, "congested" \notin reported PROVE "congested" \in reported'
      BY <1>2
    <2>1. Within(state'.queue, 12900, 18900)
      BY <1>2, <1>11
    <2>2. "congested" \in Gen!DetectAnomalyFlags(p("lo")) /\ "congested" \in Gen!DetectAnomalyFlags(p("hi"))
      BY <2>1, LightPayloads
    <2> QED BY <1>2, <2>2
  \* The conjuncts.
  <1> HIDE DEF p
  <1>18. /\ (step < c) = (step + 1 <= c) /\ (step < g) = (step + 1 <= g)
         /\ (step = g) = (step + 1 = g + 1) /\ (step = g + 1) = (step + 1 = g + 2)
         /\ (step = g + 2) = (step + 1 = g + 3) /\ (step = g + 3) = (step + 1 = g + 4)
         /\ (step = g + 4) = (step + 1 = g + 5)
    BY <1>1
  <1>19. /\ step + 1 >= g + 6 => step = g + 5 \/ step >= g + 6
         /\ step + 1 > g => step = g \/ step > g
         /\ step + 1 > plan.off => step = plan.off \/ step > plan.off
    BY <1>1
  <1>20. LightInv'
    <2>1. (step <= plan.congested => Within(state.queue, 0, 8850) /\ Within(state.extra, 0, 5))'
      BY <1>2, <1>4, <1>18
    <2>2. (step <= plan.gridlock => Within(state.queue, 0, 17000) /\ Within(state.extra, 0, 8000))'
      BY <1>2, <1>5, <1>18
    <2>3. SinceJam(1, 19900, 22700, 18000, 18000, 1010)'
      BY <1>2, <1>6, <1>18 DEF SinceJam
    <2>4. SinceJam(2, 18000, 22800, 14040, 14041, 1735)'
      BY <1>2, <1>7, <1>18 DEF SinceJam
    <2>5. SinceJam(3, 15800, 22000, 10951, 10953, 2255)'
      BY <1>2, <1>8, <1>18 DEF SinceJam
    <2>6. SinceJam(4, 13500, 20700, 8541, 8545, 2630)'
      BY <1>2, <1>9, <1>18 DEF SinceJam
    <2>7. ("congested" \in reported \/ SinceJam(5, 16220, 19610, 6661, 8000, 3280))'
      BY <1>2, <1>16, <1>18 DEF SinceJam
    <2>8. (step >= plan.gridlock + 6 => "congested" \in reported)'
      BY <1>2, <1>17, <1>19 DEF LightInv
    <2>9. (step > plan.gridlock => "gridlock" \in reported)'
      BY <1>2, <1>14, <1>19 DEF LightInv
    <2>10. (step > plan.off => "signal_off" \in reported)'
      BY <1>2, <1>15, <1>19 DEF LightInv
    <2> QED BY <2>1, <2>2, <2>3, <2>4, <2>5, <2>6, <2>7, <2>8, <2>9, <2>10 DEF LightInv
  <1>21. Gen!QuietBeforeEvents'
    <2>1. Gen!FirstEvent' = c
      BY DEF Gen!FirstEvent
    <2>2. (\A r \in payloads : Gen!OccupancyFits(r))'
      BY <1>2, <1>12
    <2>3. (step <= Gen!FirstEvent => \A r \in payloads : Gen!DetectAnomalyFlags(r) = {})'
      BY <1>2, <1>13, <1>18, <2>1
    <2> QED BY <2>2, <2>3 DEF Gen!QuietBeforeEvents
  <1> QED BY <1>20, <1>21

-----------------------------------------------------------------------------
(* Car parks.                                                              *)

LEMMA ParkFlags ==
  ASSUME Gen!PayloadAssumption,
         NEW p, p.kind = "car_park", p.occupied \in Int, p.total \in Int, p.stay \in Int
  PROVE  /\ p.stay >= 240 => "long_stay" \in Gen!DetectAnomalyFlags(p)
         /\ 100 * p.occupied < 95 * p.total /\ p.stay < 240 => Gen!DetectAnomalyFlags(p) = {}
         /\ p.occupied <= p.total => Gen!OccupancyFits(p)
  <1>1. Gen!DetectAnomalyFlags(p) = Gen!CarParkFlags(p)
    BY DEF Gen!DetectAnomalyFlags
  <1>2. p.stay # NotSent
    BY DEF Gen!PayloadAssumption
  <1> DEFINE o == p.occupied
             t == p.total
             s == p.stay
  <1>3. o \in Int /\ t \in Int /\ s \in Int
    OBVIOUS
  <1>4. Gen!CarParkFlags(p) = Gen!When(100 * o >= 95 * t, "overcrowded") \cup Gen!When(s >= 240, "long_stay")
    BY <1>2 DEF Gen!CarParkFlags
  <1>5. p.occupied <= p.total => Gen!OccupancyFits(p)
    BY DEF Gen!OccupancyFits
  <1> HIDE DEF o, t, s
  <1>6. /\ s >= 240 => "long_stay" \in Gen!CarParkFlags(p)
        /\ 100 * o < 95 * t /\ s < 240 => Gen!CarParkFlags(p) = {}
    BY <1>3, <1>4 DEF Gen!When
  <1> QED BY <1>1, <1>5, <1>6 DEF o, t, s

LEMMA ParkPayloads ==
  ASSUME Gen!PayloadAssumption, NEW end \in {"lo", "hi"}, kind = "car_park", ParkDrawn,
         NEW a \in Int, NEW b \in Int, Within(state'.stay, a, b), Within(state'.rate, 20, 980),
         NEW p, p = Gen!ParkPayload(end)
  PROVE  /\ a >= 240000 => "long_stay" \in Gen!DetectAnomalyFlags(p)
         /\ Within(state'.rate, 20, 890) /\ b < 240000 => Gen!DetectAnomalyFlags(p) = {}
         /\ Gen!OccupancyFits(p)
  <1> DEFINE r == state'.rate[end]
             s == state'.stay[end]
             t == plan.total
             o == (t * r) \div 1000
             m == s \div 1000
  <1>1. /\ r \in Int /\ 20 <= r /\ r <= 980 /\ s \in Int /\ a <= s /\ s <= b /\ t \in {30, 60, 120, 200, 350}
        /\ Within(state'.rate, 20, 890) => r <= 890
    <2>1. r \in Int /\ 20 <= r /\ r <= 980
      BY DEF Within
    <2>2. s \in Int /\ a <= s /\ s <= b
      BY DEF Within
    <2>3. Within(state'.rate, 20, 890) => r <= 890
      BY DEF Within
    <2>4. t \in {30, 60, 120, 200, 350}
      BY DEF ParkDrawn
    <2> QED BY <2>1, <2>2, <2>3, <2>4, Zenon
  <1>2. p.kind = "car_park" /\ p.occupied = o /\ p.total = t /\ p.stay = m
    BY DEF Gen!ParkPayload
  <1> HIDE DEF r, s, t
  <1>3. m \in Int /\ (a >= 240000 => m >= 240) /\ (b < 240000 => m < 240)
    BY <1>1
  <1>4. t \in Int /\ o \in Int /\ o <= t /\ (r <= 890 => 100 * o < 95 * t)
    <2>1. CASE t = 30
      BY <1>1, <2>1
    <2>2. CASE t = 60
      BY <1>1, <2>2
    <2>3. CASE t = 120
      BY <1>1, <2>3
    <2>4. CASE t = 200
      BY <1>1, <2>4
    <2>5. CASE t = 350
      BY <1>1, <2>5
    <2> QED BY <1>1, <2>1, <2>2, <2>3, <2>4, <2>5
  <1> HIDE DEF o, m
  <1>5. p.occupied \in Int /\ p.total \in Int /\ p.stay \in Int
    BY <1>2, <1>3, <1>4
  <1>6. /\ m >= 240 => "long_stay" \in Gen!DetectAnomalyFlags(p)
        /\ 100 * o < 95 * t /\ m < 240 => Gen!DetectAnomalyFlags(p) = {}
        /\ o <= t => Gen!OccupancyFits(p)
    BY <1>2, <1>5, ParkFlags
  <1> QED BY <1>1, <1>3, <1>4, <1>6

LEMMA ClampWithin ==
  ASSUME NEW a \in Int, NEW b \in Int, NEW c \in Int, NEW d \in Int, c <= d,
         NEW v, Within(v, a, b)
  PROVE  Within(Gen!AtMost(Gen!AtLeast(v, Gen!Exactly(c)), d), c, d)
  <1> DEFINE l == v.lo
             h == v.hi
             q == Gen!AtMost(Gen!AtLeast(v, Gen!Exactly(c)), d)
             l1 == IF l < c THEN c ELSE l
             h1 == IF h < c THEN c ELSE h
  <1>1. l \in Int /\ h \in Int /\ l <= h
    BY DEF Within
  <1>2. /\ q.lo = (IF l1 > d THEN d ELSE l1)
        /\ q.hi = (IF h1 > d THEN d ELSE h1)
    BY DEF Gen!AtMost, Gen!AtLeast, Gen!Exactly, Gen!Between
  <1> HIDE DEF l, h, q
  <1>3. q.lo \in Int /\ q.hi \in Int /\ c <= q.lo /\ q.lo <= q.hi /\ q.hi <= d
    BY <1>1, <1>2
  <1>4. Within(q, c, d)
    BY <1>3 DEF Within
  <1> QED BY <1>4 DEF q

\* Values cut at n.
LEMMA Cutting ==
  ASSUME NEW a \in Int, NEW b \in Int, NEW v, Within(v, a, b), NEW n \in Int, a <= n
  PROVE  /\ Within(Gen!AtMost(v, n), a, n)
         /\ b <= n => Within(Gen!AtMost(v, n), a, b)
  <1> DEFINE l == v.lo
             h == v.hi
             q == Gen!AtMost(v, n)
  <1>1. l \in Int /\ h \in Int /\ a <= l /\ l <= h /\ h <= b
    BY DEF Within
  <1>2. q.lo = (IF l > n THEN n ELSE l) /\ q.hi = (IF h > n THEN n ELSE h)
    BY DEF Gen!AtMost, Gen!Between
  <1> HIDE DEF l, h, q
  <1>3. /\ q.lo \in Int /\ q.hi \in Int /\ a <= q.lo /\ q.lo <= q.hi /\ q.hi <= n
        /\ b <= n => q.hi <= b
    BY <1>1, <1>2
  <1>4. Within(q, a, n) /\ (b <= n => Within(q, a, b))
    BY <1>3 DEF Within
  <1> QED BY <1>4 DEF q

\* The parts of BuildPark.
ParkRush == Gen!Event(plan.overcrowded, 48)
ParkLong == Gen!Event(plan.long, 72)
ParkFaded == Gen!Fade(state.oc, 80)
ParkOc == IF ParkRush THEN Gen!AtLeast(ParkFaded, Gen!Exactly(300)) ELSE ParkFaded
ParkMoved == Gen!Ou(state.rate, Gen!Plus(Gen!Between(200, 780), ParkFaded), 18, 15)
ParkKept == Gen!AtMost(Gen!AtLeast(ParkMoved, Gen!Exactly(20)), 980)
ParkRate == IF ParkRush THEN Gen!AtMost(Gen!Plus(ParkKept, ParkOc), 980) ELSE ParkKept
ParkBoost == IF ParkLong THEN Gen!Exactly(260000) ELSE Gen!Fade(state.boost, 82)
ParkUsual == Gen!Between(35000 + 80 * ParkRate.lo, 35000 + 80 * ParkRate.hi)
ParkOld == IF ParkLong THEN Gen!AtLeast(state.stay, Gen!Exactly(250000)) ELSE state.stay
ParkMean == Gen!Plus(ParkUsual, ParkBoost)
ParkStay == Gen!AtLeast(Gen!Ou(ParkOld, ParkMean, 20, 3000), Gen!Exactly(10000))

LEMMA ParkParts ==
  /\ Gen!BuildPark.rate = ParkRate /\ Gen!BuildPark.oc = ParkOc
  /\ Gen!BuildPark.boost = ParkBoost /\ Gen!BuildPark.stay = ParkStay
  <1>1. Gen!BuildPark = [rate |-> ParkRate, oc |-> ParkOc, boost |-> ParkBoost, stay |-> ParkStay]
    BY SMT DEF Gen!BuildPark, ParkRush, ParkLong, ParkFaded, ParkOc, ParkMoved, ParkKept, ParkRate,
               ParkBoost, ParkUsual, ParkOld, ParkMean, ParkStay
  <1> QED BY <1>1

\* The rate of a car park that is at most y full.
LEMMA ParkRates ==
  ASSUME NEW n \in Int, 0 <= n, FadeMoves(0, n, 80, 0, n), Within(state.oc, 0, n),
         NEW b \in Int, Within(state.rate, 20, b),
         NEW x \in Int, NEW y \in Int, OuMoves(20, b, 200, 780 + n, 18, 15, x, y)
  PROVE  /\ Within(ParkFaded, 0, n) /\ Within(ParkMoved, x, y)
  <1>1. Within(ParkFaded, 0, n)
    BY FadeWithin DEF ParkFaded
  <1> DEFINE m == Gen!Plus(Gen!Between(200, 780), ParkFaded)
  <1>2. Within(m, 200, 780 + n)
    <2> DEFINE l == ParkFaded.lo
               h == ParkFaded.hi
    <2>1. m.lo = 200 + l /\ m.hi = 780 + h /\ l \in Int /\ h \in Int /\ 0 <= l /\ l <= h /\ h <= n
      BY <1>1 DEF Gen!Plus, Gen!Between, Within
    <2> HIDE DEF l, h, m
    <2>2. m.lo \in Int /\ m.hi \in Int /\ 200 <= m.lo /\ m.lo <= m.hi /\ m.hi <= 780 + n
      BY <2>1
    <2> QED BY <2>2 DEF Within
  <1> HIDE DEF m
  <1>3. Within(Gen!Ou(state.rate, m, 18, 15), x, y)
    BY <1>2, OuWithin
  <1> QED BY <1>1, <1>3 DEF ParkMoved, m

\* Any step.
LEMMA ParkAlways ==
  ASSUME Within(state.rate, 20, 980), Within(state.oc, 0, 305)
  PROVE  Within(ParkRate, 20, 980) /\ Within(ParkOc, 0, 305)
  <1>1. FadeMoves(0, 305, 80, 0, 305) /\ OuMoves(20, 980, 200, 780 + 305, 18, 15, 0, 1100)
    BY DEF FadeMoves, OuMoves
  <1>2. Within(ParkFaded, 0, 305) /\ Within(ParkMoved, 0, 1100)
    BY <1>1, ParkRates
  <1>3. Within(ParkKept, 20, 980)
    BY <1>2, ClampWithin DEF ParkKept
  <1>4. Within(ParkOc, 0, 305)
    <2>1. Within(Gen!AtLeast(ParkFaded, Gen!Exactly(300)), 0, 305)
      BY <1>2, RaisingExactly
    <2> QED BY <1>2, <2>1 DEF ParkOc
  <1>5. Within(ParkRate, 20, 980)
    <2>1. Within(Gen!Plus(ParkKept, ParkOc), 20, 1285)
      <3>1. Within(Gen!Plus(ParkKept, ParkOc), 20 + 0, 980 + 305)
        BY <1>3, <1>4, PlusWithin
      <3> QED BY <3>1
    <2>2. Within(Gen!AtMost(Gen!Plus(ParkKept, ParkOc), 980), 20, 980)
      BY <2>1, Cutting
    <2> QED BY <1>3, <2>2 DEF ParkRate
  <1> QED BY <1>4, <1>5

\* Before the first event.
LEMMA ParkQuiet ==
  ASSUME Within(state.rate, 20, 890), Within(state.oc, 0, 5), ~ParkRush
  PROVE  Within(ParkRate, 20, 890) /\ Within(ParkOc, 0, 5)
  <1>1. FadeMoves(0, 5, 80, 0, 5) /\ OuMoves(20, 890, 200, 780 + 5, 18, 15, 0, 890)
    BY DEF FadeMoves, OuMoves
  <1>2. Within(ParkFaded, 0, 5) /\ Within(ParkMoved, 0, 890)
    BY <1>1, ParkRates
  <1>3. Within(ParkKept, 20, 890)
    <2>1. Within(Gen!AtLeast(ParkMoved, Gen!Exactly(20)), 20, 890)
      BY <1>2, RaisingExactly
    <2>2. Within(Gen!AtMost(Gen!AtLeast(ParkMoved, Gen!Exactly(20)), 980), 20, 890)
      BY <2>1, Cutting
    <2> QED BY <2>2 DEF ParkKept
  <1> QED BY <1>2, <1>3 DEF ParkRate, ParkOc

LEMMA ParkMeans ==
  ASSUME NEW r \in Int, Within(ParkRate, 20, r),
         NEW a \in Int, NEW b \in Int, Within(ParkBoost, a, b)
  PROVE  Within(ParkMean, 36600 + a, 35000 + 80 * r + b)
  <1> DEFINE l == ParkRate.lo
             h == ParkRate.hi
             lb == ParkBoost.lo
             hb == ParkBoost.hi
  <1>1. /\ l \in Int /\ h \in Int /\ 20 <= l /\ l <= h /\ h <= r
        /\ lb \in Int /\ hb \in Int /\ a <= lb /\ lb <= hb /\ hb <= b
    BY DEF Within
  <1>2. ParkMean.lo = 35000 + 80 * l + lb /\ ParkMean.hi = 35000 + 80 * h + hb
    BY DEF ParkMean, ParkUsual, Gen!Plus, Gen!Between
  <1> HIDE DEF l, h, lb, hb
  <1>3. /\ ParkMean.lo \in Int /\ ParkMean.hi \in Int /\ 36600 + a <= ParkMean.lo
        /\ ParkMean.lo <= ParkMean.hi /\ ParkMean.hi <= 35000 + 80 * r + b
    BY <1>1, <1>2
  <1> QED BY <1>3 DEF Within

\* Stays of any step, of the step of a long stay, and of those before events.
LEMMA ParkStays ==
  ASSUME Within(state.stay, 0, 400000), Within(state.boost, 0, 260000), Within(ParkRate, 20, 980)
  PROVE  /\ Within(ParkBoost, 0, 260000) /\ Within(ParkStay, 0, 400000)
         /\ ParkLong => Within(ParkStay, 250000, 400000)
  <1>1. ASSUME ParkLong
        PROVE  Within(ParkBoost, 0, 260000) /\ Within(ParkStay, 250000, 400000)
    <2>1. Within(ParkBoost, 260000, 260000)
      BY <1>1, ExactlyWithin DEF ParkBoost
    <2>2. Within(ParkMean, 296600, 373400)
      <3>1. Within(ParkMean, 36600 + 260000, 35000 + 80 * 980 + 260000)
        BY <2>1, ParkMeans
      <3> QED BY <3>1
    <2>3. Within(ParkOld, 250000, 400000)
      <3>1. Within(Gen!AtLeast(state.stay, Gen!Exactly(250000)), 250000, 400000)
        BY RaisingExactly
      <3> QED BY <1>1, <3>1 DEF ParkOld
    <2>4. OuMoves(250000, 400000, 296600, 373400, 20, 3000, 250000, 400000)
      BY DEF OuMoves
    <2>5. Within(Gen!Ou(ParkOld, ParkMean, 20, 3000), 250000, 400000)
      BY <2>2, <2>3, <2>4, OuWithin
    <2>6. Within(ParkStay, 250000, 400000)
      BY <2>5, RaisingExactly DEF ParkStay
    <2>7. Within(ParkBoost, 0, 260000)
      BY <2>1, WithinMore
    <2> QED BY <2>6, <2>7
  <1>2. ASSUME ~ParkLong
        PROVE  Within(ParkBoost, 0, 260000) /\ Within(ParkStay, 0, 400000)
    <2>1. Within(ParkBoost, 0, 260000)
      <3>1. FadeMoves(0, 260000, 82, 0, 260000)
        BY DEF FadeMoves
      <3>2. Within(Gen!Fade(state.boost, 82), 0, 260000)
        BY <3>1, FadeWithin
      <3> QED BY <1>2, <3>2 DEF ParkBoost
    <2>2. Within(ParkMean, 36600, 373400)
      <3>1. Within(ParkMean, 36600 + 0, 35000 + 80 * 980 + 260000)
        BY <2>1, ParkMeans
      <3> QED BY <3>1
    <2>3. OuMoves(0, 400000, 36600, 373400, 20, 3000, 0, 400000)
      BY DEF OuMoves
    <2>4. Within(Gen!Ou(ParkOld, ParkMean, 20, 3000), 0, 400000)
      BY <1>2, <2>2, <2>3, OuWithin DEF ParkOld
    <2>5. Within(ParkStay, 0, 400000)
      BY <2>4, RaisingExactly DEF ParkStay
    <2> QED BY <2>1, <2>5
  <1>3. Within(ParkStay, 250000, 400000) => Within(ParkStay, 0, 400000)
    BY WithinMore
  <1> QED BY <1>1, <1>2, <1>3

LEMMA ParkQuietStays ==
  ASSUME Within(state.stay, 0, 125000), Within(state.boost, 0, 5), Within(ParkRate, 20, 890), ~ParkLong
  PROVE  Within(ParkBoost, 0, 5) /\ Within(ParkStay, 0, 125000)
  <1>1. Within(ParkBoost, 0, 5)
    <2>1. FadeMoves(0, 5, 82, 0, 5)
      BY DEF FadeMoves
    <2>2. Within(Gen!Fade(state.boost, 82), 0, 5)
      BY <2>1, FadeWithin
    <2> QED BY <2>2 DEF ParkBoost
  <1>2. Within(ParkMean, 36600, 106205)
    <2>1. Within(ParkMean, 36600 + 0, 35000 + 80 * 890 + 5)
      BY <1>1, ParkMeans
    <2> QED BY <2>1
  <1>3. OuMoves(0, 125000, 36600, 106205, 20, 3000, 0, 125000)
    BY DEF OuMoves
  <1>4. Within(Gen!Ou(ParkOld, ParkMean, 20, 3000), 0, 125000)
    BY <1>2, <1>3, OuWithin DEF ParkOld
  <1>5. Within(ParkStay, 0, 125000)
    BY <1>4, RaisingExactly DEF ParkStay
  <1> QED BY <1>1, <1>5

LEMMA ParkStep ==
  ASSUME Gen!PayloadAssumption, step \in Nat, kind = "car_park", ParkDrawn, ParkInv,
         Gen!Build("car_park", Gen!BuildPark, Gen!ParkPayload("lo"), Gen!ParkPayload("hi")),
         step' = step + 1, reported' = reported \cup Gen!Certain(payloads'), kind' = kind, plan' = plan
  PROVE  ParkInv' /\ Gen!QuietBeforeEvents'
  <1> DEFINE first == Gen!FirstEvent
             lo == Gen!ParkPayload("lo")
             hi == Gen!ParkPayload("hi")
  <1>1. /\ plan.overcrowded \in Nat /\ plan.long \in Nat /\ first \in Nat
        /\ first <= plan.overcrowded /\ first <= plan.long
    BY DEF ParkDrawn, Gen!FirstEvent
  <1>2. /\ state'.rate = ParkRate /\ state'.oc = ParkOc
        /\ state'.boost = ParkBoost /\ state'.stay = ParkStay
        /\ payloads' = {lo, hi} /\ reported \subseteq reported'
        /\ \A f : f \in Gen!DetectAnomalyFlags(lo) /\ f \in Gen!DetectAnomalyFlags(hi) => f \in reported'
    <2>1. state' = Gen!BuildPark /\ payloads' = {lo, hi}
      BY DEF Gen!Build
    <2>2. /\ state'.rate = ParkRate /\ state'.oc = ParkOc
          /\ state'.boost = ParkBoost /\ state'.stay = ParkStay
      BY <2>1, ParkParts
    <2>3. \A f : f \in Gen!DetectAnomalyFlags(lo) /\ f \in Gen!DetectAnomalyFlags(hi)
                   => f \in Gen!Certain(payloads')
      BY <2>1, CertainBoth
    <2> QED BY <2>1, <2>2, <2>3
  <1>3. /\ step < first => ~ParkRush /\ ~ParkLong
        /\ step = plan.long => ParkLong
    <2>1. step < first => ~ParkRush
      BY <1>1, EventCases DEF ParkRush
    <2>2. step < first => ~ParkLong
      BY <1>1, EventCases DEF ParkLong
    <2>3. step = plan.long => ParkLong
      BY <1>1, EventCases DEF ParkLong
    <2> QED BY <2>1, <2>2, <2>3
  <1>4. /\ Within(state.rate, 20, 980) /\ Within(state.oc, 0, 305)
        /\ Within(state.boost, 0, 260000) /\ Within(state.stay, 0, 400000)
    BY DEF ParkInv
  <1>5. /\ Within(ParkRate, 20, 980) /\ Within(ParkOc, 0, 305)
        /\ Within(ParkBoost, 0, 260000) /\ Within(ParkStay, 0, 400000)
        /\ ParkLong => Within(ParkStay, 250000, 400000)
    BY <1>4, ParkAlways, ParkStays
  <1>6. step < first =>
          /\ Within(ParkRate, 20, 890) /\ Within(ParkOc, 0, 5)
          /\ Within(ParkBoost, 0, 5) /\ Within(ParkStay, 0, 125000)
    <2> SUFFICES ASSUME step < first
                 PROVE  /\ Within(ParkRate, 20, 890) /\ Within(ParkOc, 0, 5)
                        /\ Within(ParkBoost, 0, 5) /\ Within(ParkStay, 0, 125000)
      OBVIOUS
    <2>1. /\ Within(state.rate, 20, 890) /\ Within(state.oc, 0, 5)
          /\ Within(state.boost, 0, 5) /\ Within(state.stay, 0, 125000)
      BY <1>1 DEF ParkInv
    <2>2. Within(ParkRate, 20, 890) /\ Within(ParkOc, 0, 5)
      BY <1>3, <2>1, ParkQuiet
    <2>3. Within(ParkBoost, 0, 5) /\ Within(ParkStay, 0, 125000)
      BY <1>3, <2>1, <2>2, ParkQuietStays
    <2> QED BY <2>2, <2>3
  \* The flags of the step.
  <1>7. Gen!OccupancyFits(lo) /\ Gen!OccupancyFits(hi)
    BY <1>2, <1>5, ParkPayloads
  <1>8. step < first => Gen!DetectAnomalyFlags(lo) = {} /\ Gen!DetectAnomalyFlags(hi) = {}
    BY <1>2, <1>5, <1>6, ParkPayloads
  <1>9. step = plan.long => "long_stay" \in reported'
    <2> SUFFICES ASSUME step = plan.long PROVE "long_stay" \in reported'
      OBVIOUS
    <2>1. "long_stay" \in Gen!DetectAnomalyFlags(lo) /\ "long_stay" \in Gen!DetectAnomalyFlags(hi)
      BY <1>2, <1>3, <1>5, ParkPayloads
    <2> QED BY <1>2, <2>1
  <1> HIDE DEF lo, hi
  <1>10. Gen!FirstEvent' = first
    BY DEF Gen!FirstEvent
  <1> HIDE DEF first
  <1>11. /\ (step < first) = (step + 1 <= first)
         /\ step + 1 > plan.long => step = plan.long \/ step > plan.long
    BY <1>1
  <1>12. ParkInv'
    <2>1. (/\ Within(state.rate, 20, 980) /\ Within(state.oc, 0, 305)
           /\ Within(state.boost, 0, 260000) /\ Within(state.stay, 0, 400000))'
      BY <1>2, <1>5
    <2>2. (step <= Gen!FirstEvent =>
             /\ Within(state.rate, 20, 890) /\ Within(state.oc, 0, 5)
             /\ Within(state.boost, 0, 5) /\ Within(state.stay, 0, 125000))'
      BY <1>2, <1>6, <1>10, <1>11
    <2>3. (step > plan.long => "long_stay" \in reported)'
      BY <1>2, <1>9, <1>11 DEF ParkInv
    <2> QED BY <2>1, <2>2, <2>3 DEF ParkInv
  <1>13. Gen!QuietBeforeEvents'
    <2>1. (\A r \in payloads : Gen!OccupancyFits(r))'
      BY <1>2, <1>7
    <2>2. (step <= Gen!FirstEvent => \A r \in payloads : Gen!DetectAnomalyFlags(r) = {})'
      BY <1>2, <1>8, <1>10, <1>11
    <2> QED BY <2>1, <2>2 DEF Gen!QuietBeforeEvents
  <1> QED BY <1>12, <1>13

-----------------------------------------------------------------------------
(* Air quality stations.                                                   *)

LEMMA AirFlags ==
  ASSUME NEW p, p.kind = "air_quality", p.pm25 \in Int
  PROVE  /\ 55 <= p.pm25 /\ p.pm25 < 150 => "very_unhealthy_pm25" \in Gen!DetectAnomalyFlags(p)
         /\ p.pm10 \in Int /\ p.no2 \in Int /\ p.o3 \in Int
              /\ p.pm25 < 35 /\ p.pm10 < 150 /\ p.no2 < 60 /\ p.o3 < 100
              => Gen!DetectAnomalyFlags(p) = {}
  <1>1. Gen!DetectAnomalyFlags(p) = Gen!AirQualityFlags(p)
    BY DEF Gen!DetectAnomalyFlags
  <1>2. 55 <= p.pm25 /\ p.pm25 < 150 => "very_unhealthy_pm25" \in Gen!AirQualityFlags(p)
    BY DEF Gen!AirQualityFlags, Gen!When
  <1>3. /\ p.pm10 \in Int /\ p.no2 \in Int /\ p.o3 \in Int
        /\ p.pm25 < 35 /\ p.pm10 < 150 /\ p.no2 < 60 /\ p.o3 < 100
        => Gen!AirQualityFlags(p) = {}
    BY DEF Gen!AirQualityFlags, Gen!When
  <1> QED BY <1>1, <1>2, <1>3

LEMMA AirPayloads ==
  ASSUME NEW end \in {"lo", "hi"}, kind = "air_quality",
         NEW a \in Int, NEW b \in Int, Within(state'.pm25, a, b),
         NEW p, p = Gen!AirPayload(end)
  PROVE  /\ a >= 55000 /\ b < 150000 => "very_unhealthy_pm25" \in Gen!DetectAnomalyFlags(p)
         /\ b < 35000 /\ Within(state'.pm10, 0, 42000) /\ Within(state'.no2, 0, 39000)
              /\ Within(state'.o3, 0, 78000)
              => Gen!DetectAnomalyFlags(p) = {}
         /\ Gen!OccupancyFits(p)
  <1> DEFINE v == state'.pm25[end]
             n == v \div 1000
  <1>1. v \in Int /\ a <= v /\ v <= b
    BY DEF Within
  <1>2. /\ p.kind = "air_quality" /\ p.pm25 = n
        /\ p.pm10 = state'.pm10[end] \div 1000
        /\ p.no2 = state'.no2[end] \div 1000
        /\ p.o3 = state'.o3[end] \div 1000
    BY DEF Gen!AirPayload, Gen!Metrics
  <1> HIDE DEF v
  <1>3. /\ n \in Int
        /\ a >= 55000 => 55 <= n
        /\ b < 150000 => n < 150
        /\ b < 35000 => n < 35
    BY <1>1
  <1> HIDE DEF n
  <1>4. Within(state'.pm10, 0, 42000) => p.pm10 \in Int /\ p.pm10 < 150
    <2> DEFINE d == state'.pm10[end]
    <2>1. Within(state'.pm10, 0, 42000) => d \in Int /\ d <= 42000
      BY DEF Within
    <2> HIDE DEF d
    <2>2. d \in Int /\ d <= 42000 => d \div 1000 \in Int /\ d \div 1000 < 150
      OBVIOUS
    <2> QED BY <1>2, <2>1, <2>2 DEF d
  <1>5. Within(state'.no2, 0, 39000) => p.no2 \in Int /\ p.no2 < 60
    <2> DEFINE d == state'.no2[end]
    <2>1. Within(state'.no2, 0, 39000) => d \in Int /\ d <= 39000
      BY DEF Within
    <2> HIDE DEF d
    <2>2. d \in Int /\ d <= 39000 => d \div 1000 \in Int /\ d \div 1000 < 60
      OBVIOUS
    <2> QED BY <1>2, <2>1, <2>2 DEF d
  <1>6. Within(state'.o3, 0, 78000) => p.o3 \in Int /\ p.o3 < 100
    <2> DEFINE d == state'.o3[end]
    <2>1. Within(state'.o3, 0, 78000) => d \in Int /\ d <= 78000
      BY DEF Within
    <2> HIDE DEF d
    <2>2. d \in Int /\ d <= 78000 => d \div 1000 \in Int /\ d \div 1000 < 100
      OBVIOUS
    <2> QED BY <1>2, <2>1, <2>2 DEF d
  <1>7. Gen!OccupancyFits(p)
    BY <1>2 DEF Gen!OccupancyFits
  <1>8. p.pm25 \in Int /\ (a >= 55000 => 55 <= p.pm25) /\ (b < 150000 => p.pm25 < 150)
        /\ (b < 35000 => p.pm25 < 35)
    BY <1>2, <1>3
  <1> QED BY <1>2, <1>4, <1>5, <1>6, <1>7, <1>8, AirFlags

LEMMA AtLeastWithin ==
  ASSUME NEW v, NEW a \in Int, NEW b \in Int, Within(v, a, b),
         NEW w, NEW c \in Int, NEW d \in Int, Within(w, c, d), d <= b
  PROVE  Within(Gen!AtLeast(v, w), a, b)
  <1> DEFINE l == v.lo
             h == v.hi
             i == w.lo
             j == w.hi
             q == Gen!AtLeast(v, w)
  <1>1. /\ l \in Int /\ h \in Int /\ a <= l /\ l <= h /\ h <= b
        /\ i \in Int /\ j \in Int /\ i <= j /\ j <= d
    BY DEF Within
  <1>2. q.lo = (IF l < i THEN i ELSE l) /\ q.hi = (IF h < j THEN j ELSE h)
    BY DEF Gen!AtLeast, Gen!Between
  <1> HIDE DEF l, h, i, j, q
  <1>3. q.lo \in Int /\ q.hi \in Int /\ a <= q.lo /\ q.lo <= q.hi /\ q.hi <= b
    BY <1>1, <1>2
  <1>4. Within(q, a, b)
    BY <1>3 DEF Within
  <1> QED BY <1>4 DEF q

LEMMA BetweenPlusWithin ==
  ASSUME NEW c \in Int, NEW d \in Int, c <= d, NEW v, NEW a \in Int, NEW b \in Int, Within(v, a, b)
  PROVE  Within(Gen!Plus(Gen!Between(c, d), v), c + a, d + b)
  <1> DEFINE l == v.lo
             h == v.hi
             q == Gen!Plus(Gen!Between(c, d), v)
  <1>1. l \in Int /\ h \in Int /\ a <= l /\ l <= h /\ h <= b
    BY DEF Within
  <1>2. q.lo = c + l /\ q.hi = d + h
    BY DEF Gen!Plus, Gen!Between
  <1> HIDE DEF l, h, q
  <1>3. q.lo \in Int /\ q.hi \in Int /\ c + a <= q.lo /\ q.lo <= q.hi /\ q.hi <= d + b
    BY <1>1, <1>2
  <1>4. Within(q, c + a, d + b)
    BY <1>3 DEF Within
  <1> QED BY <1>4 DEF q

\* The parts of BuildAir.
AirUnhealthy == Gen!Event(plan.unhealthy, 72)
AirVery == Gen!Event(plan.very, 144)
AirNo2 == Gen!Event(plan.no2, 144)
AirO3 == Gen!Event(plan.o3, 192)
AirRaised(v, event, a, b) == IF event THEN Gen!AtLeast(v, Gen!Between(a, b)) ELSE v
AirFaded(m) == Gen!Fade(state.plume[m], 83)
AirPlume25 == AirRaised(AirRaised(AirFaded("pm25"), AirUnhealthy, 22000, 26000), AirVery, 42000, 48000)
AirPlume10 == AirRaised(AirRaised(AirFaded("pm10"), AirUnhealthy, 28000, 34000), AirVery, 52000, 60000)
AirPlumeNo2 == AirRaised(AirFaded("no2"), AirNo2, 40000, 50000)
AirPlumeO3 == AirRaised(AirFaded("o3"), AirO3, 45000, 55000)
AirSmoke == AirRaised(AirRaised(state.pm25, AirUnhealthy, 36000, 42000), AirVery, 57000, 63000)
AirPm25 == Gen!AtLeast(Gen!Ou(AirSmoke, Gen!Plus(Gen!Between(11000, 19000), AirPlume25), 12, 800), Gen!Exactly(3000))
AirDust == Gen!Ou(state.pm10, Gen!Plus(Gen!Plus(AirPm25, Gen!Exactly(8000)), AirPlume10), 14, 1000)
AirPm10 == Gen!AtLeast(AirDust, Gen!Plus(AirPm25, Gen!Exactly(3000)))
AirNextNo2 ==
  Gen!AtLeast(Gen!Ou(AirRaised(state.no2, AirNo2, 61000, 68000),
             Gen!Plus(Gen!Between(18000, 28000), AirPlumeNo2), 12, 1200), Gen!Exactly(5000))
AirNextO3 ==
  Gen!AtLeast(Gen!Ou(AirRaised(state.o3, AirO3, 102000, 110000),
             Gen!Plus(Gen!Between(48000, 62000), AirPlumeO3), 10, 1500), Gen!Exactly(15000))

LEMMA AirParts ==
  /\ Gen!BuildAir.pm25 = AirPm25 /\ Gen!BuildAir.pm10 = AirPm10
  /\ Gen!BuildAir.no2 = AirNextNo2 /\ Gen!BuildAir.o3 = AirNextO3
  /\ Gen!BuildAir.plume.pm25 = AirPlume25 /\ Gen!BuildAir.plume.pm10 = AirPlume10
  /\ Gen!BuildAir.plume.no2 = AirPlumeNo2 /\ Gen!BuildAir.plume.o3 = AirPlumeO3
  <1>1. Gen!BuildAir = [pm25 |-> AirPm25, pm10 |-> AirPm10, no2 |-> AirNextNo2, o3 |-> AirNextO3,
                    plume |-> [pm25 |-> AirPlume25, pm10 |-> AirPlume10,
                               no2 |-> AirPlumeNo2, o3 |-> AirPlumeO3]]
    <2> DEFINE faded == [m \in Gen!Metrics |-> Gen!Fade(state.plume[m], 83)]
    <2>1. /\ faded.pm25 = AirFaded("pm25") /\ faded.pm10 = AirFaded("pm10")
          /\ faded.no2 = AirFaded("no2") /\ faded.o3 = AirFaded("o3")
      BY DEF Gen!Metrics, AirFaded
    <2> HIDE DEF faded
    <2> QED BY <2>1, SMT DEF faded, Gen!BuildAir, AirUnhealthy, AirVery, AirNo2, AirO3, AirRaised,
                  AirPlume25, AirPlume10, AirPlumeNo2, AirPlumeO3, AirSmoke, AirPm25, AirDust, AirPm10,
                  AirNextNo2, AirNextO3
  <1> QED BY <1>1

LEMMA AirRaising ==
  ASSUME NEW v, NEW a \in Int, NEW b \in Int, Within(v, a, b), NEW event \in BOOLEAN,
         NEW c \in Int, NEW d \in Int, c <= d, d <= b
  PROVE  /\ Within(AirRaised(v, event, c, d), a, b)
         /\ event => Within(AirRaised(v, event, c, d), c, b)
         /\ ~event => AirRaised(v, event, c, d) = v
  <1>1. Within(Gen!AtLeast(v, Gen!Between(c, d)), a, b) /\ Within(Gen!AtLeast(v, Gen!Between(c, d)), c, b)
    BY Raising
  <1> QED BY <1>1 DEF AirRaised

LEMMA AirEvents == AirUnhealthy \in BOOLEAN /\ AirVery \in BOOLEAN
  BY DEF AirUnhealthy, AirVery, Gen!Event

\* Any step, and the one of the very unhealthy air.
LEMMA AirAlways ==
  ASSUME Within(state.pm25, 0, 75000), Within(state.plume.pm25, 0, 48000)
  PROVE  /\ Within(AirPlume25, 0, 48000) /\ Within(AirPm25, 0, 75000)
         /\ AirVery => Within(AirPm25, 55000, 75000)
  <1> DEFINE m == Gen!Plus(Gen!Between(11000, 19000), AirPlume25)
             x == AirRaised(AirFaded("pm25"), AirUnhealthy, 22000, 26000)
             y == AirRaised(state.pm25, AirUnhealthy, 36000, 42000)
  <1>1. FadeMoves(0, 48000, 83, 0, 48000)
    BY DEF FadeMoves
  <1>2. Within(AirFaded("pm25"), 0, 48000)
    BY <1>1, FadeWithin DEF AirFaded
  <1>3. Within(x, 0, 48000)
    BY <1>2, AirRaising, AirEvents
  <1>4. Within(y, 0, 75000)
    BY AirRaising, AirEvents
  <1> HIDE DEF x, y
  <1>5. Within(AirPlume25, 0, 48000) /\ (AirVery => Within(AirPlume25, 42000, 48000))
    BY <1>3, AirRaising, AirEvents DEF AirPlume25, x
  <1>6. Within(AirSmoke, 0, 75000) /\ (AirVery => Within(AirSmoke, 57000, 75000))
    BY <1>4, AirRaising, AirEvents DEF AirSmoke, y
  <1>7. Within(m, 11000, 67000)
    <2>1. Within(m, 11000 + 0, 19000 + 48000)
      BY <1>5, BetweenPlusWithin
    <2> QED BY <2>1
  <1>8. AirVery => Within(m, 53000, 67000)
    <2>1. AirVery => Within(m, 11000 + 42000, 19000 + 48000)
      BY <1>5, BetweenPlusWithin
    <2> QED BY <2>1
  <1> DEFINE r == Gen!Ou(AirSmoke, m, 12, 800)
  <1> HIDE DEF m
  <1>9. /\ OuMoves(0, 75000, 11000, 67000, 12, 800, 0, 75000)
        /\ OuMoves(57000, 75000, 53000, 67000, 12, 800, 55000, 75000)
    BY DEF OuMoves
  <1>10. Within(r, 0, 75000)
    BY <1>6, <1>7, <1>9, OuWithin
  <1>11. AirVery => Within(r, 55000, 75000)
    BY <1>6, <1>8, <1>9, OuWithin
  <1> HIDE DEF r
  <1>12. Within(Gen!AtLeast(r, Gen!Exactly(3000)), 0, 75000)
    BY <1>10, RaisingExactly
  <1>13. AirVery => Within(Gen!AtLeast(r, Gen!Exactly(3000)), 55000, 75000)
    BY <1>11, RaisingExactly
  <1> QED BY <1>5, <1>12, <1>13 DEF AirPm25, r, m

\* Before the first event.
LEMMA AirQuiet ==
  ASSUME ~AirUnhealthy, ~AirVery, ~AirNo2, ~AirO3,
         Within(state.pm25, 0, 26000), Within(state.pm10, 0, 42000),
         Within(state.no2, 0, 39000), Within(state.o3, 0, 78000),
         \A m \in Gen!Metrics : Within(state.plume[m], 0, 5)
  PROVE  /\ Within(AirPm25, 0, 26000) /\ Within(AirPm10, 0, 42000)
         /\ Within(AirNextNo2, 0, 39000) /\ Within(AirNextO3, 0, 78000)
         /\ Within(AirPlume25, 0, 5) /\ Within(AirPlume10, 0, 5)
         /\ Within(AirPlumeNo2, 0, 5) /\ Within(AirPlumeO3, 0, 5)
  <1>1. \A m \in Gen!Metrics : Within(AirFaded(m), 0, 5)
    <2>1. FadeMoves(0, 5, 83, 0, 5)
      BY DEF FadeMoves
    <2> TAKE m \in Gen!Metrics
    <2>2. Within(state.plume[m], 0, 5)
      OBVIOUS
    <2> QED BY <2>1, <2>2, FadeWithin DEF AirFaded
  <1>2. /\ AirPlume25 = AirFaded("pm25") /\ AirPlume10 = AirFaded("pm10")
        /\ AirPlumeNo2 = AirFaded("no2") /\ AirPlumeO3 = AirFaded("o3")
        /\ AirSmoke = state.pm25
    BY DEF AirPlume25, AirPlume10, AirPlumeNo2, AirPlumeO3, AirSmoke, AirRaised
  <1>3. /\ Within(AirPlume25, 0, 5) /\ Within(AirPlume10, 0, 5)
        /\ Within(AirPlumeNo2, 0, 5) /\ Within(AirPlumeO3, 0, 5)
    BY <1>1, <1>2 DEF Gen!Metrics
  <1>4. Within(AirPm25, 0, 26000)
    <2> DEFINE m == Gen!Plus(Gen!Between(11000, 19000), AirPlume25)
    <2>1. Within(m, 11000 + 0, 19000 + 5)
      BY <1>3, BetweenPlusWithin
    <2>2. OuMoves(0, 26000, 11000 + 0, 19000 + 5, 12, 800, 0, 26000)
      BY DEF OuMoves
    <2> HIDE DEF m
    <2>3. Within(Gen!Ou(AirSmoke, m, 12, 800), 0, 26000)
      BY <1>2, <2>1, <2>2, OuWithin
    <2>4. Within(Gen!AtLeast(Gen!Ou(AirSmoke, m, 12, 800), Gen!Exactly(3000)), 0, 26000)
      BY <2>3, RaisingExactly
    <2> QED BY <2>4 DEF AirPm25, m
  <1>5. Within(AirPm10, 0, 42000)
    <2>1. Within(Gen!Exactly(8000), 8000, 8000) /\ Within(Gen!Exactly(3000), 3000, 3000)
      BY ExactlyWithin
    <2>2. Within(Gen!Plus(AirPm25, Gen!Exactly(8000)), 0 + 8000, 26000 + 8000)
      BY <1>4, <2>1, PlusWithin
    <2> DEFINE n == Gen!Plus(AirPm25, Gen!Exactly(8000))
               m == Gen!Plus(n, AirPlume10)
    <2>3. Within(n, 8000, 34000)
      BY <2>2
    <2> HIDE DEF n
    <2>4. Within(m, 8000 + 0, 34000 + 5)
      BY <1>3, <2>3, PlusWithin
    <2>5. OuMoves(0, 42000, 8000 + 0, 34000 + 5, 14, 1000, 0, 42000)
      BY DEF OuMoves
    <2> HIDE DEF m
    <2>6. Within(Gen!Ou(state.pm10, m, 14, 1000), 0, 42000)
      BY <2>4, <2>5, OuWithin
    <2>7. Within(AirDust, 0, 42000)
      BY <2>6 DEF AirDust, m, n
    <2>8. Within(Gen!Plus(AirPm25, Gen!Exactly(3000)), 0 + 3000, 26000 + 3000)
      BY <1>4, <2>1, PlusWithin
    <2>9. Within(Gen!Plus(AirPm25, Gen!Exactly(3000)), 3000, 29000)
      BY <2>8
    <2> QED BY <2>7, <2>9, AtLeastWithin DEF AirPm10
  <1>6. Within(AirNextNo2, 0, 39000)
    <2> DEFINE m == Gen!Plus(Gen!Between(18000, 28000), AirPlumeNo2)
    <2>1. Within(m, 18000 + 0, 28000 + 5)
      BY <1>3, BetweenPlusWithin
    <2>2. OuMoves(0, 39000, 18000 + 0, 28000 + 5, 12, 1200, 0, 39000)
      BY DEF OuMoves
    <2> HIDE DEF m
    <2>3. Within(Gen!Ou(state.no2, m, 12, 1200), 0, 39000)
      BY <2>1, <2>2, OuWithin
    <2>4. Within(Gen!AtLeast(Gen!Ou(state.no2, m, 12, 1200), Gen!Exactly(5000)), 0, 39000)
      BY <2>3, RaisingExactly
    <2> QED BY <2>4 DEF AirNextNo2, AirRaised, m
  <1>7. Within(AirNextO3, 0, 78000)
    <2> DEFINE m == Gen!Plus(Gen!Between(48000, 62000), AirPlumeO3)
    <2>1. Within(m, 48000 + 0, 62000 + 5)
      BY <1>3, BetweenPlusWithin
    <2>2. OuMoves(0, 78000, 48000 + 0, 62000 + 5, 10, 1500, 0, 78000)
      BY DEF OuMoves
    <2> HIDE DEF m
    <2>3. Within(Gen!Ou(state.o3, m, 10, 1500), 0, 78000)
      BY <2>1, <2>2, OuWithin
    <2>4. Within(Gen!AtLeast(Gen!Ou(state.o3, m, 10, 1500), Gen!Exactly(15000)), 0, 78000)
      BY <2>3, RaisingExactly
    <2> QED BY <2>4 DEF AirNextO3, AirRaised, m
  <1> QED BY <1>3, <1>4, <1>5, <1>6, <1>7

LEMMA AirStep ==
  ASSUME step \in Nat, kind = "air_quality", AirDrawn, AirInv,
         Gen!Build("air_quality", Gen!BuildAir, Gen!AirPayload("lo"), Gen!AirPayload("hi")),
         step' = step + 1, reported' = reported \cup Gen!Certain(payloads'), kind' = kind, plan' = plan
  PROVE  AirInv' /\ Gen!QuietBeforeEvents'
  <1> DEFINE first == plan.unhealthy
             lo == Gen!AirPayload("lo")
             hi == Gen!AirPayload("hi")
  <1>1. /\ first \in Nat /\ plan.very \in Nat /\ plan.no2 \in Nat /\ plan.o3 \in Nat
        /\ first <= plan.very /\ first <= plan.no2 /\ first <= plan.o3
    BY DEF AirDrawn
  <1>2. /\ state'.pm25 = AirPm25 /\ state'.pm10 = AirPm10
        /\ state'.no2 = AirNextNo2 /\ state'.o3 = AirNextO3
        /\ state'.plume.pm25 = AirPlume25 /\ state'.plume.pm10 = AirPlume10
        /\ state'.plume.no2 = AirPlumeNo2 /\ state'.plume.o3 = AirPlumeO3
        /\ payloads' = {lo, hi} /\ reported \subseteq reported'
        /\ \A f : f \in Gen!DetectAnomalyFlags(lo) /\ f \in Gen!DetectAnomalyFlags(hi) => f \in reported'
    <2>1. state' = Gen!BuildAir /\ payloads' = {lo, hi}
      BY DEF Gen!Build
    <2>2. \A f : f \in Gen!DetectAnomalyFlags(lo) /\ f \in Gen!DetectAnomalyFlags(hi)
                   => f \in Gen!Certain(payloads')
      BY <2>1, CertainBoth
    <2> QED BY <2>1, <2>2, AirParts
  <1>3. /\ step < first => ~AirUnhealthy /\ ~AirVery /\ ~AirNo2 /\ ~AirO3
        /\ step = plan.very => AirVery
    <2>1. step < first => ~AirUnhealthy
      BY <1>1, EventCases DEF AirUnhealthy
    <2>2. (step < first => ~AirVery) /\ (step = plan.very => AirVery)
      BY <1>1, EventCases DEF AirVery
    <2>3. step < first => ~AirNo2
      BY <1>1, EventCases DEF AirNo2
    <2>4. step < first => ~AirO3
      BY <1>1, EventCases DEF AirO3
    <2> QED BY <2>1, <2>2, <2>3, <2>4
  <1>4. /\ Within(AirPm25, 0, 75000) /\ Within(AirPlume25, 0, 48000)
        /\ AirVery => Within(AirPm25, 55000, 75000)
    BY AirAlways DEF AirInv
  <1>5. step < first =>
          /\ Within(AirPm25, 0, 26000) /\ Within(AirPm10, 0, 42000)
          /\ Within(AirNextNo2, 0, 39000) /\ Within(AirNextO3, 0, 78000)
          /\ Within(AirPlume25, 0, 5) /\ Within(AirPlume10, 0, 5)
          /\ Within(AirPlumeNo2, 0, 5) /\ Within(AirPlumeO3, 0, 5)
    <2> SUFFICES ASSUME step < first
                 PROVE  /\ Within(AirPm25, 0, 26000) /\ Within(AirPm10, 0, 42000)
                        /\ Within(AirNextNo2, 0, 39000) /\ Within(AirNextO3, 0, 78000)
                        /\ Within(AirPlume25, 0, 5) /\ Within(AirPlume10, 0, 5)
                        /\ Within(AirPlumeNo2, 0, 5) /\ Within(AirPlumeO3, 0, 5)
      OBVIOUS
    <2>1. /\ Within(state.pm25, 0, 26000) /\ Within(state.pm10, 0, 42000)
          /\ Within(state.no2, 0, 39000) /\ Within(state.o3, 0, 78000)
          /\ \A m \in Gen!Metrics : Within(state.plume[m], 0, 5)
      BY <1>1 DEF AirInv
    <2> QED BY <1>3, <2>1, AirQuiet
  \* The flags of the step.
  <1>6. Gen!OccupancyFits(lo) /\ Gen!OccupancyFits(hi)
    BY DEF Gen!OccupancyFits, Gen!AirPayload
  <1>7. step < first => Gen!DetectAnomalyFlags(lo) = {} /\ Gen!DetectAnomalyFlags(hi) = {}
    <2>1. step < first =>
            /\ Within(state'.pm25, 0, 26000) /\ Within(state'.pm10, 0, 42000)
            /\ Within(state'.no2, 0, 39000) /\ Within(state'.o3, 0, 78000)
      BY <1>2, <1>5
    <2> QED BY <2>1, AirPayloads
  <1>8. step = plan.very => "very_unhealthy_pm25" \in reported'
    <2> SUFFICES ASSUME step = plan.very PROVE "very_unhealthy_pm25" \in reported'
      OBVIOUS
    <2>1. Within(state'.pm25, 55000, 75000)
      BY <1>2, <1>3, <1>4
    <2>2. "very_unhealthy_pm25" \in Gen!DetectAnomalyFlags(lo) /\ "very_unhealthy_pm25" \in Gen!DetectAnomalyFlags(hi)
      BY <2>1, AirPayloads
    <2> QED BY <1>2, <2>2
  <1> HIDE DEF lo, hi
  <1>9. Gen!FirstEvent' = first
    BY DEF Gen!FirstEvent
  <1>10. /\ (step < first) = (step + 1 <= first)
         /\ step + 1 > plan.very => step = plan.very \/ step > plan.very
    BY <1>1
  <1>11. AirInv'
    <2>1. (Within(state.pm25, 0, 75000) /\ Within(state.plume.pm25, 0, 48000))'
      BY <1>2, <1>4
    <2>2. (step <= plan.unhealthy =>
             /\ Within(state.pm25, 0, 26000) /\ Within(state.pm10, 0, 42000)
             /\ Within(state.no2, 0, 39000) /\ Within(state.o3, 0, 78000))'
      BY <1>2, <1>5, <1>10
    <2>3. (step <= plan.unhealthy => \A m \in Gen!Metrics : Within(state.plume[m], 0, 5))'
      BY <1>2, <1>5, <1>10 DEF Gen!Metrics
    <2>4. (step > plan.very => "very_unhealthy_pm25" \in reported)'
      BY <1>2, <1>8, <1>10 DEF AirInv
    <2> QED BY <2>1, <2>2, <2>3, <2>4 DEF AirInv
  <1>12. Gen!QuietBeforeEvents'
    <2>1. (\A r \in payloads : Gen!OccupancyFits(r))'
      BY <1>2, <1>6
    <2>2. (step <= Gen!FirstEvent => \A r \in payloads : Gen!DetectAnomalyFlags(r) = {})'
      BY <1>2, <1>7, <1>9, <1>10
    <2> QED BY <2>1, <2>2 DEF Gen!QuietBeforeEvents
  <1> QED BY <1>11, <1>12

-----------------------------------------------------------------------------
(* Energy meters.                                                          *)

LEMMA MeterFlags ==
  ASSUME Gen!PayloadAssumption,
         NEW p, p.kind = "energy_meter", p.voltage \in Int, p.pf \in Int, p.power \in Int
  PROVE  /\ p.voltage < 207 \/ 253 < p.voltage => "voltage_out_of_range" \in Gen!DetectAnomalyFlags(p)
         /\ p.pf < 90 => "poor_power_factor" \in Gen!DetectAnomalyFlags(p)
         /\ p.power >= 6 => "power_overload" \in Gen!DetectAnomalyFlags(p)
         /\ 207 <= p.voltage /\ p.voltage <= 253 /\ p.pf >= 90 /\ p.power < 6
              => Gen!DetectAnomalyFlags(p) = {}
  <1>1. Gen!DetectAnomalyFlags(p) = Gen!EnergyMeterFlags(p)
    BY DEF Gen!DetectAnomalyFlags
  <1>2. p.pf # NotSent
    BY DEF Gen!PayloadAssumption
  <1> DEFINE v == p.voltage
             f == p.pf
             w == p.power
  <1>3. v \in Int /\ f \in Int /\ w \in Int
    OBVIOUS
  <1>4. Gen!EnergyMeterFlags(p) = Gen!When(~(207 <= v /\ v <= 253), "voltage_out_of_range")
                                \cup Gen!When(f < 90, "poor_power_factor")
                                \cup Gen!When(w >= 6, "power_overload")
    BY <1>2 DEF Gen!EnergyMeterFlags
  <1> HIDE DEF v, f, w
  <1>5. /\ v < 207 \/ 253 < v => "voltage_out_of_range" \in Gen!EnergyMeterFlags(p)
        /\ f < 90 => "poor_power_factor" \in Gen!EnergyMeterFlags(p)
        /\ w >= 6 => "power_overload" \in Gen!EnergyMeterFlags(p)
        /\ 207 <= v /\ v <= 253 /\ f >= 90 /\ w < 6 => Gen!EnergyMeterFlags(p) = {}
    BY <1>3, <1>4 DEF Gen!When
  <1> QED BY <1>1, <1>5 DEF v, f, w

LEMMA PowerBounds ==
  ASSUME NEW a \in Nat, NEW b \in Nat
  PROVE  /\ (a * b) \div 100000 \in Int
         /\ 2000 <= a /\ 305 <= b => (a * b) \div 100000 >= 6
         /\ a <= 2341 /\ b <= 221 => (a * b) \div 100000 < 6
  <1> DEFINE n == a * b
  <1>1. n \in Int
    OBVIOUS
  <1>2. ASSUME 2000 <= a, 305 <= b PROVE 610000 <= n
    <2>1. 2000 * b <= a * b
      BY <1>2, Scaled
    <2>2. 610000 <= 2000 * b
      BY <1>2
    <2> QED BY <2>1, <2>2
  <1>3. ASSUME a <= 2341, b <= 221 PROVE n <= 517361
    <2>1. a * b <= 2341 * b
      BY <1>3, Scaled
    <2>2. 2341 * b <= 517361
      BY <1>3
    <2> QED BY <2>1, <2>2
  <1> HIDE DEF n
  <1>4. /\ n \div 100000 \in Int
        /\ 610000 <= n => n \div 100000 >= 6
        /\ n <= 517361 => n \div 100000 < 6
    BY <1>1
  <1> QED BY <1>2, <1>3, <1>4 DEF n

LEMMA MeterPayloads ==
  ASSUME Gen!PayloadAssumption,
         NEW end \in {"lo", "hi"}, kind = "energy_meter", Within(state'.voltage, 200000, 260000),
         Within(state'.current, 0, 50000), Within(state'.pf, 7800, 9900),
         NEW p, p = Gen!MeterPayload(end)
  PROVE  /\ Within(state'.voltage, 253490, 260000) \/ Within(state'.voltage, 200000, 206510)
              => "voltage_out_of_range" \in Gen!DetectAnomalyFlags(p)
         /\ Within(state'.pf, 7800, 8740) => "poor_power_factor" \in Gen!DetectAnomalyFlags(p)
         /\ Within(state'.current, 30590, 50000) => "power_overload" \in Gen!DetectAnomalyFlags(p)
         /\ Within(state'.voltage, 226000, 234000) /\ Within(state'.current, 0, 22000)
              /\ Within(state'.pf, 9200, 9600)
              => Gen!DetectAnomalyFlags(p) = {}
         /\ Gen!OccupancyFits(p)
  <1> DEFINE v == state'.voltage[end]
             i == state'.current[end]
             f == state'.pf[end]
             more == IF end = "hi" THEN 1 ELSE 0
             volts == IF v > 230000 THEN (v + 999) \div 1000 ELSE v \div 1000
             vs == v \div 100 + more
             is == i \div 100 + more
             factor == f \div 100
             power == (vs * is) \div 100000
  <1>1. /\ v \in Int /\ 200000 <= v
        /\ Within(state'.voltage, 253490, 260000) => 253490 <= v
        /\ Within(state'.voltage, 200000, 206510) => v <= 206510
        /\ Within(state'.voltage, 226000, 234000) => 226000 <= v /\ v <= 234000
    BY DEF Within
  <1>2. /\ i \in Int /\ 0 <= i
        /\ Within(state'.current, 30590, 50000) => 30590 <= i
        /\ Within(state'.current, 0, 22000) => i <= 22000
    BY DEF Within
  <1>3. /\ f \in Int
        /\ Within(state'.pf, 7800, 8740) => f <= 8740
        /\ Within(state'.pf, 9200, 9600) => 9200 <= f
    BY DEF Within
  <1>4. p.kind = "energy_meter" /\ p.voltage = volts /\ p.pf = factor /\ p.power = power
    BY DEF Gen!MeterPayload
  <1>5. more \in {0, 1}
    OBVIOUS
  <1> HIDE DEF v, i, f, more
  <1>6. /\ volts \in Int
        /\ 253490 <= v => 253 < volts
        /\ v <= 206510 => volts < 207
        /\ 226000 <= v /\ v <= 234000 => 207 <= volts /\ volts <= 253
    BY <1>1
  <1>7. /\ vs \in Nat /\ 2000 <= vs
        /\ v <= 234000 => vs <= 2341
    BY <1>1, <1>5
  <1>8. /\ is \in Nat
        /\ 30590 <= i => 305 <= is
        /\ i <= 22000 => is <= 221
    BY <1>2, <1>5
  <1>9. factor \in Int /\ (f <= 8740 => factor < 90) /\ (9200 <= f => factor >= 90)
    BY <1>3
  <1> HIDE DEF volts, vs, is, factor
  <1>10. /\ power \in Int
         /\ 30590 <= i => power >= 6
         /\ v <= 234000 /\ i <= 22000 => power < 6
    BY <1>7, <1>8, PowerBounds
  <1> HIDE DEF power
  <1>11. p.voltage \in Int /\ p.pf \in Int /\ p.power \in Int
    BY <1>4, <1>6, <1>9, <1>10
  <1>12. /\ volts < 207 \/ 253 < volts => "voltage_out_of_range" \in Gen!DetectAnomalyFlags(p)
         /\ factor < 90 => "poor_power_factor" \in Gen!DetectAnomalyFlags(p)
         /\ power >= 6 => "power_overload" \in Gen!DetectAnomalyFlags(p)
         /\ 207 <= volts /\ volts <= 253 /\ factor >= 90 /\ power < 6
              => Gen!DetectAnomalyFlags(p) = {}
    BY <1>4, <1>11, MeterFlags
  <1>13. Gen!OccupancyFits(p)
    BY <1>4 DEF Gen!OccupancyFits
  <1> QED BY <1>1, <1>2, <1>3, <1>6, <1>9, <1>10, <1>12, <1>13

LEMMA LoadWithin ==
  ASSUME step \in Nat, MeterDrawn
  PROVE  Within(Gen!Load, 15000, 19001)
  <1> DEFINE quarter == (step + plan.phase) % 96
             away == IF quarter < 72 THEN 72 - quarter ELSE quarter - 72
             load == 15000 + (4000 * (72 - away)) \div 72
  <1>1. quarter \in 0 .. 95
    <2> DEFINE phase == plan.phase
    <2>1. phase \in Nat
      BY DEF MeterDrawn
    <2> HIDE DEF phase
    <2>2. step + phase \in Int
      BY <2>1
    <2>3. (step + phase) % 96 \in 0 .. 95
      BY <2>2
    <2> QED BY <2>3 DEF phase
  <1> HIDE DEF quarter
  <1>2. away \in 0 .. 72
    BY <1>1
  <1> HIDE DEF away
  <1>3. load \in Int /\ 15000 <= load /\ load <= 19000
    BY <1>2
  <1>4. Gen!Load = Gen!Between(load, load + 1)
    BY DEF Gen!Load, quarter, away
  <1> HIDE DEF load
  <1>5. Gen!Load.lo = load /\ Gen!Load.hi = load + 1
    BY <1>4 DEF Gen!Between
  <1> QED BY <1>3, <1>5 DEF Within

\* The parts of BuildMeter.
MeterOverload == Gen!Event(plan.overload, 144)
MeterPoor == Gen!Event(plan.pf, 120)
MeterSwing == Gen!Event(plan.voltage, 96)
MeterOffVoltage(jump) == IF MeterSwing THEN jump ELSE Gen!Fade(state.off.voltage, 78)
MeterOffCurrent == IF MeterOverload THEN Gen!Between(16000, 20000) ELSE Gen!Fade(state.off.current, 80)
MeterOffPf == IF MeterPoor THEN Gen!Between(-1000, -700) ELSE Gen!Fade(state.off.pf, 80)
MeterVoltage(jump) ==
  Gen!Ou(IF MeterSwing THEN Gen!Plus(Gen!Exactly(230000), jump) ELSE state.voltage,
     Gen!Plus(Gen!Exactly(230000), MeterOffVoltage(jump)), 18, 500)
MeterCurrent ==
  Gen!AtLeast(Gen!Ou(IF MeterOverload THEN Gen!Plus(Gen!Load, MeterOffCurrent) ELSE state.current,
             Gen!Plus(Gen!Load, MeterOffCurrent), 22, 400), Gen!Exactly(2000))
MeterPf ==
  Gen!AtMost(Gen!AtLeast(Gen!Ou(IF MeterPoor THEN Gen!Plus(Gen!Exactly(9400), MeterOffPf) ELSE state.pf,
                    Gen!Plus(Gen!Exactly(9400), MeterOffPf), 18, 30), Gen!Exactly(7800)), 9900)

LEMMA MeterParts ==
  ASSUME NEW jump
  PROVE  /\ Gen!BuildMeter(jump).voltage = MeterVoltage(jump)
         /\ Gen!BuildMeter(jump).current = MeterCurrent /\ Gen!BuildMeter(jump).pf = MeterPf
         /\ Gen!BuildMeter(jump).off.voltage = MeterOffVoltage(jump)
         /\ Gen!BuildMeter(jump).off.current = MeterOffCurrent
         /\ Gen!BuildMeter(jump).off.pf = MeterOffPf
  <1> DEFINE off == [voltage |-> MeterOffVoltage(jump), current |-> MeterOffCurrent, pf |-> MeterOffPf]
  <1>1. off = [voltage |-> IF MeterSwing THEN jump ELSE Gen!Fade(state.off.voltage, 78),
               current |-> IF MeterOverload THEN Gen!Between(16000, 20000) ELSE Gen!Fade(state.off.current, 80),
               pf |-> IF MeterPoor THEN Gen!Between(-1000, -700) ELSE Gen!Fade(state.off.pf, 80)]
    BY DEF MeterOffVoltage, MeterOffCurrent, MeterOffPf
  <1>2. /\ off.voltage = MeterOffVoltage(jump) /\ off.current = MeterOffCurrent /\ off.pf = MeterOffPf
    OBVIOUS
  <1> HIDE DEF off
  <1>3. Gen!BuildMeter(jump) =
          [off |-> off,
           voltage |-> Gen!Ou(IF MeterSwing THEN Gen!Plus(Gen!Exactly(230000), jump) ELSE state.voltage,
                          Gen!Plus(Gen!Exactly(230000), off.voltage), 18, 500),
           current |-> Gen!AtLeast(Gen!Ou(IF MeterOverload THEN Gen!Plus(Gen!Load, off.current) ELSE state.current,
                                  Gen!Plus(Gen!Load, off.current), 22, 400), Gen!Exactly(2000)),
           pf |-> Gen!AtMost(Gen!AtLeast(Gen!Ou(IF MeterPoor THEN Gen!Plus(Gen!Exactly(9400), off.pf) ELSE state.pf,
                                    Gen!Plus(Gen!Exactly(9400), off.pf), 18, 30), Gen!Exactly(7800)), 9900)]
    BY <1>1, SMT DEF Gen!BuildMeter, MeterOverload, MeterPoor, MeterSwing
  <1> QED BY <1>2, <1>3 DEF MeterVoltage, MeterCurrent, MeterPf

\* What a voltage event may do.
Jumps == {Gen!Between(24000, 26000), Gen!Between(-26000, -24000)}

LEMMA JumpCases ==
  ASSUME NEW jump \in Jumps
  PROVE  Within(jump, 24000, 26000) \/ Within(jump, -26000, -24000)
  <1>1. Within(Gen!Between(24000, 26000), 24000, 26000)
    BY DEF Within, Gen!Between
  <1>2. Within(Gen!Between(-26000, -24000), -26000, -24000)
    BY DEF Within, Gen!Between
  <1> QED BY <1>1, <1>2 DEF Jumps

LEMMA ExactlyPlusWithin ==
  ASSUME NEW n \in Int, NEW v, NEW a \in Int, NEW b \in Int, Within(v, a, b)
  PROVE  Within(Gen!Plus(Gen!Exactly(n), v), n + a, n + b)
  BY BetweenPlusWithin DEF Gen!Exactly

LEMMA MeterVoltages ==
  ASSUME NEW jump \in Jumps, Within(state.voltage, 200000, 260000),
         Within(state.off.voltage, -26000, 26000)
  PROVE  /\ Within(MeterOffVoltage(jump), -26000, 26000)
         /\ Within(MeterVoltage(jump), 200000, 260000)
         /\ MeterSwing => \/ Within(MeterVoltage(jump), 253490, 260000)
                          \/ Within(MeterVoltage(jump), 200000, 206510)
  <1> DEFINE off == MeterOffVoltage(jump)
             m == Gen!Plus(Gen!Exactly(230000), off)
             old == IF MeterSwing THEN Gen!Plus(Gen!Exactly(230000), jump) ELSE state.voltage
  <1>1. MeterVoltage(jump) = Gen!Ou(old, m, 18, 500)
    BY DEF MeterVoltage
  <1>2. CASE ~MeterSwing
    <2>1. off = Gen!Fade(state.off.voltage, 78) /\ old = state.voltage
      BY <1>2 DEF MeterOffVoltage
    <2> HIDE DEF off, old
    <2>2. FadeMoves(-26000, 26000, 78, -26000, 26000)
      BY DEF FadeMoves
    <2>3. Within(off, -26000, 26000)
      BY <2>1, <2>2, FadeWithin
    <2>4. Within(m, 230000 + (-26000), 230000 + 26000)
      BY <2>3, ExactlyPlusWithin
    <2> HIDE DEF m
    <2>5. OuMoves(200000, 260000, 230000 + (-26000), 230000 + 26000, 18, 500, 200000, 260000)
      BY DEF OuMoves
    <2>6. Within(Gen!Ou(old, m, 18, 500), 200000, 260000)
      BY <2>1, <2>4, <2>5, OuWithin
    <2> QED BY <1>1, <1>2, <2>3, <2>6 DEF off
  <1>3. CASE MeterSwing /\ Within(jump, 24000, 26000)
    <2>1. off = jump /\ old = Gen!Plus(Gen!Exactly(230000), jump)
      BY <1>3 DEF MeterOffVoltage
    <2> HIDE DEF off, old
    <2>2. Within(m, 230000 + 24000, 230000 + 26000) /\ Within(old, 230000 + 24000, 230000 + 26000)
      BY <1>3, <2>1, ExactlyPlusWithin
    <2>3. OuMoves(230000 + 24000, 230000 + 26000, 230000 + 24000, 230000 + 26000, 18, 500, 253490, 260000)
      BY DEF OuMoves
    <2> HIDE DEF m
    <2>4. Within(Gen!Ou(old, m, 18, 500), 253490, 260000)
      BY <2>2, <2>3, OuWithin
    <2>5. Within(Gen!Ou(old, m, 18, 500), 200000, 260000)
      BY <2>4, WithinMore
    <2>6. Within(off, -26000, 26000)
      BY <1>3, <2>1, WithinMore
    <2> QED BY <1>1, <2>4, <2>5, <2>6 DEF off
  <1>4. CASE MeterSwing /\ Within(jump, -26000, -24000)
    <2>1. off = jump /\ old = Gen!Plus(Gen!Exactly(230000), jump)
      BY <1>4 DEF MeterOffVoltage
    <2> HIDE DEF off, old
    <2>2. /\ Within(m, 230000 + (-26000), 230000 + (-24000))
          /\ Within(old, 230000 + (-26000), 230000 + (-24000))
      BY <1>4, <2>1, ExactlyPlusWithin
    <2>3. OuMoves(230000 + (-26000), 230000 + (-24000), 230000 + (-26000), 230000 + (-24000),
                  18, 500, 200000, 206510)
      BY DEF OuMoves
    <2> HIDE DEF m
    <2>4. Within(Gen!Ou(old, m, 18, 500), 200000, 206510)
      BY <2>2, <2>3, OuWithin
    <2>5. Within(Gen!Ou(old, m, 18, 500), 200000, 260000)
      BY <2>4, WithinMore
    <2>6. Within(off, -26000, 26000)
      BY <1>4, <2>1, WithinMore
    <2> QED BY <1>1, <2>4, <2>5, <2>6 DEF off
  <1> QED BY <1>2, <1>3, <1>4, JumpCases

LEMMA MeterCurrents ==
  ASSUME step \in Nat, MeterDrawn, Within(state.current, 0, 50000), Within(state.off.current, 0, 20000)
  PROVE  /\ Within(MeterOffCurrent, 0, 20000) /\ Within(MeterCurrent, 0, 50000)
         /\ MeterOverload => Within(MeterCurrent, 30590, 50000)
  <1> DEFINE m == Gen!Plus(Gen!Load, MeterOffCurrent)
             old == IF MeterOverload THEN m ELSE state.current
             r == Gen!Ou(old, m, 22, 400)
  <1>1. Within(Gen!Load, 15000, 19001)
    BY LoadWithin
  <1>2. MeterCurrent = Gen!AtLeast(r, Gen!Exactly(2000))
    BY DEF MeterCurrent
  <1>3. CASE ~MeterOverload
    <2>1. FadeMoves(0, 20000, 80, 0, 20000)
      BY DEF FadeMoves
    <2>2. Within(MeterOffCurrent, 0, 20000)
      BY <1>3, <2>1, FadeWithin DEF MeterOffCurrent
    <2>3. Within(m, 15000 + 0, 19001 + 20000) /\ Within(old, 0, 50000)
      BY <1>1, <1>3, <2>2, PlusWithin
    <2>4. OuMoves(0, 50000, 15000 + 0, 19001 + 20000, 22, 400, 0, 50000)
      BY DEF OuMoves
    <2> HIDE DEF m, old
    <2>5. Within(r, 0, 50000)
      BY <2>3, <2>4, OuWithin
    <2> HIDE DEF r
    <2>6. Within(Gen!AtLeast(r, Gen!Exactly(2000)), 0, 50000)
      BY <2>5, RaisingExactly
    <2> QED BY <1>2, <1>3, <2>2, <2>6
  <1>4. CASE MeterOverload
    <2>1. Within(Gen!Between(16000, 20000), 16000, 20000) /\ Within(Gen!Between(16000, 20000), 0, 20000)
      BY DEF Within, Gen!Between
    <2>2. Within(MeterOffCurrent, 16000, 20000) /\ Within(MeterOffCurrent, 0, 20000)
      BY <1>4, <2>1 DEF MeterOffCurrent
    <2>3. Within(m, 15000 + 16000, 19001 + 20000)
      BY <1>1, <2>2, PlusWithin
    <2>4. old = m
      BY <1>4
    <2>5. OuMoves(15000 + 16000, 19001 + 20000, 15000 + 16000, 19001 + 20000, 22, 400, 30590, 50000)
      BY DEF OuMoves
    <2> HIDE DEF m, old
    <2>6. Within(r, 30590, 50000)
      BY <2>3, <2>4, <2>5, OuWithin
    <2> HIDE DEF r
    <2>7. Within(Gen!AtLeast(r, Gen!Exactly(2000)), 30590, 50000)
      BY <2>6, RaisingExactly
    <2>8. Within(Gen!AtLeast(r, Gen!Exactly(2000)), 0, 50000)
      BY <2>7, WithinMore
    <2> QED BY <1>2, <2>2, <2>7, <2>8
  <1> QED BY <1>3, <1>4

LEMMA MeterFactors ==
  ASSUME Within(state.pf, 7800, 9900), Within(state.off.pf, -1000, 5)
  PROVE  /\ Within(MeterOffPf, -1000, 5) /\ Within(MeterPf, 7800, 9900)
         /\ MeterPoor => Within(MeterPf, 7800, 8740)
  <1> DEFINE m == Gen!Plus(Gen!Exactly(9400), MeterOffPf)
             old == IF MeterPoor THEN m ELSE state.pf
             r == Gen!Ou(old, m, 18, 30)
             s == Gen!AtLeast(r, Gen!Exactly(7800))
  <1>1. MeterPf = Gen!AtMost(s, 9900)
    BY DEF MeterPf
  <1>2. CASE ~MeterPoor
    <2>1. FadeMoves(-1000, 5, 80, -1000, 5)
      BY DEF FadeMoves
    <2>2. Within(MeterOffPf, -1000, 5)
      BY <1>2, <2>1, FadeWithin DEF MeterOffPf
    <2>3. Within(m, 9400 + (-1000), 9400 + 5) /\ Within(old, 7800, 9900)
      BY <1>2, <2>2, ExactlyPlusWithin
    <2>4. OuMoves(7800, 9900, 9400 + (-1000), 9400 + 5, 18, 30, 7000, 10000)
      BY DEF OuMoves
    <2> HIDE DEF m, old
    <2>5. Within(r, 7000, 10000)
      BY <2>3, <2>4, OuWithin
    <2> HIDE DEF r
    <2>6. Within(Gen!AtMost(Gen!AtLeast(r, Gen!Exactly(7800)), 9900), 7800, 9900)
      BY <2>5, ClampWithin
    <2> QED BY <1>1, <1>2, <2>2, <2>6
  <1>3. CASE MeterPoor
    <2>1. Within(Gen!Between(-1000, -700), -1000, -700) /\ Within(Gen!Between(-1000, -700), -1000, 5)
      BY DEF Within, Gen!Between
    <2>2. Within(MeterOffPf, -1000, -700) /\ Within(MeterOffPf, -1000, 5)
      BY <1>3, <2>1 DEF MeterOffPf
    <2>3. Within(m, 9400 + (-1000), 9400 + (-700))
      BY <2>2, ExactlyPlusWithin
    <2>4. old = m
      BY <1>3
    <2>5. OuMoves(9400 + (-1000), 9400 + (-700), 9400 + (-1000), 9400 + (-700), 18, 30, 7000, 8740)
      BY DEF OuMoves
    <2> HIDE DEF m, old
    <2>6. Within(r, 7000, 8740)
      BY <2>3, <2>4, <2>5, OuWithin
    <2> HIDE DEF r
    <2>7. Within(s, 7800, 8740)
      BY <2>6, RaisingExactly
    <2> HIDE DEF s
    <2>8. Within(Gen!AtMost(s, 9900), 7800, 8740)
      BY <2>7, Cutting
    <2>9. Within(Gen!AtMost(s, 9900), 7800, 9900)
      BY <2>8, WithinMore
    <2> QED BY <1>1, <2>2, <2>8, <2>9
  <1> QED BY <1>2, <1>3

\* Before the first event.
LEMMA MeterQuiet ==
  ASSUME step \in Nat, MeterDrawn, NEW jump, ~MeterSwing, ~MeterOverload, ~MeterPoor,
         Within(state.voltage, 226000, 234000), Within(state.off.voltage, 0, 5),
         Within(state.current, 0, 22000), Within(state.off.current, 0, 5),
         Within(state.pf, 9200, 9600), Within(state.off.pf, 0, 5)
  PROVE  /\ Within(MeterVoltage(jump), 226000, 234000) /\ Within(MeterOffVoltage(jump), 0, 5)
         /\ Within(MeterCurrent, 0, 22000) /\ Within(MeterOffCurrent, 0, 5)
         /\ Within(MeterPf, 9200, 9600) /\ Within(MeterOffPf, 0, 5)
  <1>1. FadeMoves(0, 5, 78, 0, 5) /\ FadeMoves(0, 5, 80, 0, 5)
    BY DEF FadeMoves
  <1>2. /\ Within(MeterOffVoltage(jump), 0, 5) /\ Within(MeterOffCurrent, 0, 5)
        /\ Within(MeterOffPf, 0, 5)
    BY <1>1, FadeWithin DEF MeterOffVoltage, MeterOffCurrent, MeterOffPf
  <1>3. Within(MeterVoltage(jump), 226000, 234000)
    <2> DEFINE m == Gen!Plus(Gen!Exactly(230000), MeterOffVoltage(jump))
    <2>1. Within(m, 230000 + 0, 230000 + 5)
      BY <1>2, ExactlyPlusWithin
    <2>2. OuMoves(226000, 234000, 230000 + 0, 230000 + 5, 18, 500, 226000, 234000)
      BY DEF OuMoves
    <2> HIDE DEF m
    <2>3. Within(Gen!Ou(state.voltage, m, 18, 500), 226000, 234000)
      BY <2>1, <2>2, OuWithin
    <2> QED BY <2>3 DEF MeterVoltage, m
  <1>4. Within(MeterCurrent, 0, 22000)
    <2> DEFINE m == Gen!Plus(Gen!Load, MeterOffCurrent)
    <2>1. Within(m, 15000 + 0, 19001 + 5)
      BY <1>2, LoadWithin, PlusWithin
    <2>2. OuMoves(0, 22000, 15000 + 0, 19001 + 5, 22, 400, 0, 22000)
      BY DEF OuMoves
    <2> HIDE DEF m
    <2>3. Within(Gen!Ou(state.current, m, 22, 400), 0, 22000)
      BY <2>1, <2>2, OuWithin
    <2>4. Within(Gen!AtLeast(Gen!Ou(state.current, m, 22, 400), Gen!Exactly(2000)), 0, 22000)
      BY <2>3, RaisingExactly
    <2> QED BY <2>4 DEF MeterCurrent, m
  <1>5. Within(MeterPf, 9200, 9600)
    <2> DEFINE m == Gen!Plus(Gen!Exactly(9400), MeterOffPf)
               s == Gen!AtLeast(Gen!Ou(state.pf, m, 18, 30), Gen!Exactly(7800))
    <2>1. Within(m, 9400 + 0, 9400 + 5)
      BY <1>2, ExactlyPlusWithin
    <2>2. OuMoves(9200, 9600, 9400 + 0, 9400 + 5, 18, 30, 9200, 9600)
      BY DEF OuMoves
    <2> HIDE DEF m
    <2>3. Within(Gen!Ou(state.pf, m, 18, 30), 9200, 9600)
      BY <2>1, <2>2, OuWithin
    <2>4. Within(s, 9200, 9600)
      BY <2>3, RaisingExactly
    <2> HIDE DEF s
    <2>5. Within(Gen!AtMost(s, 9900), 9200, 9600)
      BY <2>4, Cutting
    <2> QED BY <2>5 DEF MeterPf, m, s
  <1> QED BY <1>2, <1>3, <1>4, <1>5

LEMMA MeterStep ==
  ASSUME Gen!PayloadAssumption,
         step \in Nat, kind = "energy_meter", MeterDrawn, MeterInv, NEW jump \in Jumps,
         Gen!Build("energy_meter", Gen!BuildMeter(jump), Gen!MeterPayload("lo"), Gen!MeterPayload("hi")),
         step' = step + 1, reported' = reported \cup Gen!Certain(payloads'), kind' = kind, plan' = plan
  PROVE  MeterInv' /\ Gen!QuietBeforeEvents'
  <1> DEFINE first == Gen!FirstEvent
             lo == Gen!MeterPayload("lo")
             hi == Gen!MeterPayload("hi")
             v == MeterVoltage(jump)
             u == MeterOffVoltage(jump)
  <1>1. /\ first \in Nat /\ plan.voltage \in Nat /\ plan.overload \in Nat /\ plan.pf \in Nat
        /\ first <= plan.voltage /\ first <= plan.overload /\ first <= plan.pf
    BY DEF MeterDrawn, Gen!FirstEvent
  <1>2. /\ state'.voltage = v /\ state'.current = MeterCurrent /\ state'.pf = MeterPf
        /\ state'.off.voltage = u /\ state'.off.current = MeterOffCurrent
        /\ state'.off.pf = MeterOffPf
        /\ payloads' = {lo, hi} /\ reported \subseteq reported'
        /\ \A f : f \in Gen!DetectAnomalyFlags(lo) /\ f \in Gen!DetectAnomalyFlags(hi) => f \in reported'
    <2>1. state' = Gen!BuildMeter(jump) /\ payloads' = {lo, hi}
      BY DEF Gen!Build
    <2>2. \A f : f \in Gen!DetectAnomalyFlags(lo) /\ f \in Gen!DetectAnomalyFlags(hi)
                   => f \in Gen!Certain(payloads')
      BY <2>1, CertainBoth
    <2> QED BY <2>1, <2>2, MeterParts
  <1>3. /\ step < first => ~MeterSwing /\ ~MeterOverload /\ ~MeterPoor
        /\ step = plan.voltage => MeterSwing
        /\ step = plan.overload => MeterOverload
        /\ step = plan.pf => MeterPoor
    <2>1. (step < first => ~MeterSwing) /\ (step = plan.voltage => MeterSwing)
      BY <1>1, EventCases DEF MeterSwing
    <2>2. (step < first => ~MeterOverload) /\ (step = plan.overload => MeterOverload)
      BY <1>1, EventCases DEF MeterOverload
    <2>3. (step < first => ~MeterPoor) /\ (step = plan.pf => MeterPoor)
      BY <1>1, EventCases DEF MeterPoor
    <2> QED BY <2>1, <2>2, <2>3
  <1>4. /\ Within(u, -26000, 26000) /\ Within(v, 200000, 260000)
        /\ Within(MeterOffCurrent, 0, 20000) /\ Within(MeterCurrent, 0, 50000)
        /\ Within(MeterOffPf, -1000, 5) /\ Within(MeterPf, 7800, 9900)
        /\ MeterSwing => Within(v, 253490, 260000) \/ Within(v, 200000, 206510)
        /\ MeterOverload => Within(MeterCurrent, 30590, 50000)
        /\ MeterPoor => Within(MeterPf, 7800, 8740)
    BY MeterVoltages, MeterCurrents, MeterFactors DEF MeterInv
  <1>5. step < first =>
          /\ Within(v, 226000, 234000) /\ Within(u, 0, 5)
          /\ Within(MeterCurrent, 0, 22000) /\ Within(MeterOffCurrent, 0, 5)
          /\ Within(MeterPf, 9200, 9600) /\ Within(MeterOffPf, 0, 5)
    <2> SUFFICES ASSUME step < first
                 PROVE  /\ Within(v, 226000, 234000) /\ Within(u, 0, 5)
                        /\ Within(MeterCurrent, 0, 22000) /\ Within(MeterOffCurrent, 0, 5)
                        /\ Within(MeterPf, 9200, 9600) /\ Within(MeterOffPf, 0, 5)
      OBVIOUS
    <2>1. /\ Within(state.voltage, 226000, 234000) /\ Within(state.off.voltage, 0, 5)
          /\ Within(state.current, 0, 22000) /\ Within(state.off.current, 0, 5)
          /\ Within(state.pf, 9200, 9600) /\ Within(state.off.pf, 0, 5)
      BY <1>1 DEF MeterInv
    <2> QED BY <1>3, <2>1, MeterQuiet
  \* The flags of the step.
  <1> HIDE DEF v, u
  <1>6. /\ Within(state'.voltage, 200000, 260000) /\ Within(state'.current, 0, 50000)
        /\ Within(state'.pf, 7800, 9900)
    BY <1>2, <1>4
  <1>7. Gen!OccupancyFits(lo) /\ Gen!OccupancyFits(hi)
    BY DEF Gen!OccupancyFits, Gen!MeterPayload
  <1>8. step < first => Gen!DetectAnomalyFlags(lo) = {} /\ Gen!DetectAnomalyFlags(hi) = {}
    <2>1. step < first =>
            /\ Within(state'.voltage, 226000, 234000) /\ Within(state'.current, 0, 22000)
            /\ Within(state'.pf, 9200, 9600)
      BY <1>2, <1>5
    <2> QED BY <1>6, <2>1, MeterPayloads
  <1>9. step = plan.voltage => "voltage_out_of_range" \in reported'
    <2> SUFFICES ASSUME step = plan.voltage PROVE "voltage_out_of_range" \in reported'
      OBVIOUS
    <2>1. Within(state'.voltage, 253490, 260000) \/ Within(state'.voltage, 200000, 206510)
      BY <1>2, <1>3, <1>4
    <2>2. /\ "voltage_out_of_range" \in Gen!DetectAnomalyFlags(lo)
          /\ "voltage_out_of_range" \in Gen!DetectAnomalyFlags(hi)
      BY <1>6, <2>1, MeterPayloads
    <2> QED BY <1>2, <2>2
  <1>10. step = plan.overload => "power_overload" \in reported'
    <2> SUFFICES ASSUME step = plan.overload PROVE "power_overload" \in reported'
      OBVIOUS
    <2>1. Within(state'.current, 30590, 50000)
      BY <1>2, <1>3, <1>4
    <2>2. "power_overload" \in Gen!DetectAnomalyFlags(lo) /\ "power_overload" \in Gen!DetectAnomalyFlags(hi)
      BY <1>6, <2>1, MeterPayloads
    <2> QED BY <1>2, <2>2
  <1>11. step = plan.pf => "poor_power_factor" \in reported'
    <2> SUFFICES ASSUME step = plan.pf PROVE "poor_power_factor" \in reported'
      OBVIOUS
    <2>1. Within(state'.pf, 7800, 8740)
      BY <1>2, <1>3, <1>4
    <2>2. /\ "poor_power_factor" \in Gen!DetectAnomalyFlags(lo)
          /\ "poor_power_factor" \in Gen!DetectAnomalyFlags(hi)
      BY <1>6, <2>1, MeterPayloads
    <2> QED BY <1>2, <2>2
  <1> HIDE DEF lo, hi
  <1>12. Gen!FirstEvent' = first
    BY DEF Gen!FirstEvent
  <1> HIDE DEF first
  <1>13. /\ (step < first) = (step + 1 <= first)
         /\ step + 1 > plan.voltage => step = plan.voltage \/ step > plan.voltage
         /\ step + 1 > plan.overload => step = plan.overload \/ step > plan.overload
         /\ step + 1 > plan.pf => step = plan.pf \/ step > plan.pf
    BY <1>1
  <1>14. MeterInv'
    <2>1. (/\ Within(state.voltage, 200000, 260000) /\ Within(state.off.voltage, -26000, 26000)
           /\ Within(state.current, 0, 50000) /\ Within(state.off.current, 0, 20000)
           /\ Within(state.pf, 7800, 9900) /\ Within(state.off.pf, -1000, 5))'
      BY <1>2, <1>4
    <2>2. (step <= Gen!FirstEvent =>
             /\ Within(state.voltage, 226000, 234000) /\ Within(state.off.voltage, 0, 5)
             /\ Within(state.current, 0, 22000) /\ Within(state.off.current, 0, 5)
             /\ Within(state.pf, 9200, 9600) /\ Within(state.off.pf, 0, 5))'
      BY <1>2, <1>5, <1>12, <1>13
    <2>3. (step > plan.voltage => "voltage_out_of_range" \in reported)'
      BY <1>2, <1>9, <1>13 DEF MeterInv
    <2>4. (step > plan.pf => "poor_power_factor" \in reported)'
      BY <1>2, <1>11, <1>13 DEF MeterInv
    <2>5. (step > plan.overload => "power_overload" \in reported)'
      BY <1>2, <1>10, <1>13 DEF MeterInv
    <2> QED BY <2>1, <2>2, <2>3, <2>4, <2>5 DEF MeterInv
  <1>15. Gen!QuietBeforeEvents'
    <2>1. (\A r \in payloads : Gen!OccupancyFits(r))'
      BY <1>2, <1>7
    <2>2. (step <= Gen!FirstEvent => \A r \in payloads : Gen!DetectAnomalyFlags(r) = {})'
      BY <1>2, <1>8, <1>12, <1>13
    <2> QED BY <2>1, <2>2 DEF Gen!QuietBeforeEvents
  <1> QED BY <1>14, <1>15

-----------------------------------------------------------------------------
(* The generator.                                                          *)

LEMMA LightStart ==
  ASSUME step = 0, LightDrawn, state = Gen!LightState
  PROVE  LightInv
  <1>1. Within(state.queue, 0, 4000) /\ Within(state.extra, 0, 0)
    BY DEF Gen!LightState, Within, Gen!Between, Gen!Exactly
  <1>2. /\ Within(state.queue, 0, 8850) /\ Within(state.queue, 0, 17000)
        /\ Within(state.extra, 0, 5) /\ Within(state.extra, 0, 8000)
    BY <1>1, WithinMore
  <1>3. /\ plan.gridlock \in 40 .. 60 /\ plan.off \in 90 .. 140
    BY DEF LightDrawn
  <1> QED BY <1>2, <1>3 DEF LightInv, SinceJam

LEMMA ParkStart ==
  ASSUME step = 0, ParkDrawn, state = Gen!ParkState
  PROVE  ParkInv
  <1>1. /\ Within(state.rate, 20, 980) /\ Within(state.rate, 20, 890)
        /\ Within(state.oc, 0, 305) /\ Within(state.oc, 0, 5)
    BY DEF Gen!ParkState, Within, Gen!Between, Gen!Exactly
  <1>2. /\ Within(state.boost, 0, 260000) /\ Within(state.boost, 0, 5)
        /\ Within(state.stay, 0, 400000) /\ Within(state.stay, 0, 125000)
    BY DEF Gen!ParkState, Within, Gen!Between, Gen!Exactly
  <1>3. plan.long \in 24 .. 50
    BY DEF ParkDrawn
  <1> QED BY <1>1, <1>2, <1>3 DEF ParkInv

LEMMA AirStart ==
  ASSUME step = 0, AirDrawn, state = Gen!AirState
  PROVE  AirInv
  <1>1. /\ Within(state.pm25, 0, 75000) /\ Within(state.pm25, 0, 26000)
        /\ Within(state.pm10, 0, 42000) /\ Within(state.no2, 0, 39000) /\ Within(state.o3, 0, 78000)
    BY DEF Gen!AirState, Within, Gen!Between, Gen!Exactly
  <1>2. \A m \in Gen!Metrics : Within(state.plume[m], 0, 5)
    BY DEF Gen!AirState, Within, Gen!Between, Gen!Exactly
  <1>3. Within(state.plume.pm25, 0, 48000)
    BY DEF Gen!AirState, Within, Gen!Between, Gen!Exactly, Gen!Metrics
  <1>4. plan.very \in 50 .. 70
    BY DEF AirDrawn
  <1> QED BY <1>1, <1>2, <1>3, <1>4 DEF AirInv

LEMMA MeterStart ==
  ASSUME step = 0, MeterDrawn, state = Gen!MeterState
  PROVE  MeterInv
  <1>1. /\ Within(state.voltage, 200000, 260000) /\ Within(state.voltage, 226000, 234000)
        /\ Within(state.current, 0, 50000) /\ Within(state.current, 0, 22000)
        /\ Within(state.pf, 7800, 9900) /\ Within(state.pf, 9200, 9600)
    BY DEF Gen!MeterState, Within, Gen!Between, Gen!Exactly
  <1>2. /\ Within(state.off.voltage, -26000, 26000) /\ Within(state.off.voltage, 0, 5)
        /\ Within(state.off.current, 0, 20000) /\ Within(state.off.current, 0, 5)
        /\ Within(state.off.pf, -1000, 5) /\ Within(state.off.pf, 0, 5)
    BY DEF Gen!MeterState, Within, Gen!Between, Gen!Exactly
  <1>3. plan.voltage \in 36 .. 60 /\ plan.overload \in 72 .. 100 /\ plan.pf \in 48 .. 80
    BY DEF MeterDrawn
  <1> QED BY <1>1, <1>2, <1>3 DEF MeterInv

\* What holds of the generator's values after any number of payloads.
GeneratorInv ==
  /\ step \in Nat
  /\ kind \in Gen!Kinds /\ plan \in Gen!Plans(kind)
  /\ ValuesInv
  /\ Gen!QuietBeforeEvents

LEMMA GeneratorStart ==
  ASSUME Gen!PayloadAssumption, Gen!Init
  PROVE  GeneratorInv
  <1>1. step = 0 /\ kind \in Gen!Kinds /\ plan \in Gen!Plans(kind) /\ payloads = {}
    BY DEF Gen!Init
  <1>2. ValuesInv
    <2>1. CASE kind = "traffic_light"
      <3>1. state = Gen!LightState
        BY <2>1 DEF Gen!Init
      <3>2. LightInv
        BY <1>1, <2>1, <3>1, Drawn, LightStart
      <3> QED BY <2>1, <3>2 DEF ValuesInv
    <2>2. CASE kind = "car_park"
      <3>1. state = Gen!ParkState
        BY <2>2 DEF Gen!Init
      <3>2. ParkInv
        BY <1>1, <2>2, <3>1, Drawn, ParkStart
      <3> QED BY <2>2, <3>2 DEF ValuesInv
    <2>3. CASE kind = "air_quality"
      <3>1. state = Gen!AirState
        BY <2>3 DEF Gen!Init
      <3>2. AirInv
        BY <1>1, <2>3, <3>1, Drawn, AirStart
      <3> QED BY <2>3, <3>2 DEF ValuesInv
    <2>4. CASE kind = "energy_meter"
      <3>1. state = Gen!MeterState
        BY <2>4 DEF Gen!Init
      <3>2. MeterInv
        BY <1>1, <2>4, <3>1, Drawn, MeterStart
      <3> QED BY <2>4, <3>2 DEF ValuesInv
    <2> QED BY <1>1, <2>1, <2>2, <2>3, <2>4 DEF Gen!Kinds
  <1>3. Gen!QuietBeforeEvents
    BY <1>1 DEF Gen!QuietBeforeEvents
  <1> QED BY <1>1, <1>2, <1>3 DEF GeneratorInv

LEMMA GeneratorStep ==
  ASSUME Gen!PayloadAssumption, GeneratorInv, Gen!Next
  PROVE  GeneratorInv'
  <1>1. step \in Nat /\ kind \in Gen!Kinds /\ plan \in Gen!Plans(kind) /\ ValuesInv
    BY DEF GeneratorInv
  <1>2. /\ step' = step + 1 /\ reported' = reported \cup Gen!Certain(payloads')
        /\ kind' = kind /\ plan' = plan
    BY DEF Gen!Next
  <1>3. step' \in Nat /\ kind' \in Gen!Kinds /\ plan' \in Gen!Plans(kind')
    BY <1>1, <1>2
  <1>4. CASE Gen!Build("traffic_light", Gen!BuildLight, Gen!LightPayload("lo"), Gen!LightPayload("hi"))
    <2>1. kind = "traffic_light"
      BY <1>4 DEF Gen!Build
    <2>2. LightDrawn /\ LightInv
      BY <1>1, <2>1, Drawn DEF ValuesInv
    <2>3. LightInv' /\ Gen!QuietBeforeEvents'
      BY <1>1, <1>2, <1>4, <2>1, <2>2, LightStep
    <2>4. ValuesInv'
      BY <1>2, <2>1, <2>3 DEF ValuesInv
    <2> QED BY <1>3, <2>3, <2>4 DEF GeneratorInv
  <1>5. CASE Gen!Build("car_park", Gen!BuildPark, Gen!ParkPayload("lo"), Gen!ParkPayload("hi"))
    <2>1. kind = "car_park"
      BY <1>5 DEF Gen!Build
    <2>2. ParkDrawn /\ ParkInv
      BY <1>1, <2>1, Drawn DEF ValuesInv
    <2>3. ParkInv' /\ Gen!QuietBeforeEvents'
      BY <1>1, <1>2, <1>5, <2>1, <2>2, ParkStep
    <2>4. ValuesInv'
      BY <1>2, <2>1, <2>3 DEF ValuesInv
    <2> QED BY <1>3, <2>3, <2>4 DEF GeneratorInv
  <1>6. CASE Gen!Build("air_quality", Gen!BuildAir, Gen!AirPayload("lo"), Gen!AirPayload("hi"))
    <2>1. kind = "air_quality"
      BY <1>6 DEF Gen!Build
    <2>2. AirDrawn /\ AirInv
      BY <1>1, <2>1, Drawn DEF ValuesInv
    <2>3. AirInv' /\ Gen!QuietBeforeEvents'
      BY <1>1, <1>2, <1>6, <2>1, <2>2, AirStep
    <2>4. ValuesInv'
      BY <1>2, <2>1, <2>3 DEF ValuesInv
    <2> QED BY <1>3, <2>3, <2>4 DEF GeneratorInv
  <1>7. ASSUME NEW jump \in Jumps,
               Gen!Build("energy_meter", Gen!BuildMeter(jump), Gen!MeterPayload("lo"), Gen!MeterPayload("hi"))
        PROVE  GeneratorInv'
    <2>1. kind = "energy_meter"
      BY <1>7 DEF Gen!Build
    <2>2. MeterDrawn /\ MeterInv
      BY <1>1, <2>1, Drawn DEF ValuesInv
    <2>3. MeterInv' /\ Gen!QuietBeforeEvents'
      BY <1>1, <1>2, <1>7, <2>1, <2>2, MeterStep
    <2>4. ValuesInv'
      BY <1>2, <2>1, <2>3 DEF ValuesInv
    <2> QED BY <1>3, <2>3, <2>4 DEF GeneratorInv
  <1> QED BY <1>4, <1>5, <1>6, <1>7 DEF Gen!Next, Jumps

LEMMA GeneratorEvents ==
  ASSUME Gen!PayloadAssumption, GeneratorInv
  PROVE  Gen!EventsAreReported
  <1> SUFFICES ASSUME step = Samples PROVE Gen!EventsAreReported
    BY DEF Gen!EventsAreReported
  <1>1. step \in Nat /\ step > 140 /\ kind \in Gen!Kinds /\ plan \in Gen!Plans(kind) /\ ValuesInv
    BY DEF Gen!PayloadAssumption, GeneratorInv
  <1>2. CASE kind = "traffic_light"
    <2>1. LightDrawn /\ LightInv
      BY <1>1, <1>2, Drawn DEF ValuesInv
    <2>2. step >= plan.gridlock + 6 /\ step > plan.gridlock /\ step > plan.off
      BY <1>1, <2>1 DEF LightDrawn
    <2>3. {"gridlock", "congested", "signal_off"} \subseteq reported
      BY <2>1, <2>2 DEF LightInv
    <2> QED BY <1>2, <2>3 DEF Gen!EventsAreReported
  <1>3. CASE kind = "car_park"
    <2>1. ParkDrawn /\ ParkInv
      BY <1>1, <1>3, Drawn DEF ValuesInv
    <2>2. step > plan.long
      BY <1>1, <2>1 DEF ParkDrawn
    <2>3. {"long_stay"} \subseteq reported
      BY <2>1, <2>2 DEF ParkInv
    <2> QED BY <1>3, <2>3 DEF Gen!EventsAreReported
  <1>4. CASE kind = "air_quality"
    <2>1. AirDrawn /\ AirInv
      BY <1>1, <1>4, Drawn DEF ValuesInv
    <2>2. step > plan.very
      BY <1>1, <2>1 DEF AirDrawn
    <2>3. {"very_unhealthy_pm25"} \subseteq reported
      BY <2>1, <2>2 DEF AirInv
    <2> QED BY <1>4, <2>3 DEF Gen!EventsAreReported
  <1>5. CASE kind = "energy_meter"
    <2>1. MeterDrawn /\ MeterInv
      BY <1>1, <1>5, Drawn DEF ValuesInv
    <2>2. step > plan.voltage /\ step > plan.overload /\ step > plan.pf
      BY <1>1, <2>1 DEF MeterDrawn
    <2>3. {"voltage_out_of_range", "poor_power_factor", "power_overload"} \subseteq reported
      BY <2>1, <2>2 DEF MeterInv
    <2> QED BY <1>5, <2>3 DEF Gen!EventsAreReported
  <1> QED BY <1>1, <1>2, <1>3, <1>4, <1>5 DEF Gen!Kinds

LEMMA GeneratorStutter ==
  ASSUME GeneratorInv, UNCHANGED Gen!vars
  PROVE  GeneratorInv'
  <1>1. /\ kind' = kind /\ plan' = plan /\ step' = step /\ state' = state
        /\ payloads' = payloads /\ reported' = reported
    BY DEF Gen!vars
  <1>2. (step \in Nat /\ kind \in Gen!Kinds /\ plan \in Gen!Plans(kind))'
    BY <1>1 DEF GeneratorInv
  <1>3. LightInv' = LightInv /\ ParkInv' = ParkInv /\ AirInv' = AirInv /\ MeterInv' = MeterInv
    <2>1. Gen!FirstEvent' = Gen!FirstEvent
      BY <1>1 DEF Gen!FirstEvent
    <2>2. LightInv' = LightInv
      BY <1>1 DEF LightInv, SinceJam
    <2>3. ParkInv' = ParkInv
      BY <1>1, <2>1 DEF ParkInv
    <2>4. AirInv' = AirInv
      BY <1>1 DEF AirInv
    <2>5. MeterInv' = MeterInv
      BY <1>1, <2>1 DEF MeterInv
    <2> QED BY <2>2, <2>3, <2>4, <2>5
  <1>4. ValuesInv'
    BY <1>1, <1>3 DEF GeneratorInv, ValuesInv
  <1>5. Gen!QuietBeforeEvents'
    BY <1>1 DEF GeneratorInv, Gen!QuietBeforeEvents, Gen!FirstEvent
  <1> QED BY <1>2, <1>4, <1>5 DEF GeneratorInv

\* The invariant of the generator, for any draws of its steps and any number
\* of payloads that reaches past the latest first event.
THEOREM GeneratorInvariance == GeneratorSpec => []GeneratorInv
  <1>1. Gen!Init => GeneratorInv
    BY PayloadAssumption, GeneratorStart
  <1>2. GeneratorInv /\ [Gen!Next]_(Gen!vars) => GeneratorInv'
    BY PayloadAssumption, GeneratorStep, GeneratorStutter
  <1> QED BY <1>1, <1>2, PTL DEF GeneratorSpec

\* Whatever the noise, the payloads of every sensor set off the rules its
\* planned events are meant for, all but overcrowded, unhealthy_pm25, high_no2
\* and high_o3, which the noise or the hour may prevent (_car_park_factory, _traffic_light_factory,
\* _air_quality_factory and _energy_meter_factory of the generator,
\* detect_anomaly_flags of the edge).
THEOREM EventsCorrect == GeneratorSpec => []EventsAreReported
  <1>1. GeneratorInv => EventsAreReported
    BY PayloadAssumption, GeneratorEvents DEF EventsAreReported
  <1> QED BY <1>1, GeneratorInvariance, PTL

\* And, with the same factories, they set off no rule before the first event,
\* and are payloads the models accept.
THEOREM QuietCorrect == GeneratorSpec => []QuietBeforeEvents
  <1>1. GeneratorInv => QuietBeforeEvents
    BY DEF GeneratorInv, QuietBeforeEvents
  <1> QED BY <1>1, GeneratorInvariance, PTL
=============================================================================
