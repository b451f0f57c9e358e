----------------------- MODULE NetworkAnalyticsProofs -----------------------
(***************************************************************************)
(* Proofs about the detector: it leaves the database alone once the        *)
(* application has disposed of it, no request escapes its windows, an      *)
(* event of a series is an outlier, and the quantile of the latencies      *)
(* follows them, for any number of requests and windows, any values and    *)
(* any histogram.  What the recursive functions of sums and powers are     *)
(* follows by induction on sets of numbers.                                *)
(***************************************************************************)
EXTENDS NetworkAnalytics, NaturalsInduction, WellFoundedInduction, SequenceTheorems,
  FiniteSetTheorems, TLAPS

-----------------------------------------------------------------------------
(* Sums.                                                                   *)

\* A set of natural numbers with a member has a least one.
LEMMA Least ==
  ASSUME NEW S \in SUBSET Nat, S # {}
  PROVE  \E m \in S : \A n \in S : m <= n
  <1> DEFINE R == OpToRel(<, Nat)
  <1>1. IsWellFoundedOn(R, Nat)
    BY NatLessThanWellFounded
  <1>2. \A m, n \in Nat : m < n => <<m, n>> \in R
    BY DEF OpToRel
  <1> HIDE DEF R
  <1>3. PICK m \in S : \A n \in S : ~(<<n, m>> \in R)
    BY <1>1, WFMin
  <1>4. ASSUME NEW n \in S PROVE m <= n
    <2>1. m \in Nat /\ n \in Nat
      OBVIOUS
    <2>2. ~(n < m)
      BY <1>2, <1>3, <2>1
    <2> QED BY <2>1, <2>2
  <1> QED BY <1>4

\* Induction, for a set of natural numbers.
LEMMA Inductive ==
  ASSUME NEW S, 0 \in S, \A n \in Nat : n \in S => n + 1 \in S
  PROVE  \A n \in Nat : n \in S
  <1> SUFFICES ASSUME Nat \ S # {} PROVE FALSE
    OBVIOUS
  <1>1. PICK m \in Nat \ S : \A n \in Nat \ S : m <= n
    BY Least
  <1>2. m # 0 /\ m - 1 \in Nat /\ ~(m <= m - 1) /\ (m - 1) + 1 = m
    BY <1>1
  <1> QED BY <1>1, <1>2

\* f holds the partial sums of s up to n.
Sums(f, s, n) ==
  /\ f \in [0 .. n -> Int]
  /\ f[0] = 0
  /\ \A k \in 1 .. n : f[k] = f[k - 1] + s[k]

LEMMA SumsExist ==
  ASSUME NEW s \in Seq(Int)
  PROVE  \E f : Sums(f, s, Len(s))
  <1> DEFINE S == {n \in Nat : n <= Len(s) => \E f : Sums(f, s, n)}
  <1>0. Len(s) \in Nat /\ \A k \in 1 .. Len(s) : s[k] \in Int
    BY ElementOfSeq
  <1>1. 0 \in S
    <2>1. Sums([k \in 0 .. 0 |-> 0], s, 0)
      BY DEF Sums
    <2> QED BY <2>1
  <1>2. ASSUME NEW n \in Nat, n \in S PROVE n + 1 \in S
    <2>1. SUFFICES ASSUME n + 1 <= Len(s) PROVE \E f : Sums(f, s, n + 1)
      BY <1>2
    <2>2. PICK f : Sums(f, s, n)
      BY <1>0, <1>2, <2>1
    <2> DEFINE g == [k \in 0 .. n + 1 |-> IF k = n + 1 THEN f[n] + s[n + 1] ELSE f[k]]
    <2>3. g \in [0 .. n + 1 -> Int]
      BY <1>0, <2>1, <2>2 DEF Sums
    <2>4. g[0] = 0 /\ \A k \in 1 .. n + 1 : g[k] = g[k - 1] + s[k]
      <3>1. g[0] = 0
        BY <2>2 DEF Sums
      <3>2. ASSUME NEW k \in 1 .. n + 1, k = n + 1 PROVE g[k] = g[k - 1] + s[k]
        <4>1. n \in 0 .. n + 1 /\ n # n + 1 /\ n + 1 \in 0 .. n + 1 /\ k - 1 = n
          BY <3>2
        <4> QED BY <3>2, <4>1
      <3>3. ASSUME NEW k \in 1 .. n + 1, k # n + 1 PROVE g[k] = g[k - 1] + s[k]
        <4>1. k \in 1 .. n /\ k \in 0 .. n + 1 /\ k - 1 \in 0 .. n + 1 /\ k - 1 # n + 1
          BY <3>3
        <4> QED BY <2>2, <3>3, <4>1 DEF Sums
      <3> QED BY <3>1, <3>2, <3>3
    <2> QED BY <2>3, <2>4 DEF Sums
  <1> HIDE DEF S
  <1>3. Len(s) \in S
    BY <1>0, <1>1, <1>2, Inductive
  <1> QED BY <1>3 DEF S

LEMMA SumOfSums ==
  ASSUME NEW s \in Seq(Int), NEW f, Sums(f, s, Len(s))
  PROVE  SumOf(s) = f[Len(s)]
  <1> DEFINE D(h) == [k \in 0 .. Len(s) |-> IF k = 0 THEN 0 ELSE h[k - 1] + s[k]]
             c == CHOOSE h : h = D(h)
  <1>1. Len(s) \in Nat
    OBVIOUS
  <1>2. f = D(f)
    BY DEF Sums
  <1>3. c = D(c)
    BY <1>2
  <1>4. c = f
    <2> DEFINE S == {k \in Nat : k <= Len(s) => f[k] = c[k]}
    <2> HIDE DEF c
    <2>1. 0 \in S
      BY <1>3 DEF Sums
    <2>2. ASSUME NEW k \in Nat, k \in S PROVE k + 1 \in S
      BY <1>1, <1>3, <2>2 DEF Sums
    <2> HIDE DEF S
    <2>3. \A k \in Nat : k \in S
      BY <2>1, <2>2, Inductive
    <2>4. \A k \in 0 .. Len(s) : f[k] = c[k]
      BY <2>3 DEF S
    <2> QED BY <1>2, <1>3, <2>4
  <1>5. SumOf(s) = c[Len(s)]
    BY DEF SumOf
  <1> QED BY <1>4, <1>5

\* The sum of a longer sequence.
LEMMA SumAppend ==
  ASSUME NEW s \in Seq(Int), NEW x \in Int
  PROVE  /\ SumOf(s) \in Int
         /\ SumOf(Append(s, x)) = SumOf(s) + x
  <1> DEFINE t == Append(s, x)
  <1>1. /\ t \in Seq(Int) /\ Len(t) = Len(s) + 1 /\ Len(s) \in Nat
        /\ t[Len(t)] = x /\ \A k \in 1 .. Len(s) : t[k] = s[k]
    BY AppendProperties
  <1> HIDE DEF t
  <1>2. PICK f : Sums(f, t, Len(t))
    BY <1>1, SumsExist
  <1> DEFINE g == [k \in 0 .. Len(s) |-> f[k]]
  <1>3. Sums(g, s, Len(s))
    BY <1>1, <1>2 DEF Sums
  <1>4. SumOf(s) = g[Len(s)] /\ SumOf(t) = f[Len(t)]
    BY <1>1, <1>2, <1>3, SumOfSums
  <1>5. g[Len(s)] = f[Len(s)] /\ f[Len(s)] \in Int /\ f[Len(t)] = f[Len(s)] + x
    <2>1. Len(s) \in 0 .. Len(s) /\ Len(s) \in 0 .. Len(t) /\ Len(t) \in 1 .. Len(t) /\ Len(t) - 1 = Len(s)
      BY <1>1
    <2>2. f[Len(s)] \in Int /\ f[Len(t)] = f[Len(t) - 1] + t[Len(t)]
      BY <1>2, <2>1 DEF Sums
    <2> QED BY <1>1, <2>1, <2>2
  <1> QED BY <1>4, <1>5 DEF t

LEMMA SumEmpty == SumOf(<<>>) = 0
  <1>1. <<>> \in Seq(Int) /\ Len(<<>>) = 0
    OBVIOUS
  <1>2. Sums([k \in 0 .. 0 |-> 0], <<>>, 0)
    BY DEF Sums
  <1> QED BY <1>1, <1>2, SumOfSums


\* What a sequence is.
LEMMA Elements ==
  ASSUME NEW S, NEW s \in Seq(S)
  PROVE  /\ Len(s) \in Nat /\ DOMAIN s = 1 .. Len(s) /\ \A k \in 1 .. Len(s) : s[k] \in S
         /\ s = [k \in 1 .. Len(s) |-> s[k]]
  BY ElementOfSeq

-----------------------------------------------------------------------------
(* The task.                                                               *)

\* stop() awaits the cancelled task, and a cancelled task has no further step.
TaskInv ==
  /\ app \in {"up", "stopping", "down"}
  /\ at \in {"created", "sleep", "persist", "off"}
  /\ app = "down" => at = "off"

\* Wherever it goes on, the task sleeps or writes an event afterwards.
LEMMA Proceeds ==
  ASSUME NEW names, NEW window, Proceed(names, window)
  PROVE  at' \in {"sleep", "persist"}
  BY DEF Proceed

LEMMA TaskInvStep == ASSUME TaskInv, [Next]_vars PROVE TaskInv'
  <1>1. CASE Request \/ Stop \/ UNCHANGED vars
    BY <1>1 DEF Request, Stop, vars, TaskInv
  <1>2. CASE Begin
    BY <1>2 DEF Begin, TaskInv
  <1>3. CASE Tick
    BY <1>3, Proceeds DEF Tick, TaskInv
  <1>4. CASE Persisted
    BY <1>4, Proceeds DEF Persisted, TaskInv
  <1>5. CASE Cancelled
    BY <1>5 DEF Cancelled, TaskInv
  <1>6. CASE Stopped
    BY <1>6 DEF Stopped, TaskInv
  <1> QED BY <1>1, <1>2, <1>3, <1>4, <1>5, <1>6 DEF Next, TaskStep

\* lifespan() of src/api/app.py disposes of the engine when stop() has returned:
\* no event is counted or written after it.
THEOREM DisposeCorrect == Spec => NothingAfterDispose
  <1>1. Init => TaskInv
    BY DEF Init, TaskInv
  <1>2. TaskInv /\ [Next]_vars => [app = "down" => UNCHANGED <<samples, counted, table>>]_vars
    <2> SUFFICES ASSUME TaskInv, Next, app = "down" PROVE UNCHANGED <<samples, counted, table>>
      OBVIOUS
    <2> QED BY DEF TaskInv, Next, TaskStep, Request, Begin, Tick, Persisted, Cancelled, Stop, Stopped
  <1> QED BY <1>1, <1>2, TaskInvStep, PTL DEF Spec, NothingAfterDispose

-----------------------------------------------------------------------------
(* The windows.                                                            *)

Fields == {"requests", "errors"}

Column(s, field) == [k \in DOMAIN s |-> s[k][field]]

\* The counters at the last window are the sums over the windows.
WindowsInv ==
  /\ total \in [requests : Nat, errors : Nat]
  /\ snapshot \in [requests : Nat, errors : Nat]
  /\ windows \in Seq([requests : Int, errors : Int])
  /\ \A field \in Fields : SumOf(Column(windows, field)) = snapshot[field]

\* The columns of a window more.
LEMMA ColumnAppend ==
  ASSUME NEW s \in Seq([requests : Int, errors : Int]), NEW w \in [requests : Int, errors : Int],
         NEW field \in Fields
  PROVE  /\ Column(s, field) \in Seq(Int)
         /\ Column(Append(s, w), field) = Append(Column(s, field), w[field])
  <1> DEFINE t == Append(s, w)  c == Column(s, field)  d == Append(c, w[field])
  <1>1. /\ t \in Seq([requests : Int, errors : Int]) /\ Len(t) = Len(s) + 1 /\ Len(s) \in Nat
        /\ t[Len(s) + 1] = w /\ \A k \in 1 .. Len(s) : t[k] = s[k]
    BY AppendProperties
  <1>2. /\ w[field] \in Int /\ DOMAIN s = 1 .. Len(s)
        /\ \A k \in 1 .. Len(s) : s[k][field] \in Int
    <2>1. \A v \in [requests : Int, errors : Int] : v[field] \in Int
      BY DEF Fields
    <2>2. DOMAIN s = 1 .. Len(s) /\ \A k \in 1 .. Len(s) : s[k] \in [requests : Int, errors : Int]
      BY Elements, Zenon
    <2> QED BY <2>1, <2>2
  <1>3. c \in Seq(Int) /\ Len(c) = Len(s) /\ \A k \in 1 .. Len(s) : c[k] = s[k][field]
    BY <1>1, <1>2 DEF Column
  <1> HIDE DEF t, c
  <1>4. /\ d \in Seq(Int) /\ Len(d) = Len(s) + 1
        /\ d[Len(s) + 1] = w[field] /\ \A k \in 1 .. Len(s) : d[k] = c[k]
    BY <1>2, <1>3, AppendProperties
  <1>5. DOMAIN t = 1 .. Len(s) + 1 /\ d = [k \in 1 .. Len(s) + 1 |-> d[k]]
    BY <1>1, <1>4
  <1> HIDE DEF d
  <1>6. \A k \in 1 .. Len(s) + 1 : t[k][field] = d[k]
    <2> SUFFICES ASSUME NEW k \in 1 .. Len(s) + 1 PROVE t[k][field] = d[k]
      OBVIOUS
    <2>1. k \in 1 .. Len(s) \/ k = Len(s) + 1
      BY <1>1
    <2>2. CASE k \in 1 .. Len(s)
      BY <1>1, <1>3, <1>4, <2>2
    <2>3. CASE k = Len(s) + 1
      BY <1>1, <1>4, <2>3
    <2> QED BY <2>1, <2>2, <2>3
  <1>7. Column(t, field) = d
    BY <1>5, <1>6 DEF Column
  <1> QED BY <1>3, <1>7 DEF t, c, d

\* Neither an event being written nor a cancellation touches a counter.
LEMMA WindowsInvStep == ASSUME WindowsInv, [Next]_vars PROVE WindowsInv'
  <1>1. CASE Request
    <2>1. total' \in [requests : Nat, errors : Nat]
      BY <1>1 DEF Request, Raise, Respond, WindowsInv
    <2> QED BY <1>1, <2>1 DEF Request, WindowsInv
  <1>2. CASE Tick
    <2> DEFINE d == Difference
    <2>1. d \in [requests : Int, errors : Int] /\ \A field \in Fields : d[field] = total[field] - snapshot[field]
      BY DEF Difference, WindowsInv, Fields
    <2>2. windows' = Append(windows, d) /\ snapshot' = total /\ total' = total
      BY <1>2 DEF Tick, Sample
    <2> HIDE DEF d
    <2>3. windows' \in Seq([requests : Int, errors : Int])
      BY <2>1, <2>2 DEF WindowsInv
    <2>4. ASSUME NEW field \in Fields PROVE SumOf(Column(windows', field)) = total[field]
      <3>1. SumOf(Column(windows', field)) = SumOf(Column(windows, field)) + d[field]
        BY <2>1, <2>2, ColumnAppend, SumAppend DEF WindowsInv, Fields
      <3>2. SumOf(Column(windows, field)) = snapshot[field]
        BY DEF WindowsInv
      <3>3. total[field] \in Int /\ snapshot[field] \in Int
        BY DEF WindowsInv, Fields
      <3> QED BY <2>1, <3>1, <3>2, <3>3
    <2> QED BY <2>2, <2>3, <2>4 DEF WindowsInv
  <1>3. CASE Begin \/ Persisted \/ Cancelled \/ Stop \/ Stopped \/ UNCHANGED vars
    <2>1. UNCHANGED <<total, snapshot, windows>>
      BY <1>3 DEF Begin, Persisted, Cancelled, Stop, Stopped, vars
    <2> QED BY <2>1 DEF WindowsInv
  <1> QED BY <1>1, <1>2, <1>3 DEF Next, TaskStep

\* _sample_metrics() of src/api/network_analytics.py: the windows take every request
\* exactly once, also those that end while an event is being written.
THEOREM WindowsCorrect == Spec => []EachRequestInOneWindow
  <1>1. Init => WindowsInv
    <2> SUFFICES ASSUME Init PROVE WindowsInv
      OBVIOUS
    <2>1. \A field \in Fields : SumOf(Column(windows, field)) = 0
      <3>1. \A field : Column(<<>>, field) = <<>>
        BY DEF Column
      <3> QED BY <3>1, SumEmpty DEF Init
    <2> QED BY <2>1 DEF Init, NoRequests, WindowsInv, Fields
  <1>2. WindowsInv => EachRequestInOneWindow
    <2> SUFFICES ASSUME WindowsInv, NEW field \in Fields
                 PROVE  /\ InWindows(field) + Difference[field] = total[field]
                        /\ InWindows(field) = snapshot[field]
      BY DEF EachRequestInOneWindow, Fields
    <2>1. InWindows(field) = snapshot[field]
      BY DEF InWindows, Column, WindowsInv
    <2>2. /\ Difference[field] = total[field] - snapshot[field]
          /\ total[field] \in Int /\ snapshot[field] \in Int
      BY DEF Difference, WindowsInv, Fields
    <2> QED BY <2>1, <2>2
  <1> QED BY <1>1, <1>2, WindowsInvStep, PTL DEF Spec

-----------------------------------------------------------------------------
(* Powers and weights.                                                     *)

\* f holds the powers of b up to n.
Powers(f, b, n) ==
  /\ f \in [0 .. n -> Int]
  /\ f[0] = 1
  /\ \A k \in 1 .. n : f[k] = b * f[k - 1]

LEMMA PowersExist ==
  ASSUME NEW b \in Int
  PROVE  \A n \in Nat : \E f : Powers(f, b, n)
  <1> DEFINE S == {n \in Nat : \E f : Powers(f, b, n)}
  <1>1. 0 \in S
    <2>1. Powers([k \in 0 .. 0 |-> 1], b, 0)
      BY DEF Powers
    <2> QED BY <2>1
  <1>2. ASSUME NEW n \in Nat, n \in S PROVE n + 1 \in S
    <2>2. PICK f : Powers(f, b, n)
      BY <1>2
    <2> DEFINE g == [k \in 0 .. n + 1 |-> IF k = n + 1 THEN b * f[n] ELSE f[k]]
    <2>3. g \in [0 .. n + 1 -> Int]
      BY <2>2 DEF Powers
    <2>4. g[0] = 1 /\ \A k \in 1 .. n + 1 : g[k] = b * g[k - 1]
      <3>1. g[0] = 1
        BY <2>2 DEF Powers
      <3>2. ASSUME NEW k \in 1 .. n + 1, k = n + 1 PROVE g[k] = b * g[k - 1]
        <4>1. n \in 0 .. n + 1 /\ n # n + 1 /\ n + 1 \in 0 .. n + 1 /\ k - 1 = n
          BY <3>2
        <4> QED BY <3>2, <4>1
      <3>3. ASSUME NEW k \in 1 .. n + 1, k # n + 1 PROVE g[k] = b * g[k - 1]
        <4>1. k \in 1 .. n /\ k \in 0 .. n + 1 /\ k - 1 \in 0 .. n + 1 /\ k - 1 # n + 1
          BY <3>3
        <4>2. f[k] = b * f[k - 1]
          BY <2>2, <4>1 DEF Powers
        <4>3. g[k] = f[k] /\ g[k - 1] = f[k - 1]
          BY <3>3, <4>1
        <4> QED BY <4>2, <4>3
      <3> QED BY <3>1, <3>2, <3>3
    <2>5. Powers(g, b, n + 1)
      BY <2>3, <2>4 DEF Powers
    <2> QED BY <2>5
  <1> HIDE DEF S
  <1>3. \A n \in Nat : n \in S
    BY <1>1, <1>2, Inductive
  <1> QED BY <1>3 DEF S

LEMMA PowerOfPowers ==
  ASSUME NEW b \in Int, NEW n \in Nat, NEW f, Powers(f, b, n)
  PROVE  Power(b, n) = f[n]
  <1> DEFINE D(h) == [k \in 0 .. n |-> IF k = 0 THEN 1 ELSE b * h[k - 1]]
             c == CHOOSE h : h = D(h)
  <1>2. f = D(f)
    BY DEF Powers
  <1>3. c = D(c)
    BY <1>2
  <1>4. c = f
    <2> DEFINE S == {k \in Nat : k <= n => f[k] = c[k]}
    <2> HIDE DEF c
    <2>1. 0 \in S
      BY <1>3 DEF Powers
    <2>2. ASSUME NEW k \in Nat, k \in S PROVE k + 1 \in S
      <3>1. SUFFICES ASSUME k + 1 <= n PROVE f[k + 1] = c[k + 1]
        OBVIOUS
      <3>2. f[k] = c[k] /\ k + 1 \in 1 .. n /\ k + 1 \in 0 .. n /\ k + 1 # 0 /\ (k + 1) - 1 = k
        BY <2>2, <3>1
      <3>3. c[k + 1] = b * c[k]
        BY <1>3, <3>2
      <3>4. f[k + 1] = b * f[k]
        BY <3>2 DEF Powers
      <3> QED BY <3>2, <3>3, <3>4
    <2> HIDE DEF S
    <2>3. \A k \in Nat : k \in S
      BY <2>1, <2>2, Inductive
    <2>4. \A k \in 0 .. n : f[k] = c[k]
      BY <2>3 DEF S
    <2> QED BY <1>2, <1>3, <2>4
  <1>5. Power(b, n) = c[n]
    BY DEF Power
  <1> QED BY <1>4, <1>5

\* Powers, one after the other.
LEMMA PowerStep ==
  ASSUME NEW b \in Int, NEW n \in Nat
  PROVE  /\ Power(b, 0) = 1
         /\ Power(b, n) \in Int
         /\ Power(b, n + 1) = b * Power(b, n)
  <1>1. PICK f : Powers(f, b, n + 1)
    BY PowersExist
  <1>2. Powers([k \in 0 .. n |-> f[k]], b, n)
    <2> DEFINE g == [k \in 0 .. n |-> f[k]]
    <2>1. g \in [0 .. n -> Int] /\ g[0] = 1
      BY <1>1 DEF Powers
    <2>2. ASSUME NEW k \in 1 .. n PROVE g[k] = b * g[k - 1]
      <3>1. k \in 1 .. n + 1 /\ k \in 0 .. n /\ k - 1 \in 0 .. n
        OBVIOUS
      <3>2. f[k] = b * f[k - 1]
        BY <1>1, <3>1 DEF Powers
      <3> QED BY <3>1, <3>2
    <2> QED BY <2>1, <2>2 DEF Powers
  <1>3. Powers([k \in 0 .. 0 |-> 1], b, 0)
    BY DEF Powers
  <1>4. Power(b, 0) = 1
    BY <1>3, PowerOfPowers
  <1>5. Power(b, n) = f[n] /\ n \in 0 .. n + 1
    BY <1>2, PowerOfPowers
  <1>6. Power(b, n + 1) = f[n + 1]
    BY <1>1, PowerOfPowers
  <1>7. f[n] \in Int
    BY <1>1, <1>5 DEF Powers
  <1>8. f[n + 1] = b * f[n]
    <2>1. n + 1 \in 1 .. n + 1 /\ (n + 1) - 1 = n
      OBVIOUS
    <2> QED BY <1>1, <2>1 DEF Powers
  <1> QED BY <1>4, <1>5, <1>6, <1>7, <1>8

\* Powers of 4 and 5 are positive.
LEMMA PowerPositive ==
  ASSUME NEW b \in Nat, b > 0, NEW n \in Nat
  PROVE  Power(b, n) \in Nat /\ Power(b, n) > 0
  <1> DEFINE S == {k \in Nat : Power(b, k) \in Nat /\ Power(b, k) > 0}
  <1>1. 0 \in S
    BY PowerStep
  <1>2. ASSUME NEW k \in Nat, k \in S PROVE k + 1 \in S
    <2>1. Power(b, k + 1) = b * Power(b, k) /\ Power(b, k) \in Nat /\ Power(b, k) > 0
      BY <1>2, PowerStep
    <2>2. \A x, y \in Nat : x > 0 /\ y > 0 => x * y \in Nat /\ x * y > 0
      OBVIOUS
    <2> QED BY <2>1, <2>2
  <1> HIDE DEF S
  <1>3. n \in S
    BY <1>1, <1>2, Inductive
  <1> QED BY <1>3 DEF S

\* The sum of a sequence that has one element more, the others scaled.
LEMMA SumScaled ==
  ASSUME NEW x \in Seq(Int), NEW y \in Seq(Int), NEW c \in Int, Len(y) = Len(x) + 1,
         \A i \in 1 .. Len(x) : y[i] = c * x[i]
  PROVE  SumOf(x) \in Int /\ SumOf(y) = c * SumOf(x) + y[Len(y)]
  <1>0. Len(x) \in Nat /\ Len(y) \in Nat /\ \A k \in 1 .. Len(x) : x[k] \in Int
    BY ElementOfSeq
  <1>1. PICK f : Sums(f, x, Len(x))
    BY SumsExist
  <1>2. PICK g : Sums(g, y, Len(y))
    BY SumsExist
  <1>3. SumOf(x) = f[Len(x)] /\ SumOf(y) = g[Len(y)]
    BY <1>1, <1>2, SumOfSums
  <1> DEFINE S == {k \in Nat : k <= Len(x) => g[k] = c * f[k]}
  <1>4. 0 \in S
    BY <1>1, <1>2 DEF Sums
  <1>5. ASSUME NEW k \in Nat, k \in S PROVE k + 1 \in S
    <2>1. SUFFICES ASSUME k + 1 <= Len(x) PROVE g[k + 1] = c * f[k + 1]
      OBVIOUS
    <2>2. /\ k + 1 \in 1 .. Len(x) /\ k + 1 \in 1 .. Len(y) /\ (k + 1) - 1 = k
          /\ k \in 0 .. Len(x) /\ g[k] = c * f[k]
      BY <1>0, <1>5, <2>1
    <2>3. f[k + 1] = f[k] + x[k + 1] /\ f[k] \in Int
      BY <1>1, <2>2 DEF Sums
    <2>4. g[k + 1] = g[k] + y[k + 1]
      BY <1>2, <2>2 DEF Sums
    <2>5. y[k + 1] = c * x[k + 1] /\ x[k + 1] \in Int
      BY <1>0, <2>2
    <2>6. \A u, v \in Int : c * u + c * v = c * (u + v)
      OBVIOUS
    <2> QED BY <2>2, <2>3, <2>4, <2>5, <2>6
  <1> HIDE DEF S
  <1>6. Len(x) \in S
    BY <1>0, <1>4, <1>5, Inductive
  <1>7. g[Len(x)] = c * f[Len(x)]
    BY <1>0, <1>6 DEF S
  <1>8. /\ Len(x) \in 0 .. Len(x) /\ Len(y) \in 1 .. Len(y) /\ Len(y) - 1 = Len(x)
    BY <1>0
  <1>9. f[Len(x)] \in Int
    BY <1>1, <1>8 DEF Sums
  <1>10. g[Len(y)] = g[Len(y) - 1] + y[Len(y)]
    BY <1>2, <1>8 DEF Sums
  <1> QED BY <1>3, <1>7, <1>8, <1>9, <1>10

\* Both modules mean the same.
LEMMA SameSums ==
  /\ \A s : Series!SumOf(s) = SumOf(s)
  /\ \A b, n : Series!Power(b, n) = Power(b, n)
  /\ \A x : Series!Square(x) = Square(x)
  <1>1. \A s : Series!SumOf(s) = SumOf(s)
    BY DEF SumOf, Series!SumOf
  <1>2. \A b, n : Series!Power(b, n) = Power(b, n)
    BY DEF Power, Series!Power
  <1>3. \A x : Series!Square(x) = Square(x)
    BY DEF Square, Series!Square
  <1> QED BY <1>1, <1>2, <1>3

-----------------------------------------------------------------------------
(* The weighted sums of a series that gets one value more.                 *)

\* All weights but the last are scaled.
LEMMA WeightStep ==
  ASSUME NEW n \in Nat, n >= 1
  PROVE  /\ \A i \in 1 .. n : /\ Series!Weight(i, n) \in Int
                              /\ Series!Weight(i, n + 1) = 4 * Series!Weight(i, n)
         /\ Series!Weight(n + 1, n + 1) = Power(5, n - 1)
  <1>1. ASSUME NEW i \in 1 .. n
        PROVE  /\ Series!Weight(i, n) \in Int
               /\ Series!Weight(i, n + 1) = 4 * Series!Weight(i, n)
    <2>1. CASE i = 1
      <3>1. n - 1 \in Nat /\ (n - 1) + 1 = (n + 1) - 1
        OBVIOUS
      <3>2. Power(4, (n + 1) - 1) = 4 * Power(4, n - 1) /\ Power(4, n - 1) \in Int
        BY <3>1, PowerStep
      <3> QED BY <2>1, <3>2, SameSums DEF Series!Weight
    <2>2. CASE i # 1
      <3>1. n - i \in Nat /\ (n - i) + 1 = (n + 1) - i /\ i - 2 \in Nat
        BY <2>2
      <3>2. Power(4, (n + 1) - i) = 4 * Power(4, n - i) /\ Power(4, n - i) \in Int
        BY <3>1, PowerStep
      <3>3. Power(5, i - 2) \in Int
        BY <3>1, PowerStep
      <3>4. \A u, v \in Int : u * v \in Int /\ (4 * u) * v = 4 * (u * v)
        OBVIOUS
      <3>5. /\ Series!Weight(i, n) = Power(4, n - i) * Power(5, i - 2)
            /\ Series!Weight(i, n + 1) = Power(4, (n + 1) - i) * Power(5, i - 2)
        BY <2>2, SameSums DEF Series!Weight
      <3> QED BY <3>2, <3>3, <3>4, <3>5
    <2> QED BY <2>1, <2>2
  <1>2. Series!Weight(n + 1, n + 1) = Power(5, n - 1)
    <2>1. n + 1 # 1 /\ (n + 1) - (n + 1) = 0 /\ (n + 1) - 2 = n - 1 /\ n - 1 \in Nat
      OBVIOUS
    <2>2. Power(4, 0) = 1 /\ Power(5, n - 1) \in Int
      BY <2>1, PowerStep
    <2>3. Series!Weight(n + 1, n + 1) = Power(4, 0) * Power(5, n - 1)
      BY <2>1, SameSums DEF Series!Weight
    <2> QED BY <2>2, <2>3
  <1> QED BY <1>1, <1>2

Weighted(s) == [i \in DOMAIN s |-> Series!Weight(i, Len(s)) * s[i]]

LEMMA WeightedStep ==
  ASSUME NEW s \in Seq(Int), s # <<>>, NEW x \in Int
  PROVE  /\ SumOf(Weighted(s)) \in Int
         /\ SumOf(Weighted(Append(s, x)))
              = 4 * SumOf(Weighted(s)) + Power(5, Len(s) - 1) * x
  <1> DEFINE t == Append(s, x)  n == Len(s)
  <1>1. /\ t \in Seq(Int) /\ Len(t) = n + 1 /\ t[n + 1] = x
        /\ \A i \in 1 .. n : t[i] = s[i]
    BY AppendProperties
  <1>2. n \in Nat /\ n >= 1 /\ \A i \in 1 .. n : s[i] \in Int
    BY EmptySeq, ElementOfSeq
  <1> HIDE DEF t, n
  <1>3. \A i \in 1 .. n + 1 : t[i] \in Int
    <2> SUFFICES ASSUME NEW i \in 1 .. n + 1 PROVE t[i] \in Int
      OBVIOUS
    <2>1. i \in 1 .. n \/ i = n + 1
      BY <1>2
    <2> QED BY <1>1, <1>2, <2>1
  <1>4. \A i \in 1 .. n + 1 : Series!Weight(i, n + 1) \in Int
    <2> SUFFICES ASSUME NEW i \in 1 .. n + 1 PROVE Series!Weight(i, n + 1) \in Int
      OBVIOUS
    <2>1. i \in 1 .. n \/ i = n + 1
      BY <1>2
    <2>2. CASE i \in 1 .. n
      BY <1>2, <2>2, WeightStep
    <2>3. CASE i = n + 1
      <3>1. n - 1 \in Nat
        BY <1>2
      <3> QED BY <1>2, <2>3, <3>1, WeightStep, PowerStep
    <2> QED BY <2>1, <2>2, <2>3
  <1>5. \A u, v \in Int : u * v \in Int
    OBVIOUS
  <1>6. /\ Weighted(s) \in Seq(Int) /\ Len(Weighted(s)) = n
        /\ \A i \in 1 .. n : Weighted(s)[i] = Series!Weight(i, n) * s[i]
    <2>1. DOMAIN s = 1 .. n /\ Len(s) = n
      BY DEF n
    <2>2. \A i \in 1 .. n : Series!Weight(i, n) * s[i] \in Int
      BY <1>2, <1>5, WeightStep
    <2> QED BY <1>2, <2>1, <2>2 DEF Weighted
  <1>7. /\ Weighted(t) \in Seq(Int) /\ Len(Weighted(t)) = n + 1
        /\ \A i \in 1 .. n + 1 : Weighted(t)[i] = Series!Weight(i, n + 1) * t[i]
    <2>1. DOMAIN t = 1 .. n + 1 /\ Len(t) = n + 1
      BY <1>1
    <2>2. \A i \in 1 .. n + 1 : Series!Weight(i, n + 1) * t[i] \in Int
      BY <1>3, <1>4, <1>5
    <2> QED BY <1>2, <2>1, <2>2 DEF Weighted
  <1>8. \A i \in 1 .. n : Weighted(t)[i] = 4 * Weighted(s)[i]
    <2> SUFFICES ASSUME NEW i \in 1 .. n PROVE Weighted(t)[i] = 4 * Weighted(s)[i]
      OBVIOUS
    <2>1. i \in 1 .. n + 1
      BY <1>2
    <2>2. /\ Weighted(t)[i] = (4 * Series!Weight(i, n)) * s[i]
          /\ Weighted(s)[i] = Series!Weight(i, n) * s[i]
          /\ Series!Weight(i, n) \in Int /\ s[i] \in Int
      BY <1>1, <1>2, <1>6, <1>7, <2>1, WeightStep
    <2>3. \A u, v \in Int : (4 * u) * v = 4 * (u * v)
      OBVIOUS
    <2> QED BY <2>2, <2>3
  <1>9. Weighted(t)[n + 1] = Power(5, n - 1) * x
    <2>1. n + 1 \in 1 .. n + 1
      BY <1>2
    <2> QED BY <1>1, <1>2, <1>7, <2>1, WeightStep
  <1>10. /\ SumOf(Weighted(s)) \in Int
         /\ SumOf(Weighted(t)) = 4 * SumOf(Weighted(s)) + Weighted(t)[Len(Weighted(t))]
    <2>1. /\ Weighted(s) \in Seq(Int) /\ Weighted(t) \in Seq(Int) /\ 4 \in Int
          /\ Len(Weighted(t)) = Len(Weighted(s)) + 1
          /\ \A i \in 1 .. Len(Weighted(s)) : Weighted(t)[i] = 4 * Weighted(s)[i]
      <3>1. 4 \in Int
        OBVIOUS
      <3> QED BY <1>6, <1>7, <1>8, <3>1, Zenon
    <2> QED BY <2>1, SumScaled, Zenon
  <1> QED BY <1>7, <1>9, <1>10 DEF t, n

\* One value has the weight 1.
LEMMA WeightedOne ==
  ASSUME NEW x \in Int
  PROVE  SumOf(Weighted(<<x>>)) = x
  <1>1. Power(4, 0) = 1
    BY PowerStep
  <1>2. Series!Weight(1, 1) = 1
    BY <1>1, SameSums DEF Series!Weight
  <1>3. Weighted(<<x>>) = <<x>>
    BY <1>2 DEF Weighted
  <1>4. <<x>> = Append(<<>>, x) /\ <<>> \in Seq(Int)
    OBVIOUS
  <1>5. SumOf(Append(<<>>, x)) = SumOf(<<>>) + x
    BY <1>4, SumAppend
  <1> QED BY <1>3, <1>4, <1>5, SumEmpty

Squares(s) == [i \in DOMAIN s |-> Square(s[i])]

LEMMA SquaresAppend ==
  ASSUME NEW s \in Seq(Int), NEW x \in Int
  PROVE  /\ Squares(s) \in Seq(Int) /\ Len(Squares(s)) = Len(s)
         /\ Squares(Append(s, x)) = Append(Squares(s), Square(x)) /\ Square(x) \in Int
  <1> DEFINE t == Append(s, x)  n == Len(s)  c == Squares(s)  d == Append(c, Square(x))
  <1>0. \A u \in Int : Square(u) \in Int
    BY DEF Square
  <1>1. /\ t \in Seq(Int) /\ Len(t) = n + 1 /\ n \in Nat
        /\ t[n + 1] = x /\ \A k \in 1 .. n : t[k] = s[k]
    BY AppendProperties
  <1>2. DOMAIN s = 1 .. n /\ \A k \in 1 .. n : s[k] \in Int
    BY ElementOfSeq
  <1>3. c \in Seq(Int) /\ Len(c) = n /\ \A k \in 1 .. n : c[k] = Square(s[k])
    <2>1. \A k \in 1 .. n : Square(s[k]) \in Int
      BY <1>0, <1>2
    <2> QED BY <1>1, <1>2, <2>1 DEF Squares
  <1> HIDE DEF t, c, n
  <1>4. /\ d \in Seq(Int) /\ Len(d) = n + 1
        /\ d[n + 1] = Square(x) /\ \A k \in 1 .. n : d[k] = c[k]
    <2>1. Square(x) \in Int /\ c \in Seq(Int)
      BY <1>0, <1>3
    <2>2. ASSUME NEW e \in Int, NEW r \in Seq(Int)
          PROVE  /\ Append(r, e) \in Seq(Int) /\ Len(Append(r, e)) = Len(r) + 1
                 /\ Append(r, e)[Len(r) + 1] = e
                 /\ \A k \in 1 .. Len(r) : Append(r, e)[k] = r[k]
      BY AppendProperties
    <2>3. /\ d \in Seq(Int) /\ Len(d) = Len(c) + 1
          /\ d[Len(c) + 1] = Square(x) /\ \A k \in 1 .. Len(c) : d[k] = c[k]
      BY <2>1, <2>2
    <2> QED BY <1>3, <2>3, Zenon
  <1> HIDE DEF d
  <1>5. DOMAIN t = 1 .. n + 1 /\ d = [k \in 1 .. n + 1 |-> d[k]]
    <2>1. DOMAIN t = 1 .. Len(t) /\ d = [k \in 1 .. Len(d) |-> d[k]]
      BY <1>1, <1>4, Elements, Zenon
    <2> QED BY <1>1, <1>4, <2>1, Zenon
  <1>6. \A k \in 1 .. n + 1 : Square(t[k]) = d[k]
    <2> SUFFICES ASSUME NEW k \in 1 .. n + 1 PROVE Square(t[k]) = d[k]
      OBVIOUS
    <2>1. k \in 1 .. n \/ k = n + 1
      BY <1>1
    <2>2. CASE k \in 1 .. n
      BY <1>1, <1>3, <1>4, <2>2
    <2>3. CASE k = n + 1
      BY <1>1, <1>4, <2>3
    <2> QED BY <2>1, <2>2, <2>3
  <1>7. Squares(t) = d
    BY <1>5, <1>6 DEF Squares
  <1> QED BY <1>0, <1>3, <1>7 DEF t, c, d, n

LEMMA WeightedDefs ==
  ASSUME NEW s \in Seq(Int)
  PROVE  /\ Series!WeightedMean(s) = SumOf(Weighted(s))
         /\ Series!WeightedSquares(s) = SumOf(Weighted(Squares(s)))
         /\ Series!WeightedVariance(s)
              = Power(5, Len(s) - 1) * SumOf(Weighted(Squares(s))) - Square(SumOf(Weighted(s)))
  <1>1. Series!WeightedMean(s) = SumOf(Weighted(s))
    BY SameSums DEF Series!WeightedMean, Weighted
  <1>2. Len(Squares(s)) = Len(s) /\ DOMAIN Squares(s) = DOMAIN s
    BY SquaresAppend DEF Squares
  <1>3. [i \in DOMAIN s |-> Series!Weight(i, Len(s)) * Series!Square(s[i])] = Weighted(Squares(s))
    BY <1>2, SameSums DEF Weighted, Squares
  <1>4. Series!WeightedSquares(s) = SumOf(Weighted(Squares(s)))
    BY <1>3, SameSums DEF Series!WeightedSquares
  <1> QED BY <1>1, <1>4, SameSums DEF Series!WeightedVariance

\* mean and variance of a longer series are the ones update() computes.
LEMMA SeriesStep ==
  ASSUME NEW s \in Seq(Int), s # <<>>, NEW x \in Int,
         NEW p, NEW m, NEW v,
         p = Power(5, Len(s) - 1), m = Series!WeightedMean(s), v = Series!WeightedVariance(s)
  PROVE  /\ p \in Int /\ m \in Int /\ v \in Int
         /\ Series!WeightedMean(Append(s, x)) = 5 * m + (x * p - m)
         /\ Series!WeightedVariance(Append(s, x)) = 20 * v + 4 * Square(x * p - m)
  <1> DEFINE t == Append(s, x)  e == SumOf(Weighted(Squares(s)))
  <1>1. /\ t \in Seq(Int) /\ Len(t) = Len(s) + 1
    BY AppendProperties
  <1>2. Len(s) - 1 \in Nat /\ (Len(s) - 1) + 1 = Len(t) - 1
    BY <1>1, EmptySeq
  <1>3. Power(5, Len(t) - 1) = 5 * p /\ p \in Int
    BY <1>2, PowerStep
  <1>4. m = SumOf(Weighted(s)) /\ v = p * e - Square(m)
    BY WeightedDefs
  <1>5. m \in Int /\ SumOf(Weighted(t)) = 4 * m + p * x
    BY <1>4, WeightedStep
  <1>6. e \in Int /\ SumOf(Weighted(Squares(t))) = 4 * e + p * Square(x)
    <2>1. /\ Squares(s) \in Seq(Int) /\ Len(Squares(s)) = Len(s)
          /\ Squares(t) = Append(Squares(s), Square(x)) /\ Square(x) \in Int
      BY SquaresAppend
    <2>2. Squares(s) # <<>>
      BY <2>1, <1>2
    <2> QED BY <2>1, <2>2, WeightedStep
  <1>7. /\ Series!WeightedMean(t) = SumOf(Weighted(t))
        /\ Series!WeightedVariance(t) = Power(5, Len(t) - 1) * SumOf(Weighted(Squares(t)))
                                          - Square(SumOf(Weighted(t)))
    BY <1>1, WeightedDefs
  <1> HIDE DEF t, e
  <1>8. Series!WeightedMean(t) = 4 * m + p * x
    BY <1>5, <1>7
  <1>9. Series!WeightedVariance(t) = (5 * p) * (4 * e + p * Square(x)) - Square(4 * m + p * x)
    BY <1>3, <1>5, <1>6, <1>7
  <1>10. ASSUME NEW a \in Int, NEW b \in Int, NEW c \in Int, NEW d \in Int
         PROVE  /\ 4 * a + b * d = 5 * a + (d * b - a)
                /\ (5 * b) * (4 * c + b * Square(d)) - Square(4 * a + b * d)
                     = 20 * (b * c - Square(a)) + 4 * Square(d * b - a)
                /\ b * c - Square(a) \in Int
    BY DEF Square
  <1>11. v \in Int
    BY <1>3, <1>4, <1>5, <1>6, <1>10
  <1>12. Series!WeightedMean(t) = 5 * m + (x * p - m)
    BY <1>3, <1>5, <1>6, <1>8, <1>10
  <1>13. Series!WeightedVariance(t) = 20 * (p * e - Square(m)) + 4 * Square(x * p - m)
    BY <1>3, <1>5, <1>6, <1>9, <1>10
  <1> QED BY <1>3, <1>4, <1>5, <1>11, <1>12, <1>13 DEF t

-----------------------------------------------------------------------------
(* Steady levels: m and v are scaled mean and variance, with the scale p,  *)
(* of values at level a and then at level b, which have the weight w of    *)
(* the first level to go.                                                  *)

Balanced(p, a, b, m, v) ==
  \E w \in Int : /\ 0 <= w /\ 5 * w <= 4 * p
                 /\ b * p - m = w * (b - a)
                 /\ v = (w * (p - w)) * Square(b - a)

\* A value at the level before it is within two deviations of the mean.
LEMMA WithinTwo ==
  ASSUME NEW p \in Int, p > 0, NEW a \in Int, NEW b \in Int, NEW m \in Int, NEW v \in Int,
         Balanced(p, a, b, m, v)
  PROVE  ~(v > 0 /\ 100 * Square(b * p - m) >= 484 * v)
  <1> SUFFICES ASSUME v > 0, 100 * Square(b * p - m) >= 484 * v PROVE FALSE
    OBVIOUS
  <1>1. PICK w \in Int : /\ 0 <= w /\ 5 * w <= 4 * p
                         /\ b * p - m = w * (b - a)
                         /\ v = (w * (p - w)) * Square(b - a)
    BY DEF Balanced
  <1>2. PICK d \in Int : d = b - a
    OBVIOUS
  <1>3. PICK q \in Int : q = d * d /\ q >= 0
    OBVIOUS
  <1>4. v = (w * (p - w)) * q
    BY <1>1, <1>2, <1>3 DEF Square
  <1>5. Square(b * p - m) = (w * w) * q
    <2>1. (w * d) * (w * d) = (w * w) * (d * d)
      OBVIOUS
    <2> QED BY <1>1, <1>2, <1>3, <2>1 DEF Square
  <1>6. w > 0 /\ q > 0
    <2>1. w = 0 => v = 0
      BY <1>1, <1>3, <1>4
    <2>2. q = 0 => v = 0
      BY <1>1, <1>3, <1>4
    <2> QED BY <1>1, <1>3, <2>1, <2>2
  <1>7. PICK u \in Int : u = w * q /\ u > 0
    BY <1>3, <1>6
  <1>8. v = (p - w) * u /\ Square(b * p - m) = w * u
    <2>1. (w * (p - w)) * q = (p - w) * (w * q) /\ (w * w) * q = w * (w * q)
      BY <1>3
    <2> QED BY <1>4, <1>5, <1>7, <2>1
  <1>9. 100 * (w * u) >= 484 * ((p - w) * u)
    BY <1>8
  <1>10. (584 * w - 484 * p) * u >= 0
    <2>1. 100 * (w * u) - 484 * ((p - w) * u) = (584 * w - 484 * p) * u
      BY <1>7
    <2> QED BY <1>7, <1>9, <2>1
  <1>11. 584 * w - 484 * p < 0
    BY <1>1
  <1>12. \A c, e \in Int : c < 0 /\ e > 0 => c * e < 0
    OBVIOUS
  <1> QED BY <1>7, <1>10, <1>11, <1>12

\* Another value at that level.
LEMMA StillBalanced ==
  ASSUME NEW p \in Int, NEW a \in Int, NEW b \in Int, NEW m \in Int, NEW v \in Int,
         Balanced(p, a, b, m, v)
  PROVE  Balanced(5 * p, a, b, 5 * m + (b * p - m), 20 * v + 4 * Square(b * p - m))
  <1>1. PICK w \in Int : /\ 0 <= w /\ 5 * w <= 4 * p
                         /\ b * p - m = w * (b - a)
                         /\ v = (w * (p - w)) * Square(b - a)
    BY DEF Balanced
  <1>2. 4 * w \in Int /\ 0 <= 4 * w /\ 5 * (4 * w) <= 4 * (5 * p)
    BY <1>1
  <1>3. b * (5 * p) - (5 * m + (b * p - m)) = (4 * w) * (b - a)
    <2>1. b * (5 * p) - (5 * m + (b * p - m)) = 4 * (b * p - m)
      OBVIOUS
    <2> QED BY <1>1, <2>1
  <1>4. 20 * v + 4 * Square(b * p - m) = ((4 * w) * (5 * p - 4 * w)) * Square(b - a)
    <2>1. PICK d \in Int : d = b - a
      OBVIOUS
    <2>2. 20 * ((w * (p - w)) * (d * d)) + 4 * ((w * d) * (w * d))
            = ((4 * w) * (5 * p - 4 * w)) * (d * d)
      BY <2>1
    <2> QED BY <1>1, <2>1, <2>2 DEF Square
  <1> QED BY <1>2, <1>3, <1>4 DEF Balanced

\* The first value at another level.
LEMMA NewlyBalanced ==
  ASSUME NEW p \in Int, p > 0, NEW a \in Int, NEW b \in Int, NEW m \in Int, m = a * p
  PROVE  Balanced(5 * p, a, b, 5 * m + (b * p - m), 20 * 0 + 4 * Square(b * p - m))
  <1>1. 4 * p \in Int /\ 0 <= 4 * p /\ 5 * (4 * p) <= 4 * (5 * p)
    OBVIOUS
  <1>2. b * (5 * p) - (5 * (a * p) + (b * p - a * p)) = (4 * p) * (b - a)
    OBVIOUS
  <1>3. 20 * 0 + 4 * ((b * p - a * p) * (b * p - a * p))
          = ((4 * p) * (5 * p - 4 * p)) * ((b - a) * (b - a))
    OBVIOUS
  <1> QED BY <1>1, <1>2, <1>3 DEF Balanced, Square

-----------------------------------------------------------------------------
(* The series.                                                             *)

\* What EventsAreOutliers asks of value n of s.
Distance(s, n) == Square(Power(5, n - 2) * s[n] - Series!WeightedMean(SubSeq(s, 1, n - 1)))
Spread(s, n) == Series!WeightedVariance(SubSeq(s, 1, n - 1))
AtLeast(s, n, tenths) ==
  Spread(s, n) > 0 /\ 100 * Distance(s, n) >= Square(tenths) * Spread(s, n)
Verdict(s, n) ==
  IF n < MinSeries \/ ~AtLeast(s, n, 22) THEN {}
  ELSE {IF AtLeast(s, n, 44) THEN "critical" ELSE IF AtLeast(s, n, 33) THEN "major" ELSE "minor"}

Judged(E, n) == {e[2] : e \in {f \in E : f[1] = n}}

Levels(s, k) == \A i, j \in DOMAIN s : (i <= k <=> j <= k) => s[i] = s[j]

\* The scale of mean and variance.
Scale == Power(5, Len(values) - 1)

Reach(x, tenths) == var > 0 /\ 100 * Square(x * Scale - mean) >= Square(tenths) * var

\* mean and variance are what the values make of them, and events are of values.
ValuesInv ==
  /\ values \in Seq(Int) /\ mean \in Int /\ var \in Int
  /\ values = <<>> => events = {}
  /\ values # <<>> => /\ mean = Series!WeightedMean(values)
                      /\ var = Series!WeightedVariance(values)
  /\ \A e \in events : e[1] \in Int /\ e[1] <= Len(values)

\* Each value was judged by those before it.
VerdictsInv == \A n \in 2 .. Len(values) : Judged(events, n) = Verdict(values, n)

\* One level, or two.
LevelsInv ==
  \A k \in DOMAIN values : Levels(values, k) =>
    /\ events = {}
    /\ k = Len(values) => mean = values[1] * Scale /\ var = 0
    /\ k < Len(values) => Balanced(Scale, values[1], values[Len(values)], mean, var)

SeriesInv == ValuesInv /\ VerdictsInv /\ LevelsInv

\* The first value.
LEMMA FirstValue ==
  ASSUME SeriesInv, values = <<>>, NEW x \in Values, Series!Update(x)
  PROVE  SeriesInv'
  <1>1. /\ values' = <<x>> /\ mean' = x /\ var' = 0 /\ events' = {} /\ x \in Int
    <2>1. x \in Int
      BY SeriesAssumption DEF Series!SeriesAssumption
    <2>2. values' = Append(<<>>, x) /\ mean' = x /\ var' = 0 /\ events' = {}
      BY DEF Series!Update, SeriesInv, ValuesInv
    <2> QED BY <2>1, <2>2
  <1>2. /\ <<x>> \in Seq(Int) /\ Len(<<x>>) = 1 /\ <<x>> # <<>> /\ DOMAIN <<x>> = {1} /\ <<x>>[1] = x
    BY <1>1
  <1>3. Power(5, 0) = 1
    BY PowerStep
  <1>4. Series!WeightedMean(<<x>>) = x
    BY <1>1, <1>2, WeightedDefs, WeightedOne
  <1>5. Series!WeightedVariance(<<x>>) = 0
    <2>1. Squares(<<x>>) = <<Square(x)>> /\ Square(x) \in Int
      BY <1>1 DEF Squares, Square
    <2>2. SumOf(Weighted(Squares(<<x>>))) = Square(x) /\ SumOf(Weighted(<<x>>)) = x
      BY <1>1, <2>1, WeightedOne
    <2>3. Series!WeightedVariance(<<x>>) = Power(5, 1 - 1) * Square(x) - Square(x)
      BY <1>2, <2>2, WeightedDefs
    <2> QED BY <1>3, <2>1, <2>3
  <1>6. ValuesInv'
    BY <1>1, <1>2, <1>4, <1>5 DEF ValuesInv
  <1>7. VerdictsInv'
    BY <1>1, <1>2 DEF VerdictsInv
  <1>8. LevelsInv'
    <2>1. Scale' = 1
      BY <1>1, <1>2, <1>3 DEF Scale
    <2>2. x = x * 1
      BY <1>1
    <2> QED BY <1>1, <1>2, <2>1, <2>2 DEF LevelsInv
  <1> QED BY <1>6, <1>7, <1>8 DEF SeriesInv

\* What update() does with every other value.
LEMMA NextValue ==
  ASSUME SeriesInv, values # <<>>, NEW x \in Values, Series!Update(x)
  PROVE  /\ x \in Int /\ values' = Append(values, x) /\ Len(values) \in Nat /\ Len(values) >= 1
         /\ Len(values') = Len(values) + 1 /\ values' \in Seq(Int)
         /\ values'[Len(values) + 1] = x /\ \A i \in 1 .. Len(values) : values'[i] = values[i]
         /\ Scale \in Int /\ Scale > 0 /\ Scale' = 5 * Scale
         /\ mean' = 5 * mean + (x * Scale - mean)
         /\ var' = 20 * var + 4 * Square(x * Scale - mean)
         /\ IF Len(values) + 1 >= MinSeries /\ Reach(x, 22)
            THEN events' = events \cup {<<Len(values) + 1,
                             IF Reach(x, 44) THEN "critical"
                             ELSE IF Reach(x, 33) THEN "major" ELSE "minor">>}
            ELSE events' = events
  <1>1. x \in Int
    BY SeriesAssumption DEF Series!SeriesAssumption
  <1>2. values \in Seq(Int)
    BY DEF SeriesInv, ValuesInv
  <1>3. values' = Append(values, x)
    BY DEF Series!Update
  <1>4. /\ Len(values) \in Nat /\ Len(values) >= 1
        /\ Len(values') = Len(values) + 1 /\ values' \in Seq(Int)
        /\ values'[Len(values) + 1] = x /\ \A i \in 1 .. Len(values) : values'[i] = values[i]
    BY <1>1, <1>2, <1>3, EmptySeq, AppendProperties
  <1>5. Scale \in Int /\ Scale > 0 /\ Scale' = 5 * Scale
    <2>1. Len(values) - 1 \in Nat /\ (Len(values) - 1) + 1 = Len(values') - 1
      BY <1>4
    <2>2. ASSUME NEW k \in Nat
          PROVE  Power(5, k) \in Int /\ Power(5, k) > 0 /\ Power(5, k + 1) = 5 * Power(5, k)
      BY PowerStep, PowerPositive
    <2>3. /\ Power(5, Len(values) - 1) \in Int /\ Power(5, Len(values) - 1) > 0
          /\ Power(5, Len(values') - 1) = 5 * Power(5, Len(values) - 1)
      BY <2>1, <2>2
    <2> QED BY <2>3 DEF Scale
  <1>6. Series!Delta(x) = x * Scale - mean
    BY SameSums DEF Series!Delta, Scale
  <1>7. mean' = 5 * mean + (x * Scale - mean) /\ var' = 20 * var + 4 * Square(x * Scale - mean)
    BY <1>6, SameSums DEF Series!Update, Series!Variance
  <1>8. /\ Series!Reaches(x, 100) <=> Reach(x, 22)
        /\ Series!Reaches(x, 150) <=> Reach(x, 33)
        /\ Series!Reaches(x, 200) <=> Reach(x, 44)
    <2>1. (22 * 100) \div 100 = 22 /\ (22 * 150) \div 100 = 33 /\ (22 * 200) \div 100 = 44
      OBVIOUS
    <2> QED BY <1>6, <2>1, SameSums DEF Series!Reaches, Reach
  <1>9. IF Len(values) + 1 >= MinSeries /\ Series!Reaches(x, 100)
        THEN events' = events \cup {<<Len(values) + 1, Series!Severity(x)>>}
        ELSE events' = events
    BY DEF Series!Update
  <1>10. Series!Severity(x) = IF Reach(x, 44) THEN "critical"
                              ELSE IF Reach(x, 33) THEN "major" ELSE "minor"
    BY <1>8 DEF Series!Severity
  <1> QED BY <1>1, <1>3, <1>4, <1>5, <1>7, <1>8, <1>9, <1>10

\* It reports that value at most.
LEMMA EventsGrow ==
  ASSUME SeriesInv, values # <<>>, NEW x \in Values, Series!Update(x)
  PROVE  \E y : events' = events \/ events' = events \cup {<<Len(values) + 1, y>>}
  <1> DEFINE y == IF Reach(x, 44) THEN "critical" ELSE IF Reach(x, 33) THEN "major" ELSE "minor"
  <1>1. events' = events \/ events' = events \cup {<<Len(values) + 1, y>>}
    BY NextValue
  <1> QED BY <1>1

LEMMA ValuesStep ==
  ASSUME SeriesInv, values # <<>>, NEW x \in Values, Series!Update(x)
  PROVE  ValuesInv'
  <1>1. /\ x \in Int /\ values' = Append(values, x) /\ Len(values) \in Nat
        /\ Len(values') = Len(values) + 1 /\ values' \in Seq(Int)
        /\ mean' = 5 * mean + (x * Scale - mean)
        /\ var' = 20 * var + 4 * Square(x * Scale - mean)
        /\ Scale \in Int
    BY NextValue
  <1>2. /\ values \in Seq(Int) /\ mean \in Int /\ var \in Int
        /\ mean = Series!WeightedMean(values) /\ var = Series!WeightedVariance(values)
        /\ \A e \in events : e[1] \in Int /\ e[1] <= Len(values)
    BY DEF SeriesInv, ValuesInv
  <1>3. /\ mean' = Series!WeightedMean(values') /\ var' = Series!WeightedVariance(values')
    BY <1>1, <1>2, SeriesStep DEF Scale
  <1>4. mean' \in Int /\ var' \in Int
    <2>1. \A u, v, w, z \in Int :
            5 * u + (v * w - u) \in Int /\ 20 * z + 4 * ((v * w - u) * (v * w - u)) \in Int
      OBVIOUS
    <2> QED BY <1>1, <1>2, <2>1 DEF Square
  <1>5. \A e \in events' : e[1] \in Int /\ e[1] <= Len(values')
    <2>1. \A e \in events' : e \in events \/ e[1] = Len(values) + 1
      BY EventsGrow
    <2>2. ASSUME NEW e \in events, e[1] \in Int /\ e[1] <= Len(values)
          PROVE  e[1] <= Len(values')
      BY <1>1, <2>2
    <2>3. Len(values) + 1 \in Int /\ Len(values) + 1 <= Len(values')
      BY <1>1
    <2> QED BY <1>2, <2>1, <2>2, <2>3
  <1>6. values' # <<>>
    BY <1>1, EmptySeq, SMTT(30)
  <1> QED BY <1>1, <1>3, <1>4, <1>5, <1>6 DEF ValuesInv

LEMMA VerdictsStep ==
  ASSUME SeriesInv, values # <<>>, NEW x \in Values, Series!Update(x)
  PROVE  VerdictsInv'
  <1> DEFINE n == Len(values)
  <1>1. /\ x \in Int /\ n \in Nat /\ n >= 1 /\ Len(values') = n + 1 /\ values' \in Seq(Int)
        /\ values'[n + 1] = x /\ \A i \in 1 .. n : values'[i] = values[i]
        /\ Scale \in Int
    BY NextValue
  <1>2. /\ values \in Seq(Int) /\ mean \in Int /\ var \in Int
        /\ mean = Series!WeightedMean(values) /\ var = Series!WeightedVariance(values)
        /\ \A e \in events : e[1] \in Int /\ e[1] <= n
    BY DEF SeriesInv, ValuesInv
  <1>3. ASSUME NEW k \in 2 .. n PROVE Judged(events', k) = Verdict(values', k)
    <2>1. Judged(events', k) = Judged(events, k)
      <3>1. k # n + 1
        BY <1>1
      <3>2. {f \in events' : f[1] = k} = {f \in events : f[1] = k}
        BY <3>1, EventsGrow
      <3> QED BY <3>2 DEF Judged
    <2>2. SubSeq(values', 1, k - 1) = SubSeq(values, 1, k - 1) /\ values'[k] = values[k]
      <3>1. k \in 1 .. n /\ \A i \in 1 .. k - 1 : i \in 1 .. n
        BY <1>1
      <3> QED BY <1>1, <1>2, <3>1
    <2>3. Verdict(values', k) = Verdict(values, k)
      BY <2>2 DEF Verdict, AtLeast, Spread, Distance
    <2> QED BY <2>1, <2>3 DEF SeriesInv, VerdictsInv
  <1>4. Judged(events', n + 1) = Verdict(values', n + 1)
    <2>1. SubSeq(values', 1, (n + 1) - 1) = values
      BY <1>1, <1>2
    <2>2. Spread(values', n + 1) = var
      BY <1>2, <2>1 DEF Spread
    <2>3. Distance(values', n + 1) = Square(x * Scale - mean)
      <3>1. Power(5, (n + 1) - 2) = Scale
        <4>1. (n + 1) - 2 = n - 1
          BY <1>1
        <4> QED BY <4>1 DEF Scale
      <3>2. Scale * x = x * Scale
        BY <1>1
      <3> QED BY <1>1, <1>2, <2>1, <3>1, <3>2 DEF Distance
    <2>4. \A tenths : AtLeast(values', n + 1, tenths) <=> Reach(x, tenths)
      BY <2>2, <2>3 DEF AtLeast, Reach
    <2>5. Judged(events, n + 1) = {}
      <3>1. \A e \in events : e[1] # n + 1
        BY <1>1, <1>2
      <3> QED BY <3>1 DEF Judged
    <2>6. MinSeries \in Nat
      BY SeriesAssumption DEF Series!SeriesAssumption
    <2>7. n + 1 < MinSeries <=> ~(n + 1 >= MinSeries)
      BY <1>1, <2>6
    <2>8. ASSUME NEW y PROVE Judged(events \cup {<<n + 1, y>>}, n + 1) = {y}
      <3>1. \A e \in events : e[1] # n + 1
        BY <1>1, <1>2
      <3>2. {f \in events \cup {<<n + 1, y>>} : f[1] = n + 1} = {<<n + 1, y>>}
        BY <3>1
      <3>3. {e[2] : e \in {<<n + 1, y>>}} = {y}
        OBVIOUS
      <3> QED BY <3>2, <3>3 DEF Judged
    <2> QED BY <2>4, <2>5, <2>7, <2>8, NextValue, ZenonT(40) DEF Verdict
  <1>5. ASSUME NEW k \in 2 .. n + 1 PROVE k \in 2 .. n \/ k = n + 1
    BY <1>1
  <1> QED BY <1>1, <1>3, <1>4, <1>5 DEF VerdictsInv

LEMMA LevelsStep ==
  ASSUME SeriesInv, values # <<>>, NEW x \in Values, Series!Update(x)
  PROVE  LevelsInv'
  <1> DEFINE n == Len(values)
  <1>1. /\ x \in Int /\ n \in Nat /\ n >= 1 /\ Len(values') = n + 1 /\ values' \in Seq(Int)
        /\ values'[n + 1] = x /\ \A i \in 1 .. n : values'[i] = values[i]
        /\ Scale \in Int /\ Scale > 0 /\ Scale' = 5 * Scale
        /\ mean' = 5 * mean + (x * Scale - mean)
        /\ var' = 20 * var + 4 * Square(x * Scale - mean)
    BY NextValue
  <1>2. /\ mean \in Int /\ var \in Int /\ DOMAIN values = 1 .. n /\ DOMAIN values' = 1 .. n + 1
        /\ \A i \in 1 .. n : values[i] \in Int
    BY <1>1, ElementOfSeq DEF SeriesInv, ValuesInv
  <1>3. ~Reach(x, 22) => events' = events
    BY NextValue
  <1>4. Square(22) = 484
    BY DEF Square
  <1> SUFFICES ASSUME NEW k \in 1 .. n + 1, Levels(values', k)
               PROVE  /\ events' = {}
                      /\ k = n + 1 => mean' = values'[1] * Scale' /\ var' = 0
                      /\ k < n + 1 => Balanced(Scale', values'[1], values'[n + 1], mean', var')
    BY <1>1, <1>2 DEF LevelsInv
  <1>5. values'[1] = values[1] /\ values[1] \in Int /\ 1 \in 1 .. n
    BY <1>1, <1>2
  <1>6. ASSUME NEW c \in 1 .. n, c <= k, c < n => c = k PROVE Levels(values, c)
    <2> SUFFICES ASSUME NEW i \in 1 .. n, NEW j \in 1 .. n, i <= c <=> j <= c
                 PROVE  values[i] = values[j]
      BY <1>2 DEF Levels
    <2>1. i \in 1 .. n + 1 /\ j \in 1 .. n + 1 /\ (i <= k <=> j <= k)
      BY <1>1, <1>6, SMTT(30)
    <2> QED BY <1>1, <1>2, <2>1 DEF Levels
  <1>7. CASE k >= n
    <2>1. n \in 1 .. n /\ n <= k /\ Levels(values, n)
      BY <1>1, <1>6, <1>7, SMTT(30)
    <2>2. events = {} /\ mean = values[1] * Scale /\ var = 0
      BY <1>2, <2>1 DEF SeriesInv, LevelsInv
    <2>3. ~Reach(x, 22) /\ events' = {}
      BY <1>3, <2>2 DEF Reach
    <2>4. CASE k = n + 1
      <3>1. x = values[1]
        <4>1. values'[1] = values'[n + 1]
          BY <1>1, <1>2, <2>4 DEF Levels
        <4> QED BY <1>1, <1>5, <4>1
      <3>2. \A a, p \in Int : /\ 5 * (a * p) + (a * p - a * p) = a * (5 * p)
                              /\ 20 * 0 + 4 * Square(a * p - a * p) = 0
        BY DEF Square
      <3>3. mean' = values'[1] * Scale' /\ var' = 0
        BY <1>1, <1>5, <2>2, <3>1, <3>2, SMTT(30)
      <3> QED BY <1>1, <2>3, <2>4, <3>3
    <2>5. CASE k = n
      <3>1. Balanced(Scale', values'[1], values'[n + 1], mean', var')
        BY <1>1, <1>2, <1>5, <2>2, NewlyBalanced
      <3> QED BY <1>1, <2>3, <2>5, <3>1
    <2> QED BY <1>1, <1>7, <2>4, <2>5
  <1>8. CASE k < n
    <2>1. k \in 1 .. n /\ Levels(values, k)
      BY <1>1, <1>6, <1>8
    <2>2. events = {} /\ Balanced(Scale, values[1], values[n], mean, var)
      BY <1>2, <1>8, <2>1 DEF SeriesInv, LevelsInv
    <2>3. x = values[n] /\ values[n] \in Int
      <3>1. n \in 1 .. n + 1 /\ n + 1 \in 1 .. n + 1 /\ n \in 1 .. n /\ ~(n <= k) /\ ~(n + 1 <= k)
        BY <1>1, <1>8
      <3>2. values'[n] = values'[n + 1]
        BY <1>2, <3>1 DEF Levels
      <3> QED BY <1>1, <1>2, <3>1, <3>2
    <2>4. ~Reach(x, 22)
      <3>1. ~(var > 0 /\ 100 * Square(values[n] * Scale - mean) >= 484 * var)
        BY <1>1, <1>2, <1>5, <2>2, <2>3, WithinTwo, ZenonT(40)
      <3> QED BY <1>4, <2>3, <3>1 DEF Reach
    <2>5. Balanced(Scale', values'[1], values'[n + 1], mean', var')
      BY <1>1, <1>2, <1>5, <2>2, <2>3, StillBalanced
    <2> QED BY <1>1, <1>3, <1>8, <2>2, <2>4, <2>5, SMTT(30)
  <1> QED BY <1>1, <1>7, <1>8

LEMMA SeriesInvStep ==
  ASSUME SeriesInv, NEW x \in Values, Series!Update(x)
  PROVE  SeriesInv'
  BY FirstValue, ValuesStep, VerdictsStep, LevelsStep DEF SeriesInv

LEMMA SeriesInvInit == Series!Init => SeriesInv
  <1> SUFFICES ASSUME Series!Init PROVE SeriesInv
    OBVIOUS
  <1>1. values = <<>> /\ mean = 0 /\ var = 0 /\ events = {}
    BY DEF Series!Init
  <1>2. ValuesInv
    BY <1>1 DEF ValuesInv
  <1>3. VerdictsInv /\ LevelsInv
    BY <1>1 DEF VerdictsInv, LevelsInv
  <1> QED BY <1>2, <1>3 DEF SeriesInv

LEMMA SeriesAgree == SeriesInv => EventsAreOutliers
  <1> SUFFICES ASSUME SeriesInv PROVE EventsAreOutliers
    OBVIOUS
  <1>1. ASSUME NEW n \in 2 .. Len(values) PROVE Judged(events, n) = Verdict(values, n)
    BY DEF SeriesInv, VerdictsInv
  <1>2. ASSUME NEW k \in DOMAIN values, Levels(values, k) PROVE events = {}
    BY <1>2 DEF SeriesInv, LevelsInv
  <1>3. ASSUME NEW n \in 2 .. Len(values)
        PROVE  LET before == SubSeq(values, 1, n - 1)
                   distance == Series!Square(Series!Power(5, n - 2) * values[n] - Series!WeightedMean(before))
                   spread == Series!WeightedVariance(before)
                   AtLeast1(tenths) == spread > 0 /\ 100 * distance >= Series!Square(tenths) * spread
               IN {e[2] : e \in {f \in events : f[1] = n}} =
                    IF n < MinSeries \/ ~AtLeast1(22) THEN {}
                    ELSE {IF AtLeast1(44) THEN "critical" ELSE IF AtLeast1(33) THEN "major" ELSE "minor"}
    BY <1>1, SameSums DEF Judged, Verdict, AtLeast, Distance, Spread
  <1> QED BY <1>2, <1>3 DEF EventsAreOutliers, Series!EventsAreOutliers, Levels

\* _Series.update() and _tick() of src/api/network_analytics.py: an event is an outlier by the
\* exponentially weighted mean and variance of the values before it, for any values, and a metric
\* that goes from one steady level to another is never reported.
THEOREM OutliersCorrect == EachLevel => []EventsAreOutliers
  <1> DEFINE Step == \/ level = "task" /\ Next /\ UNCHANGED <<level, seriesVars, count>>
                     \/ level = "series" /\ Series!Next /\ UNCHANGED <<level, vars, count>>
                     \/ level = "quantile" /\ Latency!Next /\ UNCHANGED <<level, vars, seriesVars>>
             allVars == <<level, vars, seriesVars, count>>
  <1>1. LevelInit => SeriesInv
    BY SeriesInvInit DEF LevelInit
  <1>2. SeriesInv /\ [Step]_allVars => SeriesInv'
    <2> SUFFICES ASSUME SeriesInv, [Step]_allVars PROVE SeriesInv'
      OBVIOUS
    <2>1. Series!Next \/ UNCHANGED <<values, mean, var, events>>
      BY DEF seriesVars
    <2>2. CASE Series!Next
      <3>1. PICK x \in Values : Series!Update(x)
        BY <2>2 DEF Series!Next
      <3> QED BY <3>1, SeriesInvStep
    <2>3. CASE UNCHANGED <<values, mean, var, events>>
      <3>1. ValuesInv'
        BY <2>3 DEF SeriesInv, ValuesInv
      <3>2. VerdictsInv'
        BY <2>3 DEF SeriesInv, VerdictsInv
      <3>3. LevelsInv'
        BY <2>3 DEF SeriesInv, LevelsInv, Scale
      <3> QED BY <3>1, <3>2, <3>3 DEF SeriesInv
    <2> QED BY <2>1, <2>2, <2>3
  <1> QED BY <1>1, <1>2, SeriesAgree, PTL DEF EachLevel

-----------------------------------------------------------------------------
(* Partial sums of two sequences.                                          *)

\* Sums of natural numbers go up.
LEMMA SumsGoUp ==
  ASSUME NEW n \in Nat, NEW x, NEW f, Sums(f, x, n), \A k \in 1 .. n : x[k] \in Nat
  PROVE  \A k \in 0 .. n : f[k] \in Nat /\ \A j \in 0 .. k : f[j] <= f[k]
  <1> DEFINE S == {k \in Nat : k <= n => f[k] \in Nat /\ \A j \in 0 .. k : f[j] <= f[k]}
  <1>1. 0 \in S
    BY DEF Sums
  <1>2. ASSUME NEW k \in Nat, k \in S PROVE k + 1 \in S
    <2>1. SUFFICES ASSUME k + 1 <= n
                   PROVE  f[k + 1] \in Nat /\ \A j \in 0 .. k + 1 : f[j] <= f[k + 1]
      OBVIOUS
    <2>2. k + 1 \in 1 .. n /\ (k + 1) - 1 = k /\ f[k] \in Nat /\ \A j \in 0 .. k : f[j] <= f[k]
      BY <1>2, <2>1
    <2>3. f[k + 1] = f[k] + x[k + 1] /\ x[k + 1] \in Nat
      BY <2>2 DEF Sums
    <2>4. f[k + 1] \in Nat /\ f[k] <= f[k + 1]
      BY <2>2, <2>3
    <2>5. ASSUME NEW j \in 0 .. k + 1 PROVE f[j] <= f[k + 1]
      <3>1. CASE j = k + 1
        BY <2>4, <3>1
      <3>2. CASE j # k + 1
        <4>1. j \in 0 .. k /\ j \in 0 .. n
          BY <2>1, <3>2
        <4>2. f[j] <= f[k] /\ f[j] \in Int
          BY <2>2, <4>1 DEF Sums
        <4> QED BY <2>2, <2>4, <4>2
      <3> QED BY <3>1, <3>2
    <2> QED BY <2>4, <2>5
  <1> HIDE DEF S
  <1>3. \A k \in Nat : k \in S
    BY <1>1, <1>2, Inductive
  <1> QED BY <1>3 DEF S

\* Larger terms, larger sums.
LEMMA SumsBelow ==
  ASSUME NEW n \in Nat, NEW x, NEW y, NEW f, NEW g, Sums(f, x, n), Sums(g, y, n),
         \A k \in 1 .. n : x[k] \in Int /\ y[k] \in Int /\ x[k] <= y[k]
  PROVE  \A k \in 0 .. n : f[k] <= g[k]
  <1> DEFINE S == {k \in Nat : k <= n => f[k] <= g[k]}
  <1>1. 0 \in S
    BY DEF Sums
  <1>2. ASSUME NEW k \in Nat, k \in S PROVE k + 1 \in S
    <2>1. SUFFICES ASSUME k + 1 <= n PROVE f[k + 1] <= g[k + 1]
      OBVIOUS
    <2>2. k + 1 \in 1 .. n /\ (k + 1) - 1 = k /\ k \in 0 .. n /\ f[k] <= g[k]
      BY <1>2, <2>1
    <2>3. /\ f[k + 1] = f[k] + x[k + 1] /\ g[k + 1] = g[k] + y[k + 1]
          /\ f[k] \in Int /\ g[k] \in Int
          /\ x[k + 1] \in Int /\ y[k + 1] \in Int /\ x[k + 1] <= y[k + 1]
      BY <2>2 DEF Sums
    <2> QED BY <2>2, <2>3
  <1> HIDE DEF S
  <1>3. \A k \in Nat : k \in S
    BY <1>1, <1>2, Inductive
  <1> QED BY <1>3 DEF S

\* One term one more, all sums from there on one more.
LEMMA SumsOneMore ==
  ASSUME NEW n \in Nat, NEW x, NEW y, NEW f, NEW g, Sums(f, x, n), Sums(g, y, n),
         NEW j \in 1 .. n, \A k \in 1 .. n : x[k] \in Int,
         y[j] = x[j] + 1, \A k \in 1 .. n : k # j => y[k] = x[k]
  PROVE  \A k \in 0 .. n : g[k] = f[k] + (IF j <= k THEN 1 ELSE 0)
  <1> DEFINE S == {k \in Nat : k <= n => g[k] = f[k] + (IF j <= k THEN 1 ELSE 0)}
  <1>1. 0 \in S
    BY DEF Sums
  <1>2. ASSUME NEW k \in Nat, k \in S PROVE k + 1 \in S
    <2>1. SUFFICES ASSUME k + 1 <= n
                   PROVE  g[k + 1] = f[k + 1] + (IF j <= k + 1 THEN 1 ELSE 0)
      OBVIOUS
    <2>2. /\ k + 1 \in 1 .. n /\ (k + 1) - 1 = k /\ k \in 0 .. n
          /\ g[k] = f[k] + (IF j <= k THEN 1 ELSE 0)
      BY <1>2, <2>1
    <2>3. /\ f[k + 1] = f[k] + x[k + 1] /\ g[k + 1] = g[k] + y[k + 1]
          /\ f[k] \in Int /\ g[k] \in Int /\ x[k + 1] \in Int
      BY <2>2 DEF Sums
    <2>4. CASE j = k + 1
      BY <2>2, <2>3, <2>4
    <2>5. CASE j # k + 1
      <3>1. y[k + 1] = x[k + 1] /\ (j <= k <=> j <= k + 1)
        BY <2>2, <2>5
      <3> QED BY <2>2, <2>3, <3>1
    <2> QED BY <2>4, <2>5
  <1> HIDE DEF S
  <1>3. \A k \in Nat : k \in S
    BY <1>1, <1>2, Inductive
  <1> QED BY <1>3 DEF S

\* The recursive definition of partial sums has one solution.
LEMMA SumsSolution ==
  ASSUME NEW n \in Nat, NEW x, NEW f, Sums(f, x, n), NEW c,
         c = [k \in 0 .. n |-> IF k = 0 THEN 0 ELSE c[k - 1] + x[k]]
  PROVE  c = f
  <1> DEFINE S == {k \in Nat : k <= n => f[k] = c[k]}
  <1>1. 0 \in S
    <2>1. 0 \in 0 .. n
      OBVIOUS
    <2>2. c[0] = 0
      BY <2>1
    <2> QED BY <2>2 DEF Sums
  <1>2. ASSUME NEW k \in Nat, k \in S PROVE k + 1 \in S
    <2>1. SUFFICES ASSUME k + 1 <= n PROVE f[k + 1] = c[k + 1]
      OBVIOUS
    <2>2. /\ k + 1 \in 1 .. n /\ k + 1 \in 0 .. n /\ k + 1 # 0 /\ (k + 1) - 1 = k
          /\ f[k] = c[k]
      BY <1>2, <2>1
    <2>3. c[k + 1] = c[k] + x[k + 1]
      BY <2>2
    <2>4. f[k + 1] = f[k] + x[k + 1]
      BY <2>2 DEF Sums
    <2> QED BY <2>2, <2>3, <2>4
  <1> HIDE DEF S
  <1>3. \A k \in 0 .. n : f[k] = c[k]
    <2>1. \A k \in Nat : k \in S
      BY <1>1, <1>2, Inductive
    <2> QED BY <2>1 DEF S
  <1>4. f = [k \in 0 .. n |-> f[k]] /\ c = [k \in 0 .. n |-> c[k]]
    BY DEF Sums
  <1> QED BY <1>3, <1>4

-----------------------------------------------------------------------------
(* The histogram.                                                          *)

LEMMA SameSets ==
  /\ \A S : Latency!Cardinality(S) = Cardinality(S)
  /\ \A S : Latency!IsFiniteSet(S) <=> IsFiniteSet(S)
  <1>1. \A S : Latency!Cardinality(S) = Cardinality(S)
    BY DEF Latency!Cardinality, Cardinality
  <1>2. \A S : Latency!IsFiniteSet(S) <=> IsFiniteSet(S)
    BY DEF Latency!IsFiniteSet, IsFiniteSet
  <1> QED BY <1>1, <1>2

\* The quantile is known of the assumption.
LEMMA QuantileFacts ==
  /\ IsFiniteSet(Labels) /\ Num \in Nat /\ Den \in Nat /\ Den > 0 /\ Num <= Den
  /\ Latency!Inf \in Nat /\ Latency!Inf > 0 /\ Latency!Buckets = 1 .. Latency!Inf
  /\ Latency!Inf - 1 = Len(Bounds)
  /\ Bounds \in Seq(Nat \ {0})
  /\ \A i, j \in DOMAIN Bounds : i < j => Bounds[i] < Bounds[j]
  <1>1. Latency!QuantileAssumption
    BY QuantileAssumption
  <1>2. Bounds \in Seq(Nat \ {0}) /\ Len(Bounds) \in Nat
    BY <1>1 DEF Latency!QuantileAssumption
  <1> QED BY <1>1, <1>2, SameSets DEF Latency!QuantileAssumption, Latency!Inf, Latency!Buckets

\* The lower bound of every bucket is less than its upper one.
LEMMA BoundsGoUp ==
  /\ \A b \in 0 .. Latency!Inf - 1 : Latency!Bound(b) \in Nat
  /\ \A a, b \in 0 .. Latency!Inf - 1 : a < b => Latency!Bound(a) < Latency!Bound(b)
  <1>1. DOMAIN Bounds = 1 .. Latency!Inf - 1 /\ Latency!Inf - 1 \in Nat
    BY QuantileFacts
  <1>2. \A i \in 1 .. Latency!Inf - 1 : Bounds[i] \in Nat \ {0}
    BY <1>1, QuantileFacts, ElementOfSeq
  <1>3. ASSUME NEW b \in 0 .. Latency!Inf - 1 PROVE Latency!Bound(b) \in Nat
    <2>1. CASE b = 0
      BY <2>1 DEF Latency!Bound
    <2>2. CASE b # 0
      <3>1. b \in 1 .. Latency!Inf - 1
        BY <1>1, <2>2
      <3> QED BY <1>2, <2>2, <3>1 DEF Latency!Bound
    <2> QED BY <2>1, <2>2
  <1>4. ASSUME NEW a \in 0 .. Latency!Inf - 1, NEW b \in 0 .. Latency!Inf - 1, a < b
        PROVE  Latency!Bound(a) < Latency!Bound(b)
    <2>1. b \in 1 .. Latency!Inf - 1 /\ b # 0
      BY <1>1, <1>4
    <2>2. Latency!Bound(b) = Bounds[b] /\ Bounds[b] \in Nat \ {0}
      BY <1>2, <2>1 DEF Latency!Bound
    <2>3. CASE a = 0
      BY <2>2, <2>3 DEF Latency!Bound
    <2>4. CASE a # 0
      <3>1. a \in 1 .. Latency!Inf - 1
        BY <1>1, <2>4
      <3>2. Bounds[a] < Bounds[b]
        BY <1>1, <1>4, <2>1, <3>1, QuantileFacts
      <3> QED BY <2>2, <2>4, <3>2 DEF Latency!Bound
    <2> QED BY <2>3, <2>4
  <1> QED BY <1>3, <1>4

\* T[b] is what the buckets up to b hold.
IsHistogram(T) ==
  /\ T \in [Latency!Buckets -> Nat]
  /\ \A a, b \in Latency!Buckets : a <= b => T[a] <= T[b]

\* The bucket before the first holds nothing.
Lower(T, b) == IF b = 0 THEN 0 ELSE T[b]

\* B is the bucket in which T reaches the quantile.
CrossesAt(T, B) ==
  /\ B \in Latency!Buckets
  /\ Den * T[B] >= Num * T[Latency!Inf]
  /\ \A c \in 1 .. B - 1 : Den * T[c] < Num * T[Latency!Inf]

\* The fraction p / d that bucket B has for T.
IsQuantile(T, B, p, d) ==
  \/ B = Latency!Inf /\ p = Latency!Bound(B - 1) /\ d = 1
  \/ B # Latency!Inf /\ T[B] - Lower(T, B - 1) = 0 /\ p = Latency!Bound(B - 1) /\ d = 1
  \/ /\ B # Latency!Inf /\ T[B] - Lower(T, B - 1) # 0
     /\ p = Latency!Bound(B - 1) * Den * (T[B] - Lower(T, B - 1))
              + (Latency!Bound(B) - Latency!Bound(B - 1))
                  * (Num * T[Latency!Inf] - Den * Lower(T, B - 1))
     /\ d = Den * (T[B] - Lower(T, B - 1))

\* A product of natural numbers is one.
LEMMA Products ==
  /\ \A x, y \in Nat : x * y \in Nat
  /\ \A x, y \in Int : x * y \in Int
  /\ \A x, y \in Nat : x > 0 /\ y > 0 => x * y > 0
  /\ \A x, y \in Int : x * (y + 1) = x * y + x
  OBVIOUS

LEMMA Interpolation ==
  ASSUME NEW lo \in Nat, NEW hi \in Nat, lo < hi, NEW k \in Nat, NEW m \in Nat, k <= m
  PROVE  lo * m <= lo * m + (hi - lo) * k /\ lo * m + (hi - lo) * k <= hi * m
  <1>1. (hi - lo) * k >= 0
    BY Products, hi - lo \in Nat
  <1>2. hi * m - (lo * m + (hi - lo) * k) = (hi - lo) * (m - k)
    OBVIOUS
  <1>3. (hi - lo) * (m - k) >= 0
    BY Products, hi - lo \in Nat, m - k \in Nat
  <1>4. lo * m \in Int /\ (hi - lo) * k \in Int /\ hi * m \in Int
    OBVIOUS
  <1> QED BY <1>1, <1>2, <1>3, <1>4

\* The parts of an interpolation: how far the quantile lies in its bucket.
LEMMA Parts ==
  ASSUME NEW T, IsHistogram(T), NEW B, CrossesAt(T, B)
  PROVE  /\ T[B] \in Nat /\ T[Latency!Inf] \in Nat /\ Lower(T, B - 1) \in Nat
         /\ T[B] - Lower(T, B - 1) \in Nat
         /\ Num * T[Latency!Inf] - Den * Lower(T, B - 1) \in Nat
         /\ Num * T[Latency!Inf] - Den * Lower(T, B - 1) <= Den * (T[B] - Lower(T, B - 1))
  <1>1. B \in 1 .. Latency!Inf /\ Latency!Inf \in 1 .. Latency!Inf
    BY QuantileFacts DEF CrossesAt
  <1>2. T[B] \in Nat /\ T[Latency!Inf] \in Nat
    BY <1>1, QuantileFacts DEF IsHistogram
  <1>3. Num * T[Latency!Inf] \in Nat /\ Den * T[B] \in Nat
    BY <1>2, QuantileFacts, Products
  <1>4. Den * T[B] >= Num * T[Latency!Inf]
    BY DEF CrossesAt
  <1>5. /\ Lower(T, B - 1) \in Nat /\ Lower(T, B - 1) <= T[B]
        /\ Den * Lower(T, B - 1) <= Num * T[Latency!Inf]
    <2>1. CASE B = 1
      <3>1. Lower(T, B - 1) = 0
        BY <2>1 DEF Lower
      <3> QED BY <1>2, <1>3, <3>1, QuantileFacts
    <2>2. CASE B # 1
      <3>1. B - 1 \in 1 .. Latency!Inf /\ B - 1 \in 1 .. B - 1 /\ B - 1 # 0 /\ B - 1 <= B
        BY <1>1, <2>2, QuantileFacts
      <3>2. Lower(T, B - 1) = T[B - 1]
        BY <3>1 DEF Lower
      <3>3. T[B - 1] \in Nat /\ T[B - 1] <= T[B]
        BY <1>1, <3>1, QuantileFacts DEF IsHistogram
      <3>4. Den * T[B - 1] < Num * T[Latency!Inf]
        BY <3>1 DEF CrossesAt
      <3>5. Den * T[B - 1] \in Nat
        BY <3>3, QuantileFacts, Products
      <3> QED BY <1>3, <3>2, <3>3, <3>4, <3>5
    <2> QED BY <2>1, <2>2
  <1>6. Den * (T[B] - Lower(T, B - 1)) = Den * T[B] - Den * Lower(T, B - 1)
    BY <1>2, <1>5, QuantileFacts
  <1>7. Den * Lower(T, B - 1) \in Nat
    BY <1>5, QuantileFacts, Products
  <1> QED BY <1>2, <1>3, <1>4, <1>5, <1>6, <1>7

\* The quantile lies between the bounds of its bucket.
LEMMA Inside ==
  ASSUME NEW T, IsHistogram(T), NEW B, CrossesAt(T, B), NEW p, NEW d, IsQuantile(T, B, p, d)
  PROVE  /\ p \in Nat /\ d \in Nat /\ d > 0
         /\ Latency!Bound(B - 1) \in Nat /\ Latency!Bound(B - 1) * d <= p
         /\ B # Latency!Inf => Latency!Bound(B) \in Nat /\ p <= Latency!Bound(B) * d
  <1> DEFINE u == T[B] - Lower(T, B - 1)
             k == Num * T[Latency!Inf] - Den * Lower(T, B - 1)
             lo == Latency!Bound(B - 1)
             hi == Latency!Bound(B)
  <1>1. B \in 1 .. Latency!Inf /\ B - 1 \in 0 .. Latency!Inf - 1
    BY QuantileFacts DEF CrossesAt
  <1>2. lo \in Nat
    BY <1>1, BoundsGoUp
  <1>3. B # Latency!Inf => hi \in Nat /\ lo < hi
    <2> SUFFICES ASSUME B # Latency!Inf PROVE hi \in Nat /\ lo < hi
      OBVIOUS
    <2>1. B \in 0 .. Latency!Inf - 1 /\ B - 1 < B
      BY <1>1, QuantileFacts
    <2> QED BY <1>1, <2>1, BoundsGoUp
  <1>4. u \in Nat /\ k \in Nat /\ k <= Den * u
    BY Parts
  <1>5. \/ p = lo /\ d = 1
        \/ B # Latency!Inf /\ u # 0 /\ p = lo * Den * u + (hi - lo) * k /\ d = Den * u
    BY DEF IsQuantile
  <1> HIDE DEF u, k, lo, hi
  <1>6. CASE p = lo /\ d = 1
    BY <1>2, <1>3, <1>6 DEF lo, hi
  <1>7. CASE B # Latency!Inf /\ u # 0 /\ p = lo * Den * u + (hi - lo) * k /\ d = Den * u
    <2>1. d \in Nat /\ d > 0
      BY <1>4, <1>7, QuantileFacts, Products
    <2>2. lo * Den * u = lo * d
      BY <1>2, <1>4, <1>7, QuantileFacts
    <2>3. hi \in Nat /\ lo < hi /\ k <= d
      BY <1>3, <1>4, <1>7
    <2>4. lo * d <= lo * d + (hi - lo) * k /\ lo * d + (hi - lo) * k <= hi * d
      BY <1>2, <1>4, <2>1, <2>3, Interpolation
    <2>5. p = lo * d + (hi - lo) * k
      BY <1>7, <2>2
    <2>6. (hi - lo) * k \in Nat /\ lo * d \in Nat
      BY <1>2, <1>4, <2>1, <2>3, Products, hi - lo \in Nat
    <2> QED BY <1>2, <2>1, <2>3, <2>4, <2>5, <2>6 DEF lo, hi
  <1> QED BY <1>5, <1>6, <1>7

\* Fractions on both sides of a number.
LEMMA Across ==
  ASSUME NEW p \in Nat, NEW d \in Nat, NEW q \in Nat, NEW e \in Nat, NEW x \in Nat, NEW y \in Nat,
         p <= x * d, x <= y, y * e <= q
  PROVE  p * e <= q * d
  <1>1. p * e <= (x * d) * e
    BY Products, x * d - p \in Nat, (x * d - p) * e = (x * d) * e - p * e
  <1>2. (y * e) * d <= q * d
    BY Products, q - y * e \in Nat, (q - y * e) * d = q * d - (y * e) * d
  <1>3. (x * d) * e <= (y * e) * d
    <2>1. (y * e) * d - (x * d) * e = (y - x) * (e * d)
      OBVIOUS
    <2>2. (y - x) * (e * d) \in Nat
      BY Products, y - x \in Nat, e * d \in Nat
    <2> QED BY <2>1, <2>2
  <1>4. p * e \in Nat /\ (x * d) * e \in Nat /\ (y * e) * d \in Nat /\ q * d \in Nat
    BY Products, x * d \in Nat, y * e \in Nat
  <1> QED BY <1>1, <1>2, <1>3, <1>4

\* The quantile in a later bucket is not less.
LEMMA LaterBucket ==
  ASSUME NEW T, IsHistogram(T), NEW B, CrossesAt(T, B), NEW p, NEW d, IsQuantile(T, B, p, d),
         NEW U, IsHistogram(U), NEW C, CrossesAt(U, C), NEW q, NEW e, IsQuantile(U, C, q, e),
         B < C
  PROVE  p * e <= q * d
  <1>1. B \in 1 .. Latency!Inf /\ C \in 1 .. Latency!Inf /\ Latency!Inf \in Nat
    BY QuantileFacts DEF CrossesAt
  <1>2. B # Latency!Inf /\ B \in 0 .. Latency!Inf - 1 /\ C - 1 \in 0 .. Latency!Inf - 1 /\ B <= C - 1
    BY <1>1
  <1>3. p \in Nat /\ d \in Nat /\ Latency!Bound(B) \in Nat /\ p <= Latency!Bound(B) * d
    BY <1>2, Inside
  <1>4. q \in Nat /\ e \in Nat /\ Latency!Bound(C - 1) \in Nat /\ Latency!Bound(C - 1) * e <= q
    BY Inside
  <1>5. Latency!Bound(B) <= Latency!Bound(C - 1)
    <2>1. CASE B = C - 1
      BY <1>3, <2>1
    <2>2. CASE B # C - 1
      <3>1. B < C - 1
        BY <1>1, <1>2, <2>2
      <3> QED BY <1>2, <1>3, <1>4, <3>1, BoundsGoUp
    <2> QED BY <2>1, <2>2
  <1> QED BY <1>3, <1>4, <1>5, Across

\* Some bucket is the one in which the quantile is reached.
LEMMA SomeCrosses ==
  ASSUME NEW T, IsHistogram(T)
  PROVE  \E B : CrossesAt(T, B)
  <1> DEFINE S == {b \in Latency!Buckets : Den * T[b] >= Num * T[Latency!Inf]}
  <1>1. Latency!Inf \in Latency!Buckets /\ T[Latency!Inf] \in Nat
    BY QuantileFacts DEF IsHistogram
  <1>2. Den * T[Latency!Inf] >= Num * T[Latency!Inf]
    <2>1. (Den - Num) * T[Latency!Inf] \in Nat
      BY <1>1, QuantileFacts, Products, Den - Num \in Nat
    <2>2. (Den - Num) * T[Latency!Inf] = Den * T[Latency!Inf] - Num * T[Latency!Inf]
      BY <1>1, QuantileFacts
    <2>3. Den * T[Latency!Inf] \in Nat /\ Num * T[Latency!Inf] \in Nat
      BY <1>1, QuantileFacts, Products
    <2> QED BY <2>1, <2>2, <2>3
  <1>3. Latency!Inf \in S /\ S \subseteq Nat
    BY <1>1, <1>2, QuantileFacts
  <1>4. PICK B \in S : \A n \in S : B <= n
    BY <1>3, Least
  <1>5. ASSUME NEW c \in 1 .. B - 1 PROVE Den * T[c] < Num * T[Latency!Inf]
    <2>1. B \in 1 .. Latency!Inf
      BY QuantileFacts
    <2>2. c \in Latency!Buckets /\ ~(B <= c)
      BY <2>1, QuantileFacts
    <2>3. c \notin S
      BY <1>4, <2>2
    <2>4. T[c] \in Nat
      BY <2>2 DEF IsHistogram
    <2>5. ~(Den * T[c] >= Num * T[Latency!Inf])
      BY <2>2, <2>3
    <2>6. Den * T[c] \in Nat /\ Num * T[Latency!Inf] \in Nat
      BY <1>1, <2>4, QuantileFacts, Products
    <2> QED BY <2>5, <2>6
  <1> QED BY <1>4, <1>5 DEF CrossesAt

\* The numerators of two quantiles of the same bucket, of which one lies further in it.
LEMMA SameBucket ==
  ASSUME NEW T, IsHistogram(T), NEW U, IsHistogram(U), NEW B, CrossesAt(T, B), CrossesAt(U, B),
         NEW p, NEW d, IsQuantile(T, B, p, d), NEW q, NEW e, IsQuantile(U, B, q, e),
         B # Latency!Inf => /\ T[B] - Lower(T, B - 1) = U[B] - Lower(U, B - 1)
                            /\ Num * T[Latency!Inf] - Den * Lower(T, B - 1)
                                 <= Num * U[Latency!Inf] - Den * Lower(U, B - 1)
  PROVE  p * e <= q * d
  <1> DEFINE u == T[B] - Lower(T, B - 1)
             j == Num * T[Latency!Inf] - Den * Lower(T, B - 1)
             k == Num * U[Latency!Inf] - Den * Lower(U, B - 1)
             lo == Latency!Bound(B - 1)
             hi == Latency!Bound(B)
  <1>1. B \in 1 .. Latency!Inf /\ B - 1 \in 0 .. Latency!Inf - 1 /\ Latency!Inf \in Nat
    BY QuantileFacts DEF CrossesAt
  <1>2. p \in Nat /\ d \in Nat /\ q \in Nat /\ e \in Nat /\ lo \in Nat
    <2>1. p \in Nat /\ d \in Nat /\ lo \in Nat
      BY Inside
    <2>2. q \in Nat /\ e \in Nat
      BY Inside
    <2> QED BY <2>1, <2>2
  <1>3. CASE B = Latency!Inf
    <2>1. p = lo /\ d = 1 /\ q = lo /\ e = 1
      BY <1>3 DEF IsQuantile
    <2> QED BY <1>2, <2>1
  <1>4. CASE B # Latency!Inf
    <2>1. u = U[B] - Lower(U, B - 1) /\ j <= k
      BY <1>4
    <2>2. CASE u = 0
      <3>1. p = lo /\ d = 1 /\ q = lo /\ e = 1
        BY <1>4, <2>1, <2>2 DEF IsQuantile
      <3> QED BY <1>2, <3>1
    <2>3. CASE u # 0
      <3>1. p = lo * Den * u + (hi - lo) * j /\ d = Den * u
        BY <1>4, <2>3 DEF IsQuantile
      <3>2. q = lo * Den * u + (hi - lo) * k /\ e = Den * u
        BY <1>4, <2>1, <2>3 DEF IsQuantile
      <3>3. j \in Nat /\ k \in Nat /\ u \in Nat
        BY Parts
      <3>4. hi \in Nat /\ lo < hi
        <4>1. B \in 0 .. Latency!Inf - 1 /\ B - 1 < B
          BY <1>1, <1>4
        <4> QED BY <1>1, <4>1, BoundsGoUp
      <3> HIDE DEF u, j, k, lo, hi
      <3>5. (hi - lo) * k - (hi - lo) * j = (hi - lo) * (k - j)
        BY <1>2, <3>3, <3>4
      <3>6. (hi - lo) * (k - j) \in Nat /\ (hi - lo) * k \in Nat /\ (hi - lo) * j \in Nat
        BY <1>2, <2>1, <3>3, <3>4, Products, hi - lo \in Nat, k - j \in Nat
      <3>7. lo * Den * u \in Nat
        BY <1>2, <3>3, QuantileFacts, Products
      <3>8. p <= q
        BY <3>1, <3>2, <3>5, <3>6, <3>7
      <3>9. (q - p) * d \in Nat /\ (q - p) * d = q * d - p * d /\ e = d
        BY <1>2, <3>1, <3>2, <3>8, Products, q - p \in Nat
      <3>10. q * d \in Nat /\ p * d \in Nat
        BY <1>2, Products
      <3> QED BY <3>9, <3>10
    <2> QED BY <2>2, <2>3
  <1> QED BY <1>3, <1>4

\* One observation more, in bucket b.
LEMMA OneMore ==
  ASSUME NEW T, IsHistogram(T), NEW U, IsHistogram(U), NEW b \in Latency!Buckets,
         \A c \in Latency!Buckets : U[c] = T[c] + (IF b <= c THEN 1 ELSE 0),
         NEW B, CrossesAt(T, B), NEW C, CrossesAt(U, C),
         NEW p, NEW d, IsQuantile(T, B, p, d), NEW q, NEW e, IsQuantile(U, C, q, e)
  PROVE  /\ b > B => p * e <= q * d
         /\ b < B => q * d <= p * e
  <1>1. /\ B \in 1 .. Latency!Inf /\ C \in 1 .. Latency!Inf /\ b \in 1 .. Latency!Inf
        /\ Latency!Inf \in Nat /\ Latency!Inf \in 1 .. Latency!Inf
        /\ Latency!Buckets = 1 .. Latency!Inf
    BY QuantileFacts DEF CrossesAt
  <1>2. \A c \in 1 .. Latency!Inf : T[c] \in Nat /\ U[c] \in Nat
    BY <1>1 DEF IsHistogram
  <1>3. U[Latency!Inf] = T[Latency!Inf] + 1
    BY <1>1
  <1>4. Num * U[Latency!Inf] = Num * T[Latency!Inf] + Num /\ Num * T[Latency!Inf] \in Nat
    <2>1. T[Latency!Inf] \in Nat /\ Num \in Nat
      BY <1>1, <1>2, QuantileFacts
    <2>2. Num * (T[Latency!Inf] + 1) = Num * T[Latency!Inf] + Num /\ Num * T[Latency!Inf] \in Nat
      BY <2>1, Products
    <2> QED BY <1>3, <2>2
  <1>5. \A c \in 1 .. Latency!Inf : b > c => U[c] = T[c]
    BY <1>1, <1>2
  <1>6. \A c \in 1 .. Latency!Inf : b <= c => U[c] = T[c] + 1
    BY <1>1
  <1>7. ASSUME b > B PROVE p * e <= q * d
    <2>1. ~(C < B)
      <3> SUFFICES ASSUME C < B PROVE FALSE
        OBVIOUS
      <3>1. C \in 1 .. B - 1 /\ b > C
        BY <1>1, <1>7
      <3>2. Den * T[C] < Num * T[Latency!Inf] /\ U[C] = T[C] /\ Den * U[C] >= Num * U[Latency!Inf]
        BY <1>1, <1>5, <3>1 DEF CrossesAt
      <3>3. Den * T[C] \in Nat
        BY <1>1, <1>2, QuantileFacts, Products
      <3> QED BY <1>4, <3>2, <3>3, QuantileFacts
    <2>2. CASE B < C
      BY <2>2, LaterBucket
    <2>3. CASE B = C
      <3>1. Lower(U, B - 1) = Lower(T, B - 1) /\ U[B] = T[B]
        <4>1. U[B] = T[B]
          BY <1>1, <1>5, <1>7
        <4>2. CASE B = 1
          BY <4>1, <4>2 DEF Lower
        <4>3. CASE B # 1
          <5>1. B - 1 \in 1 .. Latency!Inf /\ b > B - 1
            BY <1>1, <1>7, <4>3
          <5> QED BY <1>5, <4>1, <5>1 DEF Lower
        <4> QED BY <4>2, <4>3
      <3>2. Lower(T, B - 1) \in Nat /\ Den * Lower(T, B - 1) \in Nat
        BY Parts, Products, QuantileFacts
      <3>3. Num * T[Latency!Inf] - Den * Lower(T, B - 1) <= Num * U[Latency!Inf] - Den * Lower(U, B - 1)
        BY <1>4, <3>1, <3>2, QuantileFacts
      <3> QED BY <2>3, <3>1, <3>3, SameBucket
    <2> QED BY <1>1, <2>1, <2>2, <2>3
  <1>8. ASSUME b < B PROVE q * d <= p * e
    <2>1. ~(B < C)
      <3> SUFFICES ASSUME B < C PROVE FALSE
        OBVIOUS
      <3>1. B \in 1 .. C - 1 /\ U[B] = T[B] + 1
        BY <1>1, <1>6, <1>8
      <3>2. Den * T[B] >= Num * T[Latency!Inf] /\ Den * U[B] < Num * U[Latency!Inf]
        BY <3>1 DEF CrossesAt
      <3>3. Den * T[B] \in Nat /\ Den * U[B] = Den * T[B] + Den
        <4>1. T[B] \in Nat /\ Den \in Nat
          BY <1>1, <1>2, QuantileFacts
        <4>2. Den * (T[B] + 1) = Den * T[B] + Den /\ Den * T[B] \in Nat
          BY <4>1, Products
        <4> QED BY <3>1, <4>2
      <3> QED BY <1>4, <3>2, <3>3, QuantileFacts
    <2>2. CASE C < B
      BY <2>2, LaterBucket
    <2>3. CASE B = C
      <3>1. Lower(U, B - 1) = Lower(T, B - 1) + 1 /\ U[B] = T[B] + 1
        <4>1. B - 1 \in 1 .. Latency!Inf /\ b <= B - 1 /\ B - 1 # 0
          BY <1>1, <1>8
        <4>2. U[B - 1] = T[B - 1] + 1 /\ U[B] = T[B] + 1
          BY <1>1, <1>6, <1>8, <4>1
        <4> QED BY <4>1, <4>2 DEF Lower
      <3>2. /\ Lower(T, B - 1) \in Nat /\ Den * Lower(T, B - 1) \in Nat
            /\ Den * Lower(U, B - 1) = Den * Lower(T, B - 1) + Den
        <4>1. Lower(T, B - 1) \in Nat /\ Den \in Nat
          BY Parts, QuantileFacts
        <4>2. /\ Den * (Lower(T, B - 1) + 1) = Den * Lower(T, B - 1) + Den
              /\ Den * Lower(T, B - 1) \in Nat
          BY <4>1, Products
        <4> QED BY <3>1, <4>1, <4>2
      <3>3. Num * U[Latency!Inf] - Den * Lower(U, B - 1) <= Num * T[Latency!Inf] - Den * Lower(T, B - 1)
        BY <1>4, <3>1, <3>2, QuantileFacts
      <3>4. U[B] - Lower(U, B - 1) = T[B] - Lower(T, B - 1)
        BY <1>1, <1>2, <3>1, <3>2
      <3> QED BY <2>3, <3>3, <3>4, SameBucket
    <2> QED BY <1>1, <2>1, <2>2, <2>3
  <1> QED BY <1>7, <1>8

\* The label sets are collected once each.
LEMMA LabelsCollected ==
  /\ Cardinality(Labels) \in Nat
  /\ Latency!LabelSeq \in [1 .. Cardinality(Labels) -> Labels]
  /\ \A l \in Labels : \E i \in 1 .. Cardinality(Labels) : Latency!LabelSeq[i] = l
  /\ \A i, j \in 1 .. Cardinality(Labels) : Latency!LabelSeq[i] = Latency!LabelSeq[j] => i = j
  <1> DEFINE N == Cardinality(Labels)
             S == Latency!LabelSeq
  <1>1. N \in Nat /\ ExistsBijection(1 .. N, Labels)
    BY QuantileFacts, FS_CardinalityType
  <1>2. \E f \in [1 .. N -> Labels] : \A a, b \in DOMAIN f : f[a] = f[b] => a = b
    <2>1. PICK f : f \in Bijection(1 .. N, Labels)
      BY <1>1 DEF ExistsBijection
    <2>2. f \in [1 .. N -> Labels] /\ \A a, b \in 1 .. N : f[a] = f[b] => a = b
      BY <2>1 DEF Bijection, Injection, IsInjective
    <2>3. DOMAIN f = 1 .. N
      BY <2>2
    <2> QED BY <2>2, <2>3
  <1>3. S = CHOOSE f \in [1 .. N -> Labels] : \A a, b \in DOMAIN f : f[a] = f[b] => a = b
    <2>1. S = CHOOSE f \in [1 .. Latency!Cardinality(Labels) -> Labels] :
                \A a, b \in DOMAIN f : f[a] = f[b] => a = b
      BY DEF Latency!LabelSeq, Latency!SetToSeq, Latency!IsInjective
    <2>2. Latency!Cardinality(Labels) = N
      BY SameSets
    <2> QED BY <2>1, <2>2
  <1> HIDE DEF S
  <1>4. S \in [1 .. N -> Labels] /\ \A a, b \in DOMAIN S : S[a] = S[b] => a = b
    BY <1>2, <1>3
  <1>5. DOMAIN S = 1 .. N
    BY <1>4
  <1>6. S \in Injection(1 .. N, Labels)
    BY <1>4 DEF Injection, IsInjective
  <1>7. Cardinality(1 .. N) = N
    BY <1>1, FS_Interval
  <1>8. S \in Surjection(1 .. N, Labels)
    BY <1>6, <1>7, QuantileFacts, FS_Injection
  <1>9. \A l \in Labels : \E i \in 1 .. N : S[i] = l
    BY <1>8 DEF Surjection
  <1> HIDE DEF N
  <1>10. \A i, j \in 1 .. N : S[i] = S[j] => i = j
    BY <1>4, <1>5
  <1> QED BY <1>1, <1>4, <1>9, <1>10 DEF S, N

\* The sums of a histogram c: of one label set, and of all.
CumulativeOf(h, b) ==
  LET sum[c \in 0 .. Latency!Inf] == IF c = 0 THEN 0 ELSE sum[c - 1] + h[c] IN sum[b]
TotalOf(c, b) ==
  LET sum[i \in 0 .. Latency!Cardinality(Labels)] ==
        IF i = 0 THEN 0 ELSE sum[i - 1] + CumulativeOf(c[Latency!LabelSeq[i]], b)
  IN  sum[Latency!Cardinality(Labels)]

LEMMA TotalIsOf ==
  /\ \A b : Latency!BucketTotal(b) = TotalOf(count, b)
  /\ \A b : Latency!BucketTotal(b)' = TotalOf(count', b)
  <1>1. \A l, b : Latency!Cumulative(l, b) = CumulativeOf(count[l], b)
    BY DEF Latency!Cumulative, CumulativeOf
  <1>2. \A l, b : Latency!Cumulative(l, b)' = CumulativeOf(count'[l], b)
    BY DEF Latency!Cumulative, CumulativeOf
  <1>3. \A b : Latency!BucketTotal(b) = TotalOf(count, b)
    BY <1>1, Zenon DEF Latency!BucketTotal, TotalOf
  <1>4. \A b : Latency!BucketTotal(b)' = TotalOf(count', b)
    BY <1>2, Zenon DEF Latency!BucketTotal, TotalOf
  <1> QED BY <1>3, <1>4

Counts == [Labels -> [Latency!Buckets -> Nat]]

LEMMA CumulativeSums ==
  ASSUME NEW h \in [Latency!Buckets -> Nat]
  PROVE  \E f : Sums(f, h, Latency!Inf) /\ \A b : CumulativeOf(h, b) = f[b]
  <1> DEFINE n == Latency!Inf
             g == CHOOSE g : g = [k \in 0 .. n |-> IF k = 0 THEN 0 ELSE g[k - 1] + h[k]]
  <1>1. n \in Nat /\ Latency!Buckets = 1 .. n
    BY QuantileFacts
  <1>2. h \in Seq(Int) /\ Len(h) = n
    <2>1. h \in [1 .. n -> Int]
      BY <1>1
    <2> HIDE DEF n
    <2> QED BY <1>1, <2>1
  <1>3. PICK f : Sums(f, h, n)
    BY <1>2, SumsExist
  <1>4. f = [k \in 0 .. n |-> IF k = 0 THEN 0 ELSE f[k - 1] + h[k]]
    BY <1>1, <1>3 DEF Sums
  <1>5. g = [k \in 0 .. n |-> IF k = 0 THEN 0 ELSE g[k - 1] + h[k]]
    BY <1>4
  <1>6. \A b : CumulativeOf(h, b) = g[b]
    BY DEF CumulativeOf
  <1> HIDE DEF g, n
  <1>7. g = f
    <2>1. n \in Nat /\ Sums(f, h, n)
      BY <1>1, <1>3
    <2>2. g = [k \in 0 .. n |-> IF k = 0 THEN 0 ELSE g[k - 1] + h[k]]
      BY <1>5
    <2> QED BY <2>1, <2>2, SumsSolution
  <1> QED BY <1>3, <1>6, <1>7 DEF n

\* What the label sets add to the total of b.
Shares(c, b) == [i \in 1 .. Cardinality(Labels) |-> CumulativeOf(c[Latency!LabelSeq[i]], b)]

LEMMA SharesAreNat ==
  ASSUME NEW c \in Counts, NEW b \in Latency!Buckets, NEW i \in 1 .. Cardinality(Labels)
  PROVE  Shares(c, b)[i] \in Nat /\ Shares(c, b)[i] = CumulativeOf(c[Latency!LabelSeq[i]], b)
  <1>1. Latency!LabelSeq[i] \in Labels
    BY LabelsCollected
  <1>2. c[Latency!LabelSeq[i]] \in [Latency!Buckets -> Nat]
    BY <1>1 DEF Counts
  <1>3. PICK f : /\ Sums(f, c[Latency!LabelSeq[i]], Latency!Inf)
                 /\ \A x : CumulativeOf(c[Latency!LabelSeq[i]], x) = f[x]
    BY <1>2, CumulativeSums
  <1>4. \A k \in 1 .. Latency!Inf : c[Latency!LabelSeq[i]][k] \in Nat
    BY <1>2, QuantileFacts
  <1>5. b \in 0 .. Latency!Inf /\ Latency!Inf \in Nat
    BY QuantileFacts
  <1>6. f[b] \in Nat
    BY <1>3, <1>4, <1>5, SumsGoUp
  <1> QED BY <1>3, <1>6 DEF Shares

LEMMA TotalSums ==
  ASSUME NEW c \in Counts, NEW b \in Latency!Buckets
  PROVE  \E f : /\ Sums(f, Shares(c, b), Cardinality(Labels))
                /\ TotalOf(c, b) = f[Cardinality(Labels)]
  <1> DEFINE n == Cardinality(Labels)
             x == Shares(c, b)
             g == CHOOSE g : g = [i \in 0 .. n |-> IF i = 0 THEN 0 ELSE g[i - 1] + CumulativeOf(c[Latency!LabelSeq[i]], b)]
  <1>1. n \in Nat
    BY LabelsCollected
  <1>2. x \in Seq(Int) /\ Len(x) = n
    <2>1. \A i \in 1 .. n : x[i] \in Int
      BY SharesAreNat
    <2>2. x = [i \in 1 .. n |-> x[i]]
      BY DEF Shares
    <2> HIDE DEF x, n
    <2> QED BY <1>1, <2>1, <2>2
  <1>3. PICK f : Sums(f, x, n)
    BY <1>2, SumsExist
  <1>4. \A i \in 1 .. n : x[i] = CumulativeOf(c[Latency!LabelSeq[i]], b)
    BY SharesAreNat
  <1>5. f = [i \in 0 .. n |-> IF i = 0 THEN 0 ELSE f[i - 1] + CumulativeOf(c[Latency!LabelSeq[i]], b)]
    <2> HIDE DEF x, n
    <2>1. f = [i \in 0 .. n |-> f[i]] /\ f[0] = 0 /\ \A i \in 1 .. n : f[i] = f[i - 1] + x[i]
      BY <1>3 DEF Sums
    <2>2. ASSUME NEW i \in 0 .. n
          PROVE  f[i] = IF i = 0 THEN 0 ELSE f[i - 1] + CumulativeOf(c[Latency!LabelSeq[i]], b)
      <3>1. CASE i = 0
        BY <2>1, <3>1
      <3>2. CASE i # 0
        <4>1. i \in 1 .. n
          BY <1>1, <3>2
        <4> QED BY <1>4, <2>1, <3>2, <4>1
      <3> QED BY <3>1, <3>2
    <2> QED BY <2>1, <2>2
  <1>6. g = [i \in 0 .. n |-> IF i = 0 THEN 0 ELSE g[i - 1] + CumulativeOf(c[Latency!LabelSeq[i]], b)]
    BY <1>5
  <1>7. TotalOf(c, b) = g[n]
    <2>1. Latency!Cardinality(Labels) = Cardinality(Labels)
      BY SameSets
    <2> QED BY <2>1 DEF TotalOf
  <1> HIDE DEF g, x, n
  <1>8. g = [i \in 0 .. n |-> IF i = 0 THEN 0 ELSE g[i - 1] + x[i]]
    <2>1. ASSUME NEW i \in 0 .. n
          PROVE  (IF i = 0 THEN 0 ELSE g[i - 1] + CumulativeOf(c[Latency!LabelSeq[i]], b))
                   = (IF i = 0 THEN 0 ELSE g[i - 1] + x[i])
      <3>1. CASE i = 0
        BY <3>1
      <3>2. CASE i # 0
        <4>1. i \in 1 .. n
          BY <1>1, <3>2
        <4> QED BY <1>4, <3>2, <4>1
      <3> QED BY <3>1, <3>2
    <2> QED BY <1>6, <2>1
  <1>9. g = f
    BY <1>1, <1>3, <1>8, SumsSolution
  <1> QED BY <1>3, <1>7, <1>9 DEF n, x

\* More buckets, larger shares.
LEMMA SharesGoUp ==
  ASSUME NEW c \in Counts, NEW a \in Latency!Buckets, NEW b \in Latency!Buckets, a <= b,
         NEW i \in 1 .. Cardinality(Labels)
  PROVE  Shares(c, a)[i] <= Shares(c, b)[i]
  <1> DEFINE h == c[Latency!LabelSeq[i]]
  <1>1. h \in [Latency!Buckets -> Nat]
    BY LabelsCollected DEF Counts
  <1>2. PICK f : Sums(f, h, Latency!Inf) /\ \A x : CumulativeOf(h, x) = f[x]
    BY <1>1, CumulativeSums
  <1>3. \A k \in 1 .. Latency!Inf : h[k] \in Nat
    BY <1>1, QuantileFacts
  <1>4. Latency!Inf \in Nat /\ b \in 0 .. Latency!Inf /\ a \in 0 .. b
    BY QuantileFacts
  <1>5. f[a] <= f[b]
    BY <1>2, <1>3, <1>4, SumsGoUp
  <1>6. Shares(c, a)[i] = CumulativeOf(h, a) /\ Shares(c, b)[i] = CumulativeOf(h, b)
    BY SharesAreNat
  <1> HIDE DEF h
  <1> QED BY <1>2, <1>5, <1>6

\* e has one observation more than c, in bucket k of l.
IsOneMore(c, l, k, e) == e = [c EXCEPT ![l][k] = @ + 1]

LEMMA SharesOneMore ==
  ASSUME NEW c \in Counts, NEW l \in Labels, NEW k \in Latency!Buckets,
         NEW e \in Counts, IsOneMore(c, l, k, e),
         NEW b \in Latency!Buckets, NEW i \in 1 .. Cardinality(Labels)
  PROVE  /\ Latency!LabelSeq[i] = l /\ k <= b => Shares(e, b)[i] = Shares(c, b)[i] + 1
         /\ ~(Latency!LabelSeq[i] = l /\ k <= b) => Shares(e, b)[i] = Shares(c, b)[i]
  <1> DEFINE m == Latency!LabelSeq[i]
  <1>1. m \in Labels
    BY LabelsCollected
  <1>2. /\ Shares(e, b)[i] = CumulativeOf(e[m], b) /\ Shares(c, b)[i] = CumulativeOf(c[m], b)
        /\ Shares(c, b)[i] \in Nat
    BY SharesAreNat
  <1> HIDE DEF m
  <1>3. CASE m # l
    <2>1. e[m] = c[m]
      BY <1>1, <1>3 DEF Counts, IsOneMore
    <2> QED BY <1>2, <1>3, <2>1 DEF m
  <1>4. CASE m = l
    <2> DEFINE h == c[l]
               g == e[l]
    <2>1. /\ h \in [Latency!Buckets -> Nat] /\ g \in [Latency!Buckets -> Nat]
          /\ g = [h EXCEPT ![k] = @ + 1]
      BY DEF Counts, IsOneMore
    <2> HIDE DEF h, g
    <2>2. PICK f : Sums(f, h, Latency!Inf) /\ \A x : CumulativeOf(h, x) = f[x]
      BY <2>1, CumulativeSums
    <2>3. PICK q : Sums(q, g, Latency!Inf) /\ \A x : CumulativeOf(g, x) = q[x]
      BY <2>1, CumulativeSums
    <2>4. /\ Latency!Inf \in Nat /\ k \in 1 .. Latency!Inf /\ b \in 0 .. Latency!Inf
          /\ Latency!Buckets = 1 .. Latency!Inf
      BY QuantileFacts
    <2>5. /\ \A j \in 1 .. Latency!Inf : h[j] \in Int
          /\ g[k] = h[k] + 1
          /\ \A j \in 1 .. Latency!Inf : j # k => g[j] = h[j]
      BY <2>1, <2>4
    <2>6. \A j \in 0 .. Latency!Inf : q[j] = f[j] + (IF k <= j THEN 1 ELSE 0)
      <3>1. Sums(f, h, Latency!Inf) /\ Sums(q, g, Latency!Inf) /\ Latency!Inf \in Nat
        BY <2>2, <2>3, <2>4
      <3> QED BY <2>4, <2>5, <3>1, SumsOneMore, SMTT(30)
    <2>7. q[b] = f[b] + (IF k <= b THEN 1 ELSE 0)
      BY <2>4, <2>6
    <2>8. CumulativeOf(e[m], b) = q[b] /\ CumulativeOf(c[m], b) = f[b]
      BY <1>4, <2>2, <2>3 DEF h, g
    <2> QED BY <1>2, <1>4, <2>7, <2>8 DEF m
  <1> QED BY <1>3, <1>4

LEMMA TotalsAreHistogram ==
  ASSUME NEW c \in Counts
  PROVE  IsHistogram([b \in Latency!Buckets |-> TotalOf(c, b)])
  <1> DEFINE n == Cardinality(Labels)
  <1>1. n \in Nat /\ n \in 0 .. n
    BY LabelsCollected
  <1> HIDE DEF n
  <1>2. ASSUME NEW b \in Latency!Buckets PROVE TotalOf(c, b) \in Nat
    <2>1. PICK f : Sums(f, Shares(c, b), n) /\ TotalOf(c, b) = f[n]
      BY TotalSums DEF n
    <2>2. \A i \in 1 .. n : Shares(c, b)[i] \in Nat
      BY SharesAreNat DEF n
    <2>3. f[n] \in Nat
      BY <1>1, <2>1, <2>2, SumsGoUp
    <2> QED BY <2>1, <2>3
  <1>3. ASSUME NEW a \in Latency!Buckets, NEW b \in Latency!Buckets, a <= b
        PROVE  TotalOf(c, a) <= TotalOf(c, b)
    <2>1. PICK f : Sums(f, Shares(c, a), n) /\ TotalOf(c, a) = f[n]
      BY TotalSums DEF n
    <2>2. PICK g : Sums(g, Shares(c, b), n) /\ TotalOf(c, b) = g[n]
      BY TotalSums DEF n
    <2>3. \A i \in 1 .. n : /\ Shares(c, a)[i] \in Int /\ Shares(c, b)[i] \in Int
                            /\ Shares(c, a)[i] <= Shares(c, b)[i]
      BY <1>3, SharesAreNat, SharesGoUp DEF n
    <2>4. \A i \in 0 .. n : f[i] <= g[i]
      <3>1. Sums(f, Shares(c, a), n) /\ Sums(g, Shares(c, b), n) /\ n \in Nat
        BY <1>1, <2>1, <2>2
      <3> QED BY <2>3, <3>1, SumsBelow
    <2> QED BY <1>1, <2>1, <2>2, <2>4
  <1> QED BY <1>2, <1>3 DEF IsHistogram

LEMMA TotalOneMore ==
  ASSUME NEW c \in Counts, NEW l \in Labels, NEW k \in Latency!Buckets,
         NEW e \in Counts, IsOneMore(c, l, k, e), NEW b \in Latency!Buckets
  PROVE  TotalOf(e, b) = TotalOf(c, b) + (IF k <= b THEN 1 ELSE 0)
  <1> DEFINE n == Cardinality(Labels)
             x == Shares(c, b)
             y == Shares(e, b)
  <1>1. PICK f : Sums(f, x, n) /\ TotalOf(c, b) = f[n]
    BY TotalSums
  <1>2. PICK g : Sums(g, y, n) /\ TotalOf(e, b) = g[n]
    BY TotalSums
  <1>3. n \in Nat /\ n \in 0 .. n /\ f[n] \in Int /\ g[n] \in Int
    BY <1>1, <1>2, LabelsCollected DEF Sums
  <1>4. \A i \in 1 .. n : x[i] \in Int /\ y[i] \in Int
    BY SharesAreNat
  <1>5. \A i \in 1 .. n : /\ Latency!LabelSeq[i] = l /\ k <= b => y[i] = x[i] + 1
                          /\ ~(Latency!LabelSeq[i] = l /\ k <= b) => y[i] = x[i]
    BY SharesOneMore, ZenonT(60)
  <1>6. PICK j \in 1 .. n : Latency!LabelSeq[j] = l
    BY LabelsCollected
  <1>7. \A i \in 1 .. n : Latency!LabelSeq[i] = l => i = j
    BY <1>6, LabelsCollected
  <1> HIDE DEF n, x, y
  <1>8. CASE k <= b
    <2>1. y[j] = x[j] + 1 /\ \A i \in 1 .. n : i # j => y[i] = x[i]
      BY <1>4, <1>5, <1>6, <1>7, <1>8
    <2>2. Sums(f, x, n) /\ Sums(g, y, n) /\ n \in Nat /\ \A i \in 1 .. n : x[i] \in Int
      BY <1>1, <1>2, <1>3, <1>4
    <2>3. \A i \in 0 .. n : g[i] = f[i] + (IF j <= i THEN 1 ELSE 0)
      BY <2>1, <2>2, SumsOneMore
    <2>4. g[n] = f[n] + 1
      BY <1>3, <2>3
    <2> QED BY <1>1, <1>2, <1>8, <2>4
  <1>9. CASE ~(k <= b)
    <2>1. \A i \in 1 .. n : y[i] = x[i]
      BY <1>4, <1>5, <1>9
    <2>2. Sums(f, x, n) /\ Sums(g, y, n) /\ n \in Nat
      BY <1>1, <1>2, <1>3
    <2>3. \A i \in 1 .. n : x[i] \in Int /\ y[i] \in Int /\ x[i] <= y[i] /\ y[i] <= x[i]
      BY <1>4, <2>1
    <2>4. \A i \in 0 .. n : f[i] <= g[i]
      BY <2>2, <2>3, SumsBelow
    <2>5. \A i \in 0 .. n : g[i] <= f[i]
      BY <2>2, <2>3, SumsBelow
    <2>6. g[n] = f[n]
      BY <1>3, <2>4, <2>5
    <2> QED BY <1>1, <1>2, <1>3, <1>9, <2>6
  <1> QED BY <1>8, <1>9

CountInv == count \in Counts

LEMMA CountStep ==
  ASSUME CountInv, NEW l \in Labels, NEW k \in Latency!Buckets, Latency!Observe(l, k)
  PROVE  /\ CountInv' /\ count' \in Counts
         /\ count' = [count EXCEPT ![l][k] = @ + 1]
  <1>1. count' = [count EXCEPT ![l][k] = @ + 1]
    BY DEF Latency!Observe
  <1> DEFINE B == Latency!Buckets
  <1>2. count \in [Labels -> [B -> Nat]] /\ k \in B
    BY DEF CountInv, Counts
  <1> HIDE DEF B
  <1>3. count' \in [Labels -> [B -> Nat]]
    BY <1>1, <1>2
  <1>4. count' \in Counts
    BY <1>3 DEF Counts, B
  <1>5. CountInv'
    BY <1>4 DEF CountInv, Counts, Latency!Buckets, Latency!Inf
  <1> QED BY <1>1, <1>4, <1>5

\* What the buckets hold in this state.
Totals == [b \in Latency!Buckets |-> Latency!BucketTotal(b)]

\* What Crossed and Quantile are.
QuantileAgrees ==
  /\ IsHistogram(Totals)
  /\ CrossesAt(Totals, Latency!Crossed)
  /\ Latency!TotalCount # 0 =>
       IsQuantile(Totals, Latency!Crossed, Latency!Quantile[1], Latency!Quantile[2])

LEMMA CountAgrees == CountInv => QuantileAgrees
  <1> SUFFICES ASSUME CountInv PROVE QuantileAgrees
    OBVIOUS
  <1> DEFINE T == Totals
             B == Latency!Crossed
  <1>1. IsHistogram(T)
    <2>1. T = [b \in Latency!Buckets |-> TotalOf(count, b)]
      BY TotalIsOf DEF Totals
    <2> QED BY <2>1, TotalsAreHistogram DEF CountInv
  <1>2. /\ \A b \in Latency!Buckets : T[b] = Latency!BucketTotal(b)
        /\ Latency!Inf \in Latency!Buckets
        /\ Latency!TotalCount = T[Latency!Inf]
        /\ Latency!Buckets = 1 .. Latency!Inf /\ Latency!Inf \in Nat
    BY QuantileFacts DEF Totals, Latency!TotalCount
  <1> HIDE DEF T
  <1>3. B = CHOOSE b \in Latency!Buckets :
              /\ Den * Latency!BucketTotal(b) >= Num * Latency!TotalCount
              /\ \A c \in 1 .. b - 1 : Den * Latency!BucketTotal(c) < Num * Latency!TotalCount
    BY DEF Latency!Crossed
  <1> HIDE DEF B
  <1>4. \A b \in Latency!Buckets :
          CrossesAt(T, b) <=>
            /\ Den * Latency!BucketTotal(b) >= Num * Latency!TotalCount
            /\ \A c \in 1 .. b - 1 : Den * Latency!BucketTotal(c) < Num * Latency!TotalCount
    <2> TAKE b \in Latency!Buckets
    <2>1. \A c \in 1 .. b - 1 : T[c] = Latency!BucketTotal(c)
      BY <1>2
    <2> QED BY <1>2, <2>1 DEF CrossesAt
  <1>5. \E b \in Latency!Buckets : CrossesAt(T, b)
    BY <1>1, SomeCrosses DEF CrossesAt
  <1>6. CrossesAt(T, B)
    <2>1. PICK b \in Latency!Buckets :
            /\ Den * Latency!BucketTotal(b) >= Num * Latency!TotalCount
            /\ \A c \in 1 .. b - 1 : Den * Latency!BucketTotal(c) < Num * Latency!TotalCount
      BY <1>4, <1>5
    <2>2. /\ B \in Latency!Buckets
          /\ Den * Latency!BucketTotal(B) >= Num * Latency!TotalCount
          /\ \A c \in 1 .. B - 1 : Den * Latency!BucketTotal(c) < Num * Latency!TotalCount
      BY <1>3, <2>1, Zenon
    <2> QED BY <1>4, <2>2
  <1>7. B \in 1 .. Latency!Inf
    BY <1>2, <1>6 DEF CrossesAt
  <1>8. Lower(T, B - 1) = Latency!Below(B - 1) /\ T[B] = Latency!BucketTotal(B)
    <2>1. CASE B = 1
      BY <1>2, <1>7, <2>1 DEF Lower, Latency!Below
    <2>2. CASE B # 1
      <3>1. B - 1 \in Latency!Buckets /\ B - 1 # 0
        BY <1>2, <1>7, <2>2
      <3> QED BY <1>2, <1>7, <3>1 DEF Lower, Latency!Below
    <2> QED BY <2>1, <2>2
  <1>9. ASSUME Latency!TotalCount # 0
        PROVE  IsQuantile(T, B, Latency!Quantile[1], Latency!Quantile[2])
    <2>1. CASE B = Latency!Inf
      <3>1. Latency!Quantile = <<Latency!Bound(B - 1), 1>>
        BY <1>9, <2>1, Zenon DEF Latency!Quantile, B
      <3> QED BY <2>1, <3>1 DEF IsQuantile
    <2>2. CASE B # Latency!Inf
      <3>1. Latency!Quantile = Latency!Interpolated(B)
        BY <1>9, <2>2, Zenon DEF Latency!Quantile, B
      <3>2. CASE T[B] - Lower(T, B - 1) = 0
        <4>1. Latency!Quantile = <<Latency!Bound(B - 1), 1>>
          BY <1>8, <3>1, <3>2 DEF Latency!Interpolated
        <4> QED BY <2>2, <3>2, <4>1 DEF IsQuantile
      <3>3. CASE T[B] - Lower(T, B - 1) # 0
        <4>1. Latency!Quantile =
                <<Latency!Bound(B - 1) * Den * (T[B] - Lower(T, B - 1))
                    + (Latency!Bound(B) - Latency!Bound(B - 1))
                        * (Num * T[Latency!Inf] - Den * Lower(T, B - 1)),
                  Den * (T[B] - Lower(T, B - 1))>>
          BY <1>2, <1>8, <3>1, <3>3 DEF Latency!Interpolated
        <4> QED BY <2>2, <3>3, <4>1 DEF IsQuantile
      <3> QED BY <3>2, <3>3
    <2> QED BY <2>1, <2>2
  <1> QED BY <1>1, <1>6, <1>9 DEF QuantileAgrees, T, B

LEMMA QuantileStep ==
  ASSUME CountInv, QuantileAgrees, QuantileAgrees', NEW l \in Labels, NEW k \in Latency!Buckets,
         Latency!Observe(l, k), Latency!TotalCount > 0
  PROVE  /\ k > Latency!Crossed => Latency!AtMost(Latency!Quantile, Latency!Quantile')
         /\ k < Latency!Crossed => Latency!AtMost(Latency!Quantile', Latency!Quantile)
  <1>1. count' = [count EXCEPT ![l][k] = @ + 1] /\ count \in Counts
    BY CountStep DEF CountInv
  <1>2. count' \in Counts
    BY CountStep
  <1> DEFINE T == Totals
             U == Totals'
  <1>3. \A b \in Latency!Buckets : T[b] = TotalOf(count, b) /\ U[b] = TotalOf(count', b)
    BY TotalIsOf DEF Totals
  <1>4. \A b \in Latency!Buckets : U[b] = T[b] + (IF k <= b THEN 1 ELSE 0)
    <2> TAKE b \in Latency!Buckets
    <2>1. TotalOf(count', b) = TotalOf(count, b) + (IF k <= b THEN 1 ELSE 0)
      <3>1. IsOneMore(count, l, k, count')
        BY <1>1 DEF IsOneMore
      <3> QED BY <1>1, <1>2, <3>1, TotalOneMore
    <2> QED BY <1>3, <2>1
  <1>5. Latency!Inf \in Latency!Buckets /\ k <= Latency!Inf
    BY QuantileFacts
  <1>6. Latency!TotalCount = T[Latency!Inf] /\ Latency!TotalCount' = U[Latency!Inf]
    BY <1>5 DEF Totals, Latency!TotalCount
  <1>7. IsHistogram(T) /\ IsHistogram(U) /\ CrossesAt(T, Latency!Crossed) /\ CrossesAt(U, Latency!Crossed')
    BY DEF QuantileAgrees
  <1> HIDE DEF T, U
  <1>8. T[Latency!Inf] \in Nat /\ Latency!TotalCount # 0 /\ Latency!TotalCount' # 0
    BY <1>4, <1>5, <1>6, <1>7 DEF IsHistogram
  <1>9. /\ IsQuantile(T, Latency!Crossed, Latency!Quantile[1], Latency!Quantile[2])
        /\ IsQuantile(U, Latency!Crossed', Latency!Quantile'[1], Latency!Quantile'[2])
    BY <1>8 DEF QuantileAgrees, T, U
  <1>10. /\ k > Latency!Crossed =>
              Latency!Quantile[1] * Latency!Quantile'[2] <= Latency!Quantile'[1] * Latency!Quantile[2]
         /\ k < Latency!Crossed =>
              Latency!Quantile'[1] * Latency!Quantile[2] <= Latency!Quantile[1] * Latency!Quantile'[2]
    BY <1>4, <1>7, <1>9, OneMore
  <1> QED BY <1>10 DEF Latency!AtMost

\* _histogram_quantile() of src/api/network_analytics.py: for any quantile, any buckets and any
\* number of label sets, a request slower than those of the quantile's bucket never lowers the
\* quantile and a faster one never raises it.
THEOREM QuantileCorrect == EachLevel => QuantileFollows
  <1> DEFINE Step == \/ level = "task" /\ Next /\ UNCHANGED <<level, seriesVars, count>>
                     \/ level = "series" /\ Series!Next /\ UNCHANGED <<level, vars, count>>
                     \/ level = "quantile" /\ Latency!Next /\ UNCHANGED <<level, vars, seriesVars>>
             allVars == <<level, vars, seriesVars, count>>
             Follows == Latency!TotalCount > 0 =>
               \A l \in Labels, b \in Latency!Buckets : count'[l][b] > count[l][b] =>
                 /\ b > Latency!Crossed => Latency!AtMost(Latency!Quantile, Latency!Quantile')
                 /\ b < Latency!Crossed => Latency!AtMost(Latency!Quantile', Latency!Quantile)
  <1>1. LevelInit => CountInv
    BY DEF LevelInit, Latency!Init, CountInv, Counts
  <1>2. CountInv /\ [Step]_allVars => CountInv'
    <2> SUFFICES ASSUME CountInv, [Step]_allVars PROVE CountInv'
      OBVIOUS
    <2>1. CASE Latency!Next
      <3>1. PICK l \in Labels, b \in Latency!Buckets : Latency!Observe(l, b)
        BY <2>1 DEF Latency!Next
      <3> QED BY <3>1, CountStep
    <2>2. CASE UNCHANGED count
      BY <2>2 DEF CountInv
    <2> QED BY <2>1, <2>2
  <1>3. QuantileAgrees /\ QuantileAgrees' /\ CountInv /\ [Step]_allVars => [Follows]_count
    <2> SUFFICES ASSUME QuantileAgrees, QuantileAgrees', CountInv, [Step]_allVars, count' # count,
                        Latency!TotalCount > 0,
                        NEW l \in Labels, NEW b \in Latency!Buckets, count'[l][b] > count[l][b]
                 PROVE  /\ b > Latency!Crossed => Latency!AtMost(Latency!Quantile, Latency!Quantile')
                        /\ b < Latency!Crossed => Latency!AtMost(Latency!Quantile', Latency!Quantile)
      OBVIOUS
    <2>1. PICK m \in Labels, k \in Latency!Buckets : Latency!Observe(m, k)
      BY DEF Latency!Next
    <2>2. count' = [count EXCEPT ![m][k] = @ + 1] /\ count \in Counts
      BY <2>1 DEF Latency!Observe, CountInv
    <2>3. count[l][b] \in Nat
      BY <2>2 DEF Counts
    <2>4. b = k
      BY <2>2, <2>3 DEF Counts
    <2> QED BY <2>1, <2>4, QuantileStep
  <1>4. CountInv => QuantileAgrees
    BY CountAgrees
  <1>5. EachLevel => [][Follows]_count
    BY <1>1, <1>2, <1>3, <1>4, PTL DEF EachLevel
  <1> QED BY <1>5 DEF QuantileFollows, Latency!QuantileFollows

\* The detector among the three levels is the one that Spec describes, so that
\* DisposeCorrect and WindowsCorrect hold of it.
LEMMA TaskImplemented == EachLevel => Spec
  <1> DEFINE Step == \/ level = "task" /\ Next /\ UNCHANGED <<level, seriesVars, count>>
                     \/ level = "series" /\ Series!Next /\ UNCHANGED <<level, vars, count>>
                     \/ level = "quantile" /\ Latency!Next /\ UNCHANGED <<level, vars, seriesVars>>
             allVars == <<level, vars, seriesVars, count>>
  <1>1. LevelInit => Init
    BY DEF LevelInit
  <1>2. [Step]_allVars => [Next]_vars
    OBVIOUS
  <1> QED BY <1>1, <1>2, PTL DEF EachLevel, Spec
=============================================================================
