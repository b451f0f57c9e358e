-------------------------------- MODULE Sums --------------------------------
(***************************************************************************)
(* Sums and powers as recursive functions, which can be proved about.      *)
(***************************************************************************)
EXTENDS Integers, Sequences

\* s[1] + ... + s[Len(s)]
SumOf(s) ==
  LET sum[k \in 0 .. Len(s)] == IF k = 0 THEN 0 ELSE sum[k - 1] + s[k]
  IN  sum[Len(s)]

Square(x) == x * x

\* b * ... * b, n times
Power(b, n) ==
  LET power[k \in 0 .. n] == IF k = 0 THEN 1 ELSE b * power[k - 1]
  IN  power[n]
=============================================================================
