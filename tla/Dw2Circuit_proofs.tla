------------------------- MODULE Dw2Circuit_proofs ---------------------------
(***************************************************************************)
(* Proofs about Dw2Circuit, for any grid, catalog, ships, length of the    *)
(* walk and number of seconds: routes name each cell once, stores keep     *)
(* their bounds, a closed loop is of four wires at least, and the wires    *)
(* make no power.                                                          *)
(***************************************************************************)
EXTENDS Dw2Circuit, TLAPS, FiniteSetTheorems, SequenceTheorems, WellFoundedInduction

-----------------------------------------------------------------------------
(* Numbers.                                                                *)

\* What holds of 0, and of each number if it does of the one before, holds up to any.
LEMMA Induct ==
  ASSUME NEW n \in Nat, NEW S, 0 \in S, \A i \in 1 .. n : i - 1 \in S => i \in S
  PROVE  \A i \in 0 .. n : i \in S
<1> DEFINE Missed == {i \in 0 .. n : i \notin S}
<1>1. ASSUME Missed # {} PROVE FALSE
  <2>1. Missed \subseteq Nat
    OBVIOUS
  <2>2. PICK m \in Missed : \A k \in Missed : ~(<<k, m>> \in OpToRel(<, Nat))
    <3> HIDE DEF Missed
    <3> QED BY <1>1, <2>1, NatLessThanWellFounded, WFMin
  <2>3. m \in 1 .. n /\ m \notin S
    OBVIOUS
  <2>4. m - 1 \in 0 .. n /\ m - 1 < m /\ m - 1 \in Nat /\ m \in Nat
    BY <2>3
  <2>5. m - 1 \in Missed
    BY <2>3, <2>4
  <2> HIDE DEF Missed
  <2> QED BY <2>2, <2>4, <2>5 DEF OpToRel
<1> QED BY <1>1

\* g is what F makes of a, and goes on to make of it, in n steps.
Run(A, F, a, n, g) ==
  g \in [0 .. n -> A] /\ g[0] = a /\ \A i \in 1 .. n : g[i] = F[g[i - 1]][i]

\* Any number of steps can be made.
LEMMA Runs ==
  ASSUME NEW A, NEW N \in Nat, NEW F \in [A -> [1 .. N -> A]], NEW a \in A
  PROVE  \E g : Run(A, F, a, N, g)
<1> DEFINE S == {n \in 0 .. N : \E g : Run(A, F, a, n, g)}
<1>1. 0 \in S
  <2>1. Run(A, F, a, 0, [i \in 0 .. 0 |-> a])
    BY DEF Run
  <2> QED BY <2>1
<1>2. ASSUME NEW n \in 1 .. N, n - 1 \in S
      PROVE  n \in S
  <2>1. PICK g : Run(A, F, a, n - 1, g)
    BY <1>2
  <2> DEFINE h == [i \in 0 .. n |-> IF i = n THEN F[g[n - 1]][n] ELSE g[i]]
  <2>2. n \in Nat /\ n - 1 \in 0 .. n - 1 /\ g[n - 1] \in A /\ n # 0
    BY <2>1 DEF Run
  <2>3. F[g[n - 1]][n] \in A
    BY <2>2
  <2>4. h \in [0 .. n -> A] /\ h[0] = a
    BY <2>1, <2>2, <2>3 DEF Run
  <2>5. ASSUME NEW i \in 1 .. n PROVE h[i] = F[h[i - 1]][i]
    <3>1. i - 1 \in 0 .. n /\ i - 1 # n /\ i \in 0 .. n /\ h[i - 1] = g[i - 1]
      BY <2>2
    <3>2. CASE i = n
      BY <3>1, <3>2
    <3>3. CASE i # n
      <4>1. i \in 1 .. n - 1
        BY <2>2, <3>3
      <4> QED BY <2>1, <3>1, <3>3, <4>1 DEF Run
    <3> QED BY <3>2, <3>3
  <2> HIDE DEF h
  <2>6. Run(A, F, a, n, h)
    BY <2>4, <2>5 DEF Run
  <2> QED BY <2>2, <2>6
<1>3. N \in S
  <2> HIDE DEF S
  <2>1. \A i \in 0 .. N : i \in S
    BY <1>1, <1>2, Induct
  <2> QED BY <2>1
<1> QED BY <1>3

-----------------------------------------------------------------------------
(* Sums.                                                                   *)

\* g is the running sum of s.
Adds(g, s) ==
  /\ g \in [0 .. Len(s) -> Nat] /\ g[0] = 0
  /\ \A i \in 1 .. Len(s) : g[i] = g[i - 1] + s[i]

\* A sequence of numbers, as a function: what Sum takes.
Numbers(s) == Len(s) \in Nat /\ \A i \in 1 .. Len(s) : s[i] \in Nat

LEMMA SumRuns ==
  ASSUME NEW s, Numbers(s)
  PROVE  \E g : Adds(g, s) /\ Sum(s) = g[Len(s)]
<1> DEFINE N == Len(s)
           F == [x \in Nat |-> [k \in 1 .. N |-> x + s[k]]]
           Along(f) == [k \in 0 .. N |-> IF k = 0 THEN 0 ELSE f[k - 1] + s[k]]
           f == CHOOSE f : f = Along(f)
<1>1. N \in Nat /\ \A k \in 1 .. N : s[k] \in Nat
  BY DEF Numbers
<1>2. F \in [Nat -> [1 .. N -> Nat]]
  BY <1>1
<1>3. PICK g : Run(Nat, F, 0, N, g)
  <2> HIDE DEF F, N
  <2> QED BY <1>1, <1>2, Runs
<1>4. \A k \in 1 .. N : k - 1 \in 0 .. N /\ k \in 0 .. N /\ k # 0
  BY <1>1
<1>5. g \in [0 .. N -> Nat] /\ g[0] = 0 /\ \A k \in 1 .. N : g[k] = g[k - 1] + s[k]
  BY <1>3, <1>4 DEF Run
<1>6. g = Along(g)
  <2>1. g = [k \in 0 .. N |-> g[k]]
    BY <1>5
  <2>2. \A k \in 0 .. N : g[k] = IF k = 0 THEN 0 ELSE g[k - 1] + s[k]
    BY <1>1, <1>5
  <2> QED BY <2>1, <2>2
<1>7. f = Along(f)
  <2> HIDE DEF Along
  <2> QED BY <1>6
<1>8. Sum(s) = f[N]
  BY DEF Sum
<1> HIDE DEF f
<1>9. f[0] = 0 /\ \A k \in 1 .. N : f[k] = f[k - 1] + s[k]
  <2>1. \A k \in 0 .. N : f[k] = IF k = 0 THEN 0 ELSE f[k - 1] + s[k]
    BY <1>7
  <2>2. 0 \in 0 .. N
    BY <1>1
  <2> QED BY <1>4, <2>1, <2>2
<1>10. f = [k \in 0 .. N |-> f[k]]
  <2>1. DOMAIN f = 0 .. N
    BY <1>7
  <2> QED BY <1>7
<1> DEFINE S == {k \in 0 .. N : f[k] \in Nat}
<1>11. \A k \in 0 .. N : k \in S
  <2>1. 0 \in S
    BY <1>1, <1>9
  <2>2. ASSUME NEW k \in 1 .. N, k - 1 \in S PROVE k \in S
    BY <1>1, <1>4, <1>9, <2>2
  <2> HIDE DEF S, N
  <2> QED BY <1>1, <2>1, <2>2, Induct
<1>12. f \in [0 .. N -> Nat]
  BY <1>10, <1>11
<1> QED BY <1>8, <1>9, <1>12 DEF Adds

\* What one running sum is at most, another that steps at least as far is at most.
LEMMA SumsCompare ==
  ASSUME NEW s, NEW t, Len(s) \in Nat, Len(s) = Len(t), NEW g, NEW h, Adds(g, s), Adds(h, t),
         NEW m \in Nat, \A i \in 1 .. Len(s) : s[i] \in Nat /\ t[i] \in Nat /\ m * s[i] <= t[i]
  PROVE  m * g[Len(s)] <= h[Len(s)]
<1> DEFINE N == Len(s)
           S == {i \in 0 .. N : m * g[i] <= h[i]}
<1>1. N \in Nat /\ g \in [0 .. N -> Nat] /\ h \in [0 .. N -> Nat] /\ g[0] = 0 /\ h[0] = 0
  BY DEF Adds
<1>2. \A i \in 1 .. N : g[i] = g[i - 1] + s[i] /\ h[i] = h[i - 1] + t[i]
  BY DEF Adds
<1>3. 0 \in S
  BY <1>1
<1>4. ASSUME NEW i \in 1 .. N, i - 1 \in S
      PROVE  i \in S
  <2>1. i - 1 \in 0 .. N /\ i \in 0 .. N
    BY <1>1
  <2>2. g[i - 1] \in Nat /\ h[i - 1] \in Nat /\ s[i] \in Nat /\ t[i] \in Nat
    BY <1>1, <2>1
  <2>3. m * g[i - 1] <= h[i - 1] /\ m * s[i] <= t[i]
    BY <1>4
  <2>4. \A a, b, c, d \in Nat : m * a <= c /\ m * b <= d => m * (a + b) <= c + d
    OBVIOUS
  <2>5. m * (g[i - 1] + s[i]) <= h[i - 1] + t[i]
    BY <2>2, <2>3, <2>4
  <2> QED BY <1>2, <2>1, <2>5
<1>5. \A i \in 0 .. N : i \in S
  <2> HIDE DEF S, N
  <2> QED BY <1>1, <1>3, <1>4, Induct
<1> QED BY <1>1, <1>5

\* There is one running sum only.
LEMMA SumIs ==
  ASSUME NEW s, Numbers(s), NEW g, Adds(g, s)
  PROVE  Sum(s) = g[Len(s)]
<1>1. PICK h : Adds(h, s) /\ Sum(s) = h[Len(s)]
  BY SumRuns
<1>2. \A i \in 1 .. Len(s) : 1 * s[i] <= s[i] /\ s[i] \in Nat
  BY DEF Numbers
<1>3. Len(s) \in Nat /\ g[Len(s)] \in Nat /\ h[Len(s)] \in Nat
  BY <1>1 DEF Numbers, Adds
<1>4. 1 * g[Len(s)] <= h[Len(s)]
  BY <1>1, <1>2, <1>3, SumsCompare
<1>5. 1 * h[Len(s)] <= g[Len(s)]
  BY <1>1, <1>2, <1>3, SumsCompare
<1> QED BY <1>1, <1>3, <1>4, <1>5

LEMMA SumNat ==
  ASSUME NEW s, Numbers(s)
  PROVE  Sum(s) \in Nat
<1>1. PICK h : Adds(h, s) /\ Sum(s) = h[Len(s)]
  BY SumRuns
<1> QED BY <1>1 DEF Adds, Numbers

\* The sums of two sequences compare as their members do.
LEMMA SumsCompared ==
  ASSUME NEW s, NEW t, Numbers(s), Numbers(t), Len(s) = Len(t), NEW m \in Nat,
         \A i \in 1 .. Len(s) : m * s[i] <= t[i]
  PROVE  m * Sum(s) <= Sum(t)
<1>1. PICK g : Adds(g, s) /\ Sum(s) = g[Len(s)]
  BY SumRuns
<1>2. PICK h : Adds(h, t) /\ Sum(t) = h[Len(t)]
  BY SumRuns
<1>3. \A i \in 1 .. Len(s) : s[i] \in Nat /\ t[i] \in Nat /\ m * s[i] <= t[i]
  BY DEF Numbers
<1>4. Len(s) \in Nat
  BY DEF Numbers
<1>5. m * g[Len(s)] <= h[Len(s)]
  BY <1>1, <1>2, <1>3, <1>4, SumsCompare
<1> QED BY <1>1, <1>2, <1>5

LEMMA SumEmpty ==
  ASSUME NEW s, Len(s) = 0
  PROVE  Numbers(s) /\ Sum(s) = 0
<1>1. Numbers(s)
  BY DEF Numbers
<1>2. PICK h : Adds(h, s) /\ Sum(s) = h[Len(s)]
  BY <1>1, SumRuns
<1> QED BY <1>1, <1>2 DEF Adds

LEMMA SumOne ==
  ASSUME NEW s, Len(s) = 1, s[1] \in Nat
  PROVE  Numbers(s) /\ Sum(s) = s[1]
<1>1. Numbers(s)
  BY DEF Numbers
<1>2. PICK h : Adds(h, s) /\ Sum(s) = h[Len(s)]
  BY <1>1, SumRuns
<1>3. 1 \in 1 .. Len(s) /\ 1 - 1 = 0
  OBVIOUS
<1>4. h[0] = 0 /\ h[1] = h[1 - 1] + s[1]
  BY <1>2, <1>3 DEF Adds
<1> QED BY <1>1, <1>2, <1>3, <1>4

\* One that raises a member raises the sum.
LEMMA SumRaised ==
  ASSUME NEW s, NEW t, Numbers(s), Len(t) = Len(s), NEW k \in 1 .. Len(s), NEW d \in Nat,
         t[k] = s[k] + d, \A i \in 1 .. Len(s) : i # k => t[i] = s[i]
  PROVE  Numbers(t) /\ Sum(t) = Sum(s) + d
<1> DEFINE N == Len(s)
<1>1. N \in Nat /\ \A i \in 1 .. N : s[i] \in Nat
  BY DEF Numbers
<1>2. \A i \in 1 .. N : t[i] \in Nat
  BY <1>1
<1>3. Numbers(t)
  BY <1>1, <1>2 DEF Numbers
<1>4. PICK g : Adds(g, s) /\ Sum(s) = g[N]
  BY SumRuns
<1> DEFINE h == [i \in 0 .. N |-> IF i < k THEN g[i] ELSE g[i] + d]
<1> HIDE DEF N
<1>5. g \in [0 .. N -> Nat] /\ g[0] = 0 /\ \A i \in 1 .. N : g[i] = g[i - 1] + s[i]
  BY <1>4 DEF Adds, N
<1>6. k \in 1 .. N
  BY DEF N
<1>7. h \in [0 .. N -> Nat] /\ h[0] = 0 /\ h[N] = g[N] + d
  <2>1. \A i \in 0 .. N : g[i] \in Nat /\ g[i] + d \in Nat
    BY <1>5
  <2>2. 0 \in 0 .. N /\ N \in 0 .. N /\ 0 < k /\ ~(N < k)
    BY <1>1, <1>6
  <2>3. h \in [0 .. N -> Nat]
    BY <2>1
  <2>4. h[0] = 0
    BY <1>5, <2>2
  <2>5. h[N] = g[N] + d
    BY <2>2
  <2> QED BY <2>3, <2>4, <2>5
<1>8. ASSUME NEW i \in 1 .. N
      PROVE  h[i] = h[i - 1] + t[i]
  <2>1. i - 1 \in 0 .. N /\ i \in 0 .. N /\ g[i] = g[i - 1] + s[i]
    BY <1>1, <1>5
  <2>2. g[i] \in Nat /\ g[i - 1] \in Nat /\ s[i] \in Nat
    BY <1>1, <1>5, <2>1
  <2>3. CASE i = k
    <3>1. h[i] = g[i] + d /\ h[i - 1] = g[i - 1] /\ t[i] = s[i] + d
      BY <1>6, <2>1, <2>3
    <3> QED BY <2>1, <2>2, <3>1
  <2>4. CASE i < k
    <3>1. h[i] = g[i] /\ h[i - 1] = g[i - 1] /\ t[i] = s[i]
      BY <1>6, <2>1, <2>4 DEF N
    <3> QED BY <2>1, <3>1
  <2>5. CASE i > k
    <3>1. h[i] = g[i] + d /\ h[i - 1] = g[i - 1] + d /\ t[i] = s[i]
      BY <1>6, <2>1, <2>5 DEF N
    <3> QED BY <2>1, <2>2, <3>1
  <2> QED BY <1>6, <2>3, <2>4, <2>5
<1> HIDE DEF h
<1>9. Adds(h, t)
  BY <1>7, <1>8 DEF Adds, N
<1>10. Sum(t) = h[N]
  BY <1>3, <1>9, SumIs DEF N
<1> QED BY <1>3, <1>4, <1>7, <1>10

\* Two sequences have the sum of both.
LEMMA SumJoined ==
  ASSUME NEW a \in Seq(Nat), NEW b \in Seq(Nat)
  PROVE  Sum(a \o b) = Sum(a) + Sum(b)
<1> DEFINE c == a \o b
           M == Len(a)
           N == Len(b)
<1>1. /\ M \in Nat /\ N \in Nat /\ c \in Seq(Nat) /\ Len(c) = M + N
      /\ \A i \in 1 .. M : c[i] = a[i]
  OBVIOUS
<1>2. \A i \in 1 .. N : c[M + i] = b[i]
  OBVIOUS
<1>3. Numbers(a) /\ Numbers(b)
  BY DEF Numbers
<1> HIDE DEF c
<1>4. Numbers(c)
  BY <1>1 DEF Numbers
<1>5. PICK g : Adds(g, a) /\ Sum(a) = g[M]
  BY <1>3, SumRuns
<1>6. PICK h : Adds(h, b) /\ Sum(b) = h[N]
  BY <1>3, SumRuns
<1>7. g \in [0 .. M -> Nat] /\ g[0] = 0 /\ \A i \in 1 .. M : g[i] = g[i - 1] + a[i]
  BY <1>5 DEF Adds
<1>8. h \in [0 .. N -> Nat] /\ h[0] = 0 /\ \A i \in 1 .. N : h[i] = h[i - 1] + b[i]
  BY <1>6 DEF Adds
<1> HIDE DEF M, N
<1> DEFINE f == [i \in 0 .. M + N |-> IF i <= M THEN g[i] ELSE g[M] + h[i - M]]
<1>9. g[M] \in Nat
  BY <1>1, <1>7
<1>10. f \in [0 .. M + N -> Nat]
  <2> SUFFICES ASSUME NEW i \in 0 .. M + N
               PROVE  (IF i <= M THEN g[i] ELSE g[M] + h[i - M]) \in Nat
    OBVIOUS
  <2>1. CASE i <= M
    BY <1>1, <1>7, <2>1
  <2>2. CASE ~(i <= M)
    <3>1. i - M \in 0 .. N
      BY <1>1, <2>2
    <3>2. h[i - M] \in Nat
      BY <1>8, <3>1
    <3> QED BY <1>9, <2>2, <3>2
  <2> QED BY <2>1, <2>2
<1>11. f[0] = 0
  BY <1>1, <1>7
<1>12. f[M + N] = g[M] + h[N]
  <2>1. CASE N = 0
    BY <1>1, <1>8, <1>9, <2>1
  <2>2. CASE N # 0
    <3>1. M + N \in 0 .. M + N /\ ~(M + N <= M) /\ (M + N) - M = N
      BY <1>1, <2>2
    <3> QED BY <3>1
  <2> QED BY <2>1, <2>2
<1>13. ASSUME NEW i \in 1 .. M + N
       PROVE  f[i] = f[i - 1] + c[i]
  <2>1. i \in 0 .. M + N /\ i - 1 \in 0 .. M + N
    BY <1>1
  <2>2. CASE i <= M
    <3>1. i \in 1 .. M /\ i - 1 <= M
      BY <1>1, <2>2
    <3>2. f[i] = g[i] /\ f[i - 1] = g[i - 1] /\ c[i] = a[i]
      BY <1>1, <2>1, <2>2, <3>1
    <3> QED BY <1>7, <3>1, <3>2
  <2>3. CASE ~(i <= M)
    <3>1. i - M \in 1 .. N /\ M + (i - M) = i
      BY <1>1, <2>3
    <3>2. c[i] = b[i - M]
      BY <1>2, <3>1
    <3>3. f[i] = g[M] + h[i - M]
      BY <2>1, <2>3
    <3>4. h[i - M] = h[(i - M) - 1] + b[i - M]
      BY <1>8, <3>1
    <3>5. f[i - 1] = g[M] + h[(i - M) - 1]
      <4>1. CASE i - 1 <= M
        <5>1. i - 1 = M /\ (i - M) - 1 = 0
          BY <1>1, <2>3, <4>1
        <5> QED BY <1>8, <1>9, <2>1, <4>1, <5>1
      <4>2. CASE ~(i - 1 <= M)
        <5>1. (i - 1) - M = (i - M) - 1
          BY <1>1
        <5> QED BY <2>1, <4>2, <5>1
      <4> QED BY <4>1, <4>2
    <3>6. (i - M) - 1 \in 0 .. N
      BY <1>1, <3>1
    <3>7. h[(i - M) - 1] \in Nat /\ b[i - M] \in Nat
      BY <1>8, <3>1, <3>6 DEF N
    <3> QED BY <1>9, <3>2, <3>3, <3>4, <3>5, <3>7
  <2> QED BY <2>2, <2>3
<1> HIDE DEF f
<1>14. Adds(f, c)
  BY <1>1, <1>10, <1>11, <1>13 DEF Adds
<1>15. Sum(c) = f[M + N]
  BY <1>1, <1>4, <1>14, SumIs
<1> QED BY <1>5, <1>6, <1>12, <1>15 DEF c

-----------------------------------------------------------------------------
(* Powers.                                                                 *)

\* g holds the powers of b up to the n-th.
Powers(g, b, n) ==
  g \in [0 .. n -> Nat] /\ g[0] = 1 /\ \A i \in 1 .. n : g[i] = b * g[i - 1]

LEMMA PowRuns ==
  ASSUME NEW b \in Nat, NEW N \in Nat
  PROVE  \E g : Powers(g, b, N) /\ Pow(b, N) = g[N]
<1> DEFINE F == [x \in Nat |-> [k \in 1 .. N |-> b * x]]
           Along(f) == [k \in 0 .. N |-> IF k = 0 THEN 1 ELSE b * f[k - 1]]
           f == CHOOSE f : f = Along(f)
<1>1. F \in [Nat -> [1 .. N -> Nat]]
  OBVIOUS
<1>2. PICK g : Run(Nat, F, 1, N, g)
  <2> HIDE DEF F
  <2> QED BY <1>1, Runs
<1>3. \A k \in 1 .. N : k - 1 \in 0 .. N /\ k \in 0 .. N /\ k # 0
  OBVIOUS
<1>4. g \in [0 .. N -> Nat] /\ g[0] = 1 /\ \A k \in 1 .. N : g[k] = b * g[k - 1]
  BY <1>2, <1>3 DEF Run
<1>5. g = Along(g)
  <2>1. g = [k \in 0 .. N |-> g[k]]
    BY <1>4
  <2>2. \A k \in 0 .. N : g[k] = IF k = 0 THEN 1 ELSE b * g[k - 1]
    BY <1>4
  <2> QED BY <2>1, <2>2
<1>6. f = Along(f)
  <2> HIDE DEF Along
  <2> QED BY <1>5
<1>7. Pow(b, N) = f[N]
  BY DEF Pow
<1> HIDE DEF f
<1>8. f[0] = 1 /\ \A k \in 1 .. N : f[k] = b * f[k - 1]
  <2>1. \A k \in 0 .. N : f[k] = IF k = 0 THEN 1 ELSE b * f[k - 1]
    BY <1>6
  <2>2. 0 \in 0 .. N
    OBVIOUS
  <2> QED BY <1>3, <2>1, <2>2
<1>9. f = [k \in 0 .. N |-> f[k]]
  <2>1. DOMAIN f = 0 .. N
    BY <1>6
  <2> QED BY <1>6
<1> DEFINE S == {k \in 0 .. N : f[k] \in Nat}
<1>10. \A k \in 0 .. N : k \in S
  <2>1. 0 \in S
    BY <1>8
  <2>2. ASSUME NEW k \in 1 .. N, k - 1 \in S PROVE k \in S
    <3>1. f[k - 1] \in Nat /\ f[k] = b * f[k - 1]
      BY <1>8, <2>2
    <3>2. \A x \in Nat : b * x \in Nat
      OBVIOUS
    <3> QED BY <1>3, <3>1, <3>2
  <2> HIDE DEF S
  <2> QED BY <2>1, <2>2, Induct
<1>11. f \in [0 .. N -> Nat]
  BY <1>9, <1>10
<1> QED BY <1>7, <1>8, <1>11 DEF Powers

\* The powers of b start alike.
LEMMA PowersAgree ==
  ASSUME NEW b \in Nat, NEW n \in Nat, NEW g, NEW h, Powers(g, b, n), Powers(h, b, n + 1)
  PROVE  g[n] = h[n]
<1> DEFINE S == {i \in 0 .. n : g[i] = h[i]}
<1>1. g[0] = h[0] /\ \A i \in 1 .. n : g[i] = b * g[i - 1] /\ h[i] = b * h[i - 1]
  BY DEF Powers
<1>2. 0 \in S
  BY <1>1
<1>3. \A i \in 1 .. n : i - 1 \in S => i \in S
  BY <1>1
<1>4. \A i \in 0 .. n : i \in S
  <2> HIDE DEF S
  <2> QED BY <1>2, <1>3, Induct
<1> QED BY <1>4

LEMMA PowIs ==
  ASSUME NEW b \in Nat, NEW n \in Nat
  PROVE  Pow(b, n) \in Nat /\ Pow(b, 0) = 1 /\ Pow(b, n + 1) = b * Pow(b, n)
<1>1. PICK g : Powers(g, b, n) /\ Pow(b, n) = g[n]
  BY PowRuns
<1>2. PICK h : Powers(h, b, n + 1) /\ Pow(b, n + 1) = h[n + 1]
  <2>1. n + 1 \in Nat
    OBVIOUS
  <2> QED BY <2>1, PowRuns
<1>3. PICK o : Powers(o, b, 0) /\ Pow(b, 0) = o[0]
  BY PowRuns
<1>4. Pow(b, n) \in Nat
  BY <1>1 DEF Powers
<1>5. Pow(b, 0) = 1
  BY <1>3 DEF Powers
<1>6. g[n] = h[n]
  BY <1>1, <1>2, PowersAgree
<1>7. n + 1 \in 1 .. n + 1 /\ (n + 1) - 1 = n
  OBVIOUS
<1>8. h[n + 1] = b * h[n]
  BY <1>2, <1>7 DEF Powers
<1> QED BY <1>1, <1>2, <1>4, <1>5, <1>6, <1>8

\* What a watt counts for that has been through a of n Amplifiers: each makes half as
\* much again of it, and leaves it two thirds of what it counted for.
Worth(n, a) == Pow(3, n - a) * Pow(2, a)

LEMMA WorthStep ==
  ASSUME NEW n \in Nat, NEW a \in 0 .. n
  PROVE  Worth(n, a) \in Nat /\ (a < n => 3 * Worth(n, a + 1) = 2 * Worth(n, a))
<1>1. n - a \in Nat /\ a \in Nat
  OBVIOUS
<1>2. Pow(3, n - a) \in Nat /\ Pow(2, a) \in Nat
  BY <1>1, PowIs
<1>3. \A x, y \in Nat : x * y \in Nat
  OBVIOUS
<1>4. Worth(n, a) \in Nat
  BY <1>2, <1>3 DEF Worth
<1>5. ASSUME a < n
      PROVE  3 * Worth(n, a + 1) = 2 * Worth(n, a)
  <2>1. n - (a + 1) \in Nat /\ (n - (a + 1)) + 1 = n - a
    BY <1>1, <1>5
  <2>2. Pow(3, n - (a + 1)) \in Nat /\ Pow(3, (n - (a + 1)) + 1) = 3 * Pow(3, n - (a + 1))
    BY <2>1, PowIs
  <2>3. Pow(3, n - a) = 3 * Pow(3, n - (a + 1))
    BY <2>1, <2>2
  <2>4. Pow(2, a + 1) = 2 * Pow(2, a)
    BY <1>1, PowIs
  <2>5. \A x, y \in Nat : 3 * (x * (2 * y)) = 2 * ((3 * x) * y)
    OBVIOUS
  <2>6. 3 * (Pow(3, n - (a + 1)) * (2 * Pow(2, a))) = 2 * ((3 * Pow(3, n - (a + 1))) * Pow(2, a))
    BY <1>2, <2>2, <2>5
  <2> QED BY <2>3, <2>4, <2>6 DEF Worth
<1> QED BY <1>4, <1>5

WorthOK(n, a) ==
  Worth(n, a) \in Nat /\ Pow(2, n) <= Worth(n, a) /\ Worth(n, a) <= Pow(3, n)

LEMMA WorthBounds ==
  ASSUME NEW n \in Nat
  PROVE  \A a \in 0 .. n : WorthOK(n, a)
<1>1. Pow(2, n) \in Nat /\ Pow(3, n) \in Nat /\ Pow(2, 0) = 1 /\ Pow(3, 0) = 1
  BY PowIs
<1>2. Worth(n, 0) = Pow(3, n) /\ Worth(n, n) = Pow(2, n)
  <2>1. n - 0 = n /\ n - n = 0
    OBVIOUS
  <2>2. \A x \in Nat : x * 1 = x /\ 1 * x = x
    OBVIOUS
  <2> QED BY <1>1, <2>1, <2>2 DEF Worth
<1>3. \A a \in 0 .. n : Worth(n, a) \in Nat
  BY WorthStep
<1>4. ASSUME NEW a \in 1 .. n
      PROVE  Worth(n, a) <= Worth(n, a - 1)
  <2>1. a - 1 \in 0 .. n /\ a \in 0 .. n /\ a - 1 < n /\ (a - 1) + 1 = a
    OBVIOUS
  <2>2. a - 1 < n => 3 * Worth(n, (a - 1) + 1) = 2 * Worth(n, a - 1)
    BY <2>1, WorthStep
  <2>3. 3 * Worth(n, a) = 2 * Worth(n, a - 1)
    BY <2>1, <2>2
  <2> QED BY <1>3, <2>1, <2>3
<1> DEFINE S == {a \in 0 .. n : Worth(n, a) <= Pow(3, n)}
           T == {j \in 0 .. n : Pow(2, n) <= Worth(n, n - j)}
<1>5. \A a \in 0 .. n : a \in S
  <2>1. 0 \in S
    BY <1>1, <1>2
  <2>2. ASSUME NEW a \in 1 .. n, a - 1 \in S PROVE a \in S
    <3>1. a - 1 \in 0 .. n /\ a \in 0 .. n
      OBVIOUS
    <3> QED BY <1>1, <1>3, <1>4, <2>2, <3>1
  <2> HIDE DEF S
  <2> QED BY <2>1, <2>2, Induct
<1>6. \A j \in 0 .. n : j \in T
  <2>1. 0 \in T
    BY <1>1, <1>2
  <2>2. ASSUME NEW j \in 1 .. n, j - 1 \in T PROVE j \in T
    <3> DEFINE a == n - (j - 1)
    <3>1. a \in 1 .. n /\ a - 1 = n - j /\ a \in 0 .. n /\ n - j \in 0 .. n /\ j \in 0 .. n
      OBVIOUS
    <3>2. Pow(2, n) <= Worth(n, a)
      BY <2>2
    <3> HIDE DEF a
    <3>3. Worth(n, a) <= Worth(n, n - j)
      BY <1>4, <3>1
    <3> QED BY <1>1, <1>3, <3>1, <3>2, <3>3
  <2> HIDE DEF T
  <2> QED BY <2>1, <2>2, Induct
<1> SUFFICES ASSUME NEW a \in 0 .. n
             PROVE  WorthOK(n, a)
  OBVIOUS
<1>7. n - a \in 0 .. n /\ n - (n - a) = a
  OBVIOUS
<1>8. n - a \in T /\ a \in S
  BY <1>5, <1>6, <1>7
<1> QED BY <1>3, <1>7, <1>8 DEF WorthOK

-----------------------------------------------------------------------------
(* Sums over the cells of the grid.                                        *)

RowOf(f, row) == [col \in 1 .. GridW |-> f[<<row - 1, col - 1>>]]
RowsOf(f)     == [row \in 1 .. GridH |-> Sum(RowOf(f, row))]

LEMMA OverIs ==
  ASSUME NEW f
  PROVE  OverCells(f) = Sum(RowsOf(f))
BY DEF OverCells, RowsOf, RowOf

LEMMA CellHere ==
  ASSUME NEW row \in 1 .. GridH, NEW col \in 1 .. GridW
  PROVE  <<row - 1, col - 1>> \in Cells
<1>1. row - 1 \in 0 .. GridH - 1 /\ col - 1 \in 0 .. GridW - 1
  BY GridAssumption
<1> QED BY <1>1 DEF Cells

LEMMA RowNumbers ==
  ASSUME NEW f \in [Cells -> Nat], NEW row \in 1 .. GridH
  PROVE  Numbers(RowOf(f, row)) /\ Len(RowOf(f, row)) = GridW
<1> DEFINE r == RowOf(f, row)
<1>1. GridW \in Nat
  BY GridAssumption
<1>2. \A col \in 1 .. GridW : r[col] \in Nat
  BY CellHere DEF RowOf
<1>3. r \in Seq(Nat) /\ Len(r) = GridW
  <2>1. r \in [1 .. GridW -> Nat]
    BY <1>2 DEF RowOf
  <2> HIDE DEF r
  <2> QED BY <1>1, <2>1
<1> QED BY <1>1, <1>2, <1>3 DEF Numbers

LEMMA RowsNumbers ==
  ASSUME NEW f \in [Cells -> Nat]
  PROVE  Numbers(RowsOf(f)) /\ Len(RowsOf(f)) = GridH
<1> DEFINE r == RowsOf(f)
<1>1. GridH \in Nat
  BY GridAssumption
<1>2. \A row \in 1 .. GridH : r[row] \in Nat
  <2> SUFFICES ASSUME NEW row \in 1 .. GridH
               PROVE  r[row] \in Nat
    OBVIOUS
  <2>1. Sum(RowOf(f, row)) \in Nat
    BY RowNumbers, SumNat
  <2> QED BY <2>1 DEF RowsOf
<1>3. r \in Seq(Nat) /\ Len(r) = GridH
  <2>1. r \in [1 .. GridH -> Nat]
    BY <1>2 DEF RowsOf
  <2> HIDE DEF r
  <2> QED BY <1>1, <2>1
<1> QED BY <1>1, <1>2, <1>3 DEF Numbers

LEMMA OverNat ==
  ASSUME NEW f \in [Cells -> Nat]
  PROVE  OverCells(f) \in Nat
BY OverIs, RowsNumbers, SumNat

\* Where nothing is, there is nothing in all.
LEMMA OverNone == OverCells(None) = 0
<1>1. None \in [Cells -> Nat] /\ \A c \in Cells : None[c] = 0
  BY DEF None
<1>2. ASSUME NEW row \in 1 .. GridH
      PROVE  Sum(RowOf(None, row)) = 0
  <2> DEFINE r == RowOf(None, row)
  <2>1. Numbers(r) /\ Len(r) = GridW
    BY <1>1, RowNumbers
  <2>2. \A col \in 1 .. GridW : r[col] = 0
    BY <1>1, CellHere DEF RowOf
  <2> HIDE DEF r
  <2>3. \A col \in 1 .. Len(r) : 2 * r[col] <= r[col]
    BY <2>1, <2>2
  <2>4. 2 * Sum(r) <= Sum(r)
    BY <2>1, <2>3, SumsCompared
  <2>5. Sum(r) \in Nat
    BY <2>1, SumNat
  <2> QED BY <2>4, <2>5 DEF r
<1> DEFINE r == RowsOf(None)
<1>3. Numbers(r) /\ Len(r) = GridH
  BY <1>1, RowsNumbers
<1>4. \A row \in 1 .. GridH : r[row] = 0
  BY <1>2 DEF RowsOf
<1> HIDE DEF r
<1>5. \A row \in 1 .. Len(r) : 2 * r[row] <= r[row]
  BY <1>3, <1>4
<1>6. 2 * Sum(r) <= Sum(r)
  BY <1>3, <1>5, SumsCompared
<1>7. Sum(r) \in Nat
  BY <1>3, SumNat
<1> QED BY <1>6, <1>7, OverIs DEF r

\* What comes to one cell comes to the sum.
LEMMA OverRaised ==
  ASSUME NEW f \in [Cells -> Nat], NEW g \in [Cells -> Nat], NEW c \in Cells, NEW d \in Nat,
         g[c] = f[c] + d, \A e \in Cells : e # c => g[e] = f[e]
  PROVE  OverCells(g) = OverCells(f) + d
<1>1. PICK y \in 0 .. GridH - 1 : \E x \in 0 .. GridW - 1 : c = <<y, x>>
  BY DEF Cells
<1>2. PICK x \in 0 .. GridW - 1 : c = <<y, x>>
  BY <1>1
<1> DEFINE k == y + 1
           j == x + 1
<1>3. k \in 1 .. GridH /\ j \in 1 .. GridW /\ c = <<k - 1, j - 1>>
  BY <1>2, GridAssumption
<1> HIDE DEF k, j
<1>4. ASSUME NEW row \in 1 .. GridH, NEW col \in 1 .. GridW, row # k \/ col # j
      PROVE  RowOf(g, row)[col] = RowOf(f, row)[col]
  <2>1. <<row - 1, col - 1>> # c
    BY <1>3, <1>4
  <2> QED BY <2>1, CellHere DEF RowOf
<1>5. Sum(RowOf(g, k)) = Sum(RowOf(f, k)) + d
  <2> DEFINE s == RowOf(f, k)
             t == RowOf(g, k)
  <2>1. Numbers(s) /\ Len(s) = GridW /\ Len(t) = GridW
    BY <1>3, RowNumbers
  <2>2. t[j] = s[j] + d
    BY <1>3 DEF RowOf
  <2>3. \A i \in 1 .. Len(s) : i # j => t[i] = s[i]
    BY <1>3, <1>4, <2>1
  <2> HIDE DEF s, t
  <2>4. j \in 1 .. Len(s) /\ Len(t) = Len(s)
    BY <1>3, <2>1
  <2>5. Numbers(t) /\ Sum(t) = Sum(s) + d
    BY <2>1, <2>2, <2>3, <2>4, SumRaised
  <2> QED BY <2>5 DEF s, t
<1>6. ASSUME NEW row \in 1 .. GridH, row # k
      PROVE  Sum(RowOf(g, row)) = Sum(RowOf(f, row))
  <2>1. \A col \in 1 .. GridW : g[<<row - 1, col - 1>>] = f[<<row - 1, col - 1>>]
    <3> SUFFICES ASSUME NEW col \in 1 .. GridW
                 PROVE  g[<<row - 1, col - 1>>] = f[<<row - 1, col - 1>>]
      OBVIOUS
    <3>1. <<row - 1, col - 1>> # c
      BY <1>3, <1>6
    <3> QED BY <3>1, CellHere
  <2>2. RowOf(g, row) = RowOf(f, row)
    BY <2>1 DEF RowOf
  <2> QED BY <2>2
<1> DEFINE s == RowsOf(f)
           t == RowsOf(g)
<1>7. Numbers(s) /\ Len(s) = GridH /\ Len(t) = GridH
  BY RowsNumbers
<1>8. t[k] = s[k] + d
  BY <1>3, <1>5 DEF RowsOf
<1>9. \A i \in 1 .. Len(s) : i # k => t[i] = s[i]
  BY <1>6, <1>7 DEF RowsOf
<1> HIDE DEF s, t
<1>10. Numbers(t) /\ Sum(t) = Sum(s) + d
  BY <1>3, <1>7, <1>8, <1>9, SumRaised
<1> QED BY <1>10, OverIs DEF s, t

-----------------------------------------------------------------------------
(* The inductive invariant.                                                *)

\* What passes power on, or makes it.
Wires == PassRoles \cup {"generator"}

HandOff == [at : Cells, by : Sides, power : Nat, path : Seq(Cells)]

\* A route is of living wires, each beside the one before, and names none of them
\* twice.  The hand-off comes from the last of them, and does not go back to the one
\* before it.
RouteCells(vessel, gone, p) ==
  /\ \A k \in 1 .. Len(p) :
       p[k] \in vessel.occupied /\ p[k] \notin gone /\ vessel.role[p[k]] \in Wires
  /\ \A j, k \in 1 .. Len(p) : p[j] = p[k] => j = k

RouteSteps(p) == \A k \in 1 .. Len(p) - 1 : \E s \in Sides : Beside(p[k + 1], s) = p[k]

RouteEnds(h) ==
  /\ Len(h.path) >= 1 => Beside(h.at, h.by) = h.path[Len(h.path)]
  /\ Len(h.path) >= 2 => h.at # h.path[Len(h.path) - 1]

RouteOK(vessel, gone, h) ==
  RouteCells(vessel, gone, h.path) /\ RouteSteps(h.path) /\ RouteEnds(h)

\* The Amplifiers that a route goes through; and what the watts of a hand-off count for.
Held(vessel, c)    == vessel.parts[vessel.owner[c]]
Amps(vessel)       == {p \in DOMAIN vessel.parts : vessel.parts[p].item = "Amplifier"}
Passed(vessel, p)  == {a \in Amps(vessel) : \E k \in 1 .. Len(p) : vessel.owner[p[k]] = a}
WorthOf(vessel, h) ==
  h.power * Worth(Cardinality(Amps(vessel)), Cardinality(Passed(vessel, h.path)))
Worths(vessel, w)  == [i \in 1 .. Len(w) |-> WorthOf(vessel, w[i])]

FlowType ==
  [pin : [Cells -> Nat], absorb : [Cells -> Nat], gate : [Cells -> Nat],
   loops : SUBSET Cells, budget : 0 .. FlowBudget, gave : [Cells -> Nat]]

StoreType == [q : [Cells -> Nat], q2 : [Cells -> Nat], open : [Cells -> BOOLEAN]]

ClockOK ==
  /\ second \in 0 .. Seconds /\ cursor \in 0 .. GridW * GridH + 1
  /\ cursor <= GridW * GridH => second < Seconds
  /\ cursor > GridW * GridH => walk = <<>>

WalkOK == walk \in Seq(HandOff) /\ \A i \in 1 .. Len(walk) : RouteOK(ship, dead, walk[i])

FlowOK == flow \in FlowType /\ flow.loops \subseteq Living /\ LoopsAreWires

StoreOK ==
  /\ store \in StoreType
  /\ \A c \in ship.occupied :
       /\ RoleAt(c) = "battery" => store.q[c] <= BatMax
       /\ RoleAt(c) = "capacitor" => store.q[c] <= CapMax

\* What has reached its end and what is on its way count for no more than what the
\* sources have let go of, when a watt on its way counts for what it may become.
Accounted(vessel, kept, w, gave) ==
  LET n == Cardinality(Amps(vessel))
  IN Pow(2, n) * OverCells(kept) + Sum(Worths(vessel, w)) <= Pow(3, n) * OverCells(gave)

Balanced == Accounted(ship, Kept, walk, flow.gave)

CircuitInv ==
  /\ ship \in Ships /\ dead \subseteq ship.occupied
  /\ ClockOK /\ WalkOK /\ FlowOK /\ StoreOK /\ Balanced

-----------------------------------------------------------------------------
(* Sides, and the cells beside a cell.                                     *)

LEMMA TurnedIs ==
  /\ Turned("N", 2) = "S" /\ Turned("E", 2) = "W"
  /\ Turned("S", 2) = "N" /\ Turned("W", 2) = "E"
<1> DEFINE sides == <<"N", "E", "S", "W">>
<1>1. /\ sides[1] = "N" /\ sides[2] = "E" /\ sides[3] = "S" /\ sides[4] = "W"
      /\ 1 \in 1 .. 4 /\ 2 \in 1 .. 4 /\ 3 \in 1 .. 4 /\ 4 \in 1 .. 4
  OBVIOUS
<1>2. \A j, k \in 1 .. 4 : sides[j] = sides[k] => j = k
  <2>1. \A j \in 1 .. 4 : j = 1 \/ j = 2 \/ j = 3 \/ j = 4
    OBVIOUS
  <2> HIDE DEF sides
  <2> QED BY <1>1, <2>1
<1> HIDE DEF sides
<1>3. ASSUME NEW k \in 1 .. 4
      PROVE  (CHOOSE j \in 1 .. 4 : sides[j] = sides[k]) = k
  BY <1>2
<1>4. ASSUME NEW k \in 1 .. 4
      PROVE  Turned(sides[k], 2) = sides[((k - 1 + 2) % 4) + 1]
  BY <1>3 DEF Turned, sides
<1>5. /\ ((1 - 1 + 2) % 4) + 1 = 3 /\ ((2 - 1 + 2) % 4) + 1 = 4
      /\ ((3 - 1 + 2) % 4) + 1 = 1 /\ ((4 - 1 + 2) % 4) + 1 = 2
  OBVIOUS
<1> QED BY <1>1, <1>4, <1>5

\* The way back from the cell on a side.
LEMMA WayBack ==
  ASSUME NEW c \in Cells, NEW s \in Sides
  PROVE  Turned(s, 2) \in Sides /\ Beside(Beside(c, s), Turned(s, 2)) = c
<1>1. PICK y \in 0 .. GridH - 1 : \E x \in 0 .. GridW - 1 : c = <<y, x>>
  BY DEF Cells
<1>2. PICK x \in 0 .. GridW - 1 : c = <<y, x>>
  BY <1>1
<1>3. y \in Int /\ x \in Int
  BY GridAssumption
<1>4. s = "N" \/ s = "E" \/ s = "S" \/ s = "W"
  BY DEF Sides
<1>5. Turned(s, 2) \in Sides
  BY <1>4, TurnedIs DEF Sides
<1>6. Beside(Beside(c, s), Turned(s, 2)) = c
  BY <1>2, <1>3, <1>4, TurnedIs DEF Beside
<1> QED BY <1>5, <1>6

\* On the four sides are four cells.
LEMMA SidesApart ==
  ASSUME NEW c \in Cells, NEW s \in Sides, NEW t \in Sides, Beside(c, s) = Beside(c, t)
  PROVE  s = t
<1>1. PICK y \in 0 .. GridH - 1 : \E x \in 0 .. GridW - 1 : c = <<y, x>>
  BY DEF Cells
<1>2. PICK x \in 0 .. GridW - 1 : c = <<y, x>>
  BY <1>1
<1>3. y \in Int /\ x \in Int
  BY GridAssumption
<1>4. /\ s = "N" \/ s = "E" \/ s = "S" \/ s = "W"
      /\ t = "N" \/ t = "E" \/ t = "S" \/ t = "W"
  BY DEF Sides
<1> QED BY <1>2, <1>3, <1>4 DEF Beside

-----------------------------------------------------------------------------
(* The ship.                                                               *)

LEMMA TakenCell ==
  ASSUME NEW vessel \in Ships, NEW c \in vessel.occupied
  PROVE  /\ c \in Cells
         /\ vessel.owner[c] \in DOMAIN vessel.parts
         /\ Held(vessel, c).item \in Items
         /\ c \in Extent(Held(vessel, c).cells)
<1> DEFINE parts == vessel.parts
           p == vessel.owner[c]
<1>1. Fits(vessel) /\ vessel.owner = Owner(vessel)
  BY FleetAssumption DEF AsRead
<1>2. \E q \in DOMAIN parts : c \in Extent(parts[q].cells)
  BY <1>1 DEF Fits
<1>3. p = CHOOSE q \in DOMAIN parts : c \in Extent(parts[q].cells)
  BY <1>1 DEF Owner
<1>4. p \in DOMAIN parts /\ c \in Extent(parts[p].cells)
  <2> HIDE DEF p
  <2> QED BY <1>2, <1>3
<1>5. c \in Cells
  <2> HIDE DEF p
  <2> QED BY <1>1, <1>4 DEF Fits, Extent
<1>6. parts[p].item \in Items
  <2> HIDE DEF p
  <2> QED BY <1>1, <1>4 DEF Fits
<1> QED BY <1>4, <1>5, <1>6 DEF Held

LEMMA PortsIn ==
  ASSUME ship \in Ships, NEW c \in ship.occupied
  PROVE  PortsAt(c) \subseteq Sides
<1> DEFINE p == ship.owner[c]
           cells == ship.parts[p].cells
           k == CHOOSE j \in DOMAIN cells : cells[j].at = c
<1>1. p \in DOMAIN ship.parts /\ c \in Extent(cells)
  BY TakenCell DEF Held
<1>2. k \in DOMAIN cells
  <2>1. \E j \in DOMAIN cells : cells[j].at = c
    <3> HIDE DEF cells
    <3> QED BY <1>1 DEF Extent
  <2> HIDE DEF cells
  <2> QED BY <2>1
<1>3. PortsAt(c) = cells[k].ports
  BY DEF PortsAt, PartAt
<1>4. Fits(ship)
  BY FleetAssumption
<1> HIDE DEF k, p
<1> QED BY <1>1, <1>2, <1>3, <1>4 DEF Fits

\* A cell is the only one of its Amplifier.
LEMMA OneCell ==
  ASSUME NEW vessel \in Ships, NEW c \in vessel.occupied, NEW d \in vessel.occupied,
         vessel.owner[c] = vessel.owner[d], Held(vessel, c).item = "Amplifier"
  PROVE  c = d
<1> DEFINE cells == Held(vessel, c).cells
<1>1. /\ vessel.owner[c] \in DOMAIN vessel.parts /\ Held(vessel, c).item \in Items
      /\ c \in Extent(cells) /\ d \in Extent(cells)
  BY TakenCell DEF Held
<1>2. DOMAIN cells = DOMAIN Catalog["Amplifier"].base
  BY <1>1, FleetAssumption DEF Fits, Held
<1>3. DOMAIN cells = 1 .. 1
  BY <1>1, <1>2, CatalogAssumption, AmplifierAssumption
<1> HIDE DEF cells
<1>4. c = cells[1].at /\ d = cells[1].at
  BY <1>1, <1>3 DEF Extent
<1> QED BY <1>4

LEMMA AmplifiersFinite ==
  ASSUME NEW vessel \in Ships
  PROVE  IsFiniteSet(Amps(vessel)) /\ Cardinality(Amps(vessel)) \in Nat
<1>1. DOMAIN vessel.parts = 1 .. Len(vessel.parts) /\ Len(vessel.parts) \in Nat
  BY FleetAssumption DEF Fits
<1>2. IsFiniteSet(DOMAIN vessel.parts)
  <2>1. 1 \in Int /\ Len(vessel.parts) \in Int
    BY <1>1
  <2>2. IsFiniteSet(1 .. Len(vessel.parts))
    BY <2>1, FS_Interval
  <2> QED BY <1>1, <2>2
<1>3. Amps(vessel) \subseteq DOMAIN vessel.parts
  BY DEF Amps
<1> QED BY <1>2, <1>3, FS_Subset, FS_CardinalityType

LEMMA PassedIn ==
  ASSUME NEW vessel \in Ships, NEW p
  PROVE  /\ IsFiniteSet(Passed(vessel, p))
         /\ Cardinality(Passed(vessel, p)) \in 0 .. Cardinality(Amps(vessel))
<1>1. Passed(vessel, p) \subseteq Amps(vessel)
  BY DEF Passed
<1>2. IsFiniteSet(Passed(vessel, p)) /\ Cardinality(Passed(vessel, p)) <= Cardinality(Amps(vessel))
  BY <1>1, AmplifiersFinite, FS_Subset
<1>3. Cardinality(Passed(vessel, p)) \in Nat
  BY <1>2, FS_CardinalityType
<1> QED BY <1>2, <1>3, AmplifiersFinite

\* A route that goes on through an Amplifier it has not been in passes one more of
\* them, and through another cell as many.
LEMMA PassedOn ==
  ASSUME NEW vessel \in Ships, NEW p \in Seq(Cells), NEW c \in vessel.occupied,
         \A k \in 1 .. Len(p) : p[k] \in vessel.occupied /\ p[k] # c
  PROVE  Cardinality(Passed(vessel, Append(p, c))) =
           Cardinality(Passed(vessel, p)) + (IF Held(vessel, c).item = "Amplifier" THEN 1 ELSE 0)
<1> DEFINE a == vessel.owner[c]
           q == Append(p, c)
<1>1. /\ a \in DOMAIN vessel.parts /\ c \in Cells
  BY TakenCell
<1>2. /\ Len(q) = Len(p) + 1 /\ Len(p) \in Nat /\ q[Len(p) + 1] = c
      /\ \A k \in 1 .. Len(p) : q[k] = p[k]
  BY <1>1
<1>3. a \in Amps(vessel) <=> Held(vessel, c).item = "Amplifier"
  BY <1>1 DEF Amps, Held
<1> HIDE DEF q
<1>4. Passed(vessel, q) = {b \in Amps(vessel) : b = a} \cup Passed(vessel, p)
  <2>1. ASSUME NEW b \in Passed(vessel, q) PROVE b \in {e \in Amps(vessel) : e = a} \cup Passed(vessel, p)
    <3>1. PICK k \in 1 .. Len(q) : vessel.owner[q[k]] = b
      BY <2>1 DEF Passed
    <3>2. CASE k = Len(p) + 1
      BY <1>2, <2>1, <3>1, <3>2 DEF Passed
    <3>3. CASE k # Len(p) + 1
      <4>1. k \in 1 .. Len(p)
        BY <1>2, <3>3
      <4> QED BY <1>2, <2>1, <3>1, <4>1 DEF Passed
    <3> QED BY <3>2, <3>3
  <2>2. ASSUME NEW b \in Passed(vessel, p) PROVE b \in Passed(vessel, q)
    <3>1. PICK k \in 1 .. Len(p) : vessel.owner[p[k]] = b
      BY <2>2 DEF Passed
    <3>2. k \in 1 .. Len(q)
      BY <1>2
    <3> QED BY <1>2, <2>2, <3>1, <3>2 DEF Passed
  <2>3. ASSUME a \in Amps(vessel) PROVE a \in Passed(vessel, q)
    <3>1. Len(p) + 1 \in 1 .. Len(q)
      BY <1>2
    <3> QED BY <1>2, <2>3, <3>1 DEF Passed
  <2> QED BY <2>1, <2>2, <2>3
<1>5. CASE Held(vessel, c).item = "Amplifier"
  <2>1. a \notin Passed(vessel, p)
    <3>1. ASSUME NEW k \in 1 .. Len(p), vessel.owner[p[k]] = a PROVE FALSE
      BY <1>5, <3>1, OneCell
    <3> QED BY <3>1 DEF Passed
  <2>2. Passed(vessel, q) = Passed(vessel, p) \cup {a}
    BY <1>3, <1>4, <1>5
  <2>3. Cardinality(Passed(vessel, p) \cup {a}) = Cardinality(Passed(vessel, p)) + 1
    BY <2>1, PassedIn, FS_AddElement
  <2> QED BY <1>5, <2>2, <2>3 DEF q
<1>6. CASE Held(vessel, c).item # "Amplifier"
  <2>1. Passed(vessel, q) = Passed(vessel, p)
    BY <1>3, <1>4, <1>6
  <2>2. Cardinality(Passed(vessel, p)) + 0 = Cardinality(Passed(vessel, p))
    BY PassedIn
  <2> QED BY <1>6, <2>1, <2>2 DEF q
<1> QED BY <1>5, <1>6

\* What the watts of a hand-off count for.
LEMMA WorthOfBounds ==
  ASSUME NEW vessel \in Ships, NEW p
  PROVE  WorthOK(Cardinality(Amps(vessel)), Cardinality(Passed(vessel, p)))
BY AmplifiersFinite, PassedIn, WorthBounds

LEMMA WorthsAre ==
  ASSUME NEW vessel \in Ships, NEW w \in Seq(HandOff)
  PROVE  /\ Worths(vessel, w) \in Seq(Nat) /\ Len(Worths(vessel, w)) = Len(w)
         /\ \A i \in 1 .. Len(w) : Worths(vessel, w)[i] = WorthOf(vessel, w[i])
<1>1. Len(w) \in Nat
  OBVIOUS
<1>2. ASSUME NEW i \in 1 .. Len(w)
      PROVE  WorthOf(vessel, w[i]) \in Nat
  <2>1. w[i].power \in Nat
    <3>1. w[i] \in HandOff
      OBVIOUS
    <3>2. \A h \in HandOff : h.power \in Nat
      BY DEF HandOff
    <3> QED BY <3>1, <3>2
  <2>2. Worth(Cardinality(Amps(vessel)), Cardinality(Passed(vessel, w[i].path))) \in Nat
    BY WorthOfBounds DEF WorthOK
  <2>3. \A x, y \in Nat : x * y \in Nat
    OBVIOUS
  <2> QED BY <2>1, <2>2, <2>3 DEF WorthOf
<1>3. Worths(vessel, w) \in [1 .. Len(w) -> Nat] /\ \A i \in 1 .. Len(w) : Worths(vessel, w)[i] = WorthOf(vessel, w[i])
  BY <1>2 DEF Worths
<1> QED BY <1>1, <1>3

-----------------------------------------------------------------------------
(* dw2_forward.                                                            *)

\* What goes out by a side, if anything.
Sent(c, outs, power, path, s) ==
  IF s \in outs /\ Beside(c, s) \in Cells
  THEN <<[at |-> Beside(c, s), by |-> Turned(s, 2),
          power |-> power \div Cardinality(outs), path |-> path]>>
  ELSE <<>>

LEMMA ForwardIs ==
  ASSUME NEW c, NEW outs, NEW power, NEW path
  PROVE  Forward(c, outs, power, path) =
           Sent(c, outs, power, path, "N") \o Sent(c, outs, power, path, "E")
             \o Sent(c, outs, power, path, "S") \o Sent(c, outs, power, path, "W")
BY DEF Forward, Sent

\* The hand-offs there may be.
Ways(c, outs, power, path) ==
  {[at |-> Beside(c, s), by |-> Turned(s, 2), power |-> power \div Cardinality(outs),
    path |-> path] : s \in {t \in outs : t \in Sides /\ Beside(c, t) \in Cells}}

LEMMA Shared ==
  ASSUME NEW x \in Nat, NEW k \in Nat \ {0}
  PROVE  x \div k \in Nat /\ k * (x \div k) <= x
OBVIOUS

LEMMA ShareNat ==
  ASSUME NEW outs, IsFiniteSet(outs), outs # {}, NEW power \in Nat
  PROVE  Cardinality(outs) \in Nat \ {0} /\ power \div Cardinality(outs) \in Nat
<1>1. Cardinality(outs) \in Nat \ {0}
  BY FS_CardinalityType, FS_EmptySet
<1> QED BY <1>1, Shared

LEMMA WaysType ==
  ASSUME NEW c \in Cells, NEW outs, IsFiniteSet(outs), NEW power \in Nat, NEW path \in Seq(Cells)
  PROVE  Ways(c, outs, power, path) \subseteq HandOff
<1> SUFFICES ASSUME NEW h \in Ways(c, outs, power, path)
             PROVE  h \in HandOff
  OBVIOUS
<1>1. PICK s \in {t \in outs : t \in Sides /\ Beside(c, t) \in Cells} :
        h = [at |-> Beside(c, s), by |-> Turned(s, 2), power |-> power \div Cardinality(outs),
             path |-> path]
  BY DEF Ways
<1>2. outs # {} /\ s \in Sides /\ Beside(c, s) \in Cells
  OBVIOUS
<1>3. power \div Cardinality(outs) \in Nat
  BY <1>2, ShareNat
<1>4. Turned(s, 2) \in Sides
  BY <1>2, WayBack
<1> QED BY <1>1, <1>2, <1>3, <1>4 DEF HandOff

LEMMA SentType ==
  ASSUME NEW c, NEW outs, NEW power, NEW path, NEW s \in Sides
  PROVE  Sent(c, outs, power, path, s) \in Seq(Ways(c, outs, power, path))
<1> DEFINE h == [at |-> Beside(c, s), by |-> Turned(s, 2),
                 power |-> power \div Cardinality(outs), path |-> path]
           W == Ways(c, outs, power, path)
<1>1. CASE s \in outs /\ Beside(c, s) \in Cells
  <2>1. h \in W
    BY <1>1 DEF Ways
  <2>2. Sent(c, outs, power, path, s) = <<h>>
    BY <1>1 DEF Sent
  <2> HIDE DEF h, W
  <2>3. <<h>> \in Seq(W)
    BY <2>1
  <2> QED BY <2>2, <2>3 DEF W
<1>2. CASE ~(s \in outs /\ Beside(c, s) \in Cells)
  BY <1>2 DEF Sent
<1> QED BY <1>1, <1>2

LEMMA ForwardType ==
  ASSUME NEW c \in Cells, NEW outs, IsFiniteSet(outs), NEW power \in Nat, NEW path \in Seq(Cells)
  PROVE  /\ Forward(c, outs, power, path) \in Seq(HandOff)
         /\ \A i \in 1 .. Len(Forward(c, outs, power, path)) :
              Forward(c, outs, power, path)[i] \in Ways(c, outs, power, path)
<1> DEFINE W == Ways(c, outs, power, path)
           S(s) == Sent(c, outs, power, path, s)
           w == Forward(c, outs, power, path)
<1>1. "N" \in Sides /\ "E" \in Sides /\ "S" \in Sides /\ "W" \in Sides
  BY DEF Sides
<1>2. S("N") \in Seq(W) /\ S("E") \in Seq(W) /\ S("S") \in Seq(W) /\ S("W") \in Seq(W)
  BY <1>1, SentType
<1>3. w = S("N") \o S("E") \o S("S") \o S("W")
  BY ForwardIs
<1>4. W \subseteq HandOff
  BY WaysType
<1> HIDE DEF w, S, W
<1>5. w \in Seq(W)
  BY <1>2, <1>3
<1>6. \A i \in 1 .. Len(w) : w[i] \in W
  BY <1>5
<1>7. w \in Seq(HandOff)
  BY <1>4, <1>5
<1> QED BY <1>6, <1>7 DEF w, W

LEMMA WorthsJoined ==
  ASSUME NEW vessel \in Ships, NEW a \in Seq(HandOff), NEW b \in Seq(HandOff)
  PROVE  a \o b \in Seq(HandOff) /\ Sum(Worths(vessel, a \o b)) = Sum(Worths(vessel, a)) + Sum(Worths(vessel, b))
<1> DEFINE c == a \o b
           x == Worths(vessel, a)
           y == Worths(vessel, b)
           z == Worths(vessel, c)
<1>1. /\ c \in Seq(HandOff) /\ Len(c) = Len(a) + Len(b) /\ Len(a) \in Nat /\ Len(b) \in Nat
      /\ \A i \in 1 .. Len(a) : c[i] = a[i]
  OBVIOUS
<1>2. \A i \in 1 .. Len(b) : c[Len(a) + i] = b[i]
  OBVIOUS
<1> HIDE DEF c
<1>3. x \in Seq(Nat) /\ Len(x) = Len(a) /\ \A i \in 1 .. Len(a) : x[i] = WorthOf(vessel, a[i])
  BY WorthsAre
<1>4. y \in Seq(Nat) /\ Len(y) = Len(b) /\ \A i \in 1 .. Len(b) : y[i] = WorthOf(vessel, b[i])
  BY WorthsAre
<1>5. z \in Seq(Nat) /\ Len(z) = Len(c) /\ \A i \in 1 .. Len(c) : z[i] = WorthOf(vessel, c[i])
  BY <1>1, WorthsAre
<1> HIDE DEF x, y, z
<1>6. x \o y \in Seq(Nat) /\ Len(x \o y) = Len(a) + Len(b)
  <2>1. x \in Seq(Nat) /\ y \in Seq(Nat)
    BY <1>3, <1>4
  <2>2. x \o y \in Seq(Nat) /\ Len(x \o y) = Len(x) + Len(y)
    BY <2>1
  <2> QED BY <1>3, <1>4, <2>2
<1>7. \A i \in 1 .. Len(a) + Len(b) : (x \o y)[i] = IF i <= Len(a) THEN x[i] ELSE y[i - Len(a)]
  BY <1>3, <1>4
<1>8. \A i \in 1 .. Len(a) + Len(b) : z[i] = (x \o y)[i]
  <2> SUFFICES ASSUME NEW i \in 1 .. Len(a) + Len(b)
               PROVE  z[i] = (x \o y)[i]
    OBVIOUS
  <2>1. z[i] = WorthOf(vessel, c[i])
    BY <1>1, <1>5
  <2>2. CASE i <= Len(a)
    <3>1. i \in 1 .. Len(a)
      BY <1>1, <2>2
    <3> QED BY <1>1, <1>3, <1>7, <2>1, <2>2, <3>1
  <2>3. CASE ~(i <= Len(a))
    <3>1. i - Len(a) \in 1 .. Len(b) /\ Len(a) + (i - Len(a)) = i
      BY <1>1, <2>3
    <3>2. c[i] = b[i - Len(a)]
      BY <1>2, <3>1
    <3> QED BY <1>4, <1>7, <2>1, <2>3, <3>1, <3>2
  <2> QED BY <2>2, <2>3
<1>9. z = x \o y
  BY <1>1, <1>5, <1>6, <1>8, SeqEqual
<1>10. Sum(x \o y) = Sum(x) + Sum(y)
  BY <1>3, <1>4, SumJoined
<1> QED BY <1>1, <1>9, <1>10 DEF c, x, y, z

LEMMA WorthsOne ==
  ASSUME NEW vessel \in Ships, NEW h \in HandOff
  PROVE  <<h>> \in Seq(HandOff) /\ Sum(Worths(vessel, <<h>>)) = WorthOf(vessel, h)
<1> DEFINE w == <<h>>
<1>1. w \in Seq(HandOff) /\ Len(w) = 1 /\ w[1] = h /\ 1 \in 1 .. Len(w)
  OBVIOUS
<1> HIDE DEF w
<1>2. Worths(vessel, w) \in Seq(Nat) /\ Len(Worths(vessel, w)) = 1 /\ Worths(vessel, w)[1] = WorthOf(vessel, h)
  BY <1>1, WorthsAre
<1>3. Worths(vessel, w)[1] \in Nat
  BY <1>2
<1>4. Sum(Worths(vessel, w)) = WorthOf(vessel, h)
  BY <1>2, <1>3, SumOne
<1> QED BY <1>1, <1>4 DEF w

LEMMA WorthsNat ==
  ASSUME NEW vessel \in Ships, NEW w \in Seq(HandOff)
  PROVE  Sum(Worths(vessel, w)) \in Nat
<1>1. Worths(vessel, w) \in Seq(Nat)
  BY WorthsAre
<1> HIDE DEF Worths
<1>2. Numbers(Worths(vessel, w))
  BY <1>1 DEF Numbers
<1> QED BY <1>2, SumNat

LEMMA WorthsNone ==
  ASSUME NEW vessel \in Ships
  PROVE  Sum(Worths(vessel, <<>>)) = 0
<1>1. <<>> \in Seq(HandOff) /\ Len(<<>>) = 0
  OBVIOUS
<1>2. Len(Worths(vessel, <<>>)) = 0
  BY <1>1, WorthsAre
<1> QED BY <1>2, SumEmpty

One(s, outs) == IF s \in outs THEN 1 ELSE 0

LEMMA OneLess ==
  ASSUME NEW outs, IsFiniteSet(outs), NEW s
  PROVE  /\ IsFiniteSet(outs \ {s}) /\ Cardinality(outs \ {s}) \in Nat
         /\ Cardinality(outs) = Cardinality(outs \ {s}) + One(s, outs)
<1>1. Cardinality(outs) \in Nat
  BY FS_CardinalityType
<1>2. /\ IsFiniteSet(outs \ {s})
      /\ Cardinality(outs \ {s}) = IF s \in outs THEN Cardinality(outs) - 1 ELSE Cardinality(outs)
  BY FS_RemoveElement
<1>3. Cardinality(outs \ {s}) \in Nat
  BY <1>2, FS_CardinalityType
<1> QED BY <1>1, <1>2, <1>3 DEF One

\* There are no more sides than ports.
LEMMA OutsCount ==
  ASSUME NEW outs, IsFiniteSet(outs)
  PROVE  One("N", outs) + One("E", outs) + One("S", outs) + One("W", outs) <= Cardinality(outs)
<1> DEFINE o1 == outs \ {"N"}
           o2 == o1 \ {"E"}
           o3 == o2 \ {"S"}
<1>1. One("E", o1) = One("E", outs) /\ One("S", o2) = One("S", outs) /\ One("W", o3) = One("W", outs)
  BY DEF One
<1>2. /\ One("N", outs) \in Nat /\ One("E", outs) \in Nat
      /\ One("S", outs) \in Nat /\ One("W", outs) \in Nat
  BY DEF One
<1>3. IsFiniteSet(o3 \ {"W"}) /\ Cardinality(o3 \ {"W"}) \in Nat
      /\ Cardinality(o3) = Cardinality(o3 \ {"W"}) + One("W", o3)
      /\ Cardinality(o2) = Cardinality(o3) + One("S", o2)
      /\ Cardinality(o1) = Cardinality(o2) + One("E", o1)
      /\ Cardinality(outs) = Cardinality(o1) + One("N", outs)
  <2>1. IsFiniteSet(o1) /\ Cardinality(outs) = Cardinality(o1) + One("N", outs)
    BY OneLess
  <2> HIDE DEF o1
  <2>2. IsFiniteSet(o2) /\ Cardinality(o1) = Cardinality(o2) + One("E", o1)
    BY <2>1, OneLess
  <2> HIDE DEF o2
  <2>3. IsFiniteSet(o3) /\ Cardinality(o2) = Cardinality(o3) + One("S", o2)
    BY <2>2, OneLess
  <2> HIDE DEF o3
  <2>4. IsFiniteSet(o3 \ {"W"}) /\ Cardinality(o3 \ {"W"}) \in Nat
        /\ Cardinality(o3) = Cardinality(o3 \ {"W"}) + One("W", o3)
    BY <2>3, OneLess
  <2> QED BY <2>1, <2>2, <2>3, <2>4
<1> HIDE DEF o1, o2, o3
<1> QED BY <1>1, <1>2, <1>3

\* What is let out counts for no more than what was to be let out.
LEMMA ForwardSum ==
  ASSUME NEW vessel \in Ships, NEW c \in Cells, NEW outs, IsFiniteSet(outs), NEW power \in Nat,
         NEW path \in Seq(Cells)
  PROVE  Sum(Worths(vessel, Forward(c, outs, power, path)))
           <= power * Worth(Cardinality(Amps(vessel)), Cardinality(Passed(vessel, path)))
<1> DEFINE v == Worth(Cardinality(Amps(vessel)), Cardinality(Passed(vessel, path)))
           k == Cardinality(outs)
           share == power \div k
           S(s) == Sent(c, outs, power, path, s)
           Of(w) == Sum(Worths(vessel, w))
<1>1. v \in Nat
  BY WorthOfBounds DEF WorthOK
<1>2. k \in Nat
  BY FS_CardinalityType
<1>3. "N" \in Sides /\ "E" \in Sides /\ "S" \in Sides /\ "W" \in Sides
  BY DEF Sides
<1>4. ASSUME NEW s \in Sides
      PROVE  S(s) \in Seq(HandOff)
  <2>1. S(s) \in Seq(Ways(c, outs, power, path)) /\ Ways(c, outs, power, path) \subseteq HandOff
    BY SentType, WaysType
  <2> HIDE DEF S
  <2> QED BY <2>1
<1>5. CASE outs = {}
  <2>1. S("N") = <<>> /\ S("E") = <<>> /\ S("S") = <<>> /\ S("W") = <<>>
    BY <1>5 DEF Sent
  <2>2. Forward(c, outs, power, path) = <<>>
    BY <2>1, ForwardIs
  <2>3. \A x, y \in Nat : 0 <= x * y
    OBVIOUS
  <2> HIDE DEF v
  <2> QED BY <1>1, <2>2, <2>3, WorthsNone DEF v
<1>6. CASE outs # {}
  <2>1. k \in Nat \ {0} /\ share \in Nat /\ k * share <= power
    BY <1>6, ShareNat, Shared
  <2>2. share * v \in Nat
    <3>1. \A x, y \in Nat : x * y \in Nat
      OBVIOUS
    <3> HIDE DEF share, v
    <3> QED BY <1>1, <2>1, <3>1
  <2>3. ASSUME NEW s \in Sides
        PROVE  Of(S(s)) \in Nat /\ Of(S(s)) <= One(s, outs) * (share * v)
    <3>1. CASE s \in outs /\ Beside(c, s) \in Cells
      <4> DEFINE h == [at |-> Beside(c, s), by |-> Turned(s, 2), power |-> share, path |-> path]
      <4>1. S(s) = <<h>>
        BY <3>1 DEF Sent
      <4>2. h \in HandOff
        BY <2>1, <3>1, WayBack DEF HandOff
      <4>3. Of(<<h>>) = WorthOf(vessel, h)
        BY <4>2, WorthsOne
      <4>4. WorthOf(vessel, h) = share * v
        BY DEF WorthOf
      <4>5. One(s, outs) = 1
        BY <3>1 DEF One
      <4> HIDE DEF h, share, v, S
      <4> QED BY <2>2, <4>1, <4>3, <4>4, <4>5
    <3>2. CASE ~(s \in outs /\ Beside(c, s) \in Cells)
      <4>1. S(s) = <<>>
        BY <3>2 DEF Sent
      <4>2. Of(S(s)) = 0
        BY <4>1, WorthsNone
      <4>3. One(s, outs) = 0 \/ One(s, outs) = 1
        BY DEF One
      <4> HIDE DEF share, v, S
      <4> QED BY <2>2, <4>2, <4>3
    <3> QED BY <3>1, <3>2
  <2> DEFINE tN == S("N")
             tE == S("E")
             tS == S("S")
             tW == S("W")
             x == share * v
             oN == One("N", outs)
             oE == One("E", outs)
             oS == One("S", outs)
             oW == One("W", outs)
  <2>4. /\ tN \in Seq(HandOff) /\ tE \in Seq(HandOff)
        /\ tS \in Seq(HandOff) /\ tW \in Seq(HandOff)
    BY <1>3, <1>4
  <2>5. /\ Of(tN) \in Nat /\ Of(tN) <= oN * x /\ Of(tE) \in Nat /\ Of(tE) <= oE * x
        /\ Of(tS) \in Nat /\ Of(tS) <= oS * x /\ Of(tW) \in Nat /\ Of(tW) <= oW * x
    BY <1>3, <2>3
  <2>6. Forward(c, outs, power, path) = tN \o tE \o tS \o tW
    BY ForwardIs
  <2>7. oN + oE + oS + oW <= k
    BY OutsCount
  <2>8. oN \in Nat /\ oE \in Nat /\ oS \in Nat /\ oW \in Nat
    BY DEF One
  <2>9. x \in Nat
    BY <2>2
  <2>10. k * x <= power * v
    <3>1. \A a, b, d, e \in Nat : a * b <= d => a * (b * e) <= d * e
      OBVIOUS
    <3> HIDE DEF k, share, v
    <3> QED BY <1>1, <2>1, <3>1
  <2>11. power * v \in Nat
    <3>1. \A a, b \in Nat : a * b \in Nat
      OBVIOUS
    <3> HIDE DEF v
    <3> QED BY <1>1, <3>1
  <2> HIDE DEF S, tN, tE, tS, tW, x, oN, oE, oS, oW, k, v, share, Of
  <2>12. tN \o tE \in Seq(HandOff) /\ Of(tN \o tE) = Of(tN) + Of(tE)
    BY <2>4, WorthsJoined DEF Of
  <2>13. tN \o tE \o tS \in Seq(HandOff) /\ Of(tN \o tE \o tS) = Of(tN \o tE) + Of(tS)
    BY <2>4, <2>12, WorthsJoined DEF Of
  <2>14. Of(tN \o tE \o tS \o tW) = Of(tN \o tE \o tS) + Of(tW)
    BY <2>4, <2>13, WorthsJoined DEF Of
  <2>15. oN * x + oE * x + oS * x + oW * x <= k * x
    <3>1. \A a, b, d, e, f, g \in Nat :
            a + b + d + e <= f => a * g + b * g + d * g + e * g <= f * g
      OBVIOUS
    <3> QED BY <1>2, <2>7, <2>8, <2>9, <3>1
  <2>16. /\ oN * x \in Nat /\ oE * x \in Nat /\ oS * x \in Nat /\ oW * x \in Nat
         /\ k * x \in Nat
    <3>1. \A a, b \in Nat : a * b \in Nat
      OBVIOUS
    <3> QED BY <1>2, <2>8, <2>9, <3>1
  <2>17. Of(Forward(c, outs, power, path)) <= power * v
    <3>1. Of(Forward(c, outs, power, path)) = Of(tN) + Of(tE) + Of(tS) + Of(tW)
      BY <2>5, <2>6, <2>12, <2>13, <2>14
    <3>2. Of(tN) + Of(tE) + Of(tS) + Of(tW) <= oN * x + oE * x + oS * x + oW * x
      BY <2>5, <2>16
    <3>3. Of(tN) + Of(tE) + Of(tS) + Of(tW) <= k * x
      BY <2>5, <2>15, <2>16, <3>2
    <3> QED BY <2>5, <2>10, <2>11, <2>16, <3>1, <3>3
  <2> QED BY <2>17 DEF Of, v
<1> QED BY <1>5, <1>6

-----------------------------------------------------------------------------
(* Routes.                                                                 *)

\* The route of what a wire passes on.
LEMMA FedRoutes ==
  ASSUME NEW vessel, NEW gone, NEW h \in HandOff, RouteOK(vessel, gone, h),
         h.at \in vessel.occupied \ gone, vessel.role[h.at] \in Wires,
         \A k \in 1 .. Len(h.path) : h.path[k] # h.at,
         NEW outs, outs \subseteq Sides \ {h.by}, NEW power,
         NEW g \in Ways(h.at, outs, power, Append(h.path, h.at))
  PROVE  RouteOK(vessel, gone, g)
<1> DEFINE p == h.path
           c == h.at
           q == Append(p, c)
           m == Len(p)
<1>1. c \in Cells /\ h.by \in Sides /\ p \in Seq(Cells)
  BY DEF HandOff
<1>2. /\ m \in Nat /\ Len(q) = m + 1 /\ q[m + 1] = c
      /\ \A k \in 1 .. m : q[k] = p[k]
  BY <1>1
<1>3. PICK s \in outs : /\ s \in Sides /\ Beside(c, s) \in Cells
                        /\ g.at = Beside(c, s) /\ g.by = Turned(s, 2) /\ g.path = q
  BY DEF Ways
<1>4. /\ \A k \in 1 .. m : p[k] \in vessel.occupied /\ p[k] \notin gone /\ vessel.role[p[k]] \in Wires
      /\ \A j, k \in 1 .. m : p[j] = p[k] => j = k
      /\ \A k \in 1 .. m : p[k] # c
  BY DEF RouteOK, RouteCells
<1>5. \A k \in 1 .. m - 1 : \E t \in Sides : Beside(p[k + 1], t) = p[k]
  BY DEF RouteOK, RouteSteps
<1>6. m >= 1 => Beside(c, h.by) = p[m]
  BY DEF RouteOK, RouteEnds
<1> HIDE DEF q, m, p, c
<1>7. RouteCells(vessel, gone, q)
  <2>1. \A k \in 1 .. Len(q) : k = m + 1 \/ k \in 1 .. m
    BY <1>2
  <2>2. \A k \in 1 .. Len(q) :
          q[k] \in vessel.occupied /\ q[k] \notin gone /\ vessel.role[q[k]] \in Wires
    BY <1>2, <1>4, <2>1 DEF c
  <2>3. \A j, k \in 1 .. Len(q) : q[j] = q[k] => j = k
    BY <1>2, <1>4, <2>1
  <2> QED BY <2>2, <2>3 DEF RouteCells
<1>8. RouteSteps(q)
  <2> SUFFICES ASSUME NEW k \in 1 .. Len(q) - 1
               PROVE  \E t \in Sides : Beside(q[k + 1], t) = q[k]
    BY DEF RouteSteps
  <2>1. k \in 1 .. m
    BY <1>2
  <2>2. CASE k = m
    BY <1>1, <1>2, <1>6, <2>1, <2>2
  <2>3. CASE k # m
    <3>1. k \in 1 .. m - 1 /\ k + 1 \in 1 .. m
      BY <1>2, <2>1, <2>3
    <3> QED BY <1>2, <1>5, <2>1, <3>1
  <2> QED BY <2>2, <2>3
<1>9. RouteEnds(g)
  <2>1. Beside(g.at, g.by) = q[Len(q)]
    BY <1>1, <1>2, <1>3, WayBack DEF c
  <2>2. ASSUME Len(q) >= 2 PROVE g.at # q[Len(q) - 1]
    <3>1. m >= 1 /\ Len(q) - 1 = m /\ m \in 1 .. m
      BY <1>2, <2>2
    <3>2. q[Len(q) - 1] = Beside(c, h.by)
      BY <1>2, <1>6, <3>1
    <3>3. s # h.by
      BY <1>3
    <3> QED BY <1>1, <1>3, <3>2, <3>3, SidesApart DEF c
  <2> QED BY <1>3, <2>1, <2>2 DEF RouteEnds
<1> QED BY <1>3, <1>7, <1>8, <1>9 DEF RouteOK

\* The route of what a Generator makes.
LEMMA MadeRoutes ==
  ASSUME NEW vessel, NEW gone, NEW c \in Cells, c \in vessel.occupied \ gone,
         vessel.role[c] \in Wires, NEW outs, NEW power, NEW g \in Ways(c, outs, power, <<c>>)
  PROVE  RouteOK(vessel, gone, g)
<1>1. PICK s \in outs : /\ s \in Sides /\ Beside(c, s) \in Cells
                        /\ g.at = Beside(c, s) /\ g.by = Turned(s, 2) /\ g.path = <<c>>
  BY DEF Ways
<1>2. Len(g.path) = 1 /\ g.path[1] = c /\ \A k \in 1 .. Len(g.path) : k = 1
  BY <1>1
<1>3. RouteCells(vessel, gone, g.path)
  BY <1>2 DEF RouteCells
<1>4. RouteSteps(g.path)
  BY <1>2 DEF RouteSteps
<1>5. RouteEnds(g)
  BY <1>1, <1>2, WayBack DEF RouteEnds
<1> QED BY <1>3, <1>4, <1>5 DEF RouteOK

\* What was stored starts a route of its own.
LEMMA StoredRoutes ==
  ASSUME NEW vessel, NEW gone, NEW c, NEW outs, NEW power, NEW g \in Ways(c, outs, power, <<>>)
  PROVE  RouteOK(vessel, gone, g)
<1>1. g.path = <<>> /\ Len(<<>>) = 0
  BY DEF Ways
<1> QED BY <1>1 DEF RouteOK, RouteCells, RouteSteps, RouteEnds

-----------------------------------------------------------------------------
(* Closed loops.                                                           *)

Odd(c) == (c[1] + c[2]) % 2

LEMMA OddStep ==
  ASSUME NEW c \in Cells, NEW d \in Cells, NEW s \in Sides, Beside(c, s) = d
  PROVE  Odd(c) \in {0, 1} /\ Odd(d) = 1 - Odd(c)
<1>1. PICK y \in 0 .. GridH - 1 : \E x \in 0 .. GridW - 1 : c = <<y, x>>
  BY DEF Cells
<1>2. PICK x \in 0 .. GridW - 1 : c = <<y, x>>
  BY <1>1
<1>3. y \in Int /\ x \in Int
  BY GridAssumption
<1>4. s = "N" \/ s = "E" \/ s = "S" \/ s = "W"
  BY DEF Sides
<1>5. \/ d = <<y - 1, x>> \/ d = <<y, x + 1>> \/ d = <<y + 1, x>> \/ d = <<y, x - 1>>
  BY <1>2, <1>4 DEF Beside
<1>6. \A n \in Int : n % 2 \in {0, 1} /\ (n + 1) % 2 = 1 - (n % 2) /\ (n - 1) % 2 = 1 - (n % 2)
  OBVIOUS
<1>7. Odd(c) = (y + x) % 2
  BY <1>2 DEF Odd
<1>8. Odd(d) = ((y + x) + 1) % 2 \/ Odd(d) = ((y + x) - 1) % 2
  <2>1. /\ (y - 1) + x = (y + x) - 1 /\ y + (x + 1) = (y + x) + 1
        /\ (y + 1) + x = (y + x) + 1 /\ y + (x - 1) = (y + x) - 1
    BY <1>3
  <2> QED BY <1>5, <2>1 DEF Odd
<1>9. y + x \in Int
  BY <1>3
<1> QED BY <1>6, <1>7, <1>8, <1>9

LEMMA FourApart ==
  ASSUME NEW a, NEW b, NEW c, NEW d, a # b, a # c, a # d, b # c, b # d, c # d
  PROVE  IsFiniteSet({a, b, c, d}) /\ Cardinality({a, b, c, d}) = 4
<1>1. IsFiniteSet({a}) /\ Cardinality({a}) = 1
  BY FS_Singleton
<1>2. IsFiniteSet({a} \cup {b}) /\ Cardinality({a} \cup {b}) = 2
  <2>1. b \notin {a}
    OBVIOUS
  <2> QED BY <1>1, <2>1, FS_AddElement
<1>3. IsFiniteSet(({a} \cup {b}) \cup {c}) /\ Cardinality(({a} \cup {b}) \cup {c}) = 3
  <2>1. c \notin {a} \cup {b}
    OBVIOUS
  <2> QED BY <1>2, <2>1, FS_AddElement
<1>4. /\ IsFiniteSet((({a} \cup {b}) \cup {c}) \cup {d})
      /\ Cardinality((({a} \cup {b}) \cup {c}) \cup {d}) = 4
  <2>1. d \notin ({a} \cup {b}) \cup {c}
    OBVIOUS
  <2> QED BY <1>3, <2>1, FS_AddElement
<1>5. (({a} \cup {b}) \cup {c}) \cup {d} = {a, b, c, d}
  OBVIOUS
<1> QED BY <1>4, <1>5

LEMMA CellsFinite == IsFiniteSet(Cells)
<1>1. GridH - 1 \in Int /\ GridW - 1 \in Int /\ 0 \in Int
  BY GridAssumption
<1>2. IsFiniteSet(0 .. GridH - 1) /\ IsFiniteSet(0 .. GridW - 1)
  BY <1>1, FS_Interval
<1> QED BY <1>2, FS_Product DEF Cells

\* A route that comes back to itself has left that cell by one side, come back by
\* another, and there is no triangle on a grid.
LEMMA RingIsLong ==
  ASSUME NEW vessel, NEW gone, NEW h \in HandOff, RouteOK(vessel, gone, h),
         NEW i \in 1 .. Len(h.path), h.path[i] = h.at
  PROVE  i + 3 \in 1 .. Len(h.path)
<1> DEFINE p == h.path
           c == h.at
           m == Len(p)
<1>1. c \in Cells /\ h.by \in Sides /\ p \in Seq(Cells) /\ m \in Nat
  BY DEF HandOff
<1>2. \A k \in 1 .. m : p[k] \in Cells
  BY <1>1
<1>3. \A k \in 1 .. m - 1 : \E t \in Sides : Beside(p[k + 1], t) = p[k]
  BY DEF RouteOK, RouteSteps
<1>4. m >= 1 => Beside(c, h.by) = p[m]
  BY DEF RouteOK, RouteEnds
<1>5. m >= 2 => c # p[m - 1]
  BY DEF RouteOK, RouteEnds
<1>6. i \in 1 .. m /\ p[i] = c
  OBVIOUS
<1> HIDE DEF p, c, m
<1>7. Odd(c) \in {0, 1} /\ Odd(p[m]) = 1 - Odd(c)
  <2>1. m \in 1 .. m /\ m >= 1
    BY <1>1, <1>6
  <2> QED BY <1>1, <1>2, <1>4, <2>1, OddStep
<1>8. i # m
  BY <1>6, <1>7
<1>9. i # m - 1
  <2>1. CASE i = m - 1
    <3>1. m >= 2
      BY <1>1, <1>6, <2>1
    <3> QED BY <1>5, <1>6, <2>1, <3>1
  <2> QED BY <2>1
<1>10. i # m - 2
  <2>1. ASSUME i = m - 2 PROVE FALSE
    <3>1. /\ m - 1 \in 1 .. m - 1 /\ m - 2 \in 1 .. m - 1 /\ (m - 1) + 1 = m
          /\ (m - 2) + 1 = m - 1 /\ m \in 1 .. m /\ m - 1 \in 1 .. m /\ m - 2 \in 1 .. m
      BY <1>1, <1>6, <2>1
    <3>2. PICK s \in Sides : Beside(p[m], s) = p[m - 1]
      BY <1>3, <3>1
    <3>3. PICK t \in Sides : Beside(p[m - 1], t) = p[m - 2]
      BY <1>3, <3>1
    <3>4. Odd(p[m - 1]) = 1 - Odd(p[m])
      BY <1>2, <3>1, <3>2, OddStep
    <3>5. Odd(p[m - 2]) = 1 - Odd(p[m - 1])
      BY <1>2, <3>1, <3>3, OddStep
    <3>6. Odd(p[m - 2]) = Odd(c)
      BY <1>6, <2>1
    <3> QED BY <1>7, <3>4, <3>5, <3>6
  <2> QED BY <2>1
<1>11. i + 3 \in 1 .. m
  BY <1>1, <1>6, <1>8, <1>9, <1>10
<1> QED BY <1>11 DEF m, p

\* The cells of the route from where it comes back to.
Ring(h) == {h.path[k] : k \in {j \in DOMAIN h.path : \E i \in 1 .. j : h.path[i] = h.at}}

LEMMA RingIs ==
  ASSUME NEW vessel, NEW gone, NEW h \in HandOff, RouteOK(vessel, gone, h),
         h.at \in Range(h.path)
  PROVE  /\ Ring(h) \subseteq Cells
         /\ \A c \in Ring(h) : c \in vessel.occupied \ gone /\ vessel.role[c] \in Wires
         /\ \A loops \in SUBSET Cells : Cardinality(loops \cup Ring(h)) >= 4
<1> DEFINE p == h.path
           m == Len(p)
<1>1. p \in Seq(Cells) /\ m \in Nat /\ DOMAIN p = 1 .. m
  BY DEF HandOff
<1>2. \A k \in 1 .. m : p[k] \in Cells
  BY <1>1
<1>3. /\ \A k \in 1 .. m : p[k] \in vessel.occupied /\ p[k] \notin gone /\ vessel.role[p[k]] \in Wires
      /\ \A j, k \in 1 .. m : p[j] = p[k] => j = k
  BY DEF RouteOK, RouteCells
<1>4. PICK i \in 1 .. m : p[i] = h.at
  BY <1>1 DEF Range
<1>5. i + 3 \in 1 .. m
  BY <1>4, RingIsLong
<1> HIDE DEF m
<1>6. ASSUME NEW k \in 1 .. m, i <= k PROVE p[k] \in Ring(h)
  <2>1. i \in 1 .. k
    BY <1>1, <1>4, <1>6
  <2>2. k \in {j \in DOMAIN h.path : \E n \in 1 .. j : h.path[n] = h.at}
    BY <1>1, <1>4, <1>6, <2>1
  <2> QED BY <2>2 DEF Ring
<1>7. \A c \in Ring(h) : \E k \in 1 .. m : c = p[k]
  BY <1>1 DEF Ring
<1>8. i \in 1 .. m /\ i + 1 \in 1 .. m /\ i + 2 \in 1 .. m /\ i <= i + 1 /\ i <= i + 2 /\ i <= i + 3
      /\ i <= i /\ i # i + 1 /\ i # i + 2 /\ i # i + 3 /\ i + 1 # i + 2 /\ i + 1 # i + 3
      /\ i + 2 # i + 3
  BY <1>1, <1>4, <1>5
<1> DEFINE four == {p[i], p[i + 1], p[i + 2], p[i + 3]}
<1>9. /\ p[i] \in Ring(h) /\ p[i + 1] \in Ring(h) /\ p[i + 2] \in Ring(h) /\ p[i + 3] \in Ring(h)
  BY <1>5, <1>6, <1>8
<1>10. /\ p[i] # p[i + 1] /\ p[i] # p[i + 2] /\ p[i] # p[i + 3]
       /\ p[i + 1] # p[i + 2] /\ p[i + 1] # p[i + 3] /\ p[i + 2] # p[i + 3]
  BY <1>3, <1>5, <1>8
<1>11. IsFiniteSet(four) /\ Cardinality(four) = 4
  <2> DEFINE c1 == p[i]
             c2 == p[i + 1]
             c3 == p[i + 2]
             c4 == p[i + 3]
  <2>1. c1 # c2 /\ c1 # c3 /\ c1 # c4 /\ c2 # c3 /\ c2 # c4 /\ c3 # c4
    BY <1>10
  <2> HIDE DEF c1, c2, c3, c4
  <2>2. IsFiniteSet({c1, c2, c3, c4}) /\ Cardinality({c1, c2, c3, c4}) = 4
    BY <2>1, FourApart
  <2> QED BY <2>2 DEF c1, c2, c3, c4
<1>12. four \subseteq Ring(h)
  BY <1>9
<1>13. Ring(h) \subseteq Cells
  BY <1>2, <1>7
<1> HIDE DEF four
<1>14. ASSUME NEW loops \in SUBSET Cells
       PROVE  Cardinality(loops \cup Ring(h)) >= 4
  <2> DEFINE all == loops \cup Ring(h)
  <2>1. all \subseteq Cells /\ four \subseteq all
    BY <1>12, <1>13
  <2> HIDE DEF all
  <2>2. IsFiniteSet(all)
    BY <2>1, CellsFinite, FS_Subset
  <2>3. Cardinality(four) <= Cardinality(all) /\ Cardinality(all) \in Nat
    BY <2>1, <2>2, FS_Subset, FS_CardinalityType
  <2> QED BY <1>11, <2>3 DEF all
<1>15. \A c \in Ring(h) : c \in vessel.occupied \ gone /\ vessel.role[c] \in Wires
  BY <1>3, <1>7
<1> QED BY <1>13, <1>14, <1>15

-----------------------------------------------------------------------------
(* The steps.                                                              *)

InvIs ==
  /\ ship \in Ships /\ dead \subseteq ship.occupied
  /\ walk \in Seq(HandOff) /\ flow \in FlowType /\ store \in StoreType

LEMMA InvShape == CircuitInv => InvIs
BY DEF CircuitInv, WalkOK, FlowOK, StoreOK, InvIs

LEMMA LivingCell ==
  ASSUME ship \in Ships, NEW c \in Living
  PROVE  /\ c \in ship.occupied /\ c \in Cells /\ PortsAt(c) \subseteq Sides
         /\ IsFiniteSet(PortsAt(c))
<1>1. c \in ship.occupied
  BY DEF Living
<1>2. c \in Cells /\ PortsAt(c) \subseteq Sides
  BY <1>1, TakenCell, PortsIn
<1>3. IsFiniteSet(Sides)
  BY FourApart DEF Sides
<1> QED BY <1>1, <1>2, <1>3, FS_Subset

\* What a cell passes on does not go back where it came from.
LEMMA PassesIn ==
  ASSUME ship \in Ships, NEW c \in Cells, NEW by, Takes(c, by)
  PROVE  /\ PassesTo(c, by) \subseteq Sides \ {by} /\ IsFiniteSet(PassesTo(c, by))
         /\ RoleAt(c) \notin PassRoles => PassesTo(c, by) = {}
<1>1. /\ c \in Living
      /\ RoleAt(c) = "transistor" => by \in {InPort(c), GatePort(c)}
  BY DEF Takes
<1>2. PortsAt(c) \subseteq Sides /\ IsFiniteSet(PortsAt(c))
  BY <1>1, LivingCell
<1>3. "transistor" \in PassRoles
  BY DEF PassRoles
<1>4. CASE RoleAt(c) \notin PassRoles
  <2>1. PassesTo(c, by) = {}
    BY <1>3, <1>4 DEF PassesTo
  <2> QED BY <2>1, FS_EmptySet
<1>5. CASE RoleAt(c) = "transistor"
  <2>1. PassesTo(c, by) = IF by # GatePort(c) /\ store.open[c]
                          THEN PortsAt(c) \ {InPort(c), GatePort(c)} ELSE {}
    BY <1>3, <1>5 DEF PassesTo
  <2>2. PassesTo(c, by) \subseteq PortsAt(c) /\ PassesTo(c, by) \subseteq Sides \ {by}
    BY <1>1, <1>2, <1>5, <2>1
  <2> QED BY <1>2, <1>3, <1>5, <2>2, FS_Subset
<1>6. CASE RoleAt(c) \in PassRoles /\ RoleAt(c) # "transistor"
  <2>1. PassesTo(c, by) = PortsAt(c) \ {by}
    BY <1>6 DEF PassesTo
  <2>2. PassesTo(c, by) \subseteq PortsAt(c) /\ PassesTo(c, by) \subseteq Sides \ {by}
    BY <1>2, <2>1
  <2> QED BY <1>2, <1>6, <2>2, FS_Subset
<1> QED BY <1>4, <1>5, <1>6

Taken1(vessel, gone, w) ==
  /\ Head(w) \in HandOff /\ RouteOK(vessel, gone, Head(w))
  /\ Tail(w) \in Seq(HandOff)
  /\ \A i \in 1 .. Len(Tail(w)) : RouteOK(vessel, gone, Tail(w)[i])
  /\ Sum(Worths(vessel, w)) = WorthOf(vessel, Head(w)) + Sum(Worths(vessel, Tail(w)))

LEMMA TakeNext ==
  ASSUME NEW vessel \in Ships, NEW gone, NEW w \in Seq(HandOff), w # <<>>,
         \A i \in 1 .. Len(w) : RouteOK(vessel, gone, w[i])
  PROVE  Taken1(vessel, gone, w)
<1> DEFINE h == Head(w)
           t == Tail(w)
<1>1. Len(w) \in Nat /\ Len(w) >= 1 /\ 1 \in 1 .. Len(w) /\ h = w[1]
  BY EmptySeq
<1>2. h \in HandOff /\ RouteOK(vessel, gone, h)
  BY <1>1
<1>3. /\ t \in Seq(HandOff) /\ Len(t) = Len(w) - 1
      /\ \A i \in 1 .. Len(w) - 1 : t[i] = w[i + 1]
  BY <1>1
<1> HIDE DEF h, t
<1>4. \A i \in 1 .. Len(t) : RouteOK(vessel, gone, t[i])
  <2> SUFFICES ASSUME NEW i \in 1 .. Len(t)
               PROVE  RouteOK(vessel, gone, t[i])
    OBVIOUS
  <2>1. i + 1 \in 1 .. Len(w) /\ t[i] = w[i + 1]
    BY <1>1, <1>3
  <2> QED BY <2>1
<1>5. w = <<h>> \o t
  <2>1. <<h>> \in Seq(HandOff) /\ Len(<<h>>) = 1 /\ <<h>>[1] = h
    BY <1>2
  <2> DEFINE o == <<h>>
  <2> HIDE DEF o
  <2>2. o \o t \in Seq(HandOff) /\ Len(o \o t) = Len(o) + Len(t)
    BY <1>3, <2>1 DEF o
  <2>3. \A i \in 1 .. Len(o) + Len(t) : (o \o t)[i] = IF i <= Len(o) THEN o[i] ELSE t[i - Len(o)]
    BY <1>3, <2>1 DEF o
  <2>4. Len(o \o t) = Len(w)
    BY <1>1, <1>3, <2>1, <2>2 DEF o
  <2>5. \A i \in 1 .. Len(w) : (o \o t)[i] = w[i]
    <3> SUFFICES ASSUME NEW i \in 1 .. Len(w)
                 PROVE  (o \o t)[i] = w[i]
      OBVIOUS
    <3>1. Len(o) = 1 /\ o[1] = h /\ i \in 1 .. Len(o) + Len(t)
      BY <1>1, <1>3, <2>1 DEF o
    <3>2. CASE i = 1
      <4>1. i <= Len(o) /\ o[i] = w[i]
        BY <1>1, <3>1, <3>2
      <4>2. (o \o t)[i] = o[i]
        BY <2>3, <3>1, <4>1
      <4> QED BY <4>1, <4>2
    <3>3. CASE i # 1
      <4>1. i - 1 \in 1 .. Len(w) - 1 /\ (i - 1) + 1 = i
        BY <1>1, <3>3
      <4>2. t[i - 1] = w[i]
        BY <1>3, <4>1
      <4>3. ~(i <= Len(o)) /\ i - Len(o) = i - 1
        BY <1>1, <3>1, <3>3
      <4>4. (o \o t)[i] = t[i - Len(o)]
        BY <2>3, <3>1, <4>3
      <4> QED BY <4>2, <4>3, <4>4
    <3> QED BY <3>2, <3>3
  <2>6. o \o t = w
    BY <2>2, <2>4, <2>5, SeqEqual
  <2> QED BY <2>6 DEF o
<1>6. Sum(Worths(vessel, <<h>> \o t)) = WorthOf(vessel, h) + Sum(Worths(vessel, t))
  <2> DEFINE o == <<h>>
  <2>1. o \in Seq(HandOff) /\ Sum(Worths(vessel, o)) = WorthOf(vessel, h)
    BY <1>2, WorthsOne
  <2> HIDE DEF o
  <2>2. Sum(Worths(vessel, o \o t)) = Sum(Worths(vessel, o)) + Sum(Worths(vessel, t))
    BY <1>3, <2>1, WorthsJoined
  <2> QED BY <2>1, <2>2 DEF o
<1> QED BY <1>2, <1>3, <1>4, <1>5, <1>6 DEF Taken1, h, t

\* What the routes of two walks are, those of both are.
LEMMA RoutesJoined ==
  ASSUME NEW vessel, NEW gone, NEW a \in Seq(HandOff), NEW b \in Seq(HandOff),
         \A i \in 1 .. Len(a) : RouteOK(vessel, gone, a[i]),
         \A i \in 1 .. Len(b) : RouteOK(vessel, gone, b[i])
  PROVE  /\ a \o b \in Seq(HandOff)
         /\ \A i \in 1 .. Len(a \o b) : RouteOK(vessel, gone, (a \o b)[i])
<1>1. /\ a \o b \in Seq(HandOff) /\ Len(a \o b) = Len(a) + Len(b)
      /\ Len(a) \in Nat /\ Len(b) \in Nat
  OBVIOUS
<1>2. \A i \in 1 .. Len(a) + Len(b) : (a \o b)[i] = IF i <= Len(a) THEN a[i] ELSE b[i - Len(a)]
  OBVIOUS
<1>3. ASSUME NEW i \in 1 .. Len(a) + Len(b)
      PROVE  RouteOK(vessel, gone, (a \o b)[i])
  <2>1. CASE i <= Len(a)
    BY <1>1, <1>2, <2>1
  <2>2. CASE ~(i <= Len(a))
    <3>1. i - Len(a) \in 1 .. Len(b)
      BY <1>1, <2>2
    <3> QED BY <1>2, <2>2, <3>1
  <2> QED BY <2>1, <2>2
<1> QED BY <1>1, <1>3

LEMMA AccountedStill ==
  ASSUME NEW vessel \in Ships, NEW kept \in [Cells -> Nat], NEW kept2 \in [Cells -> Nat],
         NEW gave \in [Cells -> Nat], NEW w \in Seq(HandOff), NEW w2 \in Seq(HandOff),
         Accounted(vessel, kept, w, gave),
         Pow(2, Cardinality(Amps(vessel))) * OverCells(kept2) + Sum(Worths(vessel, w2))
           <= Pow(2, Cardinality(Amps(vessel))) * OverCells(kept) + Sum(Worths(vessel, w))
  PROVE  Accounted(vessel, kept2, w2, gave)
<1> DEFINE n  == Cardinality(Amps(vessel))
           x  == Pow(2, n) * OverCells(kept)
           x2 == Pow(2, n) * OverCells(kept2)
           y  == Sum(Worths(vessel, w))
           y2 == Sum(Worths(vessel, w2))
           z  == Pow(3, n) * OverCells(gave)
<1>1. Pow(2, n) \in Nat /\ Pow(3, n) \in Nat
  BY AmplifiersFinite, PowIs
<1>2. OverCells(kept) \in Nat /\ OverCells(kept2) \in Nat /\ OverCells(gave) \in Nat
  BY OverNat
<1>3. \A a, b \in Nat : a * b \in Nat
  OBVIOUS
<1>4. x \in Nat /\ x2 \in Nat /\ z \in Nat
  <2> HIDE DEF n
  <2> QED BY <1>1, <1>2, <1>3
<1>5. y \in Nat /\ y2 \in Nat
  BY WorthsNat
<1>6. x + y <= z /\ x2 + y2 <= x + y
  BY DEF Accounted
<1> HIDE DEF x, x2, y, y2, z
<1>7. x2 + y2 <= z
  BY <1>4, <1>5, <1>6
<1> QED BY <1>7 DEF Accounted, x2, y2, z

\* A hand-off less on its way.
LEMMA AccountedLost ==
  ASSUME NEW vessel \in Ships, NEW gone, NEW kept \in [Cells -> Nat], NEW gave \in [Cells -> Nat],
         NEW w \in Seq(HandOff), Taken1(vessel, gone, w), Accounted(vessel, kept, w, gave)
  PROVE  Accounted(vessel, kept, Tail(w), gave)
<1> DEFINE h  == Head(w)
           x  == Pow(2, Cardinality(Amps(vessel))) * OverCells(kept)
           y  == Sum(Worths(vessel, w))
           y2 == Sum(Worths(vessel, Tail(w)))
           z  == WorthOf(vessel, h)
<1>1. Tail(w) \in Seq(HandOff) /\ h \in HandOff /\ y = z + y2
  BY DEF Taken1
<1>2. y \in Nat /\ y2 \in Nat /\ z \in Nat
  <2>1. Sum(Worths(vessel, <<h>>)) = z /\ <<h>> \in Seq(HandOff)
    BY <1>1, WorthsOne
  <2>2. Sum(Worths(vessel, <<h>>)) \in Nat
    BY <2>1, WorthsNat
  <2> QED BY <1>1, <2>1, <2>2, WorthsNat
<1>3. x \in Nat
  <2>1. Pow(2, Cardinality(Amps(vessel))) \in Nat /\ OverCells(kept) \in Nat
    BY AmplifiersFinite, PowIs, OverNat
  <2>2. \A a, b \in Nat : a * b \in Nat
    OBVIOUS
  <2> QED BY <2>1, <2>2
<1>4. x + y2 <= x + y
  <2> HIDE DEF x, y, y2, z
  <2> QED BY <1>1, <1>2, <1>3
<1> QED BY <1>1, <1>4, AccountedStill

LEMMA KeptType ==
  ASSUME flow \in FlowType
  PROVE  Kept \in [Cells -> Nat]
BY DEF Kept, FlowType

LEMMA LostStep == CircuitInv /\ Lost => CircuitInv'
<1> SUFFICES ASSUME CircuitInv, Lost
             PROVE  CircuitInv'
  OBVIOUS
<1>1. InvIs
  BY InvShape
<1>2. /\ walk # <<>> /\ walk' = Tail(walk) /\ ship' = ship /\ dead' = dead
      /\ second' = second /\ cursor' = cursor /\ flow' = flow /\ store' = store
  BY DEF Lost
<1>3. Taken1(ship, dead, walk)
  BY <1>1, <1>2, TakeNext DEF CircuitInv, WalkOK, InvIs
<1>4. ClockOK'
  BY <1>2 DEF CircuitInv, ClockOK
<1>5. WalkOK'
  BY <1>2, <1>3 DEF WalkOK, Taken1
<1>6. FlowOK'
  BY <1>2 DEF CircuitInv, FlowOK, LoopsAreWires, Living, RoleAt
<1>7. StoreOK'
  BY <1>2 DEF CircuitInv, StoreOK, RoleAt
<1>8. Balanced'
  <2>1. Kept' = Kept
    BY <1>2 DEF Kept, Ends, Living, RoleAt
  <2>2. Kept \in [Cells -> Nat] /\ flow.gave \in [Cells -> Nat]
    BY <1>1, KeptType DEF InvIs, FlowType
  <2>3. Accounted(ship, Kept, walk, flow.gave)
    BY DEF CircuitInv, Balanced
  <2>4. Accounted(ship, Kept, Tail(walk), flow.gave)
    BY <1>1, <1>3, <2>2, <2>3, AccountedLost DEF InvIs
  <2> QED BY <1>2, <2>1, <2>4 DEF Balanced
<1> QED BY <1>1, <1>2, <1>4, <1>5, <1>6, <1>7, <1>8 DEF CircuitInv, InvIs

LEMMA ClosesStep == CircuitInv /\ Closes => CircuitInv'
<1> SUFFICES ASSUME CircuitInv, Closes
             PROVE  CircuitInv'
  OBVIOUS
<1> DEFINE h == Head(walk)
<1>1. InvIs
  BY InvShape
<1>2. /\ walk # <<>> /\ walk' = Tail(walk) /\ ship' = ship /\ dead' = dead
      /\ second' = second /\ cursor' = cursor /\ store' = store
      /\ h.at \in Range(h.path) /\ flow' = [flow EXCEPT !.loops = @ \cup Ring(h)]
  BY DEF Closes, Ring
<1>3. Taken1(ship, dead, walk)
  BY <1>1, <1>2, TakeNext DEF CircuitInv, WalkOK, InvIs
<1>4. /\ Ring(h) \subseteq Cells
      /\ \A c \in Ring(h) : c \in ship.occupied \ dead /\ ship.role[c] \in Wires
      /\ \A loops \in SUBSET Cells : Cardinality(loops \cup Ring(h)) >= 4
  <2>1. h \in HandOff /\ RouteOK(ship, dead, h)
    BY <1>3 DEF Taken1
  <2> HIDE DEF h
  <2> QED BY <1>2, <2>1, RingIs
<1> HIDE DEF h
<1>5. /\ flow'.loops = flow.loops \cup Ring(h) /\ flow' \in FlowType
      /\ flow'.pin = flow.pin /\ flow'.gave = flow.gave
  <2>1. flow \in FlowType
    BY <1>1 DEF InvIs
  <2> QED BY <1>2, <1>4, <2>1 DEF FlowType
<1>6. ClockOK'
  BY <1>2 DEF CircuitInv, ClockOK
<1>7. WalkOK'
  BY <1>2, <1>3 DEF WalkOK, Taken1
<1>8. FlowOK'
  <2>1. flow.loops \in SUBSET Cells
    BY <1>1 DEF InvIs, FlowType
  <2>2. flow.loops \subseteq Living /\ \A c \in flow.loops : ship.role[c] \in Wires
    BY DEF CircuitInv, FlowOK, LoopsAreWires, RoleAt, Wires
  <2>3. Living' = Living
    BY <1>2 DEF Living
  <2>4. flow'.loops \subseteq Living'
    BY <1>4, <1>5, <2>2, <2>3 DEF Living
  <2>5. LoopsAreWires'
    <3>1. \A c \in flow'.loops : ship'.role[c] \in Wires
      BY <1>2, <1>4, <1>5, <2>2
    <3>2. Cardinality(flow'.loops) >= 4
      BY <1>4, <1>5, <2>1
    <3> QED BY <3>1, <3>2 DEF LoopsAreWires, RoleAt, Wires
  <2> QED BY <1>5, <2>4, <2>5 DEF FlowOK
<1>9. StoreOK'
  BY <1>2 DEF CircuitInv, StoreOK, RoleAt
<1>10. Balanced'
  <2>1. Kept' = Kept
    BY <1>2, <1>5 DEF Kept, Ends, Living, RoleAt
  <2>2. Kept \in [Cells -> Nat] /\ flow.gave \in [Cells -> Nat]
    BY <1>1, KeptType DEF InvIs, FlowType
  <2>3. Accounted(ship, Kept, walk, flow.gave)
    BY DEF CircuitInv, Balanced
  <2>4. Accounted(ship, Kept, Tail(walk), flow.gave)
    BY <1>1, <1>3, <2>2, <2>3, AccountedLost DEF InvIs
  <2> QED BY <1>2, <1>5, <2>1, <2>4 DEF Balanced
<1> QED BY <1>1, <1>2, <1>6, <1>7, <1>8, <1>9, <1>10 DEF CircuitInv, InvIs

-----------------------------------------------------------------------------
(* A feed.                                                                 *)

LEMMA ScaledBounds ==
  ASSUME NEW c, NEW power \in Nat
  PROVE  /\ Scaled(c, power) \in Nat
         /\ PartAt(c).item = "Amplifier" => 2 * Scaled(c, power) <= 3 * power
         /\ PartAt(c).item # "Amplifier" => Scaled(c, power) <= power
<1>1. /\ (power * 3) \div 2 \in Nat /\ 2 * ((power * 3) \div 2) <= 3 * power
      /\ (power * 3) \div 4 \in Nat /\ (power * 3) \div 4 <= power
      /\ power \div 2 \in Nat /\ power \div 2 <= power
      /\ power \div 4 \in Nat /\ power \div 4 <= power
  OBVIOUS
<1> DEFINE i == PartAt(c).item
<1>2. CASE i = "Amplifier"
  BY <1>1, <1>2 DEF Scaled
<1>3. CASE i = "Resistor1"
  BY <1>1, <1>3 DEF Scaled
<1>4. CASE i = "Resistor2"
  BY <1>1, <1>4 DEF Scaled
<1>5. CASE i = "Resistor4"
  BY <1>1, <1>5 DEF Scaled
<1>6. CASE i \notin {"Amplifier", "Resistor1", "Resistor2", "Resistor4"}
  BY <1>6 DEF Scaled
<1> QED BY <1>2, <1>3, <1>4, <1>5, <1>6

\* What goes on from a wire counts for no more than what came to it: an Amplifier makes
\* half as much again of it, and there is one Amplifier less for it to pass.
LEMMA WireKeeps ==
  ASSUME ship \in Ships, NEW c \in ship.occupied, NEW p \in Seq(Cells), NEW power \in Nat,
         \A k \in 1 .. Len(p) : p[k] \in ship.occupied /\ p[k] # c
  PROVE  Scaled(c, power) * Worth(Cardinality(Amps(ship)), Cardinality(Passed(ship, Append(p, c))))
           <= power * Worth(Cardinality(Amps(ship)), Cardinality(Passed(ship, p)))
<1> DEFINE n == Cardinality(Amps(ship))
           a == Cardinality(Passed(ship, p))
           b == Cardinality(Passed(ship, Append(p, c)))
           x == Scaled(c, power)
<1>1. n \in Nat /\ a \in 0 .. n /\ b \in 0 .. n
  BY AmplifiersFinite, PassedIn
<1>2. b = a + (IF PartAt(c).item = "Amplifier" THEN 1 ELSE 0)
  BY PassedOn DEF PartAt, Held
<1>3. /\ x \in Nat
      /\ PartAt(c).item = "Amplifier" => 2 * x <= 3 * power
      /\ PartAt(c).item # "Amplifier" => x <= power
  BY ScaledBounds
<1> HIDE DEF n, a, b, x
<1>4. Worth(n, a) \in Nat /\ Worth(n, b) \in Nat /\ (a < n => 3 * Worth(n, a + 1) = 2 * Worth(n, a))
  BY <1>1, WorthStep
<1>5. CASE PartAt(c).item = "Amplifier"
  <2>1. b = a + 1 /\ a < n
    BY <1>1, <1>2, <1>5
  <2>2. 3 * Worth(n, b) = 2 * Worth(n, a) /\ 2 * x <= 3 * power
    BY <1>3, <1>4, <1>5, <2>1
  <2>3. ASSUME NEW s \in Nat, NEW t \in Nat, NEW u \in Nat, NEW v \in Nat,
               2 * s <= 3 * t, 3 * v = 2 * u
        PROVE  s * v <= t * u
    <3>1. 3 * (s * v) = s * (3 * v) /\ s * (2 * u) = (2 * s) * u /\ (3 * t) * u = 3 * (t * u)
      OBVIOUS
    <3>2. (2 * s) * u <= (3 * t) * u
      <4>1. \A d, e, f \in Nat : d <= e => d * f <= e * f
        OBVIOUS
      <4>2. 2 * s \in Nat /\ 3 * t \in Nat
        OBVIOUS
      <4> QED BY <2>3, <4>1, <4>2
    <3>3. s * v \in Nat /\ t * u \in Nat
      OBVIOUS
    <3>4. 3 * (s * v) <= 3 * (t * u)
      BY <2>3, <3>1, <3>2
    <3> QED BY <3>3, <3>4
  <2>4. x * Worth(n, b) <= power * Worth(n, a)
    BY <1>3, <1>4, <2>2, <2>3
  <2> QED BY <2>4 DEF n, a, b, x
<1>6. CASE PartAt(c).item # "Amplifier"
  <2>1. b = a /\ x <= power
    BY <1>1, <1>2, <1>3, <1>6
  <2>2. \A s, t, u \in Nat : s <= t => s * u <= t * u
    OBVIOUS
  <2>3. x * Worth(n, b) <= power * Worth(n, a)
    BY <1>3, <1>4, <2>1, <2>2
  <2> QED BY <2>3 DEF n, a, b, x
<1> QED BY <1>5, <1>6

LEMMA ForwardNone ==
  ASSUME NEW c, NEW power, NEW path
  PROVE  Forward(c, {}, power, path) = <<>>
<1>1. \A s \in Sides : Sent(c, {}, power, path, s) = <<>>
  BY DEF Sent
<1>2. "N" \in Sides /\ "E" \in Sides /\ "S" \in Sides /\ "W" \in Sides
  BY DEF Sides
<1> QED BY <1>1, <1>2, ForwardIs

LEMMA AtMostBounds ==
  ASSUME NEW n \in Nat, NEW most \in Nat
  PROVE  AtMost(n, most) \in Nat /\ AtMost(n, most) <= n /\ AtMost(n, most) <= most
BY DEF AtMost

\* What a feed does to the flow.
LEMMA FedIs ==
  ASSUME flow \in FlowType, NEW h \in HandOff, NEW power \in Nat, flow.budget > 0
  PROVE  /\ Fed(h, power) \in FlowType
         /\ Fed(h, power).loops = flow.loops /\ Fed(h, power).gave = flow.gave
         /\ Fed(h, power).pin[h.at] = flow.pin[h.at] + power
         /\ \A c \in Cells : c # h.at => Fed(h, power).pin[c] = flow.pin[c]
<1> DEFINE c == h.at
           f == Fed(h, power)
<1>1. c \in Cells
  BY DEF HandOff
<1>2. /\ flow.pin \in [Cells -> Nat] /\ flow.absorb \in [Cells -> Nat]
      /\ flow.gate \in [Cells -> Nat] /\ flow.loops \in SUBSET Cells
      /\ flow.budget \in 0 .. FlowBudget /\ flow.gave \in [Cells -> Nat]
  BY DEF FlowType
<1> DEFINE pin  == [flow.pin EXCEPT ![c] = @ + power]
           abs  == [flow.absorb EXCEPT ![c] = IF RoleAt(c) \in StoreRoles THEN @ + power ELSE @]
           gate == [flow.gate EXCEPT ![c] = IF RoleAt(c) = "transistor" /\ h.by = GatePort(c)
                                            THEN @ + power ELSE @]
<1>3. f = [pin |-> pin, absorb |-> abs, gate |-> gate, loops |-> flow.loops,
           budget |-> flow.budget - 1, gave |-> flow.gave]
  <2>1. DOMAIN flow = {"pin", "absorb", "gate", "loops", "budget", "gave"}
    BY DEF FlowType
  <2>2. DOMAIN f = DOMAIN flow
    BY DEF Fed
  <2>3. f.pin = pin
    BY <2>1 DEF Fed
  <2>4. f.absorb = abs
    BY <2>1 DEF Fed
  <2>5. f.gate = gate
    BY <2>1 DEF Fed
  <2>6. f.loops = flow.loops /\ f.budget = flow.budget - 1 /\ f.gave = flow.gave
    BY <2>1 DEF Fed
  <2>7. f = [i \in DOMAIN f |-> f[i]]
    BY DEF Fed
  <2> HIDE DEF f, pin, abs, gate
  <2> QED BY <2>1, <2>2, <2>3, <2>4, <2>5, <2>6, <2>7
<1>4. pin \in [Cells -> Nat] /\ abs \in [Cells -> Nat] /\ gate \in [Cells -> Nat]
  BY <1>1, <1>2
<1>5. flow.budget - 1 \in 0 .. FlowBudget
  BY <1>2, CircuitAssumption
<1>6. pin[c] = flow.pin[c] + power /\ \A d \in Cells : d # c => pin[d] = flow.pin[d]
  BY <1>1, <1>2
<1> HIDE DEF pin, abs, gate, f, c
<1>7. f \in FlowType
  BY <1>2, <1>3, <1>4, <1>5 DEF FlowType
<1>8. f.loops = flow.loops /\ f.gave = flow.gave /\ f.pin = pin
  BY <1>3
<1> QED BY <1>6, <1>7, <1>8 DEF f, c

LEMMA FeedsStep == CircuitInv /\ Feeds => CircuitInv'
<1> SUFFICES ASSUME CircuitInv, Feeds
             PROVE  CircuitInv'
  OBVIOUS
<1> DEFINE h    == Head(walk)
           t    == Tail(walk)
           P    == AtMost(h.power, PowerMax)
           outs == PassesTo(h.at, h.by)
           path == Append(h.path, h.at)
           x    == Scaled(h.at, P)
           new  == Forward(h.at, outs, x, path)
           n    == Cardinality(Amps(ship))
<1>1. InvIs
  BY InvShape
<1>2. /\ walk # <<>> /\ walk' = new \o t /\ ship' = ship /\ dead' = dead
      /\ second' = second /\ cursor' = cursor /\ store' = store
      /\ Takes(h.at, h.by) /\ h.at \notin Range(h.path) /\ flow.budget > 0
      /\ flow' = Fed(h, P)
  BY DEF Feeds, Arrives
<1>3. Taken1(ship, dead, walk)
  BY <1>1, <1>2, TakeNext DEF CircuitInv, WalkOK, InvIs
<1>4. /\ h \in HandOff /\ RouteOK(ship, dead, h) /\ t \in Seq(HandOff)
      /\ \A i \in 1 .. Len(t) : RouteOK(ship, dead, t[i])
      /\ Sum(Worths(ship, walk)) = WorthOf(ship, h) + Sum(Worths(ship, t))
  BY <1>3 DEF Taken1
<1> HIDE DEF h, t
<1>5. h.at \in Cells /\ h.by \in Sides /\ h.power \in Nat /\ h.path \in Seq(Cells)
  BY <1>4 DEF HandOff
<1>6. P \in Nat /\ P <= h.power
  <2>1. PowerMax \in Nat
    BY DEF PowerMax
  <2> QED BY <1>5, <2>1, AtMostBounds
<1> HIDE DEF P
<1>7. h.at \in Living /\ h.at \in ship.occupied \ dead
  BY <1>2 DEF Takes, Living
<1>8. \A k \in 1 .. Len(h.path) : h.path[k] \in ship.occupied /\ h.path[k] # h.at
  BY <1>2, <1>4, <1>5 DEF RouteOK, RouteCells, Range
<1>9. path \in Seq(Cells)
  BY <1>5
<1>10. /\ outs \subseteq Sides \ {h.by} /\ IsFiniteSet(outs)
       /\ RoleAt(h.at) \notin PassRoles => outs = {}
  BY <1>1, <1>2, <1>5, PassesIn DEF InvIs
<1>11. x \in Nat
  BY <1>6, ScaledBounds
<1> HIDE DEF outs, path, x
<1>12. /\ new \in Seq(HandOff)
       /\ \A i \in 1 .. Len(new) : new[i] \in Ways(h.at, outs, x, path)
  BY <1>5, <1>9, <1>10, <1>11, ForwardType
<1>13. /\ flow' \in FlowType /\ flow'.loops = flow.loops /\ flow'.gave = flow.gave
       /\ flow'.pin[h.at] = flow.pin[h.at] + P
       /\ \A c \in Cells : c # h.at => flow'.pin[c] = flow.pin[c]
  BY <1>1, <1>2, <1>4, <1>6, FedIs DEF InvIs
<1>14. outs = {} => new = <<>>
  BY ForwardNone
<1> HIDE DEF new
<1>15. \A i \in 1 .. Len(new) : RouteOK(ship, dead, new[i])
  <2>1. CASE RoleAt(h.at) \in PassRoles
    <3>1. ship.role[h.at] \in Wires
      BY <2>1 DEF RoleAt, Wires
    <3>2. ASSUME NEW g \in Ways(h.at, outs, x, path)
          PROVE  RouteOK(ship, dead, g)
      BY <1>4, <1>7, <1>8, <1>10, <3>1, FedRoutes DEF path
    <3> QED BY <1>12, <3>2
  <2>2. CASE RoleAt(h.at) \notin PassRoles
    BY <1>10, <1>14, <2>2
  <2> QED BY <2>1, <2>2
<1>16. ClockOK'
  BY <1>2 DEF CircuitInv, ClockOK
<1>17. WalkOK'
  <2>1. /\ new \o t \in Seq(HandOff)
        /\ \A i \in 1 .. Len(new \o t) : RouteOK(ship, dead, (new \o t)[i])
    BY <1>4, <1>12, <1>15, RoutesJoined
  <2> QED BY <1>2, <2>1 DEF WalkOK
<1>18. FlowOK'
  BY <1>2, <1>13 DEF CircuitInv, FlowOK, LoopsAreWires, Living, RoleAt
<1>19. StoreOK'
  BY <1>2 DEF CircuitInv, StoreOK, RoleAt
<1>20. Balanced'
  <2> DEFINE A  == Pow(2, n)
             K  == OverCells(Kept)
             K2 == OverCells(Kept')
             w  == Worth(n, Cardinality(Passed(ship, h.path)))
             S  == Sum(Worths(ship, t))
             N  == Sum(Worths(ship, new))
  <2>1. /\ Kept \in [Cells -> Nat] /\ flow.gave \in [Cells -> Nat]
        /\ Kept' \in [Cells -> Nat] /\ flow'.gave = flow.gave
    <3>1. Kept \in [Cells -> Nat] /\ flow.gave \in [Cells -> Nat]
      BY <1>1, KeptType DEF InvIs, FlowType
    <3>2. Kept' \in [Cells -> Nat]
      BY <1>13 DEF Kept, FlowType
    <3> QED BY <1>13, <3>1, <3>2
  <2>2. Ends(h.at) => K2 = K + P
    <3> SUFFICES ASSUME Ends(h.at)
                 PROVE  K2 = K + P
      OBVIOUS
    <3>1. \A c \in Cells : Kept[c] = (IF Ends(c) THEN flow.pin[c] ELSE 0)
      BY DEF Kept
    <3>2. \A c \in Cells : Kept'[c] = (IF Ends(c) THEN flow'.pin[c] ELSE 0)
      BY <1>2 DEF Kept, Ends, Living, RoleAt
    <3>3. Kept'[h.at] = Kept[h.at] + P
      BY <1>5, <1>13, <3>1, <3>2
    <3>4. \A c \in Cells : c # h.at => Kept'[c] = Kept[c]
      BY <1>13, <3>1, <3>2
    <3> QED BY <1>5, <1>6, <2>1, <3>3, <3>4, OverRaised
  <2>3. ~Ends(h.at) => K2 = K
    <3>1. ASSUME ~Ends(h.at) PROVE Kept' = Kept
      BY <1>2, <1>13, <3>1 DEF Kept, Ends, Living, RoleAt
    <3> QED BY <3>1
  <2>4. A \in Nat /\ K \in Nat /\ K2 \in Nat
    BY <1>1, <2>1, AmplifiersFinite, PowIs, OverNat DEF InvIs
  <2>5. w \in Nat /\ A <= w
    BY <1>1, WorthOfBounds DEF WorthOK, InvIs
  <2>6. WorthOf(ship, h) = h.power * w
    BY DEF WorthOf
  <2>7. S \in Nat /\ N \in Nat
    BY <1>1, <1>4, <1>12, WorthsNat DEF InvIs
  <2>8. Sum(Worths(ship, new \o t)) = N + S /\ new \o t \in Seq(HandOff)
    BY <1>1, <1>4, <1>12, WorthsJoined DEF InvIs
  <2>9. ~Ends(h.at) => N <= P * w
    <3>1. CASE RoleAt(h.at) \in PassRoles
      <4>1. N <= x * Worth(n, Cardinality(Passed(ship, path)))
        BY <1>1, <1>5, <1>9, <1>10, <1>11, ForwardSum DEF InvIs, new
      <4>2. x * Worth(n, Cardinality(Passed(ship, path))) <= P * w
        BY <1>1, <1>5, <1>6, <1>7, <1>8, WireKeeps DEF InvIs, x, path
      <4>3. Worth(n, Cardinality(Passed(ship, path))) \in Nat
        BY <1>1, WorthOfBounds DEF WorthOK, InvIs
      <4>4. \A a, b \in Nat : a * b \in Nat
        OBVIOUS
      <4>5. x * Worth(n, Cardinality(Passed(ship, path))) \in Nat /\ P * w \in Nat
        BY <1>6, <1>11, <2>5, <4>3, <4>4
      <4> HIDE DEF N, w, n
      <4> QED BY <2>7, <4>1, <4>2, <4>5
    <3>2. CASE RoleAt(h.at) \notin PassRoles
      <4>1. N = 0
        BY <1>1, <1>10, <1>14, <3>2, WorthsNone DEF InvIs
      <4>2. \A a, b \in Nat : 0 <= a * b
        OBVIOUS
      <4> HIDE DEF N, w
      <4> QED BY <1>6, <2>5, <4>1, <4>2
    <3> QED BY <3>1, <3>2
  <2>10. Ends(h.at) => N = 0
    <3>1. Ends(h.at) => RoleAt(h.at) \notin PassRoles
      BY DEF Ends
    <3> QED BY <1>1, <1>10, <1>14, <3>1, WorthsNone DEF InvIs
  <2>11. Accounted(ship, Kept, walk, flow.gave)
    BY DEF CircuitInv, Balanced
  <2>12. Sum(Worths(ship, walk)) = h.power * w + S
    BY <1>4, <2>6
  <2> HIDE DEF A, K, K2, w, S, N
  <2>13. A * K2 + (N + S) <= A * K + (h.power * w + S)
    <3>1. \A a, b \in Nat : a * b \in Nat
      OBVIOUS
    <3>2. A * K \in Nat /\ h.power * w \in Nat /\ P * w \in Nat /\ A * P \in Nat /\ A * K2 \in Nat
      BY <1>5, <1>6, <2>4, <2>5, <3>1
    <3>3. P * w <= h.power * w
      <4>1. \A a, b, c \in Nat : a <= b => a * c <= b * c
        OBVIOUS
      <4> QED BY <1>5, <1>6, <2>5, <4>1
    <3>4. A * P <= P * w
      <4>1. \A a, b, c \in Nat : a <= b => a * c <= c * b
        OBVIOUS
      <4> QED BY <1>6, <2>4, <2>5, <4>1
    <3>5. CASE Ends(h.at)
      <4>1. A * K2 = A * K + A * P
        <5>1. \A a, b, c \in Nat : a * (b + c) = a * b + a * c
          OBVIOUS
        <5> QED BY <1>6, <2>2, <2>4, <3>5, <5>1
      <4> QED BY <2>7, <2>10, <3>2, <3>3, <3>4, <3>5, <4>1
    <3>6. CASE ~Ends(h.at)
      BY <2>3, <2>7, <2>9, <3>2, <3>3, <3>6
    <3> QED BY <3>5, <3>6
  <2>14. A * K2 + Sum(Worths(ship, new \o t)) <= A * K + Sum(Worths(ship, walk))
    BY <2>8, <2>12, <2>13
  <2>15. Accounted(ship, Kept', new \o t, flow.gave)
    BY <1>1, <2>1, <2>8, <2>11, <2>14, AccountedStill DEF InvIs, A, K, K2
  <2> QED BY <1>2, <2>1, <2>15 DEF Balanced
<1> QED BY <1>1, <1>2, <1>16, <1>17, <1>18, <1>19, <1>20 DEF CircuitInv, InvIs

-----------------------------------------------------------------------------
(* A source.                                                               *)

\* No source lets go of more than it stores.
ReleaseOK(c) ==
  /\ Release(c) \in Nat
  /\ RoleAt(c) \in {"battery", "capacitor"} => Release(c) <= store.q[c]
  /\ RoleAt(c) \notin StoreRoles \cup {"generator"} => Release(c) = 0

LEMMA ReleaseIs ==
  ASSUME store \in StoreType, NEW c \in Cells
  PROVE  ReleaseOK(c)
<1>1. store.q[c] \in Nat /\ store.q2[c] \in Nat
  BY DEF StoreType
<1>2. GeneratorOutput \in Nat /\ BatRate \in Nat
  BY DEF GeneratorOutput, BatRate
<1>3. CASE RoleAt(c) = "generator"
  <2>1. Release(c) = GeneratorOutput
    BY <1>3 DEF Release
  <2> QED BY <1>2, <1>3, <2>1 DEF ReleaseOK
<1>4. CASE RoleAt(c) = "battery"
  <2>1. Release(c) = AtMost(store.q[c], BatRate)
    BY <1>4 DEF Release
  <2> QED BY <1>1, <1>2, <1>4, <2>1, AtMostBounds DEF ReleaseOK, StoreRoles
<1>5. CASE RoleAt(c) = "capacitor"
  <2>1. Release(c) = IF store.q[c] >= CapFull THEN store.q[c] ELSE 0
    BY <1>5 DEF Release
  <2> QED BY <1>1, <1>5, <2>1 DEF ReleaseOK, StoreRoles
<1>6. CASE RoleAt(c) = "delayer"
  <2>1. Release(c) = store.q2[c]
    BY <1>6 DEF Release
  <2> QED BY <1>1, <1>6, <2>1 DEF ReleaseOK, StoreRoles
<1>7. CASE RoleAt(c) \notin {"generator", "battery", "capacitor", "delayer"}
  <2>1. Release(c) = 0
    BY <1>7 DEF Release
  <2> QED BY <1>7, <2>1 DEF ReleaseOK
<1> QED BY <1>3, <1>4, <1>5, <1>6, <1>7

\* What is left in the stores is no more than there was.
StoreLeft(c) ==
  /\ StoreAfter(c) \in StoreType
  /\ \A e \in Cells : RoleAt(e) \in {"battery", "capacitor"} => StoreAfter(c).q[e] <= store.q[e]

LEMMA StoreLeftIs ==
  ASSUME store \in StoreType, NEW c \in Cells
  PROVE  StoreLeft(c)
<1>1. /\ store.q \in [Cells -> Nat] /\ store.q2 \in [Cells -> Nat]
      /\ store.open \in [Cells -> BOOLEAN]
      /\ store = [q |-> store.q, q2 |-> store.q2, open |-> store.open]
  BY DEF StoreType
<1>2. ReleaseOK(c)
  BY ReleaseIs
<1>3. ASSUME NEW q \in [Cells -> Nat], NEW q2 \in [Cells -> Nat]
      PROVE  [q |-> q, q2 |-> q2, open |-> store.open] \in StoreType
  BY <1>1 DEF StoreType
<1>4. CASE RoleAt(c) = "delayer"
  <2> DEFINE q  == [store.q EXCEPT ![c] = 0]
             q2 == [store.q2 EXCEPT ![c] = store.q[c]]
  <2>1. StoreAfter(c) = [q |-> q, q2 |-> q2, open |-> store.open]
    BY <1>1, <1>4 DEF StoreAfter
  <2>2. q \in [Cells -> Nat] /\ q2 \in [Cells -> Nat]
    BY <1>1
  <2>3. \A e \in Cells : q[e] <= store.q[e]
    BY <1>1
  <2> HIDE DEF q, q2
  <2> QED BY <1>3, <2>1, <2>2, <2>3 DEF StoreLeft
<1>5. CASE RoleAt(c) # "delayer" /\ RoleAt(c) \in StoreRoles
  <2> DEFINE q == [store.q EXCEPT ![c] = @ - Release(c)]
  <2>1. StoreAfter(c) = [q |-> q, q2 |-> store.q2, open |-> store.open]
    BY <1>1, <1>5 DEF StoreAfter
  <2>2. Release(c) \in Nat /\ Release(c) <= store.q[c]
    BY <1>2, <1>5 DEF ReleaseOK, StoreRoles
  <2>3. store.q[c] - Release(c) \in Nat /\ store.q[c] - Release(c) <= store.q[c]
    BY <1>1, <2>2
  <2>4. q \in [Cells -> Nat] /\ \A e \in Cells : q[e] <= store.q[e]
    BY <1>1, <2>3
  <2> HIDE DEF q
  <2> QED BY <1>1, <1>3, <2>1, <2>4 DEF StoreLeft
<1>6. CASE RoleAt(c) # "delayer" /\ RoleAt(c) \notin StoreRoles
  <2>1. StoreAfter(c) = store
    BY <1>6 DEF StoreAfter
  <2> QED BY <1>1, <2>1 DEF StoreLeft
<1> QED BY <1>4, <1>5, <1>6

\* The hand-offs of a source count for no more than it has let go of.
LetGoOK(vessel, gone, c, w) ==
  /\ w \in Seq(HandOff) /\ \A i \in 1 .. Len(w) : RouteOK(vessel, gone, w[i])
  /\ Sum(Worths(vessel, w)) <= Release(c) * Pow(3, Cardinality(Amps(vessel)))

LEMMA LetGoIs ==
  ASSUME ship \in Ships, store \in StoreType, NEW c \in Living
  PROVE  LetGoOK(ship, dead, c, LetGo(c))
<1> DEFINE outs == IF RoleAt(c) = "generator" THEN PortsAt(c) ELSE {OutPort(c)}
           path == IF RoleAt(c) = "generator" THEN <<c>> ELSE <<>>
           R    == Release(c)
           w    == Forward(c, outs, R, path)
           n    == Cardinality(Amps(ship))
           wo   == Worth(n, Cardinality(Passed(ship, path)))
<1>1. c \in ship.occupied \ dead /\ c \in Cells /\ IsFiniteSet(PortsAt(c))
  BY LivingCell DEF Living
<1>2. R \in Nat
  BY <1>1, ReleaseIs DEF ReleaseOK
<1>3. LetGo(c) = w
  BY DEF LetGo
<1>4. IsFiniteSet(outs)
  BY <1>1, FS_Singleton
<1>5. path \in Seq(Cells)
  BY <1>1
<1> HIDE DEF R
<1>6. RoleAt(c) = "generator" \/ path = <<>>
  OBVIOUS
<1>7. RoleAt(c) = "generator" => path = <<c>>
  OBVIOUS
<1> HIDE DEF outs, path
<1>8. w \in Seq(HandOff) /\ \A i \in 1 .. Len(w) : w[i] \in Ways(c, outs, R, path)
  BY <1>1, <1>2, <1>4, <1>5, ForwardType
<1>9. Sum(Worths(ship, w)) <= R * wo
  BY <1>1, <1>2, <1>4, <1>5, ForwardSum
<1>10. wo \in Nat /\ wo <= Pow(3, n) /\ Pow(3, n) \in Nat
  BY WorthOfBounds, AmplifiersFinite, PowIs DEF WorthOK
<1>11. Sum(Worths(ship, w)) \in Nat
  BY <1>8, WorthsNat
<1>12. ASSUME NEW g \in Ways(c, outs, R, path)
       PROVE  RouteOK(ship, dead, g)
  <2>1. CASE RoleAt(c) = "generator"
    <3>1. ship.role[c] \in Wires /\ path = <<c>>
      BY <1>7, <2>1 DEF RoleAt, Wires
    <3> QED BY <1>1, <3>1, MadeRoutes
  <2>2. CASE path = <<>>
    BY <2>2, StoredRoutes
  <2> QED BY <1>6, <2>1, <2>2
<1> HIDE DEF wo, n, w
<1>13. Sum(Worths(ship, w)) <= R * Pow(3, n)
  <2> DEFINE x == Sum(Worths(ship, w))
             y == Pow(3, n)
  <2>1. \A a, b, d \in Nat : a <= b => d * a <= d * b /\ d * a \in Nat /\ d * b \in Nat
    OBVIOUS
  <2> HIDE DEF x, y
  <2>2. R * wo <= R * y /\ R * wo \in Nat /\ R * y \in Nat
    BY <1>2, <1>10, <2>1 DEF y
  <2>3. x \in Nat /\ x <= R * wo
    BY <1>9, <1>11 DEF x
  <2>4. x <= R * y
    BY <2>2, <2>3
  <2> QED BY <2>4 DEF x, y
<1> QED BY <1>3, <1>8, <1>12, <1>13 DEF LetGoOK, R, n

\* What a source lets go of, let go and on its way.
LEMMA AccountedGiven ==
  ASSUME NEW vessel \in Ships, NEW kept \in [Cells -> Nat], NEW gave \in [Cells -> Nat],
         NEW gave2 \in [Cells -> Nat], NEW w \in Seq(HandOff), NEW r \in Nat,
         Accounted(vessel, kept, <<>>, gave),
         OverCells(gave2) = OverCells(gave) + r,
         Sum(Worths(vessel, w)) <= r * Pow(3, Cardinality(Amps(vessel)))
  PROVE  Accounted(vessel, kept, w, gave2)
<1> DEFINE n == Cardinality(Amps(vessel))
           x == Pow(2, n) * OverCells(kept)
           y == Sum(Worths(vessel, w))
           g == OverCells(gave)
           t == Pow(3, n)
<1>1. t \in Nat /\ Pow(2, n) \in Nat /\ OverCells(kept) \in Nat /\ g \in Nat /\ y \in Nat
  BY AmplifiersFinite, PowIs, OverNat, WorthsNat
<1>2. x + 0 <= t * g
  BY WorthsNone DEF Accounted
<1>3. y <= r * t /\ OverCells(gave2) = g + r
  OBVIOUS
<1>4. \A a, b, c \in Nat : a * b \in Nat /\ a * (b + c) = a * b + c * a /\ c * a \in Nat
  OBVIOUS
<1>5. x \in Nat
  <2> HIDE DEF n
  <2> QED BY <1>1, <1>4
<1> HIDE DEF x, y, g, t
<1>6. t * g \in Nat /\ r * t \in Nat /\ t * (g + r) = t * g + r * t
  BY <1>1, <1>4
<1>7. x + y <= t * g + r * t
  BY <1>1, <1>2, <1>3, <1>5, <1>6
<1> QED BY <1>3, <1>6, <1>7 DEF Accounted, x, y, t, n

\* What a source does to the flow.
Given(c) ==
  [flow EXCEPT !.pin[c] = IF RoleAt(c) = "generator" THEN Release(c) ELSE @,
               !.gave[c] = @ + Release(c)]

GivenOK(c, f) ==
  /\ f \in FlowType /\ f.loops = flow.loops
  /\ f.gave[c] = flow.gave[c] + Release(c)
  /\ \A e \in Cells : e # c => f.gave[e] = flow.gave[e] /\ f.pin[e] = flow.pin[e]
  /\ RoleAt(c) # "generator" => f.pin[c] = flow.pin[c]

LEMMA GivenIs ==
  ASSUME flow \in FlowType, store \in StoreType, NEW c \in Cells
  PROVE  GivenOK(c, Given(c))
<1> DEFINE f == Given(c)
           R == Release(c)
<1>1. R \in Nat
  BY ReleaseIs DEF ReleaseOK
<1>2. /\ flow.pin \in [Cells -> Nat] /\ flow.absorb \in [Cells -> Nat]
      /\ flow.gate \in [Cells -> Nat] /\ flow.loops \in SUBSET Cells
      /\ flow.budget \in 0 .. FlowBudget /\ flow.gave \in [Cells -> Nat]
  BY DEF FlowType
<1> DEFINE pin  == [flow.pin EXCEPT ![c] = IF RoleAt(c) = "generator" THEN R ELSE @]
           gave == [flow.gave EXCEPT ![c] = @ + R]
<1>3. f = [pin |-> pin, absorb |-> flow.absorb, gate |-> flow.gate, loops |-> flow.loops,
           budget |-> flow.budget, gave |-> gave]
  <2>1. DOMAIN flow = {"pin", "absorb", "gate", "loops", "budget", "gave"}
    BY DEF FlowType
  <2>2. DOMAIN f = DOMAIN flow
    BY DEF Given
  <2>3. f.pin = pin
    BY <2>1 DEF Given
  <2>4. f.gave = gave
    BY <2>1 DEF Given
  <2>5. /\ f.absorb = flow.absorb /\ f.gate = flow.gate
        /\ f.loops = flow.loops /\ f.budget = flow.budget
    BY <2>1 DEF Given
  <2>6. f = [i \in DOMAIN f |-> f[i]]
    BY DEF Given
  <2> HIDE DEF f, pin, gave
  <2> QED BY <2>1, <2>2, <2>3, <2>4, <2>5, <2>6
<1> HIDE DEF R
<1>4. pin \in [Cells -> Nat] /\ gave \in [Cells -> Nat]
  BY <1>1, <1>2
<1>5. /\ gave[c] = flow.gave[c] + R
      /\ \A e \in Cells : e # c => gave[e] = flow.gave[e] /\ pin[e] = flow.pin[e]
      /\ RoleAt(c) # "generator" => pin[c] = flow.pin[c]
  BY <1>2
<1> HIDE DEF pin, gave, f
<1>6. f \in FlowType
  BY <1>2, <1>3, <1>4 DEF FlowType
<1>7. f.loops = flow.loops /\ f.gave = gave /\ f.pin = pin
  BY <1>3
<1> QED BY <1>5, <1>6, <1>7 DEF GivenOK, f, R

LEMMA SourceStep == CircuitInv /\ Source => CircuitInv'
<1> SUFFICES ASSUME CircuitInv, Source
             PROVE  CircuitInv'
  OBVIOUS
<1> DEFINE c == CellNo(cursor)
<1>1. InvIs
  BY InvShape
<1>2. /\ walk = <<>> /\ cursor < GridW * GridH /\ cursor' = cursor + 1
      /\ ship' = ship /\ dead' = dead /\ second' = second
      /\ IF c \in Living
         THEN walk' = LetGo(c) /\ store' = StoreAfter(c) /\ flow' = Given(c)
         ELSE walk' = walk /\ store' = store /\ flow' = flow
  BY DEF Source, Given
<1> HIDE DEF c
<1>3. ClockOK'
  <2> DEFINE last == GridW * GridH
  <2>1. last \in Nat
    <3>1. \A a, b \in Nat : a * b \in Nat
      OBVIOUS
    <3> QED BY <3>1, GridAssumption
  <2>2. /\ second \in 0 .. Seconds /\ cursor \in 0 .. last + 1
        /\ cursor <= last => second < Seconds
    BY DEF CircuitInv, ClockOK
  <2>3. cursor < last /\ cursor' = cursor + 1 /\ second' = second
    BY <1>2
  <2> HIDE DEF last
  <2>4. cursor' \in 0 .. last + 1 /\ cursor <= last /\ ~(cursor' > last)
    BY <2>1, <2>2, <2>3
  <2> QED BY <2>2, <2>3, <2>4 DEF ClockOK, last
<1>4. CASE c \notin Living
  <2>1. walk' = walk /\ store' = store /\ flow' = flow
    BY <1>2, <1>4
  <2>2. WalkOK'
    BY <1>2, <2>1 DEF CircuitInv, WalkOK
  <2>3. FlowOK'
    BY <1>2, <2>1 DEF CircuitInv, FlowOK, LoopsAreWires, Living, RoleAt
  <2>4. StoreOK'
    BY <1>2, <2>1 DEF CircuitInv, StoreOK, RoleAt
  <2>5. Kept' = Kept
    BY <1>2, <2>1 DEF Kept, Ends, Living, RoleAt
  <2>6. Balanced'
    BY <1>2, <2>1, <2>5 DEF CircuitInv, Balanced
  <2> QED BY <1>1, <1>2, <1>3, <2>2, <2>3, <2>4, <2>6 DEF CircuitInv, InvIs
<1>5. CASE c \in Living
  <2>1. walk' = LetGo(c) /\ store' = StoreAfter(c) /\ flow' = Given(c)
    BY <1>2, <1>5
  <2>2. c \in Cells
    BY <1>1, <1>5, LivingCell DEF InvIs
  <2>3. LetGoOK(ship, dead, c, LetGo(c)) /\ StoreLeft(c) /\ GivenOK(c, Given(c)) /\ ReleaseOK(c)
    BY <1>1, <1>5, <2>2, LetGoIs, StoreLeftIs, GivenIs, ReleaseIs DEF InvIs
  <2>4. WalkOK'
    BY <1>2, <2>1, <2>3 DEF WalkOK, LetGoOK
  <2>5. FlowOK'
    BY <1>2, <2>1, <2>3 DEF CircuitInv, FlowOK, LoopsAreWires, Living, RoleAt, GivenOK
  <2>6. StoreOK'
    <3>1. store' \in StoreType
      BY <2>1, <2>3 DEF StoreLeft
    <3> SUFFICES ASSUME NEW e \in ship.occupied
                 PROVE  /\ ship.role[e] = "battery" => store'.q[e] <= BatMax
                        /\ ship.role[e] = "capacitor" => store'.q[e] <= CapMax
      BY <1>2, <3>1 DEF StoreOK, RoleAt
    <3>2. e \in Cells
      BY <1>1, TakenCell DEF InvIs
    <3>3. store.q[e] \in Nat /\ store'.q[e] \in Nat /\ BatMax \in Nat /\ CapMax \in Nat
      BY <1>1, <3>1, <3>2 DEF InvIs, StoreType, BatMax, CapMax
    <3>4. ship.role[e] \in {"battery", "capacitor"} => store'.q[e] <= store.q[e]
      BY <2>1, <2>3, <3>2 DEF StoreLeft, RoleAt
    <3>5. /\ ship.role[e] = "battery" => store.q[e] <= BatMax
          /\ ship.role[e] = "capacitor" => store.q[e] <= CapMax
      BY DEF CircuitInv, StoreOK, RoleAt
    <3> QED BY <3>3, <3>4, <3>5
  <2>7. Balanced'
    <3>1. Kept' = Kept
      <4>1. Kept = [e \in Cells |-> IF Ends(e) THEN flow.pin[e] ELSE 0]
        BY DEF Kept
      <4>2. Kept' = [e \in Cells |-> IF Ends(e) THEN flow'.pin[e] ELSE 0]
        BY <1>2 DEF Kept, Ends, Living, RoleAt
      <4>3. ASSUME NEW e \in Cells, Ends(e) PROVE flow'.pin[e] = flow.pin[e]
        BY <2>1, <2>3, <4>3 DEF GivenOK, Ends
      <4> QED BY <4>1, <4>2, <4>3
    <3>2. Kept \in [Cells -> Nat] /\ flow.gave \in [Cells -> Nat] /\ flow'.gave \in [Cells -> Nat]
      BY <1>1, <2>1, <2>3, KeptType DEF InvIs, FlowType, GivenOK
    <3>3. Accounted(ship, Kept, <<>>, flow.gave)
      BY <1>2 DEF CircuitInv, Balanced
    <3>4. Release(c) \in Nat
      BY <2>3 DEF ReleaseOK
    <3>5. OverCells(flow'.gave) = OverCells(flow.gave) + Release(c)
      BY <2>1, <2>2, <2>3, <3>2, <3>4, OverRaised DEF GivenOK
    <3>6. walk' \in Seq(HandOff) /\ Sum(Worths(ship, walk')) <= Release(c) * Pow(3, Cardinality(Amps(ship)))
      BY <2>1, <2>3 DEF LetGoOK
    <3> DEFINE w2 == walk'
               g2 == flow'.gave
    <3> HIDE DEF w2, g2
    <3>7. Accounted(ship, Kept, w2, g2)
      <4>1. w2 \in Seq(HandOff) /\ g2 \in [Cells -> Nat]
        BY <3>2, <3>6 DEF w2, g2
      <4>2. OverCells(g2) = OverCells(flow.gave) + Release(c)
        BY <3>5 DEF g2
      <4>3. Sum(Worths(ship, w2)) <= Release(c) * Pow(3, Cardinality(Amps(ship)))
        BY <3>6 DEF w2
      <4> QED BY <1>1, <3>2, <3>3, <3>4, <4>1, <4>2, <4>3, AccountedGiven DEF InvIs
    <3> QED BY <1>2, <3>1, <3>7 DEF Balanced, w2, g2
  <2> QED BY <1>1, <1>2, <1>3, <2>4, <2>5, <2>6, <2>7 DEF CircuitInv, InvIs
<1> QED BY <1>4, <1>5

-----------------------------------------------------------------------------
(* Banking, and the next second.                                           *)

LEMMA BankStep == CircuitInv /\ Bank => CircuitInv'
<1> SUFFICES ASSUME CircuitInv, Bank
             PROVE  CircuitInv'
  OBVIOUS
<1> DEFINE q    == [c \in Cells |-> IF c \in Living THEN Banked(c) ELSE store.q[c]]
           open == [c \in Cells |-> IF c \in Living /\ RoleAt(c) = "transistor"
                                    THEN flow.gate[c] >= GateMin ELSE store.open[c]]
<1>1. InvIs
  BY InvShape
<1>2. /\ walk = <<>> /\ cursor = GridW * GridH /\ second' = second + 1 /\ cursor' = cursor + 1
      /\ ship' = ship /\ dead' = dead /\ walk' = walk /\ flow' = flow
      /\ store' = [store EXCEPT !.q = q, !.open = open]
  BY DEF Bank, Done
<1>3. /\ store.q \in [Cells -> Nat] /\ store.q2 \in [Cells -> Nat]
      /\ store.open \in [Cells -> BOOLEAN]
      /\ store = [q |-> store.q, q2 |-> store.q2, open |-> store.open]
  BY <1>1 DEF InvIs, StoreType
<1>4. \A c \in Cells : flow.absorb[c] \in Nat /\ flow.gate[c] \in Nat
  BY <1>1 DEF InvIs, FlowType
<1>5. BatMax \in Nat /\ CapMax \in Nat /\ GateMin \in Nat
  BY DEF BatMax, CapMax, GateMin
<1>6. ASSUME NEW c \in Cells
      PROVE  /\ Banked(c) \in Nat
             /\ RoleAt(c) = "battery" => Banked(c) <= BatMax
             /\ RoleAt(c) = "capacitor" => Banked(c) <= CapMax
  <2>1. store.q[c] + flow.absorb[c] \in Nat /\ store.q[c] \in Nat
    BY <1>3, <1>4
  <2>2. CASE RoleAt(c) = "battery"
    BY <1>5, <2>1, <2>2, AtMostBounds DEF Banked
  <2>3. CASE RoleAt(c) = "capacitor"
    BY <1>5, <2>1, <2>3, AtMostBounds DEF Banked
  <2>4. CASE RoleAt(c) = "delayer"
    BY <2>1, <2>4 DEF Banked
  <2>5. CASE RoleAt(c) \notin {"battery", "capacitor", "delayer"}
    BY <2>1, <2>5 DEF Banked
  <2> QED BY <2>2, <2>3, <2>4, <2>5
<1>7. q \in [Cells -> Nat]
  BY <1>3, <1>6
<1>8. open \in [Cells -> BOOLEAN]
  <2> SUFFICES ASSUME NEW c \in Cells
               PROVE  (IF c \in Living /\ RoleAt(c) = "transistor"
                       THEN flow.gate[c] >= GateMin ELSE store.open[c]) \in BOOLEAN
    OBVIOUS
  <2>1. store.open[c] \in BOOLEAN
    BY <1>3
  <2>2. (flow.gate[c] >= GateMin) \in BOOLEAN
    OBVIOUS
  <2> QED BY <2>1, <2>2, Zenon
<1>9. \A c \in Cells : q[c] = IF c \in Living THEN Banked(c) ELSE store.q[c]
  OBVIOUS
<1> HIDE DEF q, open
<1>10. store' = [q |-> q, q2 |-> store.q2, open |-> open]
  BY <1>2, <1>3
<1>11. ClockOK'
  <2> DEFINE last == GridW * GridH
  <2>1. last \in Nat
    <3>1. \A a, b \in Nat : a * b \in Nat
      OBVIOUS
    <3> QED BY <3>1, GridAssumption
  <2>2. second \in 0 .. Seconds /\ (cursor <= last => second < Seconds)
    BY DEF CircuitInv, ClockOK
  <2>3. cursor = last /\ cursor' = last + 1 /\ second' = second + 1 /\ walk' = <<>>
    BY <1>2
  <2> HIDE DEF last
  <2>4. second' \in 0 .. Seconds /\ cursor' \in 0 .. last + 1 /\ ~(cursor' <= last)
    BY <2>1, <2>2, <2>3, CircuitAssumption
  <2> QED BY <2>3, <2>4 DEF ClockOK, last
<1>12. WalkOK'
  BY <1>2 DEF CircuitInv, WalkOK
<1>13. FlowOK'
  BY <1>2 DEF CircuitInv, FlowOK, LoopsAreWires, Living, RoleAt
<1>14. StoreOK'
  <2>1. store' \in StoreType
    BY <1>3, <1>7, <1>8, <1>10 DEF StoreType
  <2> SUFFICES ASSUME NEW c \in ship.occupied
               PROVE  /\ ship.role[c] = "battery" => store'.q[c] <= BatMax
                      /\ ship.role[c] = "capacitor" => store'.q[c] <= CapMax
    BY <1>2, <2>1 DEF StoreOK, RoleAt
  <2>2. c \in Cells /\ store'.q[c] = q[c]
    BY <1>1, <1>10, TakenCell DEF InvIs
  <2>3. /\ ship.role[c] = "battery" => store.q[c] <= BatMax
        /\ ship.role[c] = "capacitor" => store.q[c] <= CapMax
    BY DEF CircuitInv, StoreOK, RoleAt
  <2> QED BY <1>6, <1>9, <2>2, <2>3 DEF RoleAt
<1>15. Balanced'
  <2>1. Kept' = Kept
    BY <1>2 DEF Kept, Ends, Living, RoleAt
  <2> QED BY <1>2, <2>1 DEF CircuitInv, Balanced
<1> QED BY <1>1, <1>2, <1>11, <1>12, <1>13, <1>14, <1>15 DEF CircuitInv, InvIs

\* When nothing has been let go of, there is nothing to account for.
LEMMA AccountedNone ==
  ASSUME NEW vessel \in Ships
  PROVE  Accounted(vessel, None, <<>>, None)
<1> DEFINE n == Cardinality(Amps(vessel))
<1>1. Pow(2, n) \in Nat /\ Pow(3, n) \in Nat
  BY AmplifiersFinite, PowIs
<1>2. \A a, b \in Nat : a * 0 + 0 <= b * 0
  OBVIOUS
<1>3. Sum(Worths(vessel, <<>>)) = 0 /\ OverCells(None) = 0
  BY WorthsNone, OverNone
<1> HIDE DEF n
<1>4. Pow(2, n) * OverCells(None) + Sum(Worths(vessel, <<>>)) <= Pow(3, n) * OverCells(None)
  BY <1>1, <1>2, <1>3
<1> QED BY <1>4 DEF Accounted, n

NoFlowOK ==
  /\ NoFlow \in FlowType /\ NoFlow.loops = {} /\ NoFlow.pin = None /\ NoFlow.gave = None
  /\ None \in [Cells -> Nat]

LEMMA NoFlowIs == NoFlowOK
<1>1. None \in [Cells -> Nat]
  BY DEF None
<1>2. FlowBudget \in 0 .. FlowBudget
  BY CircuitAssumption
<1>3. NoFlow \in FlowType
  BY <1>1, <1>2 DEF NoFlow, FlowType
<1> QED BY <1>1, <1>3 DEF NoFlowOK, NoFlow

LEMMA NextSecondStep ==
  ASSUME CircuitInv, NEW hit, hit \subseteq ship.occupied, NextSecond(hit)
  PROVE  CircuitInv'
<1>1. InvIs
  BY InvShape
<1>2. /\ cursor > GridW * GridH /\ second < Seconds /\ dead' = dead \cup hit /\ cursor' = 0
      /\ flow' = NoFlow /\ ship' = ship /\ second' = second /\ walk' = walk /\ store' = store
  BY DEF NextSecond
<1>3. walk = <<>>
  BY <1>2 DEF CircuitInv, ClockOK
<1>4. NoFlowOK
  BY NoFlowIs
<1>5. ClockOK'
  <2> DEFINE last == GridW * GridH
  <2>1. last \in Nat
    <3>1. \A a, b \in Nat : a * b \in Nat
      OBVIOUS
    <3> QED BY <3>1, GridAssumption
  <2>2. second' \in 0 .. Seconds /\ second' < Seconds /\ cursor' = 0
    BY <1>2 DEF CircuitInv, ClockOK
  <2> HIDE DEF last
  <2>3. 0 \in 0 .. last + 1 /\ ~(0 > last)
    BY <2>1
  <2> QED BY <2>2, <2>3 DEF ClockOK, last
<1>6. WalkOK'
  BY <1>2, <1>3 DEF WalkOK
<1>7. FlowOK'
  BY <1>2, <1>4 DEF FlowOK, LoopsAreWires, NoFlowOK
<1>8. StoreOK'
  BY <1>2 DEF CircuitInv, StoreOK, RoleAt
<1>9. Balanced'
  <2>1. Kept' = None
    <3>1. flow'.pin = None
      BY <1>2, <1>4 DEF NoFlowOK
    <3>2. Kept' = [c \in Cells |-> IF Ends(c)' THEN flow'.pin[c] ELSE 0]
      BY DEF Kept
    <3> QED BY <3>1, <3>2 DEF None
  <2>2. flow'.gave = None /\ walk' = <<>>
    BY <1>2, <1>3, <1>4 DEF NoFlowOK
  <2>3. Accounted(ship, None, <<>>, None)
    BY <1>1, AccountedNone DEF InvIs
  <2> QED BY <1>2, <2>1, <2>2, <2>3 DEF Balanced
<1> QED BY <1>1, <1>2, <1>5, <1>6, <1>7, <1>8, <1>9 DEF CircuitInv, InvIs

LEMMA StartsWell == Init => CircuitInv
<1> SUFFICES ASSUME NEW s \in Ships, Start(s)
             PROVE  CircuitInv
  BY DEF Init
<1>1. /\ ship = s /\ dead = {} /\ second = 0 /\ cursor = 0
      /\ walk = <<>> /\ flow = NoFlow /\ store = StartOf(s)
  BY DEF Start
<1>2. NoFlowOK
  BY NoFlowIs
<1>3. ClockOK
  <2> DEFINE last == GridW * GridH
  <2>1. last \in Nat
    <3>1. \A a, b \in Nat : a * b \in Nat
      OBVIOUS
    <3> QED BY <3>1, GridAssumption
  <2> HIDE DEF last
  <2>2. 0 \in 0 .. last + 1 /\ ~(0 > last) /\ 0 \in 0 .. Seconds /\ 0 < Seconds
    BY <2>1, CircuitAssumption
  <2> QED BY <1>1, <2>2 DEF ClockOK, last
<1>4. WalkOK
  BY <1>1 DEF WalkOK
<1>5. FlowOK
  BY <1>1, <1>2 DEF FlowOK, LoopsAreWires, NoFlowOK
<1>6. StoreOK
  <2> DEFINE q == [c \in Cells |-> IF c \in s.occupied /\ s.role[c] = "battery" THEN BatStart ELSE 0]
  <2>1. BatStart \in Nat /\ BatStart <= BatMax /\ 0 <= CapMax
    BY DEF BatStart, BatMax, CapMax
  <2>2. q \in [Cells -> Nat] /\ [c \in Cells |-> FALSE] \in [Cells -> BOOLEAN]
    BY <2>1
  <2>3. store.q = q /\ store \in StoreType
    BY <1>1, <1>2, <2>2 DEF StartOf, StoreType, NoFlowOK
  <2>4. ASSUME NEW c \in ship.occupied
        PROVE  /\ RoleAt(c) = "battery" => store.q[c] <= BatMax
               /\ RoleAt(c) = "capacitor" => store.q[c] <= CapMax
    <3>1. c \in Cells
      BY <1>1, TakenCell
    <3>2. q[c] = IF RoleAt(c) = "battery" THEN BatStart ELSE 0
      BY <1>1, <3>1 DEF RoleAt
    <3> QED BY <2>1, <2>3, <3>2
  <2> QED BY <2>3, <2>4 DEF StoreOK
<1>7. Balanced
  <2>1. Kept = None
    BY <1>1, <1>2 DEF Kept, None, NoFlowOK
  <2>2. Accounted(ship, None, <<>>, None)
    BY <1>1, AccountedNone
  <2> QED BY <1>1, <1>2, <2>1, <2>2 DEF Balanced, NoFlowOK
<1> QED BY <1>1, <1>3, <1>4, <1>5, <1>6, <1>7 DEF CircuitInv

LEMMA CircuitStep == CircuitInv /\ [Next]_circuit => CircuitInv'
<1> SUFFICES ASSUME CircuitInv, [Next]_circuit
             PROVE  CircuitInv'
  OBVIOUS
<1>1. CASE Source
  BY <1>1, SourceStep
<1>2. CASE Lost
  BY <1>2, LostStep
<1>3. CASE Closes
  BY <1>3, ClosesStep
<1>4. CASE Feeds
  BY <1>4, FeedsStep
<1>5. CASE Bank
  BY <1>5, BankStep
<1>6. ASSUME NEW hit \in {{}} \cup {{c} : c \in ship.occupied}, NextSecond(hit)
      PROVE  CircuitInv'
  <2>1. hit \subseteq ship.occupied
    OBVIOUS
  <2> QED BY <1>6, <2>1, NextSecondStep
<1>7. CASE UNCHANGED circuit
  <2>1. /\ ship' = ship /\ dead' = dead /\ second' = second /\ cursor' = cursor
        /\ walk' = walk /\ flow' = flow /\ store' = store
    BY <1>7 DEF circuit
  <2>2. ClockOK'
    BY <2>1 DEF CircuitInv, ClockOK
  <2>3. WalkOK'
    BY <2>1 DEF CircuitInv, WalkOK
  <2>4. FlowOK'
    BY <2>1 DEF CircuitInv, FlowOK, LoopsAreWires, Living, RoleAt
  <2>5. StoreOK'
    BY <2>1 DEF CircuitInv, StoreOK, RoleAt
  <2>6. Kept' = Kept
    BY <2>1 DEF Kept, Ends, Living, RoleAt
  <2>7. Balanced'
    BY <2>1, <2>6 DEF CircuitInv, Balanced
  <2> QED BY <2>1, <2>2, <2>3, <2>4, <2>5, <2>7 DEF CircuitInv
<1> QED BY <1>1, <1>2, <1>3, <1>4, <1>5, <1>6, <1>7 DEF Next, Within

\* Whatever the ship and however its wires are closed, in each state of each second.
THEOREM CircuitInvariant == Spec => []CircuitInv
<1>1. Init => CircuitInv
  BY StartsWell
<1>2. CircuitInv /\ [Next]_circuit => CircuitInv'
  BY CircuitStep
<1> QED BY <1>1, <1>2, PTL DEF Spec

\* Routes name each cell once and lie in the ship, stores keep their bounds, the budget
\* is not overdrawn, for any ship.
THEOREM CircuitTypeCorrect == Spec => []CircuitTypeOK
<1>1. CircuitInv => CircuitTypeOK
  <2> SUFFICES ASSUME CircuitInv
               PROVE  CircuitTypeOK
    OBVIOUS
  <2>1. InvIs
    BY InvShape
  <2>2. dead \subseteq ship.occupied /\ second \in 0 .. Seconds /\ cursor \in 0 .. GridW * GridH + 1
    BY DEF CircuitInv, ClockOK
  <2>3. ASSUME NEW i \in DOMAIN walk
        PROVE  /\ walk[i].at \in Cells /\ walk[i].by \in Sides /\ walk[i].power \in Nat
               /\ Range(walk[i].path) \subseteq Living /\ IsInjective(walk[i].path)
    <3>1. i \in 1 .. Len(walk) /\ walk[i] \in HandOff
      BY <2>1 DEF InvIs
    <3>2. RouteCells(ship, dead, walk[i].path)
      BY <3>1 DEF CircuitInv, WalkOK, RouteOK
    <3> DEFINE p == walk[i].path
    <3>3. p \in Seq(Cells) /\ walk[i].at \in Cells /\ walk[i].by \in Sides /\ walk[i].power \in Nat
      BY <3>1 DEF HandOff
    <3>4. DOMAIN p = 1 .. Len(p)
      BY <3>3
    <3>5. RouteCells(ship, dead, p)
      BY <3>2
    <3> HIDE DEF p
    <3>6. Range(p) \subseteq Living
      BY <3>4, <3>5 DEF Range, RouteCells, Living
    <3>7. IsInjective(p)
      BY <3>4, <3>5 DEF IsInjective, RouteCells
    <3> QED BY <3>3, <3>6, <3>7 DEF p
  <2>4. flow.loops \subseteq Living /\ flow.budget \in 0 .. FlowBudget
    BY DEF CircuitInv, FlowOK, FlowType
  <2>5. ASSUME NEW c \in Cells
        PROVE  /\ {flow.pin[c], flow.absorb[c], flow.gate[c], store.q[c], store.q2[c]} \subseteq Nat
               /\ store.open[c] \in BOOLEAN
               /\ c \in ship.occupied /\ ship.role[c] = "battery" => store.q[c] <= BatMax
               /\ c \in ship.occupied /\ ship.role[c] = "capacitor" => store.q[c] <= CapMax
    <3>1. flow.pin[c] \in Nat /\ flow.absorb[c] \in Nat /\ flow.gate[c] \in Nat
      BY <2>1 DEF InvIs, FlowType
    <3>2. store.q[c] \in Nat /\ store.q2[c] \in Nat /\ store.open[c] \in BOOLEAN
      BY <2>1 DEF InvIs, StoreType
    <3>3. /\ c \in ship.occupied /\ ship.role[c] = "battery" => store.q[c] <= BatMax
          /\ c \in ship.occupied /\ ship.role[c] = "capacitor" => store.q[c] <= CapMax
      BY DEF CircuitInv, StoreOK, RoleAt
    <3> QED BY <3>1, <3>2, <3>3
  <2> QED BY <2>2, <2>3, <2>4, <2>5 DEF CircuitTypeOK
<1> QED BY <1>1, CircuitInvariant, PTL

\* A closed loop is made of wires and Generators, and of four of them at least: a route
\* does not turn back, and a grid has no triangles.
THEOREM LoopsAreLong == Spec => []LoopsAreWires
<1>1. CircuitInv => LoopsAreWires
  BY DEF CircuitInv, FlowOK
<1> QED BY <1>1, CircuitInvariant, PTL

\* What has reached its end and what is on its way is no more than what the sources have
\* let go of, half as much again for each Amplifier aboard: at any moment of a second, on
\* any ship and however its wires are closed.  A watt on its way counts for what it may
\* still become, 3^(n-a) * 2^a of 3^n, and for 2^n at least; no route passes the one cell
\* of an Amplifier twice.
THEOREM PowerIsNotMade == Spec => []NothingFromNothing
<1>1. CircuitInv => NothingFromNothing
  <2> SUFFICES ASSUME CircuitInv
               PROVE  NothingFromNothing
    OBVIOUS
  <2> DEFINE n == Cardinality(Amps(ship))
             m == Pow(2, n)
             s == [i \in DOMAIN walk |-> walk[i].power]
             t == Worths(ship, walk)
             k == OverCells(Kept)
             g == Pow(3, n) * OverCells(flow.gave)
  <2>1. InvIs
    BY InvShape
  <2>2. m \in Nat /\ Pow(3, n) \in Nat
    BY <2>1, AmplifiersFinite, PowIs DEF InvIs
  <2>3. k \in Nat /\ OverCells(flow.gave) \in Nat
    BY <2>1, KeptType, OverNat DEF InvIs, FlowType
  <2>4. m * k + Sum(t) <= g
    BY DEF CircuitInv, Balanced, Accounted
  <2>5. t \in Seq(Nat) /\ Len(t) = Len(walk) /\ \A i \in 1 .. Len(walk) : t[i] = WorthOf(ship, walk[i])
    BY <2>1, WorthsAre DEF InvIs
  <2>6. DOMAIN walk = 1 .. Len(walk) /\ Len(walk) \in Nat
    BY <2>1 DEF InvIs
  <2>7. ASSUME NEW i \in 1 .. Len(walk)
        PROVE  walk[i].power \in Nat
    <3>1. walk[i] \in HandOff
      BY <2>1 DEF InvIs
    <3> QED BY <3>1 DEF HandOff
  <2>8. s \in Seq(Nat) /\ Len(s) = Len(walk) /\ \A i \in 1 .. Len(walk) : s[i] = walk[i].power
    BY <2>6, <2>7
  <2>9. Numbers(s) /\ Numbers(t)
    BY <2>5, <2>8 DEF Numbers
  <2>10. \A i \in 1 .. Len(s) : m * s[i] <= t[i]
    <3> SUFFICES ASSUME NEW i \in 1 .. Len(walk)
                 PROVE  m * s[i] <= t[i]
      BY <2>8
    <3> DEFINE w == Worth(n, Cardinality(Passed(ship, walk[i].path)))
               x == walk[i].power
    <3>1. w \in Nat /\ m <= w
      BY <2>1, WorthOfBounds DEF WorthOK, InvIs
    <3>2. t[i] = x * w /\ s[i] = x /\ x \in Nat
      BY <2>5, <2>7, <2>8 DEF WorthOf
    <3>3. \A a, b, c \in Nat : a <= b => a * c <= c * b
      OBVIOUS
    <3> HIDE DEF w, x, s, t, m, n
    <3> QED BY <2>2, <3>1, <3>2, <3>3
  <2>11. Sum(s) \in Nat /\ Sum(t) \in Nat
    BY <2>9, SumNat
  <2> HIDE DEF s, t
  <2>12. m * Sum(s) <= Sum(t)
    <3> HIDE DEF m
    <3> QED BY <2>2, <2>5, <2>8, <2>9, <2>10, SumsCompared
  <2>13. g \in Nat
    <3>1. \A a, b \in Nat : a * b \in Nat
      OBVIOUS
    <3> HIDE DEF n
    <3> QED BY <2>2, <2>3, <3>1
  <2> HIDE DEF k, m, g
  <2>14. m * (k + Sum(s)) <= g
    <3>1. \A a, b, c \in Nat : a * (b + c) = a * b + a * c /\ a * b \in Nat /\ a * c \in Nat
      OBVIOUS
    <3>2. m * (k + Sum(s)) = m * k + m * Sum(s) /\ m * k \in Nat /\ m * Sum(s) \in Nat
      BY <2>2, <2>3, <2>11, <3>1
    <3> QED BY <2>4, <2>11, <2>12, <2>13, <3>2
  <2>15. Amplifiers = Amps(ship)
    BY DEF Amplifiers, Amps
  <2> QED BY <2>14, <2>15 DEF NothingFromNothing, k, m, g, s
<1> QED BY <1>1, CircuitInvariant, PTL
=============================================================================
