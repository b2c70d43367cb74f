---------------------------- MODULE VarintProofs ----------------------------
(***************************************************************************)
(* What the operations of Cursor and VarintCode do, and what holds of the  *)
(* loops of Varint, for bytes and numbers of any size, buffers of any      *)
(* length and any number of calls.                                         *)
(***************************************************************************)
EXTENDS Varint, FiniteSetTheorems, FunctionTheorems, SequenceTheorems, TLAPS

(***************************************************************************)
(* Powers and sums.                                                        *)
(***************************************************************************)
\* What holds of 0 and, with a number, of the next one, holds of all.
LEMMA Induction ==
  ASSUME NEW A, 0 \in A, \A n \in Nat : n \in A => n + 1 \in A
  PROVE  Nat \subseteq A
<1> SUFFICES ASSUME NEW n \in Nat, n \notin A
             PROVE  FALSE
  OBVIOUS
<1> DEFINE D == {k \in 0..n : \A j \in 0..k : j \in A}
           f == [k \in D |-> k + 1]
<1>1. IsFiniteSet(D)
  <2>1. IsFiniteSet(0..n)
    BY FS_Interval
  <2>2. D \in SUBSET (0..n)
    OBVIOUS
  <2> HIDE DEF D
  <2> QED
    BY <2>1, <2>2, FS_Subset
<1>2. \A k \in D : k + 1 \in D
  OBVIOUS
<1>3. f \in Injection(D, D)
  BY <1>2 DEF Injection, IsInjective
<1>4. f \in Surjection(D, D)
  BY <1>1, <1>3, FS_Injection
<1>5. 0 \in D
  OBVIOUS
<1>6. \E k \in D : f[k] = 0
  BY <1>4, <1>5 DEF Surjection
<1> QED
  BY <1>6

\* f is defined by recursion up to n: it begins with c, and step leads on.
Recursive(f, n, S, c, step) ==
  f \in [0..n -> S] /\ f[0] = c /\ \A j \in 1..n : f[j] = step[<<j, f[j - 1]>>]

\* There is such a function,
LEMMA Recursion ==
  ASSUME NEW S, NEW c \in S, NEW step \in [Nat \X S -> S], NEW n \in Nat
  PROVE  \E f : Recursive(f, n, S, c, step)
<1> DEFINE A == {m \in Nat : \E f : Recursive(f, m, S, c, step)}
<1>1. 0 \in A
  <2>1. Recursive([j \in 0..0 |-> c], 0, S, c, step)
    BY DEF Recursive
  <2> QED
    BY <2>1
<1>2. ASSUME NEW m \in Nat, m \in A PROVE m + 1 \in A
  <2>1. PICK f : Recursive(f, m, S, c, step)
    BY <1>2
  <2> DEFINE x == step[<<m + 1, f[m]>>]
             g == [j \in 0..(m + 1) |-> IF j = m + 1 THEN x ELSE f[j]]
  <2>2. f \in [0..m -> S] /\ f[0] = c /\ f[m] \in S
    BY <2>1 DEF Recursive
  <2>3. x \in S
    BY <2>2
  <2>4. \A j \in 1..m : f[j] = step[<<j, f[j - 1]>>]
    BY <2>1 DEF Recursive
  <2> HIDE DEF x
  <2>5. g[m + 1] = step[<<m + 1, g[m]>>]
    <3>1. g[m + 1] = x /\ g[m] = f[m]
      OBVIOUS
    <3> HIDE DEF g
    <3> QED
      BY <3>1 DEF x
  <2>6. g \in [0..(m + 1) -> S]
    BY <2>2, <2>3
  <2>7. g[0] = c
    BY <2>2
  <2>8. \A j \in 1..m : g[j] = f[j] /\ g[j - 1] = f[j - 1]
    OBVIOUS
  <2> HIDE DEF g
  <2>9. \A j \in 1..m : g[j] = step[<<j, g[j - 1]>>]
    BY <2>4, <2>8
  <2>10. \A j \in 1..(m + 1) : g[j] = step[<<j, g[j - 1]>>]
    <3> SUFFICES ASSUME NEW j \in 1..(m + 1) PROVE g[j] = step[<<j, g[j - 1]>>]
      OBVIOUS
    <3>1. CASE j = m + 1
      BY <2>5, <3>1
    <3>2. CASE j # m + 1
      BY <2>9, <3>2
    <3> QED
      BY <3>1, <3>2
  <2>11. Recursive(g, m + 1, S, c, step)
    BY <2>6, <2>7, <2>10 DEF Recursive
  <2> QED
    BY <2>11
<1>3. Nat \subseteq A
  <2> HIDE DEF A
  <2> QED
    BY <1>1, <1>2, Induction
<1> QED
  BY <1>3

\* and longer ones begin with it.
LEMMA RecursionUnique ==
  ASSUME NEW S, NEW c, NEW step, NEW n \in Nat, NEW m \in Nat, n <= m, NEW f, NEW g,
         Recursive(f, n, S, c, step), Recursive(g, m, S, c, step)
  PROVE  \A j \in 0..n : f[j] = g[j]
<1> DEFINE A == {j \in Nat : j <= n => f[j] = g[j]}
<1>1. 0 \in A
  BY DEF Recursive
<1>2. ASSUME NEW j \in Nat, j \in A PROVE j + 1 \in A
  <2> SUFFICES ASSUME j + 1 <= n PROVE f[j + 1] = g[j + 1]
    OBVIOUS
  <2>1. f[j] = g[j]
    BY <1>2
  <2>2. j + 1 \in 1..n /\ j + 1 \in 1..m /\ (j + 1) - 1 = j
    OBVIOUS
  <2>3. f[j + 1] = step[<<j + 1, f[(j + 1) - 1]>>] /\ g[j + 1] = step[<<j + 1, g[(j + 1) - 1]>>]
    BY <2>2 DEF Recursive
  <2> QED
    BY <2>1, <2>2, <2>3
<1>3. Nat \subseteq A
  <2> HIDE DEF A
  <2> QED
    BY <1>1, <1>2, Induction
<1> QED
  BY <1>3

\* Powers.
LEMMA PowerIs ==
  ASSUME NEW b \in Nat, NEW n \in Nat, NEW f,
         Recursive(f, n, Nat, 1, [x \in Nat \X Nat |-> b * x[2]])
  PROVE  Power(b, n) = f[n]
<1> DEFINE E(p) == [j \in 0..n |-> IF j = 0 THEN 1 ELSE b * p[j - 1]]
           g == CHOOSE p : p = E(p)
           step == [x \in Nat \X Nat |-> b * x[2]]
<1>1. f = E(f)
  <2>1. f \in [0..n -> Nat] /\ f[0] = 1
    BY DEF Recursive
  <2>2. \A j \in 1..n : f[j] = step[<<j, f[j - 1]>>]
    BY DEF Recursive
  <2>3. \A j \in 1..n : f[j] = b * f[j - 1]
    <3>1. \A j \in Nat, y \in Nat : step[<<j, y>>] = b * y
      OBVIOUS
    <3>2. \A j \in 1..n : j \in Nat /\ f[j - 1] \in Nat
      BY <2>1
    <3> HIDE DEF step
    <3> QED
      BY <2>2, <3>1, <3>2
  <2> HIDE DEF step
  <2> QED
    BY <2>1, <2>3
<1>2. g = E(g)
  <2> HIDE DEF E
  <2> QED
    BY <1>1
<1>3. Power(b, n) = g[n]
  BY DEF Power
<1> HIDE DEF g
<1>4. g[0] = 1 /\ \A j \in 1..n : g[j] = b * g[j - 1]
  BY <1>2
<1>5. g \in [0..n -> Nat]
  <2> DEFINE A == {j \in Nat : j <= n => g[j] \in Nat}
  <2>1. 0 \in A
    BY <1>4
  <2>2. ASSUME NEW j \in Nat, j \in A PROVE j + 1 \in A
    <3>1. CASE j + 1 <= n
      <4>1. j + 1 \in 1..n /\ (j + 1) - 1 = j /\ g[j] \in Nat
        BY <2>2, <3>1
      <4>2. g[j + 1] = b * g[j]
        BY <1>4, <4>1
      <4> QED
        BY <4>1, <4>2
    <3> QED
      BY <3>1
  <2>3. Nat \subseteq A
    <3> HIDE DEF A
    <3> QED
      BY <2>1, <2>2, Induction
  <2>4. \A j \in 0..n : g[j] \in Nat
    BY <2>3
  <2>5. g = [j \in 0..n |-> g[j]]
    BY <1>2
  <2> QED
    BY <2>4, <2>5
<1>6. Recursive(g, n, Nat, 1, step)
  <2>1. \A j \in 1..n : step[<<j, g[j - 1]>>] = b * g[j - 1]
    BY <1>5
  <2> HIDE DEF step
  <2> QED
    BY <1>4, <1>5, <2>1 DEF Recursive
<1>7. f[n] = g[n]
  <2> HIDE DEF step
  <2> QED
    BY <1>6, RecursionUnique DEF step
<1> QED
  BY <1>3, <1>7

\* They begin with 1, and multiply.
LEMMA PowerNext ==
  ASSUME NEW b \in Nat
  PROVE  /\ Power(b, 0) = 1
         /\ \A n \in Nat : Power(b, n) \in Nat /\ Power(b, n + 1) = b * Power(b, n)
<1> DEFINE step == [x \in Nat \X Nat |-> b * x[2]]
<1>1. step \in [Nat \X Nat -> Nat] /\ 1 \in Nat
  OBVIOUS
<1>2. \A j \in Nat, y \in Nat : step[<<j, y>>] = b * y
  OBVIOUS
<1>3. ASSUME NEW n \in Nat, NEW f, Recursive(f, n, Nat, 1, step) PROVE Power(b, n) = f[n]
  BY <1>3, PowerIs
<1> HIDE DEF step
<1>4. Power(b, 0) = 1
  <2>1. PICK f : Recursive(f, 0, Nat, 1, step)
    BY <1>1, Recursion
  <2>2. f[0] = 1
    BY <2>1 DEF Recursive
  <2> QED
    BY <1>3, <2>1, <2>2
<1>5. ASSUME NEW n \in Nat PROVE Power(b, n) \in Nat /\ Power(b, n + 1) = b * Power(b, n)
  <2>1. PICK f : Recursive(f, n, Nat, 1, step)
    BY <1>1, Recursion
  <2>2. PICK g : Recursive(g, n + 1, Nat, 1, step)
    <3>1. n + 1 \in Nat
      OBVIOUS
    <3> QED
      BY <1>1, <3>1, Recursion
  <2>3. f[n] = g[n]
    <3>1. n + 1 \in Nat /\ n <= n + 1 /\ n \in 0..n
      OBVIOUS
    <3> QED
      BY <2>1, <2>2, <3>1, RecursionUnique
  <2>4. Power(b, n) = f[n] /\ Power(b, n + 1) = g[n + 1]
    BY <1>3, <2>1, <2>2
  <2>5. f[n] \in Nat
    BY <2>1 DEF Recursive
  <2>6. g[n + 1] = step[<<n + 1, g[n]>>]
    <3>1. n + 1 \in 1..(n + 1) /\ (n + 1) - 1 = n
      OBVIOUS
    <3> QED
      BY <2>2, <3>1 DEF Recursive
  <2> QED
    BY <1>2, <2>3, <2>4, <2>5, <2>6
<1> QED
  BY <1>4, <1>5

\* A sum is built up in the same way.
Adding(a, m) == [x \in Nat \X Nat |-> x[2] + (IF x[1] \in 1..m THEN a[x[1]] ELSE 0)]

LEMMA TotalIs ==
  ASSUME NEW m \in Nat, NEW n \in 0..m, NEW a, \A j \in 1..m : a[j] \in Nat, NEW f,
         Recursive(f, n, Nat, 0, Adding(a, m))
  PROVE  Total(a, n) = f[n]
<1> DEFINE E(p) == [j \in 0..n |-> IF j = 0 THEN 0 ELSE p[j - 1] + a[j]]
           g == CHOOSE p : p = E(p)
           step == Adding(a, m)
<1>0. \A j \in 1..n, y \in Nat : step[<<j, y>>] = y + a[j]
  BY DEF Adding
<1>1. f = E(f)
  <2>1. f \in [0..n -> Nat] /\ f[0] = 0
    BY DEF Recursive
  <2>2. \A j \in 1..n : f[j] = step[<<j, f[j - 1]>>]
    BY DEF Recursive
  <2>3. \A j \in 1..n : f[j] = f[j - 1] + a[j]
    <3>1. \A j \in 1..n : j \in Nat /\ f[j - 1] \in Nat
      BY <2>1
    <3> HIDE DEF step
    <3> QED
      BY <1>0, <2>2, <3>1
  <2> HIDE DEF step
  <2> QED
    BY <2>1, <2>3
<1>2. g = E(g)
  <2> HIDE DEF E
  <2> QED
    BY <1>1
<1>3. Total(a, n) = g[n]
  BY DEF Total
<1> HIDE DEF g
<1>4. g[0] = 0 /\ \A j \in 1..n : g[j] = g[j - 1] + a[j]
  BY <1>2
<1>5. g \in [0..n -> Nat]
  <2> DEFINE A == {j \in Nat : j <= n => g[j] \in Nat}
  <2>1. 0 \in A
    BY <1>4
  <2>2. ASSUME NEW j \in Nat, j \in A PROVE j + 1 \in A
    <3>1. CASE j + 1 <= n
      <4>1. j + 1 \in 1..n /\ (j + 1) - 1 = j /\ g[j] \in Nat
        BY <2>2, <3>1
      <4>2. g[j + 1] = g[j] + a[j + 1]
        BY <1>4, <4>1
      <4> QED
        BY <4>1, <4>2
    <3> QED
      BY <3>1
  <2>3. Nat \subseteq A
    <3> HIDE DEF A
    <3> QED
      BY <2>1, <2>2, Induction
  <2>4. \A j \in 0..n : g[j] \in Nat
    BY <2>3
  <2>5. g = [j \in 0..n |-> g[j]]
    BY <1>2
  <2> QED
    BY <2>4, <2>5
<1>6. Recursive(g, n, Nat, 0, step)
  <2>1. \A j \in 1..n : step[<<j, g[j - 1]>>] = g[j - 1] + a[j]
    <3>1. \A j \in 1..n : g[j - 1] \in Nat
      BY <1>5
    <3> HIDE DEF step
    <3> QED
      BY <1>0, <3>1
  <2> HIDE DEF step
  <2> QED
    BY <1>4, <1>5, <2>1 DEF Recursive
<1>7. f[n] = g[n]
  <2> HIDE DEF step
  <2> QED
    BY <1>6, RecursionUnique DEF step
<1> QED
  BY <1>3, <1>7

\* It begins with 0, and adds.
LEMMA TotalNext ==
  ASSUME NEW m \in Nat, NEW a, \A j \in 1..m : a[j] \in Nat
  PROVE  /\ Total(a, 0) = 0
         /\ \A n \in 0..m : Total(a, n) \in Nat
         /\ \A n \in 0..(m - 1) : Total(a, n + 1) = Total(a, n) + a[n + 1]
<1> DEFINE step == Adding(a, m)
<1>1. step \in [Nat \X Nat -> Nat] /\ 0 \in Nat
  <2>1. \A x \in Nat \X Nat : x[2] + (IF x[1] \in 1..m THEN a[x[1]] ELSE 0) \in Nat
    <3> SUFFICES ASSUME NEW x \in Nat \X Nat
                 PROVE  x[2] + (IF x[1] \in 1..m THEN a[x[1]] ELSE 0) \in Nat
      OBVIOUS
    <3>1. x[2] \in Nat
      OBVIOUS
    <3>2. (IF x[1] \in 1..m THEN a[x[1]] ELSE 0) \in Nat
      OBVIOUS
    <3> QED
      BY <3>1, <3>2
  <2> QED
    BY <2>1 DEF Adding
<1>2. \A j \in 1..m, y \in Nat : step[<<j, y>>] = y + a[j]
  BY DEF Adding
<1>3. ASSUME NEW n \in 0..m, NEW f, Recursive(f, n, Nat, 0, step) PROVE Total(a, n) = f[n]
  BY <1>3, TotalIs
<1> HIDE DEF step
<1>4. Total(a, 0) = 0
  <2>1. PICK f : Recursive(f, 0, Nat, 0, step)
    BY <1>1, Recursion
  <2>2. f[0] = 0 /\ 0 \in 0..m
    BY <2>1 DEF Recursive
  <2> QED
    BY <1>3, <2>1, <2>2
<1>5. ASSUME NEW n \in 0..m PROVE Total(a, n) \in Nat
  <2>1. PICK f : Recursive(f, n, Nat, 0, step)
    BY <1>1, Recursion
  <2>2. f[n] \in Nat
    BY <2>1 DEF Recursive
  <2> QED
    BY <1>3, <2>1, <2>2
<1>6. ASSUME NEW n \in 0..(m - 1) PROVE Total(a, n + 1) = Total(a, n) + a[n + 1]
  <2>0. n \in Nat /\ n + 1 \in Nat /\ n \in 0..m /\ n + 1 \in 0..m /\ n <= n + 1 /\ n \in 0..n
        /\ n + 1 \in 1..(n + 1) /\ (n + 1) - 1 = n /\ n + 1 \in 1..m
    OBVIOUS
  <2>1. PICK f : Recursive(f, n, Nat, 0, step)
    BY <1>1, <2>0, Recursion
  <2>2. PICK g : Recursive(g, n + 1, Nat, 0, step)
    BY <1>1, <2>0, Recursion
  <2>3. f[n] = g[n]
    BY <2>0, <2>1, <2>2, RecursionUnique
  <2>4. Total(a, n) = f[n] /\ Total(a, n + 1) = g[n + 1]
    BY <1>3, <2>0, <2>1, <2>2
  <2>5. f[n] \in Nat
    BY <2>0, <2>1 DEF Recursive
  <2>6. g[n + 1] = step[<<n + 1, g[n]>>]
    BY <2>0, <2>2 DEF Recursive
  <2> QED
    BY <1>2, <2>0, <2>3, <2>4, <2>5, <2>6
<1> QED
  BY <1>4, <1>5, <1>6
\* Powers are positive,
LEMMA PowerFacts ==
  ASSUME NEW b \in Nat \ {0}
  PROVE  /\ Power(b, 0) = 1
         /\ \A n \in Nat : Power(b, n) \in Nat \ {0} /\ Power(b, n + 1) = b * Power(b, n)
<1> DEFINE A == {n \in Nat : Power(b, n) \in Nat \ {0}}
<1>1. Power(b, 0) = 1 /\ \A n \in Nat : Power(b, n + 1) = b * Power(b, n)
  BY PowerNext
<1>2. 0 \in A
  BY <1>1
<1>3. ASSUME NEW n \in Nat, n \in A PROVE n + 1 \in A
  <2> DEFINE p == Power(b, n)
  <2>1. p \in Nat \ {0} /\ Power(b, n + 1) = b * p
    BY <1>1, <1>3
  <2> HIDE DEF p
  <2>2. b * p \in Nat \ {0}
    BY <2>1
  <2> QED
    BY <2>1, <2>2
<1>4. Nat \subseteq A
  <2> HIDE DEF A
  <2> QED
    BY <1>2, <1>3, Induction
<1> QED
  BY <1>1, <1>4

\* and grow.
LEMMA PowerGrows ==
  ASSUME NEW b \in Nat \ {0}, NEW m \in Nat
  PROVE  \A n \in Nat : m <= n => Power(b, m) <= Power(b, n)
<1> DEFINE A == {n \in Nat : m <= n => Power(b, m) <= Power(b, n)}
<1>0. \A n \in Nat : Power(b, n) \in Nat \ {0} /\ Power(b, n + 1) = b * Power(b, n)
  BY PowerFacts
<1>1. 0 \in A
  BY <1>0
<1>2. ASSUME NEW n \in Nat, n \in A PROVE n + 1 \in A
  <2> SUFFICES ASSUME m <= n + 1 PROVE Power(b, m) <= Power(b, n + 1)
    OBVIOUS
  <2> DEFINE p == Power(b, m)
             q == Power(b, n)
             r == Power(b, n + 1)
  <2>1. p \in Nat /\ q \in Nat /\ r \in Nat /\ r = b * q
    BY <1>0
  <2>2. m <= n => p <= q
    BY <1>2
  <2>3. m = n + 1 => p = r
    OBVIOUS
  <2> HIDE DEF p, q, r
  <2>4. q <= r
    BY <2>1
  <2>5. p <= r
    BY <2>1, <2>2, <2>3, <2>4
  <2> QED
    BY <2>5 DEF p, r
<1>3. Nat \subseteq A
  <2> HIDE DEF A
  <2> QED
    BY <1>1, <1>2, Induction
<1> QED
  BY <1>3

\* A sum is of the members alone.
LEMMA TotalSame ==
  ASSUME NEW m \in Nat, NEW a, NEW c, \A j \in 1..m : a[j] \in Nat /\ c[j] = a[j]
  PROVE  \A n \in 0..m : Total(a, n) = Total(c, n)
<1> DEFINE A == {n \in Nat : n <= m => Total(a, n) = Total(c, n)}
<1>0. \A j \in 1..m : c[j] \in Nat
  OBVIOUS
<1>1. /\ Total(a, 0) = 0
      /\ \A n \in 0..(m - 1) : Total(a, n + 1) = Total(a, n) + a[n + 1]
  BY TotalNext
<1>2. /\ Total(c, 0) = 0
      /\ \A n \in 0..(m - 1) : Total(c, n + 1) = Total(c, n) + c[n + 1]
  BY <1>0, TotalNext
<1>3. 0 \in A
  BY <1>1, <1>2
<1>4. ASSUME NEW n \in Nat, n \in A PROVE n + 1 \in A
  <2> SUFFICES ASSUME n + 1 <= m PROVE Total(a, n + 1) = Total(c, n + 1)
    OBVIOUS
  <2>1. n \in 0..(m - 1) /\ n + 1 \in 1..m /\ Total(a, n) = Total(c, n)
    BY <1>4
  <2>2. Total(a, n + 1) = Total(a, n) + a[n + 1] /\ Total(c, n + 1) = Total(c, n) + c[n + 1]
    BY <1>1, <1>2, <2>1
  <2> QED
    BY <2>1, <2>2
<1>5. Nat \subseteq A
  <2> HIDE DEF A
  <2> QED
    BY <1>3, <1>4, Induction
<1> QED
  BY <1>5

\* It is no less than a shorter one.
LEMMA TotalGrows ==
  ASSUME NEW m \in Nat, NEW a, \A j \in 1..m : a[j] \in Nat, NEW n \in 0..m
  PROVE  \A k \in n..m : Total(a, n) <= Total(a, k)
<1> DEFINE A == {k \in Nat : k \in n..m => Total(a, n) <= Total(a, k)}
<1>1. /\ \A k \in 0..m : Total(a, k) \in Nat
      /\ \A k \in 0..(m - 1) : Total(a, k + 1) = Total(a, k) + a[k + 1]
  BY TotalNext
<1>2. 0 \in A
  BY <1>1
<1>3. ASSUME NEW k \in Nat, k \in A PROVE k + 1 \in A
  <2> SUFFICES ASSUME k + 1 \in n..m PROVE Total(a, n) <= Total(a, k + 1)
    OBVIOUS
  <2>1. CASE k + 1 = n
    BY <1>1, <2>1
  <2>2. CASE k + 1 # n
    <3>1. k \in n..m /\ k \in 0..(m - 1) /\ k + 1 \in 1..m /\ k \in 0..m
      BY <2>2
    <3>2. Total(a, n) <= Total(a, k) /\ Total(a, k + 1) = Total(a, k) + a[k + 1]
      BY <1>1, <1>3, <3>1
    <3>3. Total(a, n) \in Nat /\ Total(a, k) \in Nat /\ a[k + 1] \in Nat
      BY <1>1, <3>1
    <3> QED
      BY <3>2, <3>3
  <2> QED
    BY <2>1, <2>2
<1>4. Nat \subseteq A
  <2> HIDE DEF A
  <2> QED
    BY <1>2, <1>3, Induction
<1> QED
  BY <1>4

\* A set of numbers has a least.
LEMMA Least ==
  ASSUME NEW S, S \subseteq Nat, S # {}
  PROVE  Min(S) \in S /\ \A n \in S : Min(S) <= n
<1>1. \E x \in S : \A y \in S : x <= y
  <2> SUFFICES ASSUME \A x \in S : \E y \in S : ~(x <= y)
               PROVE  FALSE
    OBVIOUS
  <2> DEFINE A == {n \in Nat : \A k \in 0..n : k \notin S}
  <2>1. 0 \in A
    OBVIOUS
  <2>2. ASSUME NEW n \in Nat, n \in A PROVE n + 1 \in A
    <3>1. n + 1 \notin S
      <4> SUFFICES ASSUME n + 1 \in S PROVE FALSE
        OBVIOUS
      <4>1. PICK y \in S : ~(n + 1 <= y)
        OBVIOUS
      <4>2. y \in 0..n
        BY <4>1
      <4> QED
        BY <2>2, <4>2
    <3> QED
      BY <2>2, <3>1
  <2>3. Nat \subseteq A
    <3> HIDE DEF A
    <3> QED
      BY <2>1, <2>2, Induction
  <2>4. PICK x \in S : TRUE
    OBVIOUS
  <2>5. x \in A
    BY <2>3, <2>4
  <2> QED
    BY <2>4, <2>5
<1> QED
  BY <1>1 DEF Min

(***************************************************************************)
(* Digits.                                                                 *)
(***************************************************************************)
\* Division leaves a quotient and a remainder,
LEMMA DivMod ==
  ASSUME NEW w \in Nat \ {0}, NEW x \in Nat
  PROVE  x \div w \in Nat /\ x % w \in 0..(w - 1) /\ x = w * (x \div w) + (x % w)
OBVIOUS

\* and no other two give the same number.
LEMMA DivModUnique ==
  ASSUME NEW w \in Nat \ {0}, NEW q \in Nat, NEW r \in 0..(w - 1)
  PROVE  (w * q + r) \div w = q /\ (w * q + r) % w = r
BY Z3

\* The digit after those that p numbers are told by.
LEMMA DigitNext ==
  ASSUME NEW b \in Nat \ {0}, NEW p \in Nat \ {0}, NEW v \in Nat
  PROVE  /\ v % (b * p) = ((v \div p) % b) * p + (v % p)
         /\ v \div (b * p) = (v \div p) \div b
         /\ v >= b * p <=> v \div p >= b
<1> DEFINE q == v \div p
           r == v % p
           e == q \div b
           d == q % b
           w == b * p
           l == d * p + r
<1>1. q \in Nat /\ r \in 0..(p - 1) /\ v = p * q + r
  BY DivMod
<1>2. e \in Nat /\ d \in 0..(b - 1) /\ q = b * e + d
  <2> HIDE DEF q
  <2> QED
    BY <1>1, DivMod
<1> HIDE DEF q, r, e, d
<1>3. w \in Nat \ {0}
  OBVIOUS
<1>4. l \in 0..(w - 1)
  <2> DEFINE g == b - 1 - d
  <2>1. g \in Nat /\ b = g + 1 + d
    BY <1>2
  <2> HIDE DEF g
  <2>2. w = g * p + p + d * p
    BY <1>2, <2>1
  <2>3. g * p \in Nat /\ d * p \in Nat
    BY <1>2, <2>1
  <2> HIDE DEF w
  <2> QED
    BY <1>1, <1>3, <2>2, <2>3
<1>5. v = w * e + l
  <2>1. v = p * (b * e + d) + r
    BY <1>1, <1>2
  <2> QED
    BY <1>1, <1>2, <2>1, Z3
<1> HIDE DEF w, l
<1>6. v \div w = e /\ v % w = l
  BY <1>2, <1>3, <1>4, <1>5, DivModUnique
<1>7. v >= w <=> q >= b
  <2>1. CASE e = 0
    <3>1. w * e = 0 /\ b * e = 0
      BY <1>3, <2>1
    <3> QED
      BY <1>1, <1>2, <1>3, <1>4, <1>5, <3>1
  <2>2. CASE e # 0
    <3>1. w * e >= w /\ b * e >= b /\ w * e \in Nat /\ b * e \in Nat
      BY <1>2, <1>3, <2>2
    <3> QED
      BY <1>1, <1>2, <1>3, <1>4, <1>5, <3>1
  <2> QED
    BY <2>1, <2>2
<1> QED
  BY <1>6, <1>7 DEF w, l, q, r, e, d

\* The members of a are the digits of v, each times its power of b.
AreDigits(a, m, b, v) ==
  \A j \in 1..m : a[j] = ((v \div Power(b, j - 1)) % b) * Power(b, j - 1)

\* The digits of a number make it up to a power.
LEMMA Digits ==
  ASSUME NEW b \in Nat \ {0}, NEW v \in Nat, NEW m \in Nat, NEW a, AreDigits(a, m, b, v)
  PROVE  \A n \in 0..m : Total(a, n) = v % Power(b, n)
<1>0. \A j \in 1..m : a[j] = ((v \div Power(b, j - 1)) % b) * Power(b, j - 1)
  BY DEF AreDigits
<1> DEFINE A == {n \in Nat : n <= m => Total(a, n) = v % Power(b, n)}
<1>1. Power(b, 0) = 1 /\ \A n \in Nat : Power(b, n) \in Nat \ {0} /\ Power(b, n + 1) = b * Power(b, n)
  BY PowerFacts
<1>2. ASSUME NEW j \in 1..m PROVE a[j] \in Nat
  <2> DEFINE p == Power(b, j - 1)
  <2>1. p \in Nat \ {0} /\ a[j] = ((v \div p) % b) * p
    BY <1>0, <1>1
  <2> HIDE DEF p
  <2>2. v \div p \in Nat
    BY <2>1
  <2>3. (v \div p) % b \in Nat
    BY <2>2
  <2> QED
    BY <2>1, <2>3
<1>3. Total(a, 0) = 0 /\ \A n \in 0..(m - 1) : Total(a, n + 1) = Total(a, n) + a[n + 1]
  BY <1>2, TotalNext
<1>4. 0 \in A
  BY <1>1, <1>3
<1>5. ASSUME NEW n \in Nat, n \in A PROVE n + 1 \in A
  <2> SUFFICES ASSUME n + 1 <= m PROVE Total(a, n + 1) = v % Power(b, n + 1)
    OBVIOUS
  <2> DEFINE p == Power(b, n)
             r == v % p
             t == ((v \div p) % b) * p
  <2>1. p \in Nat \ {0} /\ Power(b, n + 1) = b * p
    BY <1>1
  <2>2. Total(a, n) = r
    BY <1>5
  <2>3. Total(a, n + 1) = Total(a, n) + a[n + 1]
    BY <1>3
  <2>4. a[n + 1] = t
    <3>1. n + 1 \in 1..m /\ (n + 1) - 1 = n
      OBVIOUS
    <3> QED
      BY <1>0, <3>1
  <2> HIDE DEF p
  <2>5. v % (b * p) = t + r
    BY <2>1, DigitNext
  <2>6. t \in Nat /\ r \in Nat
    <3>1. v \div p \in Nat /\ r \in Nat
      BY <2>1
    <3>2. (v \div p) % b \in Nat
      BY <3>1
    <3> QED
      BY <2>1, <3>1, <3>2
  <2> HIDE DEF t, r
  <2> QED
    BY <2>1, <2>2, <2>3, <2>4, <2>5, <2>6
<1>6. Nat \subseteq A
  <2> HIDE DEF A
  <2> QED
    BY <1>4, <1>5, Induction
<1> QED
  BY <1>6

(***************************************************************************)
(* Varints.                                                                *)
(***************************************************************************)
\* The constants.
LEMMA Sizes ==
  /\ Group \in Nat \ {0} /\ ByteMod \in Nat \ {0} /\ ByteMod = Group + Group
  /\ MaxBytes \in Nat \ {0} /\ Width \in Nat \ {0} /\ Width <= Power(Group, MaxBytes)
  /\ Power(Group, 0) = 1
  /\ \A n \in Nat : Power(Group, n) \in Nat \ {0} /\ Power(Group, n + 1) = Group * Power(Group, n)
<1>1. Group \in Nat \ {0} /\ ByteMod = 2 * Group
  BY GroupAssumption
<1>2. /\ Power(Group, 0) = 1
      /\ \A n \in Nat : Power(Group, n) \in Nat \ {0} /\ Power(Group, n + 1) = Group * Power(Group, n)
  BY <1>1, PowerFacts
<1>3. MaxBytes - 1 \in Nat /\ MaxBytes \in Nat \ {0} /\ Width \in Nat
  BY MaxBytesAssumption
<1>4. Power(Group, MaxBytes - 1) \in Nat
  BY <1>2, <1>3
<1>5. Width # 0
  BY <1>3, <1>4, MaxBytesAssumption
<1> QED
  BY <1>1, <1>2, <1>3, <1>5, MaxBytesAssumption

LEMMA Consts ==
  /\ Group \in Nat \ {0} /\ ByteMod \in Nat \ {0} /\ ByteMod = Group + Group
  /\ MaxBytes \in Nat \ {0} /\ Width \in Nat \ {0}
BY Sizes

AnyByte == 0..(ByteMod - 1)

\* VarSize is the number of digits,
LEMMA SizeIs ==
  ASSUME NEW v \in Numbers
  PROVE  /\ VarSize(v) \in 1..MaxBytes
         /\ \A k \in 1..MaxBytes : v < Power(Group, k) <=> VarSize(v) <= k
<1> DEFINE S == {k \in 1..MaxBytes : v < Power(Group, k)}
           n == VarSize(v)
<1>1. v \in Nat /\ v < Power(Group, MaxBytes) /\ MaxBytes \in 1..MaxBytes
  BY Sizes DEF Numbers
<1>2. S \subseteq Nat /\ S # {}
  <2>1. MaxBytes \in S
    BY <1>1
  <2>2. S \subseteq 1..MaxBytes
    OBVIOUS
  <2> HIDE DEF S
  <2> QED
    BY <2>1, <2>2, Consts
<1>3. n \in S /\ \A k \in S : n <= k
  <2>1. n = Min(S)
    BY DEF VarSize
  <2> HIDE DEF S, n
  <2> QED
    BY <1>2, <2>1, Least
<1>4. n \in 1..MaxBytes /\ v < Power(Group, n)
  BY <1>3
<1>5. ASSUME NEW k \in 1..MaxBytes, n <= k PROVE v < Power(Group, k)
  <2>1. Power(Group, n) <= Power(Group, k)
    BY <1>4, <1>5, Sizes, PowerGrows
  <2>2. Power(Group, n) \in Nat /\ Power(Group, k) \in Nat
    BY <1>4, Sizes
  <2> QED
    BY <1>1, <1>4, <2>1, <2>2
<1>6. ASSUME NEW k \in 1..MaxBytes, v < Power(Group, k) PROVE n <= k
  BY <1>3, <1>6
<1> QED
  BY <1>4, <1>5, <1>6

\* and all but the last byte say that another follows.
LEMMA BytesAre ==
  ASSUME NEW v \in Numbers
  PROVE  /\ VarBytes(v) \in Seq(AnyByte) /\ Len(VarBytes(v)) = VarSize(v)
         /\ \A k \in 1..VarSize(v) :
              /\ VarBytes(v)[k] = ((v \div Power(Group, k - 1)) % Group)
                                    + (IF k < VarSize(v) THEN Group ELSE 0)
              /\ IsExtended(VarBytes(v)[k]) <=> k < VarSize(v)
              /\ VarBytes(v)[k] % Group = (v \div Power(Group, k - 1)) % Group
<1> DEFINE n == VarSize(v)
           D(k) == (v \div Power(Group, k - 1)) % Group
           B(k) == D(k) + (IF k < n THEN Group ELSE 0)
<1>1. n \in Nat
  BY SizeIs
<1>2. ASSUME NEW k \in 1..n PROVE D(k) \in 0..(Group - 1)
  <2> DEFINE p == Power(Group, k - 1)
             q == v \div p
  <2>1. k - 1 \in Nat
    BY <1>1
  <2>2. p \in Nat \ {0} /\ v \in Nat
    BY <2>1, Sizes DEF Numbers
  <2> HIDE DEF p
  <2>3. q \in Nat
    BY <2>2
  <2> HIDE DEF q
  <2>4. q % Group \in 0..(Group - 1)
    BY <2>3, Sizes
  <2> QED
    BY <2>4 DEF p, q
<1>3. VarBytes(v) = [k \in 1..n |-> B(k)]
  BY DEF VarBytes
<1> HIDE DEF D
<1>4. ASSUME NEW k \in 1..n
      PROVE  B(k) \in AnyByte /\ (IsExtended(B(k)) <=> k < n) /\ B(k) % Group = D(k)
  <2>1. D(k) \in 0..(Group - 1) /\ Group \in Nat \ {0} /\ ByteMod = Group + Group
    BY <1>2, Sizes
  <2>2. CASE k < n
    <3>1. B(k) = D(k) + Group
      BY <2>2
    <3>2. (Group * 1 + D(k)) % Group = D(k)
      <4>1. 1 \in Nat
        OBVIOUS
      <4> QED
        BY <2>1, <4>1, DivModUnique
    <3>3. Group * 1 + D(k) = B(k)
      BY <2>1, <3>1
    <3>4. B(k) \in AnyByte /\ B(k) >= Group
      BY <2>1, <3>1 DEF AnyByte
    <3> QED
      BY <2>2, <3>2, <3>3, <3>4 DEF IsExtended
  <2>3. CASE ~(k < n)
    <3>1. B(k) = D(k)
      BY <2>1, <2>3
    <3> QED
      BY <2>1, <2>3, <3>1 DEF IsExtended, AnyByte
  <2> QED
    BY <2>2, <2>3
<1>5. VarBytes(v) \in Seq(AnyByte) /\ Len(VarBytes(v)) = n
  <2> HIDE DEF B, n
  <2> QED
    BY <1>1, <1>3, <1>4, SeqDef, LenProperties
<1>6. \A k \in 1..n : VarBytes(v)[k] = B(k)
  BY <1>3
<1> QED
  <2> HIDE DEF B
  <2>1. \A k \in 1..n : (IsExtended(VarBytes(v)[k]) <=> k < n) /\ VarBytes(v)[k] % Group = D(k)
    BY <1>4, <1>6
  <2> QED
    BY <1>5, <1>6, <2>1 DEF B, D

\* They are read as the number that they are of.
LEMMA VarValueIs ==
  ASSUME NEW v \in Numbers
  PROVE  VarValue(VarBytes(v)) = v
<1> DEFINE n == VarSize(v)
           s == VarBytes(v)
           a == [k \in DOMAIN s |-> (s[k] % Group) * Power(Group, k - 1)]
<1>1. n \in 1..MaxBytes /\ v < Power(Group, n) /\ v \in Nat /\ v < Width
  BY SizeIs, Sizes DEF Numbers
<1>2. /\ s \in Seq(AnyByte) /\ Len(s) = n
      /\ \A k \in 1..n : s[k] % Group = (v \div Power(Group, k - 1)) % Group
  BY BytesAre
<1> HIDE DEF s
<1>3. DOMAIN s = 1..n
  BY <1>2
<1>4. \A k \in 1..n : a[k] = ((v \div Power(Group, k - 1)) % Group) * Power(Group, k - 1)
  BY <1>2, <1>3
<1> HIDE DEF a
<1>5. Total(a, n) = v % Power(Group, n)
  <2>1. n \in Nat /\ n \in 0..n /\ v \in Nat /\ Group \in Nat \ {0}
    BY <1>1, Sizes
  <2> HIDE DEF n
  <2>2. \A k \in 0..n : Total(a, k) = v % Power(Group, k)
    <3>1. AreDigits(a, n, Group, v)
      BY <1>4, Zenon DEF AreDigits
    <3>2. n \in Nat /\ v \in Nat /\ Group \in Nat \ {0}
      BY <2>1, Zenon
    <3> QED
      BY <3>1, <3>2, Digits
  <2> QED
    BY <2>1, <2>2
<1>6. v % Power(Group, n) = v
  <2>1. Power(Group, n) \in Nat \ {0}
    BY <1>1, Sizes
  <2> QED
    BY <1>1, <2>1
<1>7. v % Width = v
  <2>1. Width \in Nat \ {0} /\ v \in Nat /\ v < Width
    BY <1>1, Sizes
  <2> QED
    BY <2>1
<1> QED
  BY <1>2, <1>5, <1>6, <1>7 DEF VarValue, a, s

(***************************************************************************)
(* Cursors.                                                                *)
(***************************************************************************)
At(buf, pos) == [buf |-> buf, pos |-> pos]

Holds(buf, pos, s) ==
  pos + Len(s) <= Len(buf) /\ \A k \in 1..Len(s) : buf[pos + k] = s[k]

\* The buffer when the first n of the bytes s were put.
PutTo(buf, pos, s, n) ==
  [k \in 1..Len(buf) |-> IF k \in (pos + 1)..(pos + n) THEN s[k - pos] ELSE buf[k]]

\* They are there, and nothing before them has changed.
LEMMA PutToIs ==
  ASSUME NEW X, NEW buf \in Seq(X), NEW pos \in Nat, NEW s \in Seq(X), NEW n \in 0..Len(s),
         pos + n <= Len(buf)
  PROVE  /\ PutTo(buf, pos, s, n) \in Seq(X) /\ Len(PutTo(buf, pos, s, n)) = Len(buf)
         /\ \A k \in 1..pos : PutTo(buf, pos, s, n)[k] = buf[k]
         /\ \A k \in 1..n : PutTo(buf, pos, s, n)[pos + k] = s[k]
<1> DEFINE N == Len(buf)
           new == PutTo(buf, pos, s, n)
<1>1. N \in Nat /\ n \in Nat /\ Len(s) \in Nat /\ \A k \in 1..N : buf[k] \in X
  BY LenProperties, ElementOfSeq
<1>2. \A k \in 1..n : s[k] \in X
  BY <1>1, ElementOfSeq
<1>3. new = [k \in 1..N |-> IF k \in (pos + 1)..(pos + n) THEN s[k - pos] ELSE buf[k]]
  BY DEF PutTo
<1> HIDE DEF N, new
<1>4. \A k \in 1..N : new[k] \in X
  <2> SUFFICES ASSUME NEW k \in 1..N PROVE new[k] \in X
    OBVIOUS
  <2>1. CASE k \in (pos + 1)..(pos + n)
    <3>1. k - pos \in 1..n
      BY <1>1, <2>1
    <3> QED
      BY <1>2, <1>3, <2>1, <3>1
  <2>2. CASE k \notin (pos + 1)..(pos + n)
    BY <1>1, <1>3, <2>2
  <2> QED
    BY <2>1, <2>2
<1>5. new \in Seq(X) /\ Len(new) = N
  <2>1. new \in [1..N -> X]
    BY <1>3, <1>4
  <2> QED
    BY <1>1, <2>1, SeqDef, LenProperties
<1>6. pos + n <= N
  BY DEF N
<1>7. \A k \in 1..n : new[pos + k] = s[k]
  BY <1>1, <1>3, <1>6
<1>8. \A k \in 1..pos : new[k] = buf[k]
  BY <1>1, <1>3, <1>6
<1> QED
  BY <1>5, <1>7, <1>8 DEF N, new

\* Put puts all of them,
LEMMA PutAllOf ==
  ASSUME NEW X, NEW buf \in Seq(X), NEW pos \in Nat, NEW s
  PROVE  Put(At(buf, pos), s) = At(PutTo(buf, pos, s, Len(s)), pos + Len(s))
<1> DEFINE N == Len(buf)
           new == PutTo(buf, pos, s, Len(s))
           c == At(buf, pos)
           b == [c EXCEPT !.buf = new]
<1>1. new = [k \in 1..N |-> IF k \in (pos + 1)..(pos + Len(s)) THEN s[k - pos] ELSE buf[k]]
  BY DEF PutTo
<1>2. DOMAIN c.buf = 1..N /\ c.pos = pos /\ c.buf = buf
  BY LenProperties DEF At
<1>3. Put(c, s) = Advance(b, Len(s))
  <2> HIDE DEF c, N
  <2> QED
    BY <1>1, <1>2 DEF Put
<1> HIDE DEF new
<1>4. b = At(new, pos)
  BY DEF At
<1>5. Advance(At(new, pos), Len(s)) = At(new, pos + Len(s))
  BY DEF Advance, At
<1> QED
  BY <1>3, <1>4, <1>5 DEF new

\* or some,
LEMMA PutSomeOf ==
  ASSUME NEW X, NEW buf \in Seq(X), NEW pos \in Nat, NEW s \in Seq(X), NEW n \in 0..Len(s)
  PROVE  Put(At(buf, pos), SubSeq(s, 1, n)) = At(PutTo(buf, pos, s, n), pos + n)
<1> DEFINE t == SubSeq(s, 1, n)
<1>1. Len(s) \in Nat /\ n \in Nat /\ Len(buf) \in Nat
  BY LenProperties
<1>2. Len(t) = n /\ \A k \in 1..n : t[k] = s[k]
  <2>1. \A k \in 1..n : s[k] \in X
    BY <1>1, ElementOfSeq
  <2>2. n \in Int /\ 1 \in Int /\ (n >= 1 \/ n = 0)
    BY <1>1
  <2>3. Len(t) = IF 1 <= n THEN n - 1 + 1 ELSE 0
    BY <2>1, <2>2, SubSeqProperties
  <2>4. \A k \in 1..(n - 1 + 1) : t[k] = s[1 + k - 1]
    BY <2>1, <2>2, SubSeqProperties
  <2> HIDE DEF t
  <2>5. \A k \in 1..n : t[k] = s[k]
    <3> SUFFICES ASSUME NEW k \in 1..n PROVE t[k] = s[k]
      OBVIOUS
    <3>1. k \in 1..(n - 1 + 1) /\ 1 + k - 1 = k
      BY <1>1
    <3> QED
      BY <2>4, <3>1
  <2> QED
    BY <1>1, <2>3, <2>5
<1>3. Put(At(buf, pos), t) = At(PutTo(buf, pos, t, Len(t)), pos + Len(t))
  BY PutAllOf
<1> HIDE DEF t
<1>4. PutTo(buf, pos, t, n) = PutTo(buf, pos, s, n)
  <2>1. \A k \in (pos + 1)..(pos + n) : t[k - pos] = s[k - pos]
    <3> SUFFICES ASSUME NEW k \in (pos + 1)..(pos + n) PROVE t[k - pos] = s[k - pos]
      OBVIOUS
    <3>1. k - pos \in 1..n
      BY <1>1
    <3> QED
      BY <1>2, <3>1
  <2> QED
    BY <2>1 DEF PutTo
<1> QED
  BY <1>2, <1>3, <1>4 DEF t

\* or one more.
LEMMA PutOneMore ==
  ASSUME NEW X, NEW buf \in Seq(X), NEW pos \in Nat, NEW s \in Seq(X), NEW n \in Nat,
         n + 1 <= Len(s), pos + n + 1 <= Len(buf)
  PROVE  Put(At(PutTo(buf, pos, s, n), pos + n), <<s[n + 1]>>)
           = At(PutTo(buf, pos, s, n + 1), pos + n + 1)
<1> DEFINE one == <<s[n + 1]>>
           mid == PutTo(buf, pos, s, n)
           p == pos + n
<1>1. Len(s) \in Nat /\ Len(buf) \in Nat /\ n \in 0..Len(s) /\ pos + n <= Len(buf) /\ p \in Nat
  BY LenProperties
<1>2. mid \in Seq(X) /\ Len(mid) = Len(buf)
  BY <1>1, PutToIs
<1>3. mid = [k \in 1..Len(buf) |-> IF k \in (pos + 1)..(pos + n) THEN s[k - pos] ELSE buf[k]]
  BY DEF PutTo
<1> HIDE DEF mid, p
<1>4. Put(At(mid, p), one) = At(PutTo(mid, p, one, 1), p + 1)
  <2>1. Len(one) = 1
    OBVIOUS
  <2> HIDE DEF one
  <2>2. Put(At(mid, p), one) = At(PutTo(mid, p, one, Len(one)), p + Len(one))
    BY <1>1, <1>2, PutAllOf
  <2> QED
    BY <2>1, <2>2
<1>5. one[1] = s[n + 1]
  OBVIOUS
<1> HIDE DEF one
<1>6. PutTo(mid, p, one, 1) = PutTo(buf, pos, s, n + 1)
  <2> DEFINE x == PutTo(mid, p, one, 1)
             y == PutTo(buf, pos, s, n + 1)
  <2>1. x = [k \in 1..Len(buf) |-> IF k \in (p + 1)..(p + 1) THEN one[k - p] ELSE mid[k]]
    BY <1>2 DEF PutTo
  <2>2. y = [k \in 1..Len(buf) |-> IF k \in (pos + 1)..(pos + (n + 1)) THEN s[k - pos] ELSE buf[k]]
    BY DEF PutTo
  <2> HIDE DEF x, y
  <2>3. ASSUME NEW k \in 1..Len(buf) PROVE x[k] = y[k]
    <3>0. p = pos + n
      BY DEF p
    <3>1. CASE k = p + 1
      <4>1. k - p = 1 /\ k - pos = n + 1 /\ k \in (p + 1)..(p + 1) /\ k \in (pos + 1)..(pos + (n + 1))
        BY <1>1, <3>0, <3>1
      <4>2. x[k] = one[1] /\ y[k] = s[n + 1]
        BY <2>1, <2>2, <4>1
      <4> QED
        BY <1>5, <4>2
    <3>2. CASE k # p + 1
      <4>1. x[k] = mid[k]
        BY <1>1, <2>1, <3>2
      <4>2. k \in (pos + 1)..(pos + (n + 1)) <=> k \in (pos + 1)..(pos + n)
        BY <1>1, <3>0, <3>2
      <4> QED
        BY <1>3, <2>2, <4>1, <4>2
    <3> QED
      BY <3>1, <3>2
  <2> QED
    BY <2>1, <2>2, <2>3 DEF x, y
<1>7. p + 1 = pos + n + 1
  BY DEF p
<1> QED
  BY <1>4, <1>6, <1>7 DEF mid, p, one

\* What is there is taken.
LEMMA TakenIs ==
  ASSUME NEW X, NEW buf \in Seq(X), NEW pos \in Nat, NEW n \in Nat, pos + n <= Len(buf)
  PROVE  /\ Taken(At(buf, pos), n) \in Seq(X) /\ Len(Taken(At(buf, pos), n)) = n
         /\ \A k \in 1..n : Taken(At(buf, pos), n)[k] = buf[pos + k]
<1> DEFINE t == SubSeq(buf, pos + 1, pos + n)
<1>1. t = Taken(At(buf, pos), n)
  BY DEF Taken, At
<1>2. t \in Seq(X) /\ Len(t) = n /\ \A k \in 1..n : t[k] = buf[pos + k]
  <2>1. pos + 1 \in 1..(Len(buf) + 1) /\ pos + n \in Nat /\ pos + n <= Len(buf) /\ Len(buf) \in Nat
    OBVIOUS
  <2>2. t \in Seq(X)
    BY <2>1, SubSeqProperties
  <2>3. Len(t) = n
    BY <2>1, SubSeqProperties
  <2>4. \A k \in 1..((pos + n) - (pos + 1) + 1) : t[k] = buf[(pos + 1) + k - 1]
    <3> DEFINE a == pos + 1
               c == pos + n
    <3>1. \A k \in a..c : buf[k] \in X
      BY <2>1, ElementOfSeq
    <3>2. a \in Int /\ c \in Int
      BY <2>1
    <3>3. t = SubSeq(buf, a, c)
      OBVIOUS
    <3> HIDE DEF a, c, t
    <3>4. \A k \in 1..(c - a + 1) : SubSeq(buf, a, c)[k] = buf[a + k - 1]
      BY <3>1, <3>2, SubSeqProperties
    <3>5. \A k \in 1..(c - a + 1) : t[k] = buf[a + k - 1]
      BY <3>3, <3>4, Zenon
    <3> QED
      BY <3>5, Zenon DEF a, c
  <2>5. \A k \in 1..n : t[k] = buf[pos + k]
    <3> SUFFICES ASSUME NEW k \in 1..n PROVE t[k] = buf[pos + k]
      OBVIOUS
    <3>1. k \in 1..((pos + n) - (pos + 1) + 1) /\ (pos + 1) + k - 1 = pos + k
      BY <2>1
    <3> HIDE DEF t
    <3> QED
      BY <2>4, <3>1
  <2> QED
    BY <2>2, <2>3, <2>5
<1> QED
  BY <1>1, <1>2

\* A sequence that is in a buffer is taken from there.
LEMMA TakenHolds ==
  ASSUME NEW buf \in Seq(Int), NEW pos \in Nat, NEW s \in Seq(Int), Holds(buf, pos, s)
  PROVE  Taken(At(buf, pos), Len(s)) = s
<1> DEFINE t == Taken(At(buf, pos), Len(s))
<1>1. t \in Seq(Int) /\ Len(t) = Len(s) /\ \A k \in 1..Len(s) : t[k] = buf[pos + k]
  <2>1. Len(s) \in Nat /\ pos + Len(s) <= Len(buf)
    BY DEF Holds
  <2> DEFINE n == Len(s)
  <2> HIDE DEF n
  <2>2. n \in Nat /\ pos + n <= Len(buf)
    BY <2>1 DEF n
  <2>3. /\ Taken(At(buf, pos), n) \in Seq(Int) /\ Len(Taken(At(buf, pos), n)) = n
        /\ \A k \in 1..n : Taken(At(buf, pos), n)[k] = buf[pos + k]
    BY <2>2, TakenIs
  <2> QED
    BY <2>3 DEF n
<1>2. \A k \in 1..Len(s) : t[k] = s[k]
  BY <1>1 DEF Holds
<1> HIDE DEF t
<1> QED
  BY <1>1, <1>2, SeqEqual, Zenon DEF t

\* Where the bytes of a varint end,
LEMMA VarEndIs ==
  ASSUME NEW buf \in Seq(Int), NEW pos \in Nat, NEW e, e = VarEnd(At(buf, pos))
  PROVE  /\ e \in 1..MaxBytes
         /\ \A k \in 1..MaxBytes : pos + k <= Len(buf) /\ ~IsExtended(buf[pos + k]) => e <= k
         /\ e < MaxBytes => pos + e <= Len(buf) /\ ~IsExtended(buf[pos + e])
<1> DEFINE S == {MaxBytes} \cup {k \in 1..MaxBytes : pos + k <= Len(buf)
                                                  /\ ~IsExtended(buf[pos + k])}
<1>1. e = Min(S)
  BY DEF VarEnd, At
<1>2. S \subseteq Nat /\ S # {}
  BY Consts
<1>3. e \in S /\ \A k \in S : e <= k
  <2> HIDE DEF S
  <2> QED
    BY <1>1, <1>2, Least
<1>4. MaxBytes \in 1..MaxBytes /\ MaxBytes \in Nat
  BY Consts
<1> QED
  BY <1>3, <1>4

\* of a number that is there,
LEMMA GetVarHolds ==
  ASSUME NEW buf \in Seq(Int), NEW pos \in Nat, NEW v \in Numbers, Holds(buf, pos, VarBytes(v))
  PROVE  GetVar(At(buf, pos)) =
           [res |-> "ok", csr |-> At(buf, pos + VarSize(v)), val |-> v]
<1> DEFINE c == At(buf, pos)
           e == VarEnd(c)
           n == VarSize(v)
<1>1. n \in 1..MaxBytes /\ Len(VarBytes(v)) = n /\ VarBytes(v) \in Seq(AnyByte)
      /\ MaxBytes \in Nat /\ Len(buf) \in Nat
  BY SizeIs, BytesAre, Consts
<1>2. pos + n <= Len(buf) /\ \A k \in 1..n : IsExtended(buf[pos + k]) <=> k < n
  <2>1. \A k \in 1..n : IsExtended(VarBytes(v)[k]) <=> k < n
    BY BytesAre
  <2> QED
    BY <1>1, <2>1 DEF Holds
<1>3. /\ e \in 1..MaxBytes
      /\ \A k \in 1..MaxBytes : pos + k <= Len(buf) /\ ~IsExtended(buf[pos + k]) => e <= k
      /\ e < MaxBytes => pos + e <= Len(buf) /\ ~IsExtended(buf[pos + e])
  BY VarEndIs
<1> HIDE DEF e, n
<1>4. e = n
  <2>1. e <= n
    <3>1. n \in 1..n
      BY <1>1
    <3>2. pos + n <= Len(buf) /\ ~IsExtended(buf[pos + n])
      BY <1>1, <1>2, <3>1
    <3> QED
      BY <1>1, <1>3, <3>2
  <2>2. CASE e < n
    <3>1. e \in 1..n /\ e < MaxBytes
      BY <1>1, <1>3, <2>2
    <3> QED
      BY <1>2, <1>3, <2>2, <3>1
  <2> QED
    BY <1>1, <1>3, <2>1, <2>2
<1>5. Fits(c, e)
  BY <1>2, <1>4 DEF Fits, At
<1>6. Taken(c, n) = VarBytes(v)
  <2>1. VarBytes(v) \in Seq(Int)
    <3>1. AnyByte \subseteq Int
      BY Consts DEF AnyByte
    <3> QED
      BY <1>1, <3>1, SeqMonotonic
  <2> QED
    BY <1>1, <2>1, TakenHolds
<1>7. Advance(c, e) = At(buf, pos + n)
  BY <1>4 DEF Advance, At
<1> HIDE DEF c
<1>8. GetVar(c) = [res |-> "ok", csr |-> Advance(c, e), val |-> VarValue(Taken(c, e))]
  BY <1>5 DEF GetVar, e
<1> QED
  BY <1>4, <1>6, <1>7, <1>8, VarValueIs DEF c, n

\* and of one that is cut.
LEMMA GetVarCut ==
  ASSUME NEW buf \in Seq(Int), NEW pos \in Nat, pos <= Len(buf), Len(buf) < pos + MaxBytes,
         \A k \in 1..(Len(buf) - pos) : IsExtended(buf[pos + k])
  PROVE  GetVar(At(buf, pos)) = [res |-> "exhausted", csr |-> At(buf, Len(buf)), val |-> 0]
<1> DEFINE c == At(buf, pos)
           e == VarEnd(c)
<1>1. Len(buf) \in Nat /\ MaxBytes \in Nat
  BY Consts
<1>2. /\ e \in 1..MaxBytes
      /\ e < MaxBytes => pos + e <= Len(buf) /\ ~IsExtended(buf[pos + e])
  BY VarEndIs
<1> HIDE DEF e
<1>3. e = MaxBytes
  <2> SUFFICES ASSUME e < MaxBytes PROVE FALSE
    BY <1>1, <1>2
  <2>1. e \in 1..(Len(buf) - pos)
    BY <1>1, <1>2
  <2> QED
    BY <1>2, <2>1
<1>4. ~Fits(c, e)
  BY <1>1, <1>3 DEF Fits, At
<1>5. Advance(c, Remaining(c)) = At(buf, Len(buf))
  BY <1>1 DEF Advance, Remaining, At
<1> HIDE DEF c
<1> QED
  BY <1>4, <1>5 DEF GetVar, e, c

\* What is read of any bytes is a number.
LEMMA GetVarAny ==
  ASSUME NEW buf \in Seq(Int), NEW pos \in Nat, pos <= Len(buf), NEW g, g = GetVar(At(buf, pos))
  PROVE  \E to \in pos..Len(buf), r \in {"ok", "exhausted"}, v \in Numbers :
           g = [res |-> r, csr |-> At(buf, to), val |-> v]
<1> DEFINE c == At(buf, pos)
           e == VarEnd(c)
           s == Taken(c, e)
           a == [k \in DOMAIN s |-> (s[k] % Group) * Power(Group, k - 1)]
<1>1. e \in 1..MaxBytes /\ MaxBytes \in Nat /\ Len(buf) \in Nat
  BY VarEndIs, Consts
<1> HIDE DEF e
<1>2. CASE Fits(c, e)
  <2>1. pos + e <= Len(buf) /\ e \in Nat
    BY <1>1, <1>2 DEF Fits, At
  <2>2. s \in Seq(Int) /\ Len(s) = e
    BY <2>1, TakenIs
  <2>3. VarValue(s) \in Numbers
    <3> HIDE DEF s
    <3>1. \A k \in 1..e : a[k] \in Nat
      <4> SUFFICES ASSUME NEW k \in 1..e PROVE (s[k] % Group) * Power(Group, k - 1) \in Nat
        BY <2>2
      <4> DEFINE p == Power(Group, k - 1)
                 d == s[k] % Group
      <4>1. s[k] \in Int
        BY <2>2, ElementOfSeq
      <4>2. d \in Nat
        BY <4>1, Consts
      <4>3. p \in Nat
        <5>1. k - 1 \in Nat
          OBVIOUS
        <5> QED
          BY <5>1, Sizes
      <4> HIDE DEF p, d
      <4>4. d * p \in Nat
        BY <4>2, <4>3
      <4> QED
        BY <4>4 DEF p, d
    <3>2. Total(a, e) \in Nat
      <4> HIDE DEF a
      <4>1. e \in 0..e
        BY <2>1
      <4> QED
        BY <2>1, <3>1, <4>1, TotalNext
    <3>3. VarValue(s) = Total(a, e) % Width
      BY <2>2 DEF VarValue
    <3> DEFINE x == Total(a, e)
    <3> HIDE DEF x
    <3>4. x \in Nat /\ VarValue(s) = x % Width
      BY <3>2, <3>3 DEF x
    <3> QED
      BY <3>4, Consts DEF Numbers
  <2>4. Advance(c, e) = At(buf, pos + e)
    BY DEF Advance, At
  <2>5. g = [res |-> "ok", csr |-> At(buf, pos + e), val |-> VarValue(s)]
    <3> HIDE DEF c
    <3> QED
      BY <1>2, <2>4 DEF GetVar, e, c
  <2>6. pos + e \in pos..Len(buf)
    BY <1>1, <2>1
  <2> HIDE DEF s
  <2> QED
    BY <2>3, <2>5, <2>6
<1>3. CASE ~Fits(c, e)
  <2>1. Advance(c, Remaining(c)) = At(buf, Len(buf))
    BY <1>1 DEF Advance, Remaining, At
  <2>2. g = [res |-> "exhausted", csr |-> At(buf, Len(buf)), val |-> 0]
    <3> HIDE DEF c
    <3> QED
      BY <1>3, <2>1 DEF GetVar, e, c
  <2>3. Len(buf) \in pos..Len(buf) /\ 0 \in Numbers
    BY <1>1, Consts DEF Numbers
  <2> QED
    BY <2>2, <2>3
<1> QED
  BY <1>2, <1>3

(***************************************************************************)
(* The loop that packs, and the one that unpacks.                          *)
(***************************************************************************)
\* What is val of a number when n of its bytes are packed, and the next byte.
LEMMA DigitPacked ==
  ASSUME NEW v \in Numbers, NEW n \in 0..(VarSize(v) - 1), NEW l, l = v \div Power(Group, n)
  PROVE  /\ l \in Numbers
         /\ l > Group - 1 <=> n + 1 < VarSize(v)
         /\ VarBytes(v)[n + 1] = (l % Group) + (IF n + 1 < VarSize(v) THEN Group ELSE 0)
         /\ l \div Group = v \div Power(Group, n + 1)
<1> DEFINE p == Power(Group, n)
<1>1. VarSize(v) \in 1..MaxBytes /\ MaxBytes \in Nat /\ Group \in Nat \ {0} /\ Width \in Nat \ {0}
  BY SizeIs, Consts
<1>2. n \in Nat /\ n + 1 \in 1..VarSize(v) /\ n + 1 \in 1..MaxBytes /\ (n + 1) - 1 = n
  BY <1>1
<1>3. p \in Nat \ {0} /\ Power(Group, n + 1) = Group * p
  BY <1>2, Sizes
<1>4. v \in Nat /\ v < Width
  BY <1>1 DEF Numbers
<1>5. v < Power(Group, n + 1) <=> VarSize(v) <= n + 1
  BY <1>2, SizeIs
<1>6. VarBytes(v)[n + 1] = ((v \div Power(Group, (n + 1) - 1)) % Group)
                             + (IF n + 1 < VarSize(v) THEN Group ELSE 0)
  BY <1>2, BytesAre
<1>7. l = v \div p
  OBVIOUS
<1> HIDE DEF p
<1>8. l \in Nat /\ l <= v
  <2>1. v = p * l + (v % p) /\ l \in Nat /\ v % p \in Nat
    <3>1. v \div p \in Nat /\ v % p \in 0..(p - 1) /\ v = p * (v \div p) + (v % p)
      BY <1>3, <1>4, DivMod
    <3>2. v % p \in Nat
      BY <1>3, <3>1
    <3> QED
      BY <1>7, <3>1, <3>2, Zenon
  <2>2. p * l >= l
    BY <1>3, <2>1
  <2> QED
    BY <1>3, <1>4, <2>1, <2>2
<1>9. v \div (Group * p) = l \div Group /\ (v >= Group * p <=> l >= Group)
  <2>1. v \div (Group * p) = (v \div p) \div Group /\ (v >= Group * p <=> v \div p >= Group)
    BY <1>1, <1>3, <1>4, DigitNext
  <2> QED
    BY <1>7, <2>1, Zenon
<1>10. l \in Numbers
  BY <1>1, <1>4, <1>8 DEF Numbers
<1>11. l > Group - 1 <=> n + 1 < VarSize(v)
  <2> DEFINE g == Power(Group, n + 1)
  <2>1. g \in Nat /\ g = Group * p /\ (v < g <=> VarSize(v) <= n + 1)
    BY <1>1, <1>3, <1>5
  <2> HIDE DEF g
  <2>2. v >= g <=> l >= Group
    BY <1>9, <2>1
  <2> QED
    BY <1>1, <1>2, <1>4, <1>8, <2>1, <2>2
<1> QED
  BY <1>2, <1>3, <1>6, <1>7, <1>9, <1>10, <1>11 DEF p

\* What a varint call makes of a number that it packs.
LEMMA PutVarIs ==
  ASSUME NEW X, AnyByte \subseteq X, NEW buf \in Seq(X), NEW pos \in Nat, pos <= Len(buf),
         NEW v \in Numbers
  PROVE  PutVar(At(buf, pos), v) =
           IF pos + VarSize(v) <= Len(buf)
             THEN [res |-> "ok",
                   csr |-> At(PutTo(buf, pos, VarBytes(v), VarSize(v)), pos + VarSize(v))]
             ELSE [res |-> "exhausted",
                   csr |-> At(PutTo(buf, pos, VarBytes(v), Len(buf) - pos), Len(buf))]
<1> DEFINE c == At(buf, pos)
           s == VarBytes(v)
           r == Len(buf) - pos
<1>1. s \in Seq(X) /\ Len(s) = VarSize(v) /\ VarSize(v) \in Nat /\ Len(buf) \in Nat
  BY BytesAre, SizeIs, SeqMonotonic
<1>2. Fits(c, Len(s)) <=> pos + VarSize(v) <= Len(buf)
  BY <1>1 DEF Fits, At
<1>3. Remaining(c) = r
  BY DEF Remaining, At
<1>4. Put(c, s) = At(PutTo(buf, pos, s, Len(s)), pos + Len(s))
  BY PutAllOf
<1>5. ASSUME ~(pos + VarSize(v) <= Len(buf))
      PROVE  Put(c, SubSeq(s, 1, r)) = At(PutTo(buf, pos, s, r), Len(buf))
  <2>1. r \in 0..Len(s) /\ pos + r = Len(buf)
    BY <1>1, <1>5
  <2> HIDE DEF c, s, r
  <2>2. Put(At(buf, pos), SubSeq(s, 1, r)) = At(PutTo(buf, pos, s, r), pos + r)
    BY <1>1, <2>1, PutSomeOf
  <2> QED
    BY <2>1, <2>2 DEF c
<1>6. PutVar(c, v) = IF Fits(c, Len(s))
                       THEN [res |-> "ok", csr |-> Put(c, s)]
                       ELSE [res |-> "exhausted", csr |-> Put(c, SubSeq(s, 1, Remaining(c)))]
  BY DEF PutVar
<1> HIDE DEF c, s
<1>7. CASE pos + VarSize(v) <= Len(buf)
  BY <1>1, <1>2, <1>4, <1>6, <1>7 DEF c, s
<1>8. CASE ~(pos + VarSize(v) <= Len(buf))
  BY <1>2, <1>3, <1>5, <1>6, <1>8 DEF c, s
<1> QED
  BY <1>7, <1>8

\* The number that n bytes give.
VarTotal(buf, pos, n) == Total([k \in 1..n |-> (buf[pos + k] % Group) * Power(Group, k - 1)], n)

LEMMA VarTotalNext ==
  ASSUME NEW buf \in Seq(Int), NEW pos \in Nat
  PROVE  /\ VarTotal(buf, pos, 0) = 0
         /\ \A n \in Nat : pos + n <= Len(buf) =>
              /\ VarTotal(buf, pos, n) \in Nat
              /\ VarValue(Taken(At(buf, pos), n)) = VarTotal(buf, pos, n) % Width
         /\ \A n \in Nat : pos + n + 1 <= Len(buf) =>
              /\ (buf[pos + n + 1] % Group) * Power(Group, n) \in Nat
              /\ VarTotal(buf, pos, n + 1)
                   = VarTotal(buf, pos, n) + (buf[pos + n + 1] % Group) * Power(Group, n)
<1> DEFINE F(n) == [k \in 1..n |-> (buf[pos + k] % Group) * Power(Group, k - 1)]
<1>0. Len(buf) \in Nat
  BY LenProperties
<1>1. ASSUME NEW n \in Nat, pos + n <= Len(buf), NEW k \in 1..n
      PROVE  (buf[pos + k] % Group) * Power(Group, k - 1) \in Nat
  <2> DEFINE p == Power(Group, k - 1)
             x == buf[pos + k]
             d == x % Group
  <2>1. pos + k \in 1..Len(buf) /\ k - 1 \in Nat
    BY <1>0, <1>1
  <2>2. x \in Int
    BY <2>1, ElementOfSeq
  <2>3. p \in Nat
    BY <2>1, Sizes
  <2> HIDE DEF x, p
  <2>4. d \in Nat
    BY <2>2, Consts
  <2> HIDE DEF d
  <2>5. d * p \in Nat
    BY <2>3, <2>4
  <2> QED
    BY <2>5 DEF d, p, x
<1>2. ASSUME NEW n \in Nat, pos + n <= Len(buf)
      PROVE  \A k \in 1..n : F(n)[k] \in Nat
  BY <1>1, <1>2
<1>3. VarTotal(buf, pos, 0) = 0
  <2>1. \A k \in 1..0 : F(0)[k] \in Nat
    OBVIOUS
  <2>2. VarTotal(buf, pos, 0) = Total(F(0), 0)
    BY DEF VarTotal
  <2> HIDE DEF F
  <2>3. 0 \in Nat
    OBVIOUS
  <2>4. Total(F(0), 0) = 0
    BY <2>1, <2>3, TotalNext
  <2> QED
    BY <2>2, <2>4
<1>4. ASSUME NEW n \in Nat, pos + n <= Len(buf)
      PROVE  VarTotal(buf, pos, n) \in Nat
  <2>1. \A k \in 1..n : F(n)[k] \in Nat
    BY <1>2, <1>4
  <2>2. VarTotal(buf, pos, n) = Total(F(n), n)
    BY DEF VarTotal
  <2> HIDE DEF F
  <2>3. n \in 0..n
    OBVIOUS
  <2>4. Total(F(n), n) \in Nat
    BY <2>1, <2>3, TotalNext
  <2> QED
    BY <2>2, <2>4
<1>5. ASSUME NEW n \in Nat, pos + n <= Len(buf)
      PROVE  VarValue(Taken(At(buf, pos), n)) = VarTotal(buf, pos, n) % Width
  <2> DEFINE s == Taken(At(buf, pos), n)
  <2>1. s \in Seq(Int) /\ Len(s) = n /\ \A k \in 1..n : s[k] = buf[pos + k]
    BY <1>5, TakenIs
  <2> HIDE DEF s
  <2>2. DOMAIN s = 1..n
    BY <2>1, LenProperties
  <2>3. [k \in DOMAIN s |-> (s[k] % Group) * Power(Group, k - 1)] = F(n)
    BY <2>1, <2>2
  <2>4. VarValue(s) = Total(F(n), n) % Width
    <3> HIDE DEF F
    <3> QED
      BY <2>1, <2>3 DEF VarValue
  <2> QED
    BY <2>4 DEF VarTotal, s
<1>6. ASSUME NEW n \in Nat, pos + n + 1 <= Len(buf)
      PROVE  /\ (buf[pos + n + 1] % Group) * Power(Group, n) \in Nat
             /\ VarTotal(buf, pos, n + 1)
                   = VarTotal(buf, pos, n) + (buf[pos + n + 1] % Group) * Power(Group, n)
  <2> DEFINE d == (buf[pos + n + 1] % Group) * Power(Group, n)
             m == n + 1
  <2>1. n + 1 \in Nat /\ pos + (n + 1) <= Len(buf) /\ n + 1 \in 1..(n + 1) /\ (n + 1) - 1 = n
        /\ pos + (n + 1) = pos + n + 1
    BY <1>6
  <2>2. d \in Nat /\ F(n + 1)[n + 1] = d
    <3>1. (buf[pos + (n + 1)] % Group) * Power(Group, (n + 1) - 1) \in Nat
      BY <1>1, <2>1
    <3>2. F(n + 1)[n + 1] = (buf[pos + (n + 1)] % Group) * Power(Group, (n + 1) - 1)
      BY <2>1
    <3> QED
      BY <2>1, <3>1, <3>2
  <2>3. \A k \in 1..(n + 1) : F(n + 1)[k] \in Nat
    BY <1>2, <2>1
  <2>4. \A k \in 1..n : F(n + 1)[k] \in Nat /\ F(n)[k] = F(n + 1)[k]
    <3>1. \A k \in 1..n : k \in 1..(n + 1)
      OBVIOUS
    <3> QED
      BY <2>3, <3>1
  <2>5. VarTotal(buf, pos, n + 1) = Total(F(n + 1), n + 1) /\ VarTotal(buf, pos, n) = Total(F(n), n)
    BY DEF VarTotal
  <2> DEFINE f == F(n)
             g == F(n + 1)
  <2>6. /\ \A k \in 1..(n + 1) : g[k] \in Nat
        /\ \A k \in 1..n : g[k] \in Nat /\ f[k] = g[k]
        /\ g[n + 1] = d
        /\ VarTotal(buf, pos, n + 1) = Total(g, n + 1) /\ VarTotal(buf, pos, n) = Total(f, n)
    BY <2>2, <2>3, <2>4, <2>5
  <2> HIDE DEF f, g, d
  <2>7. Total(g, n + 1) = Total(g, n) + g[n + 1]
    <3>1. n \in 0..((n + 1) - 1)
      OBVIOUS
    <3> QED
      BY <2>1, <2>6, <3>1, TotalNext
  <2>8. Total(g, n) = Total(f, n)
    <3>1. n \in 0..n
      OBVIOUS
    <3> QED
      BY <2>6, <3>1, TotalSame, ZenonT(30)
  <2>9. VarTotal(buf, pos, n + 1) = VarTotal(buf, pos, n) + d
    BY <2>6, <2>7, <2>8
  <2> QED
    BY <2>2, <2>9 DEF d
<1> QED
  BY <1>3, <1>4, <1>5, <1>6

\* Remainders of sums.
LEMMA ModAdd ==
  ASSUME NEW w \in Nat \ {0}, NEW x \in Nat, NEW y \in Nat
  PROVE  ((x % w) + y) % w = (x + y) % w
<1> DEFINE q == x \div w
           r == x % w
           z == r + y
           e == z \div w
           d == z % w
<1>1. q \in Nat /\ r \in Nat /\ x = w * q + r
  BY DivMod
<1> HIDE DEF q, r
<1>2. z \in Nat
  BY <1>1
<1>3. e \in Nat /\ d \in 0..(w - 1) /\ z = w * e + d
  <2> HIDE DEF z
  <2> QED
    BY <1>2, DivMod
<1>4. x + y = w * (q + e) + d
  <2> HIDE DEF e, d
  <2>1. x + y = w * q + z
    BY <1>1
  <2> HIDE DEF z
  <2> QED
    BY <1>1, <1>3, <2>1
<1> HIDE DEF e, d
<1>5. (w * (q + e) + d) % w = d
  <2>1. q + e \in Nat
    BY <1>1, <1>3
  <2> QED
    BY <1>3, <2>1, DivModUnique
<1> QED
  BY <1>4, <1>5 DEF d, z, r

(***************************************************************************)
(* Numbers one behind the other in a buffer.                               *)
(***************************************************************************)
\* Where the number after the first n of q begins,
Start(q, n) == Total([k \in 1..Len(q) |-> VarSize(q[k])], n)
\* and where the last one ends.
End(q) == Start(q, Len(q))

Items(buf, q) == \A k \in 1..Len(q) : Holds(buf, Start(q, k - 1), VarBytes(q[k]))

\* Bytes behind the numbers that do not make another.
Trailing(buf, q, to) ==
  /\ End(q) <= to /\ to < End(q) + MaxBytes
  /\ \A k \in (End(q) + 1)..to : IsExtended(buf[k])

LEMMA StartIs ==
  ASSUME NEW q \in Seq(Numbers)
  PROVE  /\ Start(q, 0) = 0
         /\ \A n \in 0..Len(q) : Start(q, n) \in Nat /\ Start(q, n) <= End(q)
         /\ \A n \in 0..(Len(q) - 1) : Start(q, n + 1) = Start(q, n) + VarSize(q[n + 1])
<1> DEFINE L == Len(q)
           f == [k \in 1..L |-> VarSize(q[k])]
<1>1. L \in Nat /\ L \in 0..L
  BY LenProperties
<1>2. \A k \in 1..L : VarSize(q[k]) \in Nat
  <2> SUFFICES ASSUME NEW k \in 1..L PROVE VarSize(q[k]) \in Nat
    OBVIOUS
  <2>1. q[k] \in Numbers
    BY ElementOfSeq
  <2> QED
    BY <2>1, SizeIs
<1>3. \A k \in 1..L : f[k] \in Nat /\ f[k] = VarSize(q[k])
  BY <1>2
<1>4. \A n : Start(q, n) = Total(f, n)
  BY DEF Start
<1>5. End(q) = Total(f, L)
  BY DEF End, Start
<1> HIDE DEF f, L
<1>6. /\ Total(f, 0) = 0 /\ \A n \in 0..L : Total(f, n) \in Nat
      /\ \A n \in 0..(L - 1) : Total(f, n + 1) = Total(f, n) + f[n + 1]
  BY <1>1, <1>3, TotalNext
<1>7. \A n \in 0..L : Total(f, n) <= Total(f, L)
  <2> SUFFICES ASSUME NEW n \in 0..L PROVE Total(f, n) <= Total(f, L)
    OBVIOUS
  <2>1. L \in n..L
    BY <1>1
  <2> QED
    BY <1>1, <1>3, <2>1, TotalGrows
<1>8. \A n \in 0..(L - 1) : Start(q, n + 1) = Start(q, n) + VarSize(q[n + 1])
  <2> SUFFICES ASSUME NEW n \in 0..(L - 1)
               PROVE  Start(q, n + 1) = Start(q, n) + VarSize(q[n + 1])
    OBVIOUS
  <2>1. n + 1 \in 1..L
    BY <1>1
  <2> QED
    BY <1>3, <1>4, <1>6, <2>1
<1> QED
  BY <1>4, <1>5, <1>6, <1>7, <1>8 DEF L

LEMMA StartAppend ==
  ASSUME NEW q \in Seq(Numbers), NEW v \in Numbers
  PROVE  /\ Append(q, v) \in Seq(Numbers) /\ Len(Append(q, v)) = Len(q) + 1
         /\ \A k \in 1..Len(q) : Append(q, v)[k] = q[k]
         /\ Append(q, v)[Len(q) + 1] = v
         /\ \A n \in 0..Len(q) : Start(Append(q, v), n) = Start(q, n)
         /\ End(Append(q, v)) = End(q) + VarSize(v)
<1> DEFINE L == Len(q)
           p == Append(q, v)
           f == [k \in 1..L |-> VarSize(q[k])]
           g == [k \in 1..Len(p) |-> VarSize(p[k])]
<1>1. L \in Nat /\ p \in Seq(Numbers) /\ Len(p) = L + 1 /\ p[L + 1] = v
      /\ \A k \in 1..L : p[k] = q[k]
  BY LenProperties, AppendProperties
<1> HIDE DEF p
<1>2. \A k \in 1..L : VarSize(q[k]) \in Nat
  <2> SUFFICES ASSUME NEW k \in 1..L PROVE VarSize(q[k]) \in Nat
    OBVIOUS
  <2>1. q[k] \in Numbers
    BY ElementOfSeq
  <2> QED
    BY <2>1, SizeIs
<1>3. \A k \in 1..L : f[k] \in Nat /\ g[k] = f[k]
  BY <1>1, <1>2
<1>4. \A n : Start(q, n) = Total(f, n) /\ Start(p, n) = Total(g, n)
  BY DEF Start
<1> HIDE DEF f, g, L
<1>5. \A n \in 0..L : Total(f, n) = Total(g, n)
  BY <1>1, <1>3, TotalSame, ZenonT(30)
<1>6. End(p) = End(q) + VarSize(v)
  <2>1. L \in 0..(Len(p) - 1) /\ L \in 0..L
    BY <1>1
  <2>2. Start(p, L + 1) = Start(p, L) + VarSize(p[L + 1])
    BY <1>1, <2>1, StartIs
  <2>3. Start(p, L) = Start(q, L)
    BY <1>4, <1>5, <2>1
  <2> QED
    BY <1>1, <2>2, <2>3 DEF End, L
<1> QED
  BY <1>1, <1>4, <1>5, <1>6 DEF L, p

\* A number ends where the next begins.
LEMMA ItemFits ==
  ASSUME NEW q \in Seq(Numbers), NEW k \in 1..Len(q)
  PROVE  /\ k - 1 \in 0..(Len(q) - 1) /\ q[k] \in Numbers
         /\ VarBytes(q[k]) \in Seq(AnyByte) /\ Len(VarBytes(q[k])) = VarSize(q[k])
         /\ VarSize(q[k]) \in Nat
         /\ Start(q, k - 1) \in Nat /\ Start(q, k) \in Nat /\ End(q) \in Nat
         /\ Start(q, k) = Start(q, k - 1) + VarSize(q[k]) /\ Start(q, k) <= End(q)
<1>1. Len(q) \in Nat /\ q[k] \in Numbers
  BY LenProperties, ElementOfSeq
<1>2. k - 1 \in 0..(Len(q) - 1) /\ k - 1 \in 0..Len(q) /\ k \in 0..Len(q) /\ (k - 1) + 1 = k
      /\ Len(q) \in 0..Len(q)
  BY <1>1
<1>3. Start(q, k - 1) \in Nat /\ Start(q, k) \in Nat /\ Start(q, k) <= End(q)
  BY <1>2, StartIs
<1>4. End(q) \in Nat
  BY <1>2, StartIs DEF End
<1>5. Start(q, (k - 1) + 1) = Start(q, k - 1) + VarSize(q[(k - 1) + 1])
  BY <1>2, StartIs
<1>6. VarBytes(q[k]) \in Seq(AnyByte) /\ Len(VarBytes(q[k])) = VarSize(q[k]) /\ VarSize(q[k]) \in Nat
  BY <1>1, BytesAre, SizeIs
<1> QED
  BY <1>1, <1>2, <1>3, <1>4, <1>5, <1>6

LEMMA ItemsKept ==
  ASSUME NEW q \in Seq(Numbers), NEW buf, NEW new, Items(buf, q), Len(new) \in Nat,
         End(q) <= Len(new), \A k \in 1..End(q) : new[k] = buf[k]
  PROVE  Items(new, q)
<1> SUFFICES ASSUME NEW k \in 1..Len(q)
             PROVE  Holds(new, Start(q, k - 1), VarBytes(q[k]))
  BY DEF Items
<1> DEFINE s == VarBytes(q[k])
           p == Start(q, k - 1)
<1>1. Holds(buf, p, s)
  BY DEF Items
<1>2. Len(s) \in Nat /\ p \in Nat /\ p + Len(s) <= End(q) /\ End(q) \in Nat
  BY ItemFits
<1> HIDE DEF s, p
<1>3. \A j \in 1..Len(s) : new[p + j] = buf[p + j]
  <2> SUFFICES ASSUME NEW j \in 1..Len(s) PROVE new[p + j] = buf[p + j]
    OBVIOUS
  <2>1. p + j \in 1..End(q)
    BY <1>2
  <2> QED
    BY <2>1
<1>4. Holds(new, p, s)
  BY <1>1, <1>2, <1>3 DEF Holds
<1> QED
  BY <1>4 DEF s, p

LEMMA ItemsAppend ==
  ASSUME NEW q \in Seq(Numbers), NEW v \in Numbers, NEW buf, Items(buf, q),
         Holds(buf, End(q), VarBytes(v))
  PROVE  Items(buf, Append(q, v))
<1> DEFINE p == Append(q, v)
<1> SUFFICES ASSUME NEW k \in 1..Len(p)
             PROVE  Holds(buf, Start(p, k - 1), VarBytes(p[k]))
  BY DEF Items
<1>1. /\ Len(p) = Len(q) + 1 /\ \A j \in 1..Len(q) : p[j] = q[j]
      /\ p[Len(q) + 1] = v /\ \A n \in 0..Len(q) : Start(p, n) = Start(q, n)
      /\ Len(q) \in Nat
  BY StartAppend, LenProperties
<1> HIDE DEF p
<1>2. k - 1 \in 0..Len(q)
  BY <1>1
<1>3. Start(p, k - 1) = Start(q, k - 1)
  BY <1>1, <1>2
<1>4. CASE k \in 1..Len(q)
  BY <1>1, <1>3, <1>4 DEF Items
<1>5. CASE k = Len(q) + 1
  <2>1. k - 1 = Len(q)
    BY <1>1, <1>5
  <2> QED
    BY <1>1, <1>3, <1>5, <2>1 DEF End
<1> QED
  BY <1>1, <1>4, <1>5

\* The next number is read where it begins, and nothing behind the last.
LEMMA ItemRead ==
  ASSUME NEW q \in Seq(Numbers), NEW buf \in Seq(Int), Items(buf, q), NEW n \in 0..(Len(q) - 1)
  PROVE  GetVar(At(buf, Start(q, n)))
           = [res |-> "ok", csr |-> At(buf, Start(q, n + 1)), val |-> q[n + 1]]
<1>1. n + 1 \in 1..Len(q) /\ (n + 1) - 1 = n
  BY LenProperties
<1> DEFINE k == n + 1
<1>2. k \in 1..Len(q) /\ k - 1 = n
  BY <1>1
<1> HIDE DEF k
<1>3. /\ q[k] \in Numbers /\ Start(q, k - 1) \in Nat
      /\ Start(q, k) = Start(q, k - 1) + VarSize(q[k])
  BY <1>2, ItemFits
<1>4. Holds(buf, Start(q, n), VarBytes(q[k]))
  BY <1>2 DEF Items
<1>5. GetVar(At(buf, Start(q, n))) =
        [res |-> "ok", csr |-> At(buf, Start(q, n) + VarSize(q[k])), val |-> q[k]]
  BY <1>2, <1>3, <1>4, GetVarHolds
<1> QED
  BY <1>2, <1>3, <1>5 DEF k

LEMMA NoItemRead ==
  ASSUME NEW q \in Seq(Numbers), NEW buf \in Seq(Int), Trailing(buf, q, Len(buf))
  PROVE  GetVar(At(buf, End(q))) = [res |-> "exhausted", csr |-> At(buf, Len(buf)), val |-> 0]
<1> DEFINE e == End(q)
<1>1. e \in Nat /\ Len(buf) \in Nat
  <2>1. Len(q) \in 0..Len(q)
    BY LenProperties
  <2> QED
    BY <2>1, StartIs, LenProperties DEF End
<1>2. e <= Len(buf) /\ Len(buf) < e + MaxBytes /\ \A k \in (e + 1)..Len(buf) : IsExtended(buf[k])
  BY DEF Trailing
<1> HIDE DEF e
<1>3. \A k \in 1..(Len(buf) - e) : IsExtended(buf[e + k])
  <2> SUFFICES ASSUME NEW k \in 1..(Len(buf) - e) PROVE IsExtended(buf[e + k])
    OBVIOUS
  <2>1. e + k \in (e + 1)..Len(buf)
    BY <1>1
  <2> QED
    BY <1>2, <2>1
<1> QED
  BY <1>1, <1>2, <1>3, GetVarCut DEF e

(***************************************************************************)
(* The invariant of the loops.                                             *)
(***************************************************************************)
VBytes == AnyByte \cup {Blank}

Begins(s, t) == Len(s) <= Len(t) /\ \A k \in 1..Len(s) : s[k] = t[k]

\* The bytes that are read after they were packed.
ReadBack(b) == Items(b, packed) /\ Trailing(b, packed, Len(b)) /\ Begins(read, packed)

\* n bytes of arg are packed.
Packing(b, p, n) ==
  /\ b \in Seq(VBytes) /\ p \in Nat /\ n \in 0..(VarSize(arg) - 1) /\ p + n <= Len(b)
  /\ before = <<At(b, p)>> /\ csr = At(PutTo(b, p, VarBytes(arg), n), p + n)
  /\ val = arg \div Power(Group, n) /\ res = "ok" /\ mode = "pack"
  /\ Items(b, packed) /\ p = End(packed)

\* i bytes are unpacked, and each says that another follows.
Unpacking(b, p) ==
  /\ b \in Seq(VBytes) /\ p \in Nat /\ p + i <= Len(b)
  /\ before = <<At(b, p)>> /\ csr = At(b, p + i)
  /\ \A k \in 1..i : IsExtended(b[p + k])
  /\ val = VarTotal(b, p, i) % Width
  /\ res = "ok" /\ mode # "pack"
  /\ mode = "unpack" => ReadBack(b) /\ p = Start(packed, Len(read))

\* A call has returned, or none has begun.
Agreed ==
  before # <<>> =>
    IF mode = "pack"
      THEN csr = PutVar(before[1], arg).csr /\ res = PutVar(before[1], arg).res
      ELSE /\ csr = GetVar(before[1]).csr /\ res = GetVar(before[1]).res
           /\ res = "ok" => dst = GetVar(before[1]).val
Idle ==
  /\ Agreed
  /\ mode = "pack" =>
       /\ Items(csr.buf, packed) /\ Trailing(csr.buf, packed, csr.pos)
       /\ res = "ok" => csr.pos = End(packed)
  /\ mode = "unpack" =>
       /\ ReadBack(csr.buf)
       /\ res = "ok" => csr.pos = Start(packed, Len(read))
       /\ res = "exhausted" => read = packed

LTypes ==
  /\ \E b \in Seq(VBytes) : \E p \in 0..Len(b) : csr = At(b, p)
  /\ op \in {"idle", "pack", "unpack"} /\ res \in {"ok", "exhausted"}
  /\ mode \in {"pack", "unpack", "foreign"}
  /\ val \in Numbers /\ dst \in Numbers /\ arg \in Numbers /\ i \in 0..(MaxBytes - 1)
  /\ packed \in Seq(Numbers) /\ read \in Seq(Numbers)
  /\ mode = "pack" => read = <<>>

LInv ==
  /\ LTypes
  /\ op = "idle" => Idle
  /\ op = "pack" => \E b, p, n : Packing(b, p, n)
  /\ op = "unpack" => \E b, p : Unpacking(b, p)

LEMMA NewIs == \A b : CursorNew(b) = At(b, 0)
BY DEF CursorNew, At

\* Nothing is packed at first.
LEMMA NoItems ==
  ASSUME NEW buf
  PROVE  <<>> \in Seq(Numbers) /\ Items(buf, <<>>) /\ End(<<>>) = 0 /\ Start(<<>>, 0) = 0
         /\ Trailing(buf, <<>>, 0)
<1>1. <<>> \in Seq(Numbers) /\ Len(<<>>) = 0
  OBVIOUS
<1>2. Start(<<>>, 0) = 0
  BY <1>1, StartIs
<1>3. End(<<>>) = 0
  BY <1>1, <1>2 DEF End
<1>4. Items(buf, <<>>)
  BY <1>1 DEF Items
<1>5. Trailing(buf, <<>>, 0)
  BY <1>3, Consts DEF Trailing
<1> QED
  BY <1>1, <1>2, <1>3, <1>4, <1>5

LEMMA VBytesInt == VBytes \subseteq Int /\ AnyByte \subseteq VBytes
BY Consts DEF VBytes, AnyByte, Blank

LEMMA LoopInit == Buffers /\ Init => LInv
<1> SUFFICES ASSUME Buffers, Init PROVE LInv
  OBVIOUS
<1>1. /\ op = "idle" /\ val = 0 /\ i = 0 /\ res = "ok" /\ dst = 0 /\ before = <<>> /\ arg = 0
      /\ packed = <<>> /\ read = <<>> /\ mode \in {"pack", "foreign"}
  BY DEF Init
<1>2. PICK b \in Seq(VBytes) : csr = At(b, 0)
  <2>1. CASE \E n \in Capacity : csr = CursorNew([k \in 1..n |-> Blank])
    <3>1. PICK n \in Capacity : csr = CursorNew([k \in 1..n |-> Blank])
      BY <2>1
    <3> DEFINE b == [k \in 1..n |-> Blank]
    <3>2. n \in Nat
      BY DEF Buffers
    <3>3. Blank \in VBytes
      BY DEF VBytes
    <3>4. b \in Seq(VBytes)
      BY <3>2, <3>3, IsASeq
    <3> HIDE DEF b
    <3>5. csr = At(b, 0)
      BY <3>1, NewIs DEF b
    <3> QED
      BY <3>4, <3>5
  <2>2. CASE \E buf \in Foreign : csr = CursorNew(buf)
    <3>1. PICK buf \in Foreign : csr = CursorNew(buf)
      BY <2>2
    <3>2. buf \in Seq(AnyByte)
      BY DEF Buffers, AnyByte
    <3>3. buf \in Seq(VBytes)
      BY <3>2, VBytesInt, SeqMonotonic
    <3> QED
      BY <3>1, <3>3, NewIs
  <2> QED
    BY <2>1, <2>2 DEF Init
<1>3. 0 \in Numbers /\ 0 \in 0..(MaxBytes - 1) /\ 0 \in 0..Len(b)
  BY Consts, LenProperties DEF Numbers
<1>4. LTypes
  BY <1>1, <1>2, <1>3, NoItems DEF LTypes
<1>5. Idle
  <2>1. csr.buf = b /\ csr.pos = 0
    BY <1>2 DEF At
  <2> QED
    BY <1>1, <2>1, NoItems DEF Idle, Agreed
<1> QED
  BY <1>1, <1>4, <1>5 DEF LInv

\* A call to pack begins,
LEMMA LoopCallPack ==
  ASSUME LInv, NEW v \in Numbers, CallPack(v)
  PROVE  LInv'
<1>1. /\ op = "idle" /\ mode = "pack" /\ res = "ok" /\ op' = "pack" /\ val' = v /\ arg' = v
      /\ before' = <<csr>>
      /\ UNCHANGED <<csr, i, res, dst, mode, packed, read>>
  BY DEF CallPack
<1>2. v \in Numbers
  OBVIOUS
<1> PICK b \in Seq(VBytes) : \E p \in 0..Len(b) : csr = At(b, p)
  BY DEF LInv, LTypes
<1>3. PICK p \in 0..Len(b) : csr = At(b, p)
  OBVIOUS
<1>4. LTypes'
  BY <1>1, <1>2 DEF LInv, LTypes
<1>5. b = csr.buf /\ p = csr.pos
  BY <1>3 DEF At
<1>6. Items(b, packed) /\ p = End(packed)
  BY <1>1, <1>5 DEF LInv, Idle
<1>7. 0 \in 0..(VarSize(v) - 1) /\ Len(b) \in Nat /\ p \in Nat
  BY <1>2, SizeIs, LenProperties
<1>8. v \div Power(Group, 0) = v
  <2>1. Power(Group, 0) = 1 /\ v \in Nat
    BY <1>2, Sizes DEF Numbers
  <2> QED
    BY <2>1
<1>9. PutTo(b, p, VarBytes(v), 0) = b
  <2>1. b = [k \in 1..Len(b) |-> b[k]]
    BY LenProperties
  <2>2. \A k \in 1..Len(b) : k \notin (p + 1)..(p + 0)
    BY <1>7
  <2> QED
    BY <2>1, <2>2 DEF PutTo
<1>10. Packing(b, p, 0)'
  BY <1>1, <1>3, <1>6, <1>7, <1>8, <1>9 DEF Packing
<1> QED
  BY <1>1, <1>4, <1>10 DEF LInv

\* The bytes of the number to pack.
LEMMA ArgKnown ==
  ASSUME LTypes
  PROVE  /\ arg \in Numbers /\ VarSize(arg) \in 1..MaxBytes /\ MaxBytes \in Nat
         /\ VarBytes(arg) \in Seq(VBytes) /\ Len(VarBytes(arg)) = VarSize(arg)
<1>1. arg \in Numbers
  BY DEF LTypes
<1>2. VarBytes(arg) \in Seq(AnyByte) /\ Len(VarBytes(arg)) = VarSize(arg)
  BY <1>1, BytesAre
<1>3. VarBytes(arg) \in Seq(VBytes)
  BY <1>2, VBytesInt, SeqMonotonic
<1> QED
  BY <1>1, <1>2, <1>3, SizeIs, Consts

\* The first bytes of a number say that another follows.
LEMMA PutExtended ==
  ASSUME NEW buf \in Seq(VBytes), NEW pos \in Nat, NEW v \in Numbers,
         NEW n \in 0..(VarSize(v) - 1), pos + n <= Len(buf)
  PROVE  \A k \in (pos + 1)..(pos + n) : IsExtended(PutTo(buf, pos, VarBytes(v), n)[k])
<1> DEFINE s == VarBytes(v)
           new == PutTo(buf, pos, s, n)
<1>1. VarSize(v) \in Nat /\ Len(s) = VarSize(v)
  BY SizeIs, BytesAre
<1>2. s \in Seq(VBytes)
  BY BytesAre, VBytesInt, SeqMonotonic
<1>3. \A k \in 1..n : new[pos + k] = s[k]
  <2> HIDE DEF s
  <2>1. n \in 0..Len(s)
    BY <1>1
  <2> QED
    BY <1>2, <2>1, PutToIs
<1>4. \A k \in 1..n : IsExtended(s[k])
  <2>1. \A k \in 1..n : k \in 1..VarSize(v) /\ k < VarSize(v)
    BY <1>1
  <2> QED
    BY <2>1, BytesAre
<1> HIDE DEF new, s
<1> SUFFICES ASSUME NEW k \in (pos + 1)..(pos + n) PROVE IsExtended(new[k])
  BY DEF new, s
<1> DEFINE j == k - pos
<1>5. j \in 1..n /\ pos + j = k
  OBVIOUS
<1> HIDE DEF j
<1>6. new[k] = s[j] /\ IsExtended(s[j])
  BY <1>3, <1>4, <1>5
<1> QED
  BY <1>6

\* A call to pack for which there is no more room.
LEMMA LoopPackCut ==
  ASSUME LInv, NEW b, NEW p, NEW n, Packing(b, p, n), ~Fits(csr, 1),
         op' = "idle", res' = "exhausted",
         UNCHANGED <<csr, val, i, dst, mode, before, arg, packed, read>>
  PROVE  LInv'
<1> DEFINE s == VarBytes(arg)
           new == PutTo(b, p, s, n)
<1>1. /\ b \in Seq(VBytes) /\ p \in Nat /\ n \in 0..(VarSize(arg) - 1) /\ p + n <= Len(b)
      /\ before = <<At(b, p)>> /\ csr = At(new, p + n) /\ mode = "pack"
      /\ Items(b, packed) /\ p = End(packed) /\ packed \in Seq(Numbers)
  BY DEF Packing, LInv, LTypes
<1>2. /\ arg \in Numbers /\ VarSize(arg) \in 1..MaxBytes /\ MaxBytes \in Nat
      /\ s \in Seq(VBytes) /\ Len(s) = VarSize(arg)
  BY ArgKnown DEF LInv
<1>3. Len(b) \in Nat /\ n \in 0..Len(s) /\ n \in Nat
  BY <1>1, <1>2, LenProperties
<1>4. \A k \in (p + 1)..(p + n) : IsExtended(new[k])
  BY <1>1, <1>2, PutExtended
<1> HIDE DEF s
<1>5. new \in Seq(VBytes) /\ Len(new) = Len(b) /\ \A k \in 1..p : new[k] = b[k]
  BY <1>1, <1>2, <1>3, PutToIs
<1>6. p + n = Len(b)
  <2>1. csr.pos = p + n /\ csr.buf = new
    BY <1>1 DEF At
  <2> QED
    BY <1>1, <1>3, <1>5, <2>1 DEF Fits
<1>7. PutVar(At(b, p), arg) = [res |-> "exhausted", csr |-> At(new, p + n)]
  <2>1. ~(p + VarSize(arg) <= Len(b)) /\ n = Len(b) - p /\ p <= Len(b)
    BY <1>1, <1>2, <1>3, <1>6
  <2> QED
    BY <1>1, <1>2, <1>6, <2>1, VBytesInt, PutVarIs DEF s
<1> HIDE DEF new
<1>8. LTypes'
  BY DEF LInv, LTypes
<1>9. Agreed'
  <2>1. before'[1] = At(b, p) /\ arg' = arg /\ mode' = "pack" /\ csr' = At(new, p + n)
    BY <1>1
  <2> QED
    BY <1>7, <2>1 DEF Agreed
<1>10. csr'.buf = new /\ csr'.pos = p + n
  BY <1>1 DEF At
<1>11. Items(new, packed)
  BY <1>1, <1>3, <1>5, <1>6, ItemsKept
<1>12. Trailing(new, packed, p + n)
  <2>1. p <= p + n /\ p + n < p + MaxBytes
    BY <1>1, <1>2, <1>3
  <2> QED
    BY <1>1, <1>4, <2>1 DEF Trailing
<1>13. Idle'
  BY <1>1, <1>9, <1>10, <1>11, <1>12 DEF Idle
<1> QED
  BY <1>8, <1>13 DEF LInv

\* It goes on,
LEMMA LoopPackMore ==
  ASSUME LInv, PackMore
  PROVE  LInv'
<1>1. /\ op = "pack" /\ NeedsMore(val) /\ PackByte((val % Group) + Group)
      /\ \/ Fits(csr, 1) /\ val' = val \div Group /\ UNCHANGED <<op, res>>
         \/ ~Fits(csr, 1) /\ op' = "idle" /\ res' = "exhausted" /\ UNCHANGED val
      /\ UNCHANGED <<i, dst, mode, before, arg, packed, read>>
  BY DEF PackMore, Return, history
<1>2. PICK b, p, n : Packing(b, p, n)
  BY <1>1 DEF LInv
<1> DEFINE s == VarBytes(arg)
<1>3. /\ b \in Seq(VBytes) /\ p \in Nat /\ n \in 0..(VarSize(arg) - 1) /\ p + n <= Len(b)
      /\ before = <<At(b, p)>> /\ csr = At(PutTo(b, p, s, n), p + n)
      /\ val = arg \div Power(Group, n) /\ res = "ok" /\ mode = "pack"
      /\ Items(b, packed) /\ p = End(packed)
  BY <1>2 DEF Packing
<1>4. /\ arg \in Numbers /\ VarSize(arg) \in 1..MaxBytes /\ MaxBytes \in Nat
      /\ s \in Seq(VBytes) /\ Len(s) = VarSize(arg)
  BY ArgKnown DEF LInv
<1>5. Len(b) \in Nat /\ n \in Nat /\ n \in 0..Len(s)
  BY <1>3, <1>4, LenProperties
<1>6. /\ n + 1 < VarSize(arg) /\ s[n + 1] = (val % Group) + Group
      /\ val \div Group = arg \div Power(Group, n + 1)
  <2>1. val > Group - 1
    BY <1>1 DEF NeedsMore
  <2> QED
    BY <1>3, <1>4, <2>1, DigitPacked
<1> HIDE DEF s
<1>7. PutTo(b, p, s, n) \in Seq(VBytes) /\ Len(PutTo(b, p, s, n)) = Len(b)
  BY <1>3, <1>4, <1>5, PutToIs
<1>8. Fits(csr, 1) <=> p + n + 1 <= Len(b)
  <2>1. csr.pos = p + n /\ csr.buf = PutTo(b, p, s, n)
    BY <1>3 DEF At
  <2> QED
    BY <1>7, <2>1 DEF Fits
<1>9. CASE Fits(csr, 1)
  <2> DEFINE m == n + 1
             new == PutTo(b, p, s, m)
  <2>1. p + m <= Len(b) /\ csr' = Put(csr, <<s[n + 1]>>) /\ val' = val \div Group
        /\ op' = "pack" /\ res' = "ok"
    BY <1>1, <1>3, <1>5, <1>6, <1>8, <1>9 DEF PackByte
  <2>2. n + 1 <= Len(s) /\ m \in 0..Len(s) /\ m \in 0..(VarSize(arg) - 1) /\ p + n + 1 = p + m
        /\ p + m \in 0..Len(b)
    BY <1>3, <1>4, <1>5, <1>6, <2>1
  <2>3. csr' = At(new, p + m)
    <3>1. p + n + 1 <= Len(b)
      BY <1>8, <1>9
    <3>2. Put(At(PutTo(b, p, s, n), p + n), <<s[n + 1]>>) = At(PutTo(b, p, s, n + 1), p + n + 1)
      BY <1>3, <1>4, <1>5, <2>2, <3>1, PutOneMore
    <3> QED
      BY <1>3, <2>1, <2>2, <3>2
  <2>4. val' = arg \div Power(Group, m)
    BY <1>6, <2>1
  <2>5. val' \in Numbers
    <3> HIDE DEF m
    <3> QED
      BY <1>4, <2>2, <2>4, DigitPacked
  <2> HIDE DEF m
  <2>6. new \in Seq(VBytes) /\ Len(new) = Len(b)
    BY <1>3, <1>4, <2>1, <2>2, PutToIs, SMTT(60)
  <2>7. Packing(b, p, m)'
    <3>1. csr' = At(PutTo(b, p, VarBytes(arg), m), p + m)
      BY <2>3 DEF s
    <3> QED
      BY <1>1, <1>3, <2>1, <2>2, <2>4, <3>1 DEF Packing
  <2> HIDE DEF new
  <2>8. LTypes'
    <3>1. \E x \in Seq(VBytes) : \E y \in 0..Len(x) : csr' = At(x, y)
      BY <2>2, <2>3, <2>6
    <3> QED
      BY <1>1, <2>1, <2>5, <3>1 DEF LInv, LTypes
  <2> QED
    BY <2>1, <2>7, <2>8 DEF LInv
<1>10. CASE ~Fits(csr, 1)
  <2>1. csr' = csr /\ op' = "idle" /\ res' = "exhausted" /\ val' = val
    BY <1>1, <1>10 DEF PackByte
  <2> QED
    BY <1>1, <1>2, <1>10, <2>1, LoopPackCut
<1> QED
  BY <1>9, <1>10

\* and ends.
LEMMA LoopPackLast ==
  ASSUME LInv, PackLast
  PROVE  LInv'
<1>1. /\ op = "pack" /\ ~NeedsMore(val) /\ PackByte(val % Group)
      /\ op' = "idle" /\ res' = (IF Fits(csr, 1) THEN "ok" ELSE "exhausted")
      /\ packed' = (IF Fits(csr, 1) THEN Append(packed, arg) ELSE packed)
      /\ UNCHANGED <<val, i, dst, mode, before, arg, read>>
  BY DEF PackLast, Return
<1>2. PICK b, p, n : Packing(b, p, n)
  BY <1>1 DEF LInv
<1> DEFINE s == VarBytes(arg)
<1>3. /\ b \in Seq(VBytes) /\ p \in Nat /\ n \in 0..(VarSize(arg) - 1) /\ p + n <= Len(b)
      /\ before = <<At(b, p)>> /\ csr = At(PutTo(b, p, s, n), p + n)
      /\ val = arg \div Power(Group, n) /\ res = "ok" /\ mode = "pack"
      /\ Items(b, packed) /\ p = End(packed)
  BY <1>2 DEF Packing
<1>4. /\ arg \in Numbers /\ VarSize(arg) \in 1..MaxBytes /\ MaxBytes \in Nat
      /\ s \in Seq(VBytes) /\ Len(s) = VarSize(arg)
  BY ArgKnown DEF LInv
<1>5. Len(b) \in Nat /\ n \in Nat /\ n \in 0..Len(s) /\ packed \in Seq(Numbers)
  BY <1>3, <1>4, LenProperties DEF LInv, LTypes
<1> DEFINE m == n + 1
<1>6. m = VarSize(arg) /\ s[n + 1] = val % Group
  <2>1. ~(val > Group - 1)
    BY <1>1 DEF NeedsMore
  <2>2. val \in Numbers /\ ~(n + 1 < VarSize(arg)) /\ s[n + 1] = (val % Group) + 0
    BY <1>3, <1>4, <2>1, DigitPacked
  <2>3. val % Group \in Int
    BY <2>2, Consts DEF Numbers
  <2> HIDE DEF s
  <2> QED
    BY <1>3, <1>4, <2>2, <2>3
<1> HIDE DEF s
<1>7. PutTo(b, p, s, n) \in Seq(VBytes) /\ Len(PutTo(b, p, s, n)) = Len(b)
  BY <1>3, <1>4, <1>5, PutToIs
<1>8. Fits(csr, 1) <=> p + n + 1 <= Len(b)
  <2>1. csr.pos = p + n /\ csr.buf = PutTo(b, p, s, n)
    BY <1>3 DEF At
  <2> QED
    BY <1>7, <2>1 DEF Fits
<1>9. CASE Fits(csr, 1)
  <2> DEFINE new == PutTo(b, p, s, m)
  <2>1. p + m <= Len(b) /\ csr' = Put(csr, <<s[n + 1]>>) /\ res' = "ok"
        /\ packed' = Append(packed, arg)
    <3>1. p + m <= Len(b)
      BY <1>3, <1>5, <1>8, <1>9
    <3>2. csr' = Put(csr, <<val % Group>>) /\ res' = "ok" /\ packed' = Append(packed, arg)
      BY <1>1, <1>9 DEF PackByte
    <3> QED
      BY <1>6, <3>1, <3>2
  <2>2. n + 1 <= Len(s) /\ m \in 0..Len(s) /\ m \in 1..Len(s) /\ p + n + 1 = p + m /\ p <= Len(b)
        /\ p + m \in 0..Len(b) /\ p + m \in Nat /\ m = Len(s) /\ m \in Nat
    BY <1>3, <1>4, <1>5, <1>6, <2>1, SMTT(60)
  <2>3. csr' = At(new, p + m)
    <3>1. p + n + 1 <= Len(b)
      BY <1>8, <1>9
    <3>2. Put(At(PutTo(b, p, s, n), p + n), <<s[n + 1]>>) = At(PutTo(b, p, s, n + 1), p + n + 1)
      BY <1>3, <1>4, <1>5, <2>2, <3>1, PutOneMore, SMTT(60)
    <3> QED
      BY <1>3, <2>1, <2>2, <3>2
  <2> HIDE DEF m
  <2>4. /\ new \in Seq(VBytes) /\ Len(new) = Len(b) /\ \A k \in 1..p : new[k] = b[k]
        /\ \A k \in 1..m : new[p + k] = s[k]
    <3>1. m \in 0..Len(s) /\ p + m <= Len(b) /\ p \in Nat /\ b \in Seq(VBytes) /\ s \in Seq(VBytes)
      BY <1>3, <1>4, <2>1, <2>2
    <3>2. \A j \in 0..Len(s) : p + j <= Len(b) =>
            /\ PutTo(b, p, s, j) \in Seq(VBytes) /\ Len(PutTo(b, p, s, j)) = Len(b)
            /\ \A k \in 1..p : PutTo(b, p, s, j)[k] = b[k]
            /\ \A k \in 1..j : PutTo(b, p, s, j)[p + k] = s[k]
      <4> HIDE DEF m, new
      <4> SUFFICES ASSUME NEW j \in 0..Len(s), p + j <= Len(b)
                   PROVE  /\ PutTo(b, p, s, j) \in Seq(VBytes) /\ Len(PutTo(b, p, s, j)) = Len(b)
                          /\ \A k \in 1..p : PutTo(b, p, s, j)[k] = b[k]
                          /\ \A k \in 1..j : PutTo(b, p, s, j)[p + k] = s[k]
        OBVIOUS
      <4>1. PutTo(b, p, s, j) \in Seq(VBytes) /\ Len(PutTo(b, p, s, j)) = Len(b)
        BY <3>1, PutToIs
      <4>2. \A k \in 1..p : PutTo(b, p, s, j)[k] = b[k]
        BY <3>1, PutToIs
      <4>3. \A k \in 1..j : PutTo(b, p, s, j)[p + k] = s[k]
        BY <3>1, PutToIs
      <4> QED
        BY <4>1, <4>2, <4>3
    <3> QED
      BY <3>1, <3>2, Zenon
  <2>5. PutVar(At(b, p), arg) = [res |-> "ok", csr |-> At(new, p + m)]
    BY <1>3, <1>4, <1>6, <2>1, <2>2, VBytesInt, PutVarIs DEF s
  <2> HIDE DEF new
  <2>6. csr'.buf = new /\ csr'.pos = p + m
    BY <2>3 DEF At
  <2>7. /\ packed' \in Seq(Numbers) /\ End(packed') = p + m
    BY <1>3, <1>4, <1>5, <1>6, <2>1, StartAppend
  <2>8. LTypes'
    <3>1. \E x \in Seq(VBytes) : \E y \in 0..Len(x) : csr' = At(x, y)
      BY <2>2, <2>3, <2>4
    <3> QED
      BY <1>1, <1>3, <2>1, <2>7, <3>1 DEF LInv, LTypes
  <2>9. Agreed'
    <3>1. before'[1] = At(b, p) /\ arg' = arg /\ mode' = "pack"
      BY <1>1, <1>3
    <3> QED
      BY <2>1, <2>3, <2>5, <3>1 DEF Agreed
  <2>10. Items(new, packed)
    BY <1>3, <1>5, <2>2, <2>4, ItemsKept
  <2>11. Holds(new, p, s)
    BY <2>1, <2>2, <2>4 DEF Holds
  <2>12. Items(new, packed')
    BY <1>3, <1>4, <1>5, <2>1, <2>10, <2>11, ItemsAppend DEF s
  <2>13. Trailing(new, packed', p + m)
    BY <2>2, <2>7, Consts DEF Trailing
  <2>14. Idle'
    BY <1>1, <1>3, <2>6, <2>7, <2>9, <2>12, <2>13 DEF Idle
  <2> QED
    BY <1>1, <2>8, <2>14 DEF LInv
<1>10. CASE ~Fits(csr, 1)
  <2>1. csr' = csr /\ op' = "idle" /\ res' = "exhausted" /\ packed' = packed
    BY <1>1, <1>10 DEF PackByte
  <2> QED
    BY <1>1, <1>2, <1>10, <2>1, LoopPackCut
<1> QED
  BY <1>9, <1>10

\* The caller turns to reading.
LEMMA LoopRewind ==
  ASSUME LInv, Rewind
  PROVE  LInv'
<1>1. /\ op = "idle" /\ mode = "pack" /\ mode' = "unpack"
      /\ csr' = CursorNew(SubSeq(csr.buf, 1, csr.pos)) /\ res' = "ok" /\ before' = <<>>
      /\ UNCHANGED <<op, val, i, dst, arg, packed, read>>
  BY DEF Rewind
<1> PICK b \in Seq(VBytes) : \E p \in 0..Len(b) : csr = At(b, p)
  BY DEF LInv, LTypes
<1>2. PICK p \in 0..Len(b) : csr = At(b, p)
  OBVIOUS
<1>3. csr.buf = b /\ csr.pos = p /\ p \in Nat /\ Len(b) \in Nat
  BY <1>2, LenProperties DEF At
<1>4. /\ Items(b, packed) /\ Trailing(b, packed, p)
      /\ packed \in Seq(Numbers) /\ read = <<>>
  BY <1>1, <1>3 DEF LInv, LTypes, Idle
<1> DEFINE new == Taken(At(b, 0), p)
<1>5. csr' = At(new, 0)
  <2>1. new = SubSeq(b, 0 + 1, 0 + p)
    BY DEF Taken, At
  <2>2. 0 + 1 = 1 /\ 0 + p = p
    BY <1>3
  <2>3. new = SubSeq(b, 1, p)
    BY <2>1, <2>2
  <2> HIDE DEF new
  <2> QED
    BY <1>1, <1>3, <2>3, NewIs
<1>6. new \in Seq(VBytes) /\ Len(new) = p /\ \A k \in 1..p : new[k] = b[k]
  <2>1. 0 \in Nat /\ p \in Nat /\ 0 + p <= Len(b)
    BY <1>3
  <2> HIDE DEF new
  <2>2. new \in Seq(VBytes) /\ Len(new) = p /\ \A k \in 1..p : new[k] = b[0 + k]
    BY <2>1, TakenIs DEF new
  <2> QED
    BY <1>3, <2>2
<1> HIDE DEF new
<1>7. /\ End(packed) <= p /\ p < End(packed) + MaxBytes
      /\ \A k \in (End(packed) + 1)..p : IsExtended(b[k])
  BY <1>4 DEF Trailing
<1>8. Start(packed, 0) = 0 /\ End(packed) \in Nat
  <2>1. Len(packed) \in 0..Len(packed)
    BY <1>4, LenProperties
  <2> QED
    BY <1>4, <2>1, StartIs DEF End
<1>9. Items(new, packed)
  BY <1>3, <1>4, <1>6, <1>7, <1>8, ItemsKept
<1>10. Trailing(new, packed, Len(new))
  <2>1. \A k \in (End(packed) + 1)..p : new[k] = b[k]
    BY <1>3, <1>6, <1>8
  <2> QED
    BY <1>6, <1>7, <2>1 DEF Trailing
<1>11. Len(read) = 0 /\ Len(packed) \in Nat
  BY <1>4, LenProperties
<1>12. Begins(read, packed)
  BY <1>11 DEF Begins
<1>13. csr'.buf = new /\ csr'.pos = 0
  BY <1>5 DEF At
<1>14. LTypes'
  <2>1. 0 \in 0..Len(new)
    BY <1>3, <1>6
  <2> QED
    BY <1>1, <1>5, <1>6, <2>1 DEF LInv, LTypes
<1>15. ReadBack(new)'
  BY <1>1, <1>9, <1>10, <1>12 DEF ReadBack
<1>16. Idle'
  BY <1>1, <1>8, <1>11, <1>13, <1>15 DEF Idle, Agreed
<1> QED
  BY <1>1, <1>14, <1>16 DEF LInv

\* A call to unpack begins,
LEMMA LoopCallUnpack ==
  ASSUME LInv, CallUnpack
  PROVE  LInv'
<1>1. /\ op = "idle" /\ mode # "pack" /\ res = "ok" /\ op' = "unpack" /\ val' = 0 /\ i' = 0
      /\ before' = <<csr>>
      /\ UNCHANGED <<csr, res, dst, mode, arg, packed, read>>
  BY DEF CallUnpack
<1> PICK b \in Seq(VBytes) : \E p \in 0..Len(b) : csr = At(b, p)
  BY DEF LInv, LTypes
<1>2. PICK p \in 0..Len(b) : csr = At(b, p)
  OBVIOUS
<1>3. csr.buf = b /\ csr.pos = p /\ p \in Nat /\ Len(b) \in Nat /\ p + 0 = p /\ p <= Len(b)
  BY <1>2, LenProperties DEF At
<1>4. LTypes'
  <2>1. 0 \in Numbers /\ 0 \in 0..(MaxBytes - 1)
    BY Consts DEF Numbers
  <2> QED
    BY <1>1, <2>1 DEF LInv, LTypes
<1>5. VarTotal(b, p, 0) % Width = 0
  <2>1. b \in Seq(Int)
    BY VBytesInt, SeqMonotonic
  <2>2. VarTotal(b, p, 0) = 0
    BY <1>3, <2>1, VarTotalNext
  <2> QED
    BY <2>2, Consts
<1>6. mode = "unpack" => ReadBack(b) /\ p = Start(packed, Len(read))
  BY <1>1, <1>3 DEF LInv, Idle
<1>7. (mode = "unpack" => ReadBack(b) /\ p = Start(packed, Len(read)))'
  BY <1>1, <1>6 DEF ReadBack
<1>8. \A k \in 1..0 : IsExtended(b[p + k])
  OBVIOUS
<1>9. Unpacking(b, p)'
  BY <1>1, <1>2, <1>3, <1>5, <1>7, <1>8 DEF Unpacking
<1> QED
  BY <1>1, <1>4, <1>9 DEF LInv

\* What the invariant says of it.
LEMMA UnpackingIs ==
  ASSUME LInv, NEW b, NEW p, Unpacking(b, p)
  PROVE  /\ b \in Seq(VBytes) /\ b \in Seq(Int) /\ Len(b) \in Nat /\ p \in Nat
         /\ i \in Nat /\ i < MaxBytes /\ MaxBytes \in Nat /\ p + i <= Len(b)
         /\ before = <<At(b, p)>> /\ csr = At(b, p + i) /\ csr.buf = b /\ csr.pos = p + i
         /\ \A k \in 1..i : IsExtended(b[p + k])
         /\ val = VarTotal(b, p, i) % Width /\ res = "ok" /\ mode # "pack"
         /\ mode = "unpack" =>
              /\ Items(b, packed) /\ Trailing(b, packed, Len(b)) /\ Begins(read, packed)
              /\ p = Start(packed, Len(read))
         /\ packed \in Seq(Numbers) /\ read \in Seq(Numbers)
         /\ Len(packed) \in Nat /\ Len(read) \in Nat
<1>1. /\ b \in Seq(VBytes) /\ p \in Nat /\ p + i <= Len(b)
      /\ before = <<At(b, p)>> /\ csr = At(b, p + i)
      /\ \A k \in 1..i : IsExtended(b[p + k])
      /\ val = VarTotal(b, p, i) % Width /\ res = "ok" /\ mode # "pack"
      /\ mode = "unpack" => ReadBack(b) /\ p = Start(packed, Len(read))
  BY DEF Unpacking
<1>2. i \in 0..(MaxBytes - 1) /\ packed \in Seq(Numbers) /\ read \in Seq(Numbers)
  BY DEF LInv, LTypes
<1>3. b \in Seq(Int)
  BY <1>1, VBytesInt, SeqMonotonic
<1>4. i \in Nat /\ i < MaxBytes /\ MaxBytes \in Nat
  BY <1>2, Consts
<1>5. csr.buf = b /\ csr.pos = p + i
  BY <1>1 DEF At
<1>6. Len(b) \in Nat /\ Len(packed) \in Nat /\ Len(read) \in Nat
  BY <1>1, <1>2, LenProperties
<1> QED
  BY <1>1, <1>2, <1>3, <1>4, <1>5, <1>6 DEF ReadBack

\* ends where the buffer does,
LEMMA LoopUnpackNone ==
  ASSUME LInv, UnpackNone
  PROVE  LInv'
<1>1. /\ op = "unpack" /\ ~Fits(csr, 1) /\ op' = "idle" /\ res' = "exhausted"
      /\ UNCHANGED <<csr, val, i, dst, mode, before, arg, packed, read>>
  BY DEF UnpackNone, Return, history
<1> PICK b, p : Unpacking(b, p)
  BY <1>1 DEF LInv
<1>2. /\ b \in Seq(VBytes) /\ b \in Seq(Int) /\ Len(b) \in Nat /\ p \in Nat
      /\ i \in Nat /\ i < MaxBytes /\ MaxBytes \in Nat /\ p + i <= Len(b)
      /\ before = <<At(b, p)>> /\ csr = At(b, p + i) /\ csr.buf = b /\ csr.pos = p + i
      /\ \A k \in 1..i : IsExtended(b[p + k])
      /\ mode # "pack"
      /\ mode = "unpack" =>
           /\ Items(b, packed) /\ Trailing(b, packed, Len(b)) /\ Begins(read, packed)
           /\ p = Start(packed, Len(read))
      /\ packed \in Seq(Numbers) /\ read \in Seq(Numbers)
      /\ Len(packed) \in Nat /\ Len(read) \in Nat
  BY UnpackingIs
<1>3. p + i = Len(b)
  BY <1>1, <1>2 DEF Fits
<1>4. GetVar(At(b, p)) = [res |-> "exhausted", csr |-> At(b, Len(b)), val |-> 0]
  <2>1. p <= Len(b) /\ Len(b) < p + MaxBytes /\ Len(b) - p = i
    BY <1>2, <1>3
  <2> QED
    BY <1>2, <2>1, GetVarCut
<1>5. LTypes'
  BY <1>1 DEF LInv, LTypes
<1>6. Agreed'
  <2>1. before'[1] = At(b, p) /\ mode' # "pack" /\ csr' = At(b, Len(b))
    BY <1>1, <1>2, <1>3
  <2> QED
    BY <1>1, <1>4, <2>1 DEF Agreed
<1>7. ASSUME mode = "unpack" PROVE read = packed
  <2>1. Items(b, packed) /\ Begins(read, packed) /\ p = Start(packed, Len(read))
    BY <1>2, <1>7
  <2>2. Len(read) <= Len(packed) /\ \A k \in 1..Len(read) : read[k] = packed[k]
    BY <2>1 DEF Begins
  <2>3. Len(read) = Len(packed)
    <3> SUFFICES ASSUME Len(read) # Len(packed) PROVE FALSE
      OBVIOUS
    <3>1. Len(read) \in 0..(Len(packed) - 1)
      BY <1>2, <2>2
    <3>2. GetVar(At(b, p)).res = "ok"
      BY <1>2, <2>1, <3>1, ItemRead
    <3> QED
      BY <1>4, <3>2
  <2> QED
    BY <1>2, <2>2, <2>3, SeqEqual
<1>8. Idle'
  BY <1>1, <1>2, <1>6, <1>7 DEF Idle, ReadBack
<1> QED
  BY <1>1, <1>5, <1>8 DEF LInv

\* What GetVar makes of a number whose bytes end with the next,
LEMMA EndReached ==
  ASSUME NEW b \in Seq(Int), NEW p \in Nat, NEW n \in Nat, n < MaxBytes, p + n + 1 <= Len(b),
         \A k \in 1..n : IsExtended(b[p + k]),
         ~IsExtended(b[p + n + 1]) \/ n = MaxBytes - 1
  PROVE  GetVar(At(b, p)) = [res |-> "ok", csr |-> At(b, p + n + 1),
                             val |-> VarTotal(b, p, n + 1) % Width]
<1> DEFINE c == At(b, p)
           e == VarEnd(c)
           m == n + 1
<1>1. m \in Nat /\ MaxBytes \in Nat /\ m \in 1..MaxBytes /\ p + m = p + n + 1 /\ Len(b) \in Nat
      /\ p + m <= Len(b)
  BY Consts, LenProperties
<1>2. /\ e \in 1..MaxBytes
      /\ \A k \in 1..MaxBytes : p + k <= Len(b) /\ ~IsExtended(b[p + k]) => e <= k
      /\ e < MaxBytes => p + e <= Len(b) /\ ~IsExtended(b[p + e])
  BY VarEndIs
<1> HIDE DEF e
<1>3. e <= m
  <2>1. CASE ~IsExtended(b[p + n + 1])
    BY <1>1, <1>2, <2>1
  <2>2. CASE n = MaxBytes - 1
    BY <1>1, <1>2, <2>2
  <2> QED
    BY <2>1, <2>2
<1>4. ~(e < m)
  <2> SUFFICES ASSUME e < m PROVE FALSE
    OBVIOUS
  <2>1. e \in 1..n /\ e < MaxBytes
    BY <1>1, <1>2
  <2> QED
    BY <1>2, <2>1
<1>5. e = m
  BY <1>1, <1>2, <1>3, <1>4
<1>6. VarValue(Taken(c, m)) = VarTotal(b, p, m) % Width
  <2> HIDE DEF m
  <2> QED
    BY <1>1, VarTotalNext
<1>7. Fits(c, e) /\ Advance(c, e) = At(b, p + m)
  BY <1>1, <1>5 DEF Fits, Advance, At
<1> HIDE DEF c, m
<1>8. GetVar(c) = [res |-> "ok", csr |-> Advance(c, e), val |-> VarValue(Taken(c, e))]
  BY <1>7 DEF GetVar, e
<1>9. GetVar(c) = [res |-> "ok", csr |-> At(b, p + m), val |-> VarTotal(b, p, m) % Width]
  BY <1>5, <1>6, <1>7, <1>8, Zenon
<1> QED
  BY <1>1, <1>9 DEF c, m

\* or takes a byte.
LEMMA LoopUnpackByte ==
  ASSUME LInv, UnpackByte
  PROVE  LInv'
<1> PICK b, p : Unpacking(b, p)
  BY DEF LInv, UnpackByte
<1>2. /\ b \in Seq(VBytes) /\ b \in Seq(Int) /\ Len(b) \in Nat /\ p \in Nat
      /\ i \in Nat /\ i < MaxBytes /\ MaxBytes \in Nat /\ p + i <= Len(b)
      /\ before = <<At(b, p)>> /\ csr = At(b, p + i) /\ csr.buf = b /\ csr.pos = p + i
      /\ \A k \in 1..i : IsExtended(b[p + k])
      /\ val = VarTotal(b, p, i) % Width /\ res = "ok" /\ mode # "pack"
      /\ mode = "unpack" =>
           /\ Items(b, packed) /\ Trailing(b, packed, Len(b)) /\ Begins(read, packed)
           /\ p = Start(packed, Len(read))
      /\ packed \in Seq(Numbers) /\ read \in Seq(Numbers)
      /\ Len(packed) \in Nat /\ Len(read) \in Nat
  BY UnpackingIs
<1> DEFINE byte == b[p + i + 1]
           new == (val + (byte % Group) * Power(Group, i)) % Width
           m == i + 1
<1>3. /\ op = "unpack" /\ Fits(csr, 1) /\ val' = new /\ csr' = Advance(csr, 1)
      /\ IF LastByte(byte)
           THEN op' = "idle" /\ res' = "ok" /\ dst' = new /\ read' = Append(read, new) /\ UNCHANGED i
           ELSE i' = i + 1 /\ UNCHANGED <<op, res, dst, read>>
      /\ UNCHANGED <<mode, before, arg, packed>>
  BY <1>2, Zenon DEF UnpackByte, Return
<1>4. m \in Nat /\ p + m <= Len(b) /\ p + i + 1 <= Len(b) /\ p + i + 1 = p + m /\ p + m \in 0..Len(b)
  BY <1>2, <1>3 DEF Fits
<1>5. csr' = At(b, p + m)
  BY <1>2, <1>3, <1>4 DEF Advance, At
<1>6. new = VarTotal(b, p, m) % Width /\ VarTotal(b, p, m) \in Nat
  <2> DEFINE x == VarTotal(b, p, i)
             y == (byte % Group) * Power(Group, i)
  <2>1. x \in Nat /\ y \in Nat /\ VarTotal(b, p, m) = x + y /\ VarTotal(b, p, m) \in Nat
    <3>1. x \in Nat
      BY <1>2, VarTotalNext
    <3>2. y \in Nat /\ VarTotal(b, p, i + 1) = x + y
      BY <1>2, <1>4, VarTotalNext
    <3> HIDE DEF x, y
    <3> QED
      BY <3>1, <3>2
  <2>2. new = (val + y) % Width /\ val = x % Width
    BY <1>2
  <2> HIDE DEF x, y, new, m
  <2>3. ((x % Width) + y) % Width = (x + y) % Width
    BY <2>1, Consts, ModAdd
  <2> QED
    BY <2>1, <2>2, <2>3
<1> HIDE DEF new
<1>7. new \in Numbers
  <2> DEFINE x == VarTotal(b, p, m)
  <2> HIDE DEF x
  <2>1. x \in Nat /\ new = x % Width
    BY <1>6 DEF x
  <2> QED
    BY <2>1, Consts DEF Numbers
<1>8. CASE LastByte(byte)
  <2>1. op' = "idle" /\ res' = "ok" /\ dst' = new /\ read' = Append(read, new) /\ i' = i /\ val' = new
    BY <1>3, <1>8
  <2>2. GetVar(At(b, p)) = [res |-> "ok", csr |-> At(b, p + m), val |-> new]
    <3>1. ~IsExtended(b[p + i + 1]) \/ i = MaxBytes - 1
      BY <1>8 DEF LastByte
    <3>2. GetVar(At(b, p)) = [res |-> "ok", csr |-> At(b, p + i + 1),
                              val |-> VarTotal(b, p, i + 1) % Width]
      BY <1>2, <1>4, <3>1, EndReached
    <3> QED
      BY <1>4, <1>6, <3>2
  <2> HIDE DEF m
  <2>3. LTypes'
    <3>1. Append(read, new) \in Seq(Numbers)
      BY <1>2, <1>7, AppendProperties
    <3> QED
      BY <1>2, <1>3, <1>4, <1>5, <1>7, <2>1, <3>1 DEF LInv, LTypes
  <2>4. Agreed'
    <3>1. before'[1] = At(b, p) /\ mode' # "pack"
      BY <1>2, <1>3
    <3> QED
      BY <1>5, <2>1, <2>2, <3>1 DEF Agreed
  <2>5. csr'.buf = b /\ csr'.pos = p + m
    BY <1>5 DEF At
  <2>6. ASSUME mode = "unpack"
        PROVE  Begins(read', packed) /\ p + m = Start(packed, Len(read'))
    <3>1. /\ Items(b, packed) /\ Trailing(b, packed, Len(b)) /\ p = Start(packed, Len(read))
          /\ Len(read) <= Len(packed) /\ \A k \in 1..Len(read) : read[k] = packed[k]
      BY <1>2, <2>6 DEF Begins
    <3> DEFINE n == Len(read)
    <3>2. n # Len(packed)
      <4> SUFFICES ASSUME n = Len(packed) PROVE FALSE
        OBVIOUS
      <4>1. p = End(packed)
        BY <3>1 DEF End
      <4>2. GetVar(At(b, p)).res = "exhausted"
        BY <1>2, <3>1, <4>1, NoItemRead
      <4> QED
        BY <2>2, <4>2
    <3>3. n \in 0..(Len(packed) - 1)
      BY <1>2, <3>1, <3>2
    <3>4. GetVar(At(b, p)) = [res |-> "ok", csr |-> At(b, Start(packed, n + 1)),
                              val |-> packed[n + 1]]
      BY <1>2, <3>1, <3>3, ItemRead
    <3>5. new = packed[n + 1]
      BY <2>2, <3>4
    <3>6. p + m = Start(packed, n + 1)
      <4>1. At(b, p + m) = At(b, Start(packed, n + 1))
        BY <2>2, <3>4
      <4> QED
        BY <4>1 DEF At
    <3>7. /\ Len(read') = n + 1 /\ \A k \in 1..n : read'[k] = read[k]
          /\ read'[n + 1] = new
      BY <1>2, <1>7, <2>1, AppendProperties
    <3>8. Begins(read', packed)
      <4>1. ASSUME NEW k \in 1..(n + 1) PROVE read'[k] = packed[k]
        <5>1. CASE k = n + 1
          BY <3>5, <3>7, <5>1
        <5>2. CASE k # n + 1
          <6>1. k \in 1..n
            BY <1>2, <5>2
          <6> QED
            BY <3>1, <3>7, <6>1
        <5> QED
          BY <5>1, <5>2, SMTT(30)
      <4>2. n + 1 <= Len(packed)
        BY <1>2, <3>3
      <4> QED
        BY <3>7, <4>1, <4>2 DEF Begins
    <3> QED
      BY <3>6, <3>7, <3>8
  <2>7. Idle'
    BY <1>2, <1>3, <2>1, <2>4, <2>5, <2>6 DEF Idle, ReadBack
  <2> QED
    BY <2>1, <2>3, <2>7 DEF LInv
<1>9. CASE ~LastByte(byte)
  <2>1. i' = m /\ op' = "unpack" /\ val' = new /\ UNCHANGED <<res, dst, read>>
    BY <1>3, <1>9
  <2>2. IsExtended(byte) /\ m \in 0..(MaxBytes - 1)
    <3>1. IsExtended(byte) /\ i # MaxBytes - 1
      BY <1>9, Zenon DEF LastByte
    <3>2. i \in Nat /\ i < MaxBytes /\ MaxBytes \in Nat /\ i # MaxBytes - 1
      BY <1>2, <3>1, Zenon
    <3>3. m \in 0..(MaxBytes - 1)
      BY <3>2
    <3> QED
      BY <3>1, <3>3
  <2>3. \A k \in 1..m : IsExtended(b[p + k])
    <3> SUFFICES ASSUME NEW k \in 1..m PROVE IsExtended(b[p + k])
      OBVIOUS
    <3>1. CASE k = m
      BY <1>4, <2>2, <3>1
    <3>2. CASE k # m
      <4>1. k \in 1..i
        BY <1>2, <3>2
      <4> QED
        BY <1>2, <4>1
    <3> QED
      BY <3>1, <3>2
  <2> HIDE DEF m
  <2>4. LTypes'
    BY <1>2, <1>3, <1>4, <1>5, <1>7, <2>1, <2>2 DEF LInv, LTypes
  <2>5. Unpacking(b, p)'
    BY <1>2, <1>3, <1>4, <1>5, <1>6, <2>1, <2>3 DEF Unpacking, ReadBack
  <2> QED
    BY <2>1, <2>4, <2>5 DEF LInv
<1> QED
  BY <1>8, <1>9

\* The invariant holds.
LEMMA LoopStep == LInv /\ [Next]_vars => LInv'
<1> SUFFICES ASSUME LInv, [Next]_vars PROVE LInv'
  OBVIOUS
<1>1. ASSUME NEW v \in Numbers, CallPack(v) PROVE LInv'
  BY <1>1, LoopCallPack
<1>2. ASSUME UNCHANGED vars PROVE LInv'
  BY <1>2 DEF vars, LInv, LTypes, Idle, Agreed, ReadBack, Packing, Unpacking
<1> QED
  BY <1>1, <1>2, LoopRewind, LoopCallUnpack, LoopPackMore, LoopPackLast, LoopUnpackNone,
     LoopUnpackByte DEF Next, Step

LEMMA LoopsHold == Spec => []LInv
BY VarintAssumption, LoopInit, LoopStep, PTL DEF Spec

(***************************************************************************)
(* What follows.                                                           *)
(***************************************************************************)
\* cursor_pack_var_le_u32 and cursor_unpack_var_le_u32 stay inside the buffer,
\* and uint32_t and the loop counter inside their bounds.
THEOREM TypeCorrect == Spec => []TypeOK
<1>1. LInv => TypeOK
  <2> SUFFICES ASSUME LInv PROVE TypeOK
    OBVIOUS
  <2> PICK b \in Seq(VBytes) : \E p \in 0..Len(b) : csr = At(b, p)
    BY DEF LInv, LTypes
  <2>1. PICK p \in 0..Len(b) : csr = At(b, p)
    OBVIOUS
  <2>2. csr.buf = b /\ csr.pos = p /\ \A k \in DOMAIN b : b[k] \in VBytes
    BY <2>1, LenProperties, ElementOfSeq DEF At
  <2> QED
    BY <2>2 DEF LInv, LTypes, TypeOK, VBytes, AnyByte
<1> QED
  BY <1>1, LoopsHold, PTL

\* Numbers that were packed, as many as there was room for, are unpacked, and no
\* more than those, whatever a number that did not fit has left in the buffer.
THEOREM RoundTrips == Spec => []RoundTrip
<1>1. LInv => RoundTrip
  <2> SUFFICES ASSUME LInv, mode = "unpack"
               PROVE  IsPrefix(read, packed) /\ (res = "exhausted" => read = packed)
    BY DEF RoundTrip
  <2>1. read \in Seq(Numbers) /\ packed \in Seq(Numbers) /\ Begins(read, packed)
        /\ (res = "exhausted" => read = packed)
    BY DEF LInv, LTypes, Idle, Packing, Unpacking, ReadBack
  <2>2. IsPrefix(read, packed)
    <3> DEFINE n == Len(read)
    <3>1. n \in Nat /\ n <= Len(packed) /\ \A k \in 1..n : read[k] = packed[k]
      BY <2>1, LenProperties DEF Begins
    <3> DEFINE r == Taken(At(read, 0), n)
               t == Taken(At(packed, 0), n)
    <3>2. 0 \in Nat /\ 0 + n <= Len(read) /\ 0 + n <= Len(packed) /\ 0 + n = n /\ 0 + 1 = 1
      BY <2>1, <3>1
    <3>3. r = SubSeq(read, 1, n) /\ t = SubSeq(packed, 1, n)
      BY <3>2 DEF Taken, At
    <3> HIDE DEF r, t, n
    <3>4. r \in Seq(Numbers) /\ Len(r) = n /\ \A k \in 1..n : r[k] = read[0 + k]
      <4>1. /\ Taken(At(read, 0), n) \in Seq(Numbers) /\ Len(Taken(At(read, 0), n)) = n
            /\ \A k \in 1..n : Taken(At(read, 0), n)[k] = read[0 + k]
        BY <2>1, <3>1, <3>2, TakenIs
      <4> QED
        BY <4>1 DEF r
    <3>5. t \in Seq(Numbers) /\ Len(t) = n /\ \A k \in 1..n : t[k] = packed[0 + k]
      BY <2>1, <3>1, <3>2, TakenIs DEF t
    <3>6. \A k \in 1..n : 0 + k = k
      BY <3>1
    <3>7. \A k \in 1..n : r[k] = t[k]
      BY <3>1, <3>4, <3>5, <3>6
    <3>8. r = t
      BY <3>1, <3>4, <3>5, <3>7, SeqEqual
    <3> QED
      BY <3>1, <3>3, <3>8 DEF IsPrefix, n
  <2> QED
    BY <2>1, <2>2
<1> QED
  BY <1>1, LoopsHold, PTL

\* A call does, byte by byte, what PutVar and GetVar say of it: in the buffer, in
\* what it returns and in what it stores.
THEOREM LoopsAreCalls == Spec => []LoopsAgree
<1>1. LInv => LoopsAgree
  BY DEF LInv, Idle, Agreed, LoopsAgree
<1> QED
  BY <1>1, LoopsHold, PTL

\* A call that fails leaves what its caller gave it to store the number in.
THEOREM DstUntouched == Spec => DstKept
<1>1. [Next]_vars => [dst' # dst => op = "unpack" /\ op' = "idle" /\ res' = "ok"]_vars
  BY DEF Next, Step, CallPack, Rewind, CallUnpack, PackMore, PackLast, UnpackNone, UnpackByte,
         Return, vars, history
<1> QED
  BY <1>1, PTL DEF Spec, DstKept
=============================================================================
