---------------------------- MODULE GolayProofs ----------------------------
(***************************************************************************)
(* What the Golay code promises of every symbol and every error.  The code *)
(* is linear, so what decoding does to an error does not depend on the     *)
(* symbol sent; any two codewords differ in eight bits; and the guesses of *)
(* fec_golay2412_decode_symbol find every error of three bits.  Of the     *)
(* three tables only two facts are used: that they are one matrix          *)
(* (TablesAssumption) and how the rows of it relate (RowsAssumption).      *)
(***************************************************************************)
EXTENDS Golay, FiniteSetTheorems, TLAPS

(***************************************************************************)
(* Parity of a symmetric difference.                                       *)
(***************************************************************************)
LEMMA SizeSymDiff ==
  ASSUME NEW A, NEW B, IsFiniteSet(A), IsFiniteSet(B)
  PROVE  /\ IsFiniteSet(SymDiff(A, B))
         /\ Cardinality(A) \in Nat /\ Cardinality(B) \in Nat /\ Cardinality(A \cap B) \in Nat
         /\ Cardinality(SymDiff(A, B)) \in Nat
         /\ Cardinality(SymDiff(A, B)) =
              Cardinality(A) + Cardinality(B) - 2 * Cardinality(A \cap B)
<1> DEFINE a == Cardinality(A)
           b == Cardinality(B)
           c == Cardinality(A \cap B)
<1>1. a \in Nat /\ b \in Nat /\ c \in Nat
  BY FS_CardinalityType, FS_Intersection
<1>2. Cardinality(A \ B) = a - c /\ IsFiniteSet(A \ B)
  BY FS_Difference
<1>3. Cardinality(B \ A) = b - c /\ IsFiniteSet(B \ A)
  <2>1. B \cap A = A \cap B
    OBVIOUS
  <2> QED
    BY <2>1, FS_Difference
<1>4. (A \ B) \cap (B \ A) = {}
  OBVIOUS
<1>5. /\ IsFiniteSet(SymDiff(A, B))
      /\ Cardinality(SymDiff(A, B)) = (a - c) + (b - c)
  <2>1. /\ IsFiniteSet(SymDiff(A, B))
        /\ Cardinality(SymDiff(A, B)) = Cardinality(A \ B) + Cardinality(B \ A)
                                          - Cardinality((A \ B) \cap (B \ A))
    BY <1>2, <1>3, FS_Union DEF SymDiff
  <2>2. Cardinality((A \ B) \cap (B \ A)) = 0
    BY <1>4, FS_EmptySet, Zenon
  <2> QED
    BY <1>1, <1>2, <1>3, <2>1, <2>2
<1>6. Cardinality(SymDiff(A, B)) \in Nat
  BY <1>5, FS_CardinalityType
<1> HIDE DEF a, b, c
<1>7. (a - c) + (b - c) = a + b - 2 * c
  BY <1>1
<1> QED
  BY <1>1, <1>5, <1>6, <1>7 DEF a, b, c

LEMMA OddSymDiff ==
  ASSUME NEW A, NEW B, IsFiniteSet(A), IsFiniteSet(B)
  PROVE  Odd(SymDiff(A, B)) <=> ~(Odd(A) <=> Odd(B))
<1> PICK a \in Nat, b \in Nat, c \in Nat :
      /\ a = Cardinality(A) /\ b = Cardinality(B)
      /\ Cardinality(SymDiff(A, B)) = a + b - 2 * c
  <2>1. /\ Cardinality(A) \in Nat /\ Cardinality(B) \in Nat /\ Cardinality(A \cap B) \in Nat
        /\ Cardinality(SymDiff(A, B)) =
             Cardinality(A) + Cardinality(B) - 2 * Cardinality(A \cap B)
    BY SizeSymDiff, Zenon
  <2> QED
    BY <2>1, Zenon
<1>1. (a + b - 2 * c) % 2 = (a + b) % 2
  OBVIOUS
<1>2. (a + b) % 2 = 1 <=> ~(a % 2 = 1 <=> b % 2 = 1)
  OBVIOUS
<1> QED
  BY <1>1, <1>2 DEF Odd

LEMMA OddSmall == ~Odd({}) /\ \A x : Odd({x})
<1>1. Cardinality({}) = 0 /\ \A x : Cardinality({x}) = 1
  BY FS_EmptySet, FS_Singleton, Zenon
<1>2. 0 % 2 # 1 /\ 1 % 2 = 1
  OBVIOUS
<1>3. Cardinality({}) % 2 # 1 /\ \A x : Cardinality({x}) % 2 = 1
  BY <1>1, <1>2, Zenon
<1> QED
  BY <1>3, Zenon DEF Odd

(***************************************************************************)
(* golay2412_matrix_mul is linear in its vector.                           *)
(***************************************************************************)
LEMMA MatrixMulLinear ==
  ASSUME NEW u, NEW v, IsFiniteSet(u), IsFiniteSet(v), NEW A, NEW n \in Nat
  PROVE  MatrixMul(SymDiff(u, v), A, n) = SymDiff(MatrixMul(u, A, n), MatrixMul(v, A, n))
<1>1. ASSUME NEW R
      PROVE  Odd(R \cap SymDiff(u, v)) <=> ~(Odd(R \cap u) <=> Odd(R \cap v))
  <2>1. R \cap SymDiff(u, v) = SymDiff(R \cap u, R \cap v)
    BY DEF SymDiff
  <2>2. IsFiniteSet(R \cap u) /\ IsFiniteSet(R \cap v)
    BY FS_Subset
  <2> QED
    BY <2>1, <2>2, OddSymDiff
<1>2. \A k \in 0..(n - 1) :
        Odd(A[n - 1 - k] \cap SymDiff(u, v)) <=>
          ~(Odd(A[n - 1 - k] \cap u) <=> Odd(A[n - 1 - k] \cap v))
  BY <1>1
<1> QED
  BY <1>2 DEF MatrixMul, SymDiff

(***************************************************************************)
(* A codeword is a symbol below its parity bits; its syndrome is 0.        *)
(***************************************************************************)
LEMMA WordFinite == \A w : w \subseteq 0..23 => IsFiniteSet(w)
<1>1. IsFiniteSet(0..23)
  BY FS_Interval, 0 \in Int, 23 \in Int, Zenon
<1> QED
  BY <1>1, FS_Subset

LEMMA EncodeType == \A m : EncodeSymbol(m) \subseteq 0..23
BY DEF EncodeSymbol, MatrixMul

LEMMA EncodeLow ==
  ASSUME NEW m, m \subseteq 0..11
  PROVE  \A k \in 0..11 : k \in EncodeSymbol(m) <=> k \in m
<1> SUFFICES ASSUME NEW k \in 0..11 PROVE k \in EncodeSymbol(m) <=> k \in m
  OBVIOUS
<1>1. Gt[23 - k] = {k}
  <2>1. 11 - k \in 0..11 /\ 12 + (11 - k) = 23 - k /\ 11 - (11 - k) = k
    OBVIOUS
  <2> QED
    BY <2>1, TablesAssumption
<1>2. k \in EncodeSymbol(m) <=> Odd({k} \cap m)
  <2>1. k \in 0..23 /\ 24 - 1 - k = 23 - k
    OBVIOUS
  <2> QED
    BY <1>1, <2>1 DEF EncodeSymbol, MatrixMul
<1>3. {k} \cap m = IF k \in m THEN {k} ELSE {}
  OBVIOUS
<1> QED
  BY <1>2, <1>3, OddSmall

LEMMA EncodeHigh ==
  ASSUME NEW m, m \subseteq 0..11, NEW i \in 0..11
  PROVE  23 - i \in EncodeSymbol(m) <=> Odd(P[i] \cap m)
<1>1. Gt[i] = P[i]
  BY TablesAssumption
<1>2. 23 - i \in 0..23 /\ 24 - 1 - (23 - i) = i
  OBVIOUS
<1> QED
  BY <1>1, <1>2 DEF EncodeSymbol, MatrixMul

LEMMA SyndromeZero ==
  ASSUME NEW m, m \subseteq 0..11
  PROVE  Syndrome(EncodeSymbol(m)) = {}
<1> DEFINE w == EncodeSymbol(m)
<1>1. ASSUME NEW i \in 0..11 PROVE ~Odd(H[i] \cap w)
  <2>1. H[i] = {23 - i} \cup P[i] /\ P[i] \subseteq 0..11
    BY TablesAssumption
  <2>2. P[i] \cap w = P[i] \cap m
    BY <2>1, EncodeLow
  <2>3. H[i] \cap w = ({23 - i} \cap w) \cup (P[i] \cap m)
    BY <2>1, <2>2
  <2>4. CASE 23 - i \in w
    <3>1. Odd(P[i] \cap m)
      BY <2>4, EncodeHigh
    <3>2. 23 - i \notin P[i]
      BY <2>1
    <3>3. H[i] \cap w = SymDiff({23 - i}, P[i] \cap m)
      BY <2>3, <2>4, <3>2 DEF SymDiff
    <3>4. IsFiniteSet({23 - i}) /\ IsFiniteSet(P[i] \cap m)
      <4>1. 23 - i \in 0..23 /\ P[i] \cap m \subseteq 0..23
        BY <2>1
      <4> QED
        BY <4>1, WordFinite
    <3>5. Odd({23 - i})
      BY OddSmall
    <3>6. ~Odd(SymDiff({23 - i}, P[i] \cap m))
      BY <3>1, <3>4, <3>5, OddSymDiff
    <3> QED
      BY <3>3, <3>6
  <2>5. CASE 23 - i \notin w
    <3>1. ~Odd(P[i] \cap m)
      BY <2>5, EncodeHigh
    <3>2. H[i] \cap w = P[i] \cap m
      BY <2>3, <2>5
    <3> QED
      BY <3>1, <3>2
  <2> QED
    BY <2>4, <2>5
<1>2. ASSUME NEW k \in 0..11 PROVE ~Odd(H[12 - 1 - k] \cap w)
  <2>1. 12 - 1 - k \in 0..11
    OBVIOUS
  <2> QED
    BY <1>1, <2>1
<1>3. MatrixMul(w, H, 12) = {}
  <2> HIDE DEF w
  <2> QED
    BY <1>2, 12 - 1 = 11 DEF MatrixMul
<1> QED
  BY <1>3 DEF Syndrome

(***************************************************************************)
(* Decoding sees the error only.                                           *)
(***************************************************************************)
LEMMA SyndromeOfError ==
  ASSUME NEW m, m \subseteq 0..11, NEW e, e \subseteq 0..23
  PROVE  Syndrome(SymDiff(EncodeSymbol(m), e)) = Syndrome(e)
<1>1. IsFiniteSet(EncodeSymbol(m)) /\ IsFiniteSet(e)
  BY EncodeType, WordFinite
<1>2. Syndrome(SymDiff(EncodeSymbol(m), e)) = SymDiff(Syndrome(EncodeSymbol(m)), Syndrome(e))
  BY <1>1, MatrixMulLinear DEF Syndrome
<1> QED
  BY <1>2, SyndromeZero DEF SymDiff

\* Decoding a damaged codeword gives what decoding the damage alone gives, added
\* to the symbol: golay_decode12 corrects the same errors for every symbol.
THEOREM Translation ==
  ASSUME NEW m, m \subseteq 0..11, NEW e, e \subseteq 0..23
  PROVE  LET d == DecodeSymbol(SymDiff(EncodeSymbol(m), e))
             z == DecodeSymbol(e)
         IN  /\ d.res = z.res
             /\ d.out = IF z.out = Unset THEN Unset ELSE SymDiff(m, z.out)
<1> DEFINE w == SymDiff(EncodeSymbol(m), e)
           x == ErrorOf(Syndrome(e))
<1>1. ErrorOf(Syndrome(w)) = x
  BY SyndromeOfError
<1>2. DecodeSymbol(w) = IF x = Unset
                          THEN [res |-> -1, out |-> Unset]
                          ELSE [res |-> Cardinality(x), out |-> SymDiff(w, x) \cap 0..11]
  BY <1>1 DEF DecodeSymbol
<1>3. DecodeSymbol(e) = IF x = Unset
                          THEN [res |-> -1, out |-> Unset]
                          ELSE [res |-> Cardinality(x), out |-> SymDiff(e, x) \cap 0..11]
  BY DEF DecodeSymbol
<1>4. SymDiff(e, x) \cap 0..11 # Unset
  BY UnsetAssumption
<1>5. SymDiff(w, x) \cap 0..11 = SymDiff(m, SymDiff(e, x) \cap 0..11)
  BY EncodeLow DEF SymDiff
<1> QED
  BY <1>2, <1>3, <1>4, <1>5

(***************************************************************************)
(* Words by halves: the parity half a above the message half b.            *)
(***************************************************************************)
Parity(b) == MatrixMul(b, P, 12)
Weight(b) == Cardinality(b) + Cardinality(Parity(b))
HighHalf(w) == {k \in 0..11 : k + 12 \in w}

LEMMA HalfFinite ==
  ASSUME NEW a, a \subseteq 0..11
  PROVE  IsFiniteSet(a) /\ Cardinality(a) \in Nat
<1>1. a \subseteq 0..23
  OBVIOUS
<1> QED
  BY <1>1, WordFinite, FS_CardinalityType

LEMMA HighIs ==
  ASSUME NEW a, a \subseteq 0..11
  PROVE  /\ High(a) \subseteq 12..23 /\ IsFiniteSet(High(a))
         /\ Cardinality(High(a)) = Cardinality(a)
         /\ \A k \in 0..11 : k + 12 \in High(a) <=> k \in a
<1>1. High(a) \subseteq 12..23 /\ \A k \in 0..11 : k + 12 \in High(a) <=> k \in a
  BY DEF High
<1> DEFINE f == [j \in a |-> j + 12]
<1>2. f \in [a -> High(a)]
  BY DEF High
<1>3. \A x, y \in a : f[x] = f[y] => x = y
  OBVIOUS
<1>4. \A t \in High(a) : \E x \in a : f[x] = t
  BY DEF High
<1> HIDE DEF f
<1>5. f \in Bijection(a, High(a))
  BY <1>2, <1>3, <1>4 DEF Bijection, Injection, Surjection, IsInjective
<1>6. ExistsBijection(a, High(a))
  BY <1>5 DEF ExistsBijection
<1> QED
  BY <1>1, <1>6, HalfFinite, FS_Bijection

LEMMA SizeByHalves ==
  ASSUME NEW a, a \subseteq 0..11, NEW b, b \subseteq 0..11
  PROVE  /\ High(a) \cup b \subseteq 0..23
         /\ Cardinality(High(a) \cup b) = Cardinality(a) + Cardinality(b)
<1>1. High(a) \subseteq 12..23 /\ IsFiniteSet(High(a)) /\ Cardinality(High(a)) = Cardinality(a)
  BY HighIs
<1>2. IsFiniteSet(b) /\ Cardinality(a) \in Nat /\ Cardinality(b) \in Nat
  BY HalfFinite
<1>3. High(a) \cap b = {}
  BY <1>1
<1>4. Cardinality(High(a) \cap b) = 0
  BY <1>3, FS_EmptySet, Zenon
<1>5. Cardinality(High(a) \cup b) = Cardinality(High(a)) + Cardinality(b) - Cardinality(High(a) \cap b)
  BY <1>1, <1>2, FS_Union
<1>6. Cardinality(High(a) \cup b) = Cardinality(a) + Cardinality(b)
  BY <1>1, <1>2, <1>4, <1>5
<1>7. 12..23 \subseteq 0..23 /\ 0..11 \subseteq 0..23
  OBVIOUS
<1>8. High(a) \cup b \subseteq 0..23
  BY <1>1, <1>7, Zenon
<1> QED
  BY <1>6, <1>8

LEMMA ByHalves ==
  ASSUME NEW w, w \subseteq 0..23
  PROVE  w = High(HighHalf(w)) \cup (w \cap 0..11)
<1>1. \A j \in 12..23 : j - 12 \in 0..11 /\ (j - 12) + 12 = j
  OBVIOUS
<1>2. \A j \in 12..23 : j \in w <=> j \in High(HighHalf(w))
  BY <1>1 DEF High, HighHalf
<1>3. High(HighHalf(w)) \subseteq 12..23
  BY DEF High, HighHalf
<1>4. \A j \in 0..23 : j \in 0..11 \/ j \in 12..23
  OBVIOUS
<1> QED
  BY <1>2, <1>3, <1>4

(***************************************************************************)
(* P as a map of the halves: linear and its own inverse.                   *)
(***************************************************************************)
LEMMA RowSize == \A i \in 0..11 : Cardinality(P[i]) \in {7, 11}
BY RowsAssumption, Zenon

LEMMA RowFlip == \A i, j \in 0..11 : 11 - j \in P[i] <=> 11 - i \in P[j]
BY RowsAssumption, Zenon

LEMMA RowMeet == \A i, j \in 0..11 : Odd(P[i] \cap P[j]) <=> i = j
BY RowsAssumption, Zenon

LEMMA RowApart == \A i, j \in 0..11 : i # j => Cardinality(SymDiff(P[i], P[j])) >= 6
BY RowsAssumption, Zenon

LEMMA ParityType == \A b : Parity(b) \subseteq 0..11
BY DEF Parity, MatrixMul

LEMMA ParityHas ==
  ASSUME NEW b, NEW k \in 0..11
  PROVE  k \in Parity(b) <=> Odd(P[11 - k] \cap b)
BY 12 - 1 = 11 DEF Parity, MatrixMul

LEMMA ParitySum ==
  ASSUME NEW a, a \subseteq 0..11, NEW b, b \subseteq 0..11
  PROVE  Parity(SymDiff(a, b)) = SymDiff(Parity(a), Parity(b))
<1>1. IsFiniteSet(a) /\ IsFiniteSet(b)
  BY HalfFinite
<1>2. \A n \in Nat : MatrixMul(SymDiff(a, b), P, n) = SymDiff(MatrixMul(a, P, n), MatrixMul(b, P, n))
  BY <1>1, MatrixMulLinear
<1>3. 12 \in Nat
  OBVIOUS
<1> QED
  BY <1>2, <1>3, Zenon DEF Parity

LEMMA ParityNone == Parity({}) = {}
<1>1. \A k \in 0..11 : k \notin Parity({})
  <2> SUFFICES ASSUME NEW k \in 0..11 PROVE k \notin Parity({})
    OBVIOUS
  <2>1. P[11 - k] \cap {} = {}
    OBVIOUS
  <2>2. ~Odd(P[11 - k] \cap {})
    BY <2>1, OddSmall, Zenon
  <2> QED
    BY <2>2, ParityHas
<1> QED
  BY <1>1, ParityType

LEMMA ParityColumn ==
  ASSUME NEW i \in 0..11
  PROVE  Parity({11 - i}) = P[i]
<1>1. P[i] \subseteq 0..11
  BY TablesAssumption
<1>2. ASSUME NEW k \in 0..11 PROVE k \in Parity({11 - i}) <=> k \in P[i]
  <2>1. 11 - k \in 0..11 /\ 11 - (11 - k) = k
    OBVIOUS
  <2>2. k \in P[i] <=> 11 - i \in P[11 - k]
    BY <2>1, RowFlip
  <2>3. P[11 - k] \cap {11 - i} = IF 11 - i \in P[11 - k] THEN {11 - i} ELSE {}
    OBVIOUS
  <2>4. Odd(P[11 - k] \cap {11 - i}) <=> 11 - i \in P[11 - k]
    BY <2>3, OddSmall
  <2> QED
    BY <2>2, <2>4, ParityHas
<1> QED
  BY <1>1, <1>2, ParityType

LEMMA ParityOfRow ==
  ASSUME NEW i \in 0..11
  PROVE  Parity(P[i]) = {11 - i}
<1>1. ASSUME NEW k \in 0..11 PROVE k \in Parity(P[i]) <=> k = 11 - i
  <2>1. 11 - k \in 0..11 /\ (11 - k = i <=> k = 11 - i)
    OBVIOUS
  <2>2. Odd(P[11 - k] \cap P[i]) <=> 11 - k = i
    BY <2>1, RowMeet
  <2> QED
    BY <2>1, <2>2, ParityHas
<1>2. 11 - i \in 0..11
  OBVIOUS
<1> QED
  BY <1>1, <1>2, ParityType

LEMMA AddBit ==
  ASSUME NEW b, b \subseteq 0..11, NEW c \in 0..11, c \notin b
  PROVE  /\ b \cup {c} = SymDiff(b, {c})
         /\ Parity(b \cup {c}) = SymDiff(Parity(b), P[11 - c])
<1>1. b \cup {c} = SymDiff(b, {c})
  BY DEF SymDiff
<1>2. 11 - c \in 0..11 /\ 11 - (11 - c) = c
  OBVIOUS
<1>3. Parity({c}) = P[11 - c]
  BY <1>2, ParityColumn
<1>4. {c} \subseteq 0..11
  OBVIOUS
<1> QED
  BY <1>1, <1>3, <1>4, ParitySum

LEMMA TwiceAdd ==
  ASSUME NEW b, b \subseteq 0..11, Parity(Parity(b)) = b, NEW c \in 0..11
  PROVE  Parity(Parity(b \cup {c})) = b \cup {c}
<1>1. CASE c \in b
  <2>1. b \cup {c} = b
    BY <1>1
  <2> QED
    BY <2>1
<1>2. CASE c \notin b
  <2>1. 11 - c \in 0..11 /\ 11 - (11 - c) = c
    OBVIOUS
  <2>2. P[11 - c] \subseteq 0..11 /\ Parity(b) \subseteq 0..11
    BY <2>1, TablesAssumption, ParityType
  <2>3. Parity(P[11 - c]) = {c}
    BY <2>1, ParityOfRow
  <2>4. Parity(SymDiff(Parity(b), P[11 - c])) = SymDiff(Parity(Parity(b)), Parity(P[11 - c]))
    BY <2>2, ParitySum, Zenon
  <2> QED
    <3>1. b \cup {c} = SymDiff(b, {c}) /\ Parity(b \cup {c}) = SymDiff(Parity(b), P[11 - c])
      BY <1>2, AddBit, Zenon
    <3>2. Parity(Parity(b \cup {c})) = SymDiff(b, {c})
      BY <2>3, <2>4, <3>1, Zenon
    <3> QED
      BY <3>1, <3>2, Zenon
<1> QED
  BY <1>1, <1>2

LEMMA Twice ==
  ASSUME NEW b, b \subseteq 0..11
  PROVE  Parity(Parity(b)) = b
<1> DEFINE S(n) == b \cap 0..(n - 1)
           T(n) == Parity(Parity(S(n))) = S(n)
<1>1. T(0)
  <2>1. S(0) = {}
    OBVIOUS
  <2> QED
    BY <2>1, ParityNone, Zenon
<1>2. ASSUME NEW n \in 0..11, T(n) PROVE T(n + 1)
  <2>1. CASE n \in b
    <3>1. S(n + 1) = S(n) \cup {n} /\ S(n) \subseteq 0..11
      BY <2>1
    <3> QED
      BY <1>2, <3>1, TwiceAdd
  <2>2. CASE n \notin b
    <3>1. S(n + 1) = S(n)
      BY <2>2
    <3> QED
      BY <1>2, <3>1, Zenon
  <2> QED
    BY <2>1, <2>2
<1>3. S(12) = b
  <2>1. b \cap 0..11 = b
    BY Zenon
  <2>2. 12 - 1 = 11
    OBVIOUS
  <2> QED
    BY <2>1, <2>2, Zenon
<1> HIDE DEF S, T
<1>4. \A n \in 0..8 : T(n) => T(n + 4)
  <2> SUFFICES ASSUME NEW n \in 0..8, T(n) PROVE T(n + 4)
    OBVIOUS
  <2>1. T(n + 1)
    BY <1>2
  <2>2. T(n + 2)
    BY <1>2, <2>1
  <2>3. T(n + 3)
    BY <1>2, <2>2
  <2> QED
    BY <1>2, <2>3
<1>5. T(4)
  BY <1>1, <1>4
<1>6. T(8)
  BY <1>4, <1>5
<1>7. T(12)
  BY <1>4, <1>6
<1> QED
  BY <1>3, <1>7, Zenon DEF T

(***************************************************************************)
(* A word is a codeword when its parity half is what Parity makes of its   *)
(* message half; the syndrome is the difference of the two.                *)
(***************************************************************************)
LEMMA EncodeHalves ==
  ASSUME NEW m, m \subseteq 0..11
  PROVE  EncodeSymbol(m) = High(Parity(m)) \cup m
<1> DEFINE w == EncodeSymbol(m)
<1>1. w \subseteq 0..23
  BY EncodeType
<1>2. w \cap 0..11 = m
  BY EncodeLow
<1>3. ASSUME NEW k \in 0..11 PROVE k + 12 \in w <=> k \in Parity(m)
  <2>1. 11 - k \in 0..11 /\ 23 - (11 - k) = k + 12
    OBVIOUS
  <2>2. 23 - (11 - k) \in w <=> Odd(P[11 - k] \cap m)
    BY <2>1, EncodeHigh
  <2> QED
    BY <2>1, <2>2, ParityHas, Zenon
<1> HIDE DEF w
<1>4. HighHalf(w) = Parity(m)
  BY <1>3, ParityType DEF HighHalf
<1>5. w = High(HighHalf(w)) \cup (w \cap 0..11)
  BY <1>1, ByHalves
<1> QED
  BY <1>2, <1>4, <1>5, Zenon DEF w

LEMMA SyndromeHalves ==
  ASSUME NEW a, a \subseteq 0..11, NEW b, b \subseteq 0..11
  PROVE  Syndrome(High(a) \cup b) = SymDiff(a, Parity(b))
<1> DEFINE w == High(a) \cup b
<1>1. ASSUME NEW k \in 0..11 PROVE k \in Syndrome(w) <=> ~(k \in a <=> k \in Parity(b))
  <2> PICK R, x : R = P[11 - k] /\ x = IF k \in a THEN {k + 12} ELSE {}
    OBVIOUS
  <2>1. 11 - k \in 0..11 /\ 23 - (11 - k) = k + 12 /\ 12 - 1 - k = 11 - k
    OBVIOUS
  <2>2. H[11 - k] = {k + 12} \cup R /\ R \subseteq 0..11
    BY <2>1, TablesAssumption
  <2>3. k \in Syndrome(w) <=> Odd(H[11 - k] \cap w)
    BY <2>1 DEF Syndrome, MatrixMul
  <2>4. High(a) \subseteq 12..23 /\ (k + 12 \in High(a) <=> k \in a)
    BY HighIs
  <2>5. k + 12 \in 12..23 /\ (\A j \in 0..11 : j \notin 12..23)
    OBVIOUS
  <2>6. H[11 - k] \cap w = SymDiff(x, R \cap b)
    <3>1. ({k + 12} \cup R) \cap w = x \cup (R \cap b)
      BY <2>2, <2>4, <2>5
    <3>2. x \cap (R \cap b) = {}
      BY <2>2, <2>5
    <3> QED
      BY <2>2, <3>1, <3>2 DEF SymDiff
  <2>7. IsFiniteSet(x) /\ IsFiniteSet(R \cap b)
    <3>1. IsFiniteSet({k + 12}) /\ IsFiniteSet({})
      BY FS_Singleton, FS_EmptySet, Zenon
    <3>2. R \cap b \subseteq 0..11
      OBVIOUS
    <3> QED
      BY <3>1, <3>2, HalfFinite
  <2>8. Odd(x) <=> k \in a
    BY OddSmall
  <2>9. Odd(R \cap b) <=> k \in Parity(b)
    BY ParityHas
  <2>10. Odd(SymDiff(x, R \cap b)) <=> ~(Odd(x) <=> Odd(R \cap b))
    BY <2>7, OddSymDiff
  <2> QED
    BY <2>3, <2>6, <2>8, <2>9, <2>10, Zenon
<1>2. Syndrome(w) \subseteq 0..11
  BY DEF Syndrome, MatrixMul
<1> HIDE DEF w
<1>3. Syndrome(w) = SymDiff(a, Parity(b))
  BY <1>1, <1>2, ParityType DEF SymDiff
<1> QED
  BY <1>3 DEF w

(***************************************************************************)
(* Any two codewords differ in at least eight bits.  The weight of a       *)
(* codeword is a multiple of four, since the rows of P overlap in an even  *)
(* number of bits, and it is not four: one or two rows are too long, and   *)
(* with three bits or more in the message half the other half has one at   *)
(* most, which the same argument excludes with the halves exchanged.       *)
(***************************************************************************)
LEMMA WeightAdd ==
  ASSUME NEW b, b \subseteq 0..11, Weight(b) % 4 = 0, NEW c \in 0..11, c \notin b
  PROVE  Weight(b \cup {c}) % 4 = 0
<1> PICK R : R = P[11 - c]
  OBVIOUS
<1>1. R \subseteq 0..11 /\ Cardinality(R) \in {7, 11}
  <2>1. 11 - c \in 0..11
    OBVIOUS
  <2> QED
    BY <2>1, TablesAssumption, RowSize
<1>2. IsFiniteSet(b) /\ IsFiniteSet(R) /\ IsFiniteSet(Parity(b))
  BY <1>1, ParityType, HalfFinite
<1>3. Parity(b \cup {c}) = SymDiff(Parity(b), R)
  BY AddBit
<1> PICK x \in Nat, p \in Nat, q \in Nat, r \in {7, 11} :
      /\ x = Cardinality(b) /\ p = Cardinality(Parity(b)) /\ r = Cardinality(R)
      /\ q = Cardinality(Parity(b) \cap R)
      /\ Cardinality(SymDiff(Parity(b), R)) = p + r - 2 * q
  <2>1. Cardinality(b) \in Nat
    BY HalfFinite
  <2>2. /\ Cardinality(Parity(b)) \in Nat /\ Cardinality(Parity(b) \cap R) \in Nat
        /\ Cardinality(SymDiff(Parity(b), R)) =
             Cardinality(Parity(b)) + Cardinality(R) - 2 * Cardinality(Parity(b) \cap R)
    BY <1>2, SizeSymDiff, Zenon
  <2> QED
    BY <1>1, <2>1, <2>2, Zenon
<1>4. Cardinality(b \cup {c}) = x + 1
  BY <1>2, FS_AddElement
<1>5. q % 2 = 0
  <2>1. c \in Parity(Parity(b)) <=> Odd(R \cap Parity(b))
    BY ParityHas
  <2>2. Parity(Parity(b)) = b
    BY Twice
  <2>3. R \cap Parity(b) = Parity(b) \cap R
    OBVIOUS
  <2>4. ~Odd(Parity(b) \cap R)
    BY <2>1, <2>2, <2>3, Zenon
  <2> QED
    BY <2>4 DEF Odd
<1>6. (x + p) % 4 = 0
  BY DEF Weight
<1>7. Weight(b \cup {c}) = (x + 1) + (p + r - 2 * q)
  BY <1>3, <1>4, Zenon DEF Weight
<1>8. ((x + 1) + (p + r - 2 * q)) % 4 = 0
  <2> PICK t \in Nat : q = 2 * t
    BY <1>5
  <2>1. (x + 1) + (p + r - 2 * q) = (x + p) + (r + 1) - 4 * t
    OBVIOUS
  <2>2. r + 1 = 8 \/ r + 1 = 12
    OBVIOUS
  <2> QED
    BY <1>6, <2>1, <2>2
<1> QED
  BY <1>7, <1>8, Zenon

LEMMA WeightFour ==
  ASSUME NEW b, b \subseteq 0..11
  PROVE  Weight(b) % 4 = 0
<1> DEFINE S(n) == b \cap 0..(n - 1)
           T(n) == Weight(S(n)) % 4 = 0
<1>1. T(0)
  <2>1. S(0) = {}
    OBVIOUS
  <2>2. Cardinality({}) = 0 /\ Parity({}) = {}
    BY FS_EmptySet, ParityNone
  <2>3. Weight(S(0)) = 0 + 0
    BY <2>1, <2>2, Zenon DEF Weight
  <2> QED
    BY <2>3
<1>2. ASSUME NEW n \in 0..11, T(n) PROVE T(n + 1)
  <2>1. CASE n \in b
    <3>1. S(n + 1) = S(n) \cup {n} /\ S(n) \subseteq 0..11 /\ n \notin S(n)
      BY <2>1
    <3> QED
      BY <1>2, <3>1, WeightAdd
  <2>2. CASE n \notin b
    <3>1. S(n + 1) = S(n)
      BY <2>2
    <3> QED
      BY <1>2, <3>1, Zenon
  <2> QED
    BY <2>1, <2>2
<1>3. S(12) = b
  <2>1. b \cap 0..11 = b
    BY Zenon
  <2>2. 12 - 1 = 11
    OBVIOUS
  <2> QED
    BY <2>1, <2>2, Zenon
<1> HIDE DEF S, T
<1>4. \A n \in 0..8 : T(n) => T(n + 4)
  <2> SUFFICES ASSUME NEW n \in 0..8, T(n) PROVE T(n + 4)
    OBVIOUS
  <2>1. T(n + 1)
    BY <1>2
  <2>2. T(n + 2)
    BY <1>2, <2>1
  <2>3. T(n + 3)
    BY <1>2, <2>2
  <2> QED
    BY <1>2, <2>3
<1>5. T(4)
  BY <1>1, <1>4
<1>6. T(8)
  BY <1>4, <1>5
<1>7. T(12)
  BY <1>4, <1>6
<1> QED
  BY <1>3, <1>7, Zenon DEF T

LEMMA OneRow ==
  ASSUME NEW c \in 0..11
  PROVE  Cardinality(Parity({c})) >= 7
<1>1. 11 - c \in 0..11 /\ 11 - (11 - c) = c
  OBVIOUS
<1>2. Parity({c}) = P[11 - c]
  BY <1>1, ParityColumn
<1>3. Cardinality(P[11 - c]) \in {7, 11}
  BY <1>1, RowSize
<1> QED
  BY <1>2, <1>3

LEMMA TwoRows ==
  ASSUME NEW c \in 0..11, NEW d \in 0..11, c # d
  PROVE  Cardinality(Parity({c} \cup {d})) >= 6
<1>1. 11 - c \in 0..11 /\ 11 - (11 - c) = c /\ 11 - d \in 0..11 /\ 11 - c # 11 - d
  OBVIOUS
<1>2. Parity({c}) = P[11 - c]
  BY <1>1, ParityColumn
<1>3. {c} \subseteq 0..11 /\ d \notin {c}
  OBVIOUS
<1>4. Parity({c} \cup {d}) = SymDiff(P[11 - c], P[11 - d])
  <2>1. Parity({c} \cup {d}) = SymDiff(Parity({c}), P[11 - d])
    BY <1>3, AddBit, Zenon
  <2> QED
    BY <1>2, <2>1, Zenon
<1>5. Cardinality(SymDiff(P[11 - c], P[11 - d])) >= 6
  BY <1>1, RowApart
<1> QED
  BY <1>4, <1>5, Zenon

LEMMA SmallSets ==
  ASSUME NEW b, b \subseteq 0..11, Cardinality(b) \in 0..2
  PROVE  b = {} \/ (\E c \in 0..11 : b = {c}) \/ \E c, d \in 0..11 : c # d /\ b = {c} \cup {d}
<1>1. IsFiniteSet(b)
  BY HalfFinite
<1>2. CASE Cardinality(b) = 0
  BY <1>1, <1>2, FS_EmptySet
<1>3. CASE Cardinality(b) = 1
  <2> PICK c : b = {c}
    BY <1>1, <1>3, FS_Singleton
  <2> QED
    OBVIOUS
<1>4. CASE Cardinality(b) = 2
  <2>1. b # {}
    BY <1>1, <1>4, FS_EmptySet
  <2> PICK c : c \in b
    BY <2>1
  <2>2. IsFiniteSet(b \ {c}) /\ Cardinality(b \ {c}) = 1
    BY <1>1, <1>4, FS_RemoveElement
  <2> PICK d : b \ {c} = {d}
    BY <2>2, FS_Singleton
  <2>3. c \in 0..11 /\ d \in 0..11 /\ c # d /\ b = {c} \cup {d}
    OBVIOUS
  <2> QED
    BY <2>3
<1> QED
  BY <1>2, <1>3, <1>4

LEMMA MinWeight ==
  ASSUME NEW b, b \subseteq 0..11, b # {}
  PROVE  Weight(b) \in Nat /\ Weight(b) >= 8
<1> PICK a : a = Parity(b)
  OBVIOUS
<1>1. a \subseteq 0..11 /\ Parity(a) = b
  BY ParityType, Twice
<1> PICK x \in Nat, y \in Nat : x = Cardinality(b) /\ y = Cardinality(a)
  BY <1>1, HalfFinite
<1>2. Weight(b) = x + y /\ (x + y) % 4 = 0
  <2>1. Weight(b) = x + y
    BY Zenon DEF Weight
  <2> QED
    BY <2>1, WeightFour
<1>3. x # 0 /\ a # {}
  <2>1. x # 0
    BY HalfFinite, FS_EmptySet
  <2>2. a # {}
    BY <1>1, ParityNone
  <2> QED
    BY <2>1, <2>2
<1>4. x = 1 => y >= 7
  <2> SUFFICES ASSUME x = 1 PROVE y >= 7
    OBVIOUS
  <2>1. \E c \in 0..11 : b = {c}
    <3>1. IsFiniteSet(b)
      BY HalfFinite
    <3> PICK c : b = {c}
      BY <3>1, FS_Singleton
    <3> QED
      OBVIOUS
  <2> QED
    BY <2>1, OneRow
<1>5. x = 2 => y >= 6
  <2> SUFFICES ASSUME x = 2 PROVE y >= 6
    OBVIOUS
  <2>1. \E c, d \in 0..11 : c # d /\ b = {c} \cup {d}
    <3>1. Cardinality(b) \in 0..2
      OBVIOUS
    <3>2. b = {} \/ (\E c \in 0..11 : b = {c}) \/ \E c, d \in 0..11 : c # d /\ b = {c} \cup {d}
      BY <3>1, SmallSets, Zenon
    <3>3. \A c : Cardinality({c}) = 1
      BY FS_Singleton, Zenon
    <3>4. ASSUME NEW c, b = {c} PROVE FALSE
      <4>1. Cardinality(b) = 1
        BY <3>3, <3>4, Zenon
      <4>2. x = 1
        BY <4>1, Zenon
      <4> QED
        BY <4>2
    <3> QED
      BY <3>2, <3>4, Zenon
  <2> QED
    BY <2>1, TwoRows
<1>6. y = 0 => FALSE
  BY <1>1, <1>3, HalfFinite, FS_EmptySet
<1>7. y = 1 => x >= 7
  <2> SUFFICES ASSUME y = 1 PROVE x >= 7
    OBVIOUS
  <2>1. \E c \in 0..11 : a = {c}
    <3>1. IsFiniteSet(a)
      BY <1>1, HalfFinite
    <3> PICK c : a = {c}
      BY <3>1, FS_Singleton
    <3> QED
      BY <1>1
  <2> QED
    BY <1>1, <2>1, OneRow
<1>8. x + y >= 8
  BY <1>2, <1>3, <1>4, <1>5, <1>6, <1>7
<1> QED
  BY <1>2, <1>8

\* Two words of the same syndrome are as far from each other as two codewords.
LEMMA SameSyndrome ==
  ASSUME NEW e, e \subseteq 0..23, NEW f, f \subseteq 0..23, Syndrome(e) = Syndrome(f),
         Cardinality(e) + Cardinality(f) <= 7
  PROVE  e = f
<1> PICK d : d = SymDiff(e, f)
  OBVIOUS
<1>1. d \subseteq 0..23 /\ IsFiniteSet(e) /\ IsFiniteSet(f)
  BY WordFinite DEF SymDiff
<1>2. Syndrome(d) = {}
  <2>1. Syndrome(d) = SymDiff(Syndrome(e), Syndrome(f))
    BY <1>1, MatrixMulLinear DEF Syndrome
  <2> QED
    BY <2>1 DEF SymDiff
<1>3. Cardinality(d) <= 7
  <2>1. /\ Cardinality(e) \in Nat /\ Cardinality(f) \in Nat /\ Cardinality(e \cap f) \in Nat
        /\ Cardinality(d) = Cardinality(e) + Cardinality(f) - 2 * Cardinality(e \cap f)
    BY <1>1, SizeSymDiff, Zenon
  <2> QED
    BY <2>1
<1> PICK a, b : a = HighHalf(d) /\ b = d \cap 0..11
  OBVIOUS
<1>4. a \subseteq 0..11 /\ b \subseteq 0..11 /\ d = High(a) \cup b
  BY <1>1, ByHalves DEF HighHalf
<1>5. a = Parity(b)
  <2>1. SymDiff(a, Parity(b)) = {}
    BY <1>2, <1>4, SyndromeHalves
  <2> QED
    BY <2>1 DEF SymDiff
<1>6. Cardinality(d) = Cardinality(a) + Cardinality(b)
  BY <1>4, SizeByHalves
<1>7. b = {}
  <2> SUFFICES ASSUME b # {} PROVE FALSE
    OBVIOUS
  <2>1. Weight(b) >= 8
    BY <1>4, MinWeight
  <2>2. Weight(b) = Cardinality(b) + Cardinality(a)
    BY <1>5, Zenon DEF Weight
  <2>3. Cardinality(a) \in Nat /\ Cardinality(b) \in Nat
    BY <1>4, HalfFinite
  <2> QED
    BY <1>3, <1>6, <2>1, <2>2, <2>3
<1>8. d = {}
  <2>1. a = {}
    BY <1>5, <1>7, ParityNone
  <2> QED
    BY <1>4, <1>7, <2>1 DEF High
<1> QED
  BY <1>8 DEF SymDiff

(***************************************************************************)
(* The guess has the syndrome it is made from, and three bits at most; an  *)
(* error of three bits at most is guessed.                                 *)
(***************************************************************************)
LEMMA LeastOf ==
  ASSUME NEW N, N \subseteq 0..11, N # {}
  PROVE  \E i \in N : \A j \in N : i <= j
<1> DEFINE T(n) == (\A j \in N : n <= j) \/ \E i \in N : \A j \in N : i <= j
<1>1. T(0)
  OBVIOUS
<1>2. ASSUME NEW n \in 0..11, T(n) PROVE T(n + 1)
  <2>1. CASE n \in N /\ \A j \in N : n <= j
    BY <2>1
  <2>2. CASE n \notin N /\ \A j \in N : n <= j
    BY <2>2
  <2> QED
    BY <1>2, <2>1, <2>2
<1> HIDE DEF T
<1>3. \A n \in 0..8 : T(n) => T(n + 4)
  <2> SUFFICES ASSUME NEW n \in 0..8, T(n) PROVE T(n + 4)
    OBVIOUS
  <2>1. T(n + 1)
    BY <1>2
  <2>2. T(n + 2)
    BY <1>2, <2>1
  <2>3. T(n + 3)
    BY <1>2, <2>2
  <2> QED
    BY <1>2, <2>3
<1>4. T(4)
  BY <1>1, <1>3
<1>5. T(8)
  BY <1>3, <1>4
<1>6. T(12)
  BY <1>3, <1>5
<1>7. ~\A j \in N : 12 <= j
  <2> PICK j : j \in N
    OBVIOUS
  <2>1. ~(12 <= j)
    OBVIOUS
  <2> QED
    BY <2>1
<1> QED
  BY <1>6, <1>7 DEF T

LEMMA SearchIs ==
  ASSUME NEW v
  PROVE  /\ ParitySearch(v) >= 0 <=> Near(v) # {}
         /\ ParitySearch(v) >= 0 => ParitySearch(v) \in Near(v)
<1>1. Near(v) \subseteq 0..11
  BY DEF Near
<1>2. CASE Near(v) = {}
  BY <1>2 DEF ParitySearch
<1>3. CASE Near(v) # {}
  <2>1. \E i \in Near(v) : \A j \in Near(v) : i <= j
    BY <1>1, <1>3, LeastOf
  <2>2. ParitySearch(v) \in Near(v)
    BY <1>3, <2>1 DEF ParitySearch
  <2> QED
    BY <1>1, <1>3, <2>2
<1> QED
  BY <1>2, <1>3

LEMMA ErrorCases ==
  ASSUME NEW s, NEW t, t = Parity(s), NEW i, i = ParitySearch(s), NEW j, j = ParitySearch(t)
  PROVE  /\ Cardinality(s) <= 3 => ErrorOf(s) = High(s)
         /\ ~(Cardinality(s) <= 3) /\ i >= 0 =>
              ErrorOf(s) = High(SymDiff(s, P[i])) \cup {MessageBit(i)}
         /\ ~(Cardinality(s) <= 3) /\ ~(i >= 0) /\ Cardinality(t) \in {2, 3} => ErrorOf(s) = t
         /\ ~(Cardinality(s) <= 3) /\ ~(i >= 0) /\ ~(Cardinality(t) \in {2, 3}) /\ j >= 0 =>
              ErrorOf(s) = High({MessageBit(j)}) \cup SymDiff(t, P[j])
         /\ ~(Cardinality(s) <= 3) /\ ~(i >= 0) /\ ~(Cardinality(t) \in {2, 3}) /\ ~(j >= 0) =>
              ErrorOf(s) = Unset
<1>1. ErrorOf(s) = IF Cardinality(s) <= 3 THEN High(s)
                   ELSE IF i >= 0 THEN High(SymDiff(s, P[i])) \cup {MessageBit(i)}
                   ELSE IF Cardinality(t) \in {2, 3} THEN t
                   ELSE IF j >= 0 THEN High({MessageBit(j)}) \cup SymDiff(t, P[j])
                   ELSE Unset
  BY Zenon DEF ErrorOf, Parity
<1> DEFINE A == Cardinality(s) <= 3
           B == i >= 0
           C == Cardinality(t) \in {2, 3}
           D == j >= 0
<1>2. ErrorOf(s) = IF A THEN High(s)
                   ELSE IF B THEN High(SymDiff(s, P[i])) \cup {MessageBit(i)}
                   ELSE IF C THEN t
                   ELSE IF D THEN High({MessageBit(j)}) \cup SymDiff(t, P[j])
                   ELSE Unset
  BY <1>1
<1> HIDE DEF A, B, C, D
<1>3. A => ErrorOf(s) = High(s)
  BY <1>2
<1>4. ~A /\ B => ErrorOf(s) = High(SymDiff(s, P[i])) \cup {MessageBit(i)}
  BY <1>2
<1>5. ~A /\ ~B /\ C => ErrorOf(s) = t
  BY <1>2
<1>6. ~A /\ ~B /\ ~C /\ D => ErrorOf(s) = High({MessageBit(j)}) \cup SymDiff(t, P[j])
  BY <1>2
<1>7. ~A /\ ~B /\ ~C /\ ~D => ErrorOf(s) = Unset
  BY <1>2
<1> QED
  BY <1>3, <1>4, <1>5, <1>6, <1>7 DEF A, B, C, D

LEMMA NearIs ==
  ASSUME NEW v, v \subseteq 0..11, NEW i \in Near(v)
  PROVE  /\ i \in 0..11 /\ SymDiff(v, P[i]) \subseteq 0..11
         /\ Cardinality(SymDiff(v, P[i])) \in 0..2
<1>1. i \in 0..11 /\ Cardinality(SymDiff(v, P[i])) <= 2
  BY DEF Near
<1>2. SymDiff(v, P[i]) \subseteq 0..11
  BY <1>1, TablesAssumption DEF SymDiff
<1>3. Cardinality(SymDiff(v, P[i])) \in Nat
  BY <1>2, HalfFinite
<1> QED
  BY <1>1, <1>2, <1>3

LEMMA GuessIs ==
  ASSUME NEW s, s \subseteq 0..11, ErrorOf(s) # Unset
  PROVE  /\ ErrorOf(s) \subseteq 0..23 /\ Syndrome(ErrorOf(s)) = s
         /\ Cardinality(ErrorOf(s)) \in 0..3
<1> PICK e, t, i, j :
      e = ErrorOf(s) /\ t = Parity(s) /\ i = ParitySearch(s) /\ j = ParitySearch(t)
  OBVIOUS
<1>1. t \subseteq 0..11 /\ Parity(t) = s
  BY ParityType, Twice
<1> SUFFICES /\ e \subseteq 0..23 /\ Syndrome(e) = s
             /\ Cardinality(e) \in 0..3
  OBVIOUS
<1>2. /\ Cardinality(s) <= 3 => e = High(s)
      /\ ~(Cardinality(s) <= 3) /\ i >= 0 => e = High(SymDiff(s, P[i])) \cup {MessageBit(i)}
      /\ ~(Cardinality(s) <= 3) /\ ~(i >= 0) /\ Cardinality(t) \in {2, 3} => e = t
      /\ ~(Cardinality(s) <= 3) /\ ~(i >= 0) /\ ~(Cardinality(t) \in {2, 3}) /\ j >= 0 =>
           e = High({MessageBit(j)}) \cup SymDiff(t, P[j])
      /\ ~(Cardinality(s) <= 3) /\ ~(i >= 0) /\ ~(Cardinality(t) \in {2, 3}) /\ ~(j >= 0) =>
           e = Unset
  BY ErrorCases, Zenon
<1>3. ASSUME NEW a, a \subseteq 0..11, NEW b, b \subseteq 0..11, e = High(a) \cup b,
             SymDiff(a, Parity(b)) = s, NEW x \in Nat, NEW y \in Nat, x + y <= 3,
             x = Cardinality(a), y = Cardinality(b)
      PROVE  e \subseteq 0..23 /\ Syndrome(e) = s /\ Cardinality(e) \in 0..3
  <2>1. x + y \in 0..3
    BY <1>3
  <2>2. e \subseteq 0..23 /\ Cardinality(e) = Cardinality(a) + Cardinality(b)
    BY <1>3, SizeByHalves
  <2>3. Syndrome(e) = s
    BY <1>3, SyndromeHalves
  <2> QED
    BY <1>3, <2>1, <2>2, <2>3
<1>4. Cardinality({}) = 0 /\ \A x : Cardinality({x}) = 1
  BY FS_EmptySet, FS_Singleton, Zenon
<1>5. CASE Cardinality(s) <= 3
  <2>1. e = High(s) \cup {}
    BY <1>2, <1>5
  <2>2. SymDiff(s, Parity({})) = s
    BY ParityNone DEF SymDiff
  <2> PICK x \in Nat : x = Cardinality(s)
    BY HalfFinite
  <2>3. x + 0 <= 3 /\ 0 \in Nat
    BY <1>5
  <2>4. Cardinality({}) = 0 /\ {} \subseteq 0..11
    BY <1>4
  <2> QED
    BY <1>3, <2>1, <2>2, <2>3, <2>4
<1>6. CASE ~(Cardinality(s) <= 3) /\ i >= 0
  <2>1. i \in Near(s)
    BY <1>6, SearchIs
  <2>2. /\ i \in 0..11 /\ SymDiff(s, P[i]) \subseteq 0..11
        /\ Cardinality(SymDiff(s, P[i])) \in 0..2
    BY <2>1, NearIs
  <2>3. e = High(SymDiff(s, P[i])) \cup {11 - i} /\ {11 - i} \subseteq 0..11
    BY <1>2, <1>6, <2>2 DEF MessageBit
  <2>4. Parity({11 - i}) = P[i]
    BY <2>2, ParityColumn
  <2>5. SymDiff(SymDiff(s, P[i]), P[i]) = s
    BY DEF SymDiff
  <2>6. SymDiff(SymDiff(s, P[i]), Parity({11 - i})) = s
    BY <2>4, <2>5, Zenon
  <2> PICK x \in 0..2 : x = Cardinality(SymDiff(s, P[i]))
    BY <2>2
  <2>7. x \in Nat /\ 1 \in Nat /\ x + 1 <= 3
    OBVIOUS
  <2>8. Cardinality({11 - i}) = 1
    BY <1>4, Zenon
  <2> QED
    BY <1>3, <2>2, <2>3, <2>6, <2>7, <2>8
<1>7. CASE ~(Cardinality(s) <= 3) /\ ~(i >= 0) /\ Cardinality(t) \in {2, 3}
  <2>1. e = High({}) \cup t
    BY <1>2, <1>7 DEF High
  <2>2. SymDiff({}, Parity(t)) = s
    BY <1>1 DEF SymDiff
  <2> PICK y \in Nat : y = Cardinality(t)
    BY <1>1, HalfFinite
  <2>3. 0 + y <= 3 /\ 0 \in Nat
    BY <1>7
  <2>4. Cardinality({}) = 0 /\ {} \subseteq 0..11
    BY <1>4
  <2> QED
    BY <1>1, <1>3, <2>1, <2>2, <2>3, <2>4
<1>8. CASE /\ ~(Cardinality(s) <= 3) /\ ~(i >= 0) /\ ~(Cardinality(t) \in {2, 3})
           /\ j >= 0
  <2>1. j \in Near(t)
    BY <1>8, SearchIs
  <2>2. /\ j \in 0..11 /\ SymDiff(t, P[j]) \subseteq 0..11
        /\ Cardinality(SymDiff(t, P[j])) \in 0..2
    BY <1>1, <2>1, NearIs
  <2>3. e = High({11 - j}) \cup SymDiff(t, P[j]) /\ {11 - j} \subseteq 0..11
    BY <1>2, <1>8, <2>2 DEF MessageBit
  <2>4. Parity(SymDiff(t, P[j])) = SymDiff(s, {11 - j})
    <3>1. P[j] \subseteq 0..11
      BY <2>2, TablesAssumption
    <3>2. Parity(SymDiff(t, P[j])) = SymDiff(Parity(t), Parity(P[j]))
      BY <1>1, <3>1, ParitySum, Zenon
    <3>3. Parity(P[j]) = {11 - j}
      BY <2>2, ParityOfRow
    <3> QED
      BY <1>1, <3>2, <3>3, Zenon
  <2>5. SymDiff({11 - j}, SymDiff(s, {11 - j})) = s
    BY DEF SymDiff
  <2>6. SymDiff({11 - j}, Parity(SymDiff(t, P[j]))) = s
    BY <2>4, <2>5, Zenon
  <2> PICK y \in 0..2 : y = Cardinality(SymDiff(t, P[j]))
    BY <2>2
  <2>7. y \in Nat /\ 1 \in Nat /\ 1 + y <= 3
    OBVIOUS
  <2>8. Cardinality({11 - j}) = 1
    BY <1>4, Zenon
  <2> QED
    BY <1>3, <2>2, <2>3, <2>6, <2>7, <2>8
<1>9. ~(Cardinality(s) <= 3) /\ ~(i >= 0) /\ ~(Cardinality(t) \in {2, 3}) => j >= 0
  BY <1>2
<1> QED
  BY <1>5, <1>6, <1>7, <1>8, <1>9, Zenon

LEMMA GuessFound ==
  ASSUME NEW e, e \subseteq 0..23, Cardinality(e) <= 3
  PROVE  ErrorOf(Syndrome(e)) # Unset
<1> PICK a, b : a = HighHalf(e) /\ b = e \cap 0..11
  OBVIOUS
<1>1. a \subseteq 0..11 /\ b \subseteq 0..11 /\ e = High(a) \cup b
  BY ByHalves DEF HighHalf
<1> PICK m \in Nat, n \in Nat : m = Cardinality(a) /\ n = Cardinality(b)
  BY <1>1, HalfFinite
<1>2. m + n <= 3
  BY <1>1, SizeByHalves
<1> PICK s, t, i, j :
      s = Syndrome(e) /\ t = Parity(s) /\ i = ParitySearch(s) /\ j = ParitySearch(t)
  OBVIOUS
<1>3. s = SymDiff(a, Parity(b))
  BY <1>1, SyndromeHalves
<1>4. t = SymDiff(Parity(a), b)
  <2>1. Parity(b) \subseteq 0..11
    BY ParityType
  <2>2. Parity(SymDiff(a, Parity(b))) = SymDiff(Parity(a), Parity(Parity(b)))
    BY <1>1, <2>1, ParitySum, Zenon
  <2>3. Parity(Parity(b)) = b
    BY <1>1, Twice
  <2> QED
    BY <1>3, <2>2, <2>3, Zenon
<1>5. /\ Cardinality(s) <= 3 => ErrorOf(s) = High(s)
      /\ ~(Cardinality(s) <= 3) /\ i >= 0 =>
           ErrorOf(s) = High(SymDiff(s, P[i])) \cup {MessageBit(i)}
      /\ ~(Cardinality(s) <= 3) /\ ~(i >= 0) /\ Cardinality(t) \in {2, 3} => ErrorOf(s) = t
      /\ ~(Cardinality(s) <= 3) /\ ~(i >= 0) /\ ~(Cardinality(t) \in {2, 3}) /\ j >= 0 =>
           ErrorOf(s) = High({MessageBit(j)}) \cup SymDiff(t, P[j])
  BY ErrorCases, Zenon
<1>6. s \subseteq 0..11 /\ t \subseteq 0..11
  BY <1>1, <1>3, <1>4, ParityType DEF SymDiff
<1>7. ASSUME NEW c \in 0..11, NEW x, x \subseteq 0..11, Cardinality(x) <= 2, NEW v,
             v = SymDiff(x, P[11 - c])
      PROVE  ParitySearch(v) >= 0
  <2>1. SymDiff(v, P[11 - c]) = x
    BY <1>7 DEF SymDiff
  <2>2. 11 - c \in 0..11
    OBVIOUS
  <2>3. 11 - c \in Near(v)
    BY <1>7, <2>1, <2>2 DEF Near
  <2> QED
    BY <2>3, SearchIs
<1>8. ASSUME NEW c \in 0..11 PROVE Parity({c}) = P[11 - c]
  <2>1. 11 - c \in 0..11 /\ 11 - (11 - c) = c
    OBVIOUS
  <2> QED
    BY <2>1, ParityColumn
<1>9. Cardinality(s) <= 3 \/ i >= 0 \/ Cardinality(t) \in {2, 3} \/ j >= 0
  <2>1. CASE n = 0
    <3>1. b = {}
      BY <1>1, <2>1, HalfFinite, FS_EmptySet
    <3>2. s = a
      BY <1>3, <3>1, ParityNone DEF SymDiff
    <3> QED
      BY <1>2, <2>1, <3>2
  <2>2. CASE n = 1
    <3> PICK c : b = {c}
      BY <1>1, <2>2, HalfFinite, FS_Singleton
    <3>1. c \in 0..11
      BY <1>1
    <3>2. s = SymDiff(a, P[11 - c])
      BY <1>3, <1>8, <3>1, Zenon
    <3>3. Cardinality(a) <= 2
      BY <1>2, <2>2
    <3>4. i >= 0
      BY <1>1, <1>7, <3>1, <3>2, <3>3
    <3> QED
      BY <3>4, Zenon
  <2>3. CASE n >= 2 /\ m = 0
    <3>1. a = {}
      BY <1>1, <2>3, HalfFinite, FS_EmptySet
    <3>2. t = b
      BY <1>4, <3>1, ParityNone DEF SymDiff
    <3> QED
      BY <1>2, <2>3, <3>2
  <2>4. CASE n >= 2 /\ m = 1
    <3> PICK c : a = {c}
      BY <1>1, <2>4, HalfFinite, FS_Singleton
    <3>1. c \in 0..11
      BY <1>1
    <3>2. t = SymDiff(b, P[11 - c])
      <4>1. t = SymDiff(P[11 - c], b)
        BY <1>4, <1>8, <3>1, Zenon
      <4> QED
        BY <4>1 DEF SymDiff
    <3>3. Cardinality(b) <= 2
      BY <1>2, <2>4
    <3>4. j >= 0
      BY <1>1, <1>7, <3>1, <3>2, <3>3
    <3> QED
      BY <3>4, Zenon
  <2>5. n = 0 \/ n = 1 \/ (n >= 2 /\ m = 0) \/ (n >= 2 /\ m = 1)
    BY <1>2
  <2> QED
    BY <2>1, <2>2, <2>3, <2>4, <2>5, Zenon
<1>10. ASSUME NEW x, x \subseteq 0..11, NEW y, y \subseteq 0..11, ErrorOf(s) = High(x) \cup y
       PROVE  ErrorOf(s) # Unset
  <2>1. ErrorOf(s) \subseteq 0..23
    BY <1>10, SizeByHalves
  <2> QED
    BY <2>1, UnsetAssumption
<1>11. CASE Cardinality(s) <= 3
  <2>1. ErrorOf(s) = High(s) \cup {}
    BY <1>5, <1>11
  <2> QED
    BY <1>6, <1>10, <2>1
<1>12. CASE ~(Cardinality(s) <= 3) /\ i >= 0
  <2>1. i \in Near(s)
    BY <1>12, SearchIs
  <2>2. i \in 0..11 /\ SymDiff(s, P[i]) \subseteq 0..11
    BY <1>6, <2>1, NearIs
  <2>3. {MessageBit(i)} \subseteq 0..11
    BY <2>2 DEF MessageBit
  <2>4. ErrorOf(s) = High(SymDiff(s, P[i])) \cup {MessageBit(i)}
    BY <1>5, <1>12, Zenon
  <2> QED
    BY <1>10, <2>2, <2>3, <2>4
<1>13. CASE ~(Cardinality(s) <= 3) /\ ~(i >= 0) /\ Cardinality(t) \in {2, 3}
  <2>1. ErrorOf(s) = High({}) \cup t
    BY <1>5, <1>13 DEF High
  <2> QED
    BY <1>6, <1>10, <2>1
<1>14. CASE /\ ~(Cardinality(s) <= 3) /\ ~(i >= 0) /\ ~(Cardinality(t) \in {2, 3})
            /\ j >= 0
  <2>1. j \in Near(t)
    BY <1>14, SearchIs
  <2>2. j \in 0..11 /\ SymDiff(t, P[j]) \subseteq 0..11
    BY <1>6, <2>1, NearIs
  <2>3. {MessageBit(j)} \subseteq 0..11
    BY <2>2 DEF MessageBit
  <2>4. ErrorOf(s) = High({MessageBit(j)}) \cup SymDiff(t, P[j])
    BY <1>5, <1>14, Zenon
  <2> QED
    BY <1>10, <2>2, <2>3, <2>4
<1> QED
  BY <1>9, <1>11, <1>12, <1>13, <1>14, Zenon

LEMMA IsCodeword ==
  ASSUME NEW c, c \subseteq 0..23, Syndrome(c) = {}
  PROVE  c = EncodeSymbol(c \cap 0..11)
<1> PICK a, b : a = HighHalf(c) /\ b = c \cap 0..11
  OBVIOUS
<1>1. a \subseteq 0..11 /\ b \subseteq 0..11 /\ c = High(a) \cup b
  BY ByHalves DEF HighHalf
<1>2. SymDiff(a, Parity(b)) = {}
  BY <1>1, SyndromeHalves
<1>3. a = Parity(b)
  BY <1>2 DEF SymDiff
<1>4. EncodeSymbol(b) = High(Parity(b)) \cup b
  BY <1>1, EncodeHalves
<1> QED
  BY <1>1, <1>3, <1>4, Zenon

\* The encodings of two symbols differ in eight bits at least, the distance that
\* makes golay_decode12 correct three wrong bits and detect four.
THEOREM MinDistance ==
  ASSUME NEW m, m \subseteq 0..11, NEW n, n \subseteq 0..11, m # n
  PROVE  Cardinality(SymDiff(EncodeSymbol(m), EncodeSymbol(n))) >= 8
<1> PICK d : d = SymDiff(m, n)
  OBVIOUS
<1>1. d \subseteq 0..11 /\ d # {}
  BY DEF SymDiff
<1>2. IsFiniteSet(m) /\ IsFiniteSet(n)
  BY HalfFinite
<1>3. EncodeSymbol(d) = SymDiff(EncodeSymbol(m), EncodeSymbol(n))
  BY <1>2, MatrixMulLinear DEF EncodeSymbol
<1>4. EncodeSymbol(d) = High(Parity(d)) \cup d
  BY <1>1, EncodeHalves
<1>5. Cardinality(High(Parity(d)) \cup d) = Cardinality(Parity(d)) + Cardinality(d)
  BY <1>1, ParityType, SizeByHalves
<1>6. Cardinality(d) + Cardinality(Parity(d)) >= 8
  BY <1>1, MinWeight DEF Weight
<1>7. Cardinality(d) \in Nat /\ Cardinality(Parity(d)) \in Nat
  BY <1>1, ParityType, HalfFinite
<1>8. Cardinality(EncodeSymbol(d)) >= 8
  BY <1>4, <1>5, <1>6, <1>7
<1> QED
  BY <1>3, <1>8, Zenon

\* What decoding gives for the codeword of m with the bits of f flipped, r.
Decoded(m, f, r, d) ==
  \/ d.res = -1 /\ d.out = Unset /\ ~(Cardinality(f) <= 3)
  \/ /\ d.res \in 0..3 /\ d.out \subseteq 0..11
     /\ Cardinality(SymDiff(r, EncodeSymbol(d.out))) = d.res
     /\ Cardinality(f) + d.res <= 7 => d.res = Cardinality(f) /\ d.out = m

LEMMA DecodeIs ==
  ASSUME NEW m, m \subseteq 0..11, NEW f, f \subseteq 0..23,
         NEW r, r = SymDiff(EncodeSymbol(m), f), NEW d, d = DecodeSymbol(r)
  PROVE  Decoded(m, f, r, d)
<1> PICK s, e : s = Syndrome(f) /\ e = ErrorOf(s)
  OBVIOUS
<1>1. s \subseteq 0..11 /\ Syndrome(r) = s /\ r \subseteq 0..23
  <2>1. s \subseteq 0..11
    BY DEF Syndrome, MatrixMul
  <2>2. r \subseteq 0..23
    BY EncodeType DEF SymDiff
  <2> QED
    BY <2>1, <2>2, SyndromeOfError
<1>2. CASE e = Unset
  <2>1. d = [res |-> -1, out |-> Unset]
    BY <1>1, <1>2 DEF DecodeSymbol
  <2>2. ~(Cardinality(f) <= 3)
    BY <1>2, GuessFound
  <2> QED
    BY <2>1, <2>2 DEF Decoded
<1>3. CASE e # Unset
  <2> PICK c, o : c = SymDiff(r, e) /\ o = c \cap 0..11
    OBVIOUS
  <2>1. d = [res |-> Cardinality(e), out |-> o]
    BY <1>1, <1>3 DEF DecodeSymbol
  <2>2. e \subseteq 0..23 /\ Syndrome(e) = s /\ Cardinality(e) \in 0..3
    BY <1>1, <1>3, GuessIs
  <2>3. c \subseteq 0..23 /\ SymDiff(r, c) = e
    BY <1>1, <2>2 DEF SymDiff
  <2>4. Syndrome(c) = {}
    <3>1. IsFiniteSet(r) /\ IsFiniteSet(e)
      BY <1>1, <2>2, WordFinite
    <3>2. Syndrome(c) = SymDiff(Syndrome(r), Syndrome(e))
      BY <3>1, MatrixMulLinear DEF Syndrome
    <3> QED
      BY <1>1, <2>2, <3>2 DEF SymDiff
  <2>5. c = EncodeSymbol(o)
    BY <2>3, <2>4, IsCodeword
  <2>6. Cardinality(SymDiff(r, EncodeSymbol(o))) = Cardinality(e)
    BY <2>3, <2>5, Zenon
  <2>7. ASSUME Cardinality(f) + Cardinality(e) <= 7
        PROVE  Cardinality(e) = Cardinality(f) /\ o = m
    <3>1. Cardinality(e) \in Nat /\ Cardinality(f) \in Nat
      BY <2>2, WordFinite, FS_CardinalityType
    <3>2. e = f
      BY <2>2, <2>7, SameSyndrome
    <3>3. c = EncodeSymbol(m)
      BY <3>2 DEF SymDiff
    <3>4. o = m
      BY <3>3, EncodeLow
    <3> QED
      BY <3>2, <3>4, Zenon
  <2>8. d.res = Cardinality(e) /\ d.out = o
    BY <2>1
  <2>9. o \subseteq 0..11
    OBVIOUS
  <2> QED
    BY <2>2, <2>6, <2>7, <2>8, <2>9, Zenon DEF Decoded
<1> QED
  BY <1>2, <1>3

(***************************************************************************)
(* The three bytes hold the codeword with the flipped bits.                *)
(***************************************************************************)
LEMMA BytesBack == ASSUME NEW w, w \subseteq 0..23 PROVE FromBytes(ToBytes(w)) = w
<1>1. \A i \in 0..23 : i \div 8 \in 0..2 /\ i % 8 \in 0..7 /\ 8 * (i \div 8) + (i % 8) = i
  OBVIOUS
<1> QED
  BY <1>1 DEF FromBytes, ToBytes

LEMMA FlipBytes ==
  ASSUME NEW w, w \subseteq 0..23, NEW i \in 0..23
  PROVE  [ToBytes(w) EXCEPT ![i \div 8] = SymDiff(@, {i % 8})] = ToBytes(SymDiff(w, {i}))
<1> DEFINE q == i \div 8
           r == i % 8
<1>1. q \in 0..2 /\ r \in 0..7 /\ i = 8 * q + r
  OBVIOUS
<1> HIDE DEF q, r
<1>2. \A k \in 0..2, j \in 0..7 : 8 * k + j = i <=> k = q /\ j = r
  BY <1>1
<1>3. \A k \in 0..2 : ToBytes(SymDiff(w, {i}))[k] =
                        IF k = q THEN SymDiff(ToBytes(w)[k], {r}) ELSE ToBytes(w)[k]
  BY <1>1, <1>2 DEF ToBytes, SymDiff
<1>4. [ToBytes(w) EXCEPT ![q] = SymDiff(@, {r})] = ToBytes(SymDiff(w, {i}))
  BY <1>1, <1>3 DEF ToBytes
<1> QED
  BY <1>4 DEF q, r

Carried ==
  /\ sym \subseteq 0..11
  /\ flips \subseteq 0..23
  /\ stage = "idle" => flips = {}
  /\ stage # "idle" => bytes = ToBytes(SymDiff(EncodeSymbol(sym), flips))

LEMMA InitInv == Init => Carried /\ ErrorDecides
BY DEF Init, Carried, ErrorDecides

LEMMA NextInv == Carried /\ ErrorDecides /\ [Next]_vars => Carried' /\ ErrorDecides'
<1> SUFFICES ASSUME Carried, ErrorDecides, [Next]_vars PROVE Carried' /\ ErrorDecides'
  OBVIOUS
<1>1. ASSUME NEW m \in Symbols, Encode(m) PROVE Carried' /\ ErrorDecides'
  <2>1. m \subseteq 0..11
    BY SymbolsAssumption
  <2>2. SymDiff(EncodeSymbol(m), {}) = EncodeSymbol(m)
    BY DEF SymDiff
  <2> QED
    BY <1>1, <2>1, <2>2 DEF Encode, Carried, ErrorDecides
<1>2. ASSUME NEW i \in 0..23, Flip(i) PROVE Carried' /\ ErrorDecides'
  <2>1. i \in 0..23 /\ i \notin flips
    BY <1>2 DEF Flip, Carried
  <2> DEFINE w == SymDiff(EncodeSymbol(sym), flips)
  <2>2. w \subseteq 0..23
    BY EncodeType DEF Carried, SymDiff
  <2>3. SymDiff(w, {i}) = SymDiff(EncodeSymbol(sym), flips \cup {i})
    BY <2>1 DEF SymDiff
  <2>4. bytes' = ToBytes(SymDiff(w, {i}))
    BY <1>2, <2>1, <2>2, FlipBytes DEF Flip, Carried
  <2> QED
    BY <1>2, <2>1, <2>3, <2>4 DEF Flip, Carried, ErrorDecides
<1>3. ASSUME Decode PROVE Carried' /\ ErrorDecides'
  <2> DEFINE w == SymDiff(EncodeSymbol(sym), flips)
  <2>1. w \subseteq 0..23
    BY EncodeType DEF Carried, SymDiff
  <2>2. FromBytes(bytes) = w
    BY <1>3, <2>1, BytesBack DEF Decode, Carried
  <2>3. res' = DecodeSymbol(w).res /\ out' = DecodeSymbol(w).out
    BY <1>3, <2>2 DEF Decode
  <2>4. sym' = sym /\ flips' = flips /\ Carried'
    BY <1>3 DEF Decode, Carried
  <2>5. ErrorDecides'
    BY <2>3, <2>4, Translation DEF ErrorDecides, Carried
  <2> QED
    BY <2>4, <2>5
<1>4. CASE UNCHANGED vars
  BY <1>4 DEF vars, Carried, ErrorDecides
<1> QED
  BY <1>1, <1>2, <1>3, <1>4 DEF Next

\* Whatever symbol is sent and whatever bits are flipped, golay_decode12 returns
\* what the error alone makes it return.
THEOREM ErrorDecidesAlways == Spec => []ErrorDecides
BY InitInv, NextInv, PTL DEF Spec

(***************************************************************************)
(* What golay_decode12 promises of every symbol and every error.  Carried  *)
(* makes the word decoded the codeword with the flipped bits, whatever     *)
(* steps led to it, and DecodeIs speaks of such words.                     *)
(***************************************************************************)
Promises == TypeOK /\ Corrects /\ DetectsFour /\ Honest

LEMMA BytesType == \A w : ToBytes(w) \in [0..2 -> SUBSET (0..7)]
BY DEF ToBytes

LEMMA DecodeKeeps == ASSUME Carried, TypeOK, Decode PROVE Promises'
<1> PICK r, d : r = SymDiff(EncodeSymbol(sym), flips) /\ d = DecodeSymbol(r)
  OBVIOUS
<1>1. stage = "air" /\ sym \subseteq 0..11 /\ flips \subseteq 0..23
  BY DEF Decode, TypeOK
<1>2. r \subseteq 0..23
  BY <1>1, EncodeType DEF SymDiff
<1>3. FromBytes(bytes) = r
  BY <1>1, <1>2, BytesBack DEF Carried
<1>4. /\ res' = d.res /\ out' = d.out /\ stage' = "decoded"
      /\ sym' = sym /\ bytes' = bytes /\ flips' = flips
  BY <1>3 DEF Decode
<1>5. \/ d.res = -1 /\ d.out = Unset /\ ~(Cardinality(flips) <= 3)
      \/ /\ d.res \in 0..3 /\ d.out \subseteq 0..11
         /\ Cardinality(SymDiff(r, EncodeSymbol(d.out))) = d.res
         /\ Cardinality(flips) + d.res <= 7 => d.res = Cardinality(flips) /\ d.out = sym
  <2>1. Decoded(sym, flips, r, d)
    BY <1>1, DecodeIs
  <2> QED
    BY <2>1, Zenon DEF Decoded
<1> PICK n \in Nat : n = Cardinality(flips)
  BY <1>1, WordFinite, FS_CardinalityType
<1>6. TypeOK'
  <2>1. res' \in -1..24
    BY <1>4, <1>5
  <2>2. out' \in (SUBSET (0..11)) \cup {Unset}
    BY <1>4, <1>5
  <2> QED
    BY <1>4, <2>1, <2>2 DEF TypeOK
<1>7. Corrects'
  <2> SUFFICES ASSUME n <= 3 PROVE d.res = n /\ d.out = sym
    BY <1>4 DEF Corrects
  <2>1. d.res \in 0..3 /\ (n + d.res <= 7 => d.res = n /\ d.out = sym)
    BY <1>5
  <2> QED
    BY <2>1
<1>8. DetectsFour'
  <2> SUFFICES ASSUME n = 4, d.res # -1 PROVE FALSE
    BY <1>4 DEF DetectsFour
  <2>1. d.res \in 0..3 /\ (n + d.res <= 7 => d.res = n)
    BY <1>5
  <2> QED
    BY <2>1
<1>9. Honest'
  <2> SUFFICES ASSUME d.res >= 0
               PROVE  d.res <= 3 /\ Cardinality(SymDiff(r, EncodeSymbol(d.out))) = d.res
    <3>1. FromBytes(bytes)' = r
      BY <1>3, <1>4 DEF FromBytes
    <3>2. EncodeSymbol(out)' = EncodeSymbol(d.out)
      BY <1>4 DEF EncodeSymbol, MatrixMul
    <3> QED
      BY <1>4, <3>1, <3>2 DEF Honest
  <2>1. d.res # -1
    OBVIOUS
  <2> QED
    BY <1>5, <2>1
<1> QED
  BY <1>6, <1>7, <1>8, <1>9 DEF Promises

LEMMA InitPromises == Init => Promises
<1> SUFFICES ASSUME Init PROVE Promises
  OBVIOUS
<1>1. TypeOK
  BY BytesType DEF Init, TypeOK
<1> QED
  BY <1>1 DEF Init, Promises, Corrects, DetectsFour, Honest

LEMMA NextPromises == Carried /\ Promises /\ [Next]_vars => Promises'
<1> SUFFICES ASSUME Carried, Promises, [Next]_vars PROVE Promises'
  OBVIOUS
<1>1. ASSUME stage' # "decoded", TypeOK' PROVE Promises'
  BY <1>1 DEF Promises, Corrects, DetectsFour, Honest
<1>2. ASSUME NEW m \in Symbols, Encode(m) PROVE Promises'
  <2>1. m \in SUBSET (0..11) /\ ToBytes(EncodeSymbol(m)) \in [0..2 -> SUBSET (0..7)]
    BY SymbolsAssumption, BytesType
  <2>2. TypeOK' /\ stage' # "decoded"
    BY <1>2, <2>1 DEF Encode, Promises, TypeOK
  <2> QED
    BY <1>1, <2>2
<1>3. ASSUME NEW i \in 0..23, Flip(i) PROVE Promises'
  <2>1. i \div 8 \in 0..2 /\ i % 8 \in 0..7
    OBVIOUS
  <2>2. bytes' = [bytes EXCEPT ![i \div 8] = SymDiff(@, {i % 8})]
    BY <1>3 DEF Flip
  <2>3. bytes \in [0..2 -> SUBSET (0..7)]
    BY DEF Promises, TypeOK
  <2>4. SymDiff(bytes[i \div 8], {i % 8}) \in SUBSET (0..7)
    BY <2>1, <2>3 DEF SymDiff
  <2>5. bytes' \in [0..2 -> SUBSET (0..7)]
    BY <2>1, <2>2, <2>3, <2>4
  <2>6. TypeOK' /\ stage' # "decoded"
    BY <1>3, <2>5 DEF Flip, Promises, TypeOK
  <2> QED
    BY <1>1, <2>6
<1>4. ASSUME Decode PROVE Promises'
  BY <1>4, DecodeKeeps DEF Promises
<1>5. CASE UNCHANGED vars
  <2>1. stage' = stage /\ sym' = sym /\ bytes' = bytes /\ flips' = flips /\ res' = res /\ out' = out
    BY <1>5 DEF vars
  <2>2. TypeOK' /\ Corrects' /\ DetectsFour'
    BY <2>1 DEF Promises, TypeOK, Corrects, DetectsFour
  <2>3. Honest'
    BY <2>1 DEF Promises, Honest, FromBytes, EncodeSymbol, MatrixMul
  <2> QED
    BY <2>2, <2>3 DEF Promises
<1> QED
  BY <1>2, <1>3, <1>4, <1>5 DEF Next

LEMMA PromisesKept == Spec => []Promises
<1>1. Init => Carried /\ ErrorDecides /\ Promises
  BY InitInv, InitPromises
<1>2. Carried /\ ErrorDecides /\ Promises /\ [Next]_vars => (Carried /\ ErrorDecides /\ Promises)'
  BY NextInv, NextPromises
<1> QED
  BY <1>1, <1>2, PTL DEF Spec

\* The state has the types of the code, for every symbol and every damage.
THEOREM TypeCorrect == Spec => []TypeOK
BY PromisesKept, PTL DEF Promises

\* golay_decode12 undoes any three flipped bits of the 24, for every symbol, and
\* returns how many they were.
THEOREM CorrectsAlways == Spec => []Corrects
BY PromisesKept, PTL DEF Promises

\* golay_decode12 returns -1 for any four flipped bits of the 24, for every symbol.
THEOREM DetectsFourAlways == Spec => []DetectsFour
BY PromisesKept, PTL DEF Promises

\* However many bits are flipped, what golay_decode12 returns is the number of
\* bits between the word it was given and the encoding of the symbol it found.
THEOREM HonestAlways == Spec => []Honest
BY PromisesKept, PTL DEF Promises
=============================================================================
