--------------------------- MODULE Blake2KindProofs ---------------------------
(***************************************************************************)
(* What holds of the contexts that are made of others between their calls, *)
(* and in a call after each of its steps: the trees BLAKE2sp and BLAKE2bp, *)
(* whichever leaf's thread goes on, and the outputs BLAKE2Xs and BLAKE2Xb, *)
(* for any number of leaves, blocks, digests and outputs of any length and *)
(* bytes of any kind.  Blake2Proofs puts them together.                    *)
(***************************************************************************)
EXTENDS Blake2Tree, Blake2x, Blake2NodeProofs

\* What Blake2Assumption says of this constant.
TreeOK == Degree \in Nat \ {0}

(***************************************************************************)
(* The blocks of a leaf.                                                   *)
(***************************************************************************)
\* How many bytes are before a leaf's block, and in it, of L bytes.
Before(i) == i * BlockBytes
Some(L, i) ==
  IF L <= Before(i) THEN 0 ELSE IF L < Before(i) + BlockBytes THEN L - Before(i) ELSE BlockBytes

\* More of a factor is more of a product.
LEMMA TimesMore ==
  ASSUME NEW a \in Nat, NEW b \in Nat, NEW c \in Nat, a <= b
  PROVE  a * c \in Nat /\ b * c \in Nat /\ a * c <= b * c /\ (a + 1) * c = a * c + c
<1>1. PICK d \in Nat : b = a + d
  <2>1. b - a \in Nat /\ b = a + (b - a)
    OBVIOUS
  <2> QED
    BY <2>1
<1>2. b * c = a * c + d * c /\ d * c \in Nat /\ a * c \in Nat
  BY <1>1
<1> DEFINE x == a * c
           y == d * c
           z == b * c
<1>3. z = x + y /\ x \in Nat /\ y \in Nat
  BY <1>2
<1>4. (a + 1) * c = x + c
  OBVIOUS
<1> HIDE DEF x, y, z
<1>5. z \in Nat /\ x <= z
  BY <1>3
<1> QED
  BY <1>3, <1>4, <1>5 DEF x, z

\* The sizes.
LEMMA WideFacts ==
  ASSUME TreeOK
  PROVE  /\ BlockBytes \in Nat \ {0} /\ OutBytes \in Nat \ {0} /\ Wide \in Nat \ {0}
         /\ BlockBytes <= Wide
<1>1. BlockBytes \in Nat \ {0} /\ OutBytes \in Nat \ {0} /\ Degree \in Nat \ {0}
  BY Blake2NodeAssumption DEF TreeOK
<1> DEFINE a == 1
<1>2. a \in Nat /\ a <= Degree
  BY <1>1
<1> HIDE DEF a
<1>3. Degree * BlockBytes \in Nat /\ a * BlockBytes <= Degree * BlockBytes
  BY <1>1, <1>2, TimesMore
<1> DEFINE w == Degree * BlockBytes
           v == a * BlockBytes
<1>4. v = BlockBytes
  BY <1>1 DEF a
<1>5. w \in Nat /\ v <= w
  BY <1>3
<1> HIDE DEF w, v
<1>6. w \in Nat \ {0} /\ BlockBytes <= w
  BY <1>1, <1>4, <1>5
<1> QED
  BY <1>1, <1>6 DEF Wide, w

\* The blocks of all leaves are in what is given to them at once.
LEMMA BeforeFacts ==
  ASSUME TreeOK, NEW i \in Leaves
  PROVE  /\ i \in Nat /\ Before(i) \in Nat /\ Before(i) + BlockBytes <= Wide
         /\ (i + 1) * BlockBytes = Before(i) + BlockBytes
<1>1. BlockBytes \in Nat /\ Degree \in Nat \ {0}
  BY WideFacts DEF TreeOK
<1>2. i \in Nat /\ i + 1 \in Nat /\ i + 1 <= Degree /\ i <= i + 1
  BY <1>1 DEF Leaves
<1>3. i * BlockBytes \in Nat /\ (i + 1) * BlockBytes = i * BlockBytes + BlockBytes
  BY <1>1, <1>2, TimesMore
<1>4. (i + 1) * BlockBytes <= Degree * BlockBytes
  BY <1>1, <1>2, TimesMore
<1> QED
  BY <1>2, <1>3, <1>4 DEF Before, Wide

\* A leaf's part of so many bytes.
LEMMA SomeFacts ==
  ASSUME TreeOK, NEW i \in Leaves, NEW L \in Nat
  PROVE  /\ Some(L, i) \in 0..BlockBytes
         /\ \A t \in 1..BlockBytes : t <= Some(L, i) <=> Before(i) + t <= L
         /\ (Wide <= L => Some(L, i) = BlockBytes)
<1>1. BlockBytes \in Nat \ {0} /\ Before(i) \in Nat /\ Before(i) + BlockBytes <= Wide /\ Wide \in Nat
  BY WideFacts, BeforeFacts
<1> QED
  BY <1>1 DEF Some

\* Where the p-th byte of a leaf is in the message.
At(p, i) == ((p - 1) \div BlockBytes) * Wide + Before(i) + ((p - 1) % BlockBytes) + 1

\* In its q-th block it is as far as in what was given at once.
LEMMA AtFacts ==
  ASSUME TreeOK, NEW i \in Leaves, NEW q \in Nat, NEW t \in 1..BlockBytes,
         NEW p, p = q * BlockBytes + t
  PROVE  /\ At(p, i) = q * Wide + (Before(i) + t) /\ q * Wide \in Nat
         /\ p \in Nat \ {0} /\ p <= At(p, i)
<1>1. /\ BlockBytes \in Nat \ {0} /\ Wide \in Nat \ {0} /\ BlockBytes <= Wide
      /\ Before(i) \in Nat
  BY WideFacts, BeforeFacts
<1>2. q * BlockBytes \in Nat /\ q * Wide \in Nat /\ q * BlockBytes <= q * Wide
      /\ BlockBytes * q = q * BlockBytes
  <2>1. BlockBytes * q <= Wide * q /\ BlockBytes * q \in Nat /\ Wide * q \in Nat
    BY <1>1, TimesMore
  <2>2. BlockBytes * q = q * BlockBytes /\ Wide * q = q * Wide
    BY <1>1
  <2> QED
    BY <2>1, <2>2
<1>3. p - 1 = BlockBytes * q + (t - 1) /\ t - 1 \in 0..(BlockBytes - 1)
  BY <1>1, <1>2
<1>4. (BlockBytes * q + (t - 1)) \div BlockBytes = q /\ (BlockBytes * q + (t - 1)) % BlockBytes = t - 1
  BY <1>1, <1>3, DivModUnique
<1>5. (p - 1) \div BlockBytes = q /\ (p - 1) % BlockBytes = t - 1
  BY <1>3, <1>4, Zenon
<1>6. At(p, i) = q * Wide + Before(i) + (t - 1) + 1
  BY <1>5, Zenon DEF At
<1> DEFINE x == q * BlockBytes
           y == q * Wide
<1>7. x \in Nat /\ y \in Nat /\ x <= y /\ p = x + t /\ At(p, i) = y + Before(i) + (t - 1) + 1
  BY <1>2, <1>6
<1> HIDE DEF x, y
<1>8. At(p, i) = y + (Before(i) + t) /\ p \in Nat \ {0} /\ p <= At(p, i)
  BY <1>1, <1>7
<1> QED
  BY <1>7, <1>8 DEF y

\* The place of a byte in a leaf's blocks.
LEMMA InBlock ==
  ASSUME TreeOK, NEW p \in Nat \ {0}
  PROVE  \E q \in Nat, t \in 1..BlockBytes : p = q * BlockBytes + t
<1> DEFINE q == (p - 1) \div BlockBytes
           r == (p - 1) % BlockBytes
<1>1. BlockBytes \in Nat \ {0} /\ p - 1 \in Nat
  BY WideFacts
<1>2. q \in Nat /\ r \in 0..(BlockBytes - 1) /\ p - 1 = BlockBytes * q + r
  BY <1>1, DivMod
<1> HIDE DEF q, r
<1>3. BlockBytes * q = q * BlockBytes /\ q * BlockBytes \in Nat
  BY <1>1, <1>2
<1>4. r + 1 \in 1..BlockBytes /\ p = q * BlockBytes + (r + 1)
  BY <1>1, <1>2, <1>3
<1> QED
  BY <1>2, <1>4

\* It is a place.
LEMMA AtNat ==
  ASSUME TreeOK, NEW i \in Leaves, NEW p \in Nat \ {0}
  PROVE  At(p, i) \in Nat \ {0} /\ p <= At(p, i)
<1>1. PICK q \in Nat, t \in 1..BlockBytes : p = q * BlockBytes + t
  BY InBlock
<1>2. At(p, i) = q * Wide + (Before(i) + t) /\ q * Wide \in Nat /\ p <= At(p, i)
  BY <1>1, AtFacts
<1>3. Before(i) \in Nat /\ t \in Nat \ {0}
  BY WideFacts, BeforeFacts
<1> DEFINE y == q * Wide
<1>4. y \in Nat /\ At(p, i) = y + (Before(i) + t)
  BY <1>2
<1> HIDE DEF y
<1> QED
  BY <1>2, <1>3, <1>4

\* Which bytes a leaf has of w times what all leaves take, and L bytes more.
LEMMA StripePlaces ==
  ASSUME TreeOK, NEW i \in Leaves, NEW w \in Nat, NEW L \in 0..Wide, NEW n, n = w * Wide + L,
         NEW c, c = w * BlockBytes
  PROVE  /\ c \in Nat /\ n \in Nat
         /\ \A p \in Nat \ {0} : At(p, i) <= n <=> p <= c + Some(L, i)
<1>1. /\ BlockBytes \in Nat \ {0} /\ Wide \in Nat \ {0} /\ BlockBytes <= Wide
      /\ Before(i) \in Nat /\ Before(i) + BlockBytes <= Wide /\ L \in Nat
  BY WideFacts, BeforeFacts
<1>2. c \in Nat /\ w * Wide \in Nat /\ n \in Nat
  <2>1. w * Wide \in Nat /\ w * BlockBytes \in Nat
    BY <1>1
  <2> DEFINE y == w * Wide
  <2>2. y \in Nat /\ n = y + L
    BY <2>1
  <2> HIDE DEF y
  <2> QED
    BY <1>1, <2>1, <2>2
<1>3. Some(L, i) \in 0..BlockBytes /\ \A t \in 1..BlockBytes : t <= Some(L, i) <=> Before(i) + t <= L
  BY <1>1, SomeFacts
<1> SUFFICES ASSUME NEW p \in Nat \ {0} PROVE At(p, i) <= n <=> p <= c + Some(L, i)
  BY <1>2
<1>4. PICK q \in Nat, t \in 1..BlockBytes : p = q * BlockBytes + t
  BY InBlock
<1>5. At(p, i) = q * Wide + (Before(i) + t) /\ q * Wide \in Nat
  BY <1>4, AtFacts
<1> DEFINE x == q * BlockBytes
           y == q * Wide
           z == w * Wide
           S == Some(L, i)
<1>6. /\ x \in Nat /\ y \in Nat /\ z \in Nat /\ p = x + t /\ At(p, i) = y + (Before(i) + t) /\ n = z + L
      /\ S \in 0..BlockBytes /\ (t <= S <=> Before(i) + t <= L)
  BY <1>1, <1>2, <1>3, <1>4, <1>5
<1>7. CASE q = w
  <2>1. x = c /\ y = z
    BY <1>7
  <2> HIDE DEF x, y, z, S
  <2>2. At(p, i) <= n <=> p <= c + S
    BY <1>1, <1>2, <1>6, <2>1
  <2> QED
    BY <2>2 DEF S
<1>8. CASE q < w
  <2>1. x + BlockBytes <= c /\ y + Wide <= z
    <3>1. q + 1 \in Nat /\ q + 1 <= w
      BY <1>8
    <3>2. (q + 1) * BlockBytes <= w * BlockBytes /\ (q + 1) * Wide <= w * Wide
      BY <1>1, <3>1, TimesMore
    <3>3. (q + 1) * BlockBytes = x + BlockBytes /\ (q + 1) * Wide = y + Wide
      BY <1>1
    <3> QED
      BY <3>2, <3>3
  <2> HIDE DEF x, y, z, S
  <2>2. At(p, i) <= n /\ p <= c + S
    BY <1>1, <1>2, <1>6, <2>1
  <2> QED
    BY <2>2 DEF S
<1>9. CASE w < q
  <2>1. c + BlockBytes <= x /\ z + Wide <= y
    <3>1. w + 1 \in Nat /\ w + 1 <= q
      BY <1>9
    <3>2. (w + 1) * BlockBytes <= q * BlockBytes /\ (w + 1) * Wide <= q * Wide
      BY <1>1, <3>1, TimesMore
    <3>3. (w + 1) * BlockBytes = c + BlockBytes /\ (w + 1) * Wide = z + Wide
      BY <1>1
    <3> QED
      BY <3>2, <3>3
  <2> HIDE DEF x, y, z, S
  <2>2. ~(At(p, i) <= n) /\ ~(p <= c + S)
    BY <1>1, <1>2, <1>6, <2>1
  <2> QED
    BY <2>2 DEF S
<1> QED
  BY <1>7, <1>8, <1>9

\* u is the stripe of leaf i in x, of n bytes.
IsStripe(u, x, i, n, X) ==
  n \in Nat /\ u \in Seq(X) /\ Len(u) = n /\ u = [p \in 1..n |-> x[At(p, i)]]

\* x is w times what all leaves take, and L bytes more.
Spans(x, w, L) == Len(x) = w * Wide + L

\* As many bytes it has of those.
Striped(w, L, i) == w * BlockBytes + Some(L, i)

\* The stripe of a leaf, by its bytes.
LEMMA StripeFacts ==
  ASSUME TreeOK, NEW X, NEW x \in Seq(X), NEW i \in Leaves, NEW w \in Nat, NEW L \in 0..Wide,
         Spans(x, w, L)
  PROVE  IsStripe(Stripe(x, i), x, i, Striped(w, L, i), X)
<1> DEFINE n == Len(x)
           S == Some(L, i)
           c == w * BlockBytes
<1>1. L \in Nat /\ S \in 0..BlockBytes /\ BlockBytes \in Nat /\ n \in Nat
  BY WideFacts, SomeFacts, LenProperties
<1>2. n = w * Wide + L
  BY DEF Spans
<1> HIDE DEF n
<1>3. c \in Nat /\ \A p \in Nat \ {0} : At(p, i) <= n <=> p <= c + S
  BY <1>2, StripePlaces
<1>4. \A p \in Nat \ {0} : p <= At(p, i) /\ At(p, i) \in Nat \ {0}
  BY AtNat
<1> HIDE DEF S, c
<1>5. {p \in 1..n : At(p, i) <= n} = 1..(c + S)
  <2>1. ASSUME NEW p, p \in 1..n, At(p, i) <= n PROVE p \in 1..(c + S)
    BY <1>1, <1>3, <2>1
  <2>2. ASSUME NEW p, p \in 1..(c + S) PROVE p \in 1..n /\ At(p, i) <= n
    <3>1. p \in Nat \ {0} /\ p <= c + S
      BY <1>1, <1>3, <2>2
    <3>2. At(p, i) <= n /\ p <= At(p, i) /\ At(p, i) \in Nat
      BY <1>3, <1>4, <3>1
    <3> QED
      BY <1>1, <3>1, <3>2
  <2> QED
    BY <2>1, <2>2
<1>6. Stripe(x, i) = [p \in {q \in 1..n : At(q, i) <= n} |-> x[At(p, i)]]
  BY DEF Stripe, At, Before, n
<1>7. Stripe(x, i) = [p \in 1..(c + S) |-> x[At(p, i)]]
  BY <1>5, <1>6
<1>8. \A p \in 1..(c + S) : x[At(p, i)] \in X
  <2> SUFFICES ASSUME NEW p \in 1..(c + S) PROVE x[At(p, i)] \in X
    OBVIOUS
  <2>1. p \in 1..n /\ At(p, i) <= n
    BY <1>5
  <2>2. At(p, i) \in 1..n
    BY <1>1, <1>4, <2>1
  <2> QED
    BY <2>2, ElementOfSeq DEF n
<1>9. Stripe(x, i) \in [1..(c + S) -> X] /\ c + S \in Nat
  BY <1>1, <1>3, <1>7, <1>8
<1>10. Stripe(x, i) \in Seq(X) /\ Len(Stripe(x, i)) = c + S
  BY <1>9
<1>11. Striped(w, L, i) = c + S
  BY DEF Striped, S, c
<1> DEFINE d == c + S
<1> HIDE DEF d
<1>12. IsStripe(Stripe(x, i), x, i, d, X)
  BY <1>7, <1>9, <1>10 DEF IsStripe, d
<1> QED
  BY <1>11, <1>12 DEF d

\* u is the block of leaf i in what comes after pos bytes of s.
IsBlock(u, s, pos, i, X) ==
  /\ u \in Seq(X) /\ Len(u) = Some(Len(s) - pos, i)
  /\ \A t \in 1..Some(Len(s) - pos, i) : u[t] = s[pos + Before(i) + t]

\* It is, whatever more there is.
LEMMA BlockFacts ==
  ASSUME TreeOK, NEW X, NEW s \in Seq(X), NEW pos \in 0..Len(s), NEW i \in Leaves
  PROVE  IsBlock(BlockOf(s, pos, i), s, pos, i, X)
<1> DEFINE n == Some(Len(s) - pos, i)
           b == Before(i)
           L == Len(s)
           to == pos + (i + 1) * BlockBytes
           end == Min({to, L})
<1>1. /\ b \in Nat /\ (i + 1) * BlockBytes = b + BlockBytes /\ BlockBytes \in Nat /\ pos \in Nat
      /\ L \in Nat /\ pos <= L
  BY BeforeFacts, WideFacts, LenProperties
<1>2. to = pos + (b + BlockBytes)
  BY <1>1
<1>3. BlockOf(s, pos, i) = SubSeq(s, pos + b + 1, end)
  BY DEF BlockOf, Slice, Before
<1> HIDE DEF b, L, to
<1>4. end = IF to <= L THEN to ELSE L
  BY <1>1, <1>2, MinPair
<1>5. n = IF L - pos <= b THEN 0 ELSE IF L - pos < b + BlockBytes THEN (L - pos) - b ELSE BlockBytes
  BY DEF Some, b, L, n
<1> HIDE DEF end, n
<1> SUFFICES /\ BlockOf(s, pos, i) \in Seq(X) /\ Len(BlockOf(s, pos, i)) = n
             /\ \A t \in 1..n : BlockOf(s, pos, i)[t] = s[pos + Before(i) + t]
  BY DEF IsBlock, n
<1>6. CASE L - pos <= b
  <2>1. n = 0 /\ end \in Int /\ end < pos + b + 1 /\ pos + b + 1 \in Int
    BY <1>1, <1>2, <1>4, <1>5, <1>6
  <2>2. BlockOf(s, pos, i) = <<>>
    BY <1>3, <2>1, SubSeqEmpty
  <2> QED
    BY <2>1, <2>2, EmptySeq
<1>7. CASE b < L - pos
  <2> DEFINE a == pos + b
  <2>1. a \in Nat /\ end \in a..L /\ end - a = n
    BY <1>1, <1>2, <1>4, <1>5, <1>7
  <2>2. BlockOf(s, pos, i) = SubSeq(s, a + 1, end)
    BY <1>3
  <2> HIDE DEF a
  <2>3. end \in a..Len(s)
    BY <2>1 DEF L
  <2>4. /\ SubSeq(s, a + 1, end) = Cut(s, a, end) /\ Cut(s, a, end) \in Seq(X) /\ Len(Cut(s, a, end)) = end - a
        /\ \A j \in 1..(end - a) : Cut(s, a, end)[j] = s[a + j]
    BY <2>1, <2>3, CutFacts
  <2> QED
    BY <2>1, <2>2, <2>4 DEF a, b
<1> QED
  BY <1>1, <1>6, <1>7

\* The same of all there is.
LEMMA BlockFirst ==
  ASSUME TreeOK, NEW X, NEW s \in Seq(X), NEW i \in Leaves
  PROVE  IsBlock(BlockOf(s, 0, i), s, 0, i, X)
<1> DEFINE o == 0
<1>1. o \in 0..Len(s)
  BY LenProperties
<1> HIDE DEF o
<1>2. IsBlock(BlockOf(s, o, i), s, o, i, X)
  BY <1>1, BlockFacts
<1> QED
  BY <1>2 DEF o

\* The next bytes up to z are as many as all leaves take, or as there are.
NextEnd(s, pos, z) == z \in pos..Len(s) /\ z <= pos + Wide /\ (z = Len(s) \/ z = pos + Wide)

\* It is the block of those.
LEMMA BlockOfNext ==
  ASSUME TreeOK, NEW X, NEW s \in Seq(X), NEW pos \in 0..Len(s), NEW i \in Leaves,
         NEW z, NextEnd(s, pos, z), NEW r, r = Cut(s, pos, z)
  PROVE  BlockOf(s, pos, i) = BlockOf(r, 0, i)
<1> DEFINE L == Len(s)
           n == Some(L - pos, i)
           u == BlockOf(s, pos, i)
           v == BlockOf(r, 0, i)
           b == Before(i)
<1>0. z \in pos..Len(s) /\ z <= pos + Wide /\ (z = Len(s) \/ z = pos + Wide)
  BY DEF NextEnd
<1>1. L \in Nat /\ pos \in Nat /\ pos <= L /\ z \in Nat /\ z >= pos /\ Wide \in Nat /\ BlockBytes \in Nat /\ b \in Nat
  BY <1>0, WideFacts, LenProperties, BeforeFacts
<1>2. r \in Seq(X) /\ Len(r) = z - pos /\ \A j \in 1..(z - pos) : r[j] = s[pos + j]
  BY <1>0, <1>1, CutFacts
<1>3. n = Some(z - pos, i) /\ n \in 0..BlockBytes
  <2>1. L - pos \in Nat /\ z - pos \in Nat
    BY <1>1
  <2>2. CASE z = Len(s)
    BY <2>1, <2>2, SomeFacts
  <2>3. CASE z = pos + Wide
    <3>1. Wide <= L - pos /\ Wide <= z - pos
      BY <1>0, <1>1, <2>3
    <3> QED
      BY <1>1, <2>1, <3>1, SomeFacts
  <2> QED
    BY <1>0, <2>2, <2>3
<1>4. u \in Seq(X) /\ Len(u) = n /\ \A t \in 1..n : u[t] = s[pos + b + t]
  BY BlockFacts DEF IsBlock
<1>5. v \in Seq(X) /\ Len(v) = n /\ \A t \in 1..n : v[t] = r[b + t]
  <2>1. IsBlock(v, r, 0, i, X)
    BY <1>2, BlockFirst
  <2>2. Len(r) - 0 = z - pos
    BY <1>1, <1>2
  <2>3. \A t \in 1..n : 0 + Before(i) + t = b + t
    BY <1>1, <1>3
  <2> HIDE DEF v, n
  <2> QED
    BY <1>3, <2>1, <2>2, <2>3 DEF IsBlock
<1>6. \A t \in 1..n : u[t] = v[t]
  <2> SUFFICES ASSUME NEW t \in 1..n PROVE u[t] = v[t]
    OBVIOUS
  <2>1. t \in 1..BlockBytes /\ t <= Some(z - pos, i)
    BY <1>1, <1>3
  <2>2. b + t <= z - pos
    BY <1>1, <2>1, SomeFacts
  <2>3. b + t \in 1..(z - pos) /\ pos + b + t = pos + (b + t)
    BY <1>1, <2>1, <2>2
  <2> QED
    BY <1>2, <1>4, <1>5, <2>3
<1> HIDE DEF u, v, n
<1>7. u = v
  BY <1>4, <1>5, <1>6, SeqEqual
<1> QED
  BY <1>7 DEF u, v

\* g is w times what all leaves take.
Aligned(g, w, X) == g \in Seq(X) /\ w \in Nat /\ Len(g) = w * Wide

\* r is no more than they take once.
Fits(r) == Len(r) <= Wide

\* What a leaf has of more bytes, not more than all take once, is its block of them.
LEMMA StripeMore ==
  ASSUME TreeOK, NEW X, NEW g, NEW w, Aligned(g, w, X), NEW r \in Seq(X), Fits(r),
         NEW e, Joins(e, g, r), NEW i \in Leaves
  PROVE  /\ Joins(Stripe(e, i), Stripe(g, i), BlockOf(r, 0, i)) /\ BlockOf(r, 0, i) \in Seq(X)
         /\ e \in Seq(X)
<1> DEFINE L == Len(r)
           S == Some(L, i)
           o == 0
           c == w * BlockBytes
           y == w * Wide
           u == Stripe(g, i)
           v == Stripe(e, i)
           b == BlockOf(r, 0, i)
           z == u \o b
<1>1. /\ BlockBytes \in Nat \ {0} /\ Wide \in Nat \ {0} /\ Before(i) \in Nat
      /\ Before(i) + BlockBytes <= Wide /\ L \in Nat /\ L \in 0..Wide /\ o \in 0..Wide /\ S \in 0..BlockBytes
  BY WideFacts, BeforeFacts, SomeFacts, LenProperties DEF Fits
<1>2. g \in Seq(X) /\ w \in Nat /\ Len(g) = y /\ y \in Nat /\ c \in Nat
  BY <1>1 DEF Aligned
<1>3. e \in Seq(X) /\ Len(e) = y + L /\ (\A j \in 1..(y + L) : e[j] = IF j <= y THEN g[j] ELSE r[j - y])
  <2>1. /\ g \o r \in Seq(X) /\ Len(g \o r) = Len(g) + Len(r)
        /\ \A j \in 1..(Len(g) + Len(r)) : (g \o r)[j] = IF j <= Len(g) THEN g[j] ELSE r[j - Len(g)]
    BY <1>2, ConcatProperties
  <2> HIDE DEF y
  <2> QED
    BY <1>2, <2>1 DEF Joins
<1>4. Spans(g, w, o) /\ Spans(e, w, L)
  BY <1>2, <1>3 DEF Spans
<1>5. Some(o, i) = 0
  BY <1>1 DEF Some
<1>6. Striped(w, o, i) = c /\ Striped(w, L, i) = c + S
  BY <1>2, <1>5 DEF Striped
<1> HIDE DEF L, o, u, v
<1>7. IsStripe(u, g, i, c, X) /\ IsStripe(v, e, i, c + S, X)
  <2>1. IsStripe(u, g, i, Striped(w, o, i), X) /\ IsStripe(v, e, i, Striped(w, L, i), X)
    BY <1>1, <1>2, <1>3, <1>4, StripeFacts DEF u, v
  <2> QED
    BY <1>6, <2>1, Zenon
<1>8. IsBlock(b, r, 0, i, X)
  BY BlockFirst
<1>9. b \in Seq(X) /\ Len(b) = S /\ \A t \in 1..S : b[t] = r[Before(i) + t]
  <2>1. Len(r) - 0 = L
    BY <1>1 DEF L
  <2>2. \A t \in 1..S : 0 + Before(i) + t = Before(i) + t
    BY <1>1
  <2> HIDE DEF b
  <2> QED
    BY <1>8, <2>1, <2>2 DEF IsBlock
<1> HIDE DEF b, S
<1>10. u \in Seq(X) /\ Len(u) = c /\ v \in Seq(X) /\ Len(v) = c + S
  BY <1>7 DEF IsStripe
<1>11. z \in Seq(X) /\ Len(z) = c + S /\ \A j \in 1..(c + S) : z[j] = IF j <= c THEN u[j] ELSE b[j - c]
  <2> HIDE DEF c
  <2> QED
    BY <1>2, <1>9, <1>10, ConcatProperties
<1> HIDE DEF z
<1>12. \A p \in 1..(c + S) : v[p] = z[p]
  <2> SUFFICES ASSUME NEW p \in 1..(c + S) PROVE v[p] = z[p]
    OBVIOUS
  <2>1. v[p] = e[At(p, i)]
    BY <1>7 DEF IsStripe
  <2>2. p \in Nat \ {0}
    BY <1>1, <1>2
  <2>3. CASE p <= c
    <3>1. p \in 1..c
      BY <1>1, <1>2, <2>3
    <3>2. u[p] = g[At(p, i)]
      BY <1>7, <3>1 DEF IsStripe
    <3>3. At(p, i) \in 1..y
      <4>1. y \in Nat /\ (At(p, i) <= y <=> p <= c + Some(o, i))
        <5>1. y = w * Wide + o
          BY <1>1, <1>2 DEF o
        <5> QED
          BY <1>1, <1>2, <2>2, <5>1, StripePlaces
      <4>2. At(p, i) \in Nat \ {0}
        BY <2>2, AtNat
      <4> HIDE DEF y
      <4> QED
        BY <1>2, <1>5, <2>3, <4>1, <4>2
    <3>4. e[At(p, i)] = g[At(p, i)]
      <4> HIDE DEF y
      <4> QED
        BY <1>1, <1>2, <1>3, <3>3
    <3> QED
      BY <1>11, <2>1, <2>3, <3>2, <3>4
  <2>4. CASE ~(p <= c)
    <3> DEFINE t == p - c
    <3>1. t \in 1..S /\ p = c + t /\ t \in 1..BlockBytes
      <4> HIDE DEF c
      <4> QED
        BY <1>1, <1>2, <2>4
    <3> HIDE DEF t
    <3>2. At(p, i) = y + (Before(i) + t)
      BY <1>2, <3>1, AtFacts
    <3>3. Before(i) + t <= L /\ t \in Nat
      <4>1. t <= S
        BY <1>1, <3>1
      <4> QED
        BY <1>1, <3>1, <4>1, SomeFacts DEF S
    <3>4. e[At(p, i)] = r[Before(i) + t]
      <4> DEFINE x == Before(i) + t
      <4>1. x \in 1..L /\ At(p, i) = y + x
        BY <1>1, <3>1, <3>2, <3>3
      <4> HIDE DEF x, y
      <4>2. y + x \in 1..(y + L) /\ ~(y + x <= y) /\ (y + x) - y = x
        BY <1>1, <1>2, <4>1
      <4>3. e[y + x] = r[x]
        BY <1>3, <4>2
      <4> QED
        BY <4>1, <4>3 DEF x
    <3>5. z[p] = b[t]
      BY <1>11, <2>4 DEF t
    <3> QED
      BY <1>9, <2>1, <3>1, <3>4, <3>5
  <2> QED
    BY <2>3, <2>4
<1>13. v = z
  BY <1>10, <1>11, <1>12, SeqEqual
<1> QED
  BY <1>3, <1>9, <1>13 DEF Joins, z, v, u, b

\* A stripe is of the message's bytes.
LEMMA StripeSeq ==
  ASSUME TreeOK, NEW X, NEW x \in Seq(X), NEW i \in Leaves
  PROVE  Stripe(x, i) \in Seq(X)
<1> DEFINE w == Len(x) \div Wide
           L == Len(x) % Wide
<1>1. Wide \in Nat \ {0} /\ Len(x) \in Nat
  BY WideFacts, LenProperties
<1>2. w \in Nat /\ L \in 0..(Wide - 1) /\ Len(x) = Wide * w + L
  BY <1>1, DivMod
<1> HIDE DEF w, L
<1>3. L \in 0..Wide /\ Wide * w = w * Wide
  BY <1>1, <1>2
<1>4. Spans(x, w, L)
  BY <1>2, <1>3 DEF Spans
<1>5. IsStripe(Stripe(x, i), x, i, Striped(w, L, i), X)
  BY <1>2, <1>3, <1>4, StripeFacts
<1> QED
  BY <1>5 DEF IsStripe

\* Of nothing it is nothing, and of what all leaves take they have as much.
LEMMA StripeAligned ==
  ASSUME TreeOK, NEW X, NEW g, NEW w, Aligned(g, w, X), NEW i \in Leaves
  PROVE  Stripe(g, i) \in Seq(X) /\ Len(Stripe(g, i)) = w * BlockBytes /\ w * BlockBytes \in Nat
<1> DEFINE o == 0
           c == w * BlockBytes
<1>1. /\ BlockBytes \in Nat /\ Wide \in Nat \ {0} /\ Before(i) \in Nat /\ w \in Nat
      /\ g \in Seq(X) /\ Len(g) = w * Wide
  BY WideFacts, BeforeFacts DEF Aligned
<1>2. w * Wide \in Nat /\ c \in Nat
  BY <1>1
<1>3. Spans(g, w, o) /\ o \in 0..Wide
  BY <1>1, <1>2 DEF Spans
<1>4. Some(o, i) = 0
  BY <1>1 DEF Some
<1>5. Striped(w, o, i) = c
  BY <1>2, <1>4 DEF Striped
<1> HIDE DEF o, c
<1>6. IsStripe(Stripe(g, i), g, i, Striped(w, o, i), X)
  BY <1>1, <1>3, StripeFacts
<1>7. IsStripe(Stripe(g, i), g, i, c, X)
  BY <1>5, <1>6, Zenon
<1> QED
  BY <1>2, <1>7 DEF IsStripe, c

\* No bytes are aligned.
LEMMA NoneAligned == ASSUME NEW X PROVE TreeOK => Aligned(<<>>, 0, X)
BY WideFacts, EmptySeq DEF Aligned

(***************************************************************************)
(* The leaves, of the key k and a digest of n bytes.                       *)
(***************************************************************************)
Last(i) == i = Degree - 1

\* Leaf i was given its stripe of g, and is not finished.
LeafTakes(T, n, k, g, i, X) ==
  /\ Fed(T, LeafParam(n, k, i), Data(k, Stripe(g, i)), X)
  /\ T.outlen = OutBytes /\ T.last_node = Last(i)

\* It is that leaf, and was given that stripe if the tree is not finished.
Leaf(T, n, k, g, i, live, X) ==
  NodeOf(T, LeafParam(n, k, i)) /\ (live => LeafTakes(T, n, k, g, i, X))

\* As blake2sp_init makes it.
LEMMA NewLeafTakes ==
  ASSUME TreeOK, NEW X, Zero \in X, NEW n, NEW k \in Seq(X), Len(k) <= BlockBytes, NEW i \in Leaves
  PROVE  \A live : Leaf(NewLeaf(n, k, i), n, k, <<>>, i, live, X)
<1> DEFINE P == LeafParam(n, k, i)
           I == InitParam(P)
           l == Last(i)
           T == Reset(I, OutBytes, l)
           N == Keyed(T, k)
<1>1. Fed(I, P, <<>>, X)
  BY NewFed
<1>2. NewLeaf(n, k, i) = N
  BY DEF NewLeaf, Last, Reset
<1> HIDE DEF I, P, l
<1>10. Fed(T, P, <<>>, X) /\ T.outlen = OutBytes /\ T.last_node = l
  BY <1>1, FedFields
<1> HIDE DEF T
<1>4. Fed(N, P, KeyData(k), X) /\ N.outlen = OutBytes /\ N.last_node = l
  <2>1. Fed(N, P, KeyData(k), X) /\ N.outlen = T.outlen /\ N.last_node = T.last_node
    BY <1>10, KeyedFed
  <2> QED
    BY <1>10, <2>1
<1> HIDE DEF N
<1>5. Stripe(<<>>, i) = <<>>
  <2> DEFINE w == 0
             e == <<>>
             u == Stripe(e, i)
  <2>1. Aligned(e, w, X)
    BY NoneAligned
  <2> HIDE DEF w, e
  <2>2. u \in Seq(X) /\ Len(u) = w * BlockBytes
    BY <2>1, StripeAligned
  <2>3. w * BlockBytes = 0
    BY WideFacts DEF w
  <2> HIDE DEF u
  <2>4. u = <<>>
    BY <2>2, <2>3, EmptySeq
  <2> QED
    BY <2>4 DEF u, e
<1>6. Data(k, Stripe(<<>>, i)) = KeyData(k)
  <2>1. <<>> \in Seq(X)
    BY EmptySeq
  <2>2. Data(k, <<>>) = KeyData(k)
    BY <2>1, DataJoins
  <2> QED
    BY <1>5, <2>2
<1>7. NodeOf(N, P)
  BY <1>4, FedNode
<1>8. LeafTakes(N, n, k, <<>>, i, X)
  BY <1>4, <1>6, Zenon DEF LeafTakes, P, l
<1> QED
  BY <1>2, <1>7, <1>8 DEF Leaf, P

\* Its block of more bytes, not more than all leaves take once.
LEMMA LeafGiven ==
  ASSUME TreeOK, NEW X, Zero \in X, NEW n, NEW k \in Seq(X), Len(k) <= BlockBytes,
         NEW i \in Leaves, NEW live, NEW g, NEW w, Aligned(g, w, X), NEW r \in Seq(X), Fits(r),
         NEW e, Joins(e, g, r), NEW T, Leaf(T, n, k, g, i, live, X)
  PROVE  Leaf(NodeUpdate(T, BlockOf(r, 0, i)), n, k, e, i, live, X)
<1> DEFINE P == LeafParam(n, k, i)
           b == BlockOf(r, 0, i)
           N == NodeUpdate(T, b)
           x == Stripe(g, i)
           z == Stripe(e, i)
<1>1. Joins(z, x, b) /\ b \in Seq(X)
  BY StripeMore
<1>2. x \in Seq(X)
  BY StripeAligned
<1> HIDE DEF b, x, z
<1>3. Joins(Data(k, z), Data(k, x), b)
  BY <1>1, <1>2, DataMore
<1>4. NodeOf(T, P) /\ (live => LeafTakes(T, n, k, g, i, X))
  BY DEF Leaf
<1>5. ASSUME live PROVE LeafTakes(N, n, k, e, i, X)
  <2>1. Fed(T, P, Data(k, x), X) /\ T.outlen = OutBytes /\ T.last_node = Last(i)
    BY <1>4, <1>5 DEF LeafTakes, x
  <2>2. Fed(N, P, Data(k, z), X) /\ N.outlen = T.outlen /\ N.last_node = T.last_node
    BY <1>1, <1>3, <2>1, UpdateFed
  <2> HIDE DEF N
  <2> QED
    BY <2>1, <2>2, Zenon DEF LeafTakes, z, P
<1>6. NodeOf(N, P)
  BY <1>4, UpdateNode
<1> QED
  BY <1>5, <1>6 DEF Leaf, N, b, P

\* F is the end of leaf i.
LeafOver(F, n, k, m, i, live) ==
  NodeOf(F.st, LeafParam(n, k, i)) /\ (live => F.out = LeafDigest(n, k, m, i))

\* Its digest is that of its stripe.
LEMMA LeafEnds ==
  ASSUME TreeOK, NEW X, Zero \in X, NEW n, NEW k \in Seq(X), Len(k) <= BlockBytes,
         NEW i \in Leaves, NEW live, NEW m \in Seq(X), NEW T, Leaf(T, n, k, m, i, live, X)
  PROVE  LeafOver(NodeFinal(T, OutBytes), n, k, m, i, live)
<1> DEFINE P == LeafParam(n, k, i)
           F == NodeFinal(T, OutBytes)
           x == Stripe(m, i)
           l == Last(i)
<1>1. x \in Seq(X)
  BY StripeSeq
<1>2. NodeOf(T, P) /\ (live => LeafTakes(T, n, k, m, i, X))
  BY DEF Leaf
<1>3. NodeOf(F.st, P)
  BY <1>2, FinalNode
<1>4. ASSUME live PROVE F.out = LeafDigest(n, k, m, i)
  <2>1. Fed(T, P, Data(k, x), X) /\ T.outlen = OutBytes /\ T.last_node = l
    BY <1>2, <1>4 DEF LeafTakes
  <2>2. l \in BOOLEAN
    BY DEF Last
  <2>3. Room(T, OutBytes)
    BY <2>1, WideFacts DEF Room
  <2> HIDE DEF P, x, l
  <2>4. Ends(F, Chain(P, k, x, l), Data(k, x), T, X)
    BY <1>1, <2>1, <2>2, <2>3, FinalChain
  <2> HIDE DEF F
  <2>5. F.out = Bytes(Chain(P, k, x, l), OutBytes)
    BY <2>1, <2>4, Zenon DEF Ends
  <2> QED
    BY <2>5, Zenon DEF LeafDigest, P, x, l, Last
<1> QED
  BY <1>3, <1>4 DEF LeafOver

(***************************************************************************)
(* The root.                                                               *)
(***************************************************************************)
\* The digests of the leaves, and the bytes they are of.
Digests(n, k, m) ==
  [p \in 1..(Degree * OutBytes) |->
    LeafDigest(n, k, m, (p - 1) \div OutBytes)[((p - 1) % OutBytes) + 1]]
DigestBytes(n, k, m) == {Zero} \union {Digests(n, k, m)[p] : p \in 1..(Degree * OutBytes)}

\* Those of the first i leaves.
FirstDigests(n, k, m, i) == Cut(Digests(n, k, m), 0, i * OutBytes)

\* The root was given those, and is not finished.
RootTakes(T, n, k, m, i) ==
  /\ Fed(T, RootParam(n, k), FirstDigests(n, k, m, i), DigestBytes(n, k, m))
  /\ T.outlen = n /\ T.last_node = TRUE

\* It is finished.
RootOver(T, n, k) == NodeOf(T, RootParam(n, k)) /\ T.f[1] = TRUE

\* A digest is where it belongs.
LEMMA DigestAt ==
  ASSUME TreeOK, NEW n, NEW k, NEW m, NEW i \in Leaves, NEW q \in 1..OutBytes,
         NEW p, p = i * OutBytes + q
  PROVE  p \in 1..(Degree * OutBytes) /\ Digests(n, k, m)[p] = LeafDigest(n, k, m, i)[q]
<1>1. OutBytes \in Nat \ {0} /\ Degree \in Nat \ {0}
  BY WideFacts DEF TreeOK
<1>2. i \in Nat /\ i + 1 \in Nat /\ i + 1 <= Degree /\ i <= i + 1
  BY <1>1 DEF Leaves
<1>3. i * OutBytes \in Nat /\ (i + 1) * OutBytes = i * OutBytes + OutBytes
  BY <1>1, <1>2, TimesMore
<1>4. (i + 1) * OutBytes <= Degree * OutBytes /\ Degree * OutBytes \in Nat
  BY <1>1, <1>2, TimesMore
<1> DEFINE x == i * OutBytes
           z == Degree * OutBytes
<1>5. x \in Nat /\ z \in Nat /\ x + OutBytes <= z /\ p = x + q
  BY <1>3, <1>4
<1>6. OutBytes * i = x
  BY <1>1, <1>2
<1>7. Digests(n, k, m) = [y \in 1..z |->
        LeafDigest(n, k, m, (y - 1) \div OutBytes)[((y - 1) % OutBytes) + 1]]
  BY DEF Digests
<1>8. (OutBytes * i + (q - 1)) \div OutBytes = i /\ (OutBytes * i + (q - 1)) % OutBytes = q - 1
  <2>1. q - 1 \in 0..(OutBytes - 1)
    BY <1>1
  <2> QED
    BY <1>1, <1>2, <2>1, DivModUnique
<1> HIDE DEF x, z
<1>9. p \in 1..z /\ p - 1 = x + (q - 1) /\ (q - 1) + 1 = q
  BY <1>1, <1>5
<1>10. (p - 1) \div OutBytes = i /\ (p - 1) % OutBytes = q - 1
  BY <1>6, <1>8, <1>9, Zenon
<1>11. Digests(n, k, m)[p] = LeafDigest(n, k, m, (p - 1) \div OutBytes)[((p - 1) % OutBytes) + 1]
  BY <1>7, <1>9
<1> QED
  BY <1>9, <1>10, <1>11, Zenon DEF z

\* The digests that are given to the root.
LEMMA DigestFacts ==
  ASSUME TreeOK, NEW n, NEW k, NEW m
  PROVE  /\ Zero \in DigestBytes(n, k, m)
         /\ Digests(n, k, m) \in Seq(DigestBytes(n, k, m))
         /\ Len(Digests(n, k, m)) = Degree * OutBytes /\ Degree * OutBytes \in Nat
         /\ FirstDigests(n, k, m, Degree) = Digests(n, k, m)
<1> DEFINE z == Degree * OutBytes
           Y == DigestBytes(n, k, m)
           D == Digests(n, k, m)
<1>1. z \in Nat
  BY WideFacts DEF TreeOK
<1>2. D = [p \in 1..z |-> D[p]]
  BY DEF Digests
<1>3. Y = {Zero} \union {D[p] : p \in 1..z}
  BY DEF DigestBytes
<1> HIDE DEF z, D, Y
<1>4. \A p \in 1..z : D[p] \in Y
  BY <1>3
<1>5. D \in [1..z -> Y]
  BY <1>2, <1>4
<1>6. D \in Seq(Y) /\ Len(D) = z
  BY <1>1, <1>5
<1>7. Cut(D, 0, z) = D
  <2>1. z - 0 = z /\ \A j \in 1..z : 0 + j = j
    BY <1>1
  <2>2. Cut(D, 0, z) = [j \in 1..z |-> D[0 + j]]
    BY <2>1 DEF Cut
  <2>3. Cut(D, 0, z) = [j \in 1..z |-> D[j]]
    BY <2>1, <2>2
  <2> QED
    BY <1>2, <2>3, Zenon
<1>8. Zero \in Y
  BY <1>3
<1>9. FirstDigests(n, k, m, Degree) = D
  BY <1>7, Zenon DEF FirstDigests, D, z
<1> QED
  BY <1>1, <1>6, <1>8, <1>9 DEF z, Y, D

\* One more is after the ones before it.
LEMMA DigestsJoin ==
  ASSUME TreeOK, NEW n, NEW k, NEW m, NEW i \in Leaves
  PROVE  /\ Joins(FirstDigests(n, k, m, i + 1), FirstDigests(n, k, m, i), LeafDigest(n, k, m, i))
         /\ LeafDigest(n, k, m, i) \in Seq(DigestBytes(n, k, m))
<1> DEFINE D == Digests(n, k, m)
           Y == DigestBytes(n, k, m)
           b == LeafDigest(n, k, m, i)
           x == i * OutBytes
           y == (i + 1) * OutBytes
           z == Degree * OutBytes
<1>1. OutBytes \in Nat \ {0} /\ Degree \in Nat \ {0}
  BY WideFacts DEF TreeOK
<1>2. i \in Nat /\ i + 1 \in Nat /\ i + 1 <= Degree /\ i <= i + 1
  BY <1>1 DEF Leaves
<1>3. x \in Nat /\ y = x + OutBytes
  BY <1>1, <1>2, TimesMore
<1>4. y <= z /\ z \in Nat
  BY <1>1, <1>2, TimesMore
<1>5. D \in Seq(Y) /\ Len(D) = z
  BY DigestFacts
<1>6. b = [q \in 1..OutBytes |-> b[q]]
  BY DEF LeafDigest, Bytes
<1>7. \A q \in 1..OutBytes : D[x + q] = b[q]
  <2> SUFFICES ASSUME NEW q \in 1..OutBytes PROVE D[x + q] = b[q]
    OBVIOUS
  <2> DEFINE p == x + q
  <2>1. p = i * OutBytes + q
    OBVIOUS
  <2> HIDE DEF p
  <2>2. D[p] = b[q]
    BY <2>1, DigestAt
  <2> QED
    BY <2>2 DEF p
<1> HIDE DEF D, Y, b, z, x, y
<1>8. \A q \in 1..OutBytes : b[q] \in Y
  <2> SUFFICES ASSUME NEW q \in 1..OutBytes PROVE b[q] \in Y
    OBVIOUS
  <2>1. x + q \in 1..Len(D)
    BY <1>1, <1>3, <1>4, <1>5
  <2> QED
    BY <1>5, <1>7, <2>1, ElementOfSeq
<1>9. b \in Seq(Y) /\ Len(b) = OutBytes
  <2>1. b \in [1..OutBytes -> Y]
    BY <1>6, <1>8
  <2> QED
    BY <1>1, <2>1
<1> DEFINE o == 0
           u == Cut(D, o, x)
           v == Cut(D, o, y)
           w == u \o b
<1>10. o \in Nat /\ x \in o..Len(D) /\ y \in o..Len(D) /\ x - o = x /\ y - o = y
  BY <1>1, <1>3, <1>4, <1>5
<1>11. \A j \in 1..y : o + j = j
  BY <1>1, <1>3
<1> HIDE DEF o
<1>12. /\ u \in Seq(Y) /\ Len(u) = x - o /\ \A j \in 1..(x - o) : u[j] = D[o + j]
       /\ v \in Seq(Y) /\ Len(v) = y - o /\ \A j \in 1..(y - o) : v[j] = D[o + j]
  BY <1>5, <1>10, CutFacts
<1> HIDE DEF u, v
<1>13. /\ w \in Seq(Y) /\ Len(w) = x + OutBytes
       /\ \A j \in 1..(x + OutBytes) : w[j] = IF j <= x THEN u[j] ELSE b[j - x]
  BY <1>9, <1>10, <1>12, ConcatProperties
<1> HIDE DEF w
<1>14. \A j \in 1..y : v[j] = w[j]
  <2> SUFFICES ASSUME NEW j \in 1..y PROVE v[j] = w[j]
    OBVIOUS
  <2>1. v[j] = D[j]
    BY <1>10, <1>11, <1>12
  <2>2. CASE j <= x
    <3>1. j \in 1..x /\ j \in 1..(x + OutBytes)
      BY <1>1, <1>3, <2>2
    <3>2. u[j] = D[j]
      BY <1>10, <1>11, <1>12, <3>1
    <3> QED
      BY <1>13, <2>1, <2>2, <3>1, <3>2
  <2>3. CASE ~(j <= x)
    <3>1. j - x \in 1..OutBytes /\ j \in 1..(x + OutBytes) /\ x + (j - x) = j
      BY <1>1, <1>3, <2>3
    <3>2. D[j] = b[j - x]
      BY <1>7, <3>1
    <3> QED
      BY <1>13, <2>1, <2>3, <3>1, <3>2
  <2> QED
    BY <2>2, <2>3
<1>15. v = w
  BY <1>3, <1>10, <1>12, <1>13, <1>14, SeqEqual
<1>16. FirstDigests(n, k, m, i) = u /\ FirstDigests(n, k, m, i + 1) = v
  BY DEF FirstDigests, u, v, o, x, y, D
<1> QED
  BY <1>9, <1>15, <1>16, Zenon DEF Joins, w, b, Y

\* As it is made, it was given none.
LEMMA NewRootTakes ==
  ASSUME TreeOK, NEW n, NEW k, NEW m
  PROVE  RootTakes(NewRoot(n, k), n, k, m, 0) /\ NodeOf(NewRoot(n, k), RootParam(n, k))
<1> DEFINE P == RootParam(n, k)
           I == InitParam(P)
           Y == DigestBytes(n, k, m)
           D == Digests(n, k, m)
           l == TRUE
           T == Reset(I, n, l)
<1>1. Zero \in Y
  BY DigestFacts
<1> HIDE DEF Y
<1>2. Fed(I, P, <<>>, Y)
  BY <1>1, NewFed
<1>3. I.outlen = n
  BY DEF InitParam, RootParam, SequentialParam
<1>4. NewRoot(n, k) = T
  <2>1. [I EXCEPT !.outlen = n] = I
    BY <1>3 DEF InitParam
  <2>2. NewRoot(n, k) = [I EXCEPT !.last_node = l]
    BY DEF NewRoot
  <2> HIDE DEF I, l
  <2> QED
    BY <2>1, <2>2, Zenon DEF Reset
<1> HIDE DEF I, P, l
<1>5. Fed(T, P, <<>>, Y) /\ T.outlen = n /\ T.last_node = l
  BY <1>2, FedFields
<1>6. FirstDigests(n, k, m, 0) = <<>>
  <2>1. 0 * OutBytes - 0 = 0
    BY WideFacts
  <2>2. FirstDigests(n, k, m, 0) = [j \in 1..(0 * OutBytes - 0) |-> D[0 + j]]
    BY DEF FirstDigests, Cut
  <2> HIDE DEF D
  <2>3. FirstDigests(n, k, m, 0) = [j \in 1..0 |-> D[0 + j]]
    BY <2>1, <2>2
  <2> QED
    BY <2>3
<1> HIDE DEF T
<1>7. NodeOf(T, P)
  BY <1>5, FedNode
<1> QED
  BY <1>4, <1>5, <1>6, <1>7, Zenon DEF RootTakes, P, Y, l

\* It is given the digest of one leaf after the other.
LEMMA RootAbsorbs ==
  ASSUME TreeOK, NEW n, NEW k, NEW m, NEW i \in Leaves, NEW T, RootTakes(T, n, k, m, i)
  PROVE  RootTakes(NodeUpdate(T, LeafDigest(n, k, m, i)), n, k, m, i + 1)
<1> DEFINE P == RootParam(n, k)
           Y == DigestBytes(n, k, m)
           b == LeafDigest(n, k, m, i)
           d == FirstDigests(n, k, m, i)
           e == FirstDigests(n, k, m, i + 1)
           N == NodeUpdate(T, b)
<1>1. Joins(e, d, b) /\ b \in Seq(Y)
  BY DigestsJoin
<1>2. Fed(T, P, d, Y) /\ T.outlen = n /\ T.last_node = TRUE
  BY DEF RootTakes
<1> HIDE DEF P, Y, b, d, e
<1>3. Fed(N, P, e, Y) /\ N.outlen = T.outlen /\ N.last_node = T.last_node
  BY <1>1, <1>2, UpdateFed
<1> QED
  BY <1>2, <1>3, Zenon DEF RootTakes, P, Y, b, e

\* F is the end of the root, with the tree's digest.
RootEnds(F, n, k, m) == F.res = 0 /\ F.out = TreeHash(n, k, m) /\ RootOver(F.st, n, k)

\* Of all of them it makes the digest of the tree.
LEMMA RootMade ==
  ASSUME TreeOK, NEW n \in Nat, NEW k, NEW m, NEW T, RootTakes(T, n, k, m, Degree)
  PROVE  RootEnds(NodeFinal(T, n), n, k, m)
<1> DEFINE P == RootParam(n, k)
           Y == DigestBytes(n, k, m)
           D == Digests(n, k, m)
           d == FirstDigests(n, k, m, Degree)
           F == NodeFinal(T, n)
           l == TRUE
           e == <<>>
<1>1. Fed(T, P, d, Y) /\ T.outlen = n /\ T.last_node = l
  BY DEF RootTakes
<1>2. Zero \in Y /\ D \in Seq(Y) /\ d = D
  BY DigestFacts
<1>3. l \in BOOLEAN /\ e \in Seq(Y) /\ Len(e) <= BlockBytes
  BY EmptySeq, WideFacts
<1>4. Data(e, D) = D
  BY DEF Data
<1>5. Room(T, n)
  BY <1>1 DEF Room
<1>6. TreeHash(n, k, m) = Bytes(Chain(P, e, D, l), n)
  BY DEF TreeHash, Digests
<1> HIDE DEF P, Y, D, d, l, e
<1>7. Fed(T, P, Data(e, D), Y)
  BY <1>1, <1>2, <1>4
<1>8. Ends(F, Chain(P, e, D, l), Data(e, D), T, Y) /\ NodeOf(F.st, P)
  BY <1>1, <1>2, <1>3, <1>5, <1>7, FinalChain
<1> HIDE DEF F
<1>9. F.res = 0 /\ F.out = Bytes(Chain(P, e, D, l), n) /\ F.st.f[1] = TRUE
  BY <1>1, <1>8, Zenon DEF Ends
<1> QED
  BY <1>6, <1>8, <1>9, Zenon DEF RootEnds, RootOver, F, P

\* A root that is finished can be given more, and is not finished again.
LEMMA RootOverStays ==
  ASSUME NEW n, NEW k, NEW T, RootOver(T, n, k)
  PROVE  /\ \A s : RootOver(NodeUpdate(T, s), n, k)
         /\ \A x : NodeFinal(T, x).res = -1 /\ NodeFinal(T, x).st = T
<1>1. NodeOf(T, RootParam(n, k)) /\ T.f[1] = TRUE
  BY DEF RootOver
<1>2. ASSUME NEW s PROVE RootOver(NodeUpdate(T, s), n, k)
  <2>1. NodeOf(NodeUpdate(T, s), RootParam(n, k)) /\ NodeUpdate(T, s).f = T.f
    BY <1>1, UpdateNode
  <2> QED
    BY <1>1, <2>1 DEF RootOver
<1>3. ASSUME NEW x PROVE NodeFinal(T, x).res = -1 /\ NodeFinal(T, x).st = T
  BY <1>1, FinalFails
<1> QED
  BY <1>2, <1>3

(***************************************************************************)
(* The input, cut where the calls and the threads cut it.                  *)
(***************************************************************************)
\* The first n bytes.
Upto(s, n) == SubSeq(s, 1, n)

\* They are what the array has there.
LEMMA UptoFacts ==
  ASSUME NEW X, NEW s \in Seq(X), NEW n \in 0..Len(s)
  PROVE  /\ Upto(s, n) \in Seq(X) /\ Len(Upto(s, n)) = n
         /\ \A j \in 1..n : Upto(s, n)[j] = s[j]
<1>1. Len(s) \in Nat
  BY LenProperties
<1>2. \A j \in 1..n : s[j] \in X
  BY <1>1, ElementOfSeq
<1> DEFINE o == 1
<1>3. o \in Int /\ n \in Int /\ \A j \in o..n : s[j] \in X
  BY <1>1, <1>2
<1>4. /\ SubSeq(s, o, n) \in Seq(X) /\ Len(SubSeq(s, o, n)) = (IF o <= n THEN n - o + 1 ELSE 0)
      /\ \A j \in 1..(n - o + 1) : SubSeq(s, o, n)[j] = s[o + j - 1]
  <2> HIDE DEF o
  <2> QED
    BY <1>3, SubSeqProperties
<1>5. (IF o <= n THEN n - o + 1 ELSE 0) = n /\ n - o + 1 = n /\ \A j \in 1..n : o + j - 1 = j
  BY <1>1
<1> QED
  BY <1>4, <1>5 DEF Upto

\* What is after the first a of the first b is cut from there.
LEMMA UptoJoins ==
  ASSUME NEW X, NEW s \in Seq(X), NEW b \in 0..Len(s), NEW a \in 0..b
  PROVE  Joins(Upto(s, b), Upto(s, a), Cut(s, a, b)) /\ Cut(s, a, b) \in Seq(X) /\ Len(Cut(s, a, b)) = b - a
<1> DEFINE u == Upto(s, a)
           v == Upto(s, b)
           c == Cut(s, a, b)
           w == u \o c
<1>1. a \in Nat /\ b \in Nat /\ a <= b /\ Len(s) \in Nat /\ a \in 0..Len(s) /\ b \in a..Len(s)
  BY LenProperties
<1>2. /\ u \in Seq(X) /\ Len(u) = a /\ \A j \in 1..a : u[j] = s[j]
      /\ v \in Seq(X) /\ Len(v) = b /\ \A j \in 1..b : v[j] = s[j]
  BY <1>1, UptoFacts
<1>3. c \in Seq(X) /\ Len(c) = b - a /\ \A j \in 1..(b - a) : c[j] = s[a + j]
  BY <1>1, CutFacts
<1> HIDE DEF u, v, c
<1>4. /\ w \in Seq(X) /\ Len(w) = a + (b - a)
      /\ \A j \in 1..(a + (b - a)) : w[j] = IF j <= a THEN u[j] ELSE c[j - a]
  BY <1>2, <1>3, ConcatProperties
<1>5. a + (b - a) = b
  BY <1>1
<1> HIDE DEF w
<1>6. \A j \in 1..b : v[j] = w[j]
  <2> SUFFICES ASSUME NEW j \in 1..b PROVE v[j] = w[j]
    OBVIOUS
  <2>1. CASE j <= a
    <3>1. j \in 1..a
      BY <1>1, <2>1
    <3> QED
      BY <1>2, <1>4, <1>5, <2>1, <3>1
  <2>2. CASE ~(j <= a)
    <3>1. j - a \in 1..(b - a) /\ a + (j - a) = j
      BY <1>1, <2>2
    <3> QED
      BY <1>2, <1>3, <1>4, <1>5, <2>2, <3>1, ZenonT(60)
  <2> QED
    BY <2>1, <2>2
<1>7. v = w
  BY <1>2, <1>4, <1>5, <1>6, SeqEqual
<1> QED
  BY <1>3, <1>7 DEF Joins, u, v, c, w

\* All of it, and none of it.
LEMMA UptoAll ==
  ASSUME NEW X, NEW s \in Seq(X)
  PROVE  Upto(s, Len(s)) = s /\ Upto(s, 0) = <<>>
<1> DEFINE n == Len(s)
           o == 0
<1>1. n \in 0..Len(s) /\ o \in 0..Len(s)
  BY LenProperties
<1> HIDE DEF n, o
<1>2. /\ Upto(s, n) \in Seq(X) /\ Len(Upto(s, n)) = n /\ \A j \in 1..n : Upto(s, n)[j] = s[j]
      /\ Upto(s, o) \in Seq(X) /\ Len(Upto(s, o)) = o
  BY <1>1, UptoFacts
<1>3. Upto(s, n) = s
  BY <1>2, SeqEqual DEF n
<1>4. Upto(s, o) = <<>>
  <2> DEFINE u == Upto(s, o)
  <2> HIDE DEF u
  <2>1. u \in Seq(X) /\ Len(u) = 0
    BY <1>2 DEF u, o
  <2>2. u = <<>>
    BY <2>1, EmptySeq
  <2> QED
    BY <2>2 DEF u
<1> QED
  BY <1>3, <1>4 DEF n, o

\* What is before it does not matter.
LEMMA JoinsAfter ==
  ASSUME NEW X, NEW g \in Seq(X), NEW u \in Seq(X), NEW c \in Seq(X), NEW v, Joins(v, u, c)
  PROVE  Joins(g \o v, g \o u, c) /\ g \o v \in Seq(X) /\ v \in Seq(X)
<1>1. v = u \o c /\ v \in Seq(X)
  BY ConcatProperties DEF Joins
<1>2. g \o (u \o c) = (g \o u) \o c
  BY ConcatAssociative, SMTT(30)
<1>3. g \o v \in Seq(X)
  BY <1>1, ConcatProperties
<1> QED
  BY <1>1, <1>2, <1>3 DEF Joins

\* A buffer is as long as it is, with what was copied to it at the end.
LEMMA OverlayJoins ==
  ASSUME NEW X, NEW size \in Nat, NEW buf \in [1..size -> X], NEW n \in Nat, NEW s \in Seq(X),
         n + Len(s) <= size
  PROVE  /\ Overlay(buf, n, s) \in [1..size -> X]
         /\ Joins(Upto(Overlay(buf, n, s), n + Len(s)), Upto(buf, n), s)
         /\ Upto(buf, n) \in Seq(X)
<1> DEFINE b == Overlay(buf, n, s)
           c == n + Len(s)
           u == Upto(buf, n)
           v == Upto(b, c)
           w == u \o s
<1>1. Len(s) \in Nat /\ n \in Nat /\ c \in Nat /\ c <= size /\ n <= size
  BY LenProperties
<1>2. /\ b \in [1..size -> X] /\ \A j \in 1..n : b[j] = buf[j]
      /\ \A j \in 1..Len(s) : b[n + j] = s[j]
  BY OverlayFacts
<1> HIDE DEF b
<1>3. buf \in Seq(X) /\ Len(buf) = size /\ b \in Seq(X) /\ Len(b) = size
  BY <1>2
<1>4. n \in 0..Len(buf) /\ c \in 0..Len(b)
  BY <1>1, <1>3
<1>5. /\ u \in Seq(X) /\ Len(u) = n /\ \A j \in 1..n : u[j] = buf[j]
      /\ v \in Seq(X) /\ Len(v) = c /\ \A j \in 1..c : v[j] = b[j]
  <2> HIDE DEF c
  <2> QED
    BY <1>3, <1>4, UptoFacts
<1> HIDE DEF u, v
<1>6. /\ w \in Seq(X) /\ Len(w) = n + Len(s)
      /\ \A j \in 1..(n + Len(s)) : w[j] = IF j <= n THEN u[j] ELSE s[j - n]
  BY <1>5, ConcatProperties
<1> HIDE DEF w
<1>7. \A j \in 1..c : v[j] = w[j]
  <2> SUFFICES ASSUME NEW j \in 1..c PROVE v[j] = w[j]
    OBVIOUS
  <2>1. CASE j <= n
    <3>1. j \in 1..n
      BY <1>1, <2>1
    <3> QED
      BY <1>2, <1>5, <1>6, <2>1, <3>1
  <2>2. CASE ~(j <= n)
    <3>1. j - n \in 1..Len(s) /\ n + (j - n) = j
      BY <1>1, <2>2
    <3> QED
      BY <1>2, <1>5, <1>6, <2>2, <3>1
  <2> QED
    BY <2>1, <2>2
<1>8. v = w
  BY <1>5, <1>6, <1>7, SeqEqual
<1> QED
  BY <1>2, <1>5, <1>8 DEF Joins, b, u, v, w

(***************************************************************************)
(* A leaf's thread, in the input p that comes after g.                     *)
(***************************************************************************)
\* Not all leaves have a block after the first pos bytes.
Through(p, pos) == ~(Len(p) - pos >= Wide)

\* It is at pos, and was given its blocks up to there.
LeafAt(T, pos, p, n, k, g, i, live, X) ==
  \E v \in Nat : /\ pos = v * Wide /\ pos \in 0..Len(p)
                 /\ Leaf(T, n, k, g \o Upto(p, pos), i, live, X)

\* More whole blocks are more whole blocks.
LEMMA AlignedMore ==
  ASSUME TreeOK, NEW X, NEW g, NEW w, Aligned(g, w, X), NEW s \in Seq(X), NEW v \in Nat, Len(s) = v * Wide
  PROVE  Aligned(g \o s, w + v, X)
<1>1. g \in Seq(X) /\ w \in Nat /\ Len(g) = w * Wide /\ Wide \in Nat
  BY WideFacts DEF Aligned
<1>2. g \o s \in Seq(X) /\ Len(g \o s) = Len(g) + Len(s)
  BY <1>1, ConcatProperties
<1>3. (w + v) * Wide = w * Wide + v * Wide
  BY <1>1
<1> QED
  BY <1>1, <1>2, <1>3 DEF Aligned

\* At the beginning of the input.
LEMMA LeafStarts ==
  ASSUME TreeOK, NEW X, NEW n, NEW k, NEW i, NEW live, NEW g \in Seq(X), NEW T,
         Leaf(T, n, k, g, i, live, X), NEW p \in Seq(X)
  PROVE  LeafAt(T, 0, p, n, k, g, i, live, X)
<1>1. Upto(p, 0) = <<>>
  BY UptoAll
<1>2. g \o Upto(p, 0) = g
  BY <1>1, ConcatEmptySeq
<1>3. 0 = 0 * Wide /\ 0 \in 0..Len(p)
  BY WideFacts, LenProperties
<1>4. Leaf(T, n, k, g \o Upto(p, 0), i, live, X)
  BY <1>2
<1> QED
  BY <1>3, <1>4 DEF LeafAt

\* A whole block.
LEMMA LeafAdvances ==
  ASSUME TreeOK, NEW X, Zero \in X, NEW n, NEW k \in Seq(X), Len(k) <= BlockBytes,
         NEW i \in Leaves, NEW live, NEW g, NEW w, Aligned(g, w, X), NEW p \in Seq(X),
         NEW T, NEW pos, LeafAt(T, pos, p, n, k, g, i, live, X), ~Through(p, pos)
  PROVE  LeafAt(NodeUpdate(T, BlockOf(p, pos, i)), pos + Wide, p, n, k, g, i, live, X)
<1> DEFINE z == pos + Wide
           r == Cut(p, pos, z)
           x == g \o Upto(p, pos)
           e == g \o Upto(p, z)
           N == NodeUpdate(T, BlockOf(p, pos, i))
<1>1. PICK v \in Nat : pos = v * Wide /\ pos \in 0..Len(p) /\ Leaf(T, n, k, x, i, live, X)
  BY DEF LeafAt
<1>2. Wide \in Nat \ {0} /\ Len(p) \in Nat /\ pos \in Nat /\ Len(p) - pos >= Wide /\ g \in Seq(X)
  BY <1>1, WideFacts, LenProperties DEF Through, Aligned
<1>3. z \in pos..Len(p) /\ z \in 0..Len(p) /\ pos \in 0..z /\ z - pos = Wide /\ z <= pos + Wide
  BY <1>2
<1>4. z = (v + 1) * Wide /\ v + 1 \in Nat
  <2> DEFINE y == v * Wide
  <2>1. (v + 1) * Wide = y + Wide /\ pos = y
    BY <1>1, <1>2
  <2> HIDE DEF y
  <2> QED
    BY <2>1
<1>9. z = pos + Wide
  OBVIOUS
<1> HIDE DEF z
<1>5. Joins(Upto(p, z), Upto(p, pos), r) /\ r \in Seq(X) /\ Len(r) = Wide
  BY <1>3, UptoJoins
<1>6. Upto(p, pos) \in Seq(X) /\ Len(Upto(p, pos)) = v * Wide
  BY <1>1, UptoFacts
<1>7. Aligned(x, w + v, X)
  BY <1>6, AlignedMore
<1>8. Joins(e, x, r)
  BY <1>2, <1>5, <1>6, JoinsAfter
<1>15. NextEnd(p, pos, z)
  BY <1>3, <1>9 DEF NextEnd
<1>10. BlockOf(p, pos, i) = BlockOf(r, 0, i)
  BY <1>1, <1>15, BlockOfNext
<1>11. Fits(r)
  BY <1>2, <1>5 DEF Fits
<1> HIDE DEF x, e, r
<1>12. Leaf(NodeUpdate(T, BlockOf(r, 0, i)), n, k, e, i, live, X)
  BY <1>1, <1>5, <1>7, <1>8, <1>11, LeafGiven
<1>13. Leaf(N, n, k, e, i, live, X)
  BY <1>10, <1>12
<1> HIDE DEF N
<1>14. LeafAt(N, z, p, n, k, g, i, live, X)
  BY <1>3, <1>4, <1>13, Zenon DEF LeafAt, e
<1> QED
  BY <1>14 DEF N, z

\* When all are through, each is before the same rest.
Rest(p) == Len(p) - (Len(p) % Wide)

\* It is less than all leaves take.
LEMMA RestFacts ==
  ASSUME TreeOK, NEW X, NEW p \in Seq(X)
  PROVE  /\ Rest(p) \in 0..Len(p) /\ Len(p) - Rest(p) \in 0..(Wide - 1)
         /\ \E v \in Nat : Rest(p) = v * Wide
<1> DEFINE n == Len(p)
           v == n \div Wide
           r == n % Wide
<1>1. Wide \in Nat \ {0} /\ n \in Nat
  BY WideFacts, LenProperties
<1>2. v \in Nat /\ r \in 0..(Wide - 1) /\ n = Wide * v + r
  BY <1>1, DivMod
<1>3. Rest(p) = n - r
  BY DEF Rest
<1> HIDE DEF n, v, r
<1>4. Wide * v = v * Wide /\ v * Wide \in Nat
  BY <1>1, <1>2
<1> DEFINE y == v * Wide
<1>5. y \in Nat /\ n = y + r
  BY <1>2, <1>4
<1> HIDE DEF y
<1>6. Rest(p) = y /\ Rest(p) \in 0..n /\ n - Rest(p) = r
  BY <1>1, <1>2, <1>3, <1>5
<1> QED
  BY <1>2, <1>6 DEF y, n

\* It was given all but that rest.
LEMMA LeafThrough ==
  ASSUME TreeOK, NEW X, NEW n, NEW k, NEW i, NEW live, NEW g, NEW p \in Seq(X),
         NEW T, NEW pos, LeafAt(T, pos, p, n, k, g, i, live, X), Through(p, pos)
  PROVE  pos = Rest(p) /\ Leaf(T, n, k, g \o Upto(p, Rest(p)), i, live, X)
<1>1. PICK v \in Nat : pos = v * Wide /\ pos \in 0..Len(p) /\ Leaf(T, n, k, g \o Upto(p, pos), i, live, X)
  BY DEF LeafAt
<1>2. Wide \in Nat \ {0} /\ Len(p) \in Nat /\ ~(Len(p) - pos >= Wide)
  BY WideFacts, LenProperties DEF Through
<1> DEFINE L == Len(p)
           r == L - pos
<1>3. r \in 0..(Wide - 1) /\ L = pos + r /\ pos \in Nat
  BY <1>1, <1>2
<1>4. Wide * v = v * Wide
  BY <1>2
<1>5. (Wide * v + r) % Wide = r
  BY <1>2, <1>3, DivModUnique
<1> HIDE DEF r, L
<1>6. L % Wide = r
  BY <1>1, <1>3, <1>4, <1>5
<1>7. Rest(p) = L - r
  BY <1>6 DEF Rest, L
<1>8. Rest(p) = pos
  BY <1>3, <1>7
<1> QED
  BY <1>1, <1>8

\* And with its block of the rest, all.
LEMMA LeafRest ==
  ASSUME TreeOK, NEW X, Zero \in X, NEW n, NEW k \in Seq(X), Len(k) <= BlockBytes,
         NEW i \in Leaves, NEW live, NEW g, NEW w, Aligned(g, w, X), NEW p \in Seq(X),
         NEW T, NEW pos, LeafAt(T, pos, p, n, k, g, i, live, X), Through(p, pos)
  PROVE  Leaf(NodeUpdate(T, BlockOf(p, pos, i)), n, k, g \o p, i, live, X)
<1> DEFINE z == Len(p)
           r == Cut(p, pos, z)
           x == g \o Upto(p, pos)
           e == g \o Upto(p, z)
<1>1. PICK v \in Nat : pos = v * Wide /\ pos \in 0..Len(p) /\ Leaf(T, n, k, x, i, live, X)
  BY DEF LeafAt
<1>2. Wide \in Nat \ {0} /\ Len(p) \in Nat /\ pos \in Nat /\ ~(Len(p) - pos >= Wide) /\ g \in Seq(X)
  BY <1>1, WideFacts, LenProperties DEF Through, Aligned
<1>3. z \in pos..Len(p) /\ z \in 0..Len(p) /\ pos \in 0..z /\ z - pos <= Wide /\ z <= pos + Wide
  BY <1>1, <1>2
<1>4. z = Len(p)
  OBVIOUS
<1> HIDE DEF z
<1>5. Joins(Upto(p, z), Upto(p, pos), r) /\ r \in Seq(X) /\ Len(r) = z - pos
  BY <1>3, UptoJoins
<1>6. Upto(p, pos) \in Seq(X) /\ Len(Upto(p, pos)) = v * Wide
  BY <1>1, UptoFacts
<1>7. Aligned(x, w + v, X)
  BY <1>6, AlignedMore
<1>8. Joins(e, x, r)
  BY <1>2, <1>5, <1>6, JoinsAfter
<1>10. BlockOf(p, pos, i) = BlockOf(r, 0, i)
  <2>1. NextEnd(p, pos, z)
    BY <1>3, <1>4 DEF NextEnd
  <2>2. pos \in 0..Len(p) /\ r = Cut(p, pos, z)
    BY <1>1
  <2> HIDE DEF r
  <2> QED
    BY <2>1, <2>2, BlockOfNext
<1>11. Fits(r)
  BY <1>2, <1>3, <1>5 DEF Fits
<1>9. e = g \o p
  BY <1>4, UptoAll
<1> HIDE DEF x, e, r
<1>12. Leaf(NodeUpdate(T, BlockOf(r, 0, i)), n, k, e, i, live, X)
  BY <1>1, <1>5, <1>7, <1>8, <1>11, LeafGiven
<1> QED
  BY <1>9, <1>10, <1>12

(***************************************************************************)
(* A context, for digests of n bytes and the key k, live until it is       *)
(* finished.                                                               *)
(***************************************************************************)
TRec(s, r, b, u, o) == [S |-> s, R |-> r, buf |-> b, buflen |-> u, outlen |-> o]
Array(f) == f = [i \in Leaves |-> f[i]]

RootHolds(T, n, k, live) == IF live THEN T = NewRoot(n, k) ELSE RootOver(T, n, k)

TreeOf(T, n, k, live, X) ==
  /\ T = TRec(T.S, T.R, T.buf, T.buflen, n) /\ n \in 1..OutBytes
  /\ T.buf \in [1..Wide -> X] /\ Array(T.S) /\ RootHolds(T.R, n, k, live)

\* The first whole blocks of all leaves are g.
WholeBlocks(g, X) == \E w : Aligned(g, w, X)

\* What comes after them is in the buffer.
Holding(b, u, g, m, X) == WholeBlocks(g, X) /\ u \in 0..(Wide - 1) /\ Joins(m, g, Upto(b, u))

\* The leaves were given those.
LeavesHold(s, n, k, g, live, X) == \A i \in Leaves : Leaf(s[i], n, k, g, i, live, X)

TreeIdle(T, n, k, m, live, X) ==
  /\ TreeOf(T, n, k, live, X)
  /\ \E g : Holding(T.buf, T.buflen, g, m, X) /\ LeavesHold(T.S, n, k, g, live, X)

\* The parts of a context.
LEMMA TRecFacts ==
  ASSUME NEW s, NEW r, NEW b, NEW u, NEW o, NEW T, T = TRec(s, r, b, u, o)
  PROVE  /\ T.S = s /\ T.R = r /\ T.buf = b /\ T.buflen = u /\ T.outlen = o
         /\ T = TRec(T.S, T.R, T.buf, T.buflen, T.outlen)
BY DEF TRec

\* A change of them.
LEMMA TRecChange ==
  ASSUME NEW s, NEW r, NEW b, NEW u, NEW o, NEW z
  PROVE  /\ [TRec(s, r, b, u, o) EXCEPT !.S = z] = TRec(z, r, b, u, o)
         /\ [TRec(s, r, b, u, o) EXCEPT !.R = z] = TRec(s, z, b, u, o)
         /\ [TRec(s, r, b, u, o) EXCEPT !.buf = z] = TRec(s, r, z, u, o)
         /\ [TRec(s, r, b, u, o) EXCEPT !.buflen = z] = TRec(s, r, b, z, o)
BY DEF TRec

\* An array over the leaves, with one element replaced.
Put(f, i, z) == [f EXCEPT ![i] = z]
PutAt(e, f, i, z) == Array(e) /\ e[i] = z /\ \A j \in Leaves : j # i => e[j] = f[j]

\* Writing one leaf's element of an array of the leaves changes that element and no other.
LEMMA PutFacts ==
  ASSUME NEW f, Array(f), NEW i \in Leaves, NEW z
  PROVE  PutAt(Put(f, i, z), f, i, z)
BY DEF Array, Put, PutAt

\* blake2sp_init and blake2sp_init_key.
LEMMA NewTree ==
  ASSUME TreeOK, NEW X, Zero \in X, NEW n \in 1..OutBytes, NEW k \in Seq(X), Len(k) <= BlockBytes
  PROVE  TreeIdle(TRec(NewLeaves(n, k), NewRoot(n, k), Zeros(Wide), 0, n), n, k, <<>>, TRUE, X)
<1> DEFINE s == NewLeaves(n, k)
           r == NewRoot(n, k)
           b == Zeros(Wide)
           o == 0
           live == TRUE
           e == <<>>
           T == TRec(s, r, b, o, n)
<1>1. Wide \in Nat \ {0}
  BY WideFacts
<1>2. b \in [1..Wide -> X]
  BY <1>1 DEF Zeros
<1>3. Array(s) /\ \A i \in Leaves : s[i] = NewLeaf(n, k, i)
  BY DEF NewLeaves, Array
<1>4. LeavesHold(s, n, k, e, live, X)
  <2> SUFFICES ASSUME NEW i \in Leaves PROVE Leaf(s[i], n, k, e, i, live, X)
    BY DEF LeavesHold
  <2> HIDE DEF s, live
  <2>1. \A l : Leaf(NewLeaf(n, k, i), n, k, <<>>, i, l, X)
    BY NewLeafTakes
  <2> QED
    BY <1>3, <2>1
<1>5. RootHolds(r, n, k, live)
  BY DEF RootHolds
<1>6. Holding(b, o, e, e, X)
  <2>1. WholeBlocks(e, X)
    BY NoneAligned DEF WholeBlocks
  <2>2. o \in 0..(Wide - 1)
    BY <1>1
  <2>3. b \in Seq(X)
    BY <1>1, <1>2
  <2>4. Upto(b, 0) = e
    BY <2>3, UptoAll
  <2>5. e \o e = e
    OBVIOUS
  <2> QED
    BY <2>1, <2>2, <2>4, <2>5, Zenon DEF Holding, Joins
<1> HIDE DEF s, r, b, o, live, e
<1>7. T.S = s /\ T.R = r /\ T.buf = b /\ T.buflen = o /\ T = TRec(T.S, T.R, T.buf, T.buflen, n)
  BY TRecFacts
<1> HIDE DEF T
<1>8. TreeOf(T, n, k, live, X)
  BY <1>2, <1>3, <1>5, <1>7, Zenon DEF TreeOf
<1>9. TreeIdle(T, n, k, e, live, X)
  BY <1>4, <1>6, <1>7, <1>8, Zenon DEF TreeIdle
<1> QED
  BY <1>9 DEF T, s, r, b, o, live, e

(***************************************************************************)
(* blake2sp_update.                                                        *)
(***************************************************************************)
TLoc(left, pos, hash, ended, i, local) ==
  [left |-> left, pos |-> pos, hash |-> hash, ended |-> ended, i |-> i, local |-> local]

LocOf(L) == L = TLoc(L.left, L.pos, L.hash, L.ended, L.i, L.local)

\* Where each leaf is in the input p, after g.
LeavesAt(s, pos, p, n, k, g, live, X) ==
  \A i \in Leaves : LeafAt(s[i], pos[i], p, n, k, g, i, live, X)

\* The input p comes after g and what is in the buffer, and fills it only if that is nothing.
Follows(b, left, g, p, m, X) ==
  /\ WholeBlocks(g, X) /\ p \in Seq(X) /\ left \in 0..(Wide - 1)
  /\ Joins(m, g \o Upto(b, left), p) /\ (left = 0 \/ left + Len(p) < Wide)

TreeBusy(T, L, p, n, k, m, live, X) ==
  /\ TreeOf(T, n, k, live, X) /\ LocOf(L) /\ Array(L.pos)
  /\ \E g : Follows(T.buf, L.left, g, p, m, X) /\ LeavesAt(T.S, L.pos, p, n, k, g, live, X)

\* The locals at the beginning.
Fresh(L, left) ==
  /\ LocOf(L) /\ L.left = left /\ Array(L.pos) /\ (\A i \in Leaves : L.pos[i] = 0)
  /\ L.ended = {} /\ L.i = 0 /\ L.local = FALSE /\ Array(L.hash)

\* The locals a call starts with: every leaf at the beginning of the input, nothing hashed or ended.
LEMMA LocalsFacts ==
  ASSUME NEW left
  PROVE  Fresh(Locals(left), left)
BY DEF Locals, LocOf, TLoc, Array, Fresh

\* The leaves at the beginning of the input.
LEMMA LeavesStart ==
  ASSUME TreeOK, NEW X, NEW n, NEW k, NEW live, NEW g \in Seq(X), NEW s,
         LeavesHold(s, n, k, g, live, X), NEW p \in Seq(X), NEW pos, \A i \in Leaves : pos[i] = 0
  PROVE  LeavesAt(s, pos, p, n, k, g, live, X)
<1> SUFFICES ASSUME NEW i \in Leaves PROVE LeafAt(s[i], pos[i], p, n, k, g, i, live, X)
  BY DEF LeavesAt
<1>1. Leaf(s[i], n, k, g, i, live, X) /\ pos[i] = 0
  BY DEF LeavesHold
<1>2. LeafAt(s[i], 0, p, n, k, g, i, live, X)
  BY <1>1, LeafStarts
<1> QED
  BY <1>1, <1>2

\* An input that does not fill the buffer.
LEMMA UpdatePlain ==
  ASSUME TreeOK, NEW X, NEW n, NEW k, NEW m, NEW live, NEW T, TreeIdle(T, n, k, m, live, X),
         NEW p \in Seq(X), ~Flushes(T, p), NEW z, Joins(z, m, p)
  PROVE  TreeBusy(T, Locals(T.buflen), p, n, k, z, live, X)
<1> DEFINE L == Locals(T.buflen)
<1>1. TreeOf(T, n, k, live, X)
  BY DEF TreeIdle
<1>2. PICK g : Holding(T.buf, T.buflen, g, m, X) /\ LeavesHold(T.S, n, k, g, live, X)
  BY DEF TreeIdle
<1>3. WholeBlocks(g, X) /\ T.buflen \in 0..(Wide - 1) /\ Joins(m, g, Upto(T.buf, T.buflen))
  BY <1>2 DEF Holding
<1>4. g \in Seq(X)
  BY <1>3 DEF WholeBlocks, Aligned
<1>5. LocOf(L) /\ L.left = T.buflen /\ Array(L.pos) /\ (\A i \in Leaves : L.pos[i] = 0)
  <2>1. Fresh(L, T.buflen)
    BY LocalsFacts
  <2> HIDE DEF L
  <2> QED
    BY <2>1 DEF Fresh
<1> HIDE DEF L
<1>6. T.buflen = 0 \/ T.buflen + Len(p) < Wide
  <2>1. Len(p) \in Nat /\ Wide \in Nat
    BY LenProperties, WideFacts
  <2> QED
    BY <1>3, <2>1 DEF Flushes
<1>7. Joins(z, g \o Upto(T.buf, T.buflen), p)
  BY <1>3, Zenon DEF Joins
<1>8. Follows(T.buf, L.left, g, p, z, X)
  BY <1>3, <1>5, <1>6, <1>7 DEF Follows
<1>9. LeavesAt(T.S, L.pos, p, n, k, g, live, X)
  BY <1>2, <1>4, <1>5, LeavesStart
<1> QED
  BY <1>1, <1>5, <1>8, <1>9 DEF TreeBusy, L

\* What is in the buffer, and what fills it, are one after the other.
LEMMA JoinsFlush ==
  ASSUME NEW X, NEW g \in Seq(X), NEW a \in Seq(X), NEW q \in Seq(X), NEW r \in Seq(X),
         NEW b, Joins(b, a, q), NEW p, Joins(p, q, r), NEW m, Joins(m, g, a), NEW z, Joins(z, m, p)
  PROVE  Joins(z, g \o b, r)
<1>1. b = a \o q /\ p = q \o r /\ m = g \o a /\ z = m \o p
  BY DEF Joins
<1>2. z = (g \o a) \o (q \o r)
  BY <1>1
<1>3. g \o a \in Seq(X)
  BY ConcatProperties
<1>4. (g \o a) \o (q \o r) = ((g \o a) \o q) \o r
  <2> DEFINE c == g \o a
  <2>1. c \in Seq(X)
    BY <1>3
  <2> HIDE DEF c
  <2>2. q \in Seq(X) /\ r \in Seq(X)
    OBVIOUS
  <2>3. (c \o q) \o r = c \o (q \o r)
    BY ONLY <2>1, <2>2, ConcatAssociative, SMTT(60)
  <2> QED
    BY <2>3 DEF c
<1>5. (g \o a) \o q = g \o (a \o q)
  BY ConcatAssociative
<1> QED
  BY <1>1, <1>2, <1>4, <1>5, Zenon DEF Joins

\* What blake2sp_update copies to the buffer, and how it leaves the leaves.
Filled(T, p) == Overlay(T.buf, T.buflen, SubSeq(p, 1, Wide - T.buflen))
Given(s, b) == [i \in Leaves |-> NodeUpdate(s[i], BlockOf(b, 0, i))]
Flushed(T, p) == [T EXCEPT !.buf = Filled(T, p),
                           !.S = [i \in Leaves |-> NodeUpdate(@[i], BlockOf(Filled(T, p), 0, i))]]

\* The context after that.
LEMMA FlushedTree ==
  ASSUME NEW s, NEW r, NEW b, NEW u, NEW o, NEW T, T = TRec(s, r, b, u, o), NEW p
  PROVE  Flushed(T, p) = TRec(Given(s, Filled(T, p)), r, Filled(T, p), u, o)
<1> DEFINE y == Filled(T, p)
           z == Given(s, y)
<1>1. [[TRec(s, r, b, u, o) EXCEPT !.buf = y] EXCEPT !.S = z] = TRec(z, r, y, u, o)
  <2> HIDE DEF y, z
  <2>1. [TRec(s, r, b, u, o) EXCEPT !.buf = y] = TRec(s, r, y, u, o)
    BY DEF TRec
  <2>2. [TRec(s, r, y, u, o) EXCEPT !.S = z] = TRec(z, r, y, u, o)
    BY TRecChange
  <2> QED
    BY <2>1, <2>2, Zenon
<1>2. Given(T.S, y) = z
  <2>1. T.S = s
    BY TRecFacts
  <2> QED
    BY <2>1
<1>3. Flushed(T, p) = [[T EXCEPT !.buf = y] EXCEPT !.S = z]
  <2>1. Flushed(T, p) = [[T EXCEPT !.buf = y] EXCEPT !.S = Given(T.S, y)]
    BY DEF Flushed, Given
  <2> HIDE DEF y, z
  <2> QED
    BY <2>1, <1>2
<1> QED
  BY <1>1, <1>3

\* The buffer, when the input fills it, and what is left of that.
Cuts(p, fill, q, r, X) == Joins(p, q, r) /\ q \in Seq(X) /\ r \in Seq(X) /\ Len(q) = fill
\* When the input fills the buffer, the buffer and the input it takes are together one whole
\* stripe of the stream, and the input is cut where the buffer ends.
LEMMA FillFacts ==
  ASSUME TreeOK, NEW X, NEW T, NEW p \in Seq(X), Flushes(T, p), T.buflen \in 0..(Wide - 1),
         T.buf \in [1..Wide -> X]
  PROVE  /\ Cuts(p, Wide - T.buflen, SubSeq(p, 1, Wide - T.buflen), DropFirst(p, Wide - T.buflen), X)
         /\ Filled(T, p) \in Seq(X) /\ Len(Filled(T, p)) = Wide /\ Filled(T, p) \in [1..Wide -> X]
         /\ Joins(Filled(T, p), Upto(T.buf, T.buflen), SubSeq(p, 1, Wide - T.buflen))
<1> DEFINE u == T.buflen
           fill == Wide - u
           q == SubSeq(p, 1, fill)
           r == DropFirst(p, fill)
           b == Filled(T, p)
<1>1. Wide \in Nat \ {0} /\ u \in Nat /\ Len(p) \in Nat /\ Len(p) >= fill /\ fill \in Nat
  BY WideFacts, LenProperties DEF Flushes
<1>2. fill \in 0..Len(p) /\ u + fill = Wide
  BY <1>1
<1>3. b = Overlay(T.buf, u, q)
  BY DEF Filled
<1>4. q = Upto(p, fill) /\ r = Cut(p, fill, Len(p))
  <2>1. q = Upto(p, fill)
    BY DEF Upto
  <2>2. Len(p) \in fill..Len(p) /\ fill \in Nat
    BY <1>1
  <2> HIDE DEF fill
  <2>3. SubSeq(p, fill + 1, Len(p)) = Cut(p, fill, Len(p))
    BY <2>2, CutFacts
  <2> QED
    BY <2>1, <2>3 DEF DropFirst
<1> HIDE DEF u, fill, q, r, b
<1>5. q \in Seq(X) /\ Len(q) = fill
  BY <1>2, <1>4, UptoFacts
<1>6. Joins(p, q, r) /\ r \in Seq(X)
  <2>1. Len(p) \in 0..Len(p) /\ fill \in 0..Len(p)
    BY <1>1, <1>2
  <2>2. Joins(Upto(p, Len(p)), Upto(p, fill), Cut(p, fill, Len(p))) /\ Cut(p, fill, Len(p)) \in Seq(X)
    BY <2>1, UptoJoins
  <2> QED
    BY <1>4, <2>2, UptoAll
<1>7. u + Len(q) <= Wide /\ u + Len(q) = Wide /\ Wide \in Nat /\ u \in Nat
  BY <1>1, <1>2, <1>5
<1>8. b \in [1..Wide -> X] /\ Joins(Upto(b, Wide), Upto(T.buf, u), q)
  BY <1>3, <1>5, <1>7, OverlayJoins
<1>9. b \in Seq(X) /\ Len(b) = Wide
  BY <1>7, <1>8, LenProperties
<1>10. Upto(b, Wide) = b
  BY <1>9, UptoAll
<1> QED
  BY <1>5, <1>6, <1>8, <1>9, <1>10 DEF Cuts, u, fill, q, r, b

\* An input that fills the buffer.
LEMMA UpdateFlush ==
  ASSUME TreeOK, NEW X, Zero \in X, NEW n, NEW k \in Seq(X), Len(k) <= BlockBytes,
         NEW m, NEW live, NEW T, TreeIdle(T, n, k, m, live, X),
         NEW p \in Seq(X), Flushes(T, p), NEW z, Joins(z, m, p)
  PROVE  TreeBusy(Flushed(T, p), Locals(0), DropFirst(p, Wide - T.buflen), n, k, z, live, X)
<1> DEFINE b == Filled(T, p)
           s == Given(T.S, b)
           r == DropFirst(p, Wide - T.buflen)
           q == SubSeq(p, 1, Wide - T.buflen)
           left == 0
           F == Flushed(T, p)
           L == Locals(left)
<1>1. TreeOf(T, n, k, live, X)
  BY DEF TreeIdle
<1>2. PICK g : Holding(T.buf, T.buflen, g, m, X) /\ LeavesHold(T.S, n, k, g, live, X)
  BY DEF TreeIdle
<1>3. WholeBlocks(g, X) /\ T.buflen \in 0..(Wide - 1) /\ Joins(m, g, Upto(T.buf, T.buflen))
  BY <1>2 DEF Holding
<1>4. T = TRec(T.S, T.R, T.buf, T.buflen, n) /\ n \in 1..OutBytes /\ T.buf \in [1..Wide -> X]
      /\ Array(T.S) /\ RootHolds(T.R, n, k, live)
  BY <1>1 DEF TreeOf
<1>5. PICK w : Aligned(g, w, X)
  BY <1>3 DEF WholeBlocks
<1>6. g \in Seq(X) /\ w \in Nat
  BY <1>5 DEF Aligned
<1>7. /\ Cuts(p, Wide - T.buflen, q, r, X)
      /\ b \in Seq(X) /\ Len(b) = Wide /\ b \in [1..Wide -> X]
      /\ Joins(b, Upto(T.buf, T.buflen), q)
  BY <1>3, <1>4, FillFacts
<1>8. Joins(p, q, r) /\ q \in Seq(X) /\ r \in Seq(X)
  BY <1>7 DEF Cuts
<1>9. Upto(T.buf, T.buflen) \in Seq(X)
  <2>1. Wide \in Nat \ {0}
    BY WideFacts
  <2>2. T.buf \in Seq(X) /\ Len(T.buf) = Wide
    BY <1>4, <2>1, LenProperties
  <2>3. T.buflen \in 0..Len(T.buf)
    BY <1>3, <2>1, <2>2
  <2> QED
    BY <2>2, <2>3, UptoFacts
<1> DEFINE e == g \o b
<1>10. Joins(z, e, r)
  <2> DEFINE a == Upto(T.buf, T.buflen)
  <2>1. a \in Seq(X) /\ Joins(m, g, a) /\ Joins(b, a, q)
    BY <1>3, <1>7, <1>9
  <2> HIDE DEF a, b, q, r
  <2>2. Joins(z, g \o b, r)
    BY <2>1, <1>6, <1>8, JoinsFlush
  <2> QED
    BY <2>2
<1>11. Aligned(e, w + 1, X) /\ e \in Seq(X)
  <2> DEFINE v == 1
  <2>1. v \in Nat /\ Len(b) = v * Wide
    BY <1>7, WideFacts
  <2> HIDE DEF v, e, b
  <2>2. Aligned(g \o b, w + v, X)
    BY <1>5, <1>7, <2>1, AlignedMore
  <2> QED
    BY <2>2 DEF v, e, Aligned
<1>12. F = TRec(s, T.R, b, T.buflen, n)
  <2> HIDE DEF s, b, F
  <2>1. Flushed(T, p) = TRec(Given(T.S, Filled(T, p)), T.R, Filled(T, p), T.buflen, n)
    BY <1>4, FlushedTree
  <2> QED
    BY <2>1 DEF s, b, F
<1>13. Fresh(L, left)
  BY LocalsFacts
<1>14. Joins(e, g, b) /\ Fits(b)
  BY <1>7, WideFacts DEF Joins, Fits
<1>15. Array(s) /\ \A i \in Leaves : s[i] = NodeUpdate(T.S[i], BlockOf(b, 0, i))
  BY DEF Given, Array
<1> HIDE DEF b, s, r, q, F, L, e
<1>16. LeavesHold(s, n, k, e, live, X)
  <2> SUFFICES ASSUME NEW i \in Leaves PROVE Leaf(s[i], n, k, e, i, live, X)
    BY DEF LeavesHold
  <2>1. Leaf(T.S[i], n, k, g, i, live, X)
    BY <1>2 DEF LeavesHold
  <2>2. Leaf(NodeUpdate(T.S[i], BlockOf(b, 0, i)), n, k, e, i, live, X)
    BY <2>1, <1>5, <1>7, <1>14, LeafGiven
  <2> QED
    BY <1>15, <2>2
<1>17. F.S = s /\ F.R = T.R /\ F.buf = b /\ F = TRec(F.S, F.R, F.buf, F.buflen, n)
  BY <1>12, TRecFacts
<1>18. LocOf(L) /\ L.left = left /\ Array(L.pos) /\ (\A i \in Leaves : L.pos[i] = 0)
  BY <1>13 DEF Fresh
<1>19. TreeOf(F, n, k, live, X)
  BY <1>4, <1>7, <1>15, <1>17, Zenon DEF TreeOf
<1>20. Follows(b, left, e, r, z, X)
  <2>1. WholeBlocks(e, X)
    BY <1>11 DEF WholeBlocks
  <2>2. left \in 0..(Wide - 1)
    BY WideFacts
  <2>3. e \o Upto(b, left) = e
    <3>1. Upto(b, 0) = <<>>
      BY <1>7, UptoAll
    <3>2. e \o <<>> = e
      BY <1>11, ConcatEmptySeq
    <3> QED
      BY <3>1, <3>2
  <2> QED
    BY <1>8, <1>10, <2>1, <2>2, <2>3, Zenon DEF Follows
<1>21. LeavesAt(s, L.pos, r, n, k, e, live, X)
  BY <1>8, <1>11, <1>16, <1>18, LeavesStart
<1>22. TreeBusy(F, L, r, n, k, z, live, X)
  BY <1>17, <1>18, <1>19, <1>20, <1>21, Zenon DEF TreeBusy
<1> QED
  BY <1>22 DEF F, L, r, left

\* A block of one leaf.
Stepped(T, i, block) == [T EXCEPT !.S[i] = NodeUpdate(@, block)]
Moved(L, i) == [L EXCEPT !.pos[i] = @ + Wide]
BlockGiven(s, pos, p, i) == Put(s, i, NodeUpdate(s[i], BlockOf(p, pos[i], i)))
Further(pos, i) == Put(pos, i, pos[i] + Wide)

\* How it changes a context, and the locals.
LEMMA SteppedTree ==
  ASSUME NEW s, NEW r, NEW b, NEW u, NEW o, NEW T, T = TRec(s, r, b, u, o), NEW i, NEW block
  PROVE  Stepped(T, i, block) = TRec(Put(s, i, NodeUpdate(s[i], block)), r, b, u, o)
BY DEF TRec, Stepped, Put

\* When a leaf's thread has passed a stripe, its position is the only one of the locals that changed.
LEMMA MovedLoc ==
  ASSUME NEW l, NEW pos, NEW h, NEW e, NEW j, NEW c, NEW L, L = TLoc(l, pos, h, e, j, c), NEW i
  PROVE  Moved(L, i) = TLoc(l, Further(pos, i), h, e, j, c)
BY DEF TLoc, Moved, Further, Put

\* The parts of the locals.
LEMMA TLocFacts ==
  ASSUME NEW l, NEW pos, NEW h, NEW e, NEW j, NEW c, NEW L, L = TLoc(l, pos, h, e, j, c)
  PROVE  /\ L.left = l /\ L.pos = pos /\ L.hash = h /\ L.ended = e /\ L.i = j /\ L.local = c
         /\ LocOf(L)
BY DEF TLoc, LocOf

\* One leaf's block does not change where the others are.
OneMoved(s2, pos2, s, pos, i) ==
  Array(s2) /\ Array(pos2) /\ \A j \in Leaves : j # i => s2[j] = s[j] /\ pos2[j] = pos[j]

\* A leaf that takes its next block holds, of the same stream, the blocks up to its new position.
LEMMA LeafStep ==
  ASSUME TreeOK, NEW X, Zero \in X, NEW n, NEW k \in Seq(X), Len(k) <= BlockBytes, NEW live,
         NEW g, WholeBlocks(g, X), NEW p \in Seq(X), NEW s, Array(s), NEW pos, Array(pos),
         NEW i \in Leaves, LeafAt(s[i], pos[i], p, n, k, g, i, live, X), ~Through(p, pos[i])
  PROVE  /\ OneMoved(BlockGiven(s, pos, p, i), Further(pos, i), s, pos, i)
         /\ LeafAt(BlockGiven(s, pos, p, i)[i], Further(pos, i)[i], p, n, k, g, i, live, X)
<1>1. PICK w : Aligned(g, w, X)
  BY DEF WholeBlocks
<1> DEFINE a == NodeUpdate(s[i], BlockOf(p, pos[i], i))
           z == pos[i] + Wide
<1>2. LeafAt(a, z, p, n, k, g, i, live, X)
  BY <1>1, LeafAdvances
<1>3. BlockGiven(s, pos, p, i) = Put(s, i, a) /\ Further(pos, i) = Put(pos, i, z)
  BY DEF BlockGiven, Further
<1> HIDE DEF a, z
<1>4. PutAt(Put(s, i, a), s, i, a)
  BY PutFacts
<1>5. PutAt(Put(pos, i, z), pos, i, z)
  BY PutFacts
<1> QED
  BY <1>2, <1>3, <1>4, <1>5 DEF PutAt, OneMoved

\* A step of a leaf's thread in blake2sp_update.
LEMMA UpdateBlock ==
  ASSUME TreeOK, NEW X, Zero \in X, NEW n, NEW k \in Seq(X), Len(k) <= BlockBytes,
         NEW m, NEW live, NEW T, NEW L, NEW p, TreeBusy(T, L, p, n, k, m, live, X),
         NEW i \in Leaves, ~Through(p, L.pos[i])
  PROVE  TreeBusy(Stepped(T, i, BlockOf(p, L.pos[i], i)), Moved(L, i), p, n, k, m, live, X)
<1> DEFINE s == BlockGiven(T.S, L.pos, p, i)
           pos == Further(L.pos, i)
           F == Stepped(T, i, BlockOf(p, L.pos[i], i))
           M == Moved(L, i)
<1>1. TreeOf(T, n, k, live, X) /\ LocOf(L) /\ Array(L.pos)
  BY DEF TreeBusy
<1>2. PICK g : Follows(T.buf, L.left, g, p, m, X) /\ LeavesAt(T.S, L.pos, p, n, k, g, live, X)
  BY DEF TreeBusy
<1>3. /\ T = TRec(T.S, T.R, T.buf, T.buflen, n) /\ n \in 1..OutBytes
      /\ T.buf \in [1..Wide -> X] /\ Array(T.S) /\ RootHolds(T.R, n, k, live)
  BY <1>1 DEF TreeOf
<1>4. WholeBlocks(g, X) /\ p \in Seq(X)
  BY <1>2 DEF Follows
<1>5. LeafAt(T.S[i], L.pos[i], p, n, k, g, i, live, X)
  BY <1>2 DEF LeavesAt
<1> HIDE DEF s, pos
<1>6. /\ Array(s) /\ Array(pos) /\ LeafAt(s[i], pos[i], p, n, k, g, i, live, X)
      /\ \A j \in Leaves : j # i => s[j] = T.S[j] /\ pos[j] = L.pos[j]
  <2>1. /\ OneMoved(BlockGiven(T.S, L.pos, p, i), Further(L.pos, i), T.S, L.pos, i)
        /\ LeafAt(BlockGiven(T.S, L.pos, p, i)[i], Further(L.pos, i)[i], p, n, k, g, i, live, X)
    BY <1>1, <1>3, <1>4, <1>5, LeafStep
  <2> QED
    BY <2>1 DEF s, pos, OneMoved
<1>7. F = TRec(s, T.R, T.buf, T.buflen, n)
  BY <1>3, SteppedTree DEF s, BlockGiven
<1>8. M = TLoc(L.left, pos, L.hash, L.ended, L.i, L.local)
  BY <1>1, MovedLoc DEF pos, LocOf
<1> HIDE DEF F, M
<1>9. F.S = s /\ F.R = T.R /\ F.buf = T.buf /\ F = TRec(F.S, F.R, F.buf, F.buflen, n)
  BY <1>7, TRecFacts
<1>10. M.left = L.left /\ M.pos = pos /\ LocOf(M)
  BY <1>8, TLocFacts
<1>11. LeavesAt(s, pos, p, n, k, g, live, X)
  <2> SUFFICES ASSUME NEW j \in Leaves PROVE LeafAt(s[j], pos[j], p, n, k, g, j, live, X)
    BY DEF LeavesAt
  <2>1. CASE j = i
    BY <2>1, <1>6
  <2>2. CASE j # i
    BY <2>2, <1>2, <1>6 DEF LeavesAt
  <2> QED
    BY <2>1, <2>2
<1>12. TreeOf(F, n, k, live, X)
  BY <1>3, <1>6, <1>9, Zenon DEF TreeOf
<1>13. TreeBusy(F, M, p, n, k, m, live, X)
  BY <1>2, <1>6, <1>9, <1>10, <1>11, <1>12, Zenon DEF TreeBusy
<1> QED
  BY <1>13 DEF F, M

\* What blake2sp_update leaves for the next call, and the context with that.
Left(p) == DropFirst(p, Rest(p))
Rejoined(T, L, p) == [T EXCEPT !.buf = Overlay(@, L.left, Left(p)), !.buflen = L.left + Len(Left(p))]

\* The end of the parallel part changes the buffer and its fill only, as two assignments.
LEMMA RejoinedTree ==
  ASSUME NEW s, NEW r, NEW b, NEW u, NEW o, NEW T, T = TRec(s, r, b, u, o), NEW L, NEW p
  PROVE  Rejoined(T, L, p) = TRec(s, r, Overlay(b, L.left, Left(p)), L.left + Len(Left(p)), o)
<1> DEFINE y == Overlay(b, L.left, Left(p))
           z == L.left + Len(Left(p))
<1>1. Rejoined(T, L, p) = [[T EXCEPT !.buf = y] EXCEPT !.buflen = z]
  BY DEF Rejoined, TRec
<1> HIDE DEF y, z
<1>2. [TRec(s, r, b, u, o) EXCEPT !.buf = y] = TRec(s, r, y, u, o)
  BY DEF TRec
<1>3. [TRec(s, r, y, u, o) EXCEPT !.buflen = z] = TRec(s, r, y, z, o)
  BY DEF TRec
<1> QED
  BY <1>1, <1>2, <1>3, Zenon DEF y, z

\* It is what comes after the blocks that were given.
LeftIs(p, r, X) == Joins(p, Upto(p, Rest(p)), r) /\ r \in Seq(X) /\ Len(r) \in 0..(Wide - 1)

\* What is left of the input when the leaves are through is less than a stripe, from where the
\* last whole stripe ends.
LEMMA LeftFacts ==
  ASSUME TreeOK, NEW X, NEW p \in Seq(X)
  PROVE  LeftIs(p, Left(p), X)
<1>1. Rest(p) \in 0..Len(p) /\ Len(p) - Rest(p) \in 0..(Wide - 1) /\ Len(p) \in Nat
  BY RestFacts, LenProperties
<1> DEFINE a == Rest(p)
           b == Len(p)
           r == Left(p)
<1>2. a \in 0..b /\ b \in 0..Len(p) /\ b \in a..Len(p) /\ a \in Nat
  BY <1>1
<1>3. r = SubSeq(p, a + 1, b)
  BY DEF Left, DropFirst
<1>5. Upto(p, b) = p
  BY UptoAll
<1> HIDE DEF a, b, r
<1>4. r = Cut(p, a, b)
  <2>1. b \in a..Len(p)
    BY <1>2
  <2>2. SubSeq(p, a + 1, b) = Cut(p, a, b)
    BY <1>2, <2>1, CutFacts
  <2> QED
    BY <1>3, <2>2
<1>6. Joins(Upto(p, b), Upto(p, a), Cut(p, a, b)) /\ Cut(p, a, b) \in Seq(X) /\ Len(Cut(p, a, b)) = b - a
  BY <1>2, UptoJoins
<1> QED
  BY <1>1, <1>4, <1>5, <1>6 DEF LeftIs, a, b, r

\* The buffer, with what is left put in it.
LEMMA LeftHeld ==
  ASSUME TreeOK, NEW X, NEW b \in [1..Wide -> X], NEW left, NEW g, NEW p, NEW m,
         Follows(b, left, g, p, m, X)
  PROVE  /\ Overlay(b, left, Left(p)) \in [1..Wide -> X]
         /\ Holding(Overlay(b, left, Left(p)), left + Len(Left(p)), g \o Upto(p, Rest(p)), m, X)
<1> DEFINE r == Left(p)
           c == Overlay(b, left, r)
           u == left + Len(r)
           h == Upto(p, Rest(p))
           e == g \o h
<1>1. /\ WholeBlocks(g, X) /\ p \in Seq(X) /\ left \in 0..(Wide - 1)
      /\ Joins(m, g \o Upto(b, left), p) /\ (left = 0 \/ left + Len(p) < Wide)
  BY DEF Follows
<1>2. Wide \in Nat \ {0} /\ Len(p) \in Nat
  BY <1>1, WideFacts, LenProperties
<1>3. PICK w : Aligned(g, w, X)
  BY <1>1 DEF WholeBlocks
<1>4. g \in Seq(X) /\ w \in Nat
  BY <1>3 DEF Aligned
<1>5. /\ Rest(p) \in 0..Len(p) /\ Len(p) - Rest(p) \in 0..(Wide - 1)
      /\ \E v \in Nat : Rest(p) = v * Wide
  BY <1>1, RestFacts
<1>6. PICK v \in Nat : Rest(p) = v * Wide
  BY <1>5
<1>7. h \in Seq(X) /\ Len(h) = Rest(p)
  BY <1>1, <1>5, UptoFacts
<1>8. LeftIs(p, r, X)
  BY <1>1, LeftFacts
<1>9. Joins(p, h, r) /\ r \in Seq(X) /\ Len(r) \in 0..(Wide - 1)
  BY <1>8 DEF LeftIs
<1>10. b \in Seq(X) /\ Len(b) = Wide /\ Wide \in Nat /\ left \in Nat
  BY <1>1, <1>2, LenProperties
<1>11. Upto(b, left) \in Seq(X)
  <2>1. left \in 0..Len(b)
    BY <1>1, <1>2, <1>10
  <2> QED
    BY <1>10, <2>1, UptoFacts
<1> HIDE DEF r, h
<1>12. Len(p) = Len(h) + Len(r)
  BY <1>7, <1>9, ConcatProperties DEF Joins
<1>13. left = 0 \/ Rest(p) = 0
  <2>1. CASE left # 0
    <3>1. Len(p) < Wide
      BY <1>1, <1>2, <2>1
    <3>2. Len(p) % Wide = Len(p)
      BY <1>2, <3>1
    <3> QED
      BY <1>2, <3>2 DEF Rest
  <2> QED
    BY <2>1
<1>14. u \in 0..(Wide - 1)
  BY <1>1, <1>2, <1>7, <1>9, <1>12, <1>13
<1>15. left + Len(r) <= Wide
  BY <1>2, <1>14
<1>16. c \in [1..Wide -> X] /\ Joins(Upto(c, u), Upto(b, left), r)
  <2> HIDE DEF c, u
  <2>1. /\ Overlay(b, left, r) \in [1..Wide -> X]
        /\ Joins(Upto(Overlay(b, left, r), left + Len(r)), Upto(b, left), r)
    BY <1>9, <1>10, <1>15, OverlayJoins
  <2> QED
    BY <2>1 DEF c, u
<1>17. WholeBlocks(e, X)
  <2>1. Len(h) = v * Wide
    BY <1>6, <1>7
  <2>2. Aligned(e, w + v, X)
    BY <1>3, <1>6, <1>7, <2>1, AlignedMore
  <2> HIDE DEF e
  <2> QED
    BY <2>2 DEF WholeBlocks
<1> DEFINE a == Upto(b, left)
           y == Upto(c, u)
<1>18. a \in Seq(X) /\ Joins(y, a, r) /\ Joins(m, g \o a, p)
  BY <1>1, <1>11, <1>16
<1>19. left = 0 => a = <<>>
  BY <1>10, UptoAll
<1>20. Rest(p) = 0 => h = <<>>
  BY <1>1, UptoAll DEF h
<1> HIDE DEF c, u, e, a, y
<1>21. y = a \o r /\ m = (g \o a) \o p /\ p = h \o r
  BY <1>9, <1>18 DEF Joins
<1>22. m = e \o y
  <2>1. CASE left = 0
    <3>1. g \o <<>> = g /\ <<>> \o r = r
      BY <1>4, <1>9, ConcatEmptySeq
    <3>2. m = g \o (h \o r) /\ y = r
      BY <1>19, <1>21, <2>1, <3>1
    <3>3. (g \o h) \o r = g \o (h \o r)
      BY <1>4, <1>7, <1>9, ConcatAssociative
    <3> QED
      BY <3>2, <3>3 DEF e
  <2>2. CASE Rest(p) = 0
    <3>1. g \o <<>> = g /\ <<>> \o r = r
      BY <1>4, <1>9, ConcatEmptySeq
    <3>2. m = (g \o a) \o r /\ e = g
      BY <1>20, <1>21, <2>2, <3>1 DEF e
    <3>3. (g \o a) \o r = g \o (a \o r)
      BY <1>4, <1>18, <1>9, ConcatAssociative
    <3> QED
      BY <1>21, <3>2, <3>3
  <2> QED
    BY <1>13, <2>1, <2>2
<1>23. Holding(c, u, e, m, X)
  BY <1>14, <1>17, <1>22 DEF Holding, Joins, y
<1> QED
  BY <1>16, <1>23 DEF c, u, e, r, h

\* The end of blake2sp_update.
LEMMA UpdateEnds ==
  ASSUME TreeOK, NEW X, NEW n, NEW k, NEW m, NEW live, NEW T, NEW L, NEW p,
         TreeBusy(T, L, p, n, k, m, live, X), \A i \in Leaves : Through(p, L.pos[i])
  PROVE  TreeIdle(Rejoined(T, L, p), n, k, m, live, X)
<1> DEFINE b == Overlay(T.buf, L.left, Left(p))
           u == L.left + Len(Left(p))
           F == Rejoined(T, L, p)
<1>1. TreeOf(T, n, k, live, X) /\ LocOf(L) /\ Array(L.pos)
  BY DEF TreeBusy
<1>2. PICK g : Follows(T.buf, L.left, g, p, m, X) /\ LeavesAt(T.S, L.pos, p, n, k, g, live, X)
  BY DEF TreeBusy
<1>3. /\ T = TRec(T.S, T.R, T.buf, T.buflen, n) /\ n \in 1..OutBytes
      /\ T.buf \in [1..Wide -> X] /\ Array(T.S) /\ RootHolds(T.R, n, k, live)
  BY <1>1 DEF TreeOf
<1>4. p \in Seq(X)
  BY <1>2 DEF Follows
<1> DEFINE e == g \o Upto(p, Rest(p))
<1> HIDE DEF b, u, F, e
<1>5. b \in [1..Wide -> X] /\ Holding(b, u, e, m, X)
  BY <1>2, <1>3, LeftHeld DEF b, u, e
<1>6. LeavesHold(T.S, n, k, e, live, X)
  <2> SUFFICES ASSUME NEW i \in Leaves PROVE Leaf(T.S[i], n, k, e, i, live, X)
    BY DEF LeavesHold
  <2>1. LeafAt(T.S[i], L.pos[i], p, n, k, g, i, live, X) /\ Through(p, L.pos[i])
    BY <1>2 DEF LeavesAt
  <2>2. Leaf(T.S[i], n, k, g \o Upto(p, Rest(p)), i, live, X)
    BY <1>4, <2>1, LeafThrough
  <2> QED
    BY <2>2 DEF e
<1>7. F = TRec(T.S, T.R, b, u, n)
  BY <1>3, RejoinedTree DEF F, b, u
<1>8. F.S = T.S /\ F.R = T.R /\ F.buf = b /\ F.buflen = u /\ F = TRec(F.S, F.R, F.buf, F.buflen, n)
  BY <1>7, TRecFacts
<1>9. TreeOf(F, n, k, live, X)
  BY <1>3, <1>5, <1>8, Zenon DEF TreeOf
<1>10. TreeIdle(F, n, k, m, live, X)
  BY <1>5, <1>6, <1>8, <1>9, Zenon DEF TreeIdle
<1> QED
  BY <1>10 DEF F

(***************************************************************************)
(* The end of blake2sp_final and of blake2sp: the root.                    *)
(***************************************************************************)
\* The leaves are those nodes, and these their digests.
NodesOf(s, n, k) == \A i \in Leaves : NodeOf(s[i], LeafParam(n, k, i))
HashesAre(h, n, k, m) == \A i \in Leaves : h[i] = LeafDigest(n, k, m, i)

\* The root was given those of the first i leaves, or is finished.
RootAt(T, n, k, m, i, live) == IF live THEN RootTakes(T, n, k, m, i) ELSE RootOver(T, n, k)

\* The nodes that are local to blake2sp.
TNodes(s, r, o) == [S |-> s, R |-> r, outlen |-> o]

\* A context keeps its buffer.
Buffered(T, n, m, X) ==
  /\ T = TRec(T.S, T.R, T.buf, T.buflen, n) /\ T.buf \in [1..Wide -> X] /\ Array(T.S)
  /\ \E g : Holding(T.buf, T.buflen, g, m, X)

TreeShape(T, local, n, m, X) ==
  IF local THEN T = TNodes(T.S, T.R, n) ELSE Buffered(T, n, m, X)

TreeEnd(T, L, n, k, m, live, X) ==
  /\ n \in 1..OutBytes /\ LocOf(L) /\ L.i \in 0..Degree
  /\ NodesOf(T.S, n, k) /\ (live => HashesAre(L.hash, n, k, m)) /\ RootAt(T.R, n, k, m, L.i, live)
  /\ (L.local => live) /\ TreeShape(T, L.local, n, m, X)

\* How blake2sp_final leaves the leaves, and their digests.
Ending(T, i) == NodeFinal(NodeUpdate(T.S[i], BlockOf(SubSeq(T.buf, 1, T.buflen), 0, i)), OutBytes)
Ended(T) == [i \in Leaves |-> Ending(T, i).st]
LeavesClosed(T) == [T EXCEPT !.S = Ended(T)]
Hashes(T) == [i \in Leaves |-> Ending(T, i).out]
HashedLocals(h) == [Locals(0) EXCEPT !.hash = h]

\* Each is finished.
LEMMA LeavesEnd ==
  ASSUME TreeOK, NEW X, Zero \in X, NEW n, NEW k \in Seq(X), Len(k) <= BlockBytes,
         NEW m, NEW live, NEW T, TreeIdle(T, n, k, m, live, X), NEW i \in Leaves
  PROVE  LeafOver(Ending(T, i), n, k, m, i, live)
<1>1. TreeOf(T, n, k, live, X)
  BY DEF TreeIdle
<1>2. PICK g : Holding(T.buf, T.buflen, g, m, X) /\ LeavesHold(T.S, n, k, g, live, X)
  BY DEF TreeIdle
<1>3. T.buf \in [1..Wide -> X]
  BY <1>1 DEF TreeOf
<1>4. WholeBlocks(g, X) /\ T.buflen \in 0..(Wide - 1) /\ Joins(m, g, Upto(T.buf, T.buflen))
  BY <1>2 DEF Holding
<1>5. PICK w : Aligned(g, w, X)
  BY <1>4 DEF WholeBlocks
<1> DEFINE r == Upto(T.buf, T.buflen)
<1>6. r \in Seq(X) /\ Fits(r)
  <2>1. Wide \in Nat \ {0}
    BY WideFacts
  <2>2. T.buf \in Seq(X) /\ Len(T.buf) = Wide
    BY <1>3, <2>1, LenProperties
  <2>3. T.buflen \in 0..Len(T.buf) /\ T.buflen <= Wide
    BY <1>4, <2>1, <2>2
  <2>4. Upto(T.buf, T.buflen) \in Seq(X) /\ Len(Upto(T.buf, T.buflen)) = T.buflen
    BY <2>2, <2>3, UptoFacts
  <2> QED
    BY <2>3, <2>4 DEF Fits
<1>7. Leaf(T.S[i], n, k, g, i, live, X)
  BY <1>2 DEF LeavesHold
<1>8. Ending(T, i) = NodeFinal(NodeUpdate(T.S[i], BlockOf(r, 0, i)), OutBytes)
  BY DEF Ending, Upto
<1>9. Joins(m, g, r)
  BY <1>4
<1> HIDE DEF r
<1> DEFINE Q == NodeUpdate(T.S[i], BlockOf(r, 0, i))
<1>10. Leaf(Q, n, k, m, i, live, X)
  BY <1>5, <1>6, <1>7, <1>9, LeafGiven
<1>11. m \in Seq(X)
  BY <1>5, <1>6, <1>9, ConcatProperties DEF Aligned, Joins
<1> HIDE DEF Q
<1>12. LeafOver(NodeFinal(Q, OutBytes), n, k, m, i, live)
  BY <1>10, <1>11, LeafEnds
<1> QED
  BY <1>8, <1>12 DEF Q

\* The locals of blake2sp_final.
LEMMA TLocHash ==
  ASSUME NEW l, NEW pos, NEW g, NEW e, NEW j, NEW c, NEW L, L = TLoc(l, pos, g, e, j, c), NEW h
  PROVE  [L EXCEPT !.hash = h] = TLoc(l, pos, h, e, j, c)
BY DEF TLoc

\* The locals blake2sp_final goes to the root with are those of a call that holds digests only.
LEMMA HashedFacts ==
  ASSUME NEW h
  PROVE  HashedLocals(h) = TLoc(0, Locals(0).pos, h, {}, 0, FALSE)
<1> DEFINE L == Locals(0)
           pos == L.pos
           zero == 0
           none == {}
           local == FALSE
<1>1. L = TLoc(zero, pos, L.hash, none, zero, local)
  BY DEF Locals, TLoc
<1> HIDE DEF L, pos, zero, none, local
<1>2. [L EXCEPT !.hash = h] = TLoc(zero, pos, h, none, zero, local)
  BY <1>1, TLocHash
<1> QED
  BY <1>2 DEF HashedLocals, L, pos, zero, none, local

\* A change of the leaves, or of the root.
LEMMA TRecLeaves ==
  ASSUME NEW s, NEW r, NEW b, NEW u, NEW o, NEW T, T = TRec(s, r, b, u, o), NEW z
  PROVE  [T EXCEPT !.S = z] = TRec(z, r, b, u, o)
BY DEF TRec

\* blake2sp_final, up to the root.
LEMMA FinalStarts ==
  ASSUME TreeOK, NEW X, Zero \in X, NEW n, NEW k \in Seq(X), Len(k) <= BlockBytes,
         NEW m, NEW live \in BOOLEAN, NEW T, TreeIdle(T, n, k, m, live, X)
  PROVE  TreeEnd(LeavesClosed(T), HashedLocals(Hashes(T)), n, k, m, live, X)
<1> DEFINE F == LeavesClosed(T)
           s == Ended(T)
           h == Hashes(T)
           L == HashedLocals(h)
           i == 0
           pos == Locals(0).pos
           local == FALSE
           zero == 0
           none == {}
<1>1. TreeOf(T, n, k, live, X)
  BY DEF TreeIdle
<1>2. PICK g : Holding(T.buf, T.buflen, g, m, X) /\ LeavesHold(T.S, n, k, g, live, X)
  BY DEF TreeIdle
<1>3. /\ T = TRec(T.S, T.R, T.buf, T.buflen, n) /\ n \in 1..OutBytes
      /\ T.buf \in [1..Wide -> X] /\ RootHolds(T.R, n, k, live)
  BY <1>1 DEF TreeOf
<1>4. \A j \in Leaves : LeafOver(Ending(T, j), n, k, m, j, live)
  BY LeavesEnd
<1>5. /\ \A j \in Leaves : s[j] = Ending(T, j).st /\ h[j] = Ending(T, j).out
      /\ Array(s)
  BY DEF Ended, Hashes, Array
<1>6. F = [T EXCEPT !.S = s]
  BY DEF LeavesClosed
<1>7. L = TLoc(zero, pos, h, none, i, local)
  BY HashedFacts
<1>8. i \in 0..Degree /\ local = FALSE
  BY DEF TreeOK
<1> HIDE DEF s, h, F, L, pos, zero, none, i, local
<1>9. NodesOf(s, n, k) /\ (live => HashesAre(h, n, k, m))
  BY <1>4, <1>5 DEF NodesOf, HashesAre, LeafOver
<1>10. F = TRec(s, T.R, T.buf, T.buflen, n)
  BY <1>3, <1>6, TRecLeaves
<1>11. /\ F.S = s /\ F.R = T.R /\ F.buf = T.buf /\ F.buflen = T.buflen
       /\ F = TRec(F.S, F.R, F.buf, F.buflen, n)
  BY <1>10, TRecFacts
<1>12. L.hash = h /\ L.i = i /\ L.local = local /\ LocOf(L)
  BY <1>7, TLocFacts
<1>13. RootAt(T.R, n, k, m, i, live)
  <2>1. RootTakes(NewRoot(n, k), n, k, m, 0)
    BY NewRootTakes
  <2> QED
    BY <1>3, <2>1 DEF RootAt, RootHolds, i
<1>14. Buffered(F, n, m, X)
  BY <1>2, <1>3, <1>5, <1>11, Zenon DEF Buffered
<1>15. TreeShape(F, L.local, n, m, X) /\ ~L.local
  BY <1>8, <1>12, <1>14 DEF TreeShape
<1>16. TreeEnd(F, L, n, k, m, live, X)
  BY <1>3, <1>8, <1>9, <1>11, <1>12, <1>13, <1>15, Zenon DEF TreeEnd
<1> QED
  BY <1>16 DEF F, L, h

\* The root is given another digest.
Absorbed(T, L) == [T EXCEPT !.R = NodeUpdate(@, L.hash[L.i])]
NextLeaf(L) == [L EXCEPT !.i = @ + 1]

\* What changes of the nodes.
SameButRoot(F, T, r) == F.S = T.S /\ F.R = r /\ F.outlen = T.outlen

\* An operation on the root leaves the tree's other parts as they are.
LEMMA RootChange ==
  ASSUME NEW T, NEW r, NEW local, NEW n, NEW m, NEW X, TreeShape(T, local, n, m, X),
         local \in BOOLEAN
  PROVE  /\ SameButRoot([T EXCEPT !.R = r], T, r) /\ T.outlen = n
         /\ TreeShape([T EXCEPT !.R = r], local, n, m, X)
<1> DEFINE F == [T EXCEPT !.R = r]
<1>1. CASE local
  <2>1. T = TNodes(T.S, T.R, n)
    BY <1>1 DEF TreeShape
  <2>2. F = TNodes(T.S, r, n) /\ T.outlen = n
    BY <2>1 DEF TNodes
  <2> HIDE DEF F
  <2>3. F.S = T.S /\ F.R = r /\ F.outlen = n
    BY <2>2 DEF TNodes
  <2>4. TreeShape(F, local, n, m, X) /\ SameButRoot(F, T, r)
    BY <1>1, <2>2, <2>3, Zenon DEF TreeShape, SameButRoot
  <2> QED
    BY <2>2, <2>4 DEF F
<1>2. CASE ~local
  <2>1. Buffered(T, n, m, X)
    BY <1>2 DEF TreeShape
  <2>2. T = TRec(T.S, T.R, T.buf, T.buflen, n)
    BY <2>1 DEF Buffered
  <2>3. F = TRec(T.S, r, T.buf, T.buflen, n) /\ T.outlen = n
    BY <2>2 DEF TRec
  <2> HIDE DEF F
  <2>4. /\ F.S = T.S /\ F.R = r /\ F.buf = T.buf /\ F.buflen = T.buflen /\ F.outlen = n
        /\ F = TRec(F.S, F.R, F.buf, F.buflen, n)
    BY <2>3 DEF TRec
  <2>5. Buffered(F, n, m, X)
    BY <2>1, <2>4, Zenon DEF Buffered
  <2>6. TreeShape(F, local, n, m, X) /\ SameButRoot(F, T, r)
    BY <1>2, <2>3, <2>4, <2>5, Zenon DEF TreeShape, SameButRoot
  <2> QED
    BY <2>3, <2>6 DEF F
<1> QED
  BY <1>1, <1>2

\* Going to the next leaf's digest changes the index in the locals and nothing else.
LEMMA NextFacts ==
  ASSUME NEW L, LocOf(L)
  PROVE  /\ NextLeaf(L).i = L.i + 1 /\ NextLeaf(L).hash = L.hash /\ NextLeaf(L).local = L.local
         /\ LocOf(NextLeaf(L))
BY DEF LocOf, TLoc, NextLeaf

\* The root takes a leaf's digest: it then holds the digests up to the next leaf.
LEMMA RootGiven ==
  ASSUME TreeOK, NEW X, NEW n, NEW k, NEW m, NEW live \in BOOLEAN, NEW T, NEW L,
         TreeEnd(T, L, n, k, m, live, X), L.i < Degree, L.local \in BOOLEAN
  PROVE  TreeEnd(Absorbed(T, L), NextLeaf(L), n, k, m, live, X)
<1> DEFINE F == Absorbed(T, L)
           M == NextLeaf(L)
           r == NodeUpdate(T.R, L.hash[L.i])
<1>1. /\ n \in 1..OutBytes /\ LocOf(L) /\ L.i \in 0..Degree
      /\ NodesOf(T.S, n, k) /\ (live => HashesAre(L.hash, n, k, m)) /\ RootAt(T.R, n, k, m, L.i, live)
      /\ (L.local => live) /\ TreeShape(T, L.local, n, m, X)
  BY DEF TreeEnd
<1>2. L.i \in Leaves /\ L.i + 1 \in 0..Degree
  BY <1>1 DEF Leaves, TreeOK
<1>3. RootAt(r, n, k, m, L.i + 1, live)
  <2>1. CASE live
    <3>1. L.hash[L.i] = LeafDigest(n, k, m, L.i)
      BY <1>1, <1>2, <2>1 DEF HashesAre
    <3>2. RootTakes(T.R, n, k, m, L.i)
      BY <1>1, <2>1 DEF RootAt
    <3>3. RootTakes(NodeUpdate(T.R, LeafDigest(n, k, m, L.i)), n, k, m, L.i + 1)
      BY <1>2, <3>2, RootAbsorbs
    <3> QED
      BY <2>1, <3>1, <3>3 DEF RootAt
  <2>2. CASE ~live
    <3>1. RootOver(T.R, n, k)
      BY <1>1, <2>2 DEF RootAt
    <3>2. RootOver(NodeUpdate(T.R, L.hash[L.i]), n, k)
      BY <3>1, RootOverStays
    <3> QED
      BY <2>2, <3>2 DEF RootAt
  <2> QED
    BY <2>1, <2>2
<1>4. F = [T EXCEPT !.R = r]
  BY DEF Absorbed
<1> HIDE DEF F, M, r
<1>5. SameButRoot(F, T, r) /\ TreeShape(F, L.local, n, m, X)
  BY <1>1, <1>4, RootChange
<1>6. M.i = L.i + 1 /\ M.hash = L.hash /\ M.local = L.local /\ LocOf(M)
  BY <1>1, NextFacts DEF M
<1>7. TreeEnd(F, M, n, k, m, live, X)
  BY <1>1, <1>2, <1>3, <1>5, <1>6, Zenon DEF TreeEnd, SameButRoot
<1> QED
  BY <1>7 DEF F, M

\* The root is finished.
Finish(T) == NodeFinal(T.R, T.outlen)

\* The root has all the digests: a live root makes the digest of the tree, one that has made it
\* before refuses, and the tree it leaves behind is one whose root refuses.
LEMMA RootReturns ==
  ASSUME TreeOK, NEW X, NEW n, NEW k, NEW m, NEW live \in BOOLEAN, NEW T, NEW L,
         TreeEnd(T, L, n, k, m, live, X), L.i = Degree, L.local \in BOOLEAN
  PROVE  /\ IF live THEN RootEnds(Finish(T), n, k, m) ELSE Finish(T).res = -1
         /\ ~L.local => TreeIdle([T EXCEPT !.R = Finish(T).st], n, k, m, FALSE, X)
<1> DEFINE r == Finish(T).st
           F == [T EXCEPT !.R = r]
           over == FALSE
<1>1. /\ n \in 1..OutBytes /\ LocOf(L)
      /\ NodesOf(T.S, n, k) /\ RootAt(T.R, n, k, m, Degree, live)
      /\ (L.local => live) /\ TreeShape(T, L.local, n, m, X)
  BY DEF TreeEnd
<1>2. T.outlen = n
  BY <1>1, RootChange
<1>3. n \in Nat
  BY <1>1, WideFacts
<1>4. IF live THEN RootEnds(Finish(T), n, k, m) ELSE Finish(T).res = -1
  <2>1. CASE live
    <3>1. RootTakes(T.R, n, k, m, Degree)
      BY <1>1, <2>1 DEF RootAt
    <3>2. RootEnds(NodeFinal(T.R, n), n, k, m)
      BY <1>3, <3>1, RootMade
    <3> QED
      BY <1>2, <2>1, <3>2 DEF Finish
  <2>2. CASE ~live
    <3>1. RootOver(T.R, n, k)
      BY <1>1, <2>2 DEF RootAt
    <3>2. NodeFinal(T.R, n).res = -1
      BY <3>1, RootOverStays
    <3> QED
      BY <1>2, <2>2, <3>2 DEF Finish
  <2> QED
    BY <2>1, <2>2
<1>5. RootOver(r, n, k)
  <2>1. CASE live
    <3>1. RootTakes(T.R, n, k, m, Degree)
      BY <1>1, <2>1 DEF RootAt
    <3>2. RootEnds(NodeFinal(T.R, n), n, k, m)
      BY <1>3, <3>1, RootMade
    <3> QED
      BY <1>2, <3>2 DEF Finish, RootEnds
  <2>2. CASE ~live
    <3>1. RootOver(T.R, n, k)
      BY <1>1, <2>2 DEF RootAt
    <3>2. NodeFinal(T.R, n).st = T.R
      BY <3>1, RootOverStays
    <3> QED
      BY <1>2, <3>1, <3>2 DEF Finish
  <2> QED
    BY <2>1, <2>2
<1>6. ~L.local => TreeIdle(F, n, k, m, FALSE, X)
  <2> SUFFICES ASSUME ~L.local PROVE TreeIdle(F, n, k, m, over, X)
    OBVIOUS
  <2> HIDE DEF r
  <2>1. SameButRoot(F, T, r) /\ TreeShape(F, L.local, n, m, X)
    BY <1>1, RootChange
  <2> HIDE DEF F
  <2>2. Buffered(F, n, m, X)
    BY <2>1 DEF TreeShape
  <2>3. PICK g : Holding(F.buf, F.buflen, g, m, X)
    BY <2>2 DEF Buffered
  <2>4. F.S = T.S /\ F.R = r
    BY <2>1 DEF SameButRoot
  <2>5. LeavesHold(F.S, n, k, g, over, X)
    BY <1>1, <2>4 DEF LeavesHold, Leaf, NodesOf
  <2>6. RootHolds(F.R, n, k, over)
    BY <1>5, <2>4 DEF RootHolds
  <2> HIDE DEF over
  <2>7. TreeOf(F, n, k, over, X)
    BY <1>1, <2>2, <2>6 DEF TreeOf, Buffered
  <2> QED
    BY <2>3, <2>5, <2>7 DEF TreeIdle
<1> QED
  BY <1>4, <1>6

(***************************************************************************)
(* blake2sp, the one-call function, up to the root.                        *)
(***************************************************************************)
TOne(s, o) == [S |-> s, outlen |-> o]

\* A leaf whose thread ended has its digest, and is before the rest like the others.
LeafOne(T, pos, h, over, p, n, k, i, X) ==
  IF over THEN Through(p, pos) /\ NodeOf(T, LeafParam(n, k, i)) /\ h = LeafDigest(n, k, p, i)
          ELSE LeafAt(T, pos, p, n, k, <<>>, i, TRUE, X)

LeavesOne(s, pos, h, ended, p, n, k, X) ==
  \A i \in Leaves : LeafOne(s[i], pos[i], h[i], i \in ended, p, n, k, i, X)

OneLocals(L) == LocOf(L) /\ L.local = TRUE /\ L.i = 0 /\ Array(L.pos) /\ Array(L.hash)

TreeIsOne(T, L, p, n, k, X) ==
  /\ n \in 1..OutBytes /\ p \in Seq(X) /\ T = TOne(T.S, n) /\ Array(T.S) /\ OneLocals(L)
  /\ LeavesOne(T.S, L.pos, L.hash, L.ended, p, n, k, X)

\* The parts of the nodes.
LEMMA TOneFacts ==
  ASSUME NEW s, NEW o, NEW T, T = TOne(s, o)
  PROVE  T.S = s /\ T.outlen = o /\ T = TOne(T.S, o)
BY DEF TOne

\* The locals at the beginning.
LocalNodes == [Locals(0) EXCEPT !.local = TRUE]
Zeroed(L) == (\A i \in Leaves : L.pos[i] = 0) /\ L.ended = {}

\* The locals with another answer to whether the tree is the call's own.
LEMMA TLocLocal ==
  ASSUME NEW l, NEW pos, NEW g, NEW e, NEW j, NEW c, NEW L, L = TLoc(l, pos, g, e, j, c), NEW d
  PROVE  [L EXCEPT !.local = d] = TLoc(l, pos, g, e, j, d)
BY DEF TLoc

\* The locals of the one-call function: positions zero, no leaf ended.
LEMMA LocalNodesFacts == OneLocals(LocalNodes) /\ Zeroed(LocalNodes)
<1> DEFINE L == Locals(0)
           zero == 0
           none == {}
           local == FALSE
           d == TRUE
           pos == L.pos
           h == L.hash
<1>1. L = TLoc(zero, pos, h, none, zero, local)
  BY DEF Locals, TLoc
<1>2. Array(pos) /\ Array(h) /\ \A i \in Leaves : pos[i] = 0
  BY DEF Locals, Array
<1> DEFINE M == LocalNodes
<1>3. M = [L EXCEPT !.local = d]
  BY DEF LocalNodes
<1> HIDE DEF L, M, zero, none, local, d, pos, h
<1>4. M = TLoc(zero, pos, h, none, zero, d)
  BY <1>1, <1>3, TLocLocal
<1>5. M.pos = pos /\ M.hash = h /\ M.ended = none /\ M.i = zero /\ M.local = d /\ LocOf(M)
  BY <1>4, TLocFacts
<1>6. OneLocals(M) /\ Zeroed(M)
  BY <1>2, <1>5 DEF OneLocals, Zeroed, none, zero, d
<1> QED
  BY <1>6 DEF M

\* blake2sp makes its leaves.
LEMMA OneStarts ==
  ASSUME TreeOK, NEW X, Zero \in X, NEW n \in 1..OutBytes, NEW k \in Seq(X), Len(k) <= BlockBytes,
         NEW p \in Seq(X)
  PROVE  TreeIsOne(TOne(NewLeaves(n, k), n), LocalNodes, p, n, k, X)
<1> DEFINE s == NewLeaves(n, k)
           T == TOne(s, n)
           L == LocalNodes
           live == TRUE
           e == <<>>
<1>1. Array(s) /\ \A i \in Leaves : s[i] = NewLeaf(n, k, i)
  BY DEF NewLeaves, Array
<1>2. OneLocals(L) /\ (\A i \in Leaves : L.pos[i] = 0) /\ L.ended = {}
  BY LocalNodesFacts DEF Zeroed
<1>3. e \in Seq(X)
  OBVIOUS
<1>4. \A i \in Leaves : LeafAt(s[i], L.pos[i], p, n, k, e, i, live, X)
  <2> SUFFICES ASSUME NEW i \in Leaves PROVE LeafAt(s[i], L.pos[i], p, n, k, e, i, live, X)
    OBVIOUS
  <2>1. \A l : Leaf(NewLeaf(n, k, i), n, k, <<>>, i, l, X)
    BY NewLeafTakes
  <2>2. Leaf(s[i], n, k, e, i, live, X)
    BY <1>1, <2>1
  <2> HIDE DEF s, L, live, e
  <2>3. LeafAt(s[i], 0, p, n, k, e, i, live, X)
    BY <1>3, <2>2, LeafStarts
  <2> QED
    BY <1>2, <2>3
<1> HIDE DEF s, T, L
<1>5. T.S = s /\ T = TOne(T.S, n)
  BY TOneFacts DEF T
<1>6. LeavesOne(T.S, L.pos, L.hash, L.ended, p, n, k, X)
  BY <1>2, <1>4, <1>5 DEF LeavesOne, LeafOne
<1>7. TreeIsOne(T, L, p, n, k, X)
  BY <1>1, <1>2, <1>5, <1>6, Zenon DEF TreeIsOne
<1> QED
  BY <1>7 DEF T, L, s

\* A block of one leaf.
LEMMA SteppedOne ==
  ASSUME NEW s, NEW o, NEW T, T = TOne(s, o), NEW i, NEW block
  PROVE  Stepped(T, i, block) = TOne(Put(s, i, NodeUpdate(s[i], block)), o)
BY DEF TOne, Stepped, Put

\* A leaf's thread of the one-call function takes its next block out of the input.
LEMMA OneBlock ==
  ASSUME TreeOK, NEW X, Zero \in X, NEW n, NEW k \in Seq(X), Len(k) <= BlockBytes,
         NEW T, NEW L, NEW p, TreeIsOne(T, L, p, n, k, X),
         NEW i \in Leaves, ~Through(p, L.pos[i])
  PROVE  TreeIsOne(Stepped(T, i, BlockOf(p, L.pos[i], i)), Moved(L, i), p, n, k, X)
<1> DEFINE s == BlockGiven(T.S, L.pos, p, i)
           pos == Further(L.pos, i)
           F == Stepped(T, i, BlockOf(p, L.pos[i], i))
           M == Moved(L, i)
           live == TRUE
           g == <<>>
<1>1. /\ n \in 1..OutBytes /\ p \in Seq(X) /\ T = TOne(T.S, n) /\ Array(T.S) /\ OneLocals(L)
      /\ LeavesOne(T.S, L.pos, L.hash, L.ended, p, n, k, X)
  BY DEF TreeIsOne
<1>2. LocOf(L) /\ L.local = TRUE /\ L.i = 0 /\ Array(L.pos) /\ Array(L.hash)
  BY <1>1 DEF OneLocals
<1>3. i \notin L.ended /\ LeafAt(T.S[i], L.pos[i], p, n, k, g, i, live, X)
  BY <1>1 DEF LeavesOne, LeafOne
<1>4. WholeBlocks(g, X)
  BY NoneAligned DEF WholeBlocks
<1> HIDE DEF live, g
<1>5. /\ OneMoved(s, pos, T.S, L.pos, i)
      /\ LeafAt(s[i], pos[i], p, n, k, g, i, live, X)
  BY <1>1, <1>2, <1>3, <1>4, LeafStep
<1>6. /\ Array(s) /\ Array(pos)
      /\ \A j \in Leaves : j # i => s[j] = T.S[j] /\ pos[j] = L.pos[j]
  BY <1>5 DEF OneMoved
<1>7. F = TOne(s, n)
  BY <1>1, SteppedOne DEF BlockGiven
<1>8. M = TLoc(L.left, pos, L.hash, L.ended, L.i, L.local)
  BY <1>2, MovedLoc DEF LocOf
<1> HIDE DEF s, pos, F, M
<1>9. F.S = s /\ F = TOne(F.S, n)
  BY <1>7, TOneFacts
<1>10. /\ M.pos = pos /\ LocOf(M) /\ M.hash = L.hash /\ M.ended = L.ended
       /\ M.i = L.i /\ M.local = L.local
  BY <1>8, TLocFacts
<1>11. LeavesOne(s, pos, L.hash, L.ended, p, n, k, X)
  <2> SUFFICES ASSUME NEW j \in Leaves
               PROVE  LeafOne(s[j], pos[j], L.hash[j], j \in L.ended, p, n, k, j, X)
    BY DEF LeavesOne
  <2>1. CASE j = i
    BY <2>1, <1>3, <1>5 DEF LeafOne, live, g
  <2>2. CASE j # i
    <3>1. LeafOne(T.S[j], L.pos[j], L.hash[j], j \in L.ended, p, n, k, j, X)
      BY <1>1 DEF LeavesOne
    <3>2. s[j] = T.S[j] /\ pos[j] = L.pos[j]
      BY <2>2, <1>6
    <3> QED
      BY <3>1, <3>2
  <2> QED
    BY <2>1, <2>2
<1>12. OneLocals(M)
  BY <1>2, <1>6, <1>10, Zenon DEF OneLocals
<1>13. TreeIsOne(F, M, p, n, k, X)
  BY <1>1, <1>6, <1>9, <1>10, <1>11, <1>12, Zenon DEF TreeIsOne
<1> QED
  BY <1>13 DEF F, M

\* The end of one leaf's thread.
OneEnding(T, L, p, i) == NodeFinal(NodeUpdate(T.S[i], BlockOf(p, L.pos[i], i)), OutBytes)
LeafClosed(T, i, f) == [T EXCEPT !.S[i] = f.st]
With(e, i) == e \union {i}
LeafLocals(L, i, f) == [L EXCEPT !.hash[i] = f.out, !.ended = @ \union {i}]

\* The end of a leaf's thread changes that leaf's context only.
LEMMA LeafClosedOne ==
  ASSUME NEW s, NEW o, NEW T, T = TOne(s, o), NEW i, NEW f
  PROVE  LeafClosed(T, i, f) = TOne(Put(s, i, f.st), o)
BY DEF TOne, LeafClosed, Put

\* The locals with another set of threads that have ended.
LEMMA TLocEnded ==
  ASSUME NEW l, NEW pos, NEW g, NEW e, NEW j, NEW c, NEW L, L = TLoc(l, pos, g, e, j, c), NEW d
  PROVE  [L EXCEPT !.ended = d] = TLoc(l, pos, g, d, j, c)
BY DEF TLoc

\* The end of a leaf's thread writes that leaf's digest and marks the thread as ended.
LEMMA LeafLocalsOne ==
  ASSUME NEW l, NEW pos, NEW g, NEW e, NEW j, NEW c, NEW L, L = TLoc(l, pos, g, e, j, c), NEW i, NEW f
  PROVE  LeafLocals(L, i, f) = TLoc(l, pos, Put(g, i, f.out), With(e, i), j, c)
<1> DEFINE h == Put(g, i, f.out)
           d == With(e, i)
           M == [L EXCEPT !.hash = h]
<1>1. L.hash = g /\ L.ended = e
  BY TLocFacts
<1>2. LeafLocals(L, i, f) = [M EXCEPT !.ended = d]
  <2>1. LeafLocals(L, i, f) = [[L EXCEPT !.hash = Put(L.hash, i, f.out)] EXCEPT !.ended = With(L.ended, i)]
    BY DEF LeafLocals, Put, With
  <2> QED
    BY <1>1, <2>1
<1>3. M = TLoc(l, pos, h, e, j, c)
  <2> HIDE DEF h
  <2> QED
    BY TLocHash
<1> HIDE DEF h, d, M
<1>4. [M EXCEPT !.ended = d] = TLoc(l, pos, h, d, j, c)
  BY <1>3, TLocEnded
<1> QED
  BY <1>2, <1>4 DEF h, d

\* The end of a leaf's thread leaves the leaf's digest of its part of the input, at its place,
\* and the other leaves as they were.
LEMMA OneLeafEnds ==
  ASSUME TreeOK, NEW X, Zero \in X, NEW n, NEW k \in Seq(X), Len(k) <= BlockBytes,
         NEW T, NEW L, NEW p, TreeIsOne(T, L, p, n, k, X),
         NEW i \in Leaves, Through(p, L.pos[i]), i \notin L.ended
  PROVE  TreeIsOne(LeafClosed(T, i, OneEnding(T, L, p, i)), LeafLocals(L, i, OneEnding(T, L, p, i)),
                 p, n, k, X)
<1> DEFINE f == OneEnding(T, L, p, i)
           s == Put(T.S, i, f.st)
           h == Put(L.hash, i, f.out)
           e == With(L.ended, i)
           F == LeafClosed(T, i, f)
           M == LeafLocals(L, i, f)
           live == TRUE
           g == <<>>
           w == 0
<1>1. /\ n \in 1..OutBytes /\ p \in Seq(X) /\ T = TOne(T.S, n) /\ Array(T.S) /\ OneLocals(L)
      /\ LeavesOne(T.S, L.pos, L.hash, L.ended, p, n, k, X)
  BY DEF TreeIsOne
<1>2. LocOf(L) /\ L.local = TRUE /\ L.i = 0 /\ Array(L.pos) /\ Array(L.hash)
  BY <1>1 DEF OneLocals
<1>3. LeafAt(T.S[i], L.pos[i], p, n, k, g, i, live, X)
  BY <1>1 DEF LeavesOne, LeafOne
<1>4. Aligned(g, w, X)
  BY NoneAligned
<1>5. g \o p = p
  BY <1>1, ConcatEmptySeq
<1>6. NodeOf(f.st, LeafParam(n, k, i)) /\ f.out = LeafDigest(n, k, p, i)
  <2> DEFINE Q == NodeUpdate(T.S[i], BlockOf(p, L.pos[i], i))
  <2> HIDE DEF live, g, w, f
  <2>1. Leaf(Q, n, k, g \o p, i, live, X)
    BY <1>1, <1>3, <1>4, LeafRest
  <2>2. Leaf(Q, n, k, p, i, live, X)
    BY <2>1, <1>5
  <2> HIDE DEF Q
  <2>3. LeafOver(NodeFinal(Q, OutBytes), n, k, p, i, live)
    BY <1>1, <2>2, LeafEnds
  <2> QED
    BY <2>3 DEF LeafOver, Q, f, OneEnding, live
<1>7. F = TOne(s, n)
  <2> HIDE DEF f
  <2> QED
    BY <1>1, LeafClosedOne
<1>8. M = TLoc(L.left, L.pos, h, e, L.i, L.local)
  <2> HIDE DEF f
  <2> QED
    BY <1>2, LeafLocalsOne DEF LocOf
<1>9. PutAt(s, T.S, i, f.st) /\ PutAt(h, L.hash, i, f.out)
  <2> HIDE DEF f
  <2> QED
    BY <1>1, <1>2, PutFacts
<1> HIDE DEF s, h, e, F, M, f
<1>10. F.S = s /\ F = TOne(F.S, n)
  BY <1>7, TOneFacts
<1>11. /\ M.pos = L.pos /\ LocOf(M) /\ M.hash = h /\ M.ended = e
       /\ M.i = L.i /\ M.local = L.local
  BY <1>8, TLocFacts
<1>12. LeavesOne(s, L.pos, h, e, p, n, k, X)
  <2> SUFFICES ASSUME NEW j \in Leaves
               PROVE  LeafOne(s[j], L.pos[j], h[j], j \in e, p, n, k, j, X)
    BY DEF LeavesOne
  <2>1. CASE j = i
    <3>1. j \in e /\ s[j] = f.st /\ h[j] = f.out
      BY <2>1, <1>9 DEF e, With, PutAt
    <3> QED
      BY <2>1, <3>1, <1>6 DEF LeafOne
  <2>2. CASE j # i
    <3>1. LeafOne(T.S[j], L.pos[j], L.hash[j], j \in L.ended, p, n, k, j, X)
      BY <1>1 DEF LeavesOne
    <3>2. s[j] = T.S[j] /\ h[j] = L.hash[j] /\ (j \in e <=> j \in L.ended)
      BY <2>2, <1>9 DEF PutAt, e, With
    <3> QED
      BY <3>1, <3>2 DEF LeafOne
  <2> QED
    BY <2>1, <2>2
<1>13. OneLocals(M)
  BY <1>2, <1>9, <1>11, Zenon DEF OneLocals, PutAt
<1>14. TreeIsOne(F, M, p, n, k, X)
  BY <1>1, <1>9, <1>10, <1>11, <1>12, <1>13, Zenon DEF TreeIsOne, PutAt
<1> QED
  BY <1>14 DEF F, M, f

\* The threads are through.
LEMMA OneRooted ==
  ASSUME TreeOK, NEW X, NEW n, NEW k, NEW T, NEW L, NEW p, TreeIsOne(T, L, p, n, k, X),
         L.ended = Leaves
  PROVE  TreeEnd(TNodes(T.S, NewRoot(T.outlen, k), T.outlen), L, n, k, p, TRUE, X)
<1> DEFINE r == NewRoot(n, k)
           F == TNodes(T.S, r, n)
           live == TRUE
           i == 0
<1>1. /\ n \in 1..OutBytes /\ T = TOne(T.S, n) /\ OneLocals(L)
      /\ LeavesOne(T.S, L.pos, L.hash, L.ended, p, n, k, X)
  BY DEF TreeIsOne
<1>2. LocOf(L) /\ L.local = TRUE /\ L.i = i
  BY <1>1 DEF OneLocals
<1>3. i \in 0..Degree
  BY DEF TreeOK
<1>4. T.outlen = n
  BY <1>1 DEF TOne
<1>5. NodesOf(T.S, n, k) /\ HashesAre(L.hash, n, k, p)
  BY <1>1 DEF LeavesOne, LeafOne, NodesOf, HashesAre
<1>6. RootAt(r, n, k, p, i, live)
  BY NewRootTakes DEF RootAt
<1>7. F.S = T.S /\ F.R = r /\ F = TNodes(F.S, F.R, n)
  BY DEF TNodes
<1> HIDE DEF r, F, live, i
<1>8. TreeShape(F, L.local, n, p, X)
  BY <1>2, <1>7 DEF TreeShape
<1>9. TreeEnd(F, L, n, k, p, live, X)
  BY <1>1, <1>2, <1>3, <1>5, <1>6, <1>7, <1>8 DEF TreeEnd, live
<1> QED
  BY <1>4, <1>9 DEF F, r, live

(***************************************************************************)
(* The inductive invariant of a tree, for bytes X.                         *)
(***************************************************************************)
Known(X) ==
  /\ at \in {"idle", "update", "one", "root"} /\ res \in {0, -1}
  /\ key \in Seq(X) /\ Len(key) <= BlockBytes /\ msg \in Seq(X)

\* Between two calls.
Resting(T, k, m, o, X) ==
  \E n, live : live \in BOOLEAN /\ TreeIdle(T, n, k, m, live, X) /\ (live => o = Garbage)

\* In blake2sp_update.
Updating(T, L, p, k, m, o, X) ==
  o = Garbage /\ \E n, live : live \in BOOLEAN /\ TreeBusy(T, L, p, n, k, m, live, X)

\* In the threads of blake2sp.
Hashing(T, L, p, k, m, o, X) == o = Garbage /\ p = m /\ \E n : TreeIsOne(T, L, m, n, k, X)

\* When all leaves are finished.
Closing(T, L, k, m, o, X) ==
  L.local \in BOOLEAN
  /\ \E n, live : live \in BOOLEAN /\ TreeEnd(T, L, n, k, m, live, X) /\ (live => o = Garbage)

\* The digest is the tree's.
Hashed(o, k, m) == \E n \in 1..OutBytes : o = TreeHash(n, k, m)

TInv(X) ==
  /\ Known(X)
  /\ at = "idle" /\ st # Garbage => Resting(st, key, msg, out, X)
  /\ at = "update" => Updating(st, loc, in, key, msg, out, X)
  /\ at = "one" => Hashing(st, loc, in, key, msg, out, X)
  /\ at = "root" => Closing(st, loc, key, msg, out, X)
  /\ out # Garbage => Hashed(out, key, msg)

\* A call that fails changes nothing else than the result.
LEMMA TSame ==
  ASSUME NEW X, TInv(X), UNCHANGED <<at, st, in, loc, out, key, msg>>, res' \in {0, -1}
  PROVE  TInv(X)'
<1>1. /\ at' = at /\ st' = st /\ in' = in /\ loc' = loc /\ out' = out /\ key' = key /\ msg' = msg
      /\ TInv(X)
  OBVIOUS
<1> QED
  BY <1>1 DEF TInv, Known

\* blake2sp_init and blake2sp_init_key.
LEMMA TInit ==
  ASSUME TreeOK, NEW X, Zero \in X, TInv(X), NEW n, NEW k \in Seq(X), TreeInit(n, k)
  PROVE  TInv(X)'
<1>1. CASE res' = -1 /\ UNCHANGED <<st, out, key, msg>>
  BY <1>1, TSame DEF TreeInit
<1>2. CASE /\ ~Refused(n, k) /\ res' = 0
           /\ st' = [S |-> NewLeaves(n, k), R |-> NewRoot(n, k),
                     buf |-> Zeros(Wide), buflen |-> 0, outlen |-> n]
           /\ key' = k /\ msg' = <<>> /\ out' = Garbage
  <2>1. n \in 1..OutBytes /\ Len(k) <= BlockBytes
    BY <1>2, LenProperties, Blake2NodeAssumption DEF Refused
  <2> DEFINE T == TRec(NewLeaves(n, k), NewRoot(n, k), Zeros(Wide), 0, n)
             e == <<>>
             live == TRUE
  <2>2. TreeIdle(T, n, k, e, live, X)
    BY <2>1, NewTree
  <2>3. /\ at = "idle" /\ at' = at /\ st' = T /\ key' = k /\ msg' = e
        /\ out' = Garbage /\ res' = 0
    BY <1>2 DEF TreeInit, Idle, TRec
  <2>4. e \in Seq(X) /\ live \in BOOLEAN
    BY EmptySeq
  <2> HIDE DEF T, e, live
  <2>5. Resting(st', key', msg', out', X)
    BY <2>2, <2>3, <2>4 DEF Resting
  <2>6. Known(X)'
    BY <2>1, <2>3, <2>4 DEF Known
  <2> QED
    BY <2>3, <2>5, <2>6 DEF TInv
<1> QED
  BY <1>1, <1>2 DEF TreeInit

\* blake2sp_update, up to the leaves.
LEMMA TUpdate ==
  ASSUME TreeOK, NEW X, Zero \in X, TInv(X), NEW s \in Seq(X), TreeUpdate(s)
  PROVE  TInv(X)'
<1>1. /\ at = "idle" /\ at' = "update" /\ st # Garbage /\ out = Garbage /\ out' = out
      /\ msg' = msg \o s /\ res' = res /\ key' = key
  BY DEF TreeUpdate, Idle, Started, Finished
<1>2. key \in Seq(X) /\ Len(key) <= BlockBytes /\ msg \in Seq(X) /\ res \in {0, -1}
  BY DEF TInv, Known
<1>3. PICK n, live : live \in BOOLEAN /\ TreeIdle(st, n, key, msg, live, X)
  BY <1>1 DEF TInv, Resting
<1>4. Joins(msg', msg, s)
  BY <1>1 DEF Joins
<1>5. msg' \in Seq(X)
  BY <1>1, <1>2, ConcatProperties
<1>6. TreeBusy(st', loc', in', n, key, msg', live, X)
  <2>1. CASE Flushes(st, s)
    <3>1. st' = Flushed(st, s) /\ in' = DropFirst(s, Wide - st.buflen) /\ loc' = Locals(0)
      BY <2>1 DEF TreeUpdate, Flushed, Filled
    <3>2. TreeBusy(Flushed(st, s), Locals(0), DropFirst(s, Wide - st.buflen), n, key, msg', live, X)
      BY <1>2, <1>3, <1>4, <2>1, UpdateFlush
    <3> QED
      BY <3>1, <3>2, Zenon
  <2>2. CASE ~Flushes(st, s)
    <3>1. st' = st /\ in' = s /\ loc' = Locals(st.buflen)
      BY <2>2 DEF TreeUpdate
    <3>2. TreeBusy(st, Locals(st.buflen), s, n, key, msg', live, X)
      BY <1>3, <1>4, <2>2, UpdatePlain
    <3> QED
      BY <3>1, <3>2, Zenon
  <2> QED
    BY <2>1, <2>2
<1>7. Updating(st', loc', in', key', msg', out', X)
  BY <1>1, <1>3, <1>6 DEF Updating
<1>8. Known(X)'
  BY <1>1, <1>2, <1>5 DEF Known
<1> QED
  BY <1>1, <1>7, <1>8 DEF TInv

\* A block of one leaf.
LEMMA TBlock ==
  ASSUME TreeOK, NEW X, Zero \in X, TInv(X), NEW i \in Leaves, LeafBlock(i)
  PROVE  TInv(X)'
<1>1. /\ at \in {"update", "one"} /\ More(i) /\ UNCHANGED <<at, in, out, res, key, msg>>
      /\ st' = Stepped(st, i, BlockOf(in, loc.pos[i], i)) /\ loc' = Moved(loc, i)
  BY DEF LeafBlock, Stepped, Moved
<1>2. key \in Seq(X) /\ Len(key) <= BlockBytes
  BY DEF TInv, Known
<1>3. ~Through(in, loc.pos[i])
  BY <1>1 DEF More, Through
<1>4. Known(X)'
  BY <1>1 DEF TInv, Known
<1>5. CASE at = "update"
  <2>1. Updating(st, loc, in, key, msg, out, X)
    BY <1>5 DEF TInv
  <2>2. PICK n, live : live \in BOOLEAN /\ TreeBusy(st, loc, in, n, key, msg, live, X)
    BY <2>1 DEF Updating
  <2>3. TreeBusy(Stepped(st, i, BlockOf(in, loc.pos[i], i)), Moved(loc, i), in, n, key, msg, live, X)
    BY <1>2, <1>3, <2>2, UpdateBlock
  <2>4. TreeBusy(st', loc', in', n, key', msg', live, X)
    BY <1>1, <2>3, Zenon
  <2>5. Updating(st', loc', in', key', msg', out', X)
    BY <1>1, <2>1, <2>2, <2>4 DEF Updating
  <2> QED
    BY <1>1, <1>4, <1>5, <2>1, <2>5 DEF TInv, Updating
<1>6. CASE at = "one"
  <2>1. Hashing(st, loc, in, key, msg, out, X)
    BY <1>6 DEF TInv
  <2>2. PICK n : TreeIsOne(st, loc, in, n, key, X)
    BY <2>1 DEF Hashing
  <2>3. TreeIsOne(Stepped(st, i, BlockOf(in, loc.pos[i], i)), Moved(loc, i), in, n, key, X)
    BY <1>2, <1>3, <2>2, OneBlock
  <2>4. TreeIsOne(st', loc', in', n, key', X)
    BY <1>1, <2>3, Zenon
  <2>5. Hashing(st', loc', in', key', msg', out', X)
    BY <1>1, <2>1, <2>4 DEF Hashing
  <2> QED
    BY <1>1, <1>4, <1>6, <2>1, <2>5 DEF TInv, Hashing
<1> QED
  BY <1>1, <1>5, <1>6

\* The end of blake2sp_update.
LEMMA TJoin ==
  ASSUME TreeOK, NEW X, TInv(X), UpdateJoin
  PROVE  TInv(X)'
<1>1. /\ at = "update" /\ at' = "idle" /\ res' = 0 /\ out' = out /\ key' = key /\ msg' = msg
      /\ \A i \in Leaves : Through(in, loc.pos[i])
  BY DEF UpdateJoin, More, Through
<1>2. st' = Rejoined(st, loc, in)
  BY DEF UpdateJoin, Rejoined, Left, Rest
<1>3. Updating(st, loc, in, key, msg, out, X)
  BY <1>1 DEF TInv
<1>4. PICK n, live : live \in BOOLEAN /\ TreeBusy(st, loc, in, n, key, msg, live, X)
  BY <1>3 DEF Updating
<1>5. TreeIdle(Rejoined(st, loc, in), n, key, msg, live, X)
  BY <1>1, <1>4, UpdateEnds
<1>6. TreeIdle(st', n, key', msg', live, X)
  BY <1>1, <1>2, <1>5, Zenon
<1>7. out = Garbage
  BY <1>3 DEF Updating
<1>8. Resting(st', key', msg', out', X)
  BY <1>1, <1>4, <1>6, <1>7 DEF Resting
<1>9. Known(X)'
  BY <1>1 DEF TInv, Known
<1> QED
  BY <1>1, <1>7, <1>8, <1>9 DEF TInv

\* blake2sp_final, up to the root.
LEMMA TFinal ==
  ASSUME TreeOK, NEW X, Zero \in X, TInv(X), NEW n, TreeFinal(n)
  PROVE  TInv(X)'
<1>1. at = "idle" /\ st # Garbage /\ UNCHANGED <<in, out, key, msg>>
  BY DEF TreeFinal, Idle, Started
<1>2. key \in Seq(X) /\ Len(key) <= BlockBytes /\ msg \in Seq(X) /\ res \in {0, -1}
  BY DEF TInv, Known
<1>3. PICK o, live : live \in BOOLEAN /\ TreeIdle(st, o, key, msg, live, X) /\ (live => out = Garbage)
  BY <1>1 DEF TInv, Resting
<1>4. CASE n < st.outlen
  <2>1. st' = st /\ res' = -1 /\ at' = at /\ loc' = loc
    BY <1>4 DEF TreeFinal
  <2> QED
    BY <1>1, <2>1, TSame
<1>5. CASE ~(n < st.outlen)
  <2>1. /\ st' = LeavesClosed(st) /\ loc' = HashedLocals(Hashes(st)) /\ at' = "root" /\ res' = res
    BY <1>5 DEF TreeFinal, LeavesClosed, Ended, HashedLocals, Hashes, Ending
  <2>2. TreeEnd(LeavesClosed(st), HashedLocals(Hashes(st)), o, key, msg, live, X)
    BY <1>2, <1>3, FinalStarts
  <2>3. TreeEnd(st', loc', o, key', msg', live, X)
    BY <1>1, <2>1, <2>2, Zenon
  <2>4. loc'.local \in BOOLEAN
    <3> DEFINE M == HashedLocals(Hashes(st))
               h == Hashes(st)
               zero == 0
               none == {}
               local == FALSE
               pos == Locals(0).pos
    <3>1. M = TLoc(zero, pos, h, none, zero, local)
      BY HashedFacts
    <3> HIDE DEF M, h, zero, none, local, pos
    <3>2. M.local = local
      BY <3>1, TLocFacts
    <3> QED
      BY <2>1, <3>2 DEF M, h, local
  <2>5. Closing(st', loc', key', msg', out', X)
    BY <1>1, <1>3, <2>3, <2>4 DEF Closing
  <2>6. Known(X)'
    BY <1>1, <1>2, <2>1 DEF Known
  <2> QED
    BY <1>1, <2>1, <2>5, <2>6 DEF TInv
<1> QED
  BY <1>4, <1>5

\* blake2sp, up to the threads.
LEMMA TStart ==
  ASSUME TreeOK, NEW X, Zero \in X, TInv(X), NEW n, NEW m \in Seq(X), NEW k \in Seq(X), TreeOne(n, m, k)
  PROVE  TInv(X)'
<1>1. at = "idle" /\ res \in {0, -1}
  BY DEF TreeOne, Idle, TInv, Known
<1>2. CASE Refused(n, k)
  <2>1. UNCHANGED <<at, st, in, loc, out, key, msg>> /\ res' = -1
    BY <1>2 DEF TreeOne
  <2> QED
    BY <2>1, TSame
<1>3. CASE ~Refused(n, k)
  <2>1. n \in 1..OutBytes /\ Len(k) <= BlockBytes
    BY <1>3, LenProperties, Blake2NodeAssumption DEF Refused
  <2>2. /\ st' = TOne(NewLeaves(n, k), n) /\ loc' = LocalNodes /\ in' = m /\ at' = "one"
        /\ key' = k /\ msg' = m /\ out' = Garbage /\ res' = res
    BY <1>3 DEF TreeOne, TOne, LocalNodes
  <2>3. TreeIsOne(TOne(NewLeaves(n, k), n), LocalNodes, m, n, k, X)
    BY <2>1, OneStarts
  <2>4. TreeIsOne(st', loc', msg', n, key', X)
    BY <2>2, <2>3, Zenon
  <2>5. Hashing(st', loc', in', key', msg', out', X)
    BY <2>2, <2>4 DEF Hashing
  <2>6. Known(X)'
    BY <1>1, <2>1, <2>2 DEF Known
  <2> QED
    BY <2>2, <2>5, <2>6 DEF TInv
<1> QED
  BY <1>2, <1>3

\* The end of one leaf's thread.
LEMMA TEnd ==
  ASSUME TreeOK, NEW X, Zero \in X, TInv(X), NEW i \in Leaves, OneEnd(i)
  PROVE  TInv(X)'
<1> DEFINE f == OneEnding(st, loc, in, i)
<1>1. /\ at = "one" /\ ~More(i) /\ i \notin loc.ended /\ UNCHANGED <<at, in, out, res, key, msg>>
      /\ st' = LeafClosed(st, i, f) /\ loc' = LeafLocals(loc, i, f)
  BY DEF OneEnd, LeafClosed, LeafLocals, OneEnding, With
<1> HIDE DEF f
<1>2. key \in Seq(X) /\ Len(key) <= BlockBytes
  BY DEF TInv, Known
<1>3. Through(in, loc.pos[i])
  BY <1>1 DEF More, Through
<1>4. Hashing(st, loc, in, key, msg, out, X)
  BY <1>1 DEF TInv
<1>5. PICK n : TreeIsOne(st, loc, in, n, key, X)
  BY <1>4 DEF Hashing
<1>6. TreeIsOne(LeafClosed(st, i, f), LeafLocals(loc, i, f), in, n, key, X)
  BY <1>1, <1>2, <1>3, <1>5, OneLeafEnds DEF f
<1>7. TreeIsOne(st', loc', in', n, key', X)
  BY <1>1, <1>6, Zenon
<1>8. Hashing(st', loc', in', key', msg', out', X)
  BY <1>1, <1>4, <1>7 DEF Hashing
<1>9. Known(X)'
  BY <1>1 DEF TInv, Known
<1> QED
  BY <1>1, <1>4, <1>8, <1>9 DEF TInv, Hashing

\* The root of blake2sp.
LEMMA TRoot ==
  ASSUME TreeOK, NEW X, TInv(X), OneRoot
  PROVE  TInv(X)'
<1>1. /\ at = "one" /\ at' = "root" /\ loc.ended = Leaves /\ UNCHANGED <<in, loc, out, res, key, msg>>
      /\ st' = TNodes(st.S, NewRoot(st.outlen, key), st.outlen)
  BY DEF OneRoot, TNodes
<1>2. Hashing(st, loc, in, key, msg, out, X)
  BY <1>1 DEF TInv
<1>3. PICK n : TreeIsOne(st, loc, msg, n, key, X)
  BY <1>2 DEF Hashing
<1> DEFINE live == TRUE
<1>4. TreeEnd(TNodes(st.S, NewRoot(st.outlen, key), st.outlen), loc, n, key, msg, live, X)
  BY <1>1, <1>3, OneRooted
<1>5. live \in BOOLEAN
  OBVIOUS
<1>6. loc.local \in BOOLEAN
  BY <1>3 DEF TreeIsOne, OneLocals
<1> HIDE DEF live
<1>7. TreeEnd(st', loc', n, key', msg', live, X)
  BY <1>1, <1>4, Zenon
<1>8. out = Garbage
  BY <1>2 DEF Hashing
<1>9. Closing(st', loc', key', msg', out', X)
  BY <1>1, <1>5, <1>6, <1>7, <1>8 DEF Closing
<1>10. Known(X)'
  BY <1>1 DEF TInv, Known
<1> QED
  BY <1>1, <1>8, <1>9, <1>10 DEF TInv

\* The root is given a digest.
LEMMA TAbsorb ==
  ASSUME TreeOK, NEW X, TInv(X), Absorb
  PROVE  TInv(X)'
<1>1. /\ at = "root" /\ loc.i < Degree /\ UNCHANGED <<at, in, out, res, key, msg>>
      /\ st' = Absorbed(st, loc) /\ loc' = NextLeaf(loc)
  BY DEF Absorb, Absorbed, NextLeaf
<1>2. Closing(st, loc, key, msg, out, X)
  BY <1>1 DEF TInv
<1>3. PICK n, live : live \in BOOLEAN /\ TreeEnd(st, loc, n, key, msg, live, X) /\ (live => out = Garbage)
  BY <1>2 DEF Closing
<1>4. loc.local \in BOOLEAN
  BY <1>2 DEF Closing
<1>5. TreeEnd(Absorbed(st, loc), NextLeaf(loc), n, key, msg, live, X)
  BY <1>1, <1>3, <1>4, RootGiven
<1>6. TreeEnd(st', loc', n, key', msg', live, X)
  BY <1>1, <1>5, Zenon
<1>7. loc'.local \in BOOLEAN
  BY <1>1, <1>3, <1>4, NextFacts DEF TreeEnd
<1>8. Closing(st', loc', key', msg', out', X)
  BY <1>1, <1>3, <1>6, <1>7 DEF Closing
<1>9. Known(X)'
  BY <1>1 DEF TInv, Known
<1> QED
  BY <1>1, <1>8, <1>9 DEF TInv

\* The end of both.
LEMMA TReturn ==
  ASSUME TreeOK, NEW X, TInv(X), RootReturn
  PROVE  TInv(X)' /\ (out # Garbage => out' = out)
<1> DEFINE f == Finish(st)
<1>1. /\ at = "root" /\ at' = "idle" /\ loc.i = Degree /\ UNCHANGED <<key, msg>>
      /\ st' = (IF loc.local THEN Garbage ELSE [st EXCEPT !.R = f.st])
      /\ out' = (IF f.res = 0 THEN f.out ELSE out) /\ res' = f.res
  BY DEF RootReturn, Finish
<1> HIDE DEF f
<1>2. Closing(st, loc, key, msg, out, X)
  BY <1>1 DEF TInv
<1>3. PICK n, live : live \in BOOLEAN /\ TreeEnd(st, loc, n, key, msg, live, X) /\ (live => out = Garbage)
  BY <1>2 DEF Closing
<1>4. loc.local \in BOOLEAN
  BY <1>2 DEF Closing
<1>5. IF live THEN RootEnds(f, n, key, msg) ELSE f.res = -1
  BY <1>1, <1>3, <1>4, RootReturns DEF f
<1>6. ~loc.local => TreeIdle([st EXCEPT !.R = f.st], n, key, msg, FALSE, X)
  BY <1>1, <1>3, <1>4, RootReturns DEF f
<1>7. n \in 1..OutBytes
  BY <1>3 DEF TreeEnd
<1>8. res' \in {0, -1} /\ (live => out' = TreeHash(n, key, msg)) /\ (~live => out' = out)
  BY <1>1, <1>5, <1>3 DEF RootEnds
<1>9. out' # Garbage => Hashed(out', key', msg')
  <2>1. CASE live
    BY <1>1, <1>7, <1>8, <2>1 DEF Hashed
  <2>2. CASE ~live
    BY <1>1, <1>8, <2>2 DEF TInv
  <2> QED
    BY <2>1, <2>2
<1>10. st' # Garbage => Resting(st', key', msg', out', X)
  <2> SUFFICES ASSUME st' # Garbage PROVE Resting(st', key', msg', out', X)
    OBVIOUS
  <2>1. ~loc.local /\ st' = [st EXCEPT !.R = f.st]
    BY <1>1
  <2> DEFINE over == FALSE
  <2>2. TreeIdle([st EXCEPT !.R = f.st], n, key, msg, over, X) /\ over \in BOOLEAN /\ ~over
    BY <1>6, <2>1
  <2> HIDE DEF over
  <2>3. TreeIdle(st', n, key', msg', over, X)
    BY <1>1, <2>1, <2>2, Zenon
  <2> QED
    BY <2>2, <2>3 DEF Resting
<1>11. Known(X)'
  BY <1>1, <1>8 DEF TInv, Known
<1> QED
  BY <1>1, <1>3, <1>8, <1>9, <1>10, <1>11 DEF TInv

(***************************************************************************)
(* What it implies.                                                        *)
(***************************************************************************)
\* As many bytes are compressed of one input as of another of the same length.
LEMMA SameBase ==
  ASSUME NEW X, NEW d \in Seq(X), NEW e \in Seq(X), Len(d) = Len(e)
  PROVE  Base(d) = Base(e)
<1>1. d = <<>> <=> e = <<>>
  BY EmptySeq, LenProperties
<1> QED
  BY <1>1 DEF Base, Full

\* All leaves were given their stripes of g.
LeavesTake(s, n, k, g, X) == \A i \in Leaves : LeafTakes(s[i], n, k, g, i, X)

\* Between two calls no leaf was given more than another.
LEMMA SameCount ==
  ASSUME TreeOK, NEW X, Zero \in X, NEW n, NEW k \in Seq(X), Len(k) <= BlockBytes, NEW g, WholeBlocks(g, X),
         NEW s, LeavesTake(s, n, k, g, X), NEW i \in Leaves, NEW j \in Leaves
  PROVE  s[i].t = s[j].t
<1>1. PICK w : Aligned(g, w, X)
  BY DEF WholeBlocks
<1> DEFINE D(x) == Data(k, Stripe(g, x))
<1>2. ASSUME NEW x \in Leaves
      PROVE  D(x) \in Seq(X) /\ Len(D(x)) = Len(KeyData(k)) + w * BlockBytes /\ s[x].t = Words(Base(D(x)))
  <2>1. Stripe(g, x) \in Seq(X) /\ Len(Stripe(g, x)) = w * BlockBytes
    BY <1>1, <1>2, StripeAligned
  <2>2. Joins(Data(k, Stripe(g, x)), KeyData(k), Stripe(g, x)) /\ Data(k, Stripe(g, x)) \in Seq(X) /\ KeyData(k) \in Seq(X)
    BY <2>1, DataJoins
  <2>3. Len(Data(k, Stripe(g, x))) = Len(KeyData(k)) + Len(Stripe(g, x))
    BY <2>1, <2>2, ConcatProperties DEF Joins
  <2>4. Fed(s[x], LeafParam(n, k, x), Data(k, Stripe(g, x)), X)
    BY <1>2 DEF LeavesTake, LeafTakes
  <2>5. s[x].t = Words(Base(Data(k, Stripe(g, x))))
    <3> DEFINE d == Data(k, Stripe(g, x))
               P == LeafParam(n, k, x)
               T == s[x]
    <3>1. Fed(T, P, d, X)
      BY <2>4
    <3> HIDE DEF d, P, T
    <3>2. T.t = Words(Base(d))
      BY <3>1, FedCount
    <3> QED
      BY <3>2 DEF d, T
  <2> QED
    BY <2>1, <2>2, <2>3, <2>5
<1> HIDE DEF D
<1>3. D(i) \in Seq(X) /\ D(j) \in Seq(X) /\ Len(D(i)) = Len(D(j))
  BY <1>2
<1>4. Base(D(i)) = Base(D(j))
  BY <1>3, SameBase
<1> QED
  BY <1>2, <1>4

\* The buffer is within bounds.
LEMMA TTypes ==
  ASSUME TreeOK, NEW X, Zero \in X, TInv(X)
  PROVE  TreeTypeOK
<1>1. /\ at \in {"idle", "update", "one", "root"} /\ res \in {0, -1}
      /\ key \in Seq(X) /\ Len(key) <= BlockBytes
  BY DEF TInv, Known
<1>2. ASSUME at = "idle", st # Garbage
      PROVE  /\ st.buflen \in 0..(Wide - 1) /\ Len(st.buf) = Wide
             /\ st.R.f[1] \/ \A i, j \in Leaves : st.S[i].t = st.S[j].t
  <2>1. PICK n, live : live \in BOOLEAN /\ TreeIdle(st, n, key, msg, live, X)
    BY <1>2 DEF TInv, Resting
  <2>2. TreeOf(st, n, key, live, X)
    BY <2>1 DEF TreeIdle
  <2>3. PICK g : Holding(st.buf, st.buflen, g, msg, X) /\ LeavesHold(st.S, n, key, g, live, X)
    BY <2>1 DEF TreeIdle
  <2>4. WholeBlocks(g, X) /\ st.buflen \in 0..(Wide - 1)
    BY <2>3 DEF Holding
  <2>5. Len(st.buf) = Wide
    BY <2>2, WideFacts, LenProperties DEF TreeOf
  <2>6. CASE live
    <3> DEFINE s == st.S
               k == key
    <3>1. LeavesTake(s, n, k, g, X)
      BY <2>3, <2>6 DEF LeavesHold, Leaf, LeavesTake
    <3>2. k \in Seq(X) /\ Len(k) <= BlockBytes
      BY <1>1
    <3> HIDE DEF s, k
    <3>3. ASSUME NEW i \in Leaves, NEW j \in Leaves PROVE s[i].t = s[j].t
      BY <2>4, <3>1, <3>2, SameCount
    <3>4. \A i, j \in Leaves : st.S[i].t = st.S[j].t
      BY <3>3 DEF s
    <3> QED
      BY <2>4, <2>5, <3>4
  <2>7. CASE ~live
    <3>1. st.R.f[1]
      BY <2>2, <2>7 DEF TreeOf, RootHolds, RootOver
    <3> QED
      BY <2>4, <2>5, <3>1
  <2> QED
    BY <2>1, <2>6, <2>7
<1> QED
  BY <1>1, <1>2 DEF TreeTypeOK, Idle, Started

\* The digest is that of the tree over the message.
LEMMA TStreams ==
  ASSUME TreeOK, NEW X, TInv(X)
  PROVE  TreeStreamed
<1> SUFFICES ASSUME out # Garbage PROVE out = TreeHash(Len(out), key, msg)
  BY DEF TreeStreamed, Finished
<1>1. PICK n \in 1..OutBytes : out = TreeHash(n, key, msg)
  BY DEF TInv, Hashed
<1>2. n \in Nat
  BY WideFacts
<1>3. Len(TreeHash(n, key, msg)) = n
  BY <1>2 DEF TreeHash, Bytes
<1> QED
  BY <1>1, <1>3

(***************************************************************************)
(* A tree's digest has one input.                                          *)
(***************************************************************************)
\* Every byte of a message is in a leaf.
LEMMA InLeaf ==
  ASSUME TreeOK, NEW e \in Nat \ {0}
  PROVE  \E i \in Leaves, p \in Nat \ {0} : At(p, i) = e
<1> DEFINE h == e - 1
           q == h \div Wide
           r == h % Wide
           i == r \div BlockBytes
           t == r % BlockBytes
<1>1. BlockBytes \in Nat \ {0} /\ Wide \in Nat \ {0} /\ Wide = Degree * BlockBytes /\ Degree \in Nat
  BY WideFacts DEF Wide, TreeOK
<1>2. h \in Nat /\ e = h + 1
  OBVIOUS
<1> HIDE DEF h
<1>3. q \in Nat /\ r \in 0..(Wide - 1) /\ h = Wide * q + r
  BY <1>1, <1>2, DivMod
<1> HIDE DEF q, r
<1>4. i \in Nat /\ t \in 0..(BlockBytes - 1) /\ r = BlockBytes * i + t
  <2>1. r \in Nat
    BY <1>1, <1>3
  <2> QED
    BY <1>1, <2>1, DivMod
<1> HIDE DEF i, t
<1>5. BlockBytes * i = i * BlockBytes /\ Wide * q = q * Wide
  BY <1>1, <1>3, <1>4
<1>6. i < Degree
  <2> SUFFICES ASSUME Degree <= i PROVE FALSE
    BY <1>1, <1>4
  <2>1. Degree * BlockBytes <= i * BlockBytes /\ i * BlockBytes \in Nat
    BY <1>1, <1>4, TimesMore
  <2> DEFINE y == i * BlockBytes
  <2>2. y \in Nat /\ Wide <= y /\ r = y + t
    BY <1>1, <1>4, <1>5, <2>1
  <2> HIDE DEF y
  <2> QED
    BY <1>1, <1>3, <1>4, <2>2
<1>7. i \in Leaves
  BY <1>1, <1>4, <1>6 DEF Leaves
<1>8. t + 1 \in 1..BlockBytes
  BY <1>1, <1>4
<1> DEFINE p == q * BlockBytes + (t + 1)
           u == t + 1
<1>9. At(p, i) = q * Wide + (Before(i) + u) /\ q * Wide \in Nat /\ p \in Nat \ {0}
  BY <1>3, <1>7, <1>8, AtFacts
<1>10. At(p, i) = e
  <2> DEFINE y == q * Wide
             z == i * BlockBytes
  <2>1. Before(i) = z /\ z \in Nat /\ y \in Nat
    BY <1>1, <1>4, <1>9 DEF Before
  <2>2. h = y + r /\ r = z + t
    BY <1>3, <1>4, <1>5
  <2>3. At(p, i) = y + (z + u)
    BY <1>9, <2>1
  <2> HIDE DEF y, z, p
  <2> QED
    BY <1>2, <1>4, <2>1, <2>2, <2>3
<1> QED
  BY <1>7, <1>9, <1>10

\* Whether it is, and what it is, the leaf's stripe tells.
LEMMA StripeAt ==
  ASSUME TreeOK, NEW X, NEW m \in Seq(X), NEW i \in Leaves, NEW p \in Nat \ {0}
  PROVE  /\ p \in DOMAIN Stripe(m, i) <=> At(p, i) <= Len(m)
         /\ p \in DOMAIN Stripe(m, i) => Stripe(m, i)[p] = m[At(p, i)]
<1> DEFINE D == {q \in 1..Len(m) : At(q, i) <= Len(m)}
<1>1. Stripe(m, i) = [q \in D |-> m[At(q, i)]]
  BY DEF Stripe, At, Before
<1>2. At(p, i) \in Nat /\ p <= At(p, i) /\ Len(m) \in Nat
  BY AtNat, LenProperties
<1>3. p \in D <=> At(p, i) <= Len(m)
  BY <1>2
<1> HIDE DEF D
<1> QED
  BY <1>1, <1>3

\* So the stripes together tell the message.
LEMMA StripesTell ==
  ASSUME TreeOK, NEW X, NEW m \in Seq(X), NEW w \in Seq(X),
         \A i \in Leaves : Stripe(m, i) = Stripe(w, i)
  PROVE  m = w
<1>1. ASSUME NEW e \in Nat \ {0} PROVE (e <= Len(m) <=> e <= Len(w)) /\ (e <= Len(m) => m[e] = w[e])
  <2>1. PICK i \in Leaves, p \in Nat \ {0} : At(p, i) = e
    BY InLeaf
  <2>2. /\ p \in DOMAIN Stripe(m, i) <=> e <= Len(m)
        /\ p \in DOMAIN Stripe(m, i) => Stripe(m, i)[p] = m[e]
    BY <2>1, StripeAt
  <2>3. /\ p \in DOMAIN Stripe(w, i) <=> e <= Len(w)
        /\ p \in DOMAIN Stripe(w, i) => Stripe(w, i)[p] = w[e]
    BY <2>1, StripeAt
  <2> QED
    BY <2>2, <2>3
<1>2. Len(m) \in Nat /\ Len(w) \in Nat
  BY LenProperties
<1>3. Len(m) = Len(w)
  <2>1. ASSUME Len(m) < Len(w) PROVE FALSE
    BY <1>1, <1>2, <2>1
  <2>2. ASSUME Len(w) < Len(m) PROVE FALSE
    BY <1>1, <1>2, <2>2
  <2> QED
    BY <1>2, <2>1, <2>2
<1>4. \A e \in 1..Len(m) : m[e] = w[e]
  BY <1>1, <1>2
<1> QED
  BY <1>3, <1>4, SeqEqual

\* What the root was given tells the digests of the leaves.
LEMMA DigestsTell ==
  ASSUME TreeOK, NEW n, NEW k, NEW m, NEW j, NEW w, Digests(n, k, m) = Digests(n, j, w),
         NEW i \in Leaves
  PROVE  LeafDigest(n, k, m, i) = LeafDigest(n, j, w, i)
<1>1. ASSUME NEW q \in 1..OutBytes PROVE LeafDigest(n, k, m, i)[q] = LeafDigest(n, j, w, i)[q]
  <2> DEFINE p == i * OutBytes + q
  <2>1. Digests(n, k, m)[p] = LeafDigest(n, k, m, i)[q]
    BY DigestAt
  <2>2. Digests(n, j, w)[p] = LeafDigest(n, j, w, i)[q]
    BY DigestAt
  <2> QED
    BY <2>1, <2>2
<1> DEFINE d == LeafDigest(n, k, m, i)
           e == LeafDigest(n, j, w, i)
<1>2. d = [q \in 1..OutBytes |-> d[q]] /\ e = [q \in 1..OutBytes |-> e[q]]
  BY DEF LeafDigest, Bytes
<1> HIDE DEF d, e
<1>3. \A q \in 1..OutBytes : d[q] = e[q]
  BY <1>1 DEF d, e
<1>4. d = e
  BY <1>2, <1>3
<1> QED
  BY <1>4 DEF d, e

\* One digest of a tree is of one length, key and message.
LEMMA TreeTells ==
  ASSUME TreeOK, NEW X, Zero \in X, NEW n \in Nat \ {0}, NEW p \in Nat,
         NEW k \in Seq(X), Len(k) <= BlockBytes, NEW m \in Seq(X),
         NEW j \in Seq(X), NEW w \in Seq(X), TreeHash(n, k, m) = TreeHash(p, j, w)
  PROVE  n = p /\ k = j /\ m = w
<1> DEFINE D == Digests(n, k, m)
           E == Digests(p, j, w)
           C == Chain(RootParam(n, k), <<>>, D, TRUE)
           B == Chain(RootParam(p, j), <<>>, E, TRUE)
           Y == DigestBytes(n, k, m) \union DigestBytes(p, j, w)
<1>1. TreeHash(n, k, m) = Bytes(C, n) /\ TreeHash(p, j, w) = Bytes(B, p)
  BY DEF TreeHash, Digests
<1>2. n = p
  <2>1. DOMAIN Bytes(C, n) = 1..n /\ DOMAIN Bytes(B, p) = 1..p
    BY DEF Bytes
  <2> HIDE DEF C, B
  <2>2. 1..n = 1..p
    BY <1>1, <2>1
  <2> QED
    BY <2>2
<1>3. C = B
  <2> HIDE DEF C, B
  <2>1. Bytes(C, n) = Bytes(B, n)
    BY <1>1, <1>2
  <2> QED
    BY <2>1, BytesTell
<1>4. Len(j) = Len(k)
  <2>1. C.param = RootParam(n, k) /\ B.param = RootParam(p, j)
    BY DEF Chain
  <2> HIDE DEF C, B
  <2>2. RootParam(n, k) = RootParam(p, j)
    BY <1>3, <2>1
  <2>3. RootParam(n, k).key_length = Len(k) /\ RootParam(p, j).key_length = Len(j)
    BY DEF RootParam, SequentialParam
  <2> QED
    BY <2>2, <2>3
<1>5. D = E
  <2>1. D \in Seq(DigestBytes(n, k, m)) /\ E \in Seq(DigestBytes(p, j, w)) /\ Zero \in Y
    BY DigestFacts
  <2> DEFINE P == RootParam(n, k)
             Q == RootParam(p, j)
             x == <<>>
             l == TRUE
  <2> HIDE DEF D, E
  <2>2. D \in Seq(Y) /\ E \in Seq(Y)
    <3>1. DigestBytes(n, k, m) \subseteq Y /\ DigestBytes(p, j, w) \subseteq Y
      OBVIOUS
    <3> HIDE DEF Y
    <3> QED
      BY <2>1, <3>1, SeqMore
  <2>3. Chain(P, x, D, l) = Chain(Q, x, E, l)
    BY <1>3
  <2>4. x \in Seq(Y) /\ Len(x) = 0 /\ l \in BOOLEAN /\ Len(x) <= BlockBytes
    BY WideFacts, EmptySeq
  <2> HIDE DEF P, Q, x, l, Y
  <2>5. ASSUME NEW b \in BOOLEAN, Chain(P, x, D, b) = Chain(Q, x, E, b) PROVE D = E
    <3>1. Zero \in Y /\ D \in Seq(Y) /\ E \in Seq(Y) /\ x \in Seq(Y) /\ Len(x) <= BlockBytes
      BY <2>1, <2>2, <2>4
    <3> QED
      BY <2>5, <3>1, ChainTells
  <2> QED
    BY <2>3, <2>4, <2>5, Zenon
<1> HIDE DEF D, E, C, B, Y
<1>6. ASSUME NEW i \in Leaves PROVE k = j /\ Stripe(m, i) = Stripe(w, i)
  <2> DEFINE P == LeafParam(n, k, i)
             Q == LeafParam(n, j, i)
             x == Stripe(m, i)
             y == Stripe(w, i)
             l == (i = Degree - 1)
  <2>1. Digests(n, k, m) = Digests(n, j, w)
    BY <1>2, <1>5 DEF D, E
  <2>2. LeafDigest(n, k, m, i) = LeafDigest(n, j, w, i)
    BY <2>1, DigestsTell
  <2>3. Bytes(Chain(P, k, x, l), OutBytes) = Bytes(Chain(Q, j, y, l), OutBytes)
    BY <2>2 DEF LeafDigest
  <2>4. x \in Seq(X) /\ y \in Seq(X) /\ l \in BOOLEAN /\ OutBytes \in Nat \ {0}
    BY StripeSeq, WideFacts
  <2> HIDE DEF P, Q, x, y, l
  <2>5. Chain(P, k, x, l) = Chain(Q, j, y, l)
    BY <2>3, <2>4, BytesTell
  <2>6. k = j /\ x = y
    BY <1>4, <2>4, <2>5, ChainTells
  <2> QED
    BY <2>6 DEF x, y
<1>7. m = w
  <2>1. \A i \in Leaves : Stripe(m, i) = Stripe(w, i)
    BY <1>6
  <2> QED
    BY <2>1, StripesTell
<1>8. k = j
  <2>1. 0 \in Leaves
    BY DEF Leaves, TreeOK
  <2> QED
    BY <1>6, <2>1
<1> QED
  BY <1>2, <1>7, <1>8

\* The digest that was made is of no other.
LEMMA TDistinct ==
  ASSUME TreeOK, NEW X, Zero \in X, TInv(X), NEW lens, lens \subseteq Nat,
         NEW keys, keys \subseteq Seq(X), NEW msgs, msgs \subseteq Seq(X)
  PROVE  TreeDistinct(lens, keys, msgs)
<1> SUFFICES ASSUME out # Garbage, NEW p \in lens, NEW j \in keys, NEW w \in msgs,
                    out = TreeHash(p, j, w)
             PROVE  p = Len(out) /\ j = key /\ w = msg
  BY DEF TreeDistinct, Finished
<1>1. PICK n \in 1..OutBytes : out = TreeHash(n, key, msg)
  BY DEF TInv, Hashed
<1>2. n \in Nat \ {0} /\ p \in Nat /\ key \in Seq(X) /\ Len(key) <= BlockBytes /\ msg \in Seq(X)
  BY WideFacts DEF TInv, Known
<1>3. Len(TreeHash(n, key, msg)) = n
  BY <1>2 DEF TreeHash, Bytes
<1>4. TreeHash(n, key, msg) = TreeHash(p, j, w)
  BY <1>1
<1>5. n = p /\ key = j /\ msg = w
  BY <1>2, <1>4, TreeTells
<1> QED
  BY <1>1, <1>3, <1>5

(***************************************************************************)
(* BLAKE2Xs and BLAKE2Xb.                                                  *)
(***************************************************************************)
\* What Blake2Assumption says of these constants.
XofOK ==
  /\ XofMax \in Nat \ {0} /\ StreamKeys \in 0..BlockBytes
  /\ OffsetMod \in Nat \ {0} /\ SizeMod \in Nat \ {0}

(***************************************************************************)
(* The output, block by block.                                             *)
(***************************************************************************)
XRoot(a, k, m) == Bytes(Chain(XofParam(a, k), k, m, FALSE), OutBytes)
XSize(n, i) == Min({OutBytes, n - i * OutBytes})
XBlock(a, n, k, m, i) ==
  Bytes(Chain(BlockParam(XofParam(a, k), i, XSize(n, i)), <<>>, XRoot(a, k, m), FALSE), XSize(n, i))

\* Where a byte of the output is from.
LEMMA XofAt ==
  ASSUME NEW a, NEW n \in Nat, NEW k, NEW m, NEW i \in Nat, NEW q \in 1..OutBytes,
         NEW j, j = i * OutBytes + q, j <= n
  PROVE  XofHash(a, n, k, m)[j] = XBlock(a, n, k, m, i)[q]
<1> DEFINE P == XofParam(a, k)
           root == Bytes(Chain(P, k, m, FALSE), OutBytes)
           Size(x) == Min({OutBytes, n - (x - 1) * OutBytes})
           B(x) == Bytes(Chain(BlockParam(P, x - 1, Size(x)), <<>>, root, FALSE), Size(x))
<1>1. XofHash(a, n, k, m) = [y \in 1..n |-> B(((y - 1) \div OutBytes) + 1)[((y - 1) % OutBytes) + 1]]
  BY DEF XofHash
<1>2. (i + 1) - 1 = i /\ (q - 1) + 1 = q
  OBVIOUS
<1>3. B(i + 1) = XBlock(a, n, k, m, i)
  BY <1>2, Zenon DEF XBlock, XSize, XRoot
<1> HIDE DEF B
<1>4. OutBytes \in Nat \ {0} /\ i * OutBytes \in Nat /\ OutBytes * i = i * OutBytes
  BY Blake2NodeAssumption
<1>5. j \in 1..n
  BY <1>4
<1>6. j - 1 = OutBytes * i + (q - 1) /\ q - 1 \in 0..(OutBytes - 1)
  BY <1>4
<1>7. (j - 1) \div OutBytes = i /\ (j - 1) % OutBytes = q - 1
  <2>1. (OutBytes * i + (q - 1)) \div OutBytes = i /\ (OutBytes * i + (q - 1)) % OutBytes = q - 1
    BY <1>4, <1>6, DivModUnique
  <2> QED
    BY <1>6, <2>1, Zenon
<1>8. XofHash(a, n, k, m)[j] = B(((j - 1) \div OutBytes) + 1)[((j - 1) % OutBytes) + 1]
  BY <1>1, <1>5
<1> QED
  BY <1>2, <1>3, <1>7, <1>8, Zenon

\* Which byte of which digest that is.
LEMMA XByte ==
  ASSUME NEW a, NEW n \in Nat, NEW k, NEW m, NEW j \in 1..n
  PROVE  \E i \in Nat, q \in 1..OutBytes : j = i * OutBytes + q /\ i * OutBytes \in Nat
<1> DEFINE i == (j - 1) \div OutBytes
           r == (j - 1) % OutBytes
<1>1. OutBytes \in Nat \ {0} /\ j - 1 \in Nat
  BY Blake2NodeAssumption
<1>2. i \in Nat /\ r \in 0..(OutBytes - 1) /\ j - 1 = OutBytes * i + r
  BY <1>1, DivMod
<1> HIDE DEF i, r
<1>3. OutBytes * i = i * OutBytes /\ i * OutBytes \in Nat
  BY <1>1, <1>2
<1>4. r + 1 \in 1..OutBytes /\ j = i * OutBytes + (r + 1)
  BY <1>1, <1>2, <1>3
<1> QED
  BY <1>2, <1>3, <1>4

\* A block is no longer than a digest, and than what is left.
LEMMA XSizeFacts ==
  ASSUME NEW left \in Nat \ {0}
  PROVE  /\ Min({left, OutBytes}) \in 1..OutBytes /\ Min({left, OutBytes}) <= left
         /\ (Min({left, OutBytes}) # OutBytes => Min({left, OutBytes}) = left)
         /\ Min({OutBytes, left}) = Min({left, OutBytes})
         /\ BlockSize(left) = Min({left, OutBytes})
<1>1. OutBytes \in Nat \ {0}
  BY Blake2NodeAssumption
<1>2. Min({left, OutBytes}) = IF left <= OutBytes THEN left ELSE OutBytes
  BY <1>1, MinPair
<1>3. {left, OutBytes} = {OutBytes, left}
  OBVIOUS
<1>4. BlockSize(left) = IF left <= OutBytes THEN left ELSE OutBytes
  BY <1>1 DEF BlockSize
<1> QED
  BY <1>1, <1>2, <1>3, <1>4

(***************************************************************************)
(* A context, asked for a bytes, with key k.                               *)
(***************************************************************************)
XRec(s, p) == [S |-> s, P |-> p]
XState(T, a, k) == a \in 1..XofMax /\ T = XRec(T.S, XofParam(a, k))

\* It was given k and m, and is not finished.
XTakes(T, a, k, m, X) ==
  /\ XState(T, a, k) /\ Fed(T.S, XofParam(a, k), Data(k, m), X)
  /\ T.S.outlen = OutBytes /\ T.S.last_node = FALSE

\* It is finished.
XSpent(T, a, k, X) ==
  /\ XState(T, a, k) /\ NodeOf(T.S, XofParam(a, k)) /\ T.S.f[1] = TRUE /\ Shaped(T.S, X)

XLive(T, a, k, m, X) == XTakes(T, a, k, m, X) \/ XSpent(T, a, k, X)

\* Its parameters.
LEMMA XofParamFacts ==
  ASSUME NEW a, NEW k
  PROVE  XofParam(a, k).digest_length = OutBytes /\ XofParam(a, k).xof_length = a
BY DEF XofParam, SequentialParam

\* The parts of a context.
LEMMA XRecFacts ==
  ASSUME NEW s, NEW p, NEW z
  PROVE  XRec(s, p).S = s /\ XRec(s, p).P = p /\ [XRec(s, p) EXCEPT !.S = z] = XRec(z, p)
BY DEF XRec

\* The replaced root of a context.
LEMMA XStateFacts ==
  ASSUME NEW T, NEW a, NEW k, XState(T, a, k), NEW z
  PROVE  /\ T.P = XofParam(a, k) /\ [T EXCEPT !.S = z] = XRec(z, XofParam(a, k))
         /\ XState([T EXCEPT !.S = z], a, k) /\ [T EXCEPT !.S = z].S = z
<1> DEFINE s == T.S
           p == XofParam(a, k)
<1>1. T = XRec(s, p) /\ a \in 1..XofMax
  BY DEF XState
<1> HIDE DEF s, p
<1>2. T.P = p /\ [T EXCEPT !.S = z] = XRec(z, p)
  BY <1>1, XRecFacts
<1>3. XRec(z, p).S = z
  BY XRecFacts
<1> QED
  BY <1>1, <1>2, <1>3 DEF XState, p

\* A context is of one length only.
LEMMA XStateTells ==
  ASSUME NEW T, NEW a, NEW k, XState(T, a, k)
  PROVE  T.P.xof_length = a
<1>1. T.P = XofParam(a, k)
  BY DEF XState, XRec
<1> QED
  BY <1>1, XofParamFacts

\* blake2xs_init and blake2xs_init_key.
LEMMA NewLive ==
  ASSUME NEW X, Zero \in X, NEW n \in 1..XofMax, NEW k \in Seq(X), Len(k) <= BlockBytes
  PROVE  XTakes(NewState(n, k), n, k, <<>>, X)
<1> DEFINE P == XofParam(n, k)
           I == InitParam(P)
           N == Keyed(I, k)
<1>1. Fed(I, P, <<>>, X) /\ I.outlen = P.digest_length /\ I.last_node = FALSE
  BY NewFed
<1>2. P.digest_length = OutBytes
  BY XofParamFacts
<1> HIDE DEF I, P
<1>3. Fed(N, P, KeyData(k), X) /\ N.outlen = I.outlen /\ N.last_node = I.last_node
  BY <1>1, KeyedFed
<1>4. Data(k, <<>>) = KeyData(k)
  BY DataJoins, EmptySeq
<1> HIDE DEF N
<1>5. NewState(n, k) = XRec(N, P)
  BY DEF NewState, XRec, N, I, P
<1>6. NewState(n, k).S = N
  BY <1>5, XRecFacts
<1> QED
  BY <1>1, <1>2, <1>3, <1>4, <1>5, <1>6, Zenon DEF XTakes, XState, P

\* blake2xs_update.
LEMMA UpdateTakes ==
  ASSUME NEW X, Zero \in X, NEW T, NEW a, NEW k \in Seq(X), Len(k) <= BlockBytes, NEW m \in Seq(X),
         XTakes(T, a, k, m, X), NEW s \in Seq(X), NEW w, Joins(w, m, s)
  PROVE  XTakes([T EXCEPT !.S = NodeUpdate(@, s)], a, k, w, X)
<1> DEFINE N == NodeUpdate(T.S, s)
           U == [T EXCEPT !.S = NodeUpdate(@, s)]
<1>1. U = [T EXCEPT !.S = N]
  OBVIOUS
<1>2. /\ XState(T, a, k) /\ Fed(T.S, XofParam(a, k), Data(k, m), X)
      /\ T.S.outlen = OutBytes /\ T.S.last_node = FALSE
  BY DEF XTakes
<1>3. Joins(Data(k, w), Data(k, m), s)
  BY DataMore
<1>4. Fed(N, XofParam(a, k), Data(k, w), X) /\ N.outlen = T.S.outlen /\ N.last_node = T.S.last_node
  BY <1>2, <1>3, UpdateFed
<1> HIDE DEF N, U
<1>5. XState(U, a, k) /\ U.S = N
  BY <1>1, <1>2, XStateFacts
<1>6. XTakes(U, a, k, w, X)
  BY <1>2, <1>4, <1>5, Zenon DEF XTakes
<1> QED
  BY <1>6 DEF U

\* And of a context that is finished.
LEMMA UpdateSpent ==
  ASSUME NEW X, NEW T, NEW a, NEW k, XSpent(T, a, k, X), NEW s \in Seq(X)
  PROVE  XSpent([T EXCEPT !.S = NodeUpdate(@, s)], a, k, X)
<1> DEFINE N == NodeUpdate(T.S, s)
           U == [T EXCEPT !.S = NodeUpdate(@, s)]
           P == XofParam(a, k)
<1>1. U = [T EXCEPT !.S = N]
  OBVIOUS
<1>2. XState(T, a, k) /\ NodeOf(T.S, P) /\ T.S.f[1] = TRUE /\ Shaped(T.S, X)
  BY DEF XSpent
<1> HIDE DEF P
<1>3. NodeOf(N, P) /\ N.f = T.S.f
  BY <1>2, UpdateNode
<1>4. Shaped(N, X)
  BY <1>2, UpdateShaped
<1> HIDE DEF N, U
<1>5. XState(U, a, k) /\ U.S = N
  BY <1>1, <1>2, XStateFacts
<1>6. XSpent(U, a, k, X)
  BY <1>2, <1>3, <1>4, <1>5, Zenon DEF XSpent, P
<1> QED
  BY <1>6 DEF U

(***************************************************************************)
(* The loop of blake2xs_final, for n bytes: the blocks so far are those of *)
(* the output, and only the last may be cut short.                         *)
(***************************************************************************)
XLocals(left, i, root, done, local) ==
  [left |-> left, i |-> i, root |-> root, done |-> done, local |-> local]

\* *out, of which the first c bytes are made.
XDone(a, n, k, m, c) ==
  [j \in 1..n |-> IF j <= c THEN XofHash(a, n, k, m)[j] ELSE Garbage]

XLoop(L, n, a, k, m) ==
  /\ L = XLocals(L.left, L.i, XRoot(a, k, m), L.done, L.local)
  /\ n \in 0..(SizeMod - 1) /\ L.left \in 0..n /\ L.i \in Nat
  /\ L.done = XDone(a, n, k, m, n - L.left)
  /\ (L.left > 0 => n - L.left = L.i * OutBytes)
  /\ a \in {XofMax, n} /\ (L.local => a = n)

\* F is the end of the root of context T, of key and message.
RootOf(F, T, a, k, m, X) ==
  F.res = 0 /\ F.out = XRoot(a, k, m) /\ XSpent([T EXCEPT !.S = F.st], a, k, X)

\* The root of a context that is not finished is that of key and message.
LEMMA XRootMade ==
  ASSUME NEW X, Zero \in X, NEW T, NEW a, NEW k \in Seq(X), Len(k) <= BlockBytes, NEW m \in Seq(X),
         XTakes(T, a, k, m, X)
  PROVE  RootOf(NodeFinal(T.S, OutBytes), T, a, k, m, X)
<1> DEFINE P == XofParam(a, k)
           d == Data(k, m)
           Q == T.S
           F == NodeFinal(Q, OutBytes)
           h == Chain(P, k, m, FALSE)
           U == [T EXCEPT !.S = F.st]
           l == FALSE
<1>1. XState(T, a, k) /\ Fed(Q, P, d, X) /\ Q.outlen = OutBytes /\ Q.last_node = l
  BY DEF XTakes
<1>2. l \in BOOLEAN
  OBVIOUS
<1>3. Room(Q, OutBytes)
  BY <1>1, Blake2NodeAssumption DEF Room
<1> HIDE DEF P, Q, l
<1>4. Ends(F, Chain(P, k, m, l), d, Q, X) /\ NodeOf(F.st, P)
  BY <1>1, <1>2, <1>3, FinalChain
<1> HIDE DEF F, d
<1>5. F.res = 0 /\ F.out = Bytes(h, OutBytes) /\ F.st.f[1] = TRUE /\ Shaped(F.st, X)
  BY <1>1, <1>4, Zenon DEF Ends, l
<1>6. F.out = XRoot(a, k, m)
  BY <1>5, Zenon DEF XRoot, P
<1> HIDE DEF h, U
<1>11. XState(U, a, k) /\ U.S = F.st
  BY <1>1, XStateFacts DEF U
<1>12. XSpent(U, a, k, X)
  BY <1>4, <1>5, <1>11, Zenon DEF XSpent, P
<1> QED
  BY <1>5, <1>6, <1>12 DEF U, F, Q, RootOf

\* A context that is finished is not finished again.
LEMMA SpentFails ==
  ASSUME NEW X, NEW T, NEW a, NEW k, XSpent(T, a, k, X)
  PROVE  NodeFinal(T.S, OutBytes).res = -1
BY FinalFails DEF XSpent

\* The loop begins with nothing.
LEMMA LoopBegins ==
  ASSUME XofOK, NEW n \in 0..(SizeMod - 1), NEW a, NEW k, NEW m, NEW local, a \in {XofMax, n},
         local => a = n
  PROVE  XLoop(XLocals(n, 0, XRoot(a, k, m), [j \in 1..n |-> Garbage], local), n, a, k, m)
<1> DEFINE r == XRoot(a, k, m)
           e == [j \in 1..n |-> Garbage]
           L == XLocals(n, 0, r, e, local)
<1>0. n \in Nat
  BY DEF XofOK
<1>1. e = XDone(a, n, k, m, n - n)
  <2>1. \A j \in 1..n : ~(j <= n - n)
    BY <1>0
  <2> QED
    BY <2>1 DEF XDone
<1>2. n - n = 0 * OutBytes
  BY Blake2NodeAssumption
<1> HIDE DEF r, e
<1>3. L.left = n /\ L.i = 0 /\ L.done = e /\ L.local = local
  BY DEF XLocals
<1> HIDE DEF L
<1>4. L = XLocals(L.left, L.i, r, L.done, L.local)
  BY <1>3 DEF L
<1> QED
  BY <1>0, <1>1, <1>2, <1>3, <1>4 DEF XLoop, L, r, e

\* What the final of a block's node makes is the block of the output.
LEMMA BlockMade ==
  ASSUME NEW n \in Nat, NEW a, NEW k, NEW m, NEW i \in Nat, NEW left \in Nat \ {0},
         n - i * OutBytes = left, NEW size, size = Min({left, OutBytes})
  PROVE  /\ XBlock(a, n, k, m, i) = NodeFinal(NodeUpdate(InitParam(BlockParam(XofParam(a, k), i, size)), XRoot(a, k, m)), size).out
         /\ XBlock(a, n, k, m, i) = [q \in 1..size |-> XBlock(a, n, k, m, i)[q]]
<1> DEFINE P == BlockParam(XofParam(a, k), i, size)
           r == XRoot(a, k, m)
           Y == {Zero} \union {r[j] : j \in 1..OutBytes}
           I == InitParam(P)
           U == NodeUpdate(I, r)
           F == NodeFinal(U, size)
           B == XBlock(a, n, k, m, i)
<1>1. size \in 1..OutBytes /\ OutBytes \in Nat \ {0}
  BY XSizeFacts, Blake2NodeAssumption
<1>2. XSize(n, i) = size
  BY XSizeFacts DEF XSize
<1>3. r = [j \in 1..OutBytes |-> r[j]]
  <2> DEFINE h == Chain(XofParam(a, k), k, m, FALSE)
  <2> HIDE DEF h
  <2>1. Bytes(h, OutBytes) = [j \in 1..OutBytes |-> Bytes(h, OutBytes)[j]]
    BY DEF Bytes
  <2> QED
    BY <2>1 DEF XRoot, h
<1>4. P.digest_length = size
  BY DEF BlockParam, XofParam, SequentialParam
<1>5. Zero \in Y /\ \A j \in 1..OutBytes : r[j] \in Y
  OBVIOUS
<1> HIDE DEF r, Y, P
<1>6. r \in Seq(Y)
  BY <1>1, <1>3, <1>5
<1>7. Fed(I, P, <<>>, Y) /\ I.outlen = size /\ I.last_node = FALSE
  BY <1>4, <1>5, NewFed
<1> HIDE DEF I
<1>8. Joins(r, <<>>, r)
  BY <1>6, ConcatEmptySeq DEF Joins
<1>9. Fed(U, P, r, Y) /\ U.outlen = size /\ U.last_node = FALSE
  BY <1>6, <1>7, <1>8, UpdateFed
<1> HIDE DEF U
<1>10. Room(U, size)
  BY <1>1, <1>9 DEF Room
<1> DEFINE l == FALSE
           e == <<>>
<1>11. l \in BOOLEAN /\ U.last_node = l /\ e \in Seq(Y) /\ Len(e) <= BlockBytes
  BY <1>9, EmptySeq, Blake2NodeAssumption
<1>12. Fed(U, P, Data(e, r), Y)
  BY <1>9 DEF Data
<1> HIDE DEF l, e
<1>13. Ends(F, Chain(P, e, r, l), Data(e, r), U, Y)
  BY <1>5, <1>6, <1>10, <1>11, <1>12, FinalChain
<1> HIDE DEF F
<1>14. F.out = Bytes(Chain(P, <<>>, r, FALSE), size)
  BY <1>9, <1>13, Zenon DEF Ends, e, l
<1>15. B = Bytes(Chain(P, <<>>, r, FALSE), size)
  BY <1>2, Zenon DEF XBlock, P, r
<1>16. Bytes(Chain(P, <<>>, r, FALSE), size) = [q \in 1..size |-> Bytes(Chain(P, <<>>, r, FALSE), size)[q]]
  <2> DEFINE h == Chain(P, <<>>, r, FALSE)
  <2> HIDE DEF h
  <2>1. Bytes(h, size) = [q \in 1..size |-> Bytes(h, size)[q]]
    BY DEF Bytes
  <2> QED
    BY <2>1 DEF h
<1> HIDE DEF B
<1>17. B = F.out /\ B = [q \in 1..size |-> B[q]]
  BY <1>14, <1>15, <1>16, Zenon
<1> QED
  BY <1>17 DEF B, F, U, I, P, r

\* The output up to a block, with the block put after it, is that up to its end.
LEMMA DoneMore ==
  ASSUME NEW n \in Nat, NEW a, NEW k, NEW m, NEW i \in Nat, NEW left \in 1..n,
         n - left = i * OutBytes, NEW size, size = Min({left, OutBytes})
  PROVE  Overlay(XDone(a, n, k, m, n - left), i * OutBytes, XBlock(a, n, k, m, i))
           = XDone(a, n, k, m, n - (left - size))
<1> DEFINE H == XofHash(a, n, k, m)
           c == n - left
           s == XDone(a, n, k, m, c)
           t == XBlock(a, n, k, m, i)
<1>0. left \in Nat \ {0}
  OBVIOUS
<1>1. size \in 1..OutBytes /\ size <= left /\ left \in Nat \ {0} /\ size \in Nat
  BY <1>0, XSizeFacts, Blake2NodeAssumption
<1>2. c \in Nat /\ c = i * OutBytes
  OBVIOUS
<1>3. s = [j \in 1..n |-> IF j <= c THEN H[j] ELSE Garbage]
  BY DEF XDone
<1>4. t = [q \in 1..size |-> t[q]]
  <2>1. n - i * OutBytes = left
    BY <1>1, <1>2
  <2> QED
    BY <1>1, <2>1, BlockMade
<1>5. \A q \in 1..size : H[c + q] = t[q]
  <2> SUFFICES ASSUME NEW q \in 1..size PROVE H[c + q] = t[q]
    OBVIOUS
  <2> DEFINE j == c + q
  <2>3. q \in 1..OutBytes
    BY <1>1, Blake2NodeAssumption
  <2>4. j <= n
    BY <1>1
  <2>1. q \in 1..OutBytes /\ j = i * OutBytes + q /\ j <= n
    BY <1>2, <2>3, <2>4, Zenon
  <2> HIDE DEF j, c, H, t
  <2>2. H[j] = t[q]
    BY <2>1, XofAt DEF H, t
  <2> QED
    BY <2>2 DEF j
<1>6. n - (left - size) = c + size
  BY <1>1
<1> HIDE DEF t
<1>7. Len(t) = size
  <2>1. t \in [1..size -> {t[q] : q \in 1..size}]
    <3> DEFINE Y == {t[q] : q \in 1..size}
    <3>1. \A q \in 1..size : t[q] \in Y
      OBVIOUS
    <3> HIDE DEF Y
    <3>2. t \in [1..size -> Y]
      BY <1>4, <3>1
    <3> QED
      BY <3>2 DEF Y
  <2> DEFINE Y == {t[q] : q \in 1..size}
  <2> HIDE DEF Y
  <2>2. t \in [1..size -> Y]
    BY <2>1 DEF Y
  <2> QED
    BY <1>1, <2>2
<1> HIDE DEF s, H, c
<1>8. DOMAIN s = 1..n
  BY <1>3
<1>9. ASSUME NEW j \in 1..n
      PROVE  (IF j \in (c + 1)..(c + Len(t)) THEN t[j - c] ELSE s[j])
               = (IF j <= c + size THEN H[j] ELSE Garbage)
  <2>1. s[j] = IF j <= c THEN H[j] ELSE Garbage
    BY <1>3
  <2>2. CASE j <= c
    BY <1>1, <1>2, <1>7, <2>1, <2>2
  <2>3. CASE j > c /\ j <= c + size
    <3>1. j - c \in 1..size /\ c + (j - c) = j /\ j \in (c + 1)..(c + Len(t))
      BY <1>1, <1>2, <1>7, <2>3
    <3>2. t[j - c] = H[j]
      BY <1>5, <3>1
    <3> QED
      BY <2>3, <3>1, <3>2
  <2>4. CASE j > c + size
    BY <1>1, <1>2, <1>7, <2>1, <2>4
  <2> QED
    BY <1>1, <1>2, <2>2, <2>3, <2>4
<1>10. Overlay(s, c, t) = [j \in 1..n |-> IF j <= c + size THEN H[j] ELSE Garbage]
  BY <1>8, <1>9, Zenon DEF Overlay
<1> QED
  BY <1>2, <1>6, <1>10, Zenon DEF XDone, H, s, t

\* A step of the loop of blake2xs_final.
Advanced(L, size, o) ==
  [[[L EXCEPT !.left = (@ - size) % SizeMod] EXCEPT !.i = (@ + 1) % SizeMod]
     EXCEPT !.done = Overlay(@, L.i * OutBytes, o)]

\* It makes the next block of the output, and neither of its words wraps.
LEMMA LoopGoesOn ==
  ASSUME XofOK, NEW L, NEW n, NEW a, NEW k, NEW m, XLoop(L, n, a, k, m), L.left > 0,
         NEW size, size = Min({L.left, OutBytes}), NEW o, o = XBlock(a, n, k, m, L.i)
  PROVE  XLoop(Advanced(L, size, o), n, a, k, m)
<1> DEFINE left == L.left
           i == L.i
           r == XRoot(a, k, m)
           D == L.done
           local == L.local
           z == Overlay(D, i * OutBytes, o)
           y == left - size
           x == i + 1
           M == XLocals(y, x, r, z, local)
<1>1. /\ L = XLocals(left, i, r, D, local) /\ n \in 0..(SizeMod - 1) /\ left \in 0..n /\ i \in Nat
      /\ D = XDone(a, n, k, m, n - left) /\ left > 0 /\ n - left = i * OutBytes
      /\ a \in {XofMax, n} /\ (local => a = n)
  BY DEF XLoop
<1>2. left \in 1..n /\ left \in Nat \ {0} /\ n \in Nat /\ SizeMod \in Nat \ {0}
  BY <1>1 DEF XofOK
<1> HIDE DEF left, i, r, D, local
<1>3. size \in 1..OutBytes /\ size <= left /\ (size # OutBytes => size = left) /\ OutBytes \in Nat \ {0}
  <2>1. size = Min({left, OutBytes})
    BY DEF left
  <2> QED
    BY <1>2, <2>1, XSizeFacts, Blake2NodeAssumption
<1>4. z = XDone(a, n, k, m, n - y)
  <2>1. size = Min({left, OutBytes}) /\ o = XBlock(a, n, k, m, i)
    BY DEF left, i
  <2>2. Overlay(XDone(a, n, k, m, n - left), i * OutBytes, XBlock(a, n, k, m, i)) = XDone(a, n, k, m, n - (left - size))
    BY <1>1, <1>2, <2>1, DoneMore
  <2> QED
    BY <1>1, <2>1, <2>2, Zenon
<1>5. y \in 0..n /\ x \in Nat
  BY <1>1, <1>2, <1>3
<1>6. y > 0 => n - y = x * OutBytes
  <2> SUFFICES ASSUME y > 0 PROVE n - y = x * OutBytes
    OBVIOUS
  <2>1. size = OutBytes
    BY <1>1, <1>2, <1>3
  <2>2. x * OutBytes = i * OutBytes + OutBytes
    BY <1>1, <1>3
  <2> DEFINE v == i * OutBytes
  <2>3. n - left = v /\ x * OutBytes = v + OutBytes
    BY <1>1, <2>2
  <2> HIDE DEF v, x
  <2> QED
    BY <1>1, <1>2, <1>3, <2>1, <2>3
<1>7. y % SizeMod = y /\ x % SizeMod = x
  <2>1. ASSUME NEW b \in 0..(SizeMod - 1) PROVE b % SizeMod = b
    <3>1. (SizeMod * 0 + b) % SizeMod = b /\ SizeMod * 0 + b = b
      BY <1>2, DivModUnique
    <3> QED
      BY <3>1
  <2>2. y \in 0..(SizeMod - 1)
    BY <1>1, <1>2, <1>5
  <2>3. i <= n - left
    <3> DEFINE v == i * OutBytes
    <3>1. v >= i
      BY <1>1, <1>3
    <3>2. n - left = v
      BY <1>1
    <3> HIDE DEF v
    <3> QED
      BY <3>1, <3>2
  <2>4. x \in 0..(SizeMod - 1)
    BY <1>1, <1>2, <2>3
  <2> HIDE DEF x, y
  <2> QED
    BY <2>1, <2>2, <2>4
<1>8. Advanced(L, size, o) = M
  <2>1. [XLocals(left, i, r, D, local) EXCEPT !.left = (@ - size) % SizeMod] = XLocals(y, i, r, D, local)
    BY <1>7 DEF XLocals
  <2>2. [XLocals(y, i, r, D, local) EXCEPT !.i = (@ + 1) % SizeMod] = XLocals(y, x, r, D, local)
    <3> DEFINE w == (i + 1) % SizeMod
    <3>1. w = x
      BY <1>7
    <3> HIDE DEF w, x, y
    <3>2. XLocals(y, i, r, D, local).i = i
      BY DEF XLocals
    <3>3. [XLocals(y, i, r, D, local) EXCEPT !.i = w] = XLocals(y, w, r, D, local)
      BY DEF XLocals
    <3> QED
      BY <3>1, <3>2, <3>3, Zenon DEF w
  <2> HIDE DEF y, x, z
  <2>3. [XLocals(y, x, r, D, local) EXCEPT !.done = Overlay(@, i * OutBytes, o)] = M
    <3>1. [XLocals(y, x, r, D, local) EXCEPT !.done = z] = M
      BY DEF XLocals
    <3>2. XLocals(y, x, r, D, local).done = D
      BY DEF XLocals
    <3> DEFINE R == XLocals(y, x, r, D, local)
    <3>3. Overlay(R.done, i * OutBytes, o) = z
      BY <3>2, Zenon DEF z
    <3> HIDE DEF R
    <3>4. [R EXCEPT !.done = Overlay(@, i * OutBytes, o)] = [R EXCEPT !.done = Overlay(R.done, i * OutBytes, o)]
      OBVIOUS
    <3> QED
      BY <3>1, <3>3, <3>4, Zenon DEF R
  <2> HIDE DEF M
  <2> QED
    BY <1>1, <2>1, <2>2, <2>3, Zenon DEF Advanced, i
<1> HIDE DEF x, y, z
<1>9. M.left = y /\ M.i = x /\ M.done = z /\ M.local = local
  BY DEF XLocals
<1>10. M = XLocals(M.left, M.i, r, M.done, M.local)
  BY <1>9
<1> HIDE DEF M
<1>11. XLoop(M, n, a, k, m)
  BY <1>1, <1>4, <1>5, <1>6, <1>9, <1>10 DEF XLoop, r
<1> QED
  BY <1>8, <1>11

(***************************************************************************)
(* What was made of a context that was asked for a bytes.                  *)
(***************************************************************************)
XMade(o, a, k, m) ==
  /\ Len(o) \in Nat /\ o = XofHash(a, Len(o), k, m) /\ a \in {XofMax, Len(o)}

\* When nothing is left, all the output was made.
LEMMA LoopEnds ==
  ASSUME XofOK, NEW L, NEW n, NEW a, NEW k, NEW m, XLoop(L, n, a, k, m), L.left = 0
  PROVE  XMade(L.done, a, k, m) /\ (L.local => a = Len(L.done))
<1> DEFINE H == XofHash(a, n, k, m)
           D == L.done
<1>1. n \in Nat /\ D = XDone(a, n, k, m, n - L.left) /\ a \in {XofMax, n} /\ (L.local => a = n)
  BY DEF XLoop, XofOK
<1>2. n - L.left = n
  BY <1>1
<1>3. D = [j \in 1..n |-> H[j]]
  <2>1. \A j \in 1..n : j <= n
    BY <1>1
  <2> QED
    BY <1>1, <1>2, <2>1 DEF XDone
<1>4. H = [j \in 1..n |-> H[j]]
  BY DEF XofHash
<1> HIDE DEF D
<1>5. D = H /\ Len(D) = n
  <2> HIDE DEF H
  <2> QED
    BY <1>1, <1>3, <1>4
<1> QED
  BY <1>1, <1>5, Zenon DEF XMade, D

\* No byte of an output is twice in it, unless the numbers of the blocks wrap.
LEMMA BytesDiffer ==
  ASSUME XofOK, NEW n \in Nat, n <= OffsetMod * OutBytes, NEW a, NEW k, NEW m,
         NEW p \in 1..n, NEW q \in 1..n, XofHash(a, n, k, m)[p] = XofHash(a, n, k, m)[q]
  PROVE  p = q
<1> DEFINE B(i) == BlockParam(XofParam(a, k), i, XSize(n, i))
           r == XRoot(a, k, m)
           C(i) == Chain(B(i), <<>>, r, FALSE)
<1>0. OutBytes \in Nat \ {0} /\ OffsetMod \in Nat \ {0}
  BY Blake2NodeAssumption DEF XofOK
<1>1. PICK i \in Nat, u \in 1..OutBytes : p = i * OutBytes + u /\ i * OutBytes \in Nat
  BY XByte
<1>2. PICK j \in Nat, v \in 1..OutBytes : q = j * OutBytes + v /\ j * OutBytes \in Nat
  BY XByte
<1>3. \A x \in Nat : C(x).param.node_offset = x % OffsetMod
  <2> SUFFICES ASSUME NEW x \in Nat PROVE C(x).param.node_offset = x % OffsetMod
    OBVIOUS
  <2>1. C(x).param = B(x)
    BY DEF Chain
  <2>2. B(x).node_offset = x % OffsetMod
    BY DEF BlockParam, XofParam, SequentialParam
  <2> HIDE DEF B, C
  <2> QED
    BY <2>1, <2>2
<1>4. \A x \in Nat, y \in 1..OutBytes :
        x * OutBytes + y <= n => XofHash(a, n, k, m)[x * OutBytes + y] = [h |-> C(x), i |-> y]
  <2> SUFFICES ASSUME NEW x \in Nat, NEW y \in 1..OutBytes, x * OutBytes + y <= n
               PROVE  XofHash(a, n, k, m)[x * OutBytes + y] = [h |-> C(x), i |-> y]
    OBVIOUS
  <2> DEFINE z == x * OutBytes + y
             size == XSize(n, x)
             left == n - x * OutBytes
  <2>1. z \in Nat /\ left \in Nat \ {0} /\ y <= left
    BY <1>0
  <2>2. size \in 1..OutBytes /\ y <= size
    <3>1. size = Min({OutBytes, left})
      BY DEF XSize
    <3> HIDE DEF left, size, z
    <3>2. size \in 1..OutBytes /\ (size # OutBytes => size = left)
      BY <2>1, <3>1, XSizeFacts
    <3> QED
      BY <2>1, <3>2
  <2> HIDE DEF z
  <2>3. XofHash(a, n, k, m)[z] = XBlock(a, n, k, m, x)[y]
    BY XofAt DEF z
  <2>4. XBlock(a, n, k, m, x) = Bytes(C(x), size)
    BY DEF XBlock
  <2> HIDE DEF C, size
  <2>5. Bytes(C(x), size)[y] = [h |-> C(x), i |-> y]
    BY <2>2 DEF Bytes
  <2> QED
    BY <2>3, <2>4, <2>5 DEF z
<1> HIDE DEF C
<1>5. [h |-> C(i), i |-> u] = [h |-> C(j), i |-> v]
  BY <1>1, <1>2, <1>4
<1>6. u = v /\ C(i) = C(j)
  BY <1>5
<1>7. i % OffsetMod = j % OffsetMod
  BY <1>1, <1>2, <1>3, <1>6
<1>8. \A x \in Nat : x * OutBytes < OffsetMod * OutBytes => x < OffsetMod
  <2> SUFFICES ASSUME NEW x \in Nat, x >= OffsetMod PROVE x * OutBytes >= OffsetMod * OutBytes
    BY <1>0
  <2> QED
    BY <1>0
<1>9. i < OffsetMod /\ j < OffsetMod
  <2> DEFINE w == OffsetMod * OutBytes
             x == i * OutBytes
             y == j * OutBytes
  <2>1. w \in Nat /\ n <= w /\ p = x + u /\ q = y + v /\ x \in Nat /\ y \in Nat
    BY <1>0, <1>1, <1>2
  <2>2. (x < w => i < OffsetMod) /\ (y < w => j < OffsetMod)
    BY <1>1, <1>2, <1>8
  <2> HIDE DEF w, x, y
  <2> QED
    BY <1>0, <2>1, <2>2
<1>10. i = j
  BY <1>0, <1>7, <1>9
<1> QED
  BY <1>1, <1>2, <1>6, <1>10

(***************************************************************************)
(* The inductive invariant of a context, for bytes X.                      *)
(***************************************************************************)
\* What a context is is told from memory that was never written.
Apart == \A s, p : XRec(s, p) # Garbage

\* Between two calls a context has taken key and message, or it is finished.
Between(X) == at = "idle" /\ st # Garbage => \E a : XLive(st, a, key, msg, X)

\* In the loop it is finished, and nothing was made of it before.
Running(X) ==
  at = "blocks" => out = Garbage /\ \E a, n : XSpent(st, a, key, X) /\ XLoop(loc, n, a, key, msg)

\* The output is that of key and message, and the context is finished, or gone.
Output(X) ==
  out # Garbage =>
    \E a : /\ XMade(out, a, key, msg)
           /\ (st # Garbage => XSpent(st, a, key, X))
           /\ (Apart /\ st = Garbage => a = Len(out))

XKnown(X) ==
  /\ at \in {"idle", "blocks"} /\ res \in {0, -1}
  /\ key \in Seq(X) /\ Len(key) <= BlockBytes /\ msg \in Seq(X)

XInv(X) == XKnown(X) /\ Between(X) /\ Running(X) /\ Output(X)

\* A call that fails changes nothing else than the result.
LEMMA XSame ==
  ASSUME NEW X, XInv(X), UNCHANGED <<at, st, loc, out, key, msg>>, res' \in {0, -1}
  PROVE  XInv(X)'
BY DEF XInv, XKnown, Between, Running, Output

\* blake2xs_init and blake2xs_init_key.
LEMMA XInit ==
  ASSUME NEW X, Zero \in X, XofOK, XInv(X), NEW n, NEW k \in Seq(X), XofInit(n, k)
  PROVE  XInv(X)'
<1>1. CASE XofRefused(n, k)
  BY <1>1, XSame DEF XofInit
<1>2. CASE ~XofRefused(n, k)
  <2>1. n \in 1..XofMax /\ Len(k) <= BlockBytes
    BY <1>2, LenProperties, Blake2NodeAssumption DEF XofRefused, XofOK
  <2>2. XTakes(NewState(n, k), n, k, <<>>, X)
    BY <2>1, NewLive
  <2>3. /\ at = "idle" /\ at' = at /\ st' = NewState(n, k) /\ key' = k /\ msg' = <<>>
        /\ out' = Garbage /\ res' = 0
    BY <1>2 DEF XofInit, Idle
  <2>4. XLive(st', n, key', msg', X)
    BY <2>2, <2>3, Zenon DEF XLive
  <2>5. <<>> \in Seq(X)
    BY EmptySeq
  <2> QED
    BY <2>1, <2>3, <2>4, <2>5 DEF XInv, XKnown, Between, Running, Output
<1> QED
  BY <1>1, <1>2

\* blake2xs_update.
LEMMA XUpdate ==
  ASSUME NEW X, Zero \in X, XInv(X), NEW s \in Seq(X), XofUpdate(s)
  PROVE  XInv(X)'
<1>1. /\ at = "idle" /\ at' = at /\ st # Garbage /\ out = Garbage /\ out' = out
      /\ st' = [st EXCEPT !.S = NodeUpdate(@, s)] /\ msg' = msg \o s /\ res' = 0 /\ key' = key
  BY DEF XofUpdate, Idle, Started, Finished
<1>2. key \in Seq(X) /\ Len(key) <= BlockBytes /\ msg \in Seq(X)
  BY DEF XInv, XKnown
<1>3. PICK a : XLive(st, a, key, msg, X)
  BY <1>1 DEF XInv, Between
<1>4. Joins(msg', msg, s)
  BY <1>1 DEF Joins
<1>5. msg' \in Seq(X)
  BY <1>1, <1>2, ConcatProperties
<1>6. XLive(st', a, key, msg', X)
  <2>1. CASE XTakes(st, a, key, msg, X)
    <3>1. XTakes([st EXCEPT !.S = NodeUpdate(@, s)], a, key, msg', X)
      BY <1>2, <1>4, <2>1, UpdateTakes
    <3> QED
      BY <1>1, <3>1, Zenon DEF XLive
  <2>2. CASE XSpent(st, a, key, X)
    <3>1. XSpent([st EXCEPT !.S = NodeUpdate(@, s)], a, key, X)
      BY <2>2, UpdateSpent
    <3> QED
      BY <1>1, <3>1, Zenon DEF XLive
  <2> QED
    BY <1>3, <2>1, <2>2 DEF XLive
<1> QED
  BY <1>1, <1>2, <1>5, <1>6 DEF XInv, XKnown, Between, Running, Output

\* The beginning of the loop, from a context that is not finished.
LEMMA XBegins ==
  ASSUME NEW X, Zero \in X, XofOK, NEW T, NEW a, NEW k \in Seq(X), Len(k) <= BlockBytes,
         NEW m \in Seq(X), XTakes(T, a, k, m, X), NEW n \in 0..(SizeMod - 1), Matches(n, T.P),
         NEW local, local => n = a, Begin(T, n, local)
  PROVE  /\ at' = "blocks" /\ UNCHANGED res
         /\ XSpent(st', a, k, X) /\ XLoop(loc', n, a, k, m)
<1> DEFINE F == NodeFinal(T.S, OutBytes)
<1>0. RootOf(F, T, a, k, m, X)
  BY XRootMade
<1>1. F.res = 0 /\ F.out = XRoot(a, k, m) /\ XSpent([T EXCEPT !.S = F.st], a, k, X)
  BY <1>0 DEF RootOf
<1>2. /\ st' = [T EXCEPT !.S = F.st] /\ at' = "blocks" /\ UNCHANGED res
      /\ loc' = XLocals(n, 0, F.out, [j \in 1..n |-> Garbage], local)
  BY <1>1 DEF Begin, XLocals
<1>3. T.P.xof_length = a
  BY XStateTells DEF XTakes
<1>4. a \in {XofMax, n}
  BY <1>3 DEF Matches
<1>5. XLoop(XLocals(n, 0, XRoot(a, k, m), [j \in 1..n |-> Garbage], local), n, a, k, m)
  BY <1>4, LoopBegins
<1> HIDE DEF F
<1> QED
  BY <1>1, <1>2, <1>5, Zenon

\* blake2xs_final.
LEMMA XFinal ==
  ASSUME NEW X, Zero \in X, XofOK, XInv(X), NEW n \in 0..(SizeMod - 1), XofFinal(n)
  PROVE  XInv(X)'
<1>1. /\ at = "idle" /\ st # Garbage /\ Begin(st, n, FALSE) /\ UNCHANGED <<in, out, key, msg>>
  BY DEF XofFinal, Idle, Started
<1>2. key \in Seq(X) /\ Len(key) <= BlockBytes /\ msg \in Seq(X) /\ res \in {0, -1}
  BY DEF XInv, XKnown
<1>3. PICK a : XLive(st, a, key, msg, X)
  BY <1>1 DEF XInv, Between
<1>4. CASE ~(Matches(n, st.P) /\ NodeFinal(st.S, OutBytes).res = 0)
  <2>1. st' = st /\ res' = -1 /\ at' = at /\ loc' = loc
    BY <1>1, <1>4 DEF Begin
  <2> QED
    BY <1>1, <2>1, XSame
<1>5. CASE Matches(n, st.P) /\ NodeFinal(st.S, OutBytes).res = 0
  <2>1. ~XSpent(st, a, key, X)
    BY <1>5, SpentFails
  <2>2. XTakes(st, a, key, msg, X)
    BY <1>3, <2>1 DEF XLive
  <2>3. out = Garbage
    <3> SUFFICES ASSUME out # Garbage PROVE FALSE
      OBVIOUS
    <3>1. PICK b : XSpent(st, b, key, X)
      BY <1>1 DEF XInv, Output
    <3> QED
      BY <1>5, <3>1, SpentFails
  <2> DEFINE l == FALSE
  <2>4. (l => n = a) /\ Begin(st, n, l)
    BY <1>1
  <2> HIDE DEF l
  <2>5. at' = "blocks" /\ UNCHANGED res /\ XSpent(st', a, key, X) /\ XLoop(loc', n, a, key, msg)
    BY <1>2, <1>5, <2>2, <2>4, XBegins
  <2> QED
    BY <1>1, <1>2, <2>3, <2>5 DEF XInv, XKnown, Between, Running, Output
<1> QED
  BY <1>4, <1>5

\* blake2xs.
LEMMA XOne ==
  ASSUME NEW X, Zero \in X, XofOK, XInv(X), NEW n \in 0..(SizeMod - 1), NEW m \in Seq(X), NEW k \in Seq(X), XofOne(n, m, k)
  PROVE  XInv(X)'
<1>1. at = "idle" /\ st = Garbage /\ res \in {0, -1}
  BY DEF XofOne, Idle, Started, XInv, XKnown
<1>2. CASE OneRefused(n, k)
  <2>1. UNCHANGED <<at, st, loc, out, key, msg>> /\ res' = -1
    BY <1>2 DEF XofOne
  <2> QED
    BY <2>1, XSame
<1>3. CASE ~OneRefused(n, k)
  <2> DEFINE N == NewState(n, k)
             T == [N EXCEPT !.S = NodeUpdate(@, m)]
             l == TRUE
  <2>1. Begin(T, n, l) /\ key' = k /\ msg' = m /\ out' = Garbage
    BY <1>3 DEF XofOne
  <2>2. n \in 1..XofMax /\ Len(k) <= BlockBytes
    BY <1>3, LenProperties, Blake2NodeAssumption DEF OneRefused, XofRefused, XofOK
  <2>3. XTakes(N, n, k, <<>>, X)
    BY <2>2, NewLive
  <2>4. Joins(m, <<>>, m) /\ <<>> \in Seq(X)
    BY ConcatEmptySeq, EmptySeq DEF Joins
  <2> HIDE DEF N, l
  <2>5. XTakes(T, n, k, m, X)
    BY <2>2, <2>3, <2>4, UpdateTakes
  <2> HIDE DEF T
  <2>6. Matches(n, T.P)
    <3>1. T.P.xof_length = n
      BY <2>5, XStateTells DEF XTakes
    <3> QED
      BY <2>2, <3>1 DEF Matches
  <2>7. at' = "blocks" /\ UNCHANGED res /\ XSpent(st', n, k, X) /\ XLoop(loc', n, n, k, m)
    BY <2>1, <2>2, <2>5, <2>6, XBegins
  <2> QED
    BY <1>1, <2>1, <2>2, <2>7 DEF XInv, XKnown, Between, Running, Output
<1> QED
  BY <1>2, <1>3

\* A block of the output.
LEMMA XBlockStep ==
  ASSUME NEW X, XofOK, XInv(X), FinalBlock
  PROVE  XInv(X)'
<1>1. /\ at = "blocks" /\ loc.left > 0 /\ UNCHANGED <<at, st, in, out, res, key, msg>>
      /\ \E f \in {NodeFinal(NodeUpdate(InitParam(BlockParam(st.P, loc.i, BlockSize(loc.left))), loc.root), BlockSize(loc.left))} :
           loc' = [loc EXCEPT !.left = (@ - BlockSize(loc.left)) % SizeMod, !.i = (@ + 1) % SizeMod,
                              !.done = Overlay(@, loc.i * OutBytes, f.out)]
  BY DEF FinalBlock
<1>2. PICK a, n : XSpent(st, a, key, X) /\ XLoop(loc, n, a, key, msg)
  BY <1>1 DEF XInv, Running
<1>6. loc.left \in Nat \ {0}
  BY <1>1, <1>2 DEF XLoop, XofOK
<1>7. BlockSize(loc.left) = Min({loc.left, OutBytes})
  BY <1>6, XSizeFacts
<1> DEFINE size == Min({loc.left, OutBytes})
           o == NodeFinal(NodeUpdate(InitParam(BlockParam(st.P, loc.i, size)), loc.root), size).out
<1>3. loc' = Advanced(loc, size, o)
  <2>1. loc' = [loc EXCEPT !.left = (@ - size) % SizeMod, !.i = (@ + 1) % SizeMod,
                           !.done = Overlay(@, loc.i * OutBytes, o)]
    BY <1>1, <1>7
  <2> HIDE DEF size, o
  <2> QED
    BY <2>1 DEF Advanced
<1>4. o = XBlock(a, n, key, msg, loc.i)
  <2>1. st.P = XofParam(a, key)
    BY <1>2 DEF XSpent, XState, XRec
  <2>2. /\ loc.root = XRoot(a, key, msg) /\ n \in Nat /\ loc.left \in 0..n /\ loc.i \in Nat
        /\ n - loc.left = loc.i * OutBytes
    <3>1. loc = XLocals(loc.left, loc.i, XRoot(a, key, msg), loc.done, loc.local)
      BY <1>2 DEF XLoop
    <3>2. loc.root = XRoot(a, key, msg)
      BY <3>1 DEF XLocals
    <3> QED
      BY <1>1, <1>2, <3>2 DEF XLoop, XofOK
  <2> DEFINE left == loc.left
             i == loc.i
  <2>3. left \in Nat \ {0} /\ n - i * OutBytes = left /\ i \in Nat /\ n \in Nat
    BY <1>1, <2>2, Blake2NodeAssumption
  <2>4. o = NodeFinal(NodeUpdate(InitParam(BlockParam(XofParam(a, key), i, size)), XRoot(a, key, msg)), size).out
    BY <2>1, <2>2, Zenon
  <2>5. size = Min({left, OutBytes})
    OBVIOUS
  <2> HIDE DEF size, o, left, i
  <2>6. XBlock(a, n, key, msg, i) = NodeFinal(NodeUpdate(InitParam(BlockParam(XofParam(a, key), i, size)), XRoot(a, key, msg)), size).out
    BY <2>3, <2>5, BlockMade
  <2> QED
    BY <2>4, <2>6, Zenon DEF i
<1> HIDE DEF o
<1>5. XLoop(loc', n, a, key, msg)
  <2>1. size = Min({loc.left, OutBytes})
    OBVIOUS
  <2> HIDE DEF size
  <2>2. XLoop(Advanced(loc, size, o), n, a, key, msg)
    BY <1>1, <1>2, <1>4, <2>1, LoopGoesOn
  <2> QED
    BY <1>3, <2>2, Zenon
<1> QED
  BY <1>1, <1>2, <1>5 DEF XInv, XKnown, Between, Running, Output

\* The end of the loop.
LEMMA XReturn ==
  ASSUME NEW X, XofOK, XInv(X), FinalReturn
  PROVE  XInv(X)'
<1>1. /\ at = "blocks" /\ loc.left = 0 /\ out' = loc.done /\ at' = "idle" /\ res' = 0
      /\ st' = (IF loc.local THEN Garbage ELSE st) /\ key' = key /\ msg' = msg
  BY DEF FinalReturn
<1>2. PICK a, n : XSpent(st, a, key, X) /\ XLoop(loc, n, a, key, msg)
  BY <1>1 DEF XInv, Running
<1>3. XMade(loc.done, a, key, msg) /\ (loc.local => a = Len(loc.done))
  BY <1>1, <1>2, LoopEnds
<1>4. XMade(out', a, key', msg')
  BY <1>1, <1>3, Zenon
<1>5. st' # Garbage => XSpent(st', a, key', X)
  BY <1>1, <1>2
<1>6. Apart /\ st' = Garbage => a = Len(out')
  <2>1. Apart => st # Garbage
    <3>1. st = XRec(st.S, XofParam(a, key))
      BY <1>2 DEF XSpent, XState
    <3> QED
      BY <3>1 DEF Apart
  <2> QED
    BY <1>1, <1>3, <2>1
<1>7. XKnown(X)' /\ Between(X)' /\ Running(X)'
  BY <1>1, <1>5 DEF XInv, XKnown, Between, Running, XLive
<1>8. Output(X)'
  BY <1>4, <1>5, <1>6 DEF Output
<1> QED
  BY <1>7, <1>8 DEF XInv

(***************************************************************************)
(* What it implies.                                                        *)
(***************************************************************************)
\* The buffer of a context that is no longer or not yet in use is within bounds.
LEMMA XTypes ==
  ASSUME NEW X, XInv(X)
  PROVE  XofTypeOK
<1>1. at \in {"idle", "blocks"} /\ res \in {0, -1}
  BY DEF XInv, XKnown
<1>2. ASSUME st # Garbage PROVE \E a : XTakes(st, a, key, msg, X) \/ XSpent(st, a, key, X)
  BY <1>1, <1>2 DEF XInv, Between, Running, XLive
<1>3. ASSUME NEW a, XTakes(st, a, key, msg, X) PROVE Shaped(st.S, X)
  BY <1>3, FedShaped DEF XTakes
<1>4. st # Garbage => Shaped(st.S, X)
  BY <1>2, <1>3 DEF XSpent
<1> QED
  BY <1>1, <1>4 DEF XofTypeOK, Started, Shaped

\* The output is that of key, message and length.
LEMMA XStreams ==
  ASSUME NEW X, XInv(X), Apart
  PROVE  XofStreamed
<1> SUFFICES ASSUME out # Garbage
             PROVE  LET asked == IF Started THEN st.P.xof_length ELSE Len(out)
                    IN  /\ out = XofHash(asked, Len(out), key, msg)
                        /\ asked \in {XofMax, Len(out)}
  BY DEF XofStreamed, Finished
<1>1. PICK a : /\ XMade(out, a, key, msg)
               /\ (st # Garbage => XSpent(st, a, key, X)) /\ (Apart /\ st = Garbage => a = Len(out))
  BY DEF XInv, Output
<1>2. st # Garbage => st.P.xof_length = a
  BY <1>1, XStateTells DEF XSpent
<1>3. (IF Started THEN st.P.xof_length ELSE Len(out)) = a
  BY <1>1, <1>2 DEF Started
<1> QED
  BY <1>1, <1>3 DEF XMade

\* No byte of the output is twice in it.
LEMMA XDiffers ==
  ASSUME NEW X, XofOK, XInv(X)
  PROVE  NoBlockTwice
<1> SUFFICES ASSUME out # Garbage, Len(out) <= OffsetMod * OutBytes,
                    NEW p \in 1..Len(out), NEW q \in 1..Len(out), out[p] = out[q]
             PROVE  p = q
  BY DEF NoBlockTwice, Finished
<1>1. PICK a : XMade(out, a, key, msg)
  BY DEF XInv, Output
<1> DEFINE n == Len(out)
<1>2. n \in Nat /\ out = XofHash(a, n, key, msg) /\ n <= OffsetMod * OutBytes /\ p \in 1..n /\ q \in 1..n
  BY <1>1 DEF XMade
<1> HIDE DEF n
<1>3. XofHash(a, n, key, msg)[p] = XofHash(a, n, key, msg)[q]
  BY <1>2, Zenon
<1> QED
  BY <1>2, <1>3, BytesDiffer

\* What is made of a context is not made again.
LEMMA XOnce ==
  ASSUME NEW X, XInv(X), FinalReturn
  PROVE  out = Garbage
BY DEF XInv, Running, FinalReturn

===============================================================================
