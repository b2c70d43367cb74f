--------------------------- MODULE Blake2NodeProofs ---------------------------
(***************************************************************************)
(* Lemmas about Blake2Node: what a node holds after any updates, and what  *)
(* final makes of it, for blocks and counter words of any width and bytes  *)
(* of any kind.  The trees and the extendable outputs are proved from      *)
(* them, once for each width.                                              *)
(***************************************************************************)
EXTENDS Blake2Node, SequenceTheorems, TLAPS

(***************************************************************************)
(* The byte counter.  Its two words are those of the number of bytes.      *)
(***************************************************************************)
Words(x) == <<x % WordMod, (x \div WordMod) % WordMod>>

\* Quotient and remainder of a number of bytes.
LEMMA DivMod ==
  ASSUME NEW w \in Nat \ {0}, NEW x \in Nat
  PROVE  x \div w \in Nat /\ x % w \in 0..(w - 1) /\ x = w * (x \div w) + (x % w)
OBVIOUS

\* No other quotient and remainder give the same number.
LEMMA DivModUnique ==
  ASSUME NEW w \in Nat \ {0}, NEW q \in Nat, NEW r \in 0..(w - 1)
  PROVE  (w * q + r) \div w = q /\ (w * q + r) % w = r
BY Z3

\* A multiple of the modulus more changes the quotient only.
LEMMA DivModShift ==
  ASSUME NEW w \in Nat \ {0}, NEW a \in Nat, NEW x \in Nat
  PROVE  (w * a + x) % w = x % w /\ (w * a + x) \div w = a + (x \div w)
<1> DEFINE q == x \div w
           r == x % w
<1>1. q \in Nat /\ r \in 0..(w - 1) /\ x = w * q + r
  BY DivMod
<1> HIDE DEF q, r
<1>2. w * a + x = w * (a + q) + r /\ a + q \in Nat
  BY <1>1
<1> DEFINE y == w * a + x
           c == a + q
<1>3. y = w * c + r /\ c \in Nat
  BY <1>2
<1> HIDE DEF y, c
<1>4. y % w = r /\ y \div w = c
  BY <1>1, <1>3, DivModUnique
<1> QED
  BY <1>4 DEF y, c, q, r

\* blake2b_increment_counter, for words that were those of a count.
LEMMA CountedWords ==
  ASSUME NEW x \in Nat, NEW n \in Nat
  PROVE  Counted(Words(x), n) = Words(x + n)
<1> DEFINE w == WordMod
           q == x \div w
           r == x % w
           a == q \div w
           b == q % w
           t == r + w * b + n
<1>1. w \in Nat \ {0}
  BY Blake2NodeAssumption
<1>2. Counted(Words(x), n) = <<t % w, (t \div w) % w>>
  BY DEF Counted, Words
<1> HIDE DEF w
<1>3. q \in Nat /\ r \in 0..(w - 1) /\ x = w * q + r
  BY <1>1, DivMod
<1> HIDE DEF q, r
<1>4. a \in Nat /\ b \in 0..(w - 1) /\ q = w * a + b
  BY <1>1, <1>3, DivMod
<1> HIDE DEF a, b
<1> DEFINE wa == w * a
           wb == w * b
<1>5. wa \in Nat /\ wb \in Nat
  BY <1>1, <1>4
<1>6. w * q = w * wa + wb
  <2>1. w * (wa + b) = w * wa + w * b
    BY <1>1, <1>4, <1>5
  <2> QED
    BY <1>4, <2>1
<1>7. t = r + wb + n
  OBVIOUS
<1> HIDE DEF wa, wb, t
<1>8. t \in Nat
  BY <1>3, <1>5, <1>7
<1>9. x + n = w * wa + t
  <2>1. w * wa \in Nat
    BY <1>1, <1>5
  <2> QED
    BY <1>3, <1>5, <1>6, <1>7, <2>1
<1>10. (x + n) % w = t % w /\ (x + n) \div w = wa + (t \div w)
  <2>1. (w * wa + t) % w = t % w /\ (w * wa + t) \div w = wa + (t \div w)
    BY <1>1, <1>5, <1>8, DivModShift
  <2> QED
    BY <1>9, <2>1, Zenon
<1>11. (wa + (t \div w)) % w = (t \div w) % w
  BY <1>1, <1>4, <1>8, DivMod, DivModShift, ZenonT(60) DEF wa
<1> QED
  BY <1>2, <1>10, <1>11 DEF Words, w

(***************************************************************************)
(* Bytes.  Cut(s, a, b) is what follows the first a of s, up to the b-th.  *)
(***************************************************************************)
Cut(s, a, b) == [j \in 1..(b - a) |-> s[a + j]]

\* That is a subsequence.
LEMMA CutFacts ==
  ASSUME NEW X, NEW s \in Seq(X), NEW a \in Nat, NEW b \in a..Len(s)
  PROVE  /\ SubSeq(s, a + 1, b) = Cut(s, a, b)
         /\ Cut(s, a, b) \in Seq(X) /\ Len(Cut(s, a, b)) = b - a
         /\ \A j \in 1..(b - a) : Cut(s, a, b)[j] = s[a + j]
<1>1. Len(s) \in Nat /\ b \in Nat
  BY LenProperties
<1>2. \A i \in (a + 1)..b : s[i] \in X
  BY <1>1, ElementOfSeq
<1> DEFINE u == SubSeq(s, a + 1, b)
<1>3. u \in Seq(X) /\ Len(u) = b - a /\ \A j \in 1..(b - a) : u[j] = s[a + j]
  BY <1>1, <1>2, SubSeqProperties
<1> HIDE DEF u
<1>4. u = [j \in 1..(b - a) |-> u[j]]
  BY <1>3, LenProperties
<1>5. u = Cut(s, a, b)
  BY <1>3, <1>4 DEF Cut
<1> QED
  BY <1>3, <1>5 DEF u

\* What comes after a number of bytes.
LEMMA DropFirstFacts ==
  ASSUME NEW X, NEW s \in Seq(X), NEW n \in 0..Len(s)
  PROVE  /\ DropFirst(s, n) \in Seq(X) /\ Len(DropFirst(s, n)) = Len(s) - n
         /\ \A j \in 1..(Len(s) - n) : DropFirst(s, n)[j] = s[n + j]
<1>1. Len(s) \in Nat /\ Len(s) \in n..Len(s) /\ n \in Nat
  BY LenProperties
<1> QED
  BY <1>1, CutFacts, ZenonT(60) DEF DropFirst

\* What memcpy leaves of a buffer of size bytes, and what it puts there.
LEMMA OverlayFacts ==
  ASSUME NEW X, NEW size \in Nat, NEW buf \in [1..size -> X], NEW n \in Nat, NEW s \in Seq(X),
         n + Len(s) <= size
  PROVE  /\ Overlay(buf, n, s) \in [1..size -> X]
         /\ \A j \in 1..n : Overlay(buf, n, s)[j] = buf[j]
         /\ \A j \in 1..Len(s) : Overlay(buf, n, s)[n + j] = s[j]
<1>1. Len(s) \in Nat
  BY LenProperties
<1>2. Overlay(buf, n, s) =
        [i \in 1..size |-> IF i \in (n + 1)..(n + Len(s)) THEN s[i - n] ELSE buf[i]]
  BY DEF Overlay
<1>3. \A i \in (n + 1)..(n + Len(s)) : s[i - n] \in X
  BY <1>1, ElementOfSeq
<1>4. \A j \in 1..Len(s) : Overlay(buf, n, s)[n + j] = s[j]
  <2> SUFFICES ASSUME NEW j \in 1..Len(s) PROVE Overlay(buf, n, s)[n + j] = s[j]
    OBVIOUS
  <2>1. n + j \in 1..size /\ n + j \in (n + 1)..(n + Len(s)) /\ (n + j) - n = j
    BY <1>1
  <2> QED
    BY <1>2, <2>1
<1> QED
  BY <1>1, <1>2, <1>3, <1>4

\* A block of up to so many bytes, filled with zeros.
LEMMA PadFacts ==
  ASSUME NEW X, Zero \in X, NEW s \in Seq(X), Len(s) <= BlockBytes
  PROVE  /\ Pad(s) = [j \in 1..BlockBytes |-> IF j <= Len(s) THEN s[j] ELSE Zero]
         /\ Pad(s) \in Seq(X) /\ Len(Pad(s)) = BlockBytes
         /\ Pad(s) \in [1..BlockBytes -> X]
<1> DEFINE z == Zeros(BlockBytes - Len(s))
           p == s \o z
<1>1. BlockBytes \in Nat /\ Len(s) \in Nat /\ BlockBytes - Len(s) \in Nat
  BY Blake2NodeAssumption, LenProperties
<1>2. z \in Seq(X) /\ Len(z) = BlockBytes - Len(s) /\ \A i \in 1..(BlockBytes - Len(s)) : z[i] = Zero
  BY <1>1 DEF Zeros
<1> HIDE DEF z
<1>3. /\ p \in Seq(X) /\ Len(p) = BlockBytes
      /\ \A i \in 1..BlockBytes : p[i] = IF i <= Len(s) THEN s[i] ELSE z[i - Len(s)]
  BY <1>1, <1>2, ConcatProperties
<1>4. Pad(s) = p
  BY DEF Pad, z
<1> HIDE DEF p
<1>5. p \in [1..BlockBytes -> X] /\ p = [j \in 1..BlockBytes |-> p[j]]
  BY <1>3, LenProperties
<1>6. \A i \in 1..BlockBytes : p[i] = IF i <= Len(s) THEN s[i] ELSE Zero
  BY <1>1, <1>2, <1>3
<1> QED
  BY <1>3, <1>4, <1>5, <1>6

(***************************************************************************)
(* The input of a node in blocks.  All of d but its last block, that may   *)
(* be full, has been compressed when d has been given to a node.           *)
(***************************************************************************)
Full(d) == IF d = <<>> THEN 0 ELSE (Len(d) - 1) \div BlockBytes
Base(d) == Full(d) * BlockBytes
Held(d) == Len(d) - Base(d)

\* The rest is at least a byte, when there is any.
LEMMA FullFacts ==
  ASSUME NEW X, NEW d \in Seq(X)
  PROVE  /\ Full(d) \in Nat /\ Base(d) \in 0..Len(d) /\ Held(d) \in 0..BlockBytes
         /\ Len(d) = Base(d) + Held(d) /\ (d # <<>> => Held(d) \in 1..BlockBytes)
         /\ (d = <<>> => Full(d) = 0 /\ Base(d) = 0 /\ Held(d) = 0)
<1>1. BlockBytes \in Nat \ {0} /\ Len(d) \in Nat
  BY Blake2NodeAssumption, LenProperties
<1>2. CASE d = <<>>
  <2>1. Full(d) = 0 /\ Len(d) = 0
    BY <1>2, EmptySeq DEF Full
  <2>2. Base(d) = 0
    BY <1>1, <2>1 DEF Base
  <2> QED
    BY <1>1, <1>2, <2>1, <2>2 DEF Held
<1>3. CASE d # <<>>
  <2> DEFINE x == Len(d) - 1
             n == x \div BlockBytes
             r == x % BlockBytes
  <2>1. x \in Nat
    BY <1>1, <1>3, EmptySeq
  <2>2. n \in Nat /\ r \in 0..(BlockBytes - 1) /\ x = BlockBytes * n + r
    BY <1>1, <2>1, DivMod
  <2>3. Full(d) = n
    BY <1>3 DEF Full
  <2> HIDE DEF n, r
  <2>4. BlockBytes * n = n * BlockBytes /\ n * BlockBytes \in Nat
    BY <1>1, <2>2
  <2>5. Base(d) = n * BlockBytes
    BY <2>3 DEF Base
  <2>6. Len(d) = Base(d) + (r + 1)
    BY <1>1, <2>2, <2>4, <2>5
  <2> QED
    BY <1>1, <1>3, <2>2, <2>3, <2>4, <2>5, <2>6 DEF Held
<1> QED
  BY <1>2, <1>3

\* And there is no other way to have such a rest.
LEMMA FullUnique ==
  ASSUME NEW X, NEW d \in Seq(X), NEW n \in Nat, NEW u \in 1..BlockBytes, Len(d) = n * BlockBytes + u
  PROVE  Full(d) = n
<1>1. BlockBytes \in Nat \ {0} /\ n * BlockBytes \in Nat /\ n * BlockBytes = BlockBytes * n
  BY Blake2NodeAssumption
<1>2. d # <<>>
  BY <1>1, EmptySeq
<1>3. Len(d) - 1 = BlockBytes * n + (u - 1) /\ u - 1 \in 0..(BlockBytes - 1)
  BY <1>1
<1>4. (BlockBytes * n + (u - 1)) \div BlockBytes = n
  BY <1>1, <1>3, DivModUnique
<1> QED
  BY <1>2, <1>3, <1>4 DEF Full

(***************************************************************************)
(* A state by its parts.                                                   *)
(***************************************************************************)
Rec(P, i, t, f, b, u, o, l) ==
  [h |-> [param |-> P, in |-> i], t |-> t, f |-> f, buf |-> b, buflen |-> u,
   outlen |-> o, last_node |-> l]

NoFlag == <<FALSE, FALSE>>

\* The i-th block of d, when it is not the last, and the first n of them.
Entry(d, i) ==
  [m |-> Cut(d, (i - 1) * BlockBytes, i * BlockBytes), t |-> Words(i * BlockBytes), f |-> NoFlag]
Form(d, n) == [i \in 1..n |-> Entry(d, i)]

\* T has been given d, and has not been finished.  X has the bytes.
Fed(T, P, d, X) ==
  /\ d \in Seq(X) /\ T.buf \in [1..BlockBytes -> X]
  /\ T = Rec(P, Form(d, Full(d)), Words(Base(d)), NoFlag, T.buf, Held(d), T.outlen, T.last_node)
  /\ \A j \in 1..Held(d) : T.buf[j] = d[Base(d) + j]

\* The parts of a state.
LEMMA RecParts ==
  ASSUME NEW P, NEW i, NEW t, NEW f, NEW b, NEW u, NEW o, NEW l
  PROVE  LET T == Rec(P, i, t, f, b, u, o, l)
         IN  /\ T.h = [param |-> P, in |-> i] /\ T.h.in = i /\ T.h.param = P /\ T.t = t
             /\ T.f = f /\ T.buf = b /\ T.buflen = u /\ T.outlen = o /\ T.last_node = l
BY DEF Rec

\* The parts that blake2b_update assigns to.
Assigned(T, x, y, z, v) == [T EXCEPT !.t = x, !.h.in = y, !.buf = z, !.buflen = v]

\* They are replaced, and the others kept.
LEMMA RecUpdate ==
  ASSUME NEW P, NEW i, NEW t, NEW f, NEW b, NEW u, NEW o, NEW l, NEW x, NEW y, NEW z, NEW v
  PROVE  Assigned(Rec(P, i, t, f, b, u, o, l), x, y, z, v) = Rec(P, y, x, f, z, v, o, l)
<1> DEFINE T == Rec(P, i, t, f, b, u, o, l)
<1>1. [T EXCEPT !.t = x] = Rec(P, i, x, f, b, u, o, l)
  BY DEF Rec
<1>2. [Rec(P, i, x, f, b, u, o, l) EXCEPT !.h.in = y] = Rec(P, y, x, f, b, u, o, l)
  BY DEF Rec
<1>3. [Rec(P, y, x, f, b, u, o, l) EXCEPT !.buf = z] = Rec(P, y, x, f, z, u, o, l)
  BY DEF Rec
<1>4. [Rec(P, y, x, f, z, u, o, l) EXCEPT !.buflen = v] = Rec(P, y, x, f, z, v, o, l)
  BY DEF Rec
<1>5. Assigned(T, x, y, z, v)
        = [[[[T EXCEPT !.t = x] EXCEPT !.h.in = y] EXCEPT !.buf = z] EXCEPT !.buflen = v]
  <2> HIDE DEF T
  <2> QED
    BY DEF Assigned
<1> QED
  BY <1>1, <1>2, <1>3, <1>4, <1>5

\* What an update compresses, and what it keeps.
Joined(T, s) == SubSeq(T.buf, 1, T.buflen) \o s
Count(T, s) == IF s = <<>> THEN 0 ELSE (Len(Joined(T, s)) - 1) \div BlockBytes
BlockAt(r, i) == SubSeq(r, (i - 1) * BlockBytes + 1, i * BlockBytes)
NewItem(T, r, i) == [m |-> BlockAt(r, i), t |-> Counted(T.t, i * BlockBytes), f |-> T.f]
NewItems(T, r, n) == [i \in 1..n |-> NewItem(T, r, i)]
NewBuf(T, r, n) ==
  Overlay(IF n = 0 THEN T.buf ELSE BlockAt(r, 1), 0, DropFirst(r, n * BlockBytes))

\* blake2b_update, of a state given by its parts.
LEMMA UpdateParts ==
  ASSUME NEW P, NEW i, NEW t, NEW f, NEW b, NEW u, NEW o, NEW l, NEW s
  PROVE  LET T == Rec(P, i, t, f, b, u, o, l)
             r == Joined(T, s)
             n == Count(T, s)
         IN  NodeUpdate(T, s) =
               Rec(P, i \o NewItems(T, r, n), Counted(t, n * BlockBytes), f, NewBuf(T, r, n),
                   Len(DropFirst(r, n * BlockBytes)), o, l)
<1> DEFINE T == Rec(P, i, t, f, b, u, o, l)
           r == Joined(T, s)
           n == Count(T, s)
           x == Counted(t, n * BlockBytes)
           y == i \o NewItems(T, r, n)
           z == NewBuf(T, r, n)
           v == Len(DropFirst(r, n * BlockBytes))
<1>1. T.t = t /\ T.h.in = i /\ T.f = f
  BY DEF Rec
<1> HIDE DEF T
<1>2. NodeUpdate(T, s) = Assigned(T, x, y, z, v)
  BY <1>1 DEF Assigned, NodeUpdate, Joined, Count, NewItems, NewItem, BlockAt, NewBuf
<1> HIDE DEF x, y, z, v
<1>3. Assigned(T, x, y, z, v) = Rec(P, y, x, f, z, v, o, l)
  BY RecUpdate DEF T
<1> QED
  BY <1>2, <1>3 DEF x, y, z, v, T

\* Blocks that are compressed later come after those that were.
LEMMA FormMore ==
  ASSUME NEW d, NEW n \in Nat, NEW m \in Nat
  PROVE  Form(d, n) \o [i \in 1..m |-> Entry(d, n + i)] = Form(d, n + m)
<1> DEFINE Y == {Entry(d, i) : i \in 1..(n + m)}
           f == Form(d, n)
           g == [i \in 1..m |-> Entry(d, n + i)]
           h == Form(d, n + m)
<1>1. f \in Seq(Y) /\ Len(f) = n /\ \A i \in 1..n : f[i] = Entry(d, i)
  <2>1. \A i \in 1..n : Entry(d, i) \in Y
    OBVIOUS
  <2> HIDE DEF Y
  <2> QED
    BY <2>1 DEF Form
<1>2. g \in Seq(Y) /\ Len(g) = m /\ \A i \in 1..m : g[i] = Entry(d, n + i)
  <2>1. \A i \in 1..m : n + i \in 1..(n + m)
    OBVIOUS
  <2>2. \A i \in 1..m : Entry(d, n + i) \in Y
    BY <2>1
  <2> HIDE DEF Y
  <2> QED
    BY <2>2
<1>3. h \in Seq(Y) /\ Len(h) = n + m /\ \A i \in 1..(n + m) : h[i] = Entry(d, i)
  <2>1. \A i \in 1..(n + m) : Entry(d, i) \in Y
    OBVIOUS
  <2> HIDE DEF Y
  <2> QED
    BY <2>1 DEF Form
<1> HIDE DEF Y, f, g, h
<1>4. /\ f \o g \in Seq(Y) /\ Len(f \o g) = n + m
      /\ \A i \in 1..(n + m) : (f \o g)[i] = IF i <= n THEN f[i] ELSE g[i - n]
  BY <1>1, <1>2, ConcatProperties
<1>5. \A i \in 1..(n + m) : (f \o g)[i] = h[i]
  <2> SUFFICES ASSUME NEW i \in 1..(n + m) PROVE (f \o g)[i] = Entry(d, i)
    BY <1>3
  <2>1. CASE i <= n
    BY <1>1, <1>4, <2>1
  <2>2. CASE ~(i <= n)
    <3>1. i - n \in 1..m /\ n + (i - n) = i
      BY <2>2
    <3> QED
      BY <1>2, <1>4, <2>2, <3>1
  <2> QED
    BY <2>1, <2>2
<1> QED
  BY <1>3, <1>4, <1>5, SeqEqual DEF f, g, h

\* What was compressed stays the same when more follows.
LEMMA FormPrefix ==
  ASSUME NEW d, NEW e, NEW n \in Nat, \A j \in 1..(n * BlockBytes) : e[j] = d[j]
  PROVE  Form(e, n) = Form(d, n)
<1>1. BlockBytes \in Nat /\ n * BlockBytes \in Nat
  BY Blake2NodeAssumption
<1> SUFFICES ASSUME NEW i \in 1..n PROVE Entry(e, i) = Entry(d, i)
  BY DEF Form
<1> DEFINE a == (i - 1) * BlockBytes
           b == i * BlockBytes
<1>2. a \in Nat /\ b \in Nat /\ b = a + BlockBytes /\ b <= n * BlockBytes
  BY <1>1
<1> HIDE DEF a, b
<1>3. \A j \in 1..(b - a) : e[a + j] = d[a + j]
  <2> SUFFICES ASSUME NEW j \in 1..(b - a) PROVE e[a + j] = d[a + j]
    OBVIOUS
  <2>1. a + j \in 1..(n * BlockBytes)
    BY <1>1, <1>2
  <2> QED
    BY <2>1
<1>4. Cut(e, a, b) = Cut(d, a, b)
  BY <1>3 DEF Cut
<1> QED
  BY <1>4 DEF Entry, a, b

\* e is s after d.
Joins(e, d, s) == e = d \o s

\* What is in the buffer and what comes are the rest of the input.
LEMMA JoinedFacts ==
  ASSUME NEW X, NEW P, NEW T, NEW d, Fed(T, P, d, X), NEW s \in Seq(X), NEW e, Joins(e, d, s)
  PROVE  /\ Joined(T, s) \in Seq(X) /\ Len(Joined(T, s)) = Held(d) + Len(s)
         /\ e \in Seq(X) /\ Len(e) = Base(d) + Len(Joined(T, s))
         /\ \A j \in 1..Len(d) : e[j] = d[j]
         /\ \A j \in 1..Len(Joined(T, s)) : Joined(T, s)[j] = e[Base(d) + j]
<1> DEFINE b == SubSeq(T.buf, 1, T.buflen)
           r == b \o s
           a == Base(d)
           u == Held(d)
<1>1. /\ d \in Seq(X) /\ T.buf \in [1..BlockBytes -> X] /\ T.buflen = u
      /\ \A j \in 1..u : T.buf[j] = d[a + j]
  BY DEF Fed, Rec
<1>2. a \in Nat /\ u \in 0..BlockBytes /\ Len(d) = a + u /\ BlockBytes \in Nat /\ Len(s) \in Nat
  BY <1>1, FullFacts, Blake2NodeAssumption, LenProperties
<1> HIDE DEF a, u
<1>3. \A i \in 1..u : T.buf[i] \in X
  BY <1>1, <1>2
<1>4. b \in Seq(X) /\ Len(b) = u /\ \A j \in 1..u : b[j] = T.buf[j]
  BY <1>1, <1>2, <1>3, SubSeqProperties
<1> HIDE DEF b
<1>5. /\ r \in Seq(X) /\ Len(r) = u + Len(s)
      /\ \A j \in 1..(u + Len(s)) : r[j] = IF j <= u THEN b[j] ELSE s[j - u]
  BY <1>2, <1>4, ConcatProperties
<1>6. /\ e \in Seq(X) /\ Len(e) = a + u + Len(s)
      /\ \A j \in 1..(a + u) : e[j] = d[j]
      /\ \A j \in 1..Len(s) : e[a + u + j] = s[j]
  <2>1. /\ e \in Seq(X) /\ Len(e) = Len(d) + Len(s)
        /\ \A j \in 1..(Len(d) + Len(s)) : e[j] = IF j <= Len(d) THEN d[j] ELSE s[j - Len(d)]
    BY <1>1, ConcatProperties DEF Joins
  <2>2. \A j \in 1..Len(s) : a + u + j \in 1..(Len(d) + Len(s)) /\ ~(a + u + j <= Len(d)) /\ (a + u + j) - Len(d) = j
    BY <1>2
  <2> QED
    BY <1>2, <2>1, <2>2
<1>9. Joined(T, s) = r
  BY DEF Joined, b
<1> HIDE DEF r
<1>7. \A j \in 1..(u + Len(s)) : r[j] = e[a + j]
  <2> SUFFICES ASSUME NEW j \in 1..(u + Len(s)) PROVE r[j] = e[a + j]
    OBVIOUS
  <2>2. CASE j <= u
    <3>1. j \in 1..u /\ a + j \in 1..(a + u)
      BY <1>2, <2>2
    <3> QED
      BY <1>1, <1>4, <1>5, <1>6, <2>2, <3>1
  <2>3. CASE ~(j <= u)
    <3>1. j - u \in 1..Len(s) /\ a + u + (j - u) = a + j
      BY <1>2, <2>3
    <3> QED
      BY <1>5, <1>6, <2>3, <3>1
  <2> QED
    BY <2>2, <2>3
<1>8. \A j \in 1..Len(d) : e[j] = d[j]
  BY <1>2, <1>6
<1>10. /\ Len(r) = Held(d) + Len(s) /\ Len(e) = Base(d) + Len(r)
       /\ \A j \in 1..Len(r) : r[j] = e[Base(d) + j]
  BY <1>2, <1>5, <1>6, <1>7 DEF a, u
<1> QED
  BY <1>5, <1>6, <1>8, <1>9, <1>10

\* The blocks that an update compresses are those that now have a byte after them.
LEMMA CountFacts ==
  ASSUME NEW X, NEW P, NEW T, NEW d, Fed(T, P, d, X), NEW s \in Seq(X), NEW e, Joins(e, d, s)
  PROVE  /\ Count(T, s) \in Nat /\ Count(T, s) * BlockBytes \in 0..Len(Joined(T, s))
         /\ (Count(T, s) # 0 => BlockBytes <= Len(Joined(T, s)))
         /\ Full(e) = Full(d) + Count(T, s)
         /\ Base(e) = Base(d) + Count(T, s) * BlockBytes
         /\ Held(e) = Len(Joined(T, s)) - Count(T, s) * BlockBytes
<1> DEFINE r == Joined(T, s)
           n == Count(T, s)
           b == n * BlockBytes
<1>0. d \in Seq(X)
  BY DEF Fed
<1>1. /\ d \in Seq(X) /\ r \in Seq(X) /\ Len(r) = Held(d) + Len(s) /\ e \in Seq(X)
      /\ Len(e) = Base(d) + Len(r)
  BY <1>0, JoinedFacts
<1> HIDE DEF r, n
<1>2. /\ Full(d) \in Nat /\ Base(d) \in Nat /\ Held(d) \in 0..BlockBytes
      /\ BlockBytes \in Nat \ {0} /\ Len(s) \in Nat /\ Len(r) \in Nat /\ Len(e) \in Nat
  BY <1>1, FullFacts, Blake2NodeAssumption, LenProperties
<1>3. SUFFICES /\ n \in Nat /\ b \in 0..Len(r) /\ (n # 0 => BlockBytes <= Len(r))
               /\ Full(e) = Full(d) + n
  <2>1. (Full(d) + n) * BlockBytes = Full(d) * BlockBytes + b
    BY <1>2, <1>3
  <2>2. Base(e) = Base(d) + b
    BY <1>3, <2>1 DEF Base
  <2>3. Held(e) = Len(r) - b
    BY <1>1, <1>2, <1>3, <2>2, SMTT(30) DEF Held
  <2> QED
    BY <1>3, <2>2, <2>3 DEF r, n
<1>4. CASE s = <<>>
  <2>1. n = 0 /\ e = d
    BY <1>1, <1>4, ConcatEmptySeq DEF Count, Joins, n
  <2> QED
    BY <1>2, <2>1
<1>5. CASE s # <<>>
  <2> DEFINE x == Len(r) - 1
             v == x % BlockBytes
  <2>1. x \in Nat /\ n = x \div BlockBytes
    BY <1>1, <1>2, <1>5, EmptySeq DEF Count, r, n
  <2> HIDE DEF x
  <2>2. n \in Nat /\ v \in 0..(BlockBytes - 1) /\ x = BlockBytes * n + v
    BY <1>2, <2>1, DivMod
  <2> HIDE DEF v
  <2>3. BlockBytes * n = b /\ b \in Nat /\ (n # 0 => b >= BlockBytes)
    BY <1>2, <2>2
  <2>4. (Full(d) + n) * BlockBytes = Base(d) + b
    BY <1>2, <2>2 DEF Base
  <2> HIDE DEF b
  <2>5. Len(r) = b + (v + 1) /\ v + 1 \in 1..BlockBytes
    BY <1>2, <2>2, <2>3 DEF x
  <2> DEFINE k == (Full(d) + n) * BlockBytes
  <2>6. Len(e) = k + (v + 1) /\ Full(d) + n \in Nat
    <3> HIDE DEF k
    <3>1. k = Base(d) + b
      BY <2>4 DEF k
    <3>2. Full(d) + n \in Nat /\ v \in Nat
      BY <1>2, <2>2
    <3>3. Len(e) = Base(d) + Len(r) /\ Base(d) \in Nat /\ b \in Nat /\ Len(r) = b + (v + 1)
      BY <1>1, <1>2, <2>3, <2>5
    <3>4. Len(e) = k + (v + 1)
      BY <3>1, <3>2, <3>3
    <3> QED
      BY <3>2, <3>4
  <2>7. Full(e) = Full(d) + n
    BY <1>1, <2>5, <2>6, FullUnique
  <2> QED
    BY <1>2, <2>2, <2>3, <2>5, <2>7
<1> QED
  BY <1>4, <1>5

\* They are what the node is to compress of the whole input.
LEMMA NewItemsFacts ==
  ASSUME NEW X, NEW P, NEW T, NEW d, Fed(T, P, d, X), NEW s \in Seq(X), NEW e, Joins(e, d, s)
  PROVE  NewItems(T, Joined(T, s), Count(T, s))
           = [i \in 1..Count(T, s) |-> Entry(e, Full(d) + i)]
<1> DEFINE r == Joined(T, s)
           n == Count(T, s)
           c == Full(d)
<1>0. d \in Seq(X)
  BY DEF Fed
<1>1. /\ d \in Seq(X) /\ r \in Seq(X) /\ e \in Seq(X) /\ Len(e) = Base(d) + Len(r)
      /\ \A j \in 1..Len(r) : r[j] = e[Base(d) + j]
  BY <1>0, JoinedFacts
<1>2. n \in Nat /\ n * BlockBytes \in 0..Len(r)
  BY CountFacts
<1>3. /\ c \in Nat /\ Base(d) \in Nat /\ Base(d) = c * BlockBytes /\ BlockBytes \in Nat \ {0}
      /\ Len(r) \in Nat /\ T.t = Words(Base(d)) /\ T.f = NoFlag
  <2>1. T.t = Words(Base(d)) /\ T.f = NoFlag
    BY DEF Fed, Rec
  <2> QED
    BY <1>1, <2>1, FullFacts, Blake2NodeAssumption, LenProperties DEF Base
<1> HIDE DEF r, n, c
<1>4. SUFFICES ASSUME NEW i \in 1..n PROVE NewItem(T, r, i) = Entry(e, c + i)
  BY <1>4 DEF NewItems, r, n, c
<1> DEFINE a == (i - 1) * BlockBytes
           b == i * BlockBytes
<1>5. a \in Nat /\ b = a + BlockBytes /\ b <= Len(r)
  <2>1. i * BlockBytes <= n * BlockBytes /\ a \in Nat /\ b = a + BlockBytes
    BY <1>2, <1>3
  <2> QED
    BY <1>2, <1>3, <2>1
<1>6. (c + i) * BlockBytes = Base(d) + b /\ ((c + i) - 1) * BlockBytes = Base(d) + a
  BY <1>2, <1>3
<1>11. BlockAt(r, i) = SubSeq(r, a + 1, b)
  BY DEF BlockAt
<1> HIDE DEF a, b
<1>12. b \in a..Len(r)
  BY <1>3, <1>5
<1>7. BlockAt(r, i) = Cut(r, a, b) /\ \A j \in 1..(b - a) : Cut(r, a, b)[j] = r[a + j]
  BY <1>1, <1>5, <1>11, <1>12, CutFacts, ZenonT(60)
<1>8. Cut(e, Base(d) + a, Base(d) + b) = Cut(r, a, b)
  <2>1. (Base(d) + b) - (Base(d) + a) = b - a
    BY <1>3, <1>5
  <2>2. \A j \in 1..(b - a) : e[Base(d) + a + j] = r[a + j]
    <3> SUFFICES ASSUME NEW j \in 1..(b - a) PROVE e[Base(d) + a + j] = r[a + j]
      OBVIOUS
    <3>1. a + j \in 1..Len(r) /\ Base(d) + (a + j) = Base(d) + a + j
      BY <1>3, <1>5
    <3> QED
      BY <1>1, <3>1
  <2> QED
    BY <2>1, <2>2 DEF Cut
<1>9. Counted(T.t, b) = Words(Base(d) + b)
  BY <1>3, <1>5, CountedWords
<1>10. Entry(e, c + i) = [m |-> Cut(e, Base(d) + a, Base(d) + b), t |-> Words(Base(d) + b), f |-> NoFlag]
  BY <1>6 DEF Entry
<1> QED
  BY <1>3, <1>7, <1>8, <1>9, <1>10 DEF NewItem, b

\* The buffer has the rest of the input after an update.
LEMMA NewBufFacts ==
  ASSUME NEW X, NEW P, NEW T, NEW d, Fed(T, P, d, X), NEW s \in Seq(X), NEW e, Joins(e, d, s)
  PROVE  /\ Len(DropFirst(Joined(T, s), Count(T, s) * BlockBytes)) = Held(e)
         /\ NewBuf(T, Joined(T, s), Count(T, s)) \in [1..BlockBytes -> X]
         /\ \A j \in 1..Held(e) : NewBuf(T, Joined(T, s), Count(T, s))[j] = e[Base(e) + j]
<1> DEFINE r == Joined(T, s)
           n == Count(T, s)
           b == n * BlockBytes
           rest == DropFirst(r, b)
           old == IF n = 0 THEN T.buf ELSE BlockAt(r, 1)
           z == Overlay(old, 0, rest)
<1>0. d \in Seq(X) /\ T.buf \in [1..BlockBytes -> X]
  BY DEF Fed
<1>1. /\ r \in Seq(X) /\ e \in Seq(X) /\ Len(e) = Base(d) + Len(r)
      /\ \A j \in 1..Len(r) : r[j] = e[Base(d) + j]
  BY <1>0, JoinedFacts
<1>2. /\ n \in Nat /\ b \in 0..Len(r) /\ (n # 0 => BlockBytes <= Len(r))
      /\ Base(e) = Base(d) + b /\ Held(e) = Len(r) - b
  BY CountFacts
<1>3. NewBuf(T, r, n) = z
  BY DEF NewBuf
<1> HIDE DEF r, n, b
<1>4. Base(d) \in Nat /\ Held(e) \in 0..BlockBytes /\ BlockBytes \in Nat \ {0} /\ Len(r) \in Nat
  BY <1>0, <1>1, FullFacts, Blake2NodeAssumption, LenProperties
<1>5. rest \in Seq(X) /\ Len(rest) = Held(e) /\ \A j \in 1..Held(e) : rest[j] = r[b + j]
  BY <1>1, <1>2, DropFirstFacts
<1>6. old \in [1..BlockBytes -> X]
  <2>1. CASE n = 0
    BY <1>0, <2>1
  <2>2. CASE n # 0
    <3> DEFINE a == 0
    <3>1. BlockAt(r, 1) = SubSeq(r, a + 1, BlockBytes)
      BY <1>4 DEF BlockAt
    <3>2. a \in Nat /\ BlockBytes \in a..Len(r) /\ BlockBytes - a = BlockBytes
      BY <1>2, <1>4, <2>2
    <3> HIDE DEF a
    <3>4. r \in Seq(X)
      BY <1>1
    <3>5. /\ SubSeq(r, a + 1, BlockBytes) = Cut(r, a, BlockBytes)
          /\ Cut(r, a, BlockBytes) \in Seq(X) /\ Len(Cut(r, a, BlockBytes)) = BlockBytes - a
      BY <3>2, <3>4, CutFacts
    <3>3. BlockAt(r, 1) \in Seq(X) /\ Len(BlockAt(r, 1)) = BlockBytes
      BY <3>1, <3>2, <3>5
    <3> QED
      BY <2>2, <3>3, LenProperties
  <2> QED
    BY <2>1, <2>2
<1> HIDE DEF rest, old
<1>7. z \in [1..BlockBytes -> X] /\ \A j \in 1..Len(rest) : z[0 + j] = rest[j]
  BY <1>4, <1>5, <1>6, OverlayFacts
<1> HIDE DEF z
<1>8. \A j \in 1..Held(e) : z[j] = e[Base(e) + j]
  <2> SUFFICES ASSUME NEW j \in 1..Held(e) PROVE z[j] = e[Base(e) + j]
    OBVIOUS
  <2>1. b + j \in 1..Len(r) /\ Base(d) + (b + j) = Base(e) + j /\ 0 + j = j
    BY <1>2, <1>4
  <2> QED
    BY <1>1, <1>5, <1>7, <2>1
<1> QED
  BY <1>3, <1>5, <1>7, <1>8 DEF r, n, b, rest

\* Given more, a node has been given all of it.
LEMMA UpdateFed ==
  ASSUME NEW X, NEW P, NEW T, NEW d, Fed(T, P, d, X), NEW s \in Seq(X), NEW e, Joins(e, d, s)
  PROVE  /\ Fed(NodeUpdate(T, s), P, e, X)
         /\ NodeUpdate(T, s).outlen = T.outlen /\ NodeUpdate(T, s).last_node = T.last_node
<1> DEFINE r == Joined(T, s)
           n == Count(T, s)
           z == NewBuf(T, r, n)
           y == Form(d, Full(d)) \o NewItems(T, r, n)
           v == Len(DropFirst(r, n * BlockBytes))
           x == Counted(Words(Base(d)), n * BlockBytes)
           f == Form(d, Full(d))
           w == Words(Base(d))
           u == Held(d)
           g == T.buf
           o == T.outlen
           l == T.last_node
           N == NodeUpdate(T, s)
<1>0. d \in Seq(X) /\ T = Rec(P, f, w, NoFlag, g, u, o, l)
  BY DEF Fed
<1>1. N = Rec(P, y, x, NoFlag, z, v, o, l)
  <2> HIDE DEF f, w, g, u, o, l, N
  <2>1. NodeUpdate(Rec(P, f, w, NoFlag, g, u, o, l), s)
          = Rec(P, f \o NewItems(Rec(P, f, w, NoFlag, g, u, o, l),
                                 Joined(Rec(P, f, w, NoFlag, g, u, o, l), s),
                                 Count(Rec(P, f, w, NoFlag, g, u, o, l), s)),
                Counted(w, Count(Rec(P, f, w, NoFlag, g, u, o, l), s) * BlockBytes), NoFlag,
                NewBuf(Rec(P, f, w, NoFlag, g, u, o, l),
                       Joined(Rec(P, f, w, NoFlag, g, u, o, l), s),
                       Count(Rec(P, f, w, NoFlag, g, u, o, l), s)),
                Len(DropFirst(Joined(Rec(P, f, w, NoFlag, g, u, o, l), s),
                              Count(Rec(P, f, w, NoFlag, g, u, o, l), s) * BlockBytes)), o, l)
    BY UpdateParts
  <2>2. NodeUpdate(T, s)
          = Rec(P, f \o NewItems(T, Joined(T, s), Count(T, s)),
                Counted(w, Count(T, s) * BlockBytes), NoFlag,
                NewBuf(T, Joined(T, s), Count(T, s)),
                Len(DropFirst(Joined(T, s), Count(T, s) * BlockBytes)), o, l)
    BY <1>0, <2>1, Zenon
  <2> QED
    BY <2>2 DEF N, f, w
<1>2. /\ n \in Nat /\ n * BlockBytes \in 0..Len(r)
      /\ Full(e) = Full(d) + n /\ Base(e) = Base(d) + n * BlockBytes
  BY CountFacts
<1>3. /\ r \in Seq(X) /\ e \in Seq(X) /\ \A j \in 1..Len(d) : e[j] = d[j]
  BY <1>0, JoinedFacts
<1>4. /\ Full(d) \in Nat /\ Base(d) \in 0..Len(d) /\ Base(d) = Full(d) * BlockBytes
      /\ Len(r) \in Nat /\ Len(d) \in Nat
  BY <1>0, <1>3, FullFacts, LenProperties DEF Base
<1>5. y = Form(e, Full(e))
  <2>1. NewItems(T, r, n) = [i \in 1..n |-> Entry(e, Full(d) + i)]
    BY NewItemsFacts
  <2>2. \A j \in 1..(Full(d) * BlockBytes) : e[j] = d[j]
    BY <1>3, <1>4
  <2>3. f = Form(e, Full(d))
    BY <1>4, <2>2, FormPrefix
  <2>4. Form(e, Full(d)) \o [i \in 1..n |-> Entry(e, Full(d) + i)] = Form(e, Full(d) + n)
    BY <1>2, <1>4, FormMore
  <2> QED
    BY <1>2, <2>1, <2>3, <2>4, Zenon DEF y, f
<1>6. x = Words(Base(e))
  <2> DEFINE b == n * BlockBytes
  <2>1. b \in Nat /\ Base(d) \in Nat
    BY <1>2, <1>4
  <2> HIDE DEF b
  <2>2. Counted(Words(Base(d)), b) = Words(Base(d) + b)
    BY <2>1, CountedWords
  <2> QED
    BY <1>2, <2>2, Zenon DEF b, x
<1>7. v = Held(e) /\ z \in [1..BlockBytes -> X] /\ \A j \in 1..Held(e) : z[j] = e[Base(e) + j]
  BY NewBufFacts
<1> HIDE DEF x, y, z, v, N, o, l
<1>8. N = Rec(P, Form(e, Full(e)), Words(Base(e)), NoFlag, z, Held(e), o, l)
  BY <1>1, <1>5, <1>6, <1>7, Zenon
<1>9. N.buf = z /\ N.outlen = o /\ N.last_node = l
  <2>1. \A a, b, c, k : /\ Rec(P, a, b, c, z, k, o, l).buf = z
                        /\ Rec(P, a, b, c, z, k, o, l).outlen = o
                        /\ Rec(P, a, b, c, z, k, o, l).last_node = l
    BY DEF Rec
  <2> QED
    BY <1>8, <2>1, Zenon
<1>10. Fed(N, P, e, X)
  BY <1>3, <1>7, <1>8, <1>9, Zenon DEF Fed
<1> QED
  BY <1>9, <1>10 DEF N, o, l

(***************************************************************************)
(* The first input of a node: the key's block, if there is a key.          *)
(***************************************************************************)
Data(k, m) == IF k = <<>> THEN m ELSE Pad(k) \o m
KeyData(k) == IF k = <<>> THEN <<>> ELSE Pad(k)

\* As blake2b_init_param leaves a node, it has been given nothing.
LEMMA NewFed ==
  ASSUME NEW X, Zero \in X, NEW P
  PROVE  /\ Fed(InitParam(P), P, <<>>, X)
         /\ InitParam(P).outlen = P.digest_length /\ InitParam(P).last_node = FALSE
<1> DEFINE z == Zeros(BlockBytes)
           o == P.digest_length
           l == FALSE
           t == <<0, 0>>
           N == Rec(P, <<>>, t, NoFlag, z, 0, o, l)
<1>1. InitParam(P) = N
  BY DEF InitParam, Rec, NoFlag
<1>2. BlockBytes \in Nat \ {0} /\ WordMod \in Nat \ {0}
  BY Blake2NodeAssumption
<1>3. z \in [1..BlockBytes -> X]
  BY <1>2 DEF Zeros
<1>4. <<>> \in Seq(X)
  BY EmptySeq
<1>5. Full(<<>>) = 0 /\ Base(<<>>) = 0 /\ Held(<<>>) = 0
  BY <1>4, FullFacts
<1>6. t = Words(0)
  <2>1. 0 % WordMod = 0 /\ 0 \div WordMod = 0
    BY <1>2
  <2> QED
    BY <2>1 DEF Words
<1>7. Form(<<>>, 0) = <<>>
  BY DEF Form
<1> HIDE DEF z, o, l, t
<1>8. N.buf = z /\ N.outlen = o /\ N.last_node = l
  BY DEF Rec
<1> HIDE DEF N
<1>9. N = Rec(P, Form(<<>>, Full(<<>>)), Words(Base(<<>>)), NoFlag, N.buf, Held(<<>>), N.outlen, N.last_node)
  BY <1>5, <1>6, <1>7, <1>8, Zenon DEF N
<1>10. \A j \in 1..Held(<<>>) : N.buf[j] = <<>>[Base(<<>>) + j]
  BY <1>5
<1>11. N.buf \in [1..BlockBytes -> X]
  BY <1>3, <1>8
<1>12. Fed(N, P, <<>>, X)
  BY <1>4, <1>9, <1>10, <1>11, Zenon DEF Fed
<1> QED
  BY <1>1, <1>8, <1>12, Zenon DEF o, l

\* The members of a leaf that are set when it was made.
Reset(T, o, l) == [[T EXCEPT !.outlen = o] EXCEPT !.last_node = l]

\* They do not matter to what a node was given.
LEMMA FedFields ==
  ASSUME NEW X, NEW P, NEW T, NEW d, Fed(T, P, d, X), NEW o, NEW l
  PROVE  /\ Fed(Reset(T, o, l), P, d, X)
         /\ Reset(T, o, l).outlen = o /\ Reset(T, o, l).last_node = l
<1> DEFINE f == Form(d, Full(d))
           w == Words(Base(d))
           b == T.buf
           u == Held(d)
           oo == T.outlen
           ll == T.last_node
           N == Rec(P, f, w, NoFlag, b, u, o, l)
<1>1. T = Rec(P, f, w, NoFlag, b, u, oo, ll)
  BY DEF Fed
<1> HIDE DEF f, w, b, u, oo, ll
<1>2. Reset(T, o, l) = N
  <2>1. [Rec(P, f, w, NoFlag, b, u, oo, ll) EXCEPT !.outlen = o] = Rec(P, f, w, NoFlag, b, u, o, ll)
    BY DEF Rec
  <2>2. [Rec(P, f, w, NoFlag, b, u, o, ll) EXCEPT !.last_node = l] = N
    BY DEF Rec
  <2> QED
    BY <1>1, <2>1, <2>2 DEF Reset
<1>3. N.buf = b /\ N.outlen = o /\ N.last_node = l
  BY DEF Rec
<1>4. N = Rec(P, f, w, NoFlag, N.buf, u, N.outlen, N.last_node)
  BY <1>3
<1> HIDE DEF N
<1>5. Fed(N, P, d, X)
  <2>1. d \in Seq(X) /\ b \in [1..BlockBytes -> X] /\ \A j \in 1..u : b[j] = d[Base(d) + j]
    BY DEF Fed, b, u
  <2>2. N = Rec(P, Form(d, Full(d)), Words(Base(d)), NoFlag, N.buf, Held(d), N.outlen, N.last_node)
    BY <1>4 DEF f, w, u
  <2>3. \A j \in 1..Held(d) : N.buf[j] = d[Base(d) + j]
    BY <1>3, <2>1 DEF u
  <2> QED
    BY <1>3, <2>1, <2>2, <2>3, Zenon DEF Fed
<1> QED
  BY <1>2, <1>3, <1>5

\* With a key it has been given the key's block, whatever else was set.
LEMMA KeyedFed ==
  ASSUME NEW X, Zero \in X, NEW P, NEW T, Fed(T, P, <<>>, X),
         NEW k \in Seq(X), Len(k) <= BlockBytes
  PROVE  /\ Fed(Keyed(T, k), P, KeyData(k), X)
         /\ Keyed(T, k).outlen = T.outlen /\ Keyed(T, k).last_node = T.last_node
<1>1. CASE k = <<>>
  BY <1>1 DEF Keyed, KeyData
<1>2. CASE k # <<>>
  <2> DEFINE p == Pad(k)
  <2>1. p \in Seq(X)
    BY PadFacts
  <2>2. Keyed(T, k) = NodeUpdate(T, p) /\ KeyData(k) = p
    BY <1>2 DEF Keyed, KeyData
  <2> HIDE DEF p
  <2>3. Joins(p, <<>>, p)
    BY <2>1, ConcatEmptySeq DEF Joins
  <2>4. /\ Fed(NodeUpdate(T, p), P, p, X)
        /\ NodeUpdate(T, p).outlen = T.outlen /\ NodeUpdate(T, p).last_node = T.last_node
    BY <2>1, <2>3, UpdateFed
  <2> QED
    BY <2>2, <2>4
<1> QED
  BY <1>1, <1>2

\* Input follows the key's block.
LEMMA DataJoins ==
  ASSUME NEW X, Zero \in X, NEW k \in Seq(X), Len(k) <= BlockBytes, NEW m \in Seq(X)
  PROVE  /\ Joins(Data(k, m), KeyData(k), m) /\ Data(k, m) \in Seq(X) /\ KeyData(k) \in Seq(X)
         /\ Data(k, <<>>) = KeyData(k)
<1>1. CASE k = <<>>
  BY <1>1, ConcatEmptySeq, EmptySeq DEF Data, KeyData, Joins
<1>2. CASE k # <<>>
  <2> DEFINE p == Pad(k)
  <2>1. p \in Seq(X)
    BY PadFacts
  <2> HIDE DEF p
  <2>2. Data(k, m) = p \o m /\ KeyData(k) = p /\ Data(k, <<>>) = p \o <<>>
    BY <1>2 DEF p, Data, KeyData
  <2>3. p \o m \in Seq(X) /\ p \o <<>> = p
    BY <2>1, ConcatProperties, ConcatEmptySeq
  <2> QED
    BY <2>1, <2>2, <2>3 DEF Joins
<1> QED
  BY <1>1, <1>2

\* And more input the input.
LEMMA DataMore ==
  ASSUME NEW X, Zero \in X, NEW k \in Seq(X), Len(k) <= BlockBytes, NEW m \in Seq(X),
         NEW s \in Seq(X), NEW w, Joins(w, m, s)
  PROVE  Joins(Data(k, w), Data(k, m), s)
<1>1. w = m \o s
  BY DEF Joins
<1>2. CASE k = <<>>
  BY <1>1, <1>2 DEF Data, Joins
<1>3. CASE k # <<>>
  <2> DEFINE p == Pad(k)
  <2>1. p \in Seq(X)
    BY PadFacts
  <2> HIDE DEF p
  <2>2. Data(k, w) = p \o (m \o s) /\ Data(k, m) = p \o m
    BY <1>1, <1>3 DEF p, Data
  <2>3. p \o (m \o s) = (p \o m) \o s
    BY <2>1, ConcatAssociative, SMTT(30)
  <2> QED
    BY <2>2, <2>3, Zenon DEF Joins
<1> QED
  BY <1>2, <1>3

(***************************************************************************)
(* What a node of BLAKE2 is, in these terms: the blocks that are followed  *)
(* by more, and the rest.                                                  *)
(***************************************************************************)
LastEntry(d, l) ==
  [m |-> Pad(Cut(d, Base(d), Len(d))), t |-> Words(Len(d)), f |-> <<TRUE, l>>]
WholeForm(d, l) == [i \in 1..(Full(d) + 1) |-> IF i <= Full(d) THEN Entry(d, i) ELSE LastEntry(d, l)]
Whole(P, d, l) == [param |-> P, in |-> WholeForm(d, l)]

\* The end of a block is that of the input, where that comes first.
LEMMA MinPair ==
  ASSUME NEW a \in Nat, NEW b \in Nat
  PROVE  Min({a, b}) = IF a <= b THEN a ELSE b
BY DEF Min

\* A block more than those that are followed by others.
LEMMA CountBlocks ==
  ASSUME NEW n \in Nat, NEW u \in 1..BlockBytes
  PROVE  (n * BlockBytes + u + BlockBytes - 1) \div BlockBytes = n + 1
<1>1. BlockBytes \in Nat \ {0} /\ n * BlockBytes \in Nat /\ BlockBytes * n = n * BlockBytes
  BY Blake2NodeAssumption
<1>2. n * BlockBytes + u + BlockBytes - 1 = BlockBytes * (n + 1) + (u - 1)
  BY <1>1
<1>3. u - 1 \in 0..(BlockBytes - 1)
  BY <1>1
<1> QED
  BY <1>1, <1>2, <1>3, DivModUnique

\* A block that is full is not padded.
LEMMA PadFull ==
  ASSUME NEW X, Zero \in X, NEW s \in Seq(X), Len(s) = BlockBytes
  PROVE  Pad(s) = s
<1>1. BlockBytes \in Nat
  BY Blake2NodeAssumption
<1>2. Pad(s) = [j \in 1..BlockBytes |-> IF j <= Len(s) THEN s[j] ELSE Zero]
  BY <1>1, PadFacts
<1>3. s = [j \in 1..BlockBytes |-> s[j]]
  BY LenProperties
<1> QED
  BY <1>1, <1>2, <1>3

\* The definition of the node's chain value, in these terms.
LEMMA ChainIs ==
  ASSUME NEW X, Zero \in X, NEW P, NEW k, NEW m, NEW l \in BOOLEAN, NEW d, d = Data(k, m),
         d \in Seq(X)
  PROVE  Chain(P, k, m, l) = Whole(P, d, l)
<1> DEFINE n == Full(d)
           a == Base(d)
           u == Held(d)
           count == IF d = <<>> THEN 1 ELSE (Len(d) + BlockBytes - 1) \div BlockBytes
           End(i) == Min({i * BlockBytes, Len(d)})
           B(i) == [m |-> Pad(SubSeq(d, (i - 1) * BlockBytes + 1, End(i))),
                    t |-> <<End(i) % WordMod, (End(i) \div WordMod) % WordMod>>,
                    f |-> <<i = count, i = count /\ l>>]
<1>1. Chain(P, k, m, l) = [param |-> P, in |-> [i \in 1..count |-> B(i)]]
  BY DEF Chain, Data
<1>2. /\ n \in Nat /\ a \in 0..Len(d) /\ u \in 0..BlockBytes /\ Len(d) = a + u
      /\ (d # <<>> => u \in 1..BlockBytes) /\ (d = <<>> => n = 0 /\ a = 0)
  BY FullFacts
<1>3. a = n * BlockBytes /\ BlockBytes \in Nat \ {0} /\ Len(d) \in Nat /\ a \in Nat
  BY <1>2, Blake2NodeAssumption, LenProperties DEF Base
<1> HIDE DEF n, a, u
<1>4. count = n + 1
  <2>1. CASE d = <<>>
    BY <1>2, <2>1
  <2>2. CASE d # <<>>
    <3>1. (n * BlockBytes + u + BlockBytes - 1) \div BlockBytes = n + 1
      BY <1>2, <2>2, CountBlocks
    <3>2. Len(d) = n * BlockBytes + u
      BY <1>2, <1>3
    <3> QED
      BY <2>2, <3>1, <3>2
  <2> QED
    BY <2>1, <2>2
<1> HIDE DEF count
<1>5. \A i \in 1..n : B(i) = Entry(d, i)
  <2> SUFFICES ASSUME NEW i \in 1..n PROVE B(i) = Entry(d, i)
    OBVIOUS
  <2> DEFINE x == (i - 1) * BlockBytes
             y == i * BlockBytes
             e == End(i)
  <2>1. x \in Nat /\ y \in Nat /\ y = x + BlockBytes /\ y <= n * BlockBytes
    BY <1>2, <1>3
  <2>2. y <= Len(d)
    BY <1>2, <1>3, <2>1
  <2>3. e = y
    BY <1>3, <2>1, <2>2, MinPair
  <2>4. (i = count) = FALSE /\ (i = count /\ l) = FALSE
    BY <1>2, <1>4
  <2>5. <<i = count, i = count /\ l>> = NoFlag
    BY <2>4 DEF NoFlag
  <2>6. <<e % WordMod, (e \div WordMod) % WordMod>> = Words(y)
    BY <2>3 DEF Words
  <2>10. Entry(d, i) = [m |-> Cut(d, x, y), t |-> Words(y), f |-> NoFlag]
    BY DEF Entry
  <2>11. B(i) = [m |-> Pad(SubSeq(d, x + 1, e)), t |-> Words(y), f |-> NoFlag]
    BY <2>5, <2>6
  <2> HIDE DEF x, y, e
  <2>9. x \in Nat /\ y \in x..Len(d) /\ y - x = BlockBytes
    BY <1>3, <2>1, <2>2
  <2>7. SubSeq(d, x + 1, y) = Cut(d, x, y) /\ Cut(d, x, y) \in Seq(X) /\ Len(Cut(d, x, y)) = y - x
    BY <2>9, CutFacts
  <2>8. Pad(Cut(d, x, y)) = Cut(d, x, y)
    <3> DEFINE c == Cut(d, x, y)
    <3>1. c \in Seq(X) /\ Len(c) = BlockBytes
      BY <2>7, <2>9
    <3> HIDE DEF c
    <3>2. Pad(c) = c
      BY <3>1, PadFull
    <3> QED
      BY <3>2 DEF c
  <2> QED
    BY <2>3, <2>7, <2>8, <2>10, <2>11, Zenon
<1>6. B(n + 1) = LastEntry(d, l)
  <2> DEFINE e == End(n + 1)
  <2>1. e = Len(d)
    <3>1. (n + 1) * BlockBytes = a + BlockBytes
      BY <1>2, <1>3
    <3>2. (n + 1) * BlockBytes \in Nat /\ ((n + 1) * BlockBytes <= Len(d) => (n + 1) * BlockBytes = Len(d))
      BY <1>2, <1>3, <3>1
    <3> DEFINE v == (n + 1) * BlockBytes
    <3> HIDE DEF v
    <3>3. v \in Nat /\ (v <= Len(d) => v = Len(d))
      BY <3>2 DEF v
    <3>4. Min({v, Len(d)}) = IF v <= Len(d) THEN v ELSE Len(d)
      BY <1>3, <3>3, MinPair
    <3> QED
      BY <3>3, <3>4 DEF v
  <2>2. (n + 1 = count) = TRUE /\ (n + 1 = count /\ l) = l
    BY <1>4
  <2>3. <<n + 1 = count, n + 1 = count /\ l>> = <<TRUE, l>>
    BY <2>2
  <2>4. ((n + 1) - 1) * BlockBytes = a
    BY <1>2, <1>3
  <2>5. <<e % WordMod, (e \div WordMod) % WordMod>> = Words(Len(d))
    BY <2>1 DEF Words
  <2>6. SubSeq(d, a + 1, Len(d)) = Cut(d, a, Len(d))
    <3> DEFINE y == Len(d)
    <3>1. y \in a..Len(d)
      BY <1>2, <1>3
    <3> HIDE DEF y
    <3>2. SubSeq(d, a + 1, y) = Cut(d, a, y)
      BY <1>3, <3>1, CutFacts, ZenonT(60)
    <3> QED
      BY <3>2 DEF y
  <2>7. B(n + 1) = [m |-> Pad(SubSeq(d, a + 1, e)), t |-> Words(Len(d)), f |-> <<TRUE, l>>]
    BY <2>3, <2>4, <2>5
  <2>8. LastEntry(d, l) = [m |-> Pad(Cut(d, a, Len(d))), t |-> Words(Len(d)), f |-> <<TRUE, l>>]
    BY DEF LastEntry, a
  <2> HIDE DEF e
  <2> QED
    BY <2>1, <2>6, <2>7, <2>8, Zenon
<1> HIDE DEF B
<1>7. [i \in 1..count |-> B(i)] = [i \in 1..(n + 1) |-> IF i <= n THEN Entry(d, i) ELSE LastEntry(d, l)]
  <2>1. \A i \in 1..(n + 1) : i \in 1..n \/ (i = n + 1 /\ ~(i <= n))
    BY <1>2
  <2>2. \A i \in 1..n : i <= n
    BY <1>2
  <2> QED
    BY <1>4, <1>5, <1>6, <2>1, <2>2
<1> QED
  BY <1>1, <1>7, Zenon DEF Whole, WholeForm, n

\* The parts that blake2b_final assigns to.
Closed(T, t, f, b, h) == [[[[T EXCEPT !.t = t] EXCEPT !.f = f] EXCEPT !.buf = b] EXCEPT !.h = h]

\* What the end of a node is made of.
LastBuf(T) == Pad(SubSeq(T.buf, 1, T.buflen))
LastItem(T) == [m |-> LastBuf(T), t |-> Counted(T.t, T.buflen), f |-> LastFlags(T)]
LastChain(T) == [T.h EXCEPT !.in = Append(@, LastItem(T))]

\* blake2b_final, when it finishes the node.
LEMMA FinalParts ==
  ASSUME NEW T, NEW n, ~(n < T.outlen \/ T.f[1])
  PROVE  /\ NodeFinal(T, n).res = 0 /\ NodeFinal(T, n).out = Bytes(LastChain(T), T.outlen)
         /\ NodeFinal(T, n).st = Closed(T, Counted(T.t, T.buflen), LastFlags(T), LastBuf(T), LastChain(T))
<1> DEFINE t == Counted(T.t, T.buflen)
           b == LastBuf(T)
           h == LastChain(T)
           f == LastFlags(T)
<1>1. NodeFinal(T, n) = [res |-> 0, st |-> [T EXCEPT !.t = t, !.f = f, !.buf = b, !.h = h],
                         out |-> Bytes(h, T.outlen)]
  BY Zenon DEF NodeFinal, LastBuf, LastItem, LastChain
<1> HIDE DEF t, b, h, f
<1>2. [T EXCEPT !.t = t, !.f = f, !.buf = b, !.h = h]
        = [[[[T EXCEPT !.t = t] EXCEPT !.f = f] EXCEPT !.buf = b] EXCEPT !.h = h]
  OBVIOUS
<1> QED
  BY <1>1, <1>2 DEF Closed, t, b, h, f

\* blake2b_final, when it fails: the node is as it was.
LEMMA FinalFails ==
  ASSUME NEW T, NEW n, n < T.outlen \/ T.f[1]
  PROVE  NodeFinal(T, n).res = -1 /\ NodeFinal(T, n).st = T
BY DEF NodeFinal

(***************************************************************************)
(* The buffer of a node, whatever was done with it.                        *)
(***************************************************************************)
Shaped(T, X) == T.buf \in [1..BlockBytes -> X] /\ T.buflen \in 0..BlockBytes

\* It has its size, and no more is in it, in a node that was given something.
LEMMA FedShaped ==
  ASSUME NEW X, NEW P, NEW T, NEW d, Fed(T, P, d, X)
  PROVE  Shaped(T, X)
<1>1. d \in Seq(X) /\ T.buf \in [1..BlockBytes -> X]
  BY DEF Fed
<1>2. T.buflen = Held(d)
  BY DEF Fed, Rec
<1>3. Held(d) \in 0..BlockBytes
  BY <1>1, FullFacts
<1> QED
  BY <1>1, <1>2, <1>3 DEF Shaped

\* A node that is known to be the last of its level, or not to be.
Marked(T) == T.last_node \in BOOLEAN

\* n bytes are enough for its digest.
Room(T, n) == ~(n < T.outlen)

\* F is the end of T, that was given d, with the chain value h.
Ends(F, h, d, T, X) ==
  /\ F.res = 0 /\ F.out = Bytes(h, T.outlen) /\ F.st.h = h /\ F.st.f[1] = TRUE
  /\ F.st.t = Words(Len(d)) /\ F.st.outlen = T.outlen /\ Shaped(F.st, X)

\* What final makes of a node that was given d is the node's chain value.
LEMMA FinalFed ==
  ASSUME NEW X, Zero \in X, NEW P, NEW T, NEW d, Fed(T, P, d, X), Marked(T),
         NEW n, Room(T, n)
  PROVE  Ends(NodeFinal(T, n), Whole(P, d, T.last_node), d, T, X)
<1> DEFINE i == Form(d, Full(d))
           t == Words(Base(d))
           b == T.buf
           u == Held(d)
           o == T.outlen
           l == T.last_node
           a == Base(d)
<1>0. /\ d \in Seq(X) /\ b \in [1..BlockBytes -> X] /\ T = Rec(P, i, t, NoFlag, b, u, o, l)
      /\ \A j \in 1..u : b[j] = d[a + j]
  BY DEF Fed
<1>1. /\ a \in Nat /\ a \in 0..Len(d) /\ u \in 0..BlockBytes /\ Len(d) = a + u /\ BlockBytes \in Nat
      /\ Len(d) \in Nat
  BY <1>0, FullFacts, Blake2NodeAssumption, LenProperties
<1>2. T.h = [param |-> P, in |-> i] /\ T.t = t /\ T.f = NoFlag /\ T.buflen = u
  <2> HIDE DEF i, t, b, u, o, l
  <2> QED
    BY <1>0 DEF Rec
<1>3. T.f[1] = FALSE /\ T.f[2] = FALSE
  BY <1>2 DEF NoFlag
<1>4. LastFlags(T) = <<TRUE, l>>
  <2>1. (T.f[2] \/ T.last_node) = l
    BY <1>3 DEF Marked
  <2> QED
    BY <2>1 DEF LastFlags
<1>5. Counted(T.t, T.buflen) = Words(Len(d))
  <2> HIDE DEF a, u
  <2>1. Counted(Words(a), u) = Words(a + u)
    BY <1>1, CountedWords
  <2> QED
    BY <1>1, <1>2, <2>1, Zenon DEF t, a
<1>6. LastBuf(T) = Pad(Cut(d, a, Len(d)))
  <2> HIDE DEF a, u, b
  <2>1. \A j \in 1..u : b[j] \in X
    BY <1>0, <1>1
  <2>2. SubSeq(b, 1, u) = [j \in 1..u |-> b[j]]
    <3> DEFINE v == SubSeq(b, 1, u)
    <3>1. v \in Seq(X) /\ Len(v) = u /\ \A j \in 1..u : v[j] = b[j]
      BY <1>1, <2>1, SubSeqProperties
    <3> HIDE DEF v
    <3>2. v = [j \in 1..u |-> v[j]]
      BY <3>1, LenProperties
    <3>3. v = [j \in 1..u |-> b[j]]
      BY <3>1, <3>2
    <3> QED
      BY <3>3 DEF v
  <2>3. Len(d) - a = u
    BY <1>1
  <2>4. SubSeq(b, 1, u) = Cut(d, a, Len(d))
    BY <1>0, <2>2, <2>3 DEF Cut
  <2> QED
    BY <1>2, <2>4, Zenon DEF LastBuf, b
<1>14. LastBuf(T) \in [1..BlockBytes -> X]
  <2> DEFINE y == Len(d)
             c == Cut(d, a, y)
  <2>1. y \in a..Len(d) /\ y - a = u
    BY <1>1
  <2> HIDE DEF y, a
  <2>2. c \in Seq(X) /\ Len(c) = y - a
    BY <1>0, <1>1, <2>1, CutFacts
  <2> HIDE DEF c
  <2>3. Len(c) <= BlockBytes
    BY <1>1, <2>1, <2>2
  <2>4. Pad(c) \in [1..BlockBytes -> X]
    BY <2>2, <2>3, PadFacts
  <2> QED
    BY <1>6, <2>4, Zenon DEF c, y
<1>7. LastItem(T) = LastEntry(d, l)
  BY <1>4, <1>5, <1>6, Zenon DEF LastItem, LastEntry, a
<1>8. Append(i, LastEntry(d, l)) = WholeForm(d, l)
  <2> DEFINE m == Full(d)
             e == LastEntry(d, l)
             Y == {Entry(d, j) : j \in 1..m} \union {e}
             z == Append(i, e)
  <2>1. m \in Nat
    BY <1>0, FullFacts
  <2>2. i = [j \in 1..m |-> Entry(d, j)] /\ WholeForm(d, l) = [j \in 1..(m + 1) |-> IF j <= m THEN Entry(d, j) ELSE e]
    BY DEF Form, WholeForm
  <2>3. e \in Y /\ \A j \in 1..m : Entry(d, j) \in Y
    OBVIOUS
  <2> HIDE DEF m, e, Y, i
  <2>4. i \in Seq(Y) /\ Len(i) = m /\ \A j \in 1..m : i[j] = Entry(d, j)
    BY <2>1, <2>2, <2>3
  <2>5. z \in Seq(Y) /\ Len(z) = m + 1 /\ z[m + 1] = e /\ \A j \in 1..m : z[j] = i[j]
    BY <2>1, <2>3, <2>4, AppendProperties
  <2> HIDE DEF z
  <2>6. \A j \in 1..(m + 1) : (j \in 1..m /\ j <= m) \/ (j = m + 1 /\ ~(j <= m))
    BY <2>1
  <2>7. z = [j \in 1..(m + 1) |-> z[j]]
    BY <2>5, LenProperties
  <2>8. \A j \in 1..(m + 1) : z[j] = IF j <= m THEN Entry(d, j) ELSE e
    BY <2>4, <2>5, <2>6
  <2>9. z = [j \in 1..(m + 1) |-> IF j <= m THEN Entry(d, j) ELSE e]
    BY <2>7, <2>8
  <2> QED
    BY <2>2, <2>9 DEF z, e
<1>9. LastChain(T) = Whole(P, d, l)
  <2>1. [[param |-> P, in |-> i] EXCEPT !.in = Append(i, LastItem(T))] = [param |-> P, in |-> Append(i, LastItem(T))]
    OBVIOUS
  <2>2. T.h.in = i
    BY <1>2
  <2>3. LastChain(T) = [T.h EXCEPT !.in = Append(T.h.in, LastItem(T))]
    BY DEF LastChain
  <2>4. LastChain(T) = [param |-> P, in |-> Append(i, LastItem(T))]
    BY <1>2, <2>1, <2>2, <2>3, Zenon
  <2> QED
    BY <1>7, <1>8, <2>4, Zenon DEF Whole
<1> DEFINE h == Whole(P, d, l)
           c == Words(Len(d))
           f == <<TRUE, l>>
           p == LastBuf(T)
           N == NodeFinal(T, n)
<1>10. N.res = 0 /\ N.out = Bytes(h, o) /\ N.st = Closed(T, c, f, p, h)
  <2>1. ~(n < T.outlen \/ T.f[1])
    BY <1>3 DEF Room
  <2> HIDE DEF h, c, f, N, o
  <2>2. N.res = 0 /\ N.out = Bytes(LastChain(T), T.outlen)
        /\ N.st = Closed(T, Counted(T.t, T.buflen), LastFlags(T), LastBuf(T), LastChain(T))
    BY <2>1, FinalParts DEF N
  <2> QED
    BY <1>4, <1>5, <1>9, <2>2, Zenon DEF h, c, f, o
<1>11. f[1] = TRUE
  OBVIOUS
<1> HIDE DEF h, c, f, p, N, i, t, b, u, o, l
<1>12. Closed(T, c, f, p, h).h = h /\ Closed(T, c, f, p, h).f = f /\ Closed(T, c, f, p, h).t = c
       /\ Closed(T, c, f, p, h).outlen = o /\ Closed(T, c, f, p, h).buflen = u
       /\ Closed(T, c, f, p, h).buf = p
  <2>1. [T EXCEPT !.t = c] = Rec(P, i, c, NoFlag, b, u, o, l)
    BY <1>0 DEF Rec
  <2>2. [Rec(P, i, c, NoFlag, b, u, o, l) EXCEPT !.f = f] = Rec(P, i, c, f, b, u, o, l)
    BY DEF Rec
  <2>3. [Rec(P, i, c, f, b, u, o, l) EXCEPT !.buf = p] = Rec(P, i, c, f, p, u, o, l)
    BY DEF Rec
  <2>4. Closed(T, c, f, p, h) = [Rec(P, i, c, f, p, u, o, l) EXCEPT !.h = h]
    BY <2>1, <2>2, <2>3, Zenon DEF Closed
  <2> QED
    BY <2>4 DEF Rec
<1>13. N.st.h = h /\ N.st.f[1] = TRUE /\ N.st.t = c /\ N.st.outlen = o /\ N.st.buflen = u
       /\ N.st.buf = p
  BY <1>10, <1>11, <1>12, Zenon
<1>15. Shaped(N.st, X)
  <2>1. u \in 0..BlockBytes
    BY <1>1 DEF u
  <2> QED
    BY <1>13, <1>14, <2>1 DEF Shaped, p
<1> QED
  BY <1>2, <1>10, <1>13, <1>15, Zenon DEF Ends, N, h, c, l, o

(***************************************************************************)
(* What holds of a node whatever was done with it: it stays the node of    *)
(* its parameters, and finished when it was finished.                      *)
(***************************************************************************)
NodeOf(T, P) ==
  T = Rec(P, T.h.in, T.t, T.f, T.buf, T.buflen, T.outlen, T.last_node)

\* A record of the parts is such a node.
LEMMA RecNode ==
  ASSUME NEW P, NEW i, NEW t, NEW f, NEW b, NEW u, NEW o, NEW l, NEW T,
         T = Rec(P, i, t, f, b, u, o, l)
  PROVE  NodeOf(T, P) /\ T.h.param = P /\ T.f = f
<1>1. T.h.in = i /\ T.h.param = P /\ T.t = t /\ T.f = f /\ T.buf = b /\ T.buflen = u
      /\ T.outlen = o /\ T.last_node = l
  BY DEF Rec
<1> QED
  BY <1>1 DEF NodeOf

\* A node that was given something, and not finished.
LEMMA FedNode ==
  ASSUME NEW X, NEW P, NEW T, NEW d, Fed(T, P, d, X)
  PROVE  NodeOf(T, P) /\ T.h.param = P /\ T.f = NoFlag /\ T.f[1] = FALSE /\ T.buflen = Held(d)
         /\ T.t = Words(Base(d))
<1> DEFINE i == Form(d, Full(d))
           w == Words(Base(d))
           u == Held(d)
           b == T.buf
           o == T.outlen
           l == T.last_node
<1>1. T = Rec(P, i, w, NoFlag, b, u, o, l)
  BY DEF Fed
<1> HIDE DEF i, w, u, b, o, l
<1>2. NodeOf(T, P) /\ T.h.param = P /\ T.f = NoFlag
  BY <1>1, RecNode
<1>3. T.buflen = u /\ T.t = w
  BY <1>1 DEF Rec
<1>4. NoFlag[1] = FALSE
  BY DEF NoFlag
<1> QED
  BY <1>2, <1>3, <1>4 DEF u, w

\* Its counter is of the blocks that were compressed.
LEMMA FedCount ==
  ASSUME NEW X, NEW P, NEW T, NEW d, Fed(T, P, d, X)
  PROVE  T.t = Words(Base(d))
<1> DEFINE w == Words(Base(d))
<1>1. T = Rec(P, Form(d, Full(d)), w, NoFlag, T.buf, Held(d), T.outlen, T.last_node)
  BY DEF Fed
<1> HIDE DEF w
<1>2. T.t = w
  BY <1>1 DEF Rec
<1> QED
  BY <1>2 DEF w

\* blake2b_update leaves a node's parameters and flags.
LEMMA UpdateNode ==
  ASSUME NEW P, NEW T, NodeOf(T, P), NEW s
  PROVE  /\ NodeOf(NodeUpdate(T, s), P) /\ NodeUpdate(T, s).f = T.f
         /\ NodeUpdate(T, s).h.param = P
<1> DEFINE i == T.h.in
           t == T.t
           f == T.f
           b == T.buf
           u == T.buflen
           o == T.outlen
           l == T.last_node
           N == NodeUpdate(T, s)
<1>1. T = Rec(P, i, t, f, b, u, o, l)
  BY DEF NodeOf
<1> HIDE DEF i, t, f, b, u, o, l
<1>2. \E x, y, z, v : NodeUpdate(Rec(P, i, t, f, b, u, o, l), s) = Rec(P, y, x, f, z, v, o, l)
  BY UpdateParts
<1>3. PICK x, y, z, v : N = Rec(P, y, x, f, z, v, o, l)
  BY <1>1, <1>2
<1> HIDE DEF N
<1>4. NodeOf(N, P) /\ N.h.param = P /\ N.f = f
  BY <1>3, RecNode
<1> QED
  BY <1>4 DEF N, f

\* A chain value with more compressed has the parameter block it began with.
LEMMA ChainMore ==
  ASSUME NEW P, NEW i, NEW j
  PROVE  [[param |-> P, in |-> i] EXCEPT !.in = j] = [param |-> P, in |-> j]
OBVIOUS

\* blake2b_final leaves its parameters, and a node that is finished; it finishes
\* one that is not, or fails and leaves it.
LEMMA FinalNode ==
  ASSUME NEW P, NEW T, NodeOf(T, P), NEW n
  PROVE  /\ NodeOf(NodeFinal(T, n).st, P) /\ NodeFinal(T, n).st.h.param = P
         /\ NodeFinal(T, n).res \in {0, -1}
         /\ (NodeFinal(T, n).res = 0 => NodeFinal(T, n).st.f[1] = TRUE)
         /\ (NodeFinal(T, n).res = 0 => ~T.f[1])
         /\ (NodeFinal(T, n).res = -1 => NodeFinal(T, n).st = T)
<1> DEFINE i == T.h.in
           t == T.t
           f == T.f
           b == T.buf
           u == T.buflen
           o == T.outlen
           l == T.last_node
           N == NodeFinal(T, n)
<1>1. T = Rec(P, i, t, f, b, u, o, l)
  BY DEF NodeOf
<1>2. CASE n < T.outlen \/ T.f[1]
  <2>1. N.res = -1 /\ N.st = T
    BY <1>2, FinalFails
  <2>2. T.h.param = P
    <3> HIDE DEF i, t, f, b, u, o, l
    <3> QED
      BY <1>1, RecNode
  <2> QED
    BY <2>1, <2>2
<1>3. CASE ~(n < T.outlen \/ T.f[1])
  <2> DEFINE c == Counted(T.t, T.buflen)
             g == LastFlags(T)
             p == LastBuf(T)
             h == LastChain(T)
             j == Append(T.h.in, LastItem(T))
  <2>1. N.res = 0 /\ N.st = Closed(T, c, g, p, h)
    BY <1>3, FinalParts
  <2>2. h = [param |-> P, in |-> j]
    <3>1. T.h = [param |-> P, in |-> i]
      <4> HIDE DEF i, t, f, b, u, o, l
      <4> QED
        BY <1>1 DEF Rec
    <3> HIDE DEF i
    <3>2. [[param |-> P, in |-> i] EXCEPT !.in = Append(T.h.in, LastItem(T))] = [param |-> P, in |-> j]
      BY ChainMore, Zenon
    <3>3. h = [T.h EXCEPT !.in = Append(T.h.in, LastItem(T))]
      BY DEF LastChain
    <3> QED
      BY <3>1, <3>2, <3>3, Zenon
  <2>3. g[1] = TRUE
    BY DEF LastFlags
  <2>6. ~T.f[1]
    BY <1>3
  <2> HIDE DEF c, g, p, h, j, i, t, f, b, u, o, l
  <2>4. N.st = Rec(P, j, c, g, p, u, o, l)
    <3>1. [T EXCEPT !.t = c] = Rec(P, i, c, f, b, u, o, l)
      BY <1>1 DEF Rec
    <3>2. [Rec(P, i, c, f, b, u, o, l) EXCEPT !.f = g] = Rec(P, i, c, g, b, u, o, l)
      BY DEF Rec
    <3>3. [Rec(P, i, c, g, b, u, o, l) EXCEPT !.buf = p] = Rec(P, i, c, g, p, u, o, l)
      BY DEF Rec
    <3>4. [Rec(P, i, c, g, p, u, o, l) EXCEPT !.h = h] = Rec(P, j, c, g, p, u, o, l)
      BY <2>2 DEF Rec
    <3> QED
      BY <2>1, <3>1, <3>2, <3>3, <3>4, Zenon DEF Closed
  <2> HIDE DEF N
  <2> DEFINE Q == N.st
  <2>7. Q = Rec(P, j, c, g, p, u, o, l)
    BY <2>4
  <2> HIDE DEF Q
  <2>5. NodeOf(Q, P) /\ Q.h.param = P /\ Q.f = g
    BY <2>7, RecNode
  <2> QED
    BY <2>1, <2>3, <2>5, <2>6 DEF N, Q
<1> QED
  BY <1>2, <1>3

(***************************************************************************)
(* The buffer of a node, when it is finished as well.                      *)
(***************************************************************************)
\* An update keeps its size, and no more in it.
LEMMA UpdateShaped ==
  ASSUME NEW X, NEW P, NEW T, NodeOf(T, P), Shaped(T, X), NEW s \in Seq(X)
  PROVE  Shaped(NodeUpdate(T, s), X)
<1> DEFINE i == T.h.in
           t == T.t
           f == T.f
           b == T.buf
           u == T.buflen
           o == T.outlen
           l == T.last_node
           d == SubSeq(b, 1, u)
           Q == Rec(P, <<>>, Words(0), NoFlag, b, u, o, l)
           r == Joined(T, s)
           n == Count(T, s)
           z == NewBuf(T, r, n)
           v == Len(DropFirst(r, n * BlockBytes))
           N == NodeUpdate(T, s)
<1>1. T = Rec(P, i, t, f, b, u, o, l)
  BY DEF NodeOf
<1>2. b \in [1..BlockBytes -> X] /\ u \in 0..BlockBytes /\ BlockBytes \in Nat \ {0}
  BY Blake2NodeAssumption DEF Shaped
<1> HIDE DEF i, t, f, b, u, o, l
<1>3. \E x, y : NodeUpdate(Rec(P, i, t, f, b, u, o, l), s)
                  = Rec(P, y, x, f, NewBuf(Rec(P, i, t, f, b, u, o, l), Joined(Rec(P, i, t, f, b, u, o, l), s), Count(Rec(P, i, t, f, b, u, o, l), s)),
                        Len(DropFirst(Joined(Rec(P, i, t, f, b, u, o, l), s), Count(Rec(P, i, t, f, b, u, o, l), s) * BlockBytes)), o, l)
  BY UpdateParts
<1>4. \E x, y : N = Rec(P, y, x, f, z, v, o, l)
  BY <1>1, <1>3, Zenon
<1> HIDE DEF N, z, v
<1>5. N.buf = z /\ N.buflen = v
  BY <1>4 DEF Rec
<1>6. d \in Seq(X) /\ Len(d) = u /\ \A j \in 1..u : d[j] = b[j]
  <2>1. \A j \in 1..u : b[j] \in X
    BY <1>2
  <2> QED
    BY <1>2, <2>1, SubSeqProperties
<1> HIDE DEF d
<1>7. Full(d) = 0 /\ Base(d) = 0 /\ Held(d) = u
  <2>1. CASE d = <<>>
    BY <1>2, <1>6, <2>1, FullFacts, EmptySeq
  <2>2. CASE d # <<>>
    <3>1. u \in 1..BlockBytes
      BY <1>2, <1>6, <2>2, EmptySeq
    <3> DEFINE c == 0
    <3>2. c \in Nat /\ Len(d) = c * BlockBytes + u
      BY <1>2, <1>6
    <3> HIDE DEF c
    <3>3. Full(d) = c
      BY <1>6, <3>1, <3>2, FullUnique
    <3>4. Full(d) = 0
      BY <3>3 DEF c
    <3> QED
      BY <1>2, <1>6, <3>4 DEF Base, Held
  <2> QED
    BY <2>1, <2>2
<1>8. Q.buf = b /\ Q.buflen = u /\ Q.outlen = o /\ Q.last_node = l
  BY DEF Rec
<1>9. Form(d, 0) = <<>>
  BY DEF Form
<1>10. Fed(Q, P, d, X)
  <2> DEFINE w == Q
  <2>1. w = Rec(P, Form(d, Full(d)), Words(Base(d)), NoFlag, w.buf, Held(d), w.outlen, w.last_node)
    BY <1>7, <1>8, <1>9
  <2>2. w.buf = b
    BY <1>8
  <2> HIDE DEF w
  <2>3. \A j \in 1..Held(d) : w.buf[j] = d[Base(d) + j]
    BY <1>2, <1>6, <1>7, <2>2
  <2>4. w.buf \in [1..BlockBytes -> X]
    BY <1>2, <2>2
  <2>5. Fed(w, P, d, X)
    BY <1>6, <2>1, <2>3, <2>4, Zenon DEF Fed
  <2> QED
    BY <2>5 DEF w
<1> HIDE DEF Q
<1>11. Joined(Q, s) = r /\ Count(Q, s) = n /\ NewBuf(Q, r, n) = z
  <2>1. Joined(Q, s) = r
    BY <1>8 DEF Joined, b, u
  <2>2. Count(Q, s) = n
    BY <2>1 DEF Count
  <2>3. NewBuf(Q, r, n) = z
    BY <1>8 DEF NewBuf, b, z
  <2> QED
    BY <2>1, <2>2, <2>3
<1> DEFINE e == d \o s
<1>12. Joins(e, d, s)
  BY DEF Joins
<1> HIDE DEF e
<1>13. v = Held(e) /\ z \in [1..BlockBytes -> X] /\ e \in Seq(X)
  <2>1. /\ Len(DropFirst(Joined(Q, s), Count(Q, s) * BlockBytes)) = Held(e)
        /\ NewBuf(Q, Joined(Q, s), Count(Q, s)) \in [1..BlockBytes -> X]
    BY <1>10, <1>12, NewBufFacts
  <2>2. e \in Seq(X)
    BY <1>6, <1>10, <1>12, JoinedFacts
  <2> QED
    BY <1>11, <2>1, <2>2, Zenon DEF v
<1>14. Held(e) \in 0..BlockBytes
  BY <1>13, FullFacts
<1> QED
  BY <1>5, <1>13, <1>14 DEF Shaped, N

(***************************************************************************)
(* The same of nodes that are the last of their level, and of those that   *)
(* are not.                                                                *)
(***************************************************************************)
\* The definition of a node's chain value, for keys and messages.
LEMMA ChainOf ==
  ASSUME NEW X, Zero \in X, NEW P, NEW k \in Seq(X), Len(k) <= BlockBytes, NEW m \in Seq(X)
  PROVE  \A l \in BOOLEAN : Chain(P, k, m, l) = Whole(P, Data(k, m), l)
<1> DEFINE d == Data(k, m)
<1>1. d \in Seq(X) /\ d = Data(k, m)
  BY DataJoins
<1> SUFFICES ASSUME NEW l \in BOOLEAN PROVE Chain(P, k, m, l) = Whole(P, d, l)
  OBVIOUS
<1> HIDE DEF d
<1> QED
  BY <1>1, ChainIs

\* Final of a node with input m, under the key k.
LEMMA FinalChain ==
  ASSUME NEW X, Zero \in X, NEW P, NEW k \in Seq(X), Len(k) <= BlockBytes, NEW m \in Seq(X),
         NEW T, Fed(T, P, Data(k, m), X), NEW l \in BOOLEAN, T.last_node = l,
         NEW n, Room(T, n)
  PROVE  Ends(NodeFinal(T, n), Chain(P, k, m, l), Data(k, m), T, X) /\ NodeOf(NodeFinal(T, n).st, P)
<1> DEFINE d == Data(k, m)
           F == NodeFinal(T, n)
<1>1. Marked(T) /\ Fed(T, P, d, X)
  BY Zenon DEF Marked
<1>2. Chain(P, k, m, l) = Whole(P, d, l)
  BY ChainOf
<1>3. NodeOf(T, P)
  BY FedNode
<1> HIDE DEF d
<1>4. Ends(F, Whole(P, d, T.last_node), d, T, X)
  BY <1>1, FinalFed
<1>5. NodeOf(F.st, P)
  BY <1>3, FinalNode
<1> HIDE DEF F
<1>6. Ends(F, Chain(P, k, m, l), d, T, X)
  BY <1>2, <1>4, Zenon
<1> QED
  BY <1>5, <1>6 DEF F, d

(***************************************************************************)
(* A chain value has one input.                                            *)
(***************************************************************************)
\* Two lengths less than a wrap apart are told apart by the low word.
LEMMA NearMod ==
  ASSUME NEW x \in Nat, NEW y \in Nat, x <= y, y - x < WordMod, x % WordMod = y % WordMod
  PROVE  x = y
<1> DEFINE q == x \div WordMod
           r == x % WordMod
           g == y - x
<1>0. WordMod \in Nat \ {0}
  BY Blake2NodeAssumption
<1>1. q \in Nat /\ r \in 0..(WordMod - 1) /\ x = WordMod * q + r
  BY <1>0, DivMod
<1>2. g \in 0..(WordMod - 1) /\ y = x + g
  BY Blake2NodeAssumption
<1>3. r = y % WordMod
  OBVIOUS
<1> HIDE DEF q, r, g
<1>4. CASE r + g < WordMod
  <2>1. y = WordMod * q + (r + g) /\ r + g \in 0..(WordMod - 1)
    BY <1>0, <1>1, <1>2, <1>4
  <2>2. (WordMod * q + (r + g)) % WordMod = r + g
    <3>1. q \in Nat
      BY <1>1
    <3> QED
      BY <1>0, <2>1, <3>1, DivModUnique
  <2>3. r = r + g
    BY <1>3, <2>1, <2>2, Zenon
  <2> QED
    BY <1>0, <1>1, <1>2, <2>3
<1>5. CASE r + g >= WordMod
  <2>1. y = WordMod * (q + 1) + (r + g - WordMod) /\ r + g - WordMod \in 0..(WordMod - 1)
    BY <1>0, <1>1, <1>2, <1>5
  <2>2. (WordMod * (q + 1) + (r + g - WordMod)) % WordMod = r + g - WordMod
    <3>1. q + 1 \in Nat
      BY <1>1
    <3> QED
      BY <1>0, <2>1, <3>1, DivModUnique
  <2>3. r = r + g - WordMod
    BY <1>3, <2>1, <2>2, Zenon
  <2> QED
    BY <1>0, <1>1, <1>2, <2>3
<1> QED
  BY <1>0, <1>1, <1>2, <1>4, <1>5

\* Its blocks tell how many they are, what is in them and, by the counter of the
\* last, how much of that one is padding.
LEMMA WholeParts ==
  ASSUME NEW X, NEW P, NEW Q, NEW d \in Seq(X), NEW e \in Seq(X), NEW l,
         Whole(P, d, l) = Whole(Q, e, l)
  PROVE  /\ P = Q /\ Full(d) = Full(e)
         /\ \A i \in 1..Full(d) : Entry(d, i) = Entry(e, i)
         /\ LastEntry(d, l) = LastEntry(e, l)
<1> DEFINE f == WholeForm(d, l)
           g == WholeForm(e, l)
           n == Full(d)
           p == Full(e)
<1>1. n \in Nat /\ p \in Nat
  BY FullFacts
<1>2. P = Q /\ f = g
  <2> HIDE DEF f, g
  <2>1. [param |-> P, in |-> f] = [param |-> Q, in |-> g]
    BY DEF Whole, f, g
  <2>2. /\ [param |-> P, in |-> f].param = P /\ [param |-> Q, in |-> g].param = Q
        /\ [param |-> P, in |-> f].in = f /\ [param |-> Q, in |-> g].in = g
    OBVIOUS
  <2> QED
    BY <2>1, <2>2
<1> HIDE DEF n, p
<1>3. f = [i \in 1..(n + 1) |-> IF i <= n THEN Entry(d, i) ELSE LastEntry(d, l)]
  BY DEF WholeForm, n
<1>4. g = [i \in 1..(p + 1) |-> IF i <= p THEN Entry(e, i) ELSE LastEntry(e, l)]
  BY DEF WholeForm, p
<1> HIDE DEF f, g
<1>5. n = p
  <2>1. 1..(n + 1) = 1..(p + 1)
    BY <1>2, <1>3, <1>4
  <2> QED
    BY <1>1, <2>1
<1>6. \A i \in 1..n : Entry(d, i) = Entry(e, i)
  <2>1. \A i \in 1..n : f[i] = Entry(d, i) /\ g[i] = Entry(e, i)
    BY <1>1, <1>3, <1>4, <1>5
  <2> QED
    BY <1>2, <2>1
<1>7. LastEntry(d, l) = LastEntry(e, l)
  <2>1. f[n + 1] = LastEntry(d, l) /\ g[n + 1] = LastEntry(e, l)
    BY <1>1, <1>3, <1>4, <1>5
  <2> QED
    BY <1>2, <2>1
<1> QED
  BY <1>2, <1>5, <1>6, <1>7 DEF n, p

\* A byte before the last block is in the block with its number.
LEMMA ByteInBlock ==
  ASSUME NEW n \in Nat, NEW i \in 1..(n * BlockBytes)
  PROVE  \E b \in 1..n : i \in ((b - 1) * BlockBytes + 1)..(b * BlockBytes)
<1> DEFINE h == i - 1
           b == h \div BlockBytes
           r == h % BlockBytes
<1>1. BlockBytes \in Nat \ {0} /\ n * BlockBytes \in Nat /\ n * BlockBytes = BlockBytes * n
  BY Blake2NodeAssumption
<1>2. h \in Nat /\ h < BlockBytes * n
  BY <1>1
<1> HIDE DEF h
<1>3. b \in Nat /\ r \in 0..(BlockBytes - 1) /\ h = BlockBytes * b + r
  BY <1>1, <1>2, DivMod
<1> HIDE DEF b, r
<1>4. b < n
  <2> SUFFICES ASSUME b >= n PROVE FALSE
    BY <1>3
  <2> DEFINE c == b - n
  <2>1. c \in Nat /\ b = n + c
    BY <1>3
  <2> HIDE DEF c
  <2>2. BlockBytes * b = BlockBytes * n + BlockBytes * c /\ BlockBytes * c \in Nat
    BY <1>1, <2>1
  <2> QED
    BY <1>1, <1>2, <1>3, <2>2
<1>5. (b + 1) - 1 = b /\ b * BlockBytes = BlockBytes * b
      /\ (b + 1) * BlockBytes = BlockBytes * b + BlockBytes /\ BlockBytes * b \in Nat
  BY <1>1, <1>3
<1>6. i = h + 1
  BY DEF h
<1>7. i \in (((b + 1) - 1) * BlockBytes + 1)..((b + 1) * BlockBytes)
  BY <1>1, <1>3, <1>5, <1>6
<1>8. b + 1 \in 1..n
  BY <1>3, <1>4
<1> QED
  BY <1>7, <1>8

\* So they tell every byte.
LEMMA WholeTells ==
  ASSUME NEW X, Zero \in X, NEW P, NEW Q, NEW d \in Seq(X), NEW e \in Seq(X), NEW l,
         Whole(P, d, l) = Whole(Q, e, l)
  PROVE  P = Q /\ d = e
<1> DEFINE n == Full(d)
           a == Base(d)
           x == Cut(d, a, Len(d))
           y == Cut(e, a, Len(e))
<1>1. /\ P = Q /\ Full(d) = Full(e)
      /\ \A i \in 1..n : Entry(d, i) = Entry(e, i)
      /\ LastEntry(d, l) = LastEntry(e, l)
  BY WholeParts
<1>2. BlockBytes \in Nat \ {0} /\ WordMod \in Nat /\ BlockBytes < WordMod
      /\ Len(d) \in Nat /\ Len(e) \in Nat
  BY Blake2NodeAssumption, LenProperties
<1>3. /\ n \in Nat /\ a \in Nat /\ Base(e) = a /\ a = n * BlockBytes
      /\ Held(d) \in 0..BlockBytes /\ Held(e) \in 0..BlockBytes
      /\ Len(d) = a + Held(d) /\ Len(e) = a + Held(e)
  BY <1>1, <1>2, FullFacts DEF Base
<1>4. Pad(x) = Pad(y) /\ Words(Len(d)) = Words(Len(e))
  BY <1>1, <1>3 DEF LastEntry
<1> HIDE DEF n, a
<1>5. Len(d) = Len(e)
  <2>1. Len(d) % WordMod = Len(e) % WordMod
    BY <1>4 DEF Words
  <2>2. CASE Len(d) <= Len(e)
    <3>1. Len(e) - Len(d) < WordMod
      BY <1>2, <1>3, <2>2
    <3> QED
      BY <1>2, <2>1, <2>2, <3>1, NearMod
  <2>3. CASE Len(e) <= Len(d)
    <3>1. Len(d) - Len(e) < WordMod
      BY <1>2, <1>3, <2>3
    <3> QED
      BY <1>2, <2>1, <2>3, <3>1, NearMod
  <2> QED
    BY <1>2, <2>2, <2>3
<1>6. \A i \in 1..Len(d) : d[i] = e[i]
  <2> SUFFICES ASSUME NEW i \in 1..Len(d) PROVE d[i] = e[i]
    OBVIOUS
  <2>1. CASE i <= a
    <3>1. i \in 1..(n * BlockBytes)
      BY <1>2, <1>3, <2>1
    <3>2. PICK b \in 1..n : i \in ((b - 1) * BlockBytes + 1)..(b * BlockBytes)
      BY <1>3, <3>1, ByteInBlock
    <3> DEFINE z == (b - 1) * BlockBytes
               v == b * BlockBytes
    <3>3. Cut(d, z, v) = Cut(e, z, v)
      BY <1>1 DEF Entry, n
    <3>4. z \in Nat /\ v \in Nat
      BY <1>2, <1>3, <3>2
    <3> HIDE DEF z, v
    <3>5. i - z \in 1..(v - z) /\ z + (i - z) = i
      BY <3>2, <3>4 DEF z, v
    <3>6. Cut(d, z, v)[i - z] = d[i] /\ Cut(e, z, v)[i - z] = e[i]
      BY <3>5 DEF Cut
    <3> QED
      BY <3>3, <3>6
  <2>2. CASE i > a
    <3>1. i - a \in 1..(Len(d) - a) /\ i - a \in 1..BlockBytes /\ a + (i - a) = i
          /\ a \in 0..Len(d) /\ Len(d) \in a..Len(d) /\ Len(d) - a <= BlockBytes
      BY <1>2, <1>3, <2>2
    <3>2. /\ x \in Seq(X) /\ Len(x) = Len(d) - a
          /\ x[i - a] = d[i]
      <4>1. a \in Nat
        BY <1>3
      <4> QED
        <5>1. /\ Cut(d, a, Len(d)) \in Seq(X) /\ Len(Cut(d, a, Len(d))) = Len(d) - a
              /\ \A j \in 1..(Len(d) - a) : Cut(d, a, Len(d))[j] = d[a + j]
          BY <3>1, <4>1, CutFacts
        <5> QED
          BY <3>1, <5>1
    <3>3. /\ y \in Seq(X) /\ Len(y) = Len(d) - a
          /\ y[i - a] = e[i]
      <4>1. a \in Nat /\ Len(e) \in a..Len(e) /\ i - a \in 1..(Len(e) - a)
        BY <1>2, <1>3, <1>5, <3>1
      <4> QED
        <5>1. /\ Cut(e, a, Len(e)) \in Seq(X) /\ Len(Cut(e, a, Len(e))) = Len(e) - a
              /\ \A j \in 1..(Len(e) - a) : Cut(e, a, Len(e))[j] = e[a + j]
          BY <4>1, CutFacts
        <5> QED
          BY <1>5, <3>1, <4>1, <5>1
    <3> HIDE DEF x, y
    <3>4. Pad(x)[i - a] = x[i - a]
      <4>1. Pad(x) = [j \in 1..BlockBytes |-> IF j <= Len(x) THEN x[j] ELSE Zero]
        BY <3>1, <3>2, PadFacts
      <4> QED
        BY <3>1, <3>2, <4>1
    <3>5. Pad(y)[i - a] = y[i - a]
      <4>1. Pad(y) = [j \in 1..BlockBytes |-> IF j <= Len(y) THEN y[j] ELSE Zero]
        BY <3>1, <3>3, PadFacts
      <4> QED
        BY <3>1, <3>3, <4>1
    <3> QED
      BY <1>4, <3>2, <3>3, <3>4, <3>5
  <2> QED
    BY <1>2, <1>3, <2>1, <2>2
<1>7. d = e
  BY <1>5, <1>6, SeqEqual
<1> QED
  BY <1>1, <1>7

\* The parts of a concatenation.
LEMMA JoinsParts ==
  ASSUME NEW X, NEW s \in Seq(X), NEW t \in Seq(X), NEW w, Joins(w, s, t)
  PROVE  /\ Len(w) = Len(s) + Len(t)
         /\ \A i \in 1..Len(s) : w[i] = s[i]
         /\ \A i \in 1..Len(t) : w[Len(s) + i] = t[i]
BY ConcatProperties DEF Joins

\* They are not mistaken for others when the length of one is known.
LEMMA ConcatTells ==
  ASSUME NEW X, NEW s \in Seq(X), NEW t \in Seq(X), NEW u \in Seq(X), NEW v \in Seq(X),
         NEW w, Joins(w, s, t), Joins(w, u, v), Len(t) = Len(v)
  PROVE  s = u /\ t = v
<1>1. /\ Len(w) = Len(s) + Len(t)
      /\ \A i \in 1..Len(s) : w[i] = s[i]
      /\ \A i \in 1..Len(t) : w[Len(s) + i] = t[i]
  BY JoinsParts
<1>2. /\ Len(w) = Len(u) + Len(v)
      /\ \A i \in 1..Len(u) : w[i] = u[i]
      /\ \A i \in 1..Len(v) : w[Len(u) + i] = v[i]
  BY JoinsParts
<1>3. Len(s) \in Nat /\ Len(t) \in Nat /\ Len(u) \in Nat /\ Len(v) \in Nat
  BY LenProperties
<1>4. Len(s) = Len(u)
  BY <1>1, <1>2, <1>3
<1>5. \A i \in 1..Len(s) : s[i] = u[i]
  BY <1>1, <1>2, <1>4
<1>6. \A i \in 1..Len(t) : t[i] = v[i]
  BY <1>1, <1>2, <1>4
<1> QED
  BY <1>4, <1>5, <1>6, SeqEqual

\* The block of a key tells it from others of its length.
LEMMA KeyDataTells ==
  ASSUME NEW X, Zero \in X, NEW k \in Seq(X), NEW j \in Seq(X), Len(k) <= BlockBytes,
         Len(j) = Len(k), KeyData(k) = KeyData(j)
  PROVE  k = j
<1>1. CASE k = <<>>
  BY <1>1, EmptySeq
<1>2. CASE k # <<>>
  <2>1. j # <<>>
    BY <1>2, EmptySeq
  <2>2. Pad(k) = Pad(j)
    BY <1>2, <2>1 DEF KeyData
  <2>3. BlockBytes \in Nat /\ Len(k) \in Nat
    BY Blake2NodeAssumption, LenProperties
  <2>4. Pad(k) = [i \in 1..BlockBytes |-> IF i <= Len(k) THEN k[i] ELSE Zero]
    BY PadFacts
  <2>5. Pad(j) = [i \in 1..BlockBytes |-> IF i <= Len(j) THEN j[i] ELSE Zero]
    BY PadFacts
  <2>6. \A i \in 1..Len(k) : k[i] = j[i]
    <3> SUFFICES ASSUME NEW i \in 1..Len(k) PROVE k[i] = j[i]
      OBVIOUS
    <3>1. i \in 1..BlockBytes /\ i <= Len(k) /\ i <= Len(j)
      BY <2>3
    <3> QED
      BY <2>2, <2>4, <2>5, <3>1
  <2> QED
    BY <2>6, SeqEqual
<1> QED
  BY <1>1, <1>2

\* A digest, which has at least a byte, tells its chain value.
LEMMA BytesTell ==
  ASSUME NEW h, NEW g, NEW n \in Nat \ {0}, Bytes(h, n) = Bytes(g, n)
  PROVE  h = g
<1>1. Bytes(h, n)[1] = Bytes(g, n)[1]
  OBVIOUS
<1>2. [h |-> h, i |-> 1] = [h |-> g, i |-> 1]
  BY <1>1 DEF Bytes
<1>3. [h |-> h, i |-> 1].h = h /\ [h |-> g, i |-> 1].h = g
  OBVIOUS
<1> QED
  BY <1>2, <1>3

\* What was compressed tells the key, if its length is known, and the message.
LEMMA ChainTells ==
  ASSUME NEW X, Zero \in X, NEW P, NEW Q, NEW k \in Seq(X), NEW j \in Seq(X), NEW m \in Seq(X),
         NEW w \in Seq(X), Len(k) <= BlockBytes, Len(j) = Len(k), NEW l \in BOOLEAN,
         Chain(P, k, m, l) = Chain(Q, j, w, l)
  PROVE  P = Q /\ k = j /\ m = w
<1> DEFINE d == Data(k, m)
           e == Data(j, w)
           a == KeyData(k)
           b == KeyData(j)
<1>1. d \in Seq(X) /\ Joins(d, a, m) /\ a \in Seq(X)
  BY DataJoins
<1>2. e \in Seq(X) /\ Joins(e, b, w) /\ b \in Seq(X)
  BY DataJoins
<1>3. Chain(P, k, m, l) = Whole(P, d, l) /\ Chain(Q, j, w, l) = Whole(Q, e, l)
  BY ChainOf
<1> HIDE DEF d, e
<1>4. P = Q /\ d = e
  <2>1. Whole(P, d, l) = Whole(Q, e, l)
    BY <1>3, Zenon
  <2>2. ASSUME NEW c, Whole(P, d, c) = Whole(Q, e, c) PROVE P = Q /\ d = e
    BY <1>1, <1>2, <2>2, WholeTells
  <2> QED
    BY <2>1, <2>2, Zenon
<1>5. Len(a) = Len(b)
  <2>1. k = <<>> <=> j = <<>>
    BY EmptySeq
  <2>2. Len(Pad(k)) = BlockBytes /\ Len(Pad(j)) = BlockBytes
    BY PadFacts, Blake2NodeAssumption
  <2> QED
    BY <2>1, <2>2 DEF KeyData
<1> HIDE DEF a, b
<1>6. Len(d) = Len(a) + Len(m) /\ Len(d) = Len(b) + Len(w)
  BY <1>1, <1>2, <1>4, JoinsParts
<1>7. Len(m) = Len(w)
  BY <1>1, <1>2, <1>5, <1>6, LenProperties
<1>8. a = b /\ m = w
  BY <1>1, <1>2, <1>4, <1>7, ConcatTells
<1>9. k = j
  BY <1>8, KeyDataTells DEF a, b
<1> QED
  BY <1>4, <1>8, <1>9

\* A sequence of some bytes is one of more bytes.
LEMMA SeqMore == ASSUME NEW A, NEW B, A \subseteq B, NEW s \in Seq(A) PROVE s \in Seq(B)
<1>1. Len(s) \in Nat /\ s \in [1..Len(s) -> A]
  BY LenProperties
<1>2. s \in [1..Len(s) -> B]
  BY <1>1
<1> QED
  BY <1>1, <1>2

===============================================================================
