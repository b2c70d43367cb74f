---------------------------- MODULE Blake2Proofs ----------------------------
(***************************************************************************)
(* Proofs about Blake2: first the streaming interface of BLAKE2s, for      *)
(* blocks, keys, messages, pieces and counter words of any size, then the  *)
(* other kinds of context.  S names the instance of Blake2s in Blake2.     *)
(***************************************************************************)
EXTENDS Blake2, SequenceTheorems, TLAPS

(***************************************************************************)
(* The byte counter.  Its two words are those of the number of bytes, and  *)
(* blake2s_increment_counter carries when the low one wraps.               *)
(***************************************************************************)
Words(x) == <<x % WordMod, (x \div WordMod) % WordMod>>

\* Quotient and remainder of a count.
LEMMA DivMod ==
  ASSUME NEW x \in Nat
  PROVE  /\ x \div WordMod \in Nat
         /\ x % WordMod \in 0..(WordMod - 1)
         /\ x = WordMod * (x \div WordMod) + (x % WordMod)
BY Blake2NodeAssumption

\* No other quotient and remainder give the same number.
LEMMA DivModUnique ==
  ASSUME NEW q \in Nat, NEW r \in 0..(WordMod - 1)
  PROVE  /\ (WordMod * q + r) \div WordMod = q
         /\ (WordMod * q + r) % WordMod = r
BY Blake2NodeAssumption, Z3

\* The high word counts the carries as if it had not wrapped.
LEMMA NextMod == ASSUME NEW x \in Nat PROVE ((x % WordMod) + 1) % WordMod = (x + 1) % WordMod
<1> DEFINE q == x \div WordMod
           r == x % WordMod
<1>1. q \in Nat /\ r \in 0..(WordMod - 1) /\ x = WordMod * q + r
  BY DivMod
<1> HIDE DEF q, r
<1>2. CASE r + 1 < WordMod
  <2>1. x + 1 = WordMod * q + (r + 1)
    BY <1>1, Blake2NodeAssumption
  <2>2. (x + 1) % WordMod = r + 1
    BY <1>1, <1>2, <2>1, DivModUnique, Blake2NodeAssumption
  <2>3. (r + 1) % WordMod = r + 1
    BY <1>1, <1>2, Blake2NodeAssumption
  <2> QED
    BY <2>2, <2>3 DEF r
<1>3. CASE r + 1 = WordMod
  <2>1. x + 1 = WordMod * (q + 1) + 0
    BY <1>1, <1>3, Blake2NodeAssumption
  <2>2. (x + 1) % WordMod = 0
    BY <1>1, <2>1, DivModUnique, Blake2NodeAssumption
  <2>3. (r + 1) % WordMod = 0
    BY <1>3, Blake2NodeAssumption
  <2> QED
    BY <2>2, <2>3 DEF r
<1> QED
  BY <1>1, <1>2, <1>3, Blake2NodeAssumption

\* The words of a count are words.
LEMMA WordsType == ASSUME NEW x \in Nat PROVE Words(x) \in (0..(WordMod - 1)) \X (0..(WordMod - 1))
BY DivMod DEF Words

\* The low word is less than what was added to it exactly when it wrapped.
LEMMA Increments ==
  ASSUME NEW x \in Nat, NEW inc \in 0..BlockBytes
  PROVE  S!Increment(Words(x), inc) = Words(x + inc)
<1> DEFINE q == x \div WordMod
           r == x % WordMod
           low == (r + inc) % WordMod
<1>1. q \in Nat /\ r \in 0..(WordMod - 1) /\ x = WordMod * q + r /\ inc < WordMod
  BY DivMod, Blake2NodeAssumption
<1>2. S!Increment(Words(x), inc) =
        <<low, ((q % WordMod) + (IF low < inc THEN 1 ELSE 0)) % WordMod>>
  BY DEF S!Increment, Words
<1>3. Words(x + inc) = <<(x + inc) % WordMod, ((x + inc) \div WordMod) % WordMod>>
  BY DEF Words
<1> HIDE DEF q, r
<1>4. CASE r + inc < WordMod
  <2>1. low = r + inc
    BY <1>1, <1>4, Blake2NodeAssumption
  <2>2. x + inc = WordMod * q + (r + inc)
    BY <1>1, Blake2NodeAssumption
  <2>3. (x + inc) % WordMod = r + inc /\ (x + inc) \div WordMod = q
    BY <1>1, <1>4, <2>2, DivModUnique, Blake2NodeAssumption
  <2>4. ((q % WordMod) + 0) % WordMod = q % WordMod
    BY <1>1, Blake2NodeAssumption
  <2> QED
    BY <1>1, <1>2, <1>3, <2>1, <2>3, <2>4
<1>5. CASE r + inc >= WordMod
  <2>1. r + inc = WordMod * 1 + (r + inc - WordMod) /\ r + inc - WordMod \in 0..(WordMod - 1)
    BY <1>1, <1>5, Blake2NodeAssumption
  <2>2. low = r + inc - WordMod
    BY <2>1, DivModUnique
  <2>3. x + inc = WordMod * (q + 1) + (r + inc - WordMod)
    BY <1>1, Blake2NodeAssumption
  <2>4. (x + inc) % WordMod = r + inc - WordMod /\ (x + inc) \div WordMod = q + 1
    BY <1>1, <2>1, <2>3, DivModUnique
  <2>5. low < inc
    BY <1>1, <2>2, Blake2NodeAssumption
  <2>6. ((q % WordMod) + 1) % WordMod = (q + 1) % WordMod
    BY <1>1, NextMod
  <2> QED
    BY <1>2, <1>3, <2>2, <2>4, <2>5, <2>6
<1> QED
  BY <1>1, <1>4, <1>5, Blake2NodeAssumption

(***************************************************************************)
(* Blocks.                                                                 *)
(***************************************************************************)
Block == [1..BlockBytes -> Byte]

\* The block of d after its first a bytes.
Cut(d, a) == [j \in 1..BlockBytes |-> d[a + j]]

\* A padded piece is a block, of the piece and zeros.
LEMMA PadElements ==
  ASSUME NEW s \in Seq(Byte), Len(s) <= BlockBytes
  PROVE  /\ S!Pad(s) = [j \in 1..BlockBytes |-> IF j <= Len(s) THEN s[j] ELSE Zero]
         /\ S!Pad(s) \in Block /\ S!Pad(s) \in Seq(Byte) /\ Len(S!Pad(s)) = BlockBytes
<1> DEFINE z == S!Zeros(BlockBytes - Len(s))
<1>1. BlockBytes \in Nat /\ Len(s) \in Nat /\ Zero \in Byte
  BY Blake2NodeAssumption, Blake2Assumption
<1>2. BlockBytes - Len(s) \in Nat
  BY <1>1
<1>3. z = [i \in 1..(BlockBytes - Len(s)) |-> Zero]
  BY DEF S!Zeros
<1>4. z \in Seq(Byte) /\ Len(z) = BlockBytes - Len(s)
  BY <1>1, <1>2, <1>3
<1> HIDE DEF z
<1>5. S!Pad(s) = s \o z
  BY DEF S!Pad, z
<1>6. /\ s \o z \in Seq(Byte) /\ Len(s \o z) = BlockBytes
      /\ \A i \in 1..BlockBytes : (s \o z)[i] = IF i <= Len(s) THEN s[i] ELSE Zero
  BY <1>1, <1>3, <1>4, ConcatProperties
<1>7. s \o z \in [1..BlockBytes -> Byte]
  BY <1>6, LenProperties
<1> QED
  BY <1>5, <1>6, <1>7 DEF Block

\* A block of a sequence long enough, as the code takes it.
LEMMA CutIsSubSeq ==
  ASSUME NEW d \in Seq(Byte), NEW a \in Nat, a + BlockBytes <= Len(d)
  PROVE  SubSeq(d, a + 1, a + BlockBytes) = Cut(d, a) /\ Cut(d, a) \in Block
<1>1. BlockBytes \in Nat \ {0} /\ Len(d) \in Nat
  BY Blake2NodeAssumption
<1>2. \A i \in (a + 1)..(a + BlockBytes) : d[i] \in Byte
  BY <1>1, ElementOfSeq
<1>3. /\ SubSeq(d, a + 1, a + BlockBytes) \in Seq(Byte)
      /\ Len(SubSeq(d, a + 1, a + BlockBytes)) = BlockBytes
      /\ \A i \in 1..BlockBytes : SubSeq(d, a + 1, a + BlockBytes)[i] = d[a + i]
  BY <1>1, <1>2, SubSeqProperties
<1>4. SubSeq(d, a + 1, a + BlockBytes) \in Block
  BY <1>3, LenProperties DEF Block
<1> QED
  BY <1>3, <1>4 DEF Cut, Block

\* What is left of a piece after its first n bytes.
LEMMA DropFirstElements ==
  ASSUME NEW s \in Seq(Byte), NEW n \in 0..Len(s)
  PROVE  /\ S!DropFirst(s, n) \in Seq(Byte)
         /\ Len(S!DropFirst(s, n)) = Len(s) - n
         /\ \A j \in 1..(Len(s) - n) : S!DropFirst(s, n)[j] = s[n + j]
<1>1. \A i \in (n + 1)..Len(s) : s[i] \in Byte
  BY ElementOfSeq
<1> QED
  BY <1>1, SubSeqProperties DEF S!DropFirst

\* What memcpy leaves of a buffer, and what it puts there.
LEMMA OverlayElements ==
  ASSUME NEW buf \in Block, NEW n \in 0..BlockBytes, NEW s \in Seq(Byte),
         n + Len(s) <= BlockBytes
  PROVE  /\ S!Overlay(buf, n, s) \in Block
         /\ \A j \in 1..n : S!Overlay(buf, n, s)[j] = buf[j]
         /\ \A j \in 1..Len(s) : S!Overlay(buf, n, s)[n + j] = s[j]
<1>1. BlockBytes \in Nat /\ Len(s) \in Nat /\ DOMAIN buf = 1..BlockBytes
  BY Blake2NodeAssumption DEF Block
<1>2. S!Overlay(buf, n, s) =
        [i \in 1..BlockBytes |-> IF i \in (n + 1)..(n + Len(s)) THEN s[i - n] ELSE buf[i]]
  BY <1>1 DEF S!Overlay
<1>3. \A i \in (n + 1)..(n + Len(s)) : s[i - n] \in Byte
  BY <1>1, ElementOfSeq
<1>4. \A i \in 1..BlockBytes : buf[i] \in Byte
  BY DEF Block
<1> QED
  BY <1>1, <1>2, <1>3, <1>4 DEF Block

(***************************************************************************)
(* A state that was fed: T has taken d, but for the r at its end, which    *)
(* the update in progress has yet to take.                                 *)
(***************************************************************************)
Pair == (0..(WordMod - 1)) \X (0..(WordMod - 1))
FlagPair == BOOLEAN \X BOOLEAN
Item == [m : Block, t : Pair, f : FlagPair]

LastNode == {FALSE}

Node(P) ==
  [h : [param : {P}, in : Seq(Item)], t : Pair, f : FlagPair, buf : Block,
   buflen : 0..BlockBytes, outlen : Nat, last_node : LastNode]

Rec(P, i, t, f, buf, buflen, n, l) ==
  [h |-> [param |-> P, in |-> i], t |-> t, f |-> f, buf |-> buf,
   buflen |-> buflen, outlen |-> n, last_node |-> l]

Blocks(T) == Len(T.h.in)

\* The i-th block of d, when it is not the last.
Entry(d, i) ==
  [m |-> Cut(d, (i - 1) * BlockBytes), t |-> Words(i * BlockBytes), f |-> <<FALSE, FALSE>>]

Fed(T, P, d, r) ==
  /\ T \in Node(P) /\ d \in Seq(Byte) /\ r \in Seq(Byte)
  /\ T.f = <<FALSE, FALSE>>
  /\ \A i \in 1..Blocks(T) : T.h.in[i] = Entry(d, i)
  /\ T.t = Words(Blocks(T) * BlockBytes)
  /\ Len(d) = Blocks(T) * BlockBytes + T.buflen + Len(r)
  /\ \A j \in 1..Len(r) : r[j] = d[Blocks(T) * BlockBytes + T.buflen + j]
  /\ \A j \in 1..T.buflen : T.buf[j] = d[Blocks(T) * BlockBytes + j]

\* What has to be left behind for blake2s_final: a block, unless there is nothing.
Waits(T) == T.buflen = 0 => Blocks(T) = 0

\* The parts of a state, with their types.
LEMMA NodeFacts ==
  ASSUME NEW P, NEW T \in Node(P)
  PROVE  /\ Blocks(T) \in Nat /\ Blocks(T) * BlockBytes \in Nat
         /\ (Blocks(T) + 1) * BlockBytes = Blocks(T) * BlockBytes + BlockBytes
         /\ T.buflen \in 0..BlockBytes /\ BlockBytes \in Nat \ {0}
         /\ T = Rec(P, T.h.in, T.t, T.f, T.buf, T.buflen, T.outlen, T.last_node)
         /\ T.h.in \in Seq(Item) /\ T.buf \in Block /\ T.outlen \in Nat /\ T.f \in FlagPair
         /\ T.last_node \in LastNode
<1>1. T.h.in \in Seq(Item) /\ T.buflen \in 0..BlockBytes /\ BlockBytes \in Nat \ {0}
  BY Blake2NodeAssumption DEF Node
<1>2. Blocks(T) \in Nat
  BY <1>1 DEF Blocks
<1>3. /\ Blocks(T) * BlockBytes \in Nat
      /\ (Blocks(T) + 1) * BlockBytes = Blocks(T) * BlockBytes + BlockBytes
  BY <1>1, <1>2
<1>4. T.h = [param |-> P, in |-> T.h.in]
  BY DEF Node
<1>5. T = Rec(P, T.h.in, T.t, T.f, T.buf, T.buflen, T.outlen, T.last_node)
  BY <1>4 DEF Node, Rec
<1>6. T.buf \in Block /\ T.outlen \in Nat /\ T.f \in FlagPair
         /\ T.last_node \in LastNode
  BY DEF Node
<1> QED
  BY <1>1, <1>2, <1>3, <1>5, <1>6

\* The next block of d, compressed with the counter at its end.
Next1(T, P, d, buf) ==
  Rec(P, Append(T.h.in, Entry(d, Blocks(T) + 1)), Words((Blocks(T) + 1) * BlockBytes),
      T.f, buf, 0, T.outlen, T.last_node)

\* The next block compressed, the rest is what is yet to take.
LEMMA FedNext ==
  ASSUME NEW P, NEW T, NEW d, NEW r, Fed(T, P, d, r), NEW buf \in Block,
         NEW q \in Seq(Byte),
         Len(d) = (Blocks(T) + 1) * BlockBytes + Len(q),
         \A j \in 1..Len(q) : q[j] = d[(Blocks(T) + 1) * BlockBytes + j]
  PROVE  Fed(Next1(T, P, d, buf), P, d, q)
<1> DEFINE U == Next1(T, P, d, buf)
           n == Blocks(T)
           e == Entry(d, n + 1)
<1>1. /\ T \in Node(P) /\ d \in Seq(Byte) /\ n \in Nat /\ n * BlockBytes \in Nat
      /\ (n + 1) * BlockBytes = n * BlockBytes + BlockBytes
      /\ BlockBytes \in Nat \ {0} /\ T.h.in \in Seq(Item) /\ T.outlen \in Nat
      /\ T.f = <<FALSE, FALSE>>
  BY NodeFacts DEF Fed
<1>2. (n + 1) * BlockBytes \in Nat /\ Len(q) \in Nat
  BY <1>1
<1>3. e \in Item
  <2>1. (n + 1) - 1 = n
    BY <1>1
  <2>2. n * BlockBytes + BlockBytes <= Len(d)
    BY <1>1, <1>2
  <2>3. Cut(d, ((n + 1) - 1) * BlockBytes) \in Block
    BY <1>1, <2>1, <2>2, CutIsSubSeq
  <2>4. Words((n + 1) * BlockBytes) \in Pair
    BY <1>2, WordsType DEF Pair
  <2>5. <<FALSE, FALSE>> \in FlagPair
    BY DEF FlagPair
  <2> QED
    BY <2>3, <2>4, <2>5 DEF Entry, Item
<1> HIDE DEF e
<1>4. /\ Append(T.h.in, e) \in Seq(Item) /\ Len(Append(T.h.in, e)) = n + 1
      /\ \A i \in 1..n : Append(T.h.in, e)[i] = T.h.in[i]
      /\ Append(T.h.in, e)[n + 1] = e
  BY <1>1, <1>3, AppendProperties DEF Blocks
<1>5. U = [h |-> [param |-> P, in |-> Append(T.h.in, e)],
           t |-> Words((n + 1) * BlockBytes), f |-> T.f, buf |-> buf,
           buflen |-> 0, outlen |-> T.outlen, last_node |-> T.last_node]
  BY DEF Next1, Rec, e
<1> HIDE DEF n, U
<1>6. Words((n + 1) * BlockBytes) \in Pair
  BY <1>2, WordsType DEF Pair
<1>7. U \in Node(P)
  <2> DEFINE h == [param |-> P, in |-> Append(T.h.in, e)]
  <2>1. h \in [param : {P}, in : Seq(Item)]
    BY <1>4
  <2>2. T.f \in FlagPair
    BY NodeFacts, <1>1
  <2>4. 0 \in 0..BlockBytes
    BY <1>1
  <2>3. U = [h |-> h, t |-> Words((n + 1) * BlockBytes), f |-> T.f, buf |-> buf,
             buflen |-> 0, outlen |-> T.outlen, last_node |-> T.last_node]
    BY <1>5
  <2> HIDE DEF h
  <2> QED
    BY <1>1, <1>6, <2>1, <2>2, <2>3, <2>4 DEF Node
<1>8. Blocks(U) = n + 1 /\ U.buflen = 0 /\ U.f = <<FALSE, FALSE>> /\ U.t = Words((n + 1) * BlockBytes)
  BY <1>1, <1>4, <1>5 DEF Blocks
<1>9. \A i \in 1..(n + 1) : U.h.in[i] = Entry(d, i)
  <2>1. \A i \in 1..n : T.h.in[i] = Entry(d, i)
    BY DEF Fed, n
  <2>2. U.h.in = Append(T.h.in, e)
    BY <1>5
  <2>3. \A i \in 1..(n + 1) : i \in 1..n \/ i = n + 1
    BY <1>1
  <2> QED
    BY <1>4, <2>1, <2>2, <2>3 DEF e
<1>10. Len(d) = (n + 1) * BlockBytes + 0 + Len(q)
  BY <1>2 DEF n
<1>11. \A j \in 1..Len(q) : q[j] = d[(n + 1) * BlockBytes + 0 + j]
  BY <1>2 DEF n
<1> QED
  BY <1>1, <1>7, <1>8, <1>9, <1>10, <1>11 DEF Fed, U

\* blake2s_compress, of a state given by its parts.
LEMMA CompressRec ==
  ASSUME NEW P, NEW i, NEW t, NEW f, NEW b, NEW u, NEW n, NEW l, NEW block
  PROVE  S!Compress(Rec(P, i, t, f, b, u, n, l), block)
           = Rec(P, Append(i, [m |-> block, t |-> t, f |-> f]), t, f, b, u, n, l)
<1> DEFINE T == Rec(P, i, t, f, b, u, n, l)
           e == [m |-> block, t |-> t, f |-> f]
<1>1. T.h.in = i /\ T.t = t /\ T.f = f
  BY DEF Rec
<1> HIDE DEF T
<1>2. S!Compress(T, block) = [T EXCEPT !.h.in = Append(i, e)]
  BY <1>1 DEF S!Compress
<1> HIDE DEF e
<1>3. [T EXCEPT !.h.in = Append(i, e)] = Rec(P, Append(i, e), t, f, b, u, n, l)
  <2>1. ASSUME NEW x PROVE [T EXCEPT !.h.in = x] = Rec(P, x, t, f, b, u, n, l)
    BY DEF T, Rec
  <2> QED
    BY <2>1
<1> QED
  BY <1>2, <1>3 DEF T, e

Emptied(T, buf) == [T EXCEPT !.buflen = 0, !.buf = buf]

\* Compressing the next block of d.
LEMMA CompressNext ==
  ASSUME NEW P, NEW T \in Node(P), NEW d, NEW buf \in Block,
         T.f = <<FALSE, FALSE>>, T.t = Words(Blocks(T) * BlockBytes)
  PROVE  S!CountAndCompress(Emptied(T, buf), Cut(d, Blocks(T) * BlockBytes))
           = Next1(T, P, d, buf)
<1> DEFINE i == T.h.in
           t == T.t
           f == T.f
           b == T.buf
           u == T.buflen
           n == T.outlen
           l == T.last_node
           c == Words((Blocks(T) + 1) * BlockBytes)
           block == Cut(d, Blocks(T) * BlockBytes)
           e == Entry(d, Blocks(T) + 1)
           U == Rec(P, i, t, f, buf, 0, n, l)
<1>1. /\ Blocks(T) \in Nat /\ Blocks(T) * BlockBytes \in Nat
      /\ (Blocks(T) + 1) * BlockBytes = Blocks(T) * BlockBytes + BlockBytes
      /\ BlockBytes \in 0..BlockBytes
      /\ T = Rec(P, i, t, f, b, u, n, l)
  <2>1. T = Rec(P, i, t, f, b, u, n, l)
    BY NodeFacts, Zenon
  <2> QED
    BY <2>1, NodeFacts
<1>2. S!Increment(t, BlockBytes) = c
  BY <1>1, Increments
<1>3. [m |-> block, t |-> c, f |-> f] = e
  <2>1. (Blocks(T) + 1) - 1 = Blocks(T)
    BY <1>1
  <2> QED
    BY <2>1 DEF Entry
<1>4. Next1(T, P, d, buf) = Rec(P, Append(i, e), c, f, buf, 0, n, l)
  BY DEF Next1
<1> HIDE DEF i, t, f, b, u, n, l, c, block, e
<1>5. [T EXCEPT !.buflen = 0, !.buf = buf] = U
  <2>1. [T EXCEPT !.buflen = 0, !.buf = buf] = [[T EXCEPT !.buflen = 0] EXCEPT !.buf = buf]
    BY SMT
  <2>2. [T EXCEPT !.buflen = 0] = Rec(P, i, t, f, b, 0, n, l)
    BY <1>1 DEF Rec
  <2>3. [Rec(P, i, t, f, b, 0, n, l) EXCEPT !.buf = buf] = U
    BY DEF Rec
  <2> QED
    BY <2>1, <2>2, <2>3
<1>6. U.t = t
  BY DEF Rec
<1>7. [U EXCEPT !.t = c] = Rec(P, i, c, f, buf, 0, n, l)
  BY DEF Rec
<1> HIDE DEF U
<1>8. [U EXCEPT !.t = S!Increment(@, BlockBytes)] = [U EXCEPT !.t = c]
  BY <1>2, <1>6
<1>9. S!CountAndCompress(U, block) = S!Compress(Rec(P, i, c, f, buf, 0, n, l), block)
  BY <1>7, <1>8 DEF S!CountAndCompress
<1>10. S!CountAndCompress(U, block) = Rec(P, Append(i, e), c, f, buf, 0, n, l)
  BY <1>3, <1>9, CompressRec
<1> QED
  BY <1>4, <1>5, <1>10 DEF block, Emptied

(***************************************************************************)
(* The parts of blake2s_update.                                            *)
(***************************************************************************)
Filled(T, r) ==
  LET full == S!Overlay(T.buf, T.buflen, SubSeq(r, 1, BlockBytes - T.buflen))
  IN  S!CountAndCompress([T EXCEPT !.buflen = 0, !.buf = full], full)

BlockTaken(T, r) == S!CountAndCompress(T, SubSeq(r, 1, BlockBytes))

Copied(T, r) == [T EXCEPT !.buf = S!Overlay(@, T.buflen, r), !.buflen = @ + Len(r)]

\* The buffer filled up and compressed.
LEMMA FedFill ==
  ASSUME NEW P, NEW T, NEW d, NEW r, Fed(T, P, d, r), Len(r) > BlockBytes - T.buflen
  PROVE  LET U    == Filled(T, r)
             rest == S!DropFirst(r, BlockBytes - T.buflen)
         IN  Fed(U, P, d, rest) /\ U.buflen = 0 /\ rest # <<>> /\ U.outlen = T.outlen
<1> DEFINE n == Blocks(T)
           fill == BlockBytes - T.buflen
           first == SubSeq(r, 1, fill)
           full == S!Overlay(T.buf, T.buflen, first)
           rest == S!DropFirst(r, fill)
<1>1. /\ T \in Node(P) /\ d \in Seq(Byte) /\ r \in Seq(Byte)
      /\ n \in Nat /\ n * BlockBytes \in Nat
      /\ (n + 1) * BlockBytes = n * BlockBytes + BlockBytes
      /\ T.buflen \in 0..BlockBytes /\ BlockBytes \in Nat \ {0} /\ T.buf \in Block
  BY NodeFacts DEF Fed
<1>2. fill \in 0..Len(r) /\ Len(r) \in Nat /\ fill \in Nat
  BY <1>1
<1>3. /\ first \in Seq(Byte) /\ Len(first) = fill
      /\ \A j \in 1..fill : first[j] = r[j]
  <2>1. \A i \in 1..fill : r[i] \in Byte
    BY <1>1, <1>2, ElementOfSeq
  <2> QED
    BY <1>2, <2>1, SubSeqProperties
<1>4. /\ full \in Block
      /\ \A j \in 1..T.buflen : full[j] = T.buf[j]
      /\ \A j \in 1..fill : full[T.buflen + j] = r[j]
  <2> HIDE DEF first
  <2>1. T.buflen + Len(first) <= BlockBytes
    BY <1>1, <1>3, SMTT(30)
  <2>2. /\ full \in Block
        /\ \A j \in 1..T.buflen : full[j] = T.buf[j]
        /\ \A j \in 1..Len(first) : full[T.buflen + j] = first[j]
    BY <1>1, <1>3, <2>1, OverlayElements
  <2> QED
    BY <1>3, <2>2
<1>5. /\ rest \in Seq(Byte) /\ Len(rest) = Len(r) - fill
      /\ \A j \in 1..(Len(r) - fill) : rest[j] = r[fill + j]
  BY <1>1, <1>2, DropFirstElements
<1> HIDE DEF full, rest, first
<1>6. full = Cut(d, n * BlockBytes)
  <2>1. \A j \in 1..BlockBytes : full[j] = d[n * BlockBytes + j]
    <3> SUFFICES ASSUME NEW j \in 1..BlockBytes PROVE full[j] = d[n * BlockBytes + j]
      OBVIOUS
    <3>1. CASE j <= T.buflen
      BY <1>1, <1>4, <3>1 DEF Fed
    <3>2. CASE j > T.buflen
      <4>1. j - T.buflen \in 1..fill /\ T.buflen + (j - T.buflen) = j
        BY <1>1, <3>2
      <4>2. full[j] = r[j - T.buflen]
        BY <1>4, <4>1
      <4>3. j - T.buflen \in 1..Len(r)
        BY <1>2, <4>1
      <4>4. r[j - T.buflen] = d[n * BlockBytes + T.buflen + (j - T.buflen)]
        BY <4>3 DEF Fed
      <4>5. n * BlockBytes + T.buflen + (j - T.buflen) = n * BlockBytes + j
        BY <1>1
      <4> QED
        BY <4>2, <4>4, <4>5
    <3> QED
      BY <1>1, <3>1, <3>2
  <2> QED
    BY <1>4, <2>1 DEF Cut, Block
<1>7. S!CountAndCompress([T EXCEPT !.buflen = 0, !.buf = full], full) = Next1(T, P, d, full)
  BY <1>1, <1>4, <1>6, CompressNext DEF Fed, Emptied
<1>8. /\ Len(d) = n * BlockBytes + T.buflen + Len(r)
      /\ \A j \in 1..Len(r) : r[j] = d[n * BlockBytes + T.buflen + j]
  BY DEF Fed
<1> HIDE DEF n
<1>9. Len(d) = (n + 1) * BlockBytes + Len(rest)
  BY <1>1, <1>2, <1>5, <1>8, SMTT(30)
<1>10. \A j \in 1..Len(rest) : rest[j] = d[(n + 1) * BlockBytes + j]
  <2> SUFFICES ASSUME NEW j \in 1..Len(rest) PROVE rest[j] = d[(n + 1) * BlockBytes + j]
    OBVIOUS
  <2>1. rest[j] = r[fill + j] /\ fill + j \in 1..Len(r)
    BY <1>2, <1>5
  <2>2. r[fill + j] = d[n * BlockBytes + T.buflen + (fill + j)]
    BY <2>1, <1>8
  <2>3. n * BlockBytes + T.buflen + (fill + j) = (n + 1) * BlockBytes + j
    BY <1>1, <1>2
  <2> QED
    BY <2>1, <2>2, <2>3
<1>11. Fed(Next1(T, P, d, full), P, d, rest)
  BY <1>4, <1>5, <1>9, <1>10, FedNext DEF n
<1>12. /\ rest # <<>> /\ Next1(T, P, d, full).buflen = 0
       /\ Next1(T, P, d, full).outlen = T.outlen
  <2>1. Len(rest) > 0
    BY <1>1, <1>2, <1>5
  <2>2. Next1(T, P, d, full).buflen = 0 /\ Next1(T, P, d, full).outlen = T.outlen
    BY DEF Next1, Rec
  <2> QED
    BY <2>1, <2>2, EmptySeq
<1> QED
  BY <1>7, <1>11, <1>12 DEF full, rest, first, Filled

\* A block compressed straight from the input.
LEMMA FedBlock ==
  ASSUME NEW P, NEW T, NEW d, NEW r, Fed(T, P, d, r), T.buflen = 0, Len(r) > BlockBytes
  PROVE  LET U    == BlockTaken(T, r)
             rest == S!DropFirst(r, BlockBytes)
         IN  Fed(U, P, d, rest) /\ U.buflen = 0 /\ rest # <<>> /\ U.outlen = T.outlen
<1> DEFINE n == Blocks(T)
           first == SubSeq(r, 1, BlockBytes)
           rest == S!DropFirst(r, BlockBytes)
<1>1. /\ T \in Node(P) /\ d \in Seq(Byte) /\ r \in Seq(Byte)
      /\ n \in Nat /\ n * BlockBytes \in Nat
      /\ (n + 1) * BlockBytes = n * BlockBytes + BlockBytes
      /\ BlockBytes \in Nat \ {0} /\ T.buf \in Block
  BY NodeFacts DEF Fed
<1>2. /\ rest \in Seq(Byte) /\ Len(rest) = Len(r) - BlockBytes
      /\ \A j \in 1..(Len(r) - BlockBytes) : rest[j] = r[BlockBytes + j]
  <2>1. BlockBytes \in 0..Len(r)
    BY <1>1
  <2> QED
    BY <1>1, <2>1, DropFirstElements
<1>3. /\ Len(d) = n * BlockBytes + Len(r)
      /\ \A j \in 1..Len(r) : r[j] = d[n * BlockBytes + j]
  BY <1>1, SMTT(30) DEF Fed
<1> HIDE DEF rest
<1>4. first = Cut(d, n * BlockBytes)
  <2>1. first = Cut(r, 0) /\ Cut(r, 0) \in Block
    BY <1>1, CutIsSubSeq
  <2>2. \A j \in 1..BlockBytes : r[0 + j] = d[n * BlockBytes + j]
    <3> SUFFICES ASSUME NEW j \in 1..BlockBytes PROVE r[0 + j] = d[n * BlockBytes + j]
      OBVIOUS
    <3>1. j \in 1..Len(r) /\ 0 + j = j
      BY <1>1
    <3>2. r[j] = d[n * BlockBytes + j]
      BY <1>3, <3>1
    <3> QED
      BY <3>1, <3>2
  <2> QED
    BY <2>1, <2>2 DEF Cut
<1> DEFINE buf == T.buf
<1>5. T = Emptied(T, buf) /\ buf \in Block
  BY <1>1 DEF Node, Emptied
<1> HIDE DEF first, n, buf
<1>6. S!CountAndCompress(T, first) = Next1(T, P, d, buf)
  <2>1. S!CountAndCompress(Emptied(T, buf), Cut(d, Blocks(T) * BlockBytes))
          = Next1(T, P, d, buf)
    <3>1. T \in Node(P) /\ T.f = <<FALSE, FALSE>> /\ T.t = Words(Blocks(T) * BlockBytes)
      BY DEF Fed
    <3> QED
      BY <1>5, <3>1, CompressNext
  <2> QED
    BY <1>4, <1>5, <2>1 DEF n
<1>7. Len(d) = (n + 1) * BlockBytes + Len(rest)
  BY <1>1, <1>2, <1>3
<1>8. \A j \in 1..Len(rest) : rest[j] = d[(n + 1) * BlockBytes + j]
  <2> SUFFICES ASSUME NEW j \in 1..Len(rest) PROVE rest[j] = d[(n + 1) * BlockBytes + j]
    OBVIOUS
  <2>1. rest[j] = r[BlockBytes + j] /\ BlockBytes + j \in 1..Len(r)
    BY <1>1, <1>2
  <2>2. r[BlockBytes + j] = d[n * BlockBytes + (BlockBytes + j)]
    BY <2>1, <1>3
  <2>3. n * BlockBytes + (BlockBytes + j) = (n + 1) * BlockBytes + j
    BY <1>1
  <2> QED
    BY <2>1, <2>2, <2>3
<1>9. Fed(Next1(T, P, d, buf), P, d, rest)
  BY <1>1, <1>2, <1>5, <1>7, <1>8, FedNext DEF n
<1>10. /\ rest # <<>> /\ Next1(T, P, d, buf).buflen = 0
       /\ Next1(T, P, d, buf).outlen = T.outlen
  <2>1. Len(rest) > 0
    BY <1>1, <1>2
  <2>2. Next1(T, P, d, buf).buflen = 0 /\ Next1(T, P, d, buf).outlen = T.outlen
    BY DEF Next1, Rec
  <2> QED
    BY <2>1, <2>2, EmptySeq
<1> QED
  BY <1>6, <1>9, <1>10 DEF rest, first, BlockTaken

\* The rest copied into the buffer.
LEMMA FedCopy ==
  ASSUME NEW P, NEW T, NEW d, NEW r, Fed(T, P, d, r), T.buflen + Len(r) <= BlockBytes
  PROVE  LET U == Copied(T, r)
         IN  /\ Fed(U, P, d, <<>>) /\ U.buflen = T.buflen + Len(r) /\ Blocks(U) = Blocks(T)
             /\ U.outlen = T.outlen
<1> DEFINE n == Blocks(T)
           full == S!Overlay(T.buf, T.buflen, r)
           len == T.buflen + Len(r)
           U == Rec(P, T.h.in, T.t, T.f, full, len, T.outlen, T.last_node)
<1>1. /\ T \in Node(P) /\ d \in Seq(Byte) /\ r \in Seq(Byte) /\ Len(r) \in Nat
      /\ n \in Nat /\ n * BlockBytes \in Nat
      /\ T.buflen \in 0..BlockBytes /\ BlockBytes \in Nat \ {0} /\ T.buf \in Block
      /\ len \in 0..BlockBytes
  <2>1. T \in Node(P) /\ d \in Seq(Byte) /\ r \in Seq(Byte)
    BY DEF Fed
  <2>2. Len(r) \in Nat
    BY <2>1, LenProperties
  <2>3. /\ n \in Nat /\ n * BlockBytes \in Nat /\ T.buflen \in 0..BlockBytes
        /\ BlockBytes \in Nat \ {0} /\ T.buf \in Block
    BY <2>1, NodeFacts
  <2>4. len \in 0..BlockBytes
    <3> HIDE DEF n
    <3> QED
      BY <2>2, <2>3
  <2> QED
    BY <2>1, <2>2, <2>3, <2>4
<1>2. /\ full \in Block
      /\ \A j \in 1..T.buflen : full[j] = T.buf[j]
      /\ \A j \in 1..Len(r) : full[T.buflen + j] = r[j]
  BY <1>1, OverlayElements
<1> HIDE DEF full, len
<1>3. [T EXCEPT !.buf = S!Overlay(@, T.buflen, r), !.buflen = @ + Len(r)] = U
  <2> DEFINE i == T.h.in
             t == T.t
             f == T.f
             b == T.buf
             u == T.buflen
             o == T.outlen
             l == T.last_node
  <2>1. T = Rec(P, i, t, f, b, u, o, l)
    BY <1>1, NodeFacts, Zenon
  <2>2. U = Rec(P, i, t, f, full, len, o, l)
    OBVIOUS
  <2>3. full = S!Overlay(b, u, r) /\ len = u + Len(r)
    BY DEF full, len
  <2> HIDE DEF U, i, t, f, b, u, o, l
  <2>4. T.buf = b /\ T.buflen = u
    BY <2>1 DEF Rec
  <2>5. [T EXCEPT !.buf = S!Overlay(@, T.buflen, r), !.buflen = @ + Len(r)]
          = [[T EXCEPT !.buf = full] EXCEPT !.buflen = len]
    BY <2>3, <2>4
  <2>6. [T EXCEPT !.buf = full] = Rec(P, i, t, f, full, u, o, l)
    BY <2>1 DEF Rec
  <2>7. [Rec(P, i, t, f, full, u, o, l) EXCEPT !.buflen = len] = U
    BY <2>2 DEF Rec
  <2> QED
    BY <2>5, <2>6, <2>7
<1>4. /\ U.h = [param |-> P, in |-> T.h.in] /\ U.t = T.t /\ U.f = T.f /\ U.buf = full
      /\ U.buflen = len /\ U.outlen = T.outlen /\ U.last_node = T.last_node
  BY DEF Rec
<1>5. U \in Node(P)
  <2>1. /\ [param |-> P, in |-> T.h.in] \in [param : {P}, in : Seq(Item)]
        /\ T.t \in Pair /\ T.f \in FlagPair /\ T.outlen \in Nat /\ T.last_node \in LastNode
    BY <1>1 DEF Node
  <2> QED
    BY <1>1, <1>2, <2>1 DEF Node, Rec
<1>6. Blocks(U) = n
  BY <1>4 DEF Blocks
<1> HIDE DEF U, n
<1>7. /\ Len(d) = n * BlockBytes + T.buflen + Len(r)
      /\ \A j \in 1..Len(r) : r[j] = d[n * BlockBytes + T.buflen + j]
      /\ \A j \in 1..T.buflen : T.buf[j] = d[n * BlockBytes + j]
      /\ \A i \in 1..n : T.h.in[i] = Entry(d, i)
      /\ T.f = <<FALSE, FALSE>> /\ T.t = Words(n * BlockBytes)
  BY DEF Fed, n
<1>8. \A j \in 1..len : full[j] = d[n * BlockBytes + j]
  <2> SUFFICES ASSUME NEW j \in 1..len PROVE full[j] = d[n * BlockBytes + j]
    OBVIOUS
  <2>1. CASE j <= T.buflen
    BY <1>1, <1>2, <1>7, <2>1
  <2>2. CASE j > T.buflen
    <3>1. j - T.buflen \in 1..Len(r) /\ T.buflen + (j - T.buflen) = j
      BY <1>1, <2>2 DEF len
    <3>2. full[j] = r[j - T.buflen]
      BY <1>2, <3>1
    <3>3. r[j - T.buflen] = d[n * BlockBytes + T.buflen + (j - T.buflen)]
      BY <1>7, <3>1
    <3>4. n * BlockBytes + T.buflen + (j - T.buflen) = n * BlockBytes + j
      BY <1>1
    <3> QED
      BY <3>2, <3>3, <3>4
  <2> QED
    BY <1>1, <2>1, <2>2
<1>9. /\ <<>> \in Seq(Byte) /\ Len(<<>>) = 0
      /\ Len(d) = n * BlockBytes + len + 0
  BY <1>1, <1>7 DEF len
<1>10. Fed(U, P, d, <<>>)
  <2>1. \A i \in 1..n : U.h.in[i] = Entry(d, i)
    BY <1>4, <1>7
  <2>2. \A j \in 1..0 : <<>>[j] = d[n * BlockBytes + len + j]
    OBVIOUS
  <2> QED
    BY <1>1, <1>4, <1>5, <1>6, <1>7, <1>8, <1>9, <2>1, <2>2 DEF Fed
<1> QED
  BY <1>3, <1>4, <1>6, <1>10 DEF n, len, Copied

\* More input.
LEMMA FedMore ==
  ASSUME NEW P, NEW T, NEW d, Fed(T, P, d, <<>>), NEW p \in Seq(Byte)
  PROVE  Fed(T, P, d \o p, p)
<1> DEFINE n == Blocks(T)
<1>1. /\ T \in Node(P) /\ d \in Seq(Byte) /\ n \in Nat /\ n * BlockBytes \in Nat
      /\ T.buflen \in 0..BlockBytes /\ BlockBytes \in Nat \ {0} /\ Len(p) \in Nat
  BY NodeFacts DEF Fed
<1>2. Len(d) = n * BlockBytes + T.buflen
  BY <1>1, Len(<<>>) = 0 DEF Fed
<1>3. /\ d \o p \in Seq(Byte) /\ Len(d \o p) = Len(d) + Len(p)
      /\ \A j \in 1..Len(d) : (d \o p)[j] = d[j]
      /\ \A j \in 1..Len(p) : (d \o p)[Len(d) + j] = p[j]
  BY <1>1, ConcatProperties
<1> DEFINE e == d \o p
<1> HIDE DEF e, n
<1>4. /\ T.f = <<FALSE, FALSE>> /\ T.t = Words(n * BlockBytes)
      /\ \A i \in 1..n : T.h.in[i] = Entry(d, i)
      /\ \A j \in 1..T.buflen : T.buf[j] = d[n * BlockBytes + j]
  BY DEF Fed, n
<1>5. \A i \in 1..n : Entry(d, i) = Entry(e, i)
  <2> SUFFICES ASSUME NEW i \in 1..n PROVE Entry(d, i) = Entry(e, i)
    OBVIOUS
  <2> DEFINE a == (i - 1) * BlockBytes
  <2>1. a \in Nat /\ a + BlockBytes = i * BlockBytes /\ i * BlockBytes <= n * BlockBytes
    BY <1>1
  <2>2. \A j \in 1..BlockBytes : a + j \in 1..Len(d)
    BY <1>1, <1>2, <2>1
  <2> HIDE DEF a
  <2>3. Cut(d, a) = Cut(e, a)
    BY <1>3, <2>2 DEF Cut, e
  <2> QED
    BY <2>3 DEF Entry, a
<1>6. \A j \in 1..T.buflen : T.buf[j] = e[n * BlockBytes + j]
  <2>1. \A j \in 1..T.buflen : n * BlockBytes + j \in 1..Len(d)
    BY <1>1, <1>2
  <2> QED
    BY <1>3, <1>4, <2>1 DEF e
<1>7. \A j \in 1..Len(p) : p[j] = e[n * BlockBytes + T.buflen + j]
  BY <1>2, <1>3 DEF e
<1>8. e \in Seq(Byte) /\ Len(e) = n * BlockBytes + T.buflen + Len(p)
  BY <1>2, <1>3 DEF e
<1> QED
  BY <1>1, <1>4, <1>5, <1>6, <1>7, <1>8 DEF Fed, n, e

\* A context as init_param leaves it, before anything is taken of d.
LEMMA FedNew ==
  ASSUME NEW P, P.digest_length \in Nat, NEW d \in Seq(Byte)
  PROVE  LET U == S!InitParam(P)
         IN  /\ Fed(U, P, d, d) /\ U.buflen = 0 /\ Blocks(U) = 0
             /\ U.outlen = P.digest_length
<1> DEFINE z == S!Zeros(BlockBytes)
           f == <<FALSE, FALSE>>
           l == FALSE
           o == P.digest_length
           t == <<0, 0>>
           U == Rec(P, <<>>, t, f, z, 0, o, l)
<1>1. S!InitParam(P) = U
  BY DEF S!InitParam, Rec
<1>2. BlockBytes \in Nat \ {0} /\ Zero \in Byte /\ WordMod \in Nat \ {0} /\ Len(d) \in Nat
  BY Blake2NodeAssumption, Blake2Assumption
<1>3. z \in Block
  BY <1>2 DEF S!Zeros, Block
<1>4. t = Words(0 * BlockBytes) /\ t \in Pair
  <2>1. 0 * BlockBytes = 0 /\ 0 % WordMod = 0 /\ 0 \div WordMod = 0
    BY <1>2
  <2> QED
    BY <1>2, <2>1 DEF Words, Pair
<1>5. f \in FlagPair /\ l \in LastNode /\ f = <<FALSE, FALSE>>
  BY DEF FlagPair, LastNode
<1> HIDE DEF z, f, l, t, o
<1>6. /\ U.h = [param |-> P, in |-> <<>>] /\ U.t = t /\ U.f = f /\ U.buf = z
      /\ U.buflen = 0 /\ U.outlen = o /\ U.last_node = l
  BY DEF Rec
<1>7. U \in Node(P)
  <2>1. [param |-> P, in |-> <<>>] \in [param : {P}, in : Seq(Item)] /\ o \in Nat /\ 0 \in 0..BlockBytes
    BY <1>2 DEF o
  <2> QED
    BY <1>3, <1>4, <1>5, <2>1 DEF Node, Rec
<1>8. Blocks(U) = 0
  BY <1>6 DEF Blocks
<1> HIDE DEF U
<1>9. Len(d) = 0 * BlockBytes + 0 + Len(d) /\ \A j \in 1..Len(d) : d[j] = d[0 * BlockBytes + 0 + j]
  BY <1>2
<1>10. Fed(U, P, d, d)
  BY <1>4, <1>5, <1>6, <1>7, <1>8, <1>9 DEF Fed
<1> QED
  BY <1>1, <1>6, <1>8, <1>10 DEF o

(***************************************************************************)
(* What a node of BLAKE2 is, in the terms of the code: n blocks that are   *)
(* known not to be the last when they are compressed, and the rest.        *)
(***************************************************************************)
Data(k, m) == IF k = <<>> THEN m ELSE S!Pad(k) \o m

LastEntry(d, n) ==
  [m |-> S!Pad(SubSeq(d, n * BlockBytes + 1, Len(d))), t |-> Words(Len(d)), f |-> <<TRUE, FALSE>>]

Form(d, n) == [i \in 1..(n + 1) |-> IF i <= n THEN Entry(d, i) ELSE LastEntry(d, n)]

NodeChain(P, k, m) == S!Chain(P, k, m, FALSE)

\* n of the blocks of d are followed by more, by u bytes.
Splits(d, n, u) ==
  n \in Nat /\ u \in 0..BlockBytes /\ (u = 0 => n = 0) /\ Len(d) = n * BlockBytes + u

\* The end of a block is that of the input, where that comes first.
LEMMA MinPair ==
  ASSUME NEW a \in Nat, NEW b \in Nat
  PROVE  S!Min({a, b}) = IF a <= b THEN a ELSE b
BY DEF S!Min

\* A block more than those that are followed by others.
LEMMA CountBlocks ==
  ASSUME NEW n \in Nat, NEW u \in 1..BlockBytes
  PROVE  (n * BlockBytes + u + BlockBytes - 1) \div BlockBytes = n + 1
<1>1. BlockBytes \in Nat \ {0} /\ n * BlockBytes \in Nat /\ BlockBytes * n = n * BlockBytes
  BY Blake2NodeAssumption
<1>2. n * BlockBytes + u + BlockBytes - 1 = BlockBytes * (n + 1) + (u - 1)
  BY <1>1
<1>3. u - 1 \in 0..(BlockBytes - 1)
  BY <1>1
<1>4. \A q \in Nat, r \in 0..(BlockBytes - 1) : (BlockBytes * q + r) \div BlockBytes = q
  BY <1>1, Z3
<1> QED
  BY <1>2, <1>3, <1>4

\* What a node of BLAKE2 is, in these terms.
LEMMA ChainForm ==
  ASSUME NEW P, NEW k \in Seq(Byte), NEW m \in Seq(Byte), Len(k) <= BlockBytes,
         NEW n, NEW u, Splits(Data(k, m), n, u)
  PROVE  NodeChain(P, k, m) = [param |-> P, in |-> Form(Data(k, m), n)]
<1> DEFINE d == Data(k, m)
           count == IF d = <<>> THEN 1 ELSE (Len(d) + BlockBytes - 1) \div BlockBytes
           End(i) == S!Min({i * BlockBytes, Len(d)})
           B(i) == [m |-> S!Pad(SubSeq(d, (i - 1) * BlockBytes + 1, End(i))),
                    t |-> <<End(i) % WordMod, (End(i) \div WordMod) % WordMod>>,
                    f |-> <<i = count, i = count /\ FALSE>>]
<1>1. S!Chain(P, k, m, FALSE) = [param |-> P, in |-> [i \in 1..count |-> B(i)]]
  BY DEF S!Chain, Data
<1>2. /\ n \in Nat /\ u \in 0..BlockBytes /\ (u = 0 => n = 0) /\ Len(d) = n * BlockBytes + u
      /\ BlockBytes \in Nat \ {0} /\ n * BlockBytes \in Nat
      /\ (n + 1) * BlockBytes = n * BlockBytes + BlockBytes
  BY Blake2NodeAssumption DEF Splits
<1>3. d \in Seq(Byte) /\ Len(d) \in Nat
  BY PadElements, ConcatProperties DEF Data
<1> HIDE DEF d
<1>4. count = n + 1
  <2>1. CASE u = 0
    BY <1>2, <1>3, <2>1, EmptySeq
  <2>2. CASE u # 0
    <3>1. u \in 1..BlockBytes /\ d # <<>>
      BY <1>2, <1>3, <2>2, EmptySeq
    <3> QED
      BY <1>2, <3>1, CountBlocks
  <2> QED
    BY <2>1, <2>2
<1> HIDE DEF count
<1>5. \A i \in 1..n : B(i) = Entry(d, i)
  <2> SUFFICES ASSUME NEW i \in 1..n PROVE B(i) = Entry(d, i)
    OBVIOUS
  <2> DEFINE a == (i - 1) * BlockBytes
             e == End(i)
  <2>1. a \in Nat /\ a + BlockBytes = i * BlockBytes /\ i * BlockBytes \in Nat
          /\ i * BlockBytes <= n * BlockBytes
    BY <1>2
  <2>2. i * BlockBytes <= Len(d)
    BY <1>2, <2>1
  <2>3. e = i * BlockBytes
    BY <1>3, <2>1, <2>2, MinPair
  <2>4. (i = count) = FALSE /\ (i = count /\ FALSE) = FALSE
    BY <1>2, <1>4
  <2>5. <<i = count, i = count /\ FALSE>> = <<FALSE, FALSE>>
    BY <2>4
  <2>6. <<e % WordMod, (e \div WordMod) % WordMod>> = Words(i * BlockBytes)
    BY <2>3 DEF Words
  <2> HIDE DEF a, e
  <2>7. SubSeq(d, a + 1, e) = Cut(d, a) /\ Cut(d, a) \in Block
    BY <1>3, <2>1, <2>2, <2>3, CutIsSubSeq
  <2>8. S!Pad(Cut(d, a)) = Cut(d, a)
    <3> DEFINE c == Cut(d, a)
    <3>1. c \in Block /\ c \in Seq(Byte) /\ Len(c) = BlockBytes /\ Len(c) <= BlockBytes
      BY <1>2, <2>7 DEF Block
    <3> HIDE DEF c
    <3>2. S!Pad(c) = [j \in 1..BlockBytes |-> IF j <= Len(c) THEN c[j] ELSE Zero]
      BY <3>1, PadElements
    <3> QED
      BY <3>1, <3>2 DEF Block, c
  <2> QED
    BY <2>5, <2>6, <2>7, <2>8 DEF Entry, a, e
<1>6. B(n + 1) = LastEntry(d, n)
  <2> DEFINE e == End(n + 1)
  <2>1. e = Len(d)
    BY <1>2, <1>3, MinPair
  <2>2. (n + 1 = count) = TRUE /\ (n + 1 = count /\ FALSE) = FALSE
    BY <1>4
  <2>3. <<n + 1 = count, n + 1 = count /\ FALSE>> = <<TRUE, FALSE>>
    BY <2>2
  <2>4. (n + 1) - 1 = n
    BY <1>2
  <2> HIDE DEF e
  <2> QED
    BY <2>1, <2>3, <2>4 DEF LastEntry, Words, e
<1> HIDE DEF B
<1>7. [i \in 1..count |-> B(i)] = [i \in 1..(n + 1) |-> IF i <= n THEN Entry(d, i) ELSE LastEntry(d, n)]
  <2>1. \A i \in 1..(n + 1) : i \in 1..n \/ (i = n + 1 /\ ~(i <= n))
    BY <1>2
  <2>2. \A i \in 1..n : i <= n
    BY <1>2
  <2> QED
    BY <1>4, <1>5, <1>6, <2>1, <2>2
<1> QED
  BY <1>1, <1>7 DEF d, Form, NodeChain

\* blake2s_final: the last block of the context is the last of the input.
Finale(T) ==
  LET block == S!Pad(SubSeq(T.buf, 1, T.buflen))
  IN  S!Compress([T EXCEPT !.t = S!Increment(@, T.buflen), !.f = <<TRUE, @[2] \/ T.last_node>>,
                           !.buf = block], block)

\* How many blocks were compressed before the last.
LEMMA FedSplits ==
  ASSUME NEW P, NEW T, NEW d, Fed(T, P, d, <<>>), Waits(T)
  PROVE  Splits(d, Blocks(T), T.buflen)
<1>1. /\ Blocks(T) \in Nat /\ Blocks(T) * BlockBytes \in Nat /\ T.buflen \in 0..BlockBytes
      /\ BlockBytes \in Nat
  BY NodeFacts DEF Fed
<1>2. Len(d) = Blocks(T) * BlockBytes + T.buflen + 0
  BY Len(<<>>) = 0 DEF Fed
<1> QED
  BY <1>1, <1>2 DEF Splits, Waits

\* What blake2s_final compresses is the rest of the input, padded.
LEMMA LastBlockIs ==
  ASSUME NEW P, NEW T, NEW d, Fed(T, P, d, <<>>)
  PROVE  /\ S!Pad(SubSeq(T.buf, 1, T.buflen)) = S!Pad(SubSeq(d, Blocks(T) * BlockBytes + 1, Len(d)))
         /\ S!Pad(SubSeq(T.buf, 1, T.buflen)) \in Block
<1> DEFINE n == Blocks(T)
           u == T.buflen
           x == SubSeq(T.buf, 1, u)
           y == SubSeq(d, n * BlockBytes + 1, Len(d))
<1>1. /\ n \in Nat /\ n * BlockBytes \in Nat /\ u \in 0..BlockBytes /\ BlockBytes \in Nat
      /\ T.buf \in Block /\ d \in Seq(Byte)
  BY NodeFacts DEF Fed
<1>2. /\ Len(d) = n * BlockBytes + u
      /\ \A j \in 1..u : T.buf[j] = d[n * BlockBytes + j]
  BY <1>1, Len(<<>>) = 0 DEF Fed
<1> DEFINE a == n * BlockBytes
           b == T.buf
<1> HIDE DEF a, u, b
<1>3. x \in Seq(Byte) /\ Len(x) = u /\ \A j \in 1..u : x[j] = b[j]
  <2>1. \A i \in 1..u : b[i] \in Byte
    BY <1>1 DEF Block, b
  <2> QED
    BY <1>1, <2>1, SubSeqProperties DEF b
<1>4. y \in Seq(Byte) /\ Len(y) = u /\ \A j \in 1..u : y[j] = d[a + j]
  <2>1. \A i \in (a + 1)..Len(d) : d[i] \in Byte
    BY <1>1, <1>2, ElementOfSeq DEF a
  <2>2. a + 1 \in Nat /\ Len(d) \in Nat /\ Len(d) = a + u /\ a \in Nat /\ u \in Nat
    BY <1>1, <1>2 DEF a
  <2>3. SubSeq(d, a + 1, Len(d)) \in Seq(Byte)
    BY <2>1, <2>2, SubSeqProperties
  <2>4. /\ Len(SubSeq(d, a + 1, Len(d))) = u
        /\ \A j \in 1..u : SubSeq(d, a + 1, Len(d))[j] = d[a + j]
    BY <2>1, <2>2, SubSeqProperties
  <2> QED
    BY <2>3, <2>4 DEF a
<1> HIDE DEF x, y
<1>5. x = y
  BY <1>1, <1>2, <1>3, <1>4, SeqEqual DEF a, b
<1>6. S!Pad(x) \in Block
  BY <1>1, <1>3, PadElements
<1> QED
  BY <1>5, <1>6 DEF x, y, u, b, n

LastFlag == <<TRUE, FALSE>>

\* The buffer that blake2s_final leaves behind.
LastOf(T) == S!Pad(SubSeq(T.buf, 1, T.buflen))

\* What blake2s_final makes of a state.
LEMMA FinaleIs ==
  ASSUME NEW P, NEW T, NEW d, Fed(T, P, d, <<>>), Waits(T)
  PROVE  /\ Finale(T) = Rec(P, Append(T.h.in, LastEntry(d, Blocks(T))), Words(Len(d)), LastFlag,
                            LastOf(T), T.buflen, T.outlen, T.last_node)
         /\ LastEntry(d, Blocks(T)) \in Item /\ T.last_node = FALSE
         /\ S!Increment(T.t, T.buflen) = Words(Len(d))
         /\ LastEntry(d, Blocks(T)) = [m |-> LastOf(T), t |-> Words(Len(d)), f |-> LastFlag]
<1> DEFINE block == S!Pad(SubSeq(T.buf, 1, T.buflen))
           i == T.h.in
           t == T.t
           f == T.f
           b == T.buf
           u == T.buflen
           o == T.outlen
           l == T.last_node
           n == Blocks(T)
           c == Words(Len(d))
           e == LastEntry(d, n)
           last == <<TRUE, FALSE>>
<1>1. Splits(d, n, u) /\ d \in Seq(Byte)
  BY FedSplits DEF Fed
<1>2. block = S!Pad(SubSeq(d, n * BlockBytes + 1, Len(d)))
  BY LastBlockIs
<1>3. T = Rec(P, i, t, f, b, u, o, l)
  BY NodeFacts, Zenon DEF Fed
<1>4. /\ n \in Nat /\ n * BlockBytes \in Nat /\ u \in 0..BlockBytes
      /\ i \in Seq(Item) /\ l \in LastNode /\ Len(i) = n
  BY NodeFacts DEF Fed, Blocks
<1>5. S!Increment(t, u) = c
  <2>1. t = Words(n * BlockBytes) /\ Len(d) = n * BlockBytes + u
    BY <1>1 DEF Fed, Splits
  <2> QED
    BY <1>4, <2>1, Increments
<1>6. <<TRUE, f[2] \/ l>> = last
  <2>1. f = <<FALSE, FALSE>> /\ l = FALSE
    BY <1>4 DEF Fed, LastNode
  <2> HIDE DEF f, l
  <2>2. f[2] = FALSE
    BY <2>1
  <2>3. (f[2] \/ l) = FALSE
    BY <2>1, <2>2
  <2> QED
    BY <2>3
<1>7. e \in Item
  <2>1. block \in Block /\ Len(d) \in Nat
    BY <1>1, LastBlockIs
  <2>2. c \in Pair /\ last \in FlagPair
    BY <2>1, WordsType DEF Pair, FlagPair
  <2>3. e = [m |-> block, t |-> c, f |-> last]
    BY <1>2 DEF LastEntry
  <2> HIDE DEF block, c, last, e
  <2> QED
    BY <2>1, <2>2, <2>3 DEF Item
<1>8. [m |-> block, t |-> c, f |-> last] = e
  BY <1>2 DEF LastEntry
<1>9. l = FALSE
  BY <1>4 DEF LastNode
<1>10. block = LastOf(T)
  BY DEF LastOf
<1> DEFINE U == Finale(T)
<1> HIDE DEF block, i, t, f, b, u, o, l, n, c, e, last
<1>11. U = Rec(P, Append(i, e), c, last, block, u, o, l)
  <2>1. T.t = t /\ T.f = f /\ T.buflen = u /\ T.last_node = l
    BY <1>3 DEF Rec
  <2>2. [T EXCEPT !.t = S!Increment(@, T.buflen), !.f = <<TRUE, @[2] \/ T.last_node>>, !.buf = block]
          = [[[T EXCEPT !.t = c] EXCEPT !.f = last] EXCEPT !.buf = block]
    <3>1. [T EXCEPT !.t = S!Increment(@, T.buflen), !.f = <<TRUE, @[2] \/ T.last_node>>, !.buf = block]
            = [T EXCEPT !.t = S!Increment(t, u), !.f = <<TRUE, f[2] \/ l>>, !.buf = block]
      BY <2>1, Zenon
    <3>2. [T EXCEPT !.t = S!Increment(t, u), !.f = <<TRUE, f[2] \/ l>>, !.buf = block]
            = [T EXCEPT !.t = c, !.f = last, !.buf = block]
      BY <1>5, <1>6, Zenon
    <3>3. [T EXCEPT !.t = c, !.f = last, !.buf = block]
            = [[[T EXCEPT !.t = c] EXCEPT !.f = last] EXCEPT !.buf = block]
      BY SMT
    <3> QED
      BY <3>1, <3>2, <3>3, Zenon
  <2>3. [T EXCEPT !.t = c] = Rec(P, i, c, f, b, u, o, l)
    BY <1>3 DEF Rec
  <2>4. [Rec(P, i, c, f, b, u, o, l) EXCEPT !.f = last] = Rec(P, i, c, last, b, u, o, l)
    BY DEF Rec
  <2>5. [Rec(P, i, c, last, b, u, o, l) EXCEPT !.buf = block] = Rec(P, i, c, last, block, u, o, l)
    BY DEF Rec
  <2>6. U = S!Compress(Rec(P, i, c, last, block, u, o, l), block)
    BY <2>2, <2>3, <2>4, <2>5 DEF Finale, block
  <2> QED
    BY <1>8, <2>6, CompressRec
<1> QED
  BY <1>5, <1>7, <1>8, <1>9, <1>10, <1>11, Zenon DEF last, o, U, u, i, l, n, c, e, LastFlag, t

\* blake2s_final makes the chain value of the node.
LEMMA FedFinal ==
  ASSUME NEW k \in Seq(Byte), NEW m \in Seq(Byte), Len(k) <= BlockBytes, NEW P,
         NEW T, Fed(T, P, Data(k, m), <<>>), Waits(T)
  PROVE  LET U == Finale(T)
         IN  U.f = LastFlag /\ U.outlen = T.outlen /\ U.h = NodeChain(P, k, m)
<1> DEFINE d == Data(k, m)
           i == T.h.in
           n == Blocks(T)
           e == LastEntry(d, n)
           U == Finale(T)
<1>1. Splits(d, n, T.buflen) /\ d \in Seq(Byte)
  BY FedSplits DEF Fed
<1>4. n \in Nat /\ i \in Seq(Item) /\ Len(i) = n
  BY NodeFacts DEF Fed, Blocks
<1>7. e \in Item
  BY FinaleIs
<1>9. \A j \in 1..n : i[j] = Entry(d, j)
  BY DEF Fed
<1>10. NodeChain(P, k, m) = [param |-> P, in |-> Form(d, n)]
  BY <1>1, ChainForm
<1>11. U = Rec(P, Append(i, e), Words(Len(d)), LastFlag, LastOf(T), T.buflen, T.outlen, T.last_node)
  BY FinaleIs
<1> HIDE DEF d, i, n, e, U
<1>12. Append(i, e) = Form(d, n)
  <2> DEFINE a == Append(i, e)
  <2>1. /\ a \in Seq(Item) /\ Len(a) = n + 1 /\ a[n + 1] = e
        /\ \A j \in 1..n : a[j] = i[j]
    BY <1>4, <1>7, AppendProperties
  <2>2. \A j \in 1..(n + 1) : (j \in 1..n /\ j <= n) \/ (j = n + 1 /\ ~(j <= n))
    BY <1>4
  <2>3. a \in [1..(n + 1) -> Item]
    BY <2>1, LenProperties
  <2> HIDE DEF a
  <2>4. \A j \in 1..(n + 1) : a[j] = IF j <= n THEN Entry(d, j) ELSE e
    BY <1>9, <2>1, <2>2
  <2>5. a = [j \in 1..(n + 1) |-> IF j <= n THEN Entry(d, j) ELSE e]
    BY <2>3, <2>4
  <2> QED
    BY <2>5 DEF a, e, Form
<1>13. U.f = LastFlag /\ U.outlen = T.outlen /\ U.h = [param |-> P, in |-> Append(i, e)]
  BY <1>11 DEF Rec
<1> QED
  BY <1>10, <1>12, <1>13 DEF U, n, d

(***************************************************************************)
(* The inductive invariant of the streaming interface.                     *)
(***************************************************************************)
StParam == S!SequentialParam(st.outlen, key)

\* Between init and final.
Taking ==
  /\ Fed(st, StParam, Data(key, msg), in)
  /\ IF at = "loop" THEN st.buflen = 0 /\ in # <<>> ELSE Waits(st)
  /\ at = "idle" => in = <<>>

\* After final, of a state that has taken all of the input.
Ended ==
  \E T : /\ Fed(T, StParam, Data(key, msg), <<>>) /\ Waits(T)
         /\ T.outlen = st.outlen /\ st = Finale(T)

Done ==
  /\ at = "idle" /\ st.f = <<TRUE, FALSE>>
  /\ st.h = S!Chain(StParam, key, msg, FALSE)
  /\ out = S!Bytes(st.h, Len(out)) /\ Len(out) \in Nat /\ ~(Len(out) < st.outlen)
  /\ Ended

Fresh == at = "idle" /\ st = Garbage

SInv ==
  api = "s" =>
    /\ key \in Seq(Byte) /\ Len(key) <= KeyBytes /\ msg \in Seq(Byte)
    /\ Fresh \/ Taking \/ Done

\* A new context has the key to take, or nothing.
LEMMA DataOfKey ==
  ASSUME NEW k \in Seq(Byte), Len(k) <= KeyBytes
  PROVE  /\ Data(k, <<>>) = IF k = <<>> THEN <<>> ELSE S!Pad(k)
         /\ Data(k, <<>>) \in Seq(Byte)
<1>1. Len(k) <= BlockBytes /\ <<>> \in Seq(Byte)
  BY Blake2NodeAssumption
<1>2. S!Pad(k) \in Seq(Byte)
  BY <1>1, PadElements
<1>3. S!Pad(k) \o <<>> = S!Pad(k)
  BY <1>2, ConcatEmptySeq
<1> QED
  BY <1>1, <1>2, <1>3 DEF Data

\* What an update adds comes after all that was there.
LEMMA DataMore ==
  ASSUME NEW k \in Seq(Byte), Len(k) <= KeyBytes, NEW m \in Seq(Byte), NEW p \in Seq(Byte)
  PROVE  Data(k, m \o p) = Data(k, m) \o p
<1>1. Len(k) <= BlockBytes
  BY Blake2NodeAssumption
<1>2. S!Pad(k) \in Seq(Byte)
  BY <1>1, PadElements
<1> QED
  <2>1. (S!Pad(k) \o m) \o p = S!Pad(k) \o (m \o p)
    BY <1>2, ConcatAssociative
  <2> QED
    BY <2>1 DEF Data

\* blake2s_is_lastblock.
LEMMA FlagTells == (Taking => ~st.f[1]) /\ (Done => st.f[1])
<1>1. CASE st.f = <<FALSE, FALSE>>
  BY <1>1 DEF Done
<1>2. CASE st.f = <<TRUE, FALSE>>
  BY <1>2 DEF Taking, Fed
<1> QED
  BY <1>1, <1>2 DEF Taking, Fed, Done

\* A caller begins without a context.
LEMMA InitS == Init => SInv
BY Blake2NodeAssumption DEF Init, SInv, Fresh

\* blake2s_init and blake2s_init_key keep the invariant.
LEMMA InitStep ==
  ASSUME SInv, api = "s", api' = api,
         NEW n \in Lens2s, NEW k \in Keys2s, S!Blake2sInit(n, k)
  PROVE  SInv'
<1>1. CASE UNCHANGED <<at, st, in, out, key, msg>>
  BY <1>1 DEF SInv, Fresh, Taking, Done, Ended, StParam
<1>2. CASE ~S!Refused(n, k) /\ ~UNCHANGED <<at, st, in, out, key, msg>>
  <2> DEFINE P == S!SequentialParam(n, k)
             d == Data(k, <<>>)
  <2>1. /\ st' = S!InitParam(P)
        /\ at' = IF k = <<>> THEN "idle" ELSE "update"
        /\ in' = IF k = <<>> THEN <<>> ELSE S!Pad(k)
        /\ key' = k /\ msg' = <<>>
    BY <1>2 DEF S!Blake2sInit
  <2>2. n \in Nat /\ k \in Seq(Byte) /\ Len(k) <= KeyBytes
    <3>1. Lens2s \subseteq Nat /\ Keys2s \subseteq Seq(Byte) /\ KeyBytes \in Nat
      BY Blake2NodeAssumption, Blake2Assumption
    <3>2. ~(Len(k) > KeyBytes)
      BY <1>2 DEF S!Refused
    <3> QED
      BY <3>1, <3>2
  <2>3. d \in Seq(Byte) /\ in' = d
    BY <2>1, <2>2, DataOfKey
  <2>4. P.digest_length = n
    BY DEF S!SequentialParam
  <2> HIDE DEF P, d
  <2>5. Fed(st', P, d, d) /\ st'.buflen = 0 /\ Blocks(st') = 0 /\ st'.outlen = n
    BY <2>1, <2>2, <2>3, <2>4, FedNew
  <2>6. StParam' = P
    BY <2>1, <2>5 DEF StParam, P
  <2>7. Taking'
    <3>1. Fed(st', StParam', Data(key', msg'), in')
      BY <2>1, <2>3, <2>5, <2>6 DEF d
    <3>2. at' # "loop" /\ Waits(st')
      BY <2>1, <2>5 DEF Waits
    <3>3. at' = "idle" => in' = <<>>
      BY <2>1
    <3> QED
      BY <3>1, <3>2, <3>3 DEF Taking
  <2> QED
    BY <2>1, <2>2, <2>7 DEF SInv
<1> QED
  BY <1>1, <1>2 DEF S!Blake2sInit

\* A call of blake2s_update keeps it.
LEMMA UpdateStep ==
  ASSUME SInv, api = "s", api' = api, NEW p \in Pieces2s, S!Update(p)
  PROVE  SInv'
<1>1. p \in Seq(Byte)
  BY DEF Pieces2s
<1>2. /\ at = "idle" /\ st # Garbage /\ ~st.f[1]
      /\ at' = IF p = <<>> THEN at ELSE "update"
      /\ in' = p /\ msg' = msg \o p
      /\ st' = st /\ key' = key
  BY DEF S!Update, S!Idle, S!Started, S!Finished
<1>3. Taking
  BY <1>2, FlagTells DEF SInv, Fresh
<1>4. key \in Seq(Byte) /\ Len(key) <= KeyBytes /\ msg \in Seq(Byte)
  BY DEF SInv
<1>5. msg' \in Seq(Byte)
  BY <1>1, <1>2, <1>4, ConcatProperties
<1>6. StParam' = StParam
  BY <1>2 DEF StParam
<1>7. Fed(st, StParam, Data(key, msg), <<>>) /\ Waits(st)
  BY <1>2, <1>3 DEF Taking
<1>8. Fed(st, StParam, Data(key, msg) \o p, p)
  BY <1>1, <1>7, FedMore
<1>9. Data(key', msg') = Data(key, msg) \o p
  BY <1>1, <1>2, <1>4, DataMore
<1>10. Taking'
  <2>1. Fed(st', StParam', Data(key', msg'), in')
    BY <1>2, <1>6, <1>8, <1>9
  <2>2. at' # "loop" /\ Waits(st') /\ (at' = "idle" => in' = <<>>)
    BY <1>2, <1>7
  <2> QED
    BY <2>1, <2>2 DEF Taking
<1> QED
  BY <1>2, <1>4, <1>5, <1>10 DEF SInv

\* blake2s_final, when it makes a digest, makes that of key and message.
LEMMA FinalMakes ==
  ASSUME SInv, api = "s", NEW n \in Lens2s, S!Final(n), ~S!NoDigest(n)
  PROVE  Done'
<1>1. at = "idle" /\ st # Garbage /\ UNCHANGED <<at, in, key, msg>>
  BY DEF S!Final, S!Idle, S!Started
<1>2. key \in Seq(Byte) /\ Len(key) <= KeyBytes /\ msg \in Seq(Byte)
  BY DEF SInv
<1>3. st' = Finale(st) /\ out' = S!Bytes(st'.h, n)
  BY DEF S!Final, S!LastBlock, Finale
<1>4. ~st.f[1]
  BY DEF S!NoDigest
<1>5. Taking
  BY <1>1, <1>4, FlagTells DEF SInv, Fresh
<1>6. Fed(st, StParam, Data(key, msg), <<>>) /\ Waits(st)
  BY <1>1, <1>5 DEF Taking
<1>7. Len(key) <= BlockBytes
  BY <1>2, Blake2NodeAssumption
<1>8. /\ st'.f = <<TRUE, FALSE>> /\ st'.outlen = st.outlen
      /\ st'.h = S!Chain(StParam, key, msg, FALSE)
  <2>1. /\ Finale(st).f = LastFlag /\ Finale(st).outlen = st.outlen
        /\ Finale(st).h = NodeChain(StParam, key, msg)
    BY <1>2, <1>6, <1>7, FedFinal
  <2> QED
    BY <1>3, <2>1 DEF NodeChain, LastFlag
<1>9. StParam' = StParam
  BY <1>1, <1>8 DEF StParam
<1>10. Len(out') = n
  BY <1>3, Blake2Assumption DEF S!Bytes
<1>11. n \in Nat /\ ~(n < st.outlen)
  BY Blake2Assumption DEF S!NoDigest
<1>12. Ended'
  BY <1>1, <1>3, <1>6, <1>8, <1>9 DEF Ended
<1> QED
  BY <1>1, <1>3, <1>8, <1>9, <1>10, <1>11, <1>12 DEF Done

\* blake2s_final keeps the invariant.
LEMMA FinalStep ==
  ASSUME SInv, api = "s", api' = api, NEW n \in Lens2s, S!Final(n)
  PROVE  SInv'
<1>1. UNCHANGED <<at, in, key, msg>>
  BY DEF S!Final
<1>2. CASE S!NoDigest(n)
  <2>1. st' = st /\ out' = out
    BY <1>2 DEF S!Final
  <2> QED
    BY <1>1, <2>1 DEF SInv, Fresh, Taking, Done, Ended, StParam
<1>3. CASE ~S!NoDigest(n)
  BY <1>1, <1>3, FinalMakes DEF SInv
<1> QED
  BY <1>2, <1>3

\* A step of the loop in blake2s_update keeps it.
LEMMA LoopStep ==
  ASSUME SInv, api = "s", api' = api, S!Step
  PROVE  SInv'
<1> DEFINE d == Data(key, msg)
<1>1. at # "idle" /\ UNCHANGED <<key, msg>>
  BY DEF S!Step, S!UpdateFill, S!UpdateBlock, S!UpdateCopy
<1>2. key \in Seq(Byte) /\ Len(key) <= KeyBytes /\ msg \in Seq(Byte)
  BY DEF SInv
<1>3. Taking
  BY <1>1 DEF SInv, Fresh, Done
<1>4. Fed(st, StParam, d, in)
  BY <1>3 DEF Taking
<1>5. st.buflen \in 0..BlockBytes /\ BlockBytes \in Nat \ {0} /\ in \in Seq(Byte) /\ Len(in) \in Nat
  BY <1>4, NodeFacts DEF Fed
<1>6. SUFFICES Taking' /\ st'.outlen = st.outlen
  BY <1>1, <1>2 DEF SInv
<1>7. ASSUME st'.outlen = st.outlen PROVE StParam' = StParam /\ Data(key', msg') = d
  BY <1>1, <1>7 DEF StParam
<1> HIDE DEF d
<1>8. CASE S!UpdateFill
  <2>1. /\ at = "update" /\ Len(in) > BlockBytes - st.buflen
        /\ st' = Filled(st, in)
        /\ in' = S!DropFirst(in, BlockBytes - st.buflen) /\ at' = "loop"
    BY <1>8 DEF S!UpdateFill, S!Overfills, S!Fill, Filled
  <2>2. Fed(st', StParam, d, in') /\ st'.buflen = 0 /\ in' # <<>> /\ st'.outlen = st.outlen
    BY <1>4, <2>1, FedFill
  <2> QED
    BY <1>7, <2>1, <2>2 DEF Taking
<1>9. CASE S!UpdateBlock
  <2>1. /\ at = "loop" /\ Len(in) > BlockBytes
        /\ st' = BlockTaken(st, in)
        /\ in' = S!DropFirst(in, BlockBytes) /\ at' = at
    BY <1>9 DEF S!UpdateBlock, S!Overfills, BlockTaken
  <2>2. st.buflen = 0
    BY <1>3, <2>1 DEF Taking
  <2>3. Fed(st', StParam, d, in') /\ st'.buflen = 0 /\ in' # <<>> /\ st'.outlen = st.outlen
    BY <1>4, <2>1, <2>2, FedBlock
  <2> QED
    BY <1>7, <2>1, <2>3 DEF Taking
<1>10. CASE S!UpdateCopy
  <2>1. /\ \/ at = "update" /\ ~(Len(in) > BlockBytes - st.buflen)
           \/ at = "loop" /\ ~(Len(in) > BlockBytes)
        /\ st' = Copied(st, in)
        /\ in' = <<>> /\ at' = "idle"
    BY <1>10 DEF S!UpdateCopy, S!Overfills, S!Fill, Copied
  <2>2. at = "loop" => st.buflen = 0 /\ in # <<>>
    BY <1>3 DEF Taking
  <2>3. at = "update" => Waits(st)
    BY <1>3 DEF Taking
  <2>4. st.buflen + Len(in) <= BlockBytes
    BY <1>5, <2>1, <2>2
  <2>5. /\ Fed(st', StParam, d, <<>>) /\ st'.buflen = st.buflen + Len(in)
        /\ Blocks(st') = Blocks(st) /\ st'.outlen = st.outlen
    BY <1>4, <2>1, <2>4, FedCopy
  <2>6. Waits(st')
    BY <1>5, <2>1, <2>2, <2>3, <2>5, EmptySeq DEF Waits
  <2> QED
    BY <1>7, <2>1, <2>5, <2>6 DEF Taking
<1> QED
  BY <1>8, <1>9, <1>10 DEF S!Step

\* Every step of the caller keeps it.
LEMMA StepS == SInv /\ [Next]_vars => SInv'
<1> SUFFICES ASSUME SInv, [Next]_vars PROVE SInv'
  OBVIOUS
<1>1. CASE UNCHANGED vars
  BY <1>1 DEF vars, SInv, Fresh, Taking, Done, Ended, StParam
<1>2. CASE SInit
  BY <1>2, InitStep DEF SInit, In
<1>3. CASE SUpdate
  BY <1>3, UpdateStep DEF SUpdate, In
<1>4. CASE SFinal
  BY <1>4, FinalStep DEF SFinal, In
<1>5. CASE SStep
  BY <1>5, LoopStep DEF SStep, In
<1>6. CASE SpInit \/ SpUpdate \/ SpFinal \/ SpOne \/ SpStep
  BY <1>6 DEF SpInit, SpUpdate, SpFinal, SpOne, SpStep, In, SInv
<1>7. CASE BpInit \/ BpUpdate \/ BpFinal \/ BpOne \/ BpStep
  BY <1>7 DEF BpInit, BpUpdate, BpFinal, BpOne, BpStep, In, SInv
<1>8. CASE XsInit \/ XsUpdate \/ XsFinal \/ XsOne \/ XsStep
  BY <1>8 DEF XsInit, XsUpdate, XsFinal, XsOne, XsStep, In, SInv
<1>9. CASE XbInit \/ XbUpdate \/ XbFinal \/ XbOne \/ XbStep
  BY <1>9 DEF XbInit, XbUpdate, XbFinal, XbOne, XbStep, In, SInv
<1> QED
  BY <1>1, <1>2, <1>3, <1>4, <1>5, <1>6, <1>7, <1>8, <1>9 DEF Next, Step

\* blake2s: after blake2s_final, for blocks, keys, digests and messages of any
\* length and however the message was cut, the digest is that of key and message.
THEOREM Streaming == Spec => []Streamed
<1>1. SInv => Streamed
  <2> SUFFICES ASSUME SInv, api = "s", st # Garbage, st.f[1]
               PROVE  out = S!Bytes(S!Chain(StParam, key, msg, FALSE), Len(out))
    BY DEF Streamed, S!Streamed, S!Finished, S!Started, StParam
  <2>1. ~Taking
    BY FlagTells
  <2>2. Done
    BY <2>1 DEF SInv, Fresh
  <2> QED
    BY <2>2 DEF Done
<1> QED
  BY <1>1, InitS, StepS, PTL DEF Spec

(***************************************************************************)
(* A node has one input.                                                   *)
(***************************************************************************)
\* Two counts less than a wrap apart are told apart by the low word.
LEMMA NearMod ==
  ASSUME NEW x \in Nat, NEW y \in Nat, x <= y, y - x < WordMod, x % WordMod = y % WordMod
  PROVE  x = y
<1> DEFINE q == x \div WordMod
           r == x % WordMod
           g == y - x
<1>1. q \in Nat /\ r \in 0..(WordMod - 1) /\ x = WordMod * q + r
  BY DivMod
<1>2. g \in 0..(WordMod - 1) /\ y = x + g
  BY Blake2NodeAssumption
<1>3. r = y % WordMod
  OBVIOUS
<1> HIDE DEF q, r, g
<1>4. CASE r + g < WordMod
  <2>1. y = WordMod * q + (r + g) /\ r + g \in 0..(WordMod - 1)
    BY <1>1, <1>2, <1>4, Blake2NodeAssumption
  <2>2. r = r + g
    BY <1>1, <1>3, <2>1, DivModUnique
  <2> QED
    BY <1>1, <1>2, <2>2, Blake2NodeAssumption
<1>5. CASE r + g >= WordMod
  <2>1. y = WordMod * (q + 1) + (r + g - WordMod) /\ r + g - WordMod \in 0..(WordMod - 1)
    BY <1>1, <1>2, <1>5, Blake2NodeAssumption
  <2>2. r = r + g - WordMod
    BY <1>1, <1>3, <2>1, DivModUnique
  <2> QED
    BY <1>1, <1>2, <2>2, Blake2NodeAssumption
<1> QED
  BY <1>1, <1>2, <1>4, <1>5, Blake2NodeAssumption

\* Quotient and remainder of a number of bytes in blocks.
LEMMA BlockDivMod ==
  ASSUME NEW x \in Nat
  PROVE  /\ x \div BlockBytes \in Nat
         /\ x % BlockBytes \in 0..(BlockBytes - 1)
         /\ x = BlockBytes * (x \div BlockBytes) + (x % BlockBytes)
BY Blake2NodeAssumption

\* Every input has a last block.
LEMMA SplitExists == ASSUME NEW d \in Seq(Byte) PROVE \E n, u : Splits(d, n, u)
<1>1. BlockBytes \in Nat \ {0} /\ Len(d) \in Nat
  BY Blake2NodeAssumption
<1>2. CASE Len(d) = 0
  <2>1. Splits(d, 0, 0)
    BY <1>1, <1>2 DEF Splits
  <2> QED
    BY <2>1
<1>3. CASE Len(d) # 0
  <2> DEFINE x == Len(d) - 1
             n == x \div BlockBytes
             u == (x % BlockBytes) + 1
  <2>1. x \in Nat
    BY <1>1, <1>3
  <2> HIDE DEF x
  <2>2. n \in Nat /\ u \in 1..BlockBytes /\ x = BlockBytes * n + (u - 1)
    BY <1>1, <2>1
  <2> HIDE DEF n, u
  <2>3. Len(d) = n * BlockBytes + u
    BY <1>1, <2>2 DEF x
  <2>4. Splits(d, n, u)
    BY <1>1, <2>2, <2>3 DEF Splits
  <2> QED
    BY <2>4
<1> QED
  BY <1>2, <1>3

\* The counter at the end of the last block tells the length of the input.
LEMMA SplitLengths ==
  ASSUME NEW d \in Seq(Byte), NEW e \in Seq(Byte), NEW n, NEW u, NEW v,
         Splits(d, n, u), Splits(e, n, v), Words(Len(d)) = Words(Len(e))
  PROVE  Len(d) = Len(e)
<1>1. /\ n * BlockBytes \in Nat /\ u \in 0..BlockBytes /\ v \in 0..BlockBytes
      /\ Len(d) = n * BlockBytes + u /\ Len(e) = n * BlockBytes + v
      /\ BlockBytes \in Nat /\ WordMod \in Nat /\ BlockBytes < WordMod
      /\ Len(d) \in Nat /\ Len(e) \in Nat
  BY Blake2NodeAssumption DEF Splits
<1>2. Len(d) % WordMod = Len(e) % WordMod
  BY DEF Words
<1>3. CASE Len(d) <= Len(e)
  BY <1>1, <1>2, <1>3, NearMod
<1>4. CASE Len(e) <= Len(d)
  BY <1>1, <1>2, <1>4, NearMod
<1> QED
  BY <1>1, <1>3, <1>4

\* What was compressed tells the parameters, and key and message together.
LEMMA ChainTells ==
  ASSUME NEW P, NEW k \in Seq(Byte), NEW m \in Seq(Byte), Len(k) <= BlockBytes,
         NEW Q, NEW j \in Seq(Byte), NEW w \in Seq(Byte), Len(j) <= BlockBytes,
         NodeChain(P, k, m) = NodeChain(Q, j, w)
  PROVE  P = Q /\ Data(k, m) = Data(j, w)
<1> DEFINE d == Data(k, m)
           e == Data(j, w)
<1>1. d \in Seq(Byte) /\ e \in Seq(Byte)
  BY PadElements, ConcatProperties DEF Data
<1>2. PICK n, u : Splits(d, n, u)
  BY <1>1, SplitExists
<1>3. PICK p, v : Splits(e, p, v)
  BY <1>1, SplitExists
<1> DEFINE f == Form(d, n)
           g == Form(e, p)
<1>4. NodeChain(P, k, m) = [param |-> P, in |-> f]
  BY <1>2, ChainForm
<1>5. NodeChain(Q, j, w) = [param |-> Q, in |-> g]
  BY <1>3, ChainForm
<1> HIDE DEF d, e
<1>6. P = Q /\ f = g
  <2> HIDE DEF f, g
  <2>1. [param |-> P, in |-> f] = [param |-> Q, in |-> g]
    BY <1>4, <1>5
  <2>2. /\ [param |-> P, in |-> f].param = P /\ [param |-> Q, in |-> g].param = Q
        /\ [param |-> P, in |-> f].in = f /\ [param |-> Q, in |-> g].in = g
    OBVIOUS
  <2> QED
    BY <2>1, <2>2
<1>7. n \in Nat /\ p \in Nat /\ BlockBytes \in Nat \ {0} /\ n * BlockBytes \in Nat
        /\ Len(d) \in Nat
  BY <1>1, <1>2, <1>3, Blake2NodeAssumption DEF Splits
<1>8. n = p
  <2>1. DOMAIN f = 1..(n + 1) /\ DOMAIN g = 1..(p + 1)
    BY DEF Form
  <2>2. 1..(n + 1) = 1..(p + 1)
    BY <1>6, <2>1
  <2> QED
    BY <1>7, <2>2
<1>9. \A i \in 1..n : Entry(d, i) = Entry(e, i)
  <2>1. \A i \in 1..n : f[i] = Entry(d, i) /\ g[i] = Entry(e, i)
    BY <1>7, <1>8 DEF Form
  <2> QED
    BY <1>6, <2>1
<1>10. LastEntry(d, n) = LastEntry(e, n)
  <2>1. f[n + 1] = LastEntry(d, n) /\ g[n + 1] = LastEntry(e, n)
    BY <1>7, <1>8 DEF Form
  <2> QED
    BY <1>6, <2>1
<1> HIDE DEF f, g
<1>11. \A i \in 1..n : Cut(d, (i - 1) * BlockBytes) = Cut(e, (i - 1) * BlockBytes)
  BY <1>9 DEF Entry
<1> DEFINE a == n * BlockBytes
           x == SubSeq(d, a + 1, Len(d))
           y == SubSeq(e, a + 1, Len(e))
<1>12. S!Pad(x) = S!Pad(y) /\ Words(Len(d)) = Words(Len(e))
  BY <1>10 DEF LastEntry
<1>13. Len(d) = Len(e)
  BY <1>1, <1>2, <1>3, <1>8, <1>12, SplitLengths
<1>14. \A i \in 1..Len(d) : d[i] = e[i]
  <2> SUFFICES ASSUME NEW i \in 1..Len(d) PROVE d[i] = e[i]
    OBVIOUS
  <2>1. CASE i <= a
    <3> DEFINE h == i - 1
               b == h \div BlockBytes
               r == h % BlockBytes
    <3>1. h \in Nat
      BY <1>7
    <3> HIDE DEF h
    <3>2. b \in Nat /\ r \in 0..(BlockBytes - 1) /\ h = BlockBytes * b + r
      BY <3>1, BlockDivMod
    <3>3. b \in Nat /\ r \in 0..(BlockBytes - 1) /\ i - 1 = BlockBytes * b + r
      BY <3>2 DEF h
    <3> HIDE DEF b, r
    <3>4. b < n
      <4>1. BlockBytes * b <= i - 1 /\ i - 1 < n * BlockBytes
        BY <1>7, <2>1, <3>3
      <4>2. ASSUME b >= n PROVE FALSE
        <5> DEFINE c == b - n
        <5>1. c \in Nat /\ b = n + c
          BY <1>7, <3>3, <4>2
        <5> HIDE DEF c
        <5>2. BlockBytes * b = n * BlockBytes + BlockBytes * c /\ BlockBytes * c \in Nat
          BY <1>7, <5>1
        <5> QED
          BY <1>7, <3>3, <4>1, <5>2
      <4> QED
        BY <1>7, <3>3, <4>2
    <3>5. b + 1 \in 1..n /\ ((b + 1) - 1) * BlockBytes = b * BlockBytes
      BY <1>7, <3>3, <3>4
    <3>6. Cut(d, b * BlockBytes) = Cut(e, b * BlockBytes)
      BY <1>11, <3>5
    <3>7. r + 1 \in 1..BlockBytes /\ b * BlockBytes + (r + 1) = i
      BY <1>7, <3>3
    <3>8. Cut(d, b * BlockBytes)[r + 1] = d[i] /\ Cut(e, b * BlockBytes)[r + 1] = e[i]
      BY <3>7 DEF Cut
    <3> QED
      BY <3>6, <3>8
  <2>2. CASE i > a
    <3>1. /\ x \in Seq(Byte) /\ Len(x) = Len(d) - a /\ Len(x) <= BlockBytes
          /\ \A h \in 1..(Len(d) - a) : x[h] = d[a + h]
      <4>1. a + 1 \in Nat /\ a \in Nat /\ Len(d) >= a /\ Len(d) - a <= BlockBytes
        BY <1>2, <1>7 DEF Splits
      <4>2. \A h \in (a + 1)..Len(d) : d[h] \in Byte
        BY <1>1, <4>1, ElementOfSeq
      <4> HIDE DEF a
      <4> QED
        BY <1>7, <4>1, <4>2, SubSeqProperties
    <3>2. /\ y \in Seq(Byte) /\ Len(y) = Len(e) - a /\ Len(y) <= BlockBytes
          /\ \A h \in 1..(Len(e) - a) : y[h] = e[a + h]
      <4>1. a + 1 \in Nat /\ a \in Nat /\ Len(e) >= a /\ Len(e) - a <= BlockBytes /\ Len(e) \in Nat
        <5>1. a \in Nat /\ Len(d) >= a /\ Len(d) - a <= BlockBytes /\ Len(d) \in Nat
          BY <1>2, <1>7 DEF Splits
        <5> HIDE DEF a
        <5> QED
          BY <1>13, <5>1
      <4>2. \A h \in (a + 1)..Len(e) : e[h] \in Byte
        BY <1>1, <4>1, ElementOfSeq
      <4> HIDE DEF a
      <4> QED
        BY <1>7, <4>1, <4>2, SubSeqProperties
    <3>3. i - a \in 1..(Len(d) - a) /\ a + (i - a) = i /\ i - a \in 1..BlockBytes
      <4>1. Len(d) - a <= BlockBytes
        BY <1>2, <1>7 DEF Splits
      <4> QED
        BY <1>7, <2>2, <4>1
    <3> HIDE DEF x, y, a
    <3>4. S!Pad(x)[i - a] = x[i - a] /\ S!Pad(y)[i - a] = y[i - a]
      <4>1. S!Pad(x) = [h \in 1..BlockBytes |-> IF h <= Len(x) THEN x[h] ELSE Zero]
        BY <3>1, PadElements
      <4>2. S!Pad(y) = [h \in 1..BlockBytes |-> IF h <= Len(y) THEN y[h] ELSE Zero]
        BY <3>2, PadElements
      <4>3. i - a <= Len(x) /\ i - a <= Len(y)
        BY <1>13, <3>1, <3>2, <3>3
      <4> QED
        BY <3>3, <4>1, <4>2, <4>3
    <3>5. x[i - a] = d[i] /\ y[i - a] = e[i]
      BY <1>13, <3>1, <3>2, <3>3
    <3> QED
      BY <1>12, <3>4, <3>5 DEF x, y, a
  <2> QED
    BY <1>7, <2>1, <2>2
<1>15. d = e
  BY <1>1, <1>13, <1>14, SeqEqual
<1> QED
  BY <1>6, <1>15 DEF d, e

\* The parts of a concatenation.
LEMMA ConcatParts ==
  ASSUME NEW s \in Seq(Byte), NEW t \in Seq(Byte)
  PROVE  /\ Len(s \o t) = Len(s) + Len(t)
         /\ \A i \in 1..Len(s) : (s \o t)[i] = s[i]
         /\ \A i \in 1..Len(t) : (s \o t)[Len(s) + i] = t[i]
BY ConcatProperties

\* The length of the key tells them apart.
LEMMA DataTells ==
  ASSUME NEW k \in Seq(Byte), NEW m \in Seq(Byte), Len(k) <= BlockBytes,
         NEW j \in Seq(Byte), NEW w \in Seq(Byte), Len(j) = Len(k),
         Data(k, m) = Data(j, w)
  PROVE  k = j /\ m = w
<1>1. CASE k = <<>>
  BY <1>1, EmptySeq DEF Data
<1>2. CASE k # <<>>
  <2> DEFINE a == S!Pad(k)
             b == S!Pad(j)
  <2>1. j # <<>>
    BY <1>2, EmptySeq
  <2>2. a \o m = b \o w
    BY <1>2, <2>1 DEF Data
  <2>3. /\ a \in Seq(Byte) /\ Len(a) = BlockBytes
        /\ a = [h \in 1..BlockBytes |-> IF h <= Len(k) THEN k[h] ELSE Zero]
    BY PadElements
  <2>4. /\ b \in Seq(Byte) /\ Len(b) = BlockBytes
        /\ b = [h \in 1..BlockBytes |-> IF h <= Len(j) THEN j[h] ELSE Zero]
    BY PadElements
  <2>5. BlockBytes \in Nat /\ Len(k) \in Nat /\ Len(m) \in Nat /\ Len(w) \in Nat
    BY Blake2NodeAssumption
  <2> HIDE DEF a, b
  <2>6. /\ Len(a \o m) = BlockBytes + Len(m)
        /\ \A i \in 1..BlockBytes : (a \o m)[i] = a[i]
        /\ \A i \in 1..Len(m) : (a \o m)[BlockBytes + i] = m[i]
    BY <2>3, ConcatParts
  <2>7. /\ Len(b \o w) = BlockBytes + Len(w)
        /\ \A i \in 1..BlockBytes : (b \o w)[i] = b[i]
        /\ \A i \in 1..Len(w) : (b \o w)[BlockBytes + i] = w[i]
    BY <2>4, ConcatParts
  <2> DEFINE z == a \o m
  <2>8. b \o w = z
    BY <2>2
  <2> HIDE DEF z
  <2>9. Len(m) = Len(w) /\ \A i \in 1..Len(m) : m[i] = w[i]
    <3>1. Len(z) = BlockBytes + Len(m) /\ \A i \in 1..Len(m) : z[BlockBytes + i] = m[i]
      BY <2>6 DEF z
    <3>2. Len(z) = BlockBytes + Len(w) /\ \A i \in 1..Len(w) : z[BlockBytes + i] = w[i]
      BY <2>7, <2>8
    <3>3. Len(m) = Len(w)
      BY <2>5, <3>1, <3>2
    <3> QED
      BY <3>1, <3>2, <3>3
  <2>10. \A i \in 1..BlockBytes : a[i] = b[i]
    BY <2>6, <2>7, <2>8 DEF z
  <2>11. \A i \in 1..Len(k) : k[i] = j[i]
    <3> SUFFICES ASSUME NEW i \in 1..Len(k) PROVE k[i] = j[i]
      OBVIOUS
    <3>1. i \in 1..BlockBytes /\ i <= Len(k) /\ i <= Len(j)
      BY <2>5
    <3> QED
      BY <2>3, <2>4, <2>10, <3>1
  <2> QED
    BY <2>9, <2>11, SeqEqual
<1> QED
  BY <1>1, <1>2

\* blake2s: two messages, keys or lengths with one digest are a collision of the
\* compression function: what is compressed tells how many bytes there are, and
\* whether the first of them are a key.
THEOREM Separation == Spec => []Distinct
<1>1. SInv => Distinct
  <2> SUFFICES ASSUME SInv, api = "s", st # Garbage, st.f[1],
                      NEW n \in Lens2s, NEW k \in Keys2s, NEW m \in Messages2s,
                      st.h = NodeChain(S!SequentialParam(n, k), k, m)
               PROVE  n = st.outlen /\ k = key /\ m = msg
    BY DEF Distinct, S!Distinct, S!Finished, S!Started, NodeChain
  <2> DEFINE P == S!SequentialParam(n, k)
  <2>1. ~Taking
    BY FlagTells
  <2>2. st.h = NodeChain(StParam, key, msg)
    BY <2>1 DEF SInv, Fresh, Done, NodeChain
  <2>3. key \in Seq(Byte) /\ Len(key) <= KeyBytes /\ msg \in Seq(Byte)
    BY DEF SInv
  <2>4. k \in Seq(Byte) /\ m \in Seq(Byte)
    BY Blake2Assumption DEF Messages2s
  <2>5. StParam = P
    <3>1. NodeChain(StParam, key, msg).param = StParam
      BY DEF NodeChain, S!Chain
    <3>2. NodeChain(P, k, m).param = P
      BY DEF NodeChain, S!Chain
    <3> QED
      BY <2>2, <3>1, <3>2
  <2>6. n = st.outlen /\ Len(k) = Len(key)
    BY <2>5 DEF StParam, S!SequentialParam
  <2>7. Len(key) <= BlockBytes /\ Len(k) <= BlockBytes
    BY <2>3, <2>6, Blake2NodeAssumption
  <2> HIDE DEF P
  <2>8. NodeChain(P, k, m) = NodeChain(StParam, key, msg)
    BY <2>2 DEF P
  <2>9. Data(k, m) = Data(key, msg)
    BY <2>3, <2>4, <2>7, <2>8, ChainTells
  <2> QED
    BY <2>3, <2>4, <2>6, <2>7, <2>9, DataTells
<1> QED
  BY <1>1, InitS, StepS, PTL DEF Spec

(***************************************************************************)
(* The loops are the calls of Blake2Node, about which Blake2NodeProofs has *)
(* the lemmas.                                                             *)
(***************************************************************************)
Calls == INSTANCE Blake2NodeProofs

\* The operations of Blake2Node are those the lemmas are about.
LEMMA CallsSame ==
  /\ \A P : S!InitParam(P) = Calls!InitParam(P)
  /\ \A s : S!Pad(s) = Calls!Pad(s)
  /\ \A T, s : S!NodeUpdate(T, s) = Calls!NodeUpdate(T, s)
  /\ \A T, k : S!Keyed(T, k) = Calls!Keyed(T, k)
  /\ \A h, n : S!Bytes(h, n) = Calls!Bytes(h, n)
  /\ \A T, n : S!NodeFinal(T, n) = Calls!NodeFinal(T, n)
<1>1. \A P : S!InitParam(P) = Calls!InitParam(P)
  BY DEF S!InitParam, Calls!InitParam, S!Zeros, Calls!Zeros
<1>2. \A s : S!Pad(s) = Calls!Pad(s)
  BY DEF S!Pad, Calls!Pad, S!Zeros, Calls!Zeros
<1>3. \A T, s : S!NodeUpdate(T, s) = Calls!NodeUpdate(T, s)
  BY DEF
      S!NodeUpdate, Calls!NodeUpdate, S!DropFirst, Calls!DropFirst, S!Overlay, Calls!Overlay,
      S!Counted, Calls!Counted
<1>4. \A T, k : S!Keyed(T, k) = Calls!Keyed(T, k)
  BY <1>2, <1>3 DEF S!Keyed, Calls!Keyed
<1>5. \A h, n : S!Bytes(h, n) = Calls!Bytes(h, n)
  BY DEF S!Bytes, Calls!Bytes
<1>6. \A T, n : S!NodeFinal(T, n) = Calls!NodeFinal(T, n)
  BY DEF
      S!NodeFinal, Calls!NodeFinal, S!LastFlags, Calls!LastFlags, S!Bytes, Calls!Bytes, S!Pad,
      Calls!Pad, S!Zeros, Calls!Zeros, S!Counted, Calls!Counted
<1> QED
  BY <1>1, <1>2, <1>3, <1>4, <1>5, <1>6

\* A state by its parts, and its input, are the same in both.
LEMMA PartsSame ==
  /\ \A P, i, t, f, b, u, o, l : Rec(P, i, t, f, b, u, o, l) = Calls!Rec(P, i, t, f, b, u, o, l)
  /\ \A x : Words(x) = Calls!Words(x)
  /\ \A k, m : Data(k, m) = Calls!Data(k, m)
<1>1. \A k, m : Data(k, m) = Calls!Data(k, m)
  BY CallsSame DEF Data, Calls!Data
<1> QED
  BY <1>1 DEF Rec, Calls!Rec, Words, Calls!Words

\* The i-th block is the same in both.
LEMMA EntrySame ==
  ASSUME NEW d, NEW i \in Nat \ {0}
  PROVE  Entry(d, i) = Calls!Entry(d, i)
<1> DEFINE a == (i - 1) * BlockBytes
           c == i * BlockBytes
<1>1. a \in Nat /\ c \in Nat /\ c - a = BlockBytes
  <2>1. BlockBytes \in Nat /\ i - 1 \in Nat /\ c = (i - 1) * BlockBytes + BlockBytes
    BY Blake2NodeAssumption
  <2> QED
    BY <2>1
<1> HIDE DEF a, c
<1>2. Cut(d, a) = Calls!Cut(d, a, c)
  BY <1>1 DEF Cut, Calls!Cut
<1>3. Words(c) = Calls!Words(c)
  BY PartsSame
<1> QED
  BY <1>2, <1>3, Zenon DEF Entry, Calls!Entry, Calls!NoFlag, a, c

\* A state that has taken its input holds what the whole calls leave in it.
LEMMA TakenFed ==
  ASSUME NEW P, NEW T, NEW d, Fed(T, P, d, <<>>), Waits(T)
  PROVE  Calls!Fed(T, P, d, Byte) /\ T.last_node = FALSE
<1> DEFINE n == Blocks(T)
           u == T.buflen
           i == T.h.in
<1>1. Splits(d, n, u) /\ d \in Seq(Byte) /\ T.f = <<FALSE, FALSE>> /\ T.t = Words(n * BlockBytes)
  BY FedSplits DEF Fed
<1>2. /\ T = Rec(P, i, T.t, T.f, T.buf, u, T.outlen, T.last_node)
      /\ T.buf \in [1..BlockBytes -> Byte] /\ T.last_node = FALSE
  BY NodeFacts, Zenon DEF Fed, Block, LastNode
<1>3. n \in Nat /\ i \in Seq(Item) /\ Len(i) = n /\ n * BlockBytes \in Nat
  BY NodeFacts DEF Fed, Blocks
<1>4. \A j \in 1..n : i[j] = Entry(d, j)
  BY DEF Fed
<1>5. \A j \in 1..u : T.buf[j] = d[n * BlockBytes + j]
  BY DEF Fed
<1> HIDE DEF n, u, i
<1>6. Calls!Full(d) = n
  <2>1. CASE u = 0
    <3>1. n = 0 /\ Len(d) = 0
      <4>1. n = 0
        BY <1>1, <2>1 DEF Splits
      <4>2. n * BlockBytes = 0 /\ Len(d) = n * BlockBytes + u
        BY <1>1, <4>1, Blake2NodeAssumption DEF Splits
      <4> QED
        BY <2>1, <4>1, <4>2
    <3>2. d = <<>>
      BY <1>1, <3>1, EmptySeq
    <3> QED
      BY <1>1, <3>1, <3>2, Calls!FullFacts, Blake2NodeAssumption
  <2>2. CASE u # 0
    <3>1. u \in 1..BlockBytes /\ Len(d) = n * BlockBytes + u
      BY <1>1, <2>2 DEF Splits
    <3> QED
      BY <1>1, <1>3, <3>1, Calls!FullUnique, Blake2NodeAssumption
  <2> QED
    BY <2>1, <2>2
<1>7. Calls!Base(d) = n * BlockBytes
  BY <1>6 DEF Calls!Base
<1>8. Calls!Held(d) = u
  BY <1>1, <1>3, <1>7 DEF Calls!Held, Splits
<1>9. i = Calls!Form(d, Calls!Full(d))
  <2>1. i = [j \in 1..n |-> i[j]]
    BY <1>3, LenProperties
  <2>2. \A j \in 1..n : i[j] = Calls!Entry(d, j)
    BY <1>3, <1>4, EntrySame
  <2>3. [j \in 1..n |-> i[j]] = [j \in 1..n |-> Calls!Entry(d, j)]
    BY <2>2
  <2> QED
    BY <1>6, <2>1, <2>3, Zenon DEF Calls!Form
<1>10. T = Calls!Rec(P, Calls!Form(d, Calls!Full(d)), Calls!Words(Calls!Base(d)), Calls!NoFlag,
                     T.buf, Calls!Held(d), T.outlen, T.last_node)
  <2>1. T.t = Calls!Words(Calls!Base(d))
    BY <1>1, <1>7, PartsSame
  <2>2. T.f = Calls!NoFlag
    BY <1>1 DEF Calls!NoFlag
  <2>3. T = Calls!Rec(P, i, T.t, T.f, T.buf, u, T.outlen, T.last_node)
    BY <1>2, PartsSame
  <2> QED
    BY <1>8, <1>9, <2>1, <2>2, <2>3, Zenon
<1>11. \A j \in 1..Calls!Held(d) : T.buf[j] = d[Calls!Base(d) + j]
  BY <1>5, <1>7, <1>8
<1> QED
  BY <1>1, <1>2, <1>10, <1>11, Zenon DEF Calls!Fed

\* Two states that were given the same differ only beyond what is in the buffer.
LEMMA LiveSame ==
  ASSUME NEW P, NEW d, NEW T, NEW U, Calls!Fed(T, P, d, Byte), Calls!Fed(U, P, d, Byte),
         T.outlen = U.outlen, T.last_node = U.last_node
  PROVE  /\ SubSeq(T.buf, 1, T.buflen) = SubSeq(U.buf, 1, U.buflen)
         /\ S!Live(T) = S!Live(U)
         /\ T.t = U.t /\ T.f = U.f /\ T.h = U.h /\ T.buflen = U.buflen
<1> DEFINE f == Calls!Form(d, Calls!Full(d))
           w == Calls!Words(Calls!Base(d))
           u == Calls!Held(d)
           o == T.outlen
           l == T.last_node
           b == T.buf
           c == U.buf
           z == Calls!NoFlag
<1>1. T = Calls!Rec(P, f, w, z, b, u, o, l)
  BY Zenon DEF Calls!Fed
<1>2. U = Calls!Rec(P, f, w, z, c, u, o, l)
  BY Zenon DEF Calls!Fed
<1>3. b \in [1..BlockBytes -> Byte] /\ c \in [1..BlockBytes -> Byte] /\ d \in Seq(Byte)
  BY DEF Calls!Fed
<1>4. u \in 0..BlockBytes /\ BlockBytes \in Nat
  BY <1>3, Calls!FullFacts, Blake2NodeAssumption
<1>5. (\A j \in 1..u : b[j] = d[Calls!Base(d) + j]) /\ (\A j \in 1..u : c[j] = d[Calls!Base(d) + j])
  BY DEF Calls!Fed
<1> HIDE DEF f, w, u, o, l, b, c, z
<1> DEFINE x == SubSeq(b, 1, u)
           y == SubSeq(c, 1, u)
<1>6. x = y
  <2>1. \A j \in 1..u : b[j] \in Byte /\ c[j] \in Byte
    BY <1>3, <1>4
  <2>2. x \in Seq(Byte) /\ Len(x) = u /\ \A j \in 1..u : x[j] = b[j]
    BY <1>4, <2>1, SubSeqProperties
  <2>3. y \in Seq(Byte) /\ Len(y) = u /\ \A j \in 1..u : y[j] = c[j]
    BY <1>4, <2>1, SubSeqProperties
  <2> HIDE DEF x, y
  <2>4. \A j \in 1..u : x[j] = y[j]
    BY <1>5, <2>2, <2>3
  <2> QED
    BY <2>2, <2>3, <2>4, SeqEqual
<1>7. T.t = w /\ T.f = z /\ T.h = [param |-> P, in |-> f] /\ T.buflen = u /\ T.buf = b
  BY <1>1 DEF Calls!Rec
<1>8. U.t = w /\ U.f = z /\ U.h = [param |-> P, in |-> f] /\ U.buflen = u /\ U.buf = c
  BY <1>2 DEF Calls!Rec
<1> HIDE DEF x, y
<1>9. S!Live(T) = Calls!Rec(P, f, w, z, x, u, o, l)
  <2>1. S!Live(T) = [T EXCEPT !.buf = x]
    BY <1>7, Zenon DEF S!Live, x
  <2>2. [Calls!Rec(P, f, w, z, b, u, o, l) EXCEPT !.buf = x] = Calls!Rec(P, f, w, z, x, u, o, l)
    BY DEF Calls!Rec
  <2> QED
    BY <1>1, <2>1, <2>2, Zenon
<1>10. S!Live(U) = Calls!Rec(P, f, w, z, y, u, o, l)
  <2>1. S!Live(U) = [U EXCEPT !.buf = y]
    BY <1>8, Zenon DEF S!Live, y
  <2>2. [Calls!Rec(P, f, w, z, c, u, o, l) EXCEPT !.buf = y] = Calls!Rec(P, f, w, z, y, u, o, l)
    BY DEF Calls!Rec
  <2> QED
    BY <1>2, <2>1, <2>2, Zenon
<1> QED
  BY <1>6, <1>7, <1>8, <1>9, <1>10, Zenon DEF x, y

\* A node as it is before blake2s_final, in two or three calls.
Before(P, k, m) == Calls!NodeUpdate(Calls!Keyed(Calls!InitParam(P), k), m)

\* It was given the key and the message.
LEMMA BeforeFed ==
  ASSUME NEW P, NEW k \in Seq(Byte), Len(k) <= BlockBytes, NEW m \in Seq(Byte)
  PROVE  /\ Calls!Fed(Before(P, k, m), P, Data(k, m), Byte)
         /\ Before(P, k, m).outlen = P.digest_length /\ Before(P, k, m).last_node = FALSE
<1> DEFINE T == Calls!InitParam(P)
           U == Calls!Keyed(T, k)
           c == Calls!KeyData(k)
           d == Calls!Data(k, m)
<1>1. Zero \in Byte
  BY Blake2Assumption
<1>2. Calls!Fed(T, P, <<>>, Byte) /\ T.outlen = P.digest_length /\ T.last_node = FALSE
  BY <1>1, Calls!NewFed, Blake2NodeAssumption
<1> HIDE DEF T
<1>3. Calls!Fed(U, P, c, Byte) /\ U.outlen = T.outlen /\ U.last_node = T.last_node
  BY <1>1, <1>2, Calls!KeyedFed, Blake2NodeAssumption
<1>4. Calls!Joins(d, c, m)
  BY <1>1, Calls!DataJoins, Blake2NodeAssumption
<1> HIDE DEF U, c, d
<1>5. /\ Calls!Fed(Calls!NodeUpdate(U, m), P, d, Byte)
      /\ Calls!NodeUpdate(U, m).outlen = U.outlen /\ Calls!NodeUpdate(U, m).last_node = U.last_node
  BY <1>3, <1>4, Calls!UpdateFed, Blake2NodeAssumption
<1>6. d = Data(k, m)
  BY PartsSame DEF d
<1>7. Before(P, k, m) = Calls!NodeUpdate(U, m)
  BY DEF Before, U, T
<1> QED
  BY <1>2, <1>3, <1>5, <1>6, <1>7

\* The end of a node depends on what is in its buffer, and nothing beyond it.
LEMMA EndsSame ==
  ASSUME NEW P, NEW d, NEW T, NEW U, Calls!Fed(T, P, d, Byte), Calls!Fed(U, P, d, Byte),
         T.outlen = U.outlen, T.last_node = U.last_node, NEW n, ~(n < T.outlen)
  PROVE  /\ Calls!NodeFinal(T, n).st = Calls!NodeFinal(U, n).st
         /\ Calls!NodeFinal(T, n).out = Calls!NodeFinal(U, n).out
<1> DEFINE f == Calls!Form(d, Calls!Full(d))
           w == Calls!Words(Calls!Base(d))
           u == Calls!Held(d)
           o == T.outlen
           l == T.last_node
           b == T.buf
           c == U.buf
           z == Calls!NoFlag
<1>1. T = Calls!Rec(P, f, w, z, b, u, o, l)
  BY Zenon DEF Calls!Fed
<1>2. U = Calls!Rec(P, f, w, z, c, u, o, l)
  BY Zenon DEF Calls!Fed
<1>3. ~T.f[1] /\ ~U.f[1]
  <2>1. T.f = z /\ U.f = z
    BY <1>1, <1>2 DEF Calls!Rec
  <2> QED
    BY <2>1 DEF Calls!NoFlag
<1>4. /\ SubSeq(T.buf, 1, T.buflen) = SubSeq(U.buf, 1, U.buflen)
      /\ T.t = U.t /\ T.f = U.f /\ T.h = U.h /\ T.buflen = U.buflen
  BY LiveSame, ZenonT(60)
<1>5. Calls!LastBuf(T) = Calls!LastBuf(U) /\ Calls!LastFlags(T) = Calls!LastFlags(U)
  BY <1>4, Zenon DEF Calls!LastBuf, Calls!LastFlags
<1>6. Calls!Counted(T.t, T.buflen) = Calls!Counted(U.t, U.buflen)
  BY <1>4, Zenon
<1>7. Calls!LastItem(T) = Calls!LastItem(U)
  BY <1>5, <1>6, Zenon DEF Calls!LastItem
<1>8. Calls!LastChain(T) = Calls!LastChain(U)
  BY <1>4, <1>7, Zenon DEF Calls!LastChain
<1> HIDE DEF f, w, u, o, l, b, c, z
<1>9. ASSUME NEW t, NEW g, NEW y, NEW h PROVE Calls!Closed(T, t, g, y, h) = Calls!Closed(U, t, g, y, h)
  <2>1. [Calls!Rec(P, f, w, z, b, u, o, l) EXCEPT !.t = t] = Calls!Rec(P, f, t, z, b, u, o, l)
    BY DEF Calls!Rec
  <2>2. [Calls!Rec(P, f, w, z, c, u, o, l) EXCEPT !.t = t] = Calls!Rec(P, f, t, z, c, u, o, l)
    BY DEF Calls!Rec
  <2>3. [Calls!Rec(P, f, t, z, b, u, o, l) EXCEPT !.f = g] = Calls!Rec(P, f, t, g, b, u, o, l)
    BY DEF Calls!Rec
  <2>4. [Calls!Rec(P, f, t, z, c, u, o, l) EXCEPT !.f = g] = Calls!Rec(P, f, t, g, c, u, o, l)
    BY DEF Calls!Rec
  <2>5. [Calls!Rec(P, f, t, g, b, u, o, l) EXCEPT !.buf = y] = Calls!Rec(P, f, t, g, y, u, o, l)
    BY DEF Calls!Rec
  <2>6. [Calls!Rec(P, f, t, g, c, u, o, l) EXCEPT !.buf = y] = Calls!Rec(P, f, t, g, y, u, o, l)
    BY DEF Calls!Rec
  <2>7. Calls!Closed(Calls!Rec(P, f, w, z, b, u, o, l), t, g, y, h)
          = [Calls!Rec(P, f, t, g, y, u, o, l) EXCEPT !.h = h]
    BY <2>1, <2>3, <2>5, Zenon DEF Calls!Closed
  <2>8. Calls!Closed(Calls!Rec(P, f, w, z, c, u, o, l), t, g, y, h)
          = [Calls!Rec(P, f, t, g, y, u, o, l) EXCEPT !.h = h]
    BY <2>2, <2>4, <2>6, Zenon DEF Calls!Closed
  <2> QED
    BY <1>1, <1>2, <2>7, <2>8, Zenon
<1>10. ~(n < T.outlen \/ T.f[1]) /\ ~(n < U.outlen \/ U.f[1])
  BY <1>3
<1>11. /\ Calls!NodeFinal(T, n).out = Calls!Bytes(Calls!LastChain(T), T.outlen)
       /\ Calls!NodeFinal(T, n).st
            = Calls!Closed(T, Calls!Counted(T.t, T.buflen), Calls!LastFlags(T), Calls!LastBuf(T),
                           Calls!LastChain(T))
  BY <1>10, Calls!FinalParts, Blake2NodeAssumption
<1>12. /\ Calls!NodeFinal(U, n).out = Calls!Bytes(Calls!LastChain(U), U.outlen)
       /\ Calls!NodeFinal(U, n).st
            = Calls!Closed(U, Calls!Counted(U.t, U.buflen), Calls!LastFlags(U), Calls!LastBuf(U),
                           Calls!LastChain(U))
  BY <1>10, Calls!FinalParts, Blake2NodeAssumption
<1> DEFINE x == Calls!Counted(T.t, T.buflen)
           g == Calls!LastFlags(T)
           y == Calls!LastBuf(T)
           h == Calls!LastChain(T)
<1>13. Calls!NodeFinal(T, n).st = Calls!Closed(T, x, g, y, h)
  BY <1>11
<1>14. Calls!NodeFinal(U, n).st = Calls!Closed(U, x, g, y, h)
  BY <1>5, <1>6, <1>8, <1>12, Zenon
<1>15. Calls!NodeFinal(U, n).out = Calls!NodeFinal(T, n).out
  BY <1>8, <1>11, <1>12, Zenon
<1> HIDE DEF x, g, y, h
<1> QED
  BY <1>9, <1>13, <1>14, <1>15, Zenon

\* blake2s_final is the final of Blake2Node.
LEMMA FinaleCalled ==
  ASSUME NEW P, NEW T, NEW d, Fed(T, P, d, <<>>), Waits(T), NEW n, ~(n < T.outlen)
  PROVE  /\ Calls!NodeFinal(T, n).st = Finale(T)
         /\ Calls!NodeFinal(T, n).out = Calls!Bytes(Finale(T).h, T.outlen)
<1> DEFINE i == T.h.in
           t == T.t
           f == T.f
           b == T.buf
           u == T.buflen
           o == T.outlen
           l == T.last_node
           e == LastEntry(d, Blocks(T))
           y == LastOf(T)
           c == Words(Len(d))
           h == [param |-> P, in |-> Append(i, e)]
<1>1. T = Rec(P, i, t, f, b, u, o, l)
  BY NodeFacts, Zenon DEF Fed
<1>2. f = <<FALSE, FALSE>> /\ d \in Seq(Byte)
  BY DEF Fed
<1>3. /\ Finale(T) = Rec(P, Append(i, e), c, LastFlag, y, u, o, l)
      /\ l = FALSE /\ e = [m |-> y, t |-> c, f |-> LastFlag]
  BY FinaleIs
<1>4. T.h = [param |-> P, in |-> i]
  BY NodeFacts DEF Fed, Node
<1>5. Calls!LastBuf(T) = y
  BY CallsSame DEF Calls!LastBuf, LastOf
<1>6. Calls!LastFlags(T) = LastFlag
  <2>1. T.f[2] = FALSE /\ T.last_node = FALSE
    BY <1>2, <1>3
  <2>2. (T.f[2] \/ T.last_node) = FALSE
    BY <2>1
  <2> QED
    BY <2>2, Zenon DEF Calls!LastFlags, LastFlag
<1>7. Calls!Counted(t, u) = c
  <2>1. t = Words(Blocks(T) * BlockBytes) /\ Splits(d, Blocks(T), u)
    BY FedSplits DEF Fed
  <2>2. /\ Blocks(T) \in Nat /\ u \in 0..BlockBytes /\ BlockBytes \in Nat
        /\ Len(d) = Blocks(T) * BlockBytes + u
    BY <2>1, Blake2NodeAssumption DEF Splits
  <2>3. Blocks(T) * BlockBytes \in Nat /\ u \in Nat
    BY <2>2
  <2>4. Calls!Counted(Calls!Words(Blocks(T) * BlockBytes), u) = Calls!Words(Blocks(T) * BlockBytes + u)
    BY <2>3, Calls!CountedWords, Blake2NodeAssumption
  <2> QED
    BY <2>1, <2>2, <2>4, PartsSame, Zenon
<1>8. ~(n < T.outlen \/ T.f[1])
  BY <1>2
<1>9. /\ Calls!NodeFinal(T, n).out = Calls!Bytes(Calls!LastChain(T), T.outlen)
      /\ Calls!NodeFinal(T, n).st
           = Calls!Closed(T, Calls!Counted(t, u), Calls!LastFlags(T), Calls!LastBuf(T), Calls!LastChain(T))
  BY <1>8, Calls!FinalParts, Blake2NodeAssumption
<1> HIDE DEF i, t, f, b, u, o, l, e, y, c
<1>10. Calls!LastChain(T) = h
  <2>1. Calls!LastItem(T) = [m |-> y, t |-> c, f |-> LastFlag]
    BY <1>5, <1>6, <1>7, Zenon DEF Calls!LastItem, t, u
  <2>2. Calls!LastItem(T) = e
    BY <1>3, <2>1
  <2>3. Calls!LastChain(T) = [[param |-> P, in |-> i] EXCEPT !.in = Append(i, e)]
    BY <1>4, <2>2, Zenon DEF Calls!LastChain, i
  <2> QED
    BY <2>3
<1> HIDE DEF h
<1>11. Calls!Closed(T, c, LastFlag, y, h) = Rec(P, Append(i, e), c, LastFlag, y, u, o, l)
  <2>1. [Rec(P, i, t, f, b, u, o, l) EXCEPT !.t = c] = Rec(P, i, c, f, b, u, o, l)
    BY DEF Rec
  <2>2. [Rec(P, i, c, f, b, u, o, l) EXCEPT !.f = LastFlag] = Rec(P, i, c, LastFlag, b, u, o, l)
    BY DEF Rec
  <2>3. [Rec(P, i, c, LastFlag, b, u, o, l) EXCEPT !.buf = y] = Rec(P, i, c, LastFlag, y, u, o, l)
    BY DEF Rec
  <2>4. [Rec(P, i, c, LastFlag, y, u, o, l) EXCEPT !.h = h] = Rec(P, Append(i, e), c, LastFlag, y, u, o, l)
    <3> DEFINE q == Append(i, e)
    <3> HIDE DEF q
    <3>1. [Rec(P, i, c, LastFlag, y, u, o, l) EXCEPT !.h = [param |-> P, in |-> q]]
            = Rec(P, q, c, LastFlag, y, u, o, l)
      BY DEF Rec
    <3> QED
      BY <3>1, Zenon DEF h, q
  <2> QED
    BY <1>1, <2>1, <2>2, <2>3, <2>4, Zenon DEF Calls!Closed
<1>12. Finale(T).h = h
  BY <1>3 DEF Rec, h
<1> QED
  BY <1>3, <1>5, <1>6, <1>7, <1>9, <1>10, <1>11, <1>12, Zenon

\* The loops and the counter words of a blake2s context are the whole calls.
LEMMA Agreed == SInv => CallsAgree
<1> DEFINE P == StParam
           B == Before(P, key, msg)
           d == Data(key, msg)
<1> SUFFICES ASSUME SInv, api = "s", at = "idle", st # Garbage
             PROVE  IF st.f[1]
                      THEN LET f == S!NodeFinal(B, Len(out))
                           IN  S!Live(st) = S!Live(f.st) /\ SubSeq(out, 1, st.outlen) = f.out
                      ELSE S!Live(st) = S!Live(B)
  BY CallsSame DEF CallsAgree, S!CallsAgree, S!Idle, S!Started, S!Finished, Before, StParam
<1>1. key \in Seq(Byte) /\ Len(key) <= BlockBytes /\ msg \in Seq(Byte) /\ (Taking \/ Done)
  BY Blake2NodeAssumption DEF SInv, Fresh
<1>2. P.digest_length = st.outlen
  BY DEF StParam, S!SequentialParam
<1>3. Calls!Fed(B, P, d, Byte) /\ B.outlen = st.outlen /\ B.last_node = FALSE
  BY <1>1, <1>2, BeforeFed
<1> HIDE DEF P, B, d
<1>4. CASE Taking
  <2>1. ~st.f[1]
    BY <1>4, FlagTells
  <2>2. Fed(st, P, d, <<>>) /\ Waits(st)
    BY <1>4 DEF Taking, P, d
  <2>3. Calls!Fed(st, P, d, Byte) /\ st.last_node = FALSE
    BY <2>2, TakenFed
  <2>4. S!Live(st) = S!Live(B)
    BY <1>3, <2>3, LiveSame
  <2> QED
    BY <2>1, <2>4
<1>5. CASE Done
  <2> DEFINE n == Len(out)
  <2>1. /\ st.f[1] /\ n \in Nat /\ ~(n < st.outlen) /\ out = S!Bytes(st.h, n)
    BY <1>5, FlagTells DEF Done
  <2>2. PICK T : Fed(T, P, d, <<>>) /\ Waits(T) /\ T.outlen = st.outlen /\ st = Finale(T)
    BY <1>5 DEF Done, Ended, P, d
  <2> HIDE DEF n
  <2>3. Calls!Fed(T, P, d, Byte) /\ T.last_node = FALSE
    BY <2>2, TakenFed
  <2>4. /\ Calls!NodeFinal(T, n).st = st
        /\ Calls!NodeFinal(T, n).out = Calls!Bytes(st.h, st.outlen)
    BY <2>1, <2>2, FinaleCalled
  <2>5. /\ Calls!NodeFinal(T, n).st = Calls!NodeFinal(B, n).st
        /\ Calls!NodeFinal(T, n).out = Calls!NodeFinal(B, n).out
    <3>1. T.outlen = B.outlen /\ T.last_node = B.last_node /\ ~(n < T.outlen)
      BY <1>3, <2>1, <2>2, <2>3
    <3> QED
      BY <1>3, <2>3, <3>1, EndsSame
  <2>6. S!NodeFinal(B, n).st = st /\ S!NodeFinal(B, n).out = Calls!Bytes(st.h, st.outlen)
    BY <2>4, <2>5, CallsSame
  <2>7. SubSeq(out, 1, st.outlen) = Calls!Bytes(st.h, st.outlen)
    <3> DEFINE h == st.h
               o == st.outlen
    <3>1. o \in Nat /\ o <= n
      <4>1. T.outlen \in Nat
        BY <2>2, NodeFacts DEF Fed
      <4> QED
        BY <2>1, <2>2, <4>1
    <3>2. out = [j \in 1..n |-> [h |-> h, i |-> j]]
      BY <2>1 DEF S!Bytes
    <3> HIDE DEF h, o
    <3> DEFINE s == [j \in 1..n |-> [h |-> h, i |-> j]]
    <3>3. SubSeq(s, 1, o) = [j \in 1..o |-> [h |-> h, i |-> j]]
      BY <2>1, <3>1
    <3> QED
      BY <3>2, <3>3, Zenon DEF Calls!Bytes, h, o
  <2> QED
    BY <2>1, <2>6, <2>7 DEF n
<1> QED
  BY <1>1, <1>4, <1>5

\* blake2s: for blocks, keys, pieces and messages of any length, its loops, its
\* buffer and the words of its counter do what the whole calls do.
THEOREM LoopsAreCalls == Spec => []CallsAgree
BY Agreed, InitS, StepS, PTL DEF Spec

(***************************************************************************)
(* All kinds of context: the trees BLAKE2sp and BLAKE2bp and the outputs   *)
(* of any length BLAKE2Xs and BLAKE2Xb, each from what is proved of its    *)
(* kind of context for any digest and block size.                          *)
(***************************************************************************)
Ks == INSTANCE Blake2KindProofs WITH
        Degree <- SpDegree, XofMax <- XsMax, StreamKeys <- KeyBytes2b
Kb == INSTANCE Blake2KindProofs WITH
        BlockBytes <- BlockBytes2b, KeyBytes <- KeyBytes2b, OutBytes <- OutBytes2b,
        WordMod <- WordMod2b, Degree <- BpDegree, XofMax <- XbMax, StreamKeys <- KeyBytes2b

\* All the bytes there are in messages and keys.
Places == {[place |-> j] : j \in Nat}
Any == Byte \union Places

\* What Blake2NodeAssumption says of the constants of BLAKE2b.
Sizes2b ==
  /\ BlockBytes2b \in Nat \ {0} /\ KeyBytes2b \in 0..BlockBytes2b /\ OutBytes2b \in Nat \ {0}
  /\ WordMod2b \in Nat /\ WordMod2b > BlockBytes2b

\* The sizes are as the lemmas about a kind of context assume.
LEMMA SizesHold ==
  Sizes2b /\ Ks!XofOK /\ Kb!XofOK /\ Ks!TreeOK /\ Kb!TreeOK /\ Zero \in Any
BY Blake2Assumption, Blake2NodeAssumption DEF
    Sizes2b, Ks!XofOK, Kb!XofOK, Ks!TreeOK, Kb!TreeOK, Any

\* Keys and messages are of such bytes.
LEMMA KeysKnown == ASSUME NEW k \in Keys PROVE k \in Seq(Any)
BY Blake2Assumption DEF Any

\* Messages are of such bytes.
LEMMA PlacesKnown == ASSUME NEW n \in Nat PROVE Place(n) \in Seq(Any) /\ Len(Place(n)) = n
<1>1. \A j \in 1..n : [place |-> j] \in Any
  <2>1. \A j \in Nat : [place |-> j] \in Places
    BY DEF Places
  <2>2. \A j \in 1..n : j \in Nat
    OBVIOUS
  <2> QED
    BY <2>1, <2>2, Zenon DEF Any
<1>2. Place(n) \in [1..n -> Any]
  BY <1>1 DEF Place
<1> QED
  BY <1>2 DEF Place

\* The lengths that are asked for are numbers.
LEMMA LensKnown ==
  ASSUME api \in Apis, api # "s"
  PROVE  /\ Lens[api] \subseteq 0..(SizeMod - 1) /\ Lens[api] \subseteq Nat
         /\ MaxMsg[api] \in Nat
<1>1. Lens[api] \subseteq 0..(SizeMod - 1) /\ MaxMsg[api] \in Nat /\ SizeMod \in Nat
  BY Blake2Assumption
<1> QED
  BY <1>1

\* And so are their pieces.
LEMMA PiecesKnown ==
  ASSUME api \in Apis, api # "s", msg \in Seq(Any)
  PROVE  (\A p \in Pieces : p \in Seq(Any)) /\ (\A m \in Messages : m \in Seq(Any))
<1>1. Len(msg) \in Nat /\ MaxMsg[api] \in Nat
  BY LenProperties, LensKnown
<1>2. ASSUME NEW n \in Len(msg)..MaxMsg[api] PROVE DropFirst(Place(n), Len(msg)) \in Seq(Any)
  <2>1. n \in Nat /\ Len(msg) \in 0..n
    BY <1>1
  <2>2. Place(n) \in Seq(Any) /\ Len(Place(n)) = n
    BY <2>1, PlacesKnown
  <2> DEFINE s == Place(n)
             a == Len(msg)
  <2>3. s \in Seq(Any) /\ a \in 0..Len(s)
    BY <2>1, <2>2
  <2> HIDE DEF s, a
  <2>4. SubSeq(s, a + 1, Len(s)) \in Seq(Any)
    BY <2>3, LenProperties, ElementOfSeq, SubSeqProperties
  <2> QED
    BY <2>4 DEF DropFirst, s, a
<1>3. ASSUME NEW n \in 0..MaxMsg[api] PROVE Place(n) \in Seq(Any)
  BY <1>1, PlacesKnown
<1> QED
  BY <1>2, <1>3 DEF Pieces, Messages

\* Whatever was given to the context before.
LEMMA MessagesKnown ==
  ASSUME api \in Apis, api # "s"
  PROVE  Messages \subseteq Seq(Any)
<1>1. MaxMsg[api] \in Nat
  BY LensKnown
<1>2. ASSUME NEW n \in 0..MaxMsg[api] PROVE Place(n) \in Seq(Any)
  BY <1>1, PlacesKnown
<1> QED
  BY <1>2 DEF Messages

(***************************************************************************)
(* The operations of Blake2 are those the lemmas are about.                *)
(***************************************************************************)
\* The nodes of blake2s, as blake2xs uses it.
LEMMA XsNodes ==
  /\ \A n, k : Xs!SequentialParam(n, k) = Ks!SequentialParam(n, k)
  /\ \A P : Xs!InitParam(P) = Ks!InitParam(P)
  /\ \A s : Xs!Pad(s) = Ks!Pad(s)
  /\ \A s, n : Xs!DropFirst(s, n) = Ks!DropFirst(s, n)
  /\ \A T, s : Xs!NodeUpdate(T, s) = Ks!NodeUpdate(T, s)
  /\ \A T, k : Xs!Keyed(T, k) = Ks!Keyed(T, k)
  /\ \A h, n : Xs!Bytes(h, n) = Ks!Bytes(h, n)
  /\ \A T, n : Xs!NodeFinal(T, n) = Ks!NodeFinal(T, n)
  /\ \A P, k, m, l : Xs!Chain(P, k, m, l) = Ks!Chain(P, k, m, l)
<1>1. \A n, k : Xs!SequentialParam(n, k) = Ks!SequentialParam(n, k)
  BY DEF Xs!SequentialParam, Ks!SequentialParam
<1>2. \A P : Xs!InitParam(P) = Ks!InitParam(P)
  BY DEF Xs!InitParam, Ks!InitParam, Xs!Zeros, Ks!Zeros
<1>3. \A s : Xs!Pad(s) = Ks!Pad(s)
  BY DEF Xs!Pad, Ks!Pad, Xs!Zeros, Ks!Zeros
<1>4. \A s, n : Xs!DropFirst(s, n) = Ks!DropFirst(s, n)
  BY DEF Xs!DropFirst, Ks!DropFirst
<1>5. \A T, s : Xs!NodeUpdate(T, s) = Ks!NodeUpdate(T, s)
  BY DEF
      Xs!NodeUpdate, Ks!NodeUpdate, Xs!DropFirst, Ks!DropFirst, Xs!Overlay, Ks!Overlay,
      Xs!Counted, Ks!Counted
<1>6. \A T, k : Xs!Keyed(T, k) = Ks!Keyed(T, k)
  BY <1>3, <1>5 DEF Xs!Keyed, Ks!Keyed
<1>7. \A h, n : Xs!Bytes(h, n) = Ks!Bytes(h, n)
  BY DEF Xs!Bytes, Ks!Bytes
<1>8. \A T, n : Xs!NodeFinal(T, n) = Ks!NodeFinal(T, n)
  BY DEF
      Xs!NodeFinal, Ks!NodeFinal, Xs!LastFlags, Ks!LastFlags, Xs!Bytes, Ks!Bytes, Xs!Pad,
      Ks!Pad, Xs!Zeros, Ks!Zeros, Xs!Counted, Ks!Counted
<1>9. \A P, k, m, l : Xs!Chain(P, k, m, l) = Ks!Chain(P, k, m, l)
  BY DEF Xs!Chain, Ks!Chain, Xs!Pad, Ks!Pad, Xs!Zeros, Ks!Zeros, Xs!Min, Ks!Min
<1> QED
  BY <1>1, <1>2, <1>3, <1>4, <1>5, <1>6, <1>7, <1>8, <1>9

\* Its contexts.
LEMMA XsParts ==
  /\ \A n, k : Xs!XofParam(n, k) = Ks!XofParam(n, k)
  /\ \A P, i, z : Xs!BlockParam(P, i, z) = Ks!BlockParam(P, i, z)
  /\ \A n, k : Xs!NewState(n, k) = Ks!NewState(n, k)
<1>1. \A n, k : Xs!XofParam(n, k) = Ks!XofParam(n, k)
  BY XsNodes DEF Xs!XofParam, Ks!XofParam
<1>2. \A P, i, z : Xs!BlockParam(P, i, z) = Ks!BlockParam(P, i, z)
  BY DEF Xs!BlockParam, Ks!BlockParam
<1>3. \A n, k : Xs!NewState(n, k) = Ks!NewState(n, k)
  BY XsNodes, <1>1 DEF Xs!NewState, Ks!NewState
<1> QED
  BY <1>1, <1>2, <1>3

\* What their output is.
LEMMA XsHash == \A a, n, k, m : Xs!XofHash(a, n, k, m) = Ks!XofHash(a, n, k, m)
<1> SUFFICES ASSUME NEW a, NEW n, NEW k, NEW m PROVE Xs!XofHash(a, n, k, m) = Ks!XofHash(a, n, k, m)
  OBVIOUS
<1> DEFINE P == Ks!XofParam(a, k)
           z == OutBytes
           r == Ks!Bytes(Ks!Chain(P, k, m, FALSE), z)
           Size(i) == Xs!Min({z, n - (i - 1) * z})
           B(i) == Ks!Bytes(Ks!Chain(Ks!BlockParam(P, i - 1, Size(i)), <<>>, r, FALSE), Size(i))
           H == [j \in 1..n |-> B(((j - 1) \div z) + 1)[((j - 1) % z) + 1]]
<1>1. Ks!XofHash(a, n, k, m) = H
  BY DEF Ks!XofHash, Xs!Min, Ks!Min
<1> DEFINE Q == Xs!XofParam(a, k)
           s == Xs!Bytes(Xs!Chain(Q, k, m, FALSE), z)
           C(i) == Xs!Bytes(Xs!Chain(Xs!BlockParam(Q, i - 1, Size(i)), <<>>, s, FALSE), Size(i))
           G == [j \in 1..n |-> C(((j - 1) \div z) + 1)[((j - 1) % z) + 1]]
<1>2. Xs!XofHash(a, n, k, m) = G
  BY DEF Xs!XofHash
<1>3. P = Q
  BY XsParts
<1>4. r = s
  BY <1>3, XsNodes
<1> HIDE DEF P, Q, r, s
<1>5. \A i : B(i) = C(i)
  BY <1>3, <1>4, XsNodes, XsParts
<1> HIDE DEF B, C
<1>6. G = H
  BY <1>5
<1> QED
  BY <1>1, <1>2, <1>6

\* Its operations.
LEMMA XsSame ==
  /\ \A n, k : Xs!XofInit(n, k) <=> Ks!XofInit(n, k)
  /\ \A p : Xs!XofUpdate(p) <=> Ks!XofUpdate(p)
  /\ \A T, n, local : Xs!Begin(T, n, local) <=> Ks!Begin(T, n, local)
  /\ \A n : Xs!XofFinal(n) <=> Ks!XofFinal(n)
  /\ \A n, m, k : Xs!XofOne(n, m, k) <=> Ks!XofOne(n, m, k)
  /\ Xs!FinalBlock <=> Ks!FinalBlock
  /\ Xs!FinalReturn <=> Ks!FinalReturn
<1>1. \A n, k : Xs!XofInit(n, k) <=> Ks!XofInit(n, k)
  BY XsParts DEF Xs!XofInit, Ks!XofInit, Xs!Idle, Ks!Idle, Xs!XofRefused, Ks!XofRefused
<1>2. \A p : Xs!XofUpdate(p) <=> Ks!XofUpdate(p)
  BY XsNodes DEF
      Xs!XofUpdate, Ks!XofUpdate, Xs!Idle, Ks!Idle, Xs!Started, Ks!Started, Xs!Finished, Ks!Finished
<1>3. \A T, n, local : Xs!Begin(T, n, local) <=> Ks!Begin(T, n, local)
  BY XsNodes DEF Xs!Begin, Ks!Begin, Xs!Matches, Ks!Matches
<1>4. \A n : Xs!XofFinal(n) <=> Ks!XofFinal(n)
  BY <1>3 DEF Xs!XofFinal, Ks!XofFinal, Xs!Idle, Ks!Idle, Xs!Started, Ks!Started
<1>5. \A n, m, k : Xs!XofOne(n, m, k) <=> Ks!XofOne(n, m, k)
  BY <1>3, XsNodes, XsParts, ZenonT(60) DEF
      Xs!XofOne, Ks!XofOne, Xs!Idle, Ks!Idle, Xs!Started, Ks!Started, Xs!OneRefused, Ks!OneRefused,
      Xs!XofRefused, Ks!XofRefused
<1>6. Xs!FinalBlock <=> Ks!FinalBlock
  BY XsNodes, XsParts DEF
      Xs!FinalBlock, Ks!FinalBlock, Xs!BlockSize, Ks!BlockSize, Xs!Overlay, Ks!Overlay
<1>7. Xs!FinalReturn <=> Ks!FinalReturn
  BY DEF Xs!FinalReturn, Ks!FinalReturn
<1> QED
  BY <1>1, <1>2, <1>3, <1>4, <1>5, <1>6, <1>7

\* The nodes of blake2b, as blake2xb uses it.
LEMMA XbNodes ==
  /\ \A n, k : Xb!SequentialParam(n, k) = Kb!SequentialParam(n, k)
  /\ \A P : Xb!InitParam(P) = Kb!InitParam(P)
  /\ \A s : Xb!Pad(s) = Kb!Pad(s)
  /\ \A s, n : Xb!DropFirst(s, n) = Kb!DropFirst(s, n)
  /\ \A T, s : Xb!NodeUpdate(T, s) = Kb!NodeUpdate(T, s)
  /\ \A T, k : Xb!Keyed(T, k) = Kb!Keyed(T, k)
  /\ \A h, n : Xb!Bytes(h, n) = Kb!Bytes(h, n)
  /\ \A T, n : Xb!NodeFinal(T, n) = Kb!NodeFinal(T, n)
  /\ \A P, k, m, l : Xb!Chain(P, k, m, l) = Kb!Chain(P, k, m, l)
<1>1. \A n, k : Xb!SequentialParam(n, k) = Kb!SequentialParam(n, k)
  BY DEF Xb!SequentialParam, Kb!SequentialParam
<1>2. \A P : Xb!InitParam(P) = Kb!InitParam(P)
  BY DEF Xb!InitParam, Kb!InitParam, Xb!Zeros, Kb!Zeros
<1>3. \A s : Xb!Pad(s) = Kb!Pad(s)
  BY DEF Xb!Pad, Kb!Pad, Xb!Zeros, Kb!Zeros
<1>4. \A s, n : Xb!DropFirst(s, n) = Kb!DropFirst(s, n)
  BY DEF Xb!DropFirst, Kb!DropFirst
<1>5. \A T, s : Xb!NodeUpdate(T, s) = Kb!NodeUpdate(T, s)
  BY DEF
      Xb!NodeUpdate, Kb!NodeUpdate, Xb!DropFirst, Kb!DropFirst, Xb!Overlay, Kb!Overlay,
      Xb!Counted, Kb!Counted
<1>6. \A T, k : Xb!Keyed(T, k) = Kb!Keyed(T, k)
  BY <1>3, <1>5 DEF Xb!Keyed, Kb!Keyed
<1>7. \A h, n : Xb!Bytes(h, n) = Kb!Bytes(h, n)
  BY DEF Xb!Bytes, Kb!Bytes
<1>8. \A T, n : Xb!NodeFinal(T, n) = Kb!NodeFinal(T, n)
  BY DEF
      Xb!NodeFinal, Kb!NodeFinal, Xb!LastFlags, Kb!LastFlags, Xb!Bytes, Kb!Bytes, Xb!Pad,
      Kb!Pad, Xb!Zeros, Kb!Zeros, Xb!Counted, Kb!Counted
<1>9. \A P, k, m, l : Xb!Chain(P, k, m, l) = Kb!Chain(P, k, m, l)
  BY DEF Xb!Chain, Kb!Chain, Xb!Pad, Kb!Pad, Xb!Zeros, Kb!Zeros, Xb!Min, Kb!Min
<1> QED
  BY <1>1, <1>2, <1>3, <1>4, <1>5, <1>6, <1>7, <1>8, <1>9

\* Its contexts.
LEMMA XbParts ==
  /\ \A n, k : Xb!XofParam(n, k) = Kb!XofParam(n, k)
  /\ \A P, i, z : Xb!BlockParam(P, i, z) = Kb!BlockParam(P, i, z)
  /\ \A n, k : Xb!NewState(n, k) = Kb!NewState(n, k)
<1>1. \A n, k : Xb!XofParam(n, k) = Kb!XofParam(n, k)
  BY XbNodes DEF Xb!XofParam, Kb!XofParam
<1>2. \A P, i, z : Xb!BlockParam(P, i, z) = Kb!BlockParam(P, i, z)
  BY DEF Xb!BlockParam, Kb!BlockParam
<1>3. \A n, k : Xb!NewState(n, k) = Kb!NewState(n, k)
  BY XbNodes, <1>1 DEF Xb!NewState, Kb!NewState
<1> QED
  BY <1>1, <1>2, <1>3

\* What their output is.
LEMMA XbHash == \A a, n, k, m : Xb!XofHash(a, n, k, m) = Kb!XofHash(a, n, k, m)
<1> SUFFICES ASSUME NEW a, NEW n, NEW k, NEW m PROVE Xb!XofHash(a, n, k, m) = Kb!XofHash(a, n, k, m)
  OBVIOUS
<1> DEFINE P == Kb!XofParam(a, k)
           z == OutBytes2b
           r == Kb!Bytes(Kb!Chain(P, k, m, FALSE), z)
           Size(i) == Xb!Min({z, n - (i - 1) * z})
           B(i) == Kb!Bytes(Kb!Chain(Kb!BlockParam(P, i - 1, Size(i)), <<>>, r, FALSE), Size(i))
           H == [j \in 1..n |-> B(((j - 1) \div z) + 1)[((j - 1) % z) + 1]]
<1>1. Kb!XofHash(a, n, k, m) = H
  BY DEF Kb!XofHash, Xb!Min, Kb!Min
<1> DEFINE Q == Xb!XofParam(a, k)
           s == Xb!Bytes(Xb!Chain(Q, k, m, FALSE), z)
           C(i) == Xb!Bytes(Xb!Chain(Xb!BlockParam(Q, i - 1, Size(i)), <<>>, s, FALSE), Size(i))
           G == [j \in 1..n |-> C(((j - 1) \div z) + 1)[((j - 1) % z) + 1]]
<1>2. Xb!XofHash(a, n, k, m) = G
  BY DEF Xb!XofHash
<1>3. P = Q
  BY XbParts
<1>4. r = s
  BY <1>3, XbNodes
<1> HIDE DEF P, Q, r, s
<1>5. \A i : B(i) = C(i)
  BY <1>3, <1>4, XbNodes, XbParts
<1> HIDE DEF B, C
<1>6. G = H
  BY <1>5
<1> QED
  BY <1>1, <1>2, <1>6

\* Its operations.
LEMMA XbSame ==
  /\ \A n, k : Xb!XofInit(n, k) <=> Kb!XofInit(n, k)
  /\ \A p : Xb!XofUpdate(p) <=> Kb!XofUpdate(p)
  /\ \A T, n, local : Xb!Begin(T, n, local) <=> Kb!Begin(T, n, local)
  /\ \A n : Xb!XofFinal(n) <=> Kb!XofFinal(n)
  /\ \A n, m, k : Xb!XofOne(n, m, k) <=> Kb!XofOne(n, m, k)
  /\ Xb!FinalBlock <=> Kb!FinalBlock
  /\ Xb!FinalReturn <=> Kb!FinalReturn
<1>1. \A n, k : Xb!XofInit(n, k) <=> Kb!XofInit(n, k)
  BY XbParts DEF Xb!XofInit, Kb!XofInit, Xb!Idle, Kb!Idle, Xb!XofRefused, Kb!XofRefused
<1>2. \A p : Xb!XofUpdate(p) <=> Kb!XofUpdate(p)
  BY XbNodes DEF
      Xb!XofUpdate, Kb!XofUpdate, Xb!Idle, Kb!Idle, Xb!Started, Kb!Started, Xb!Finished, Kb!Finished
<1>3. \A T, n, local : Xb!Begin(T, n, local) <=> Kb!Begin(T, n, local)
  BY XbNodes DEF Xb!Begin, Kb!Begin, Xb!Matches, Kb!Matches
<1>4. \A n : Xb!XofFinal(n) <=> Kb!XofFinal(n)
  BY <1>3 DEF Xb!XofFinal, Kb!XofFinal, Xb!Idle, Kb!Idle, Xb!Started, Kb!Started
<1>5. \A n, m, k : Xb!XofOne(n, m, k) <=> Kb!XofOne(n, m, k)
  BY <1>3, XbNodes, XbParts DEF
      Xb!XofOne, Kb!XofOne, Xb!Idle, Kb!Idle, Xb!Started, Kb!Started, Xb!OneRefused, Kb!OneRefused,
      Xb!XofRefused, Kb!XofRefused
<1>6. Xb!FinalBlock <=> Kb!FinalBlock
  BY XbNodes, XbParts DEF
      Xb!FinalBlock, Kb!FinalBlock, Xb!BlockSize, Kb!BlockSize, Xb!Overlay, Kb!Overlay
<1>7. Xb!FinalReturn <=> Kb!FinalReturn
  BY DEF Xb!FinalReturn, Kb!FinalReturn
<1> QED
  BY <1>1, <1>2, <1>3, <1>4, <1>5, <1>6, <1>7

\* What is asked of the context leaves its invariant.
LEMMA XsKept ==
  ASSUME Ks!XInv(Any), api \in Apis, api = "xs", XsInit \/ XsUpdate \/ XsFinal \/ XsOne \/ XsStep
  PROVE  Ks!XInv(Any)' /\ (out # Garbage /\ out' # Garbage => out' = out)
<1>1. /\ Zero \in Any /\ Ks!XofOK /\ BlockBytes \in Nat \ {0} /\ KeyBytes \in 0..BlockBytes /\ OutBytes \in Nat \ {0}
      /\ WordMod \in Nat /\ WordMod > BlockBytes
  BY SizesHold, Blake2NodeAssumption DEF Sizes2b
<1>2. msg \in Seq(Any) /\ api # "s"
  BY DEF Ks!XInv, Ks!XKnown
<1>3. Lens[api] \subseteq 0..(SizeMod - 1) /\ (\A p \in Pieces : p \in Seq(Any)) /\ (\A m \in Messages : m \in Seq(Any))
  BY <1>2, LensKnown, PiecesKnown
<1>4. CASE XsInit
  <2>1. PICK n \in Lens[api], k \in Keys : Ks!XofInit(n, k)
    BY <1>4, XsSame DEF XsInit
  <2>2. k \in Seq(Any)
    BY KeysKnown
  <2>3. Ks!XInv(Any)'
    BY <1>1, <2>1, <2>2, Ks!XInit
  <2> QED
    BY <2>1, <2>3 DEF Ks!XofInit
<1>5. CASE XsUpdate
  <2>1. PICK p \in Pieces : Ks!XofUpdate(p)
    BY <1>5, XsSame DEF XsUpdate
  <2>2. Ks!XInv(Any)'
    BY <1>1, <1>3, <2>1, Ks!XUpdate
  <2> QED
    BY <2>1, <2>2 DEF Ks!XofUpdate
<1>6. CASE XsFinal
  <2>1. PICK n \in Lens[api] : Ks!XofFinal(n)
    BY <1>6, XsSame DEF XsFinal
  <2>2. Ks!XInv(Any)'
    BY <1>1, <1>3, <2>1, Ks!XFinal
  <2> QED
    BY <2>1, <2>2 DEF Ks!XofFinal
<1>7. CASE XsOne
  <2>1. PICK n \in Lens[api], m \in Messages, k \in Keys : Ks!XofOne(n, m, k)
    BY <1>7, XsSame DEF XsOne
  <2>2. k \in Seq(Any)
    BY KeysKnown
  <2>3. Ks!XInv(Any)'
    BY <1>1, <1>3, <2>1, <2>2, Ks!XOne
  <2> QED
    BY <2>1, <2>3 DEF Ks!XofOne
<1>8. CASE XsStep
  <2>1. CASE Ks!FinalBlock
    <3>1. Ks!XInv(Any)'
      BY <1>1, <2>1, Ks!XBlockStep
    <3> QED
      BY <2>1, <3>1 DEF Ks!FinalBlock
  <2>2. CASE Ks!FinalReturn
    <3>1. Ks!XInv(Any)'
      BY <1>1, <2>2, Ks!XReturn
    <3>2. out = Garbage
      BY <1>1, <2>2, Ks!XOnce
    <3> QED
      BY <3>1, <3>2
  <2> QED
    BY <1>8, <2>1, <2>2, XsSame DEF XsStep, Xs!XofStep
<1> QED
  BY <1>4, <1>5, <1>6, <1>7, <1>8

\* The invariant has what is said of these contexts.
LEMMA XsTells ==
  ASSUME Ks!XInv(Any)
  PROVE  Xs!XofTypeOK /\ Xs!NoBlockTwice /\ (Ks!Apart => Xs!XofStreamed)
<1>1. Ks!XofOK /\ BlockBytes \in Nat \ {0} /\ KeyBytes \in 0..BlockBytes /\ OutBytes \in Nat \ {0}
      /\ WordMod \in Nat /\ WordMod > BlockBytes
  BY SizesHold, Blake2NodeAssumption DEF Sizes2b
<1>2. Ks!XofTypeOK
  BY <1>1, Ks!XTypes
<1>3. Ks!NoBlockTwice
  BY <1>1, Ks!XDiffers
<1>4. Ks!Apart => Ks!XofStreamed
  BY <1>1, Ks!XStreams
<1>5. Xs!XofTypeOK
  BY <1>2 DEF Xs!XofTypeOK, Ks!XofTypeOK, Xs!Started, Ks!Started
<1>6. Xs!NoBlockTwice
  BY <1>3 DEF Xs!NoBlockTwice, Ks!NoBlockTwice, Xs!Finished, Ks!Finished
<1>7. Ks!XofStreamed => Xs!XofStreamed
  BY XsHash DEF Xs!XofStreamed, Ks!XofStreamed, Xs!Finished, Ks!Finished, Xs!Started, Ks!Started
<1> QED
  BY <1>4, <1>5, <1>6, <1>7

\* What is asked of the context leaves its invariant.
LEMMA XbKept ==
  ASSUME Kb!XInv(Any), api \in Apis, api = "xb", XbInit \/ XbUpdate \/ XbFinal \/ XbOne \/ XbStep
  PROVE  Kb!XInv(Any)' /\ (out # Garbage /\ out' # Garbage => out' = out)
<1>1. /\ Zero \in Any /\ Kb!XofOK /\ BlockBytes2b \in Nat \ {0} /\ KeyBytes2b \in 0..BlockBytes2b /\ OutBytes2b \in Nat \ {0}
      /\ WordMod2b \in Nat /\ WordMod2b > BlockBytes2b
  BY SizesHold, Blake2NodeAssumption DEF Sizes2b
<1>2. msg \in Seq(Any) /\ api # "s"
  BY DEF Kb!XInv, Kb!XKnown
<1>3. Lens[api] \subseteq 0..(SizeMod - 1) /\ (\A p \in Pieces : p \in Seq(Any)) /\ (\A m \in Messages : m \in Seq(Any))
  BY <1>2, LensKnown, PiecesKnown
<1>4. CASE XbInit
  <2>1. PICK n \in Lens[api], k \in Keys : Kb!XofInit(n, k)
    BY <1>4, XbSame DEF XbInit
  <2>2. k \in Seq(Any)
    BY KeysKnown
  <2>3. Kb!XInv(Any)'
    BY <1>1, <2>1, <2>2, Kb!XInit
  <2> QED
    BY <2>1, <2>3 DEF Kb!XofInit
<1>5. CASE XbUpdate
  <2>1. PICK p \in Pieces : Kb!XofUpdate(p)
    BY <1>5, XbSame DEF XbUpdate
  <2>2. Kb!XInv(Any)'
    BY <1>1, <1>3, <2>1, Kb!XUpdate
  <2> QED
    BY <2>1, <2>2 DEF Kb!XofUpdate
<1>6. CASE XbFinal
  <2>1. PICK n \in Lens[api] : Kb!XofFinal(n)
    BY <1>6, XbSame DEF XbFinal
  <2>2. Kb!XInv(Any)'
    BY <1>1, <1>3, <2>1, Kb!XFinal
  <2> QED
    BY <2>1, <2>2 DEF Kb!XofFinal
<1>7. CASE XbOne
  <2>1. PICK n \in Lens[api], m \in Messages, k \in Keys : Kb!XofOne(n, m, k)
    BY <1>7, XbSame DEF XbOne
  <2>2. k \in Seq(Any)
    BY KeysKnown
  <2>3. Kb!XInv(Any)'
    BY <1>1, <1>3, <2>1, <2>2, Kb!XOne
  <2> QED
    BY <2>1, <2>3 DEF Kb!XofOne
<1>8. CASE XbStep
  <2>1. CASE Kb!FinalBlock
    <3>1. Kb!XInv(Any)'
      BY <1>1, <2>1, Kb!XBlockStep
    <3> QED
      BY <2>1, <3>1 DEF Kb!FinalBlock
  <2>2. CASE Kb!FinalReturn
    <3>1. Kb!XInv(Any)'
      BY <1>1, <2>2, Kb!XReturn
    <3>2. out = Garbage
      BY <1>1, <2>2, Kb!XOnce
    <3> QED
      BY <3>1, <3>2
  <2> QED
    BY <1>8, <2>1, <2>2, XbSame DEF XbStep, Xb!XofStep
<1> QED
  BY <1>4, <1>5, <1>6, <1>7, <1>8

\* The invariant has what is said of these contexts.
LEMMA XbTells ==
  ASSUME Kb!XInv(Any)
  PROVE  Xb!XofTypeOK /\ Xb!NoBlockTwice /\ (Kb!Apart => Xb!XofStreamed)
<1>1. Kb!XofOK /\ BlockBytes2b \in Nat \ {0} /\ KeyBytes2b \in 0..BlockBytes2b /\ OutBytes2b \in Nat \ {0}
      /\ WordMod2b \in Nat /\ WordMod2b > BlockBytes2b
  BY SizesHold, Blake2NodeAssumption DEF Sizes2b
<1>2. Kb!XofTypeOK
  BY <1>1, Kb!XTypes
<1>3. Kb!NoBlockTwice
  BY <1>1, Kb!XDiffers
<1>4. Kb!Apart => Kb!XofStreamed
  BY <1>1, Kb!XStreams
<1>5. Xb!XofTypeOK
  BY <1>2 DEF Xb!XofTypeOK, Kb!XofTypeOK, Xb!Started, Kb!Started
<1>6. Xb!NoBlockTwice
  BY <1>3 DEF Xb!NoBlockTwice, Kb!NoBlockTwice, Xb!Finished, Kb!Finished
<1>7. Kb!XofStreamed => Xb!XofStreamed
  BY XbHash DEF Xb!XofStreamed, Kb!XofStreamed, Xb!Finished, Kb!Finished, Xb!Started, Kb!Started
<1> QED
  BY <1>4, <1>5, <1>6, <1>7

\* The nodes of blake2s, as blake2sp uses it.
LEMMA SpNodes ==
  /\ \A n, k : Sp!SequentialParam(n, k) = Ks!SequentialParam(n, k)
  /\ \A P : Sp!InitParam(P) = Ks!InitParam(P)
  /\ \A s : Sp!Pad(s) = Ks!Pad(s)
  /\ \A s, n : Sp!DropFirst(s, n) = Ks!DropFirst(s, n)
  /\ \A T, s : Sp!NodeUpdate(T, s) = Ks!NodeUpdate(T, s)
  /\ \A T, k : Sp!Keyed(T, k) = Ks!Keyed(T, k)
  /\ \A h, n : Sp!Bytes(h, n) = Ks!Bytes(h, n)
  /\ \A T, n : Sp!NodeFinal(T, n) = Ks!NodeFinal(T, n)
  /\ \A P, k, m, l : Sp!Chain(P, k, m, l) = Ks!Chain(P, k, m, l)
<1>1. \A n, k : Sp!SequentialParam(n, k) = Ks!SequentialParam(n, k)
  BY DEF Sp!SequentialParam, Ks!SequentialParam
<1>2. \A P : Sp!InitParam(P) = Ks!InitParam(P)
  BY DEF Sp!InitParam, Ks!InitParam, Sp!Zeros, Ks!Zeros
<1>3. \A s : Sp!Pad(s) = Ks!Pad(s)
  BY DEF Sp!Pad, Ks!Pad, Sp!Zeros, Ks!Zeros
<1>4. \A s, n : Sp!DropFirst(s, n) = Ks!DropFirst(s, n)
  BY DEF Sp!DropFirst, Ks!DropFirst
<1>5. \A T, s : Sp!NodeUpdate(T, s) = Ks!NodeUpdate(T, s)
  BY DEF
      Sp!NodeUpdate, Ks!NodeUpdate, Sp!DropFirst, Ks!DropFirst, Sp!Overlay, Ks!Overlay,
      Sp!Counted, Ks!Counted
<1>6. \A T, k : Sp!Keyed(T, k) = Ks!Keyed(T, k)
  BY <1>3, <1>5 DEF Sp!Keyed, Ks!Keyed
<1>7. \A h, n : Sp!Bytes(h, n) = Ks!Bytes(h, n)
  BY DEF Sp!Bytes, Ks!Bytes
<1>8. \A T, n : Sp!NodeFinal(T, n) = Ks!NodeFinal(T, n)
  BY DEF
      Sp!NodeFinal, Ks!NodeFinal, Sp!LastFlags, Ks!LastFlags, Sp!Bytes, Ks!Bytes, Sp!Pad,
      Ks!Pad, Sp!Zeros, Ks!Zeros, Sp!Counted, Ks!Counted
<1>9. \A P, k, m, l : Sp!Chain(P, k, m, l) = Ks!Chain(P, k, m, l)
  BY DEF Sp!Chain, Ks!Chain, Sp!Pad, Ks!Pad, Sp!Zeros, Ks!Zeros, Sp!Min, Ks!Min
<1> QED
  BY <1>1, <1>2, <1>3, <1>4, <1>5, <1>6, <1>7, <1>8, <1>9

\* Its parts.
LEMMA SpParts ==
  /\ Sp!Leaves = Ks!Leaves
  /\ Sp!Wide = Ks!Wide
  /\ \A n, k, i : Sp!LeafParam(n, k, i) = Ks!LeafParam(n, k, i)
  /\ \A n, k : Sp!RootParam(n, k) = Ks!RootParam(n, k)
  /\ \A n, k, i : Sp!NewLeaf(n, k, i) = Ks!NewLeaf(n, k, i)
  /\ \A n, k : Sp!NewLeaves(n, k) = Ks!NewLeaves(n, k)
  /\ \A n, k : Sp!NewRoot(n, k) = Ks!NewRoot(n, k)
  /\ \A s, p, i : Sp!BlockOf(s, p, i) = Ks!BlockOf(s, p, i)
  /\ \A left : Sp!Locals(left) = Ks!Locals(left)
  /\ \A m, i : Sp!Stripe(m, i) = Ks!Stripe(m, i)
  /\ \A n, k, m, i : Sp!LeafDigest(n, k, m, i) = Ks!LeafDigest(n, k, m, i)
<1>1. Sp!Leaves = Ks!Leaves
  BY DEF Sp!Leaves, Ks!Leaves
<1>2. Sp!Wide = Ks!Wide
  BY DEF Sp!Wide, Ks!Wide
<1>3. \A n, k, i : Sp!LeafParam(n, k, i) = Ks!LeafParam(n, k, i)
  BY SpNodes DEF Sp!LeafParam, Ks!LeafParam
<1>4. \A n, k : Sp!RootParam(n, k) = Ks!RootParam(n, k)
  BY SpNodes DEF Sp!RootParam, Ks!RootParam
<1>5. \A n, k, i : Sp!NewLeaf(n, k, i) = Ks!NewLeaf(n, k, i)
  BY <1>3, SpNodes DEF Sp!NewLeaf, Ks!NewLeaf
<1>6. \A n, k : Sp!NewLeaves(n, k) = Ks!NewLeaves(n, k)
  BY <1>1, <1>5 DEF Sp!NewLeaves, Ks!NewLeaves
<1>7. \A n, k : Sp!NewRoot(n, k) = Ks!NewRoot(n, k)
  BY <1>4, SpNodes DEF Sp!NewRoot, Ks!NewRoot
<1>8. \A s, p, i : Sp!BlockOf(s, p, i) = Ks!BlockOf(s, p, i)
  BY DEF Sp!BlockOf, Ks!BlockOf, Sp!Slice, Ks!Slice, Sp!Min, Ks!Min
<1>9. \A left : Sp!Locals(left) = Ks!Locals(left)
  BY <1>1 DEF Sp!Locals, Ks!Locals
<1>10. \A m, i : Sp!Stripe(m, i) = Ks!Stripe(m, i)
  BY <1>2 DEF Sp!Stripe, Ks!Stripe
<1>11. \A n, k, m, i : Sp!LeafDigest(n, k, m, i) = Ks!LeafDigest(n, k, m, i)
  BY <1>3, <1>10, SpNodes DEF Sp!LeafDigest, Ks!LeafDigest
<1> QED
  BY <1>1, <1>2, <1>3, <1>4, <1>5, <1>6, <1>7, <1>8, <1>9, <1>10, <1>11

\* Its operations.
LEMMA SpSame ==
  /\ \A n, k : Sp!TreeInit(n, k) <=> Ks!TreeInit(n, k)
  /\ \A p : Sp!TreeUpdate(p) <=> Ks!TreeUpdate(p)
  /\ \A i : Sp!LeafBlock(i) <=> Ks!LeafBlock(i)
  /\ Sp!UpdateJoin <=> Ks!UpdateJoin
  /\ \A n : Sp!TreeFinal(n) <=> Ks!TreeFinal(n)
  /\ \A n, m, k : Sp!TreeOne(n, m, k) <=> Ks!TreeOne(n, m, k)
  /\ \A i : Sp!OneEnd(i) <=> Ks!OneEnd(i)
  /\ Sp!OneRoot <=> Ks!OneRoot
  /\ Sp!Absorb <=> Ks!Absorb
  /\ Sp!RootReturn <=> Ks!RootReturn
<1>1. \A n, k : Sp!TreeInit(n, k) <=> Ks!TreeInit(n, k)
  BY SpNodes, SpParts DEF
      Sp!TreeInit, Ks!TreeInit, Sp!Idle, Ks!Idle, Sp!Refused, Ks!Refused, Sp!Zeros, Ks!Zeros
<1>2. \A p : Sp!TreeUpdate(p) <=> Ks!TreeUpdate(p)
  BY SpNodes, SpParts, ZenonT(60) DEF
      Sp!TreeUpdate, Ks!TreeUpdate, Sp!Idle, Ks!Idle, Sp!Started, Ks!Started, Sp!Finished,
      Ks!Finished, Sp!Flushes, Ks!Flushes, Sp!Overlay, Ks!Overlay
<1>3. \A i : Sp!LeafBlock(i) <=> Ks!LeafBlock(i)
  BY SpNodes, SpParts DEF Sp!LeafBlock, Ks!LeafBlock, Sp!More, Ks!More
<1>4. Sp!UpdateJoin <=> Ks!UpdateJoin
  BY SpNodes, SpParts DEF
      Sp!UpdateJoin, Ks!UpdateJoin, Sp!More, Ks!More, Sp!Overlay, Ks!Overlay
<1>5. \A n : Sp!TreeFinal(n) <=> Ks!TreeFinal(n)
  BY SpNodes, SpParts DEF Sp!TreeFinal, Ks!TreeFinal, Sp!Idle, Ks!Idle, Sp!Started, Ks!Started
<1>6. \A n, m, k : Sp!TreeOne(n, m, k) <=> Ks!TreeOne(n, m, k)
  BY SpParts DEF
      Sp!TreeOne, Ks!TreeOne, Sp!Idle, Ks!Idle, Sp!Started, Ks!Started, Sp!Refused, Ks!Refused
<1>7. \A i : Sp!OneEnd(i) <=> Ks!OneEnd(i)
  BY SpNodes, SpParts DEF Sp!OneEnd, Ks!OneEnd, Sp!More, Ks!More
<1>8. Sp!OneRoot <=> Ks!OneRoot
  BY SpParts DEF Sp!OneRoot, Ks!OneRoot
<1>9. Sp!Absorb <=> Ks!Absorb
  BY SpNodes DEF Sp!Absorb, Ks!Absorb
<1>10. Sp!RootReturn <=> Ks!RootReturn
  BY SpNodes DEF Sp!RootReturn, Ks!RootReturn
<1> QED
  BY <1>1, <1>2, <1>3, <1>4, <1>5, <1>6, <1>7, <1>8, <1>9, <1>10

\* What their digest is.
LEMMA SpHash == \A n, k, m : Sp!TreeHash(n, k, m) = Ks!TreeHash(n, k, m)
<1> SUFFICES ASSUME NEW n, NEW k, NEW m PROVE Sp!TreeHash(n, k, m) = Ks!TreeHash(n, k, m)
  OBVIOUS
<1> DEFINE L(i) == Ks!LeafDigest(n, k, m, i)
           M(i) == Sp!LeafDigest(n, k, m, i)
           G == [p \in 1..(SpDegree * OutBytes) |-> L((p - 1) \div OutBytes)[((p - 1) % OutBytes) + 1]]
           H == [p \in 1..(SpDegree * OutBytes) |-> M((p - 1) \div OutBytes)[((p - 1) % OutBytes) + 1]]
<1>1. Ks!TreeHash(n, k, m) = Ks!Bytes(Ks!Chain(Ks!RootParam(n, k), <<>>, G, TRUE), n)
  BY DEF Ks!TreeHash
<1>2. Sp!TreeHash(n, k, m) = Sp!Bytes(Sp!Chain(Sp!RootParam(n, k), <<>>, H, TRUE), n)
  BY DEF Sp!TreeHash
<1>3. \A i : L(i) = M(i)
  BY SpParts
<1> HIDE DEF L, M
<1>4. G = H
  BY <1>3
<1> HIDE DEF G, H
<1> QED
  BY <1>1, <1>2, <1>4, SpNodes, SpParts

\* What is asked of the context, and what its threads do, leaves its invariant.
LEMMA SpKept ==
  ASSUME Ks!TInv(Any), api \in Apis, api = "sp", SpInit \/ SpUpdate \/ SpFinal \/ SpOne \/ SpStep
  PROVE  Ks!TInv(Any)' /\ (out # Garbage /\ out' # Garbage => out' = out)
<1>1. /\ Zero \in Any /\ Ks!TreeOK /\ BlockBytes \in Nat \ {0} /\ KeyBytes \in 0..BlockBytes /\ OutBytes \in Nat \ {0}
      /\ WordMod \in Nat /\ WordMod > BlockBytes
  BY SizesHold, Blake2NodeAssumption DEF Sizes2b
<1>2. msg \in Seq(Any) /\ api # "s"
  BY DEF Ks!TInv, Ks!Known
<1>3. Lens[api] \subseteq Nat /\ (\A p \in Pieces : p \in Seq(Any)) /\ (\A m \in Messages : m \in Seq(Any))
  BY <1>2, LensKnown, PiecesKnown
<1>4. CASE SpInit
  <2>1. PICK n \in Lens[api], k \in Keys : Ks!TreeInit(n, k)
    BY <1>4, SpSame DEF SpInit
  <2>2. k \in Seq(Any)
    BY KeysKnown
  <2>3. Ks!TInv(Any)'
    BY <1>1, <2>1, <2>2, Ks!TInit
  <2> QED
    BY <2>1, <2>3 DEF Ks!TreeInit
<1>5. CASE SpUpdate
  <2>1. PICK p \in Pieces : Ks!TreeUpdate(p)
    BY <1>5, SpSame DEF SpUpdate
  <2>2. Ks!TInv(Any)'
    BY <1>1, <1>3, <2>1, Ks!TUpdate
  <2> QED
    BY <2>1, <2>2 DEF Ks!TreeUpdate
<1>6. CASE SpFinal
  <2>1. PICK n \in Lens[api] : Ks!TreeFinal(n)
    BY <1>6, SpSame DEF SpFinal
  <2>2. Ks!TInv(Any)'
    BY <1>1, <2>1, Ks!TFinal
  <2> QED
    BY <2>1, <2>2 DEF Ks!TreeFinal
<1>7. CASE SpOne
  <2>1. PICK n \in Lens[api], m \in Messages, k \in Keys : Ks!TreeOne(n, m, k)
    BY <1>7, SpSame DEF SpOne
  <2>2. k \in Seq(Any) /\ m \in Seq(Any)
    BY <1>3, KeysKnown
  <2>3. Ks!TInv(Any)'
    BY <1>1, <2>1, <2>2, Ks!TStart
  <2> QED
    BY <2>1, <2>3 DEF Ks!TreeOne
<1>8. CASE SpStep
  <2>1. ASSUME NEW i \in Ks!Leaves, Ks!LeafBlock(i)
        PROVE  Ks!TInv(Any)' /\ out' = out
    <3>1. Ks!TInv(Any)'
      BY <1>1, <2>1, Ks!TBlock
    <3> QED
      BY <2>1, <3>1 DEF Ks!LeafBlock
  <2>2. ASSUME NEW i \in Ks!Leaves, Ks!OneEnd(i)
        PROVE  Ks!TInv(Any)' /\ out' = out
    <3>1. Ks!TInv(Any)'
      BY <1>1, <2>2, Ks!TEnd
    <3> QED
      BY <2>2, <3>1 DEF Ks!OneEnd
  <2>3. CASE Ks!UpdateJoin
    <3>1. Ks!TInv(Any)'
      BY <1>1, <2>3, Ks!TJoin
    <3> QED
      BY <2>3, <3>1 DEF Ks!UpdateJoin
  <2>4. CASE Ks!OneRoot
    <3>1. Ks!TInv(Any)'
      BY <1>1, <2>4, Ks!TRoot
    <3> QED
      BY <2>4, <3>1 DEF Ks!OneRoot
  <2>5. CASE Ks!Absorb
    <3>1. Ks!TInv(Any)'
      BY <1>1, <2>5, Ks!TAbsorb
    <3> QED
      BY <2>5, <3>1 DEF Ks!Absorb
  <2>6. CASE Ks!RootReturn
    BY <1>1, <2>6, Ks!TReturn
  <2>7. \/ \E i \in Ks!Leaves : Ks!LeafBlock(i) \/ Ks!OneEnd(i)
        \/ Ks!UpdateJoin \/ Ks!OneRoot \/ Ks!Absorb \/ Ks!RootReturn
    BY <1>8, SpSame, SpParts DEF SpStep, Sp!TreeStep
  <2> QED
    BY <2>1, <2>2, <2>3, <2>4, <2>5, <2>6, <2>7
<1> QED
  BY <1>4, <1>5, <1>6, <1>7, <1>8

\* The invariant has what is said of these contexts.
LEMMA SpTells ==
  ASSUME Ks!TInv(Any)
  PROVE  /\ Sp!TreeTypeOK /\ Sp!TreeStreamed
         /\ (api \in Apis /\ api # "s" => Sp!TreeDistinct(Lens[api], Keys, Messages))
<1>1. /\ Zero \in Any /\ Ks!TreeOK /\ BlockBytes \in Nat \ {0} /\ KeyBytes \in 0..BlockBytes /\ OutBytes \in Nat \ {0}
      /\ WordMod \in Nat /\ WordMod > BlockBytes
  BY SizesHold, Blake2NodeAssumption DEF Sizes2b
<1>2. Ks!TreeTypeOK
  BY <1>1, Ks!TTypes
<1>3. Ks!TreeStreamed
  BY <1>1, Ks!TStreams
<1>4. ASSUME api \in Apis, api # "s" PROVE Ks!TreeDistinct(Lens[api], Keys, Messages)
  <2>1. Lens[api] \subseteq Nat
    BY <1>4, LensKnown
  <2>2. Keys \subseteq Seq(Any)
    BY KeysKnown
  <2>3. Messages \subseteq Seq(Any)
    BY <1>4, MessagesKnown
  <2> QED
    BY <1>1, <2>1, <2>2, <2>3, Ks!TDistinct
<1>5. Sp!TreeTypeOK
  BY <1>2, SpParts DEF Sp!TreeTypeOK, Ks!TreeTypeOK, Sp!Idle, Ks!Idle, Sp!Started, Ks!Started
<1>6. Sp!TreeStreamed
  BY <1>3, SpHash DEF Sp!TreeStreamed, Ks!TreeStreamed, Sp!Finished, Ks!Finished
<1>7. \A lens, keys, msgs : Ks!TreeDistinct(lens, keys, msgs) => Sp!TreeDistinct(lens, keys, msgs)
  BY SpHash DEF Sp!TreeDistinct, Ks!TreeDistinct, Sp!Finished, Ks!Finished
<1> QED
  BY <1>4, <1>5, <1>6, <1>7

\* The nodes of blake2b, as blake2bp uses it.
LEMMA BpNodes ==
  /\ \A n, k : Bp!SequentialParam(n, k) = Kb!SequentialParam(n, k)
  /\ \A P : Bp!InitParam(P) = Kb!InitParam(P)
  /\ \A s : Bp!Pad(s) = Kb!Pad(s)
  /\ \A s, n : Bp!DropFirst(s, n) = Kb!DropFirst(s, n)
  /\ \A T, s : Bp!NodeUpdate(T, s) = Kb!NodeUpdate(T, s)
  /\ \A T, k : Bp!Keyed(T, k) = Kb!Keyed(T, k)
  /\ \A h, n : Bp!Bytes(h, n) = Kb!Bytes(h, n)
  /\ \A T, n : Bp!NodeFinal(T, n) = Kb!NodeFinal(T, n)
  /\ \A P, k, m, l : Bp!Chain(P, k, m, l) = Kb!Chain(P, k, m, l)
<1>1. \A n, k : Bp!SequentialParam(n, k) = Kb!SequentialParam(n, k)
  BY DEF Bp!SequentialParam, Kb!SequentialParam
<1>2. \A P : Bp!InitParam(P) = Kb!InitParam(P)
  BY DEF Bp!InitParam, Kb!InitParam, Bp!Zeros, Kb!Zeros
<1>3. \A s : Bp!Pad(s) = Kb!Pad(s)
  BY DEF Bp!Pad, Kb!Pad, Bp!Zeros, Kb!Zeros
<1>4. \A s, n : Bp!DropFirst(s, n) = Kb!DropFirst(s, n)
  BY DEF Bp!DropFirst, Kb!DropFirst
<1>5. \A T, s : Bp!NodeUpdate(T, s) = Kb!NodeUpdate(T, s)
  BY DEF
      Bp!NodeUpdate, Kb!NodeUpdate, Bp!DropFirst, Kb!DropFirst, Bp!Overlay, Kb!Overlay,
      Bp!Counted, Kb!Counted
<1>6. \A T, k : Bp!Keyed(T, k) = Kb!Keyed(T, k)
  BY <1>3, <1>5 DEF Bp!Keyed, Kb!Keyed
<1>7. \A h, n : Bp!Bytes(h, n) = Kb!Bytes(h, n)
  BY DEF Bp!Bytes, Kb!Bytes
<1>8. \A T, n : Bp!NodeFinal(T, n) = Kb!NodeFinal(T, n)
  BY DEF
      Bp!NodeFinal, Kb!NodeFinal, Bp!LastFlags, Kb!LastFlags, Bp!Bytes, Kb!Bytes, Bp!Pad,
      Kb!Pad, Bp!Zeros, Kb!Zeros, Bp!Counted, Kb!Counted
<1>9. \A P, k, m, l : Bp!Chain(P, k, m, l) = Kb!Chain(P, k, m, l)
  BY DEF Bp!Chain, Kb!Chain, Bp!Pad, Kb!Pad, Bp!Zeros, Kb!Zeros, Bp!Min, Kb!Min
<1> QED
  BY <1>1, <1>2, <1>3, <1>4, <1>5, <1>6, <1>7, <1>8, <1>9

\* Its parts.
LEMMA BpParts ==
  /\ Bp!Leaves = Kb!Leaves
  /\ Bp!Wide = Kb!Wide
  /\ \A n, k, i : Bp!LeafParam(n, k, i) = Kb!LeafParam(n, k, i)
  /\ \A n, k : Bp!RootParam(n, k) = Kb!RootParam(n, k)
  /\ \A n, k, i : Bp!NewLeaf(n, k, i) = Kb!NewLeaf(n, k, i)
  /\ \A n, k : Bp!NewLeaves(n, k) = Kb!NewLeaves(n, k)
  /\ \A n, k : Bp!NewRoot(n, k) = Kb!NewRoot(n, k)
  /\ \A s, p, i : Bp!BlockOf(s, p, i) = Kb!BlockOf(s, p, i)
  /\ \A left : Bp!Locals(left) = Kb!Locals(left)
  /\ \A m, i : Bp!Stripe(m, i) = Kb!Stripe(m, i)
  /\ \A n, k, m, i : Bp!LeafDigest(n, k, m, i) = Kb!LeafDigest(n, k, m, i)
<1>1. Bp!Leaves = Kb!Leaves
  BY DEF Bp!Leaves, Kb!Leaves
<1>2. Bp!Wide = Kb!Wide
  BY DEF Bp!Wide, Kb!Wide
<1>3. \A n, k, i : Bp!LeafParam(n, k, i) = Kb!LeafParam(n, k, i)
  BY BpNodes DEF Bp!LeafParam, Kb!LeafParam
<1>4. \A n, k : Bp!RootParam(n, k) = Kb!RootParam(n, k)
  BY BpNodes DEF Bp!RootParam, Kb!RootParam
<1>5. \A n, k, i : Bp!NewLeaf(n, k, i) = Kb!NewLeaf(n, k, i)
  BY <1>3, BpNodes DEF Bp!NewLeaf, Kb!NewLeaf
<1>6. \A n, k : Bp!NewLeaves(n, k) = Kb!NewLeaves(n, k)
  BY <1>1, <1>5 DEF Bp!NewLeaves, Kb!NewLeaves
<1>7. \A n, k : Bp!NewRoot(n, k) = Kb!NewRoot(n, k)
  BY <1>4, BpNodes DEF Bp!NewRoot, Kb!NewRoot
<1>8. \A s, p, i : Bp!BlockOf(s, p, i) = Kb!BlockOf(s, p, i)
  BY DEF Bp!BlockOf, Kb!BlockOf, Bp!Slice, Kb!Slice, Bp!Min, Kb!Min
<1>9. \A left : Bp!Locals(left) = Kb!Locals(left)
  BY <1>1 DEF Bp!Locals, Kb!Locals
<1>10. \A m, i : Bp!Stripe(m, i) = Kb!Stripe(m, i)
  BY <1>2 DEF Bp!Stripe, Kb!Stripe
<1>11. \A n, k, m, i : Bp!LeafDigest(n, k, m, i) = Kb!LeafDigest(n, k, m, i)
  BY <1>3, <1>10, BpNodes DEF Bp!LeafDigest, Kb!LeafDigest
<1> QED
  BY <1>1, <1>2, <1>3, <1>4, <1>5, <1>6, <1>7, <1>8, <1>9, <1>10, <1>11

\* Its operations.
LEMMA BpSame ==
  /\ \A n, k : Bp!TreeInit(n, k) <=> Kb!TreeInit(n, k)
  /\ \A p : Bp!TreeUpdate(p) <=> Kb!TreeUpdate(p)
  /\ \A i : Bp!LeafBlock(i) <=> Kb!LeafBlock(i)
  /\ Bp!UpdateJoin <=> Kb!UpdateJoin
  /\ \A n : Bp!TreeFinal(n) <=> Kb!TreeFinal(n)
  /\ \A n, m, k : Bp!TreeOne(n, m, k) <=> Kb!TreeOne(n, m, k)
  /\ \A i : Bp!OneEnd(i) <=> Kb!OneEnd(i)
  /\ Bp!OneRoot <=> Kb!OneRoot
  /\ Bp!Absorb <=> Kb!Absorb
  /\ Bp!RootReturn <=> Kb!RootReturn
<1>1. \A n, k : Bp!TreeInit(n, k) <=> Kb!TreeInit(n, k)
  BY BpNodes, BpParts DEF
      Bp!TreeInit, Kb!TreeInit, Bp!Idle, Kb!Idle, Bp!Refused, Kb!Refused, Bp!Zeros, Kb!Zeros
<1>2. \A p : Bp!TreeUpdate(p) <=> Kb!TreeUpdate(p)
  BY BpNodes, BpParts, ZenonT(60) DEF
      Bp!TreeUpdate, Kb!TreeUpdate, Bp!Idle, Kb!Idle, Bp!Started, Kb!Started, Bp!Finished,
      Kb!Finished, Bp!Flushes, Kb!Flushes, Bp!Overlay, Kb!Overlay
<1>3. \A i : Bp!LeafBlock(i) <=> Kb!LeafBlock(i)
  BY BpNodes, BpParts DEF Bp!LeafBlock, Kb!LeafBlock, Bp!More, Kb!More
<1>4. Bp!UpdateJoin <=> Kb!UpdateJoin
  BY BpNodes, BpParts DEF
      Bp!UpdateJoin, Kb!UpdateJoin, Bp!More, Kb!More, Bp!Overlay, Kb!Overlay
<1>5. \A n : Bp!TreeFinal(n) <=> Kb!TreeFinal(n)
  BY BpNodes, BpParts DEF Bp!TreeFinal, Kb!TreeFinal, Bp!Idle, Kb!Idle, Bp!Started, Kb!Started
<1>6. \A n, m, k : Bp!TreeOne(n, m, k) <=> Kb!TreeOne(n, m, k)
  BY BpParts DEF
      Bp!TreeOne, Kb!TreeOne, Bp!Idle, Kb!Idle, Bp!Started, Kb!Started, Bp!Refused, Kb!Refused
<1>7. \A i : Bp!OneEnd(i) <=> Kb!OneEnd(i)
  BY BpNodes, BpParts DEF Bp!OneEnd, Kb!OneEnd, Bp!More, Kb!More
<1>8. Bp!OneRoot <=> Kb!OneRoot
  BY BpParts DEF Bp!OneRoot, Kb!OneRoot
<1>9. Bp!Absorb <=> Kb!Absorb
  BY BpNodes DEF Bp!Absorb, Kb!Absorb
<1>10. Bp!RootReturn <=> Kb!RootReturn
  BY BpNodes DEF Bp!RootReturn, Kb!RootReturn
<1> QED
  BY <1>1, <1>2, <1>3, <1>4, <1>5, <1>6, <1>7, <1>8, <1>9, <1>10

\* What their digest is.
LEMMA BpHash == \A n, k, m : Bp!TreeHash(n, k, m) = Kb!TreeHash(n, k, m)
<1> SUFFICES ASSUME NEW n, NEW k, NEW m PROVE Bp!TreeHash(n, k, m) = Kb!TreeHash(n, k, m)
  OBVIOUS
<1> DEFINE L(i) == Kb!LeafDigest(n, k, m, i)
           M(i) == Bp!LeafDigest(n, k, m, i)
           G == [p \in 1..(BpDegree * OutBytes2b) |-> L((p - 1) \div OutBytes2b)[((p - 1) % OutBytes2b) + 1]]
           H == [p \in 1..(BpDegree * OutBytes2b) |-> M((p - 1) \div OutBytes2b)[((p - 1) % OutBytes2b) + 1]]
<1>1. Kb!TreeHash(n, k, m) = Kb!Bytes(Kb!Chain(Kb!RootParam(n, k), <<>>, G, TRUE), n)
  BY DEF Kb!TreeHash
<1>2. Bp!TreeHash(n, k, m) = Bp!Bytes(Bp!Chain(Bp!RootParam(n, k), <<>>, H, TRUE), n)
  BY DEF Bp!TreeHash
<1>3. \A i : L(i) = M(i)
  BY BpParts
<1> HIDE DEF L, M
<1>4. G = H
  BY <1>3
<1> HIDE DEF G, H
<1> QED
  BY <1>1, <1>2, <1>4, BpNodes, BpParts

\* What is asked of the context, and what its threads do, leaves its invariant.
LEMMA BpKept ==
  ASSUME Kb!TInv(Any), api \in Apis, api = "bp", BpInit \/ BpUpdate \/ BpFinal \/ BpOne \/ BpStep
  PROVE  Kb!TInv(Any)' /\ (out # Garbage /\ out' # Garbage => out' = out)
<1>1. /\ Zero \in Any /\ Kb!TreeOK /\ BlockBytes2b \in Nat \ {0} /\ KeyBytes2b \in 0..BlockBytes2b /\ OutBytes2b \in Nat \ {0}
      /\ WordMod2b \in Nat /\ WordMod2b > BlockBytes2b
  BY SizesHold, Blake2NodeAssumption DEF Sizes2b
<1>2. msg \in Seq(Any) /\ api # "s"
  BY DEF Kb!TInv, Kb!Known
<1>3. Lens[api] \subseteq Nat /\ (\A p \in Pieces : p \in Seq(Any)) /\ (\A m \in Messages : m \in Seq(Any))
  BY <1>2, LensKnown, PiecesKnown
<1>4. CASE BpInit
  <2>1. PICK n \in Lens[api], k \in Keys : Kb!TreeInit(n, k)
    BY <1>4, BpSame DEF BpInit
  <2>2. k \in Seq(Any)
    BY KeysKnown
  <2>3. Kb!TInv(Any)'
    BY <1>1, <2>1, <2>2, Kb!TInit
  <2> QED
    BY <2>1, <2>3 DEF Kb!TreeInit
<1>5. CASE BpUpdate
  <2>1. PICK p \in Pieces : Kb!TreeUpdate(p)
    BY <1>5, BpSame DEF BpUpdate
  <2>2. Kb!TInv(Any)'
    BY <1>1, <1>3, <2>1, Kb!TUpdate
  <2> QED
    BY <2>1, <2>2 DEF Kb!TreeUpdate
<1>6. CASE BpFinal
  <2>1. PICK n \in Lens[api] : Kb!TreeFinal(n)
    BY <1>6, BpSame DEF BpFinal
  <2>2. Kb!TInv(Any)'
    BY <1>1, <2>1, Kb!TFinal
  <2> QED
    BY <2>1, <2>2 DEF Kb!TreeFinal
<1>7. CASE BpOne
  <2>1. PICK n \in Lens[api], m \in Messages, k \in Keys : Kb!TreeOne(n, m, k)
    BY <1>7, BpSame DEF BpOne
  <2>2. k \in Seq(Any) /\ m \in Seq(Any)
    BY <1>3, KeysKnown
  <2>3. Kb!TInv(Any)'
    BY <1>1, <2>1, <2>2, Kb!TStart
  <2> QED
    BY <2>1, <2>3 DEF Kb!TreeOne
<1>8. CASE BpStep
  <2>1. ASSUME NEW i \in Kb!Leaves, Kb!LeafBlock(i)
        PROVE  Kb!TInv(Any)' /\ out' = out
    <3>1. Kb!TInv(Any)'
      BY <1>1, <2>1, Kb!TBlock
    <3> QED
      BY <2>1, <3>1 DEF Kb!LeafBlock
  <2>2. ASSUME NEW i \in Kb!Leaves, Kb!OneEnd(i)
        PROVE  Kb!TInv(Any)' /\ out' = out
    <3>1. Kb!TInv(Any)'
      BY <1>1, <2>2, Kb!TEnd
    <3> QED
      BY <2>2, <3>1 DEF Kb!OneEnd
  <2>3. CASE Kb!UpdateJoin
    <3>1. Kb!TInv(Any)'
      BY <1>1, <2>3, Kb!TJoin
    <3> QED
      BY <2>3, <3>1 DEF Kb!UpdateJoin
  <2>4. CASE Kb!OneRoot
    <3>1. Kb!TInv(Any)'
      BY <1>1, <2>4, Kb!TRoot
    <3> QED
      BY <2>4, <3>1 DEF Kb!OneRoot
  <2>5. CASE Kb!Absorb
    <3>1. Kb!TInv(Any)'
      BY <1>1, <2>5, Kb!TAbsorb
    <3> QED
      BY <2>5, <3>1 DEF Kb!Absorb
  <2>6. CASE Kb!RootReturn
    BY <1>1, <2>6, Kb!TReturn
  <2>7. \/ \E i \in Kb!Leaves : Kb!LeafBlock(i) \/ Kb!OneEnd(i)
        \/ Kb!UpdateJoin \/ Kb!OneRoot \/ Kb!Absorb \/ Kb!RootReturn
    BY <1>8, BpSame, BpParts DEF BpStep, Bp!TreeStep
  <2> QED
    BY <2>1, <2>2, <2>3, <2>4, <2>5, <2>6, <2>7
<1> QED
  BY <1>4, <1>5, <1>6, <1>7, <1>8

\* The invariant has what is said of these contexts.
LEMMA BpTells ==
  ASSUME Kb!TInv(Any)
  PROVE  /\ Bp!TreeTypeOK /\ Bp!TreeStreamed
         /\ (api \in Apis /\ api # "s" => Bp!TreeDistinct(Lens[api], Keys, Messages))
<1>1. /\ Zero \in Any /\ Kb!TreeOK /\ BlockBytes2b \in Nat \ {0} /\ KeyBytes2b \in 0..BlockBytes2b /\ OutBytes2b \in Nat \ {0}
      /\ WordMod2b \in Nat /\ WordMod2b > BlockBytes2b
  BY SizesHold, Blake2NodeAssumption DEF Sizes2b
<1>2. Kb!TreeTypeOK
  BY <1>1, Kb!TTypes
<1>3. Kb!TreeStreamed
  BY <1>1, Kb!TStreams
<1>4. ASSUME api \in Apis, api # "s" PROVE Kb!TreeDistinct(Lens[api], Keys, Messages)
  <2>1. Lens[api] \subseteq Nat
    BY <1>4, LensKnown
  <2>2. Keys \subseteq Seq(Any)
    BY KeysKnown
  <2>3. Messages \subseteq Seq(Any)
    BY <1>4, MessagesKnown
  <2> QED
    BY <1>1, <2>1, <2>2, <2>3, Kb!TDistinct
<1>5. Bp!TreeTypeOK
  BY <1>2, BpParts DEF Bp!TreeTypeOK, Kb!TreeTypeOK, Bp!Idle, Kb!Idle, Bp!Started, Kb!Started
<1>6. Bp!TreeStreamed
  BY <1>3, BpHash DEF Bp!TreeStreamed, Kb!TreeStreamed, Bp!Finished, Kb!Finished
<1>7. \A lens, keys, msgs : Kb!TreeDistinct(lens, keys, msgs) => Bp!TreeDistinct(lens, keys, msgs)
  BY BpHash DEF Bp!TreeDistinct, Kb!TreeDistinct, Bp!Finished, Kb!Finished
<1> QED
  BY <1>4, <1>5, <1>6, <1>7

(***************************************************************************)
(* All kinds of context together.                                          *)
(***************************************************************************)
\* A digest of blake2s is there only when the context is finished.
SOnce == api = "s" /\ out # Garbage => Done

\* A call of blake2s is at one of three places, and has returned 0 or -1 before.
SKnown == api = "s" => at \in {"idle", "update", "loop"} /\ res \in {0, -1}

\* The inductive invariant: whatever kind of context is in use has its own.
KInv ==
  /\ api \in Apis /\ SInv /\ SOnce /\ SKnown
  /\ api = "sp" => Ks!TInv(Any)
  /\ api = "bp" => Kb!TInv(Any)
  /\ api = "xs" => Ks!XInv(Any)
  /\ api = "xb" => Kb!XInv(Any)

\* There is no context at first.
LEMMA InitK == Init => KInv
<1> SUFFICES ASSUME Init PROVE KInv
  OBVIOUS
<1>1. /\ api \in Apis /\ at = "idle" /\ st = Garbage /\ out = Garbage /\ res = 0
      /\ key = <<>> /\ msg = <<>>
  BY DEF Init
<1>2. SInv /\ SOnce /\ SKnown
  BY <1>1, InitS DEF SOnce, SKnown
<1>3. key \in Seq(Any) /\ msg \in Seq(Any) /\ Len(key) = 0
  BY <1>1, EmptySeq
<1>4. 0 <= BlockBytes /\ 0 <= BlockBytes2b
  BY Blake2Assumption, Blake2NodeAssumption
<1>5. Ks!TInv(Any)
  BY <1>1, <1>3, <1>4 DEF Ks!TInv, Ks!Known
<1>6. Kb!TInv(Any)
  BY <1>1, <1>3, <1>4 DEF Kb!TInv, Kb!Known
<1>7. Ks!XInv(Any)
  BY <1>1, <1>3, <1>4 DEF Ks!XInv, Ks!XKnown, Ks!Between, Ks!Running, Ks!Output
<1>8. Kb!XInv(Any)
  BY <1>1, <1>3, <1>4 DEF Kb!XInv, Kb!XKnown, Kb!Between, Kb!Running, Kb!Output
<1> QED
  BY <1>1, <1>2, <1>5, <1>6, <1>7, <1>8 DEF KInv

\* blake2s is finished once.
LEMMA SOnceKept ==
  ASSUME SInv, SOnce, api = "s", SInit \/ SUpdate \/ SFinal \/ SStep
  PROVE  SOnce' /\ (out # Garbage /\ out' # Garbage => out' = out)
<1>1. CASE SInit
  <2>1. PICK n \in Lens2s, k \in Keys2s : S!Blake2sInit(n, k) /\ UNCHANGED api
    BY <1>1 DEF SInit, In
  <2>2. CASE UNCHANGED <<at, st, in, out, key, msg>>
    BY <2>1, <2>2 DEF SOnce, Done, Ended, StParam
  <2>3. CASE out' = Garbage
    BY <2>3 DEF SOnce
  <2> QED
    BY <2>1, <2>2, <2>3 DEF S!Blake2sInit
<1>2. CASE SUpdate
  <2>1. out' = out /\ st # Garbage /\ ~st.f[1]
    BY <1>2 DEF SUpdate, S!Update, S!Finished, S!Started
  <2>2. out = Garbage
    BY <2>1, FlagTells DEF SOnce
  <2> QED
    BY <2>1, <2>2 DEF SOnce
<1>3. CASE SFinal
  <2>1. PICK n \in Lens2s : S!Final(n)
    BY <1>3 DEF SFinal
  <2>2. CASE S!NoDigest(n)
    <3>1. UNCHANGED <<at, st, in, out, key, msg, api>>
      BY <1>3, <2>1, <2>2 DEF S!Final, SFinal, In
    <3> QED
      BY <3>1 DEF SOnce, Done, Ended, StParam
  <2>3. CASE ~S!NoDigest(n)
    <3>1. out = Garbage
      BY <2>3, FlagTells DEF S!NoDigest, SOnce
    <3>2. Done'
      BY <2>1, <2>3, FinalMakes
    <3> QED
      BY <3>1, <3>2 DEF SOnce
  <2> QED
    BY <2>2, <2>3
<1>4. CASE SStep
  <2>1. out' = out /\ at # "idle"
    BY <1>4 DEF SStep, S!Step, S!UpdateFill, S!UpdateBlock, S!UpdateCopy
  <2>2. out = Garbage
    BY <2>1 DEF SOnce, Done
  <2> QED
    BY <2>1, <2>2 DEF SOnce
<1> QED
  BY <1>1, <1>2, <1>3, <1>4

\* The places of a call of blake2s, and its results.
LEMMA SKnownKept ==
  ASSUME SKnown, api = "s", SInit \/ SUpdate \/ SFinal \/ SStep
  PROVE  SKnown'
<1>1. CASE SInit
  BY <1>1 DEF SInit, In, S!Blake2sInit, SKnown
<1>2. CASE SUpdate
  BY <1>2 DEF SUpdate, In, S!Update, SKnown
<1>3. CASE SFinal
  <2>1. PICK n \in Lens2s : S!Final(n)
    BY <1>3 DEF SFinal
  <2>2. at' = at /\ res' \in {0, -1}
    BY <2>1 DEF S!Final
  <2> QED
    BY <2>2 DEF SKnown
<1>4. CASE SStep
  BY <1>4 DEF SStep, In, S!Step, S!UpdateFill, S!UpdateBlock, S!UpdateCopy, SKnown
<1> QED
  BY <1>1, <1>2, <1>3, <1>4

\* A step leaves it, and does not make a digest again.
LEMMA StepK == KInv /\ [Next]_vars => KInv' /\ (out # Garbage /\ out' # Garbage => out' = out)
<1> SUFFICES ASSUME KInv, [Next]_vars
             PROVE  KInv' /\ (out # Garbage /\ out' # Garbage => out' = out)
  OBVIOUS
<1>1. SInv'
  BY StepS DEF KInv
<1>2. CASE UNCHANGED vars
  <2>1. /\ api' = api /\ at' = at /\ st' = st /\ in' = in /\ loc' = loc /\ out' = out
        /\ res' = res /\ key' = key /\ msg' = msg
    BY <1>2 DEF vars
  <2>2. Ks!TInv(Any)' <=> Ks!TInv(Any)
    BY <2>1 DEF Ks!TInv, Ks!Known
  <2>3. Kb!TInv(Any)' <=> Kb!TInv(Any)
    BY <2>1 DEF Kb!TInv, Kb!Known
  <2>4. Ks!XInv(Any)' <=> Ks!XInv(Any)
    BY <2>1 DEF Ks!XInv, Ks!XKnown, Ks!Between, Ks!Running, Ks!Output
  <2>5. Kb!XInv(Any)' <=> Kb!XInv(Any)
    BY <2>1 DEF Kb!XInv, Kb!XKnown, Kb!Between, Kb!Running, Kb!Output
  <2> QED
    BY <1>1, <2>1, <2>2, <2>3, <2>4, <2>5 DEF KInv, SOnce, SKnown, Done, Ended, StParam
<1>3. CASE SInit \/ SUpdate \/ SFinal \/ SStep
  <2>1. api = "s" /\ api' = "s"
    BY <1>3 DEF SInit, SUpdate, SFinal, SStep, In
  <2>2. SOnce' /\ (out # Garbage /\ out' # Garbage => out' = out)
    BY <1>3, <2>1, SOnceKept DEF KInv
  <2>3. SKnown'
    BY <1>3, <2>1, SKnownKept DEF KInv
  <2> QED
    BY <1>1, <2>1, <2>2, <2>3 DEF KInv
<1>4. CASE SpInit \/ SpUpdate \/ SpFinal \/ SpOne \/ SpStep
  <2>1. api = "sp" /\ api' = "sp"
    BY <1>4 DEF SpInit, SpUpdate, SpFinal, SpOne, SpStep, In
  <2>2. Ks!TInv(Any)' /\ (out # Garbage /\ out' # Garbage => out' = out)
    BY <1>4, <2>1, SpKept DEF KInv
  <2> QED
    BY <1>1, <2>1, <2>2 DEF KInv, SOnce, SKnown
<1>5. CASE BpInit \/ BpUpdate \/ BpFinal \/ BpOne \/ BpStep
  <2>1. api = "bp" /\ api' = "bp"
    BY <1>5 DEF BpInit, BpUpdate, BpFinal, BpOne, BpStep, In
  <2>2. Kb!TInv(Any)' /\ (out # Garbage /\ out' # Garbage => out' = out)
    BY <1>5, <2>1, BpKept DEF KInv
  <2> QED
    BY <1>1, <2>1, <2>2 DEF KInv, SOnce, SKnown
<1>6. CASE XsInit \/ XsUpdate \/ XsFinal \/ XsOne \/ XsStep
  <2>1. api = "xs" /\ api' = "xs"
    BY <1>6 DEF XsInit, XsUpdate, XsFinal, XsOne, XsStep, In
  <2>2. Ks!XInv(Any)' /\ (out # Garbage /\ out' # Garbage => out' = out)
    BY <1>6, <2>1, XsKept DEF KInv
  <2> QED
    BY <1>1, <2>1, <2>2 DEF KInv, SOnce, SKnown
<1>7. CASE XbInit \/ XbUpdate \/ XbFinal \/ XbOne \/ XbStep
  <2>1. api = "xb" /\ api' = "xb"
    BY <1>7 DEF XbInit, XbUpdate, XbFinal, XbOne, XbStep, In
  <2>2. Kb!XInv(Any)' /\ (out # Garbage /\ out' # Garbage => out' = out)
    BY <1>7, <2>1, XbKept DEF KInv
  <2> QED
    BY <1>1, <2>1, <2>2 DEF KInv, SOnce, SKnown
<1> QED
  BY <1>2, <1>3, <1>4, <1>5, <1>6, <1>7 DEF Next, Step

\* The input is empty only if key and message are.
LEMMA SomeData ==
  ASSUME NEW k \in Seq(Byte), NEW m \in Seq(Byte), Len(k) <= BlockBytes, k \o m # <<>>
  PROVE  Data(k, m) \in Seq(Byte) /\ Len(Data(k, m)) > 0
<1>1. CASE k = <<>>
  <2>1. k \o m = m
    BY <1>1, ConcatEmptySeq
  <2> QED
    BY <1>1, <2>1, EmptySeq DEF Data
<1>2. CASE k # <<>>
  <2> DEFINE p == S!Pad(k)
  <2>1. p \in Seq(Byte) /\ Len(p) = BlockBytes
    BY PadElements
  <2>2. Data(k, m) = p \o m
    BY <1>2 DEF Data
  <2> HIDE DEF p
  <2>3. p \o m \in Seq(Byte) /\ Len(p \o m) = Len(p) + Len(m)
    BY <2>1, ConcatProperties
  <2> QED
    BY <2>1, <2>2, <2>3, Blake2NodeAssumption
<1> QED
  BY <1>1, <1>2

\* A context of blake2s is as it is said to be, finished or not.
LEMMA SShape ==
  ASSUME NEW P, NEW T, NEW d, NEW q, Fed(T, P, d, q)
  PROVE  /\ T.t \in Pair /\ T.f \in FlagPair /\ T.buflen \in 0..BlockBytes
         /\ Len(T.buf) = BlockBytes
         /\ (Waits(T) /\ q = <<>> /\ Len(d) > 0 => T.buflen > 0)
<1>1. /\ T.t \in Pair /\ T.f \in FlagPair /\ T.buflen \in 0..BlockBytes /\ T.buf \in Block
  BY DEF Fed, Node
<1>2. Len(T.buf) = BlockBytes
  BY <1>1, Blake2NodeAssumption DEF Block
<1>3. ASSUME Waits(T), q = <<>>, Len(d) > 0 PROVE T.buflen > 0
  <2>1. Splits(d, Blocks(T), T.buflen)
    BY <1>3, FedSplits
  <2>2. T.buflen = 0 => Blocks(T) = 0 /\ Len(d) = 0
    <3>1. ASSUME T.buflen = 0 PROVE Blocks(T) = 0 /\ Len(d) = 0
      <4>1. Blocks(T) = 0 /\ Len(d) = Blocks(T) * BlockBytes + T.buflen
        BY <2>1, <3>1 DEF Splits
      <4>2. Blocks(T) * BlockBytes = 0
        BY <4>1, Blake2NodeAssumption
      <4> QED
        BY <3>1, <4>1, <4>2
    <3> QED
      BY <3>1
  <2> QED
    BY <1>1, <1>3, <2>2
<1> QED
  BY <1>1, <1>2, <1>3

\* The type invariant of blake2s.
LEMMA STells ==
  ASSUME SInv, SKnown, api = "s"
  PROVE  S!TypeOK
<1> SUFFICES ASSUME st # Garbage
             PROVE  /\ st.t \in Pair /\ st.f \in FlagPair /\ st.buflen \in 0..BlockBytes
                    /\ Len(st.buf) = BlockBytes
                    /\ (at = "idle" /\ key \o msg # <<>> => st.buflen > 0)
  BY DEF SKnown, S!TypeOK, S!Started, S!Idle, Pair, FlagPair
<1>1. key \in Seq(Byte) /\ Len(key) <= BlockBytes /\ msg \in Seq(Byte) /\ (Taking \/ Done)
  BY Blake2NodeAssumption DEF SInv, Fresh
<1> DEFINE d == Data(key, msg)
           P == StParam
<1>2. key \o msg # <<>> => d \in Seq(Byte) /\ Len(d) > 0
  BY <1>1, SomeData
<1> HIDE DEF d, P
<1>3. CASE Taking
  <2>1. Fed(st, P, d, in) /\ (at = "idle" => in = <<>> /\ Waits(st))
    BY <1>3 DEF Taking, P, d
  <2> QED
    BY <1>2, <2>1, SShape
<1>4. CASE Done
  <2>1. PICK T : Fed(T, P, d, <<>>) /\ Waits(T) /\ T.outlen = st.outlen /\ st = Finale(T)
    BY <1>4 DEF Done, Ended, P, d
  <2>2. T.buflen \in 0..BlockBytes /\ (Len(d) > 0 => T.buflen > 0)
    BY <2>1, SShape
  <2>3. LastOf(T) \in Block /\ d \in Seq(Byte)
    BY <2>1, LastBlockIs DEF LastOf, Fed
  <2>4. Len(LastOf(T)) = BlockBytes
    BY <2>3, Blake2NodeAssumption DEF Block
  <2>5. Words(Len(d)) \in Pair
    BY <2>3, LenProperties, WordsType DEF Pair
  <2>6. LastFlag \in FlagPair
    BY DEF LastFlag, FlagPair
  <2>7. st.t = Words(Len(d)) /\ st.f = LastFlag /\ st.buflen = T.buflen /\ st.buf = LastOf(T)
    <3>1. st = Rec(P, Append(T.h.in, LastEntry(d, Blocks(T))), Words(Len(d)), LastFlag,
                   LastOf(T), T.buflen, T.outlen, T.last_node)
      BY <2>1, FinaleIs
    <3> QED
      BY <3>1 DEF Rec
  <2> QED
    BY <1>2, <2>2, <2>4, <2>5, <2>6, <2>7
<1> QED
  BY <1>1, <1>3, <1>4

\* The state of a context, of whichever kind: among the rest, the buffer of blake2s
\* is empty only until the first byte, the wide ones are never all full when a call
\* returns, and no leaf is then a block behind another.
THEOREM TypeCorrect == Spec => []TypeOK
<1>1. KInv => TypeOK
  BY STells, SpTells, BpTells, XsTells, XbTells DEF KInv, TypeOK
<1> QED
  BY <1>1, InitK, StepK, PTL DEF Spec

\* blake2sp and blake2bp: the digest is that of the tree over the message, in
\* whichever order the threads went, however the message was cut, in pieces or in
\* one call.
THEOREM TreeStreaming == Spec => []TreeStreamed
<1>1. KInv => TreeStreamed
  BY SpTells, BpTells DEF KInv, TreeStreamed
<1> QED
  BY <1>1, InitK, StepK, PTL DEF Spec

\* blake2sp and blake2bp: two messages, keys or lengths with one digest are a
\* collision of the compression function: the root tells the leaves' digests, the
\* leaves the bytes they were dealt, and each byte has a place in one of them.
THEOREM TreeSeparation == Spec => []TreeDistinct
<1>1. KInv => TreeDistinct
  BY SpTells, BpTells DEF KInv, TreeDistinct
<1> QED
  BY <1>1, InitK, StepK, PTL DEF Spec

\* blake2xs and blake2xb: no byte of the output comes twice while the numbers of
\* its blocks do not wrap.
THEOREM BlocksApart == Spec => []NoBlockTwice
<1>1. KInv => NoBlockTwice
  BY XsTells, XbTells DEF KInv, NoBlockTwice
<1> QED
  BY <1>1, InitK, StepK, PTL DEF Spec

\* What is never written is told from a context of blake2xs or blake2xb.
GarbageApart == Ks!Apart /\ Kb!Apart

\* blake2xs and blake2xb: the output is that of key, message and length, however
\* the message was cut, in pieces or in one call.
THEOREM XofStreaming ==
  ASSUME GarbageApart
  PROVE  Spec => []XofStreamed
<1>1. KInv => XofStreamed
  BY XsTells, XbTells DEF KInv, XofStreamed, GarbageApart
<1> QED
  BY <1>1, InitK, StepK, PTL DEF Spec

\* A digest is made once of a context: another final fails, and leaves the digest
\* as it is, for the trees although their leaves and root are given more by then.
THEOREM MadeOnce == Spec => DigestOnce
<1>1. KInv /\ [Next]_vars => [out # Garbage /\ out' # Garbage => out' = out]_vars
  BY StepK
<1> QED
  BY <1>1, InitK, StepK, PTL DEF Spec, DigestOnce

===============================================================================
