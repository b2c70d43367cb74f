--------------------------- MODULE FingerprintProofs ---------------------------
(***************************************************************************)
(* Proofs about Fingerprint, for keys, payloads, numbers and blocks of any *)
(* size: what the device's routine and the router's have in common, and    *)
(* that what they hash is told apart.                                      *)
(***************************************************************************)
EXTENDS Fingerprint, Blake2NodeProofs

(***************************************************************************)
(* What the two routines hash.                                             *)
(***************************************************************************)
PayParam == SequentialParam(OutBytes, <<>>)
PayChain(p) == Whole(PayParam, p, FALSE)
FpParam(k) == SequentialParam(NumSize, HashKey(k))

\* All the bytes that are fed to the hash: of keys and payloads, of numbers, and of
\* the hashes of payloads.
NumberBytes ==
  {PackLe(v, HdrSize)[i] : v \in Hdr, i \in 1..HdrSize}
    \union {PackLe(v, NumSize)[i] : v \in Num, i \in 1..NumSize}
HashBytes == {[h |-> PayChain(p), i |-> i] : p \in Pay, i \in 1..OutBytes}
Any == Byte \union NumberBytes \union HashBytes

\* The input of the hash, in the order of the updates.
Input(k, q) ==
  ((((KeyData(HashKey(k)) \o q[1]) \o q[2]) \o q[3]) \o q[4]) \o q[5]

\* Five pieces, as both routines have them.
AnyPieces(q) ==
  /\ q[1] \in Seq(Any) /\ Len(q[1]) = HdrSize
  /\ q[2] \in Seq(Any) /\ Len(q[2]) = NumSize
  /\ q[3] \in Seq(Any) /\ Len(q[3]) = NumSize
  /\ q[4] \in Seq(Any) /\ Len(q[4]) = NumSize
  /\ q[5] \in Seq(Any) /\ Len(q[5]) = OutBytes

\* The sizes, as the lemmas need them.
LEMMA SizesHold ==
  /\ NumSize \in Nat \ {0} /\ OutBytes \in Nat \ {0} /\ HdrSize \in Nat /\ NumSize \in 1..OutBytes
  /\ KeyBytes \in Nat /\ KeyBytes <= BlockBytes /\ BlockBytes \in Nat \ {0}
  /\ Zero \in Any
BY FingerprintAssumption, Blake2NodeAssumption DEF Any

\* A key is a sequence of bytes, where there is none an empty one.
LEMMA KeyBytesAny == ASSUME NEW k \in Keys PROVE HashKey(k) \in Seq(Any) /\ HashKey(k) \in Seq(Byte)
<1>1. HashKey(k) \in Seq(Byte)
  BY FingerprintAssumption, EmptySeq DEF HashKey
<1>2. Byte \subseteq Any
  BY DEF Any
<1> QED
  BY <1>1, <1>2, SeqMore, Zenon

\* A key that is not too long.
LEMMA KeyFits ==
  ASSUME NEW k \in Keys, ~Fails(k)
  PROVE  HashKey(k) \in Seq(Any) /\ Len(HashKey(k)) <= KeyBytes /\ Len(HashKey(k)) <= BlockBytes
<1>1. HashKey(k) \in Seq(Any) /\ Len(HashKey(k)) \in Nat
  BY KeyBytesAny, LenProperties
<1>2. ~(Len(HashKey(k)) > KeyBytes)
  BY DEF Fails, Refused
<1> QED
  BY <1>1, <1>2, SizesHold

\* A digest is that of its chain value, in as many bytes as it was made for.
LEMMA DigestOf ==
  ASSUME NEW P, NEW T, NEW d, Fed(T, P, d, Any), T.last_node = FALSE, NEW n \in Nat, T.outlen = n
  PROVE  NodeFinal(T, n).out = Bytes(Whole(P, d, FALSE), n)
<1>1. Marked(T) /\ Room(T, n) /\ Zero \in Any
  <2>1. Marked(T)
    BY Zenon DEF Marked
  <2>2. Room(T, n)
    BY DEF Room
  <2> QED
    BY <2>1, <2>2, SizesHold
<1>2. Ends(NodeFinal(T, n), Whole(P, d, T.last_node), d, T, Any)
  BY <1>1, FinalFed
<1> QED
  BY <1>2 DEF Ends

\* lfc_payload_hash.
LEMMA PayHashIs ==
  ASSUME NEW p \in Pay
  PROVE  p \in Seq(Any) /\ PayHash(p) = Bytes(PayChain(p), OutBytes)
<1> DEFINE T == Keyed(InitParam(PayParam), <<>>)
<1>1. p \in Seq(Any)
  <2>1. p \in Seq(Byte) /\ Byte \subseteq Any
    BY FingerprintAssumption DEF Any
  <2> QED
    BY <2>1, SeqMore
<1>2. ~Refused(OutBytes, <<>>)
  BY SizesHold DEF Refused
<1>3. PayHash(p) = NodeFinal(NodeUpdate(T, p), OutBytes).out
  BY <1>2 DEF PayHash, OneCall, PayParam
<1>4. PayParam.digest_length = OutBytes
  BY DEF PayParam, SequentialParam
<1>5. T = InitParam(PayParam)
  BY DEF Keyed
<1>6. Fed(T, PayParam, <<>>, Any) /\ T.outlen = OutBytes /\ T.last_node = FALSE
  BY <1>4, <1>5, NewFed, SizesHold
<1> HIDE DEF T
<1>7. Joins(p, <<>>, p)
  BY <1>1 DEF Joins
<1>8. /\ Fed(NodeUpdate(T, p), PayParam, p, Any)
      /\ NodeUpdate(T, p).outlen = OutBytes /\ NodeUpdate(T, p).last_node = FALSE
  BY <1>1, <1>6, <1>7, UpdateFed
<1>9. NodeFinal(NodeUpdate(T, p), OutBytes).out = Bytes(Whole(PayParam, p, FALSE), OutBytes)
  <2> DEFINE U == NodeUpdate(T, p)
  <2>1. Fed(U, PayParam, p, Any) /\ U.outlen = OutBytes /\ U.last_node = FALSE /\ OutBytes \in Nat
    BY <1>8, SizesHold
  <2> HIDE DEF U
  <2>2. NodeFinal(U, OutBytes).out = Bytes(Whole(PayParam, p, FALSE), OutBytes)
    BY <2>1, DigestOf, ZenonT(60)
  <2> QED
    BY <2>2 DEF U
<1> QED
  BY <1>1, <1>3, <1>9 DEF PayChain

\* The updates feed the pieces one after the other.
LEMMA UpdatedFed ==
  ASSUME NEW P, NEW T, NEW d, Fed(T, P, d, Any), NEW q, AnyPieces(q)
  PROVE  /\ Fed(Updated(T, q), P, ((((d \o q[1]) \o q[2]) \o q[3]) \o q[4]) \o q[5], Any)
         /\ Updated(T, q).outlen = T.outlen /\ Updated(T, q).last_node = T.last_node
<1>1. /\ q[1] \in Seq(Any) /\ q[2] \in Seq(Any) /\ q[3] \in Seq(Any) /\ q[4] \in Seq(Any)
      /\ q[5] \in Seq(Any)
  BY DEF AnyPieces
<1> DEFINE Given(S, e) ==
             /\ Fed(S, P, e, Any) /\ S.outlen = T.outlen /\ S.last_node = T.last_node
<1>2. ASSUME NEW S, NEW e, Given(S, e), NEW s \in Seq(Any) PROVE Given(NodeUpdate(S, s), e \o s)
  <2> DEFINE f == e \o s
  <2>1. Joins(f, e, s)
    BY DEF Joins
  <2> HIDE DEF f
  <2> QED
    BY <1>2, <2>1, UpdateFed DEF f
<1>3. Given(T, d)
  OBVIOUS
<1> HIDE DEF Given
<1>4. Given(NodeUpdate(T, q[1]), d \o q[1])
  BY <1>1, <1>2, <1>3
<1>5. Given(NodeUpdate(NodeUpdate(T, q[1]), q[2]), (d \o q[1]) \o q[2])
  BY <1>1, <1>2, <1>4
<1>6. Given(NodeUpdate(NodeUpdate(NodeUpdate(T, q[1]), q[2]), q[3]), ((d \o q[1]) \o q[2]) \o q[3])
  BY <1>1, <1>2, <1>5
<1>7. Given(NodeUpdate(NodeUpdate(NodeUpdate(NodeUpdate(T, q[1]), q[2]), q[3]), q[4]),
           (((d \o q[1]) \o q[2]) \o q[3]) \o q[4])
  BY <1>1, <1>2, <1>6
<1>8. Given(Updated(T, q), ((((d \o q[1]) \o q[2]) \o q[3]) \o q[4]) \o q[5])
  BY <1>1, <1>2, <1>7 DEF Updated
<1> QED
  BY <1>8 DEF Given

\* A fingerprint.
LEMMA HashIs ==
  ASSUME NEW k \in Keys, ~Fails(k), NEW q, AnyPieces(q)
  PROVE  /\ Input(k, q) \in Seq(Any)
         /\ HashOf(k, q) = Bytes(Whole(FpParam(k), Input(k, q), FALSE), NumSize)
<1> DEFINE P == FpParam(k)
           j == HashKey(k)
           T == Begun(k)
           e == KeyData(j)
           f == ((((e \o q[1]) \o q[2]) \o q[3]) \o q[4]) \o q[5]
<1>1. j \in Seq(Any) /\ Len(j) <= BlockBytes /\ Zero \in Any
  BY KeyFits, SizesHold
<1>2. P.digest_length = NumSize
  BY DEF FpParam, SequentialParam
<1>3. T = Keyed(InitParam(P), j)
  BY DEF Begun, FpParam
<1> HIDE DEF P, j
<1>4. Fed(InitParam(P), P, <<>>, Any) /\ InitParam(P).outlen = NumSize /\ InitParam(P).last_node = FALSE
  BY <1>1, <1>2, NewFed
<1>5. Fed(T, P, e, Any) /\ T.outlen = NumSize /\ T.last_node = FALSE
  BY <1>1, <1>3, <1>4, KeyedFed
<1> HIDE DEF T, e
<1>6. Fed(Updated(T, q), P, f, Any) /\ Updated(T, q).outlen = NumSize
      /\ Updated(T, q).last_node = FALSE
  BY <1>5, UpdatedFed
<1>7. f \in Seq(Any)
  BY <1>6 DEF Fed
<1>8. f = Input(k, q)
  BY DEF Input, e, j
<1>9. HashOf(k, q) = NodeFinal(Updated(T, q), NumSize).out
  BY DEF HashOf, T
<1> HIDE DEF f
<1>10. NodeFinal(Updated(T, q), NumSize).out = Bytes(Whole(P, f, FALSE), NumSize)
  <2> DEFINE U == Updated(T, q)
  <2>1. Fed(U, P, f, Any) /\ U.outlen = NumSize /\ U.last_node = FALSE /\ NumSize \in Nat
    BY <1>6, SizesHold
  <2> HIDE DEF U
  <2>2. NodeFinal(U, NumSize).out = Bytes(Whole(P, f, FALSE), NumSize)
    BY <2>1, DigestOf, ZenonT(60)
  <2> QED
    BY <2>2 DEF U
<1> QED
  BY <1>7, <1>8, <1>9, <1>10 DEF P

\* One fingerprint is of one key and of the same pieces.
LEMMA HashTells ==
  ASSUME NEW k \in Keys, ~Fails(k), NEW q, AnyPieces(q),
         NEW j \in Keys, ~Fails(j), NEW r, AnyPieces(r), HashOf(k, q) = HashOf(j, r)
  PROVE  /\ HashKey(k) = HashKey(j)
         /\ q[1] = r[1] /\ q[2] = r[2] /\ q[3] = r[3] /\ q[4] = r[4] /\ q[5] = r[5]
<1>1. FpParam(k) = FpParam(j) /\ Input(k, q) = Input(j, r)
  <2>1. Input(k, q) \in Seq(Any) /\ Input(j, r) \in Seq(Any) /\ Zero \in Any
    BY HashIs, SizesHold
  <2>2. Bytes(Whole(FpParam(k), Input(k, q), FALSE), NumSize)
          = Bytes(Whole(FpParam(j), Input(j, r), FALSE), NumSize)
    BY HashIs
  <2>3. Whole(FpParam(k), Input(k, q), FALSE) = Whole(FpParam(j), Input(j, r), FALSE)
    BY <2>2, BytesTell, SizesHold
  <2> DEFINE P == FpParam(k)
             Q == FpParam(j)
             d == Input(k, q)
             e == Input(j, r)
             l == FALSE
  <2>4. d \in Seq(Any) /\ e \in Seq(Any) /\ Whole(P, d, l) = Whole(Q, e, l)
    BY <2>1, <2>3
  <2> HIDE DEF P, Q, d, e, l
  <2>5. P = Q /\ d = e
    BY <2>1, <2>4, WholeTells
  <2> QED
    BY <2>5 DEF P, Q, d, e
<1>2. Len(HashKey(k)) = Len(HashKey(j))
  <2>1. FpParam(k).key_length = Len(HashKey(k)) /\ FpParam(j).key_length = Len(HashKey(j))
    BY DEF FpParam, SequentialParam
  <2> QED
    BY <1>1, <2>1
<1> DEFINE a == KeyData(HashKey(k))
           b == KeyData(HashKey(j))
<1>3. /\ HashKey(k) \in Seq(Any) /\ Len(HashKey(k)) <= BlockBytes
      /\ HashKey(j) \in Seq(Any) /\ Len(HashKey(j)) <= BlockBytes /\ Zero \in Any
  BY KeyFits, SizesHold
<1>4. a \in Seq(Any) /\ b \in Seq(Any)
  BY <1>3, DataJoins, EmptySeq
<1>5. /\ q[1] \in Seq(Any) /\ q[2] \in Seq(Any) /\ q[3] \in Seq(Any) /\ q[4] \in Seq(Any)
      /\ q[5] \in Seq(Any)
      /\ r[1] \in Seq(Any) /\ r[2] \in Seq(Any) /\ r[3] \in Seq(Any) /\ r[4] \in Seq(Any)
      /\ r[5] \in Seq(Any)
      /\ Len(q[1]) = Len(r[1]) /\ Len(q[2]) = Len(r[2]) /\ Len(q[3]) = Len(r[3])
      /\ Len(q[4]) = Len(r[4]) /\ Len(q[5]) = Len(r[5])
  BY DEF AnyPieces
<1>6. ((((a \o q[1]) \o q[2]) \o q[3]) \o q[4]) \o q[5]
        = ((((b \o r[1]) \o r[2]) \o r[3]) \o r[4]) \o r[5]
  BY <1>1 DEF Input
<1> HIDE DEF a, b
<1> DEFINE a1 == a \o q[1]
           b1 == b \o r[1]
<1>7. a1 \in Seq(Any) /\ b1 \in Seq(Any)
  BY <1>4, <1>5, ConcatProperties
<1>8. (((a1 \o q[2]) \o q[3]) \o q[4]) \o q[5] = (((b1 \o r[2]) \o r[3]) \o r[4]) \o r[5]
  BY <1>6
<1> HIDE DEF a1, b1
<1> DEFINE a2 == a1 \o q[2]
           b2 == b1 \o r[2]
<1>9. a2 \in Seq(Any) /\ b2 \in Seq(Any)
  BY <1>5, <1>7, ConcatProperties
<1>10. ((a2 \o q[3]) \o q[4]) \o q[5] = ((b2 \o r[3]) \o r[4]) \o r[5]
  BY <1>8
<1> HIDE DEF a2, b2
<1> DEFINE a3 == a2 \o q[3]
           b3 == b2 \o r[3]
<1>11. a3 \in Seq(Any) /\ b3 \in Seq(Any)
  BY <1>5, <1>9, ConcatProperties
<1>12. (a3 \o q[4]) \o q[5] = (b3 \o r[4]) \o r[5]
  BY <1>10
<1> HIDE DEF a3, b3
<1> DEFINE a4 == a3 \o q[4]
           b4 == b3 \o r[4]
<1>13. a4 \in Seq(Any) /\ b4 \in Seq(Any)
  BY <1>5, <1>11, ConcatProperties
<1>14. a4 \o q[5] = b4 \o r[5]
  BY <1>12
<1> HIDE DEF a4, b4
<1>15. a4 = b4 /\ q[5] = r[5]
  <2> DEFINE x == q[5]
             y == r[5]
             w == a4 \o x
  <2>1. Joins(w, a4, x) /\ Joins(w, b4, y)
    BY <1>14 DEF Joins
  <2>2. a4 \in Seq(Any) /\ b4 \in Seq(Any) /\ x \in Seq(Any) /\ y \in Seq(Any) /\ Len(x) = Len(y)
    BY <1>5, <1>13
  <2> HIDE DEF x, y, w
  <2>3. a4 = b4 /\ x = y
    BY <2>1, <2>2, ConcatTells
  <2> QED
    BY <2>3 DEF x, y
<1>16. a3 = b3 /\ q[4] = r[4]
  <2> DEFINE x == q[4]
             y == r[4]
             w == a4
  <2>1. Joins(w, a3, x) /\ Joins(w, b3, y)
    BY <1>15 DEF Joins, a4, b4
  <2>2. a3 \in Seq(Any) /\ b3 \in Seq(Any) /\ x \in Seq(Any) /\ y \in Seq(Any) /\ Len(x) = Len(y)
    BY <1>5, <1>11
  <2> HIDE DEF x, y, w
  <2>3. a3 = b3 /\ x = y
    BY <2>1, <2>2, ConcatTells
  <2> QED
    BY <2>3 DEF x, y
<1>17. a2 = b2 /\ q[3] = r[3]
  <2> DEFINE x == q[3]
             y == r[3]
             w == a3
  <2>1. Joins(w, a2, x) /\ Joins(w, b2, y)
    BY <1>16 DEF Joins, a3, b3
  <2>2. a2 \in Seq(Any) /\ b2 \in Seq(Any) /\ x \in Seq(Any) /\ y \in Seq(Any) /\ Len(x) = Len(y)
    BY <1>5, <1>9
  <2> HIDE DEF x, y, w
  <2>3. a2 = b2 /\ x = y
    BY <2>1, <2>2, ConcatTells
  <2> QED
    BY <2>3 DEF x, y
<1>18. a1 = b1 /\ q[2] = r[2]
  <2> DEFINE x == q[2]
             y == r[2]
             w == a2
  <2>1. Joins(w, a1, x) /\ Joins(w, b1, y)
    BY <1>17 DEF Joins, a2, b2
  <2>2. a1 \in Seq(Any) /\ b1 \in Seq(Any) /\ x \in Seq(Any) /\ y \in Seq(Any) /\ Len(x) = Len(y)
    BY <1>5, <1>7
  <2> HIDE DEF x, y, w
  <2>3. a1 = b1 /\ x = y
    BY <2>1, <2>2, ConcatTells
  <2> QED
    BY <2>3 DEF x, y
<1>19. a = b /\ q[1] = r[1]
  <2> DEFINE x == q[1]
             y == r[1]
             w == a1
  <2>1. Joins(w, a, x) /\ Joins(w, b, y)
    BY <1>18 DEF Joins, a1, b1
  <2>2. a \in Seq(Any) /\ b \in Seq(Any) /\ x \in Seq(Any) /\ y \in Seq(Any) /\ Len(x) = Len(y)
    BY <1>5, <1>4
  <2> HIDE DEF x, y, w
  <2>3. a = b /\ x = y
    BY <2>1, <2>2, ConcatTells
  <2> QED
    BY <2>3 DEF x, y
<1>20. HashKey(k) = HashKey(j)
  BY <1>2, <1>3, <1>19, KeyDataTells DEF a, b
<1> QED
  BY <1>15, <1>16, <1>17, <1>18, <1>19, <1>20

(***************************************************************************)
(* The fields, in memory.                                                  *)
(***************************************************************************)
\* The bytes of a number, which is told by them.
LEMMA NativeTells ==
  ASSUME NEW o \in Orders, NEW N, NEW n \in Nat, Fit(N, n), NEW v \in N, NEW w \in N,
         Native(o, v, n) = Native(o, w, n)
  PROVE  v = w
<1> DEFINE x == PackLe(v, n)
           y == PackLe(w, n)
           At(i) == IF o = "little" THEN i ELSE n + 1 - i
<1>1. \A i \in 1..n : x[At(i)] = y[At(i)]
  <2> SUFFICES ASSUME NEW i \in 1..n PROVE x[At(i)] = y[At(i)]
    OBVIOUS
  <2>1. Native(o, v, n)[i] = x[At(i)] /\ Native(o, w, n)[i] = y[At(i)]
    BY DEF Native
  <2> QED
    BY <2>1
<1>2. \A i \in 1..n : At(i) \in 1..n /\ At(At(i)) = i
  OBVIOUS
<1>3. DOMAIN x = 1..n /\ DOMAIN y = 1..n /\ x = [i \in 1..n |-> x[i]] /\ y = [i \in 1..n |-> y[i]]
  BY DEF PackLe
<1> HIDE DEF x, y, At
<1>4. \A i \in 1..n : x[i] = y[i]
  BY <1>1, <1>2
<1>5. x = y
  BY <1>3, <1>4
<1> QED
  BY <1>5 DEF Fit, x, y

\* A number that is fed to the hash.
LEMMA NativeAny ==
  ASSUME NEW o \in Orders
  PROVE  /\ \A v \in Hdr : Native(o, v, HdrSize) \in Seq(Any) /\ Len(Native(o, v, HdrSize)) = HdrSize
         /\ \A v \in Num : Native(o, v, NumSize) \in Seq(Any) /\ Len(Native(o, v, NumSize)) = NumSize
<1> DEFINE At(i, n) == IF o = "little" THEN i ELSE n + 1 - i
<1>1. \A n \in Nat : \A i \in 1..n : At(i, n) \in 1..n
  OBVIOUS
<1>2. ASSUME NEW n \in Nat, NEW v, \A i \in 1..n : PackLe(v, n)[i] \in Any
      PROVE  Native(o, v, n) \in Seq(Any) /\ Len(Native(o, v, n)) = n
  <2>1. Native(o, v, n) = [i \in 1..n |-> PackLe(v, n)[At(i, n)]]
    BY DEF Native
  <2> HIDE DEF At
  <2>2. Native(o, v, n) \in [1..n -> Any]
    BY <1>1, <1>2, <2>1
  <2> QED
    BY <2>2
<1>3. \A v \in Hdr : \A i \in 1..HdrSize : PackLe(v, HdrSize)[i] \in NumberBytes
  BY DEF NumberBytes
<1>4. \A v \in Num : \A i \in 1..NumSize : PackLe(v, NumSize)[i] \in NumberBytes
  BY DEF NumberBytes
<1>5. NumberBytes \subseteq Any
  BY DEF Any
<1>6. HdrSize \in Nat /\ NumSize \in Nat
  BY SizesHold
<1> QED
  BY <1>2, <1>3, <1>4, <1>5, <1>6

\* The hash of a payload.
LEMMA PayHashAny ==
  ASSUME NEW p \in Pay
  PROVE  PayHash(p) \in Seq(Any) /\ Len(PayHash(p)) = OutBytes
<1>1. PayHash(p) = [i \in 1..OutBytes |-> [h |-> PayChain(p), i |-> i]]
  BY PayHashIs DEF Bytes
<1>2. \A i \in 1..OutBytes : [h |-> PayChain(p), i |-> i] \in HashBytes
  BY DEF HashBytes
<1>3. HashBytes \subseteq Any /\ OutBytes \in Nat
  BY SizesHold DEF Any
<1>4. PayHash(p) \in [1..OutBytes -> Any]
  BY <1>1, <1>2, <1>3
<1> QED
  BY <1>3, <1>4

\* It is the hash of no other.
LEMMA PayHashTells ==
  ASSUME NEW p \in Pay, NEW q \in Pay, PayHash(p) = PayHash(q)
  PROVE  p = q
<1>1. PayChain(p) = PayChain(q)
  BY PayHashIs, BytesTell, SizesHold
<1> DEFINE l == FALSE
           P == PayParam
<1>2. Whole(P, p, l) = Whole(P, q, l)
  BY <1>1 DEF PayChain
<1>3. p \in Seq(Any) /\ q \in Seq(Any) /\ Zero \in Any
  BY PayHashIs, SizesHold
<1> HIDE DEF l, P
<1> QED
  BY <1>2, <1>3, WholeTells

\* The parts of what a fingerprint is made of.
LEMMA ArgsParts ==
  ASSUME NEW a \in Args
  PROVE  /\ a.key \in Keys /\ a.hdr \in Hdr /\ a.oui \in Num /\ a.did \in Num /\ a.seq \in Num
         /\ a.pay \in Pay
BY DEF Args

\* Both routines have the same pieces, of known lengths.
LEMMA PiecesAny ==
  ASSUME NEW o \in Orders, NEW a \in Args
  PROVE  /\ VerifyPieces(o, a, PayHash(a.pay)) = FingerprintPieces(o, a, PayHash(a.pay))
         /\ AnyPieces(VerifyPieces(o, a, PayHash(a.pay)))
<1> DEFINE h == PayHash(a.pay)
           q == VerifyPieces(o, a, h)
           s1 == Native(o, a.hdr, HdrSize)
           s2 == Native(o, a.oui, NumSize)
           s3 == Native(o, a.did, NumSize)
           s4 == Native(o, a.seq, NumSize)
<1>1. q = FingerprintPieces(o, a, h)
  BY DEF VerifyPieces, FingerprintPieces
<1>2. /\ s1 \in Seq(Any) /\ Len(s1) = HdrSize /\ s2 \in Seq(Any) /\ Len(s2) = NumSize
      /\ s3 \in Seq(Any) /\ Len(s3) = NumSize /\ s4 \in Seq(Any) /\ Len(s4) = NumSize
  BY ArgsParts, NativeAny
<1>3. h \in Seq(Any) /\ Len(h) = OutBytes
  BY ArgsParts, PayHashAny
<1>4. q = <<s1, s2, s3, s4, h>>
  BY DEF VerifyPieces
<1> HIDE DEF q, s1, s2, s3, s4, h
<1>5. q[1] = s1 /\ q[2] = s2 /\ q[3] = s3 /\ q[4] = s4 /\ q[5] = h
  BY <1>4
<1>6. AnyPieces(q)
  BY <1>2, <1>3, <1>5 DEF AnyPieces
<1> QED
  BY <1>1, <1>6 DEF q, h

\* Nor do they come from other fields.
LEMMA PiecesTell ==
  ASSUME NEW o \in Orders, NEW a \in Args, NEW b \in Args, NEW q, NEW r,
         q = VerifyPieces(o, a, PayHash(a.pay)), r = VerifyPieces(o, b, PayHash(b.pay)),
         q[1] = r[1], q[2] = r[2], q[3] = r[3], q[4] = r[4], q[5] = r[5]
  PROVE  a.hdr = b.hdr /\ a.oui = b.oui /\ a.did = b.did /\ a.seq = b.seq /\ a.pay = b.pay
<1>1. /\ q[1] = Native(o, a.hdr, HdrSize) /\ q[2] = Native(o, a.oui, NumSize)
      /\ q[3] = Native(o, a.did, NumSize) /\ q[4] = Native(o, a.seq, NumSize)
      /\ q[5] = PayHash(a.pay)
  BY DEF VerifyPieces
<1>2. /\ r[1] = Native(o, b.hdr, HdrSize) /\ r[2] = Native(o, b.oui, NumSize)
      /\ r[3] = Native(o, b.did, NumSize) /\ r[4] = Native(o, b.seq, NumSize)
      /\ r[5] = PayHash(b.pay)
  BY DEF VerifyPieces
<1>3. /\ Native(o, a.hdr, HdrSize) = Native(o, b.hdr, HdrSize)
      /\ Native(o, a.oui, NumSize) = Native(o, b.oui, NumSize)
      /\ Native(o, a.did, NumSize) = Native(o, b.did, NumSize)
      /\ Native(o, a.seq, NumSize) = Native(o, b.seq, NumSize)
      /\ PayHash(a.pay) = PayHash(b.pay)
  BY <1>1, <1>2
<1>4. HdrSize \in Nat /\ NumSize \in Nat /\ Fit(Hdr, HdrSize) /\ Fit(Num, NumSize)
  BY FingerprintAssumption, SizesHold
<1>5. /\ a.hdr \in Hdr /\ a.oui \in Num /\ a.did \in Num /\ a.seq \in Num /\ a.pay \in Pay
      /\ b.hdr \in Hdr /\ b.oui \in Num /\ b.did \in Num /\ b.seq \in Num /\ b.pay \in Pay
  BY ArgsParts
<1>6. a.hdr = b.hdr
  BY <1>3, <1>4, <1>5, NativeTells
<1>7. a.oui = b.oui
  BY <1>3, <1>4, <1>5, NativeTells
<1>8. a.did = b.did
  BY <1>3, <1>4, <1>5, NativeTells
<1>9. a.seq = b.seq
  BY <1>3, <1>4, <1>5, NativeTells
<1>10. a.pay = b.pay
  BY <1>3, <1>5, PayHashTells
<1> QED
  BY <1>6, <1>7, <1>8, <1>9, <1>10

(***************************************************************************)
(* The invariant: what each routine returned, and for what.                *)
(***************************************************************************)
Made(a, o) == HashOf(a.key, FingerprintPieces(o, a, PayHash(a.pay)))

HeldOut ==
  IF made = Nothing THEN fp = Placeholder
                    ELSE made \in Args /\ ~Fails(made.key) /\ fp = Made(made, order.device)

FInv ==
  /\ order \in [device : Orders, router : Orders]
  /\ at \in {"device", "verified", "aborted"}
  /\ HeldOut
  /\ at = "verified" =>
       /\ asked \in Args
       /\ vres = VerifyResult(order.router, fp, asked.key, PayHash(asked.pay), asked)

\* It holds at first,
LEMMA InitF == Init => FInv
BY DEF Init, FInv, HeldOut

\* and each of the two calls keeps it, with *out as it was or made anew.
LEMMA StepF == FInv /\ [Next]_vars => FInv'
<1> SUFFICES ASSUME FInv, [Next]_vars PROVE FInv'
  OBVIOUS
<1> USE DEF FInv
<1>1. ASSUME NEW a \in Args, FingerprintMonolithic(a) PROVE FInv'
  <2>0. order' = order /\ asked' = asked /\ vres' = vres /\ at = "device"
        /\ at' \in {"device", "aborted"}
    BY <1>1 DEF FingerprintMonolithic
  <2>1. CASE Fails(a.key)
    <3>1. HeldOut'
      BY <1>1, <2>1 DEF FingerprintMonolithic, HeldOut, Made
    <3> QED
      BY <2>0, <3>1
  <2>2. CASE ~Fails(a.key)
    <3>1. made' = a /\ fp' = Made(a, order.device)
      BY <1>1, <2>2 DEF FingerprintMonolithic, Made
    <3>2. a # Nothing
      BY NothingAssumption
    <3>3. HeldOut'
      BY <2>0, <2>2, <3>1, <3>2 DEF HeldOut, Made
    <3> QED
      BY <2>0, <3>3
  <2> QED
    BY <2>1, <2>2
<1>2. ASSUME NEW a \in Args, FingerprintVerify(a) PROVE FInv'
  <2>1. HeldOut'
    BY <1>2 DEF FingerprintVerify, HeldOut, Made
  <2> QED
    BY <1>2, <2>1 DEF FingerprintVerify
<1>3. CASE UNCHANGED vars
  <2>1. HeldOut'
    BY <1>3 DEF vars, HeldOut, Made
  <2> QED
    BY <1>3, <2>1 DEF vars
<1> QED
  BY <1>1, <1>2, <1>3 DEF Next

\* What was made of one thing is accepted for the same only.
LEMMA AcceptedTells ==
  ASSUME NEW o \in Orders, NEW a \in Args, NEW b \in Args, ~Fails(a.key)
  PROVE  VerifyResult(o, Made(a, o), b.key, PayHash(b.pay), b) = "ok"
           <=> /\ HashKey(a.key) = HashKey(b.key)
               /\ a.hdr = b.hdr /\ a.oui = b.oui /\ a.did = b.did /\ a.seq = b.seq /\ a.pay = b.pay
<1> DEFINE q == VerifyPieces(o, a, PayHash(a.pay))
           r == VerifyPieces(o, b, PayHash(b.pay))
           Same == /\ HashKey(a.key) = HashKey(b.key)
                   /\ a.hdr = b.hdr /\ a.oui = b.oui /\ a.did = b.did /\ a.seq = b.seq
                   /\ a.pay = b.pay
<1>1. Made(a, o) = HashOf(a.key, q) /\ AnyPieces(q) /\ AnyPieces(r)
  BY PiecesAny DEF Made
<1>2. VerifyResult(o, Made(a, o), b.key, PayHash(b.pay), b) = "ok"
        <=> ~Fails(b.key) /\ HashOf(a.key, q) = HashOf(b.key, r)
  BY <1>1 DEF VerifyResult
<1>3. ASSUME ~Fails(b.key), HashOf(a.key, q) = HashOf(b.key, r) PROVE Same
  <2>1. a.key \in Keys /\ b.key \in Keys
    BY ArgsParts
  <2> HIDE DEF q, r
  <2>2. /\ HashKey(a.key) = HashKey(b.key)
        /\ q[1] = r[1] /\ q[2] = r[2] /\ q[3] = r[3] /\ q[4] = r[4] /\ q[5] = r[5]
    BY <1>1, <1>3, <2>1, HashTells
  <2>3. a.hdr = b.hdr /\ a.oui = b.oui /\ a.did = b.did /\ a.seq = b.seq /\ a.pay = b.pay
    BY <2>2, PiecesTell DEF q, r
  <2> QED
    BY <2>2, <2>3
<1>4. ASSUME Same PROVE ~Fails(b.key) /\ HashOf(a.key, q) = HashOf(b.key, r)
  <2>1. q = r
    BY <1>4 DEF VerifyPieces
  <2>2. \A p : HashOf(a.key, p) = HashOf(b.key, p)
    BY <1>4 DEF HashOf, Begun
  <2>3. ~Fails(b.key)
    BY <1>4 DEF Fails
  <2> QED
    BY <2>1, <2>2, <2>3
<1> QED
  BY <1>2, <1>3, <1>4

\* The key that is hashed and the other fields are all that SameArgs compares.
LEMMA SameIs ==
  ASSUME NEW a \in Args, NEW b \in Args
  PROVE  SameArgs(a, b)
           <=> /\ HashKey(a.key) = HashKey(b.key)
               /\ a.hdr = b.hdr /\ a.oui = b.oui /\ a.did = b.did /\ a.seq = b.seq /\ a.pay = b.pay
<1>1. HashKey(a.key) = HashKey(b.key) <=> a.key = b.key \/ {a.key, b.key} = {Null, <<>>}
  BY DEF HashKey
<1>2. [a EXCEPT !.key = Null] = [b EXCEPT !.key = Null]
        <=> a.hdr = b.hdr /\ a.oui = b.oui /\ a.did = b.did /\ a.seq = b.seq /\ a.pay = b.pay
  BY DEF Args
<1> QED
  BY <1>1, <1>2 DEF SameArgs

\* A fingerprint is accepted for what it was made of and for nothing else, whatever
\* the keys, numbers and payloads and however many calls, refused ones among them,
\* went before, unless the hash has a collision.
THEOREM Verification == Spec => []Verified
<1>1. FInv => Verified
  <2> SUFFICES ASSUME FInv, at = "verified", made # Nothing, order.device = order.router
               PROVE  vres = "ok" <=> SameArgs(made, asked)
    BY DEF Verified
  <2> DEFINE o == order.router
  <2>1. /\ o \in Orders /\ made \in Args /\ asked \in Args /\ ~Fails(made.key)
        /\ fp = Made(made, o) /\ vres = VerifyResult(o, fp, asked.key, PayHash(asked.pay), asked)
    BY DEF FInv, HeldOut
  <2> QED
    BY <2>1, AcceptedTells, SameIs
<1> QED
  BY <1>1, InitF, StepF, PTL DEF Spec

\* What *out held at first is no fingerprint.
PlaceholderApart == \A h : Placeholder # Bytes(h, NumSize)

\* A fingerprint is the digest of something.
LEMMA MadeIs ==
  ASSUME NEW o \in Orders, NEW a \in Args, ~Fails(a.key)
  PROVE  \E h : Made(a, o) = Bytes(h, NumSize)
<1> DEFINE q == VerifyPieces(o, a, PayHash(a.pay))
<1>1. Made(a, o) = HashOf(a.key, q) /\ AnyPieces(q) /\ a.key \in Keys
  BY PiecesAny, ArgsParts DEF Made
<1> HIDE DEF q
<1>2. HashOf(a.key, q) = Bytes(Whole(FpParam(a.key), Input(a.key, q), FALSE), NumSize)
  BY <1>1, HashIs
<1> QED
  BY <1>1, <1>2

\* lfc_fingerprint_monolithic aborts only when *out is what an earlier call left for
\* the same key and datagram: when what *out held at first is no fingerprint.
THEOREM Asserted ==
  ASSUME PlaceholderApart
  PROVE  Spec => AssertsHold
<1> DEFINE Due == at' = "aborted" => made # Nothing /\ SameArgs(made, made')
<1>1. FInv /\ [Next]_vars => [Due]_vars
  <2> SUFFICES ASSUME FInv, Next, at' = "aborted" PROVE made # Nothing /\ SameArgs(made, made')
    OBVIOUS
  <2>1. PICK a \in Args : FingerprintMonolithic(a)
    BY DEF Next, FingerprintVerify
  <2> DEFINE o == order.device
             new == Made(a, o)
  <2>2. ~Fails(a.key) /\ o \in Orders
    BY <2>1 DEF FingerprintMonolithic, FInv
  <2>3. VerifyResult(o, new, a.key, PayHash(a.pay), a) = "ok"
    BY <2>2, AcceptedTells
  <2>4. /\ made' = a /\ fp' = new
        /\ fp' = fp \/ VerifyResult(o, fp', a.key, PayHash(a.pay), a) # "ok"
    BY <2>1, <2>2 DEF FingerprintMonolithic, Made
  <2>5. fp = new
    BY <2>3, <2>4
  <2>6. made # Nothing
    <3>1. \E h : new = Bytes(h, NumSize)
      BY <2>2, MadeIs
    <3> QED
      BY <2>5, <3>1 DEF FInv, HeldOut, PlaceholderApart
  <2>7. made \in Args /\ ~Fails(made.key) /\ fp = Made(made, o)
    BY <2>6 DEF FInv, HeldOut
  <2>8. VerifyResult(o, Made(made, o), a.key, PayHash(a.pay), a) = "ok"
    BY <2>3, <2>5, <2>7
  <2>9. SameArgs(made, a)
    BY <2>2, <2>7, <2>8, AcceptedTells, SameIs
  <2> QED
    BY <2>4, <2>6, <2>9
<1>2. Spec => [][Due]_vars
  BY <1>1, InitF, StepF, PTL DEF Spec
<1> QED
  BY <1>2 DEF AssertsHold

================================================================================
