------------------------------- MODULE Golay -------------------------------
(***************************************************************************)
(* The extended Golay code of extra/golay/src/golay.c that protects the    *)
(* header of a datagram: 12 bits become 24, of which any three may be      *)
(* wrong.  A word of the code is the set of the positions of its one bits, *)
(* so that ^ is the symmetric difference, << adds to each position and     *)
(* popcount_2 is the cardinality.                                          *)
(*                                                                         *)
(* A symbol is encoded, its three bytes cross a channel that flips bits,   *)
(* and what arrives is decoded.                                            *)
(***************************************************************************)
EXTENDS Integers, FiniteSets, FiniteSetsExt

CONSTANTS
  Symbols,   \* the symbols that may be encoded
  FreeBits,  \* bits of the 24 of which the channel may flip any number
  MaxFlips,  \* bound: how many it flips otherwise
  Unset      \* what *out holds that nothing was assigned to: no word

Bits(x, w) == {j \in 0..(w - 1) : (x \div 2^j) % 2 = 1}
Rows(t, w) == [i \in 0..(Cardinality(DOMAIN t) - 1) |-> Bits(t[i + 1], w)]

P == Rows(<<\h08ed, \h01db, \h03b5, \h0769, \h0ed1, \h0da3,
            \h0b47, \h068f, \h0d1d, \h0a3b, \h0477, \h0ffe>>, 12)

Gt == Rows(<<\h08ed, \h01db, \h03b5, \h0769, \h0ed1, \h0da3,
             \h0b47, \h068f, \h0d1d, \h0a3b, \h0477, \h0ffe,
             \h0800, \h0400, \h0200, \h0100, \h0080, \h0040,
             \h0020, \h0010, \h0008, \h0004, \h0002, \h0001>>, 12)

H == Rows(<<\h8008ed, \h4001db, \h2003b5, \h100769, \h080ed1, \h040da3,
            \h020b47, \h01068f, \h008d1d, \h004a3b, \h002477, \h001ffe>>, 24)

\* The three tables of the code are one matrix: Gt is P above the identity, H
\* the identity beside P.
ASSUME TablesAssumption ==
  \A i \in 0..11 : /\ P[i] \subseteq 0..11
                   /\ Gt[i] = P[i] /\ Gt[12 + i] = {11 - i}
                   /\ H[i] = {23 - i} \cup P[i]

ASSUME SymbolsAssumption == Symbols \subseteq SUBSET (0..11)
ASSUME FlipAssumption == FreeBits \subseteq 0..23 /\ MaxFlips \in Nat
ASSUME UnsetAssumption == Unset \notin SUBSET (0..23)

(***************************************************************************)
(* golay2412_matrix_mul: the i-th of the n rows gives bit n - 1 - i of the *)
(* product.                                                                *)
(***************************************************************************)
Odd(S) == Cardinality(S) % 2 = 1

\* What makes P correct errors: it is symmetric about its other diagonal and its
\* own inverse, and its rows are long and far from each other.
ASSUME RowsAssumption ==
  \A i, j \in 0..11 :
    /\ 11 - j \in P[i] <=> 11 - i \in P[j]
    /\ Odd(P[i] \cap P[j]) <=> i = j
    /\ i = j => Cardinality(P[i]) \in {7, 11}
    /\ i # j => Cardinality(SymDiff(P[i], P[j])) >= 6

MatrixMul_Reversed(v, A, n) == {k \in 0..(n - 1) : Odd(A[k] \cap v)}

MatrixMul(v, A, n) == {k \in 0..(n - 1) : Odd(A[n - 1 - k] \cap v)}

Near_Three(v) == {i \in 0..11 : Cardinality(SymDiff(v, P[i])) <= 3}

Near(v) == {i \in 0..11 : Cardinality(SymDiff(v, P[i])) <= 2}

\* The first row of P near to v, -1 if there is none.
ParitySearch(v) ==
  IF Near(v) = {} THEN -1 ELSE CHOOSE i \in Near(v) : \A j \in Near(v) : i <= j

EncodeSymbol_NoParity(m) == m

EncodeSymbol(m) == MatrixMul(m, Gt, 24)

(***************************************************************************)
(* fec_golay2412_decode_symbol: from the syndrome of the word received,    *)
(* the error is guessed: up to three wrong bits in the parity half, or one *)
(* in the message half and two at most in the other, or the same with the  *)
(* halves exchanged; else decoding fails, and *out is not assigned to.     *)
(***************************************************************************)
Syndrome(r) == MatrixMul(r, H, 12)
High(S) == {j + 12 : j \in S}         \* S << 12

MessageBit_OneUp(i) == 12 - i

MessageBit(i) == 11 - i

ErrorOf(s) ==
  LET i  == ParitySearch(s)
      sP == MatrixMul(s, P, 12)
      j  == ParitySearch(sP)
  IN  IF Cardinality(s) <= 3 THEN High(s)
      ELSE IF i >= 0 THEN High(SymDiff(s, P[i])) \cup {MessageBit(i)}
      ELSE IF Cardinality(sP) \in {2, 3} THEN sP
      ELSE IF j >= 0 THEN High({MessageBit(j)}) \cup SymDiff(sP, P[j])
      ELSE Unset

DecodeSymbol_NoMask(r) ==
  LET e == ErrorOf(Syndrome(r))
  IN  IF e = Unset THEN [res |-> -1, out |-> Unset]
                   ELSE [res |-> Cardinality(e), out |-> SymDiff(r, e)]

DecodeSymbol(r) ==
  LET e == ErrorOf(Syndrome(r))
  IN  IF e = Unset
        THEN [res |-> -1, out |-> Unset]
        ELSE [res |-> Cardinality(e), out |-> SymDiff(r, e) \cap 0..11]

\* golay_encode12 and golay_decode12 hold the 24 bits in three bytes, the low
\* one first.
ToBytes(w) == [k \in 0..2 |-> {j \in 0..7 : 8 * k + j \in w}]
FromBytes(b) == {i \in 0..23 : i % 8 \in b[i \div 8]}

----------------------------------------------------------------------------
VARIABLES
  stage,  \* "idle", "air" or "decoded"
  sym,    \* the symbol encoded
  bytes,  \* the three bytes that hold the word
  flips,  \* history: the bits of the word that the channel has flipped
  res,    \* what golay_decode12 returned
  out     \* what it left in *out

vars == <<stage, sym, bytes, flips, res, out>>

Init ==
  /\ stage = "idle"
  /\ sym = {}
  /\ bytes = ToBytes({})
  /\ flips = {}
  /\ res = 0
  /\ out = Unset

Encode(m) ==
  /\ stage = "idle"
  /\ stage' = "air"
  /\ sym' = m
  /\ bytes' = ToBytes(EncodeSymbol(m))
  /\ UNCHANGED <<flips, res, out>>

\* The channel flips each bit once at most, in the order of their numbers: only
\* the set of them matters.
Flip(i) ==
  /\ stage = "air"
  /\ Cardinality(flips) < MaxFlips \/ flips \cup {i} \subseteq FreeBits
  /\ \A j \in flips : j < i
  /\ flips' = flips \cup {i}
  /\ bytes' = [bytes EXCEPT ![i \div 8] = SymDiff(@, {i % 8})]
  /\ UNCHANGED <<stage, sym, res, out>>

Decode ==
  /\ stage = "air"
  /\ stage' = "decoded"
  /\ LET d == DecodeSymbol(FromBytes(bytes))
     IN  res' = d.res /\ out' = d.out
  /\ UNCHANGED <<sym, bytes, flips>>

Next ==
  \/ \E m \in Symbols : Encode(m)
  \/ \E i \in 0..23 : Flip(i)
  \/ Decode

Spec == Init /\ [][Next]_vars

(***************************************************************************)
(* Properties.                                                             *)
(***************************************************************************)
\* The state is what the code's types allow: twelve bits are decoded, of the
\* sixteen that the caller has room for.
TypeOK ==
  /\ stage \in {"idle", "air", "decoded"}
  /\ sym \in SUBSET (0..11)
  /\ bytes \in [0..2 -> SUBSET (0..7)]
  /\ flips \in SUBSET (0..23)
  /\ res \in -1..24
  /\ out \in (SUBSET (0..11)) \cup {Unset}

\* golay_decode12 undoes up to three flipped bits and returns how many they were.
Corrects ==
  stage = "decoded" /\ Cardinality(flips) <= 3 =>
    res = Cardinality(flips) /\ out = sym

\* Four flipped bits are never taken for something else: decoding fails.
DetectsFour ==
  stage = "decoded" /\ Cardinality(flips) = 4 => res = -1

\* When golay_decode12 returns n >= 0, the word it was given is n bits away from
\* the encoding of the symbol it found, and n is at most three: however damaged
\* the word, the number of corrected bits is the true one for that symbol.
Honest ==
  stage = "decoded" /\ res >= 0 =>
    /\ res <= 3
    /\ Cardinality(SymDiff(FromBytes(bytes), EncodeSymbol(out))) = res

\* What decoding makes of an error does not depend on the symbol it befalls: it
\* is what it makes of the error alone, added to the symbol.
ErrorDecides ==
  stage = "decoded" =>
    LET e == DecodeSymbol(flips)
    IN  /\ res = e.res
        /\ out = IF e.out = Unset THEN Unset ELSE SymDiff(sym, e.out)
=============================================================================
