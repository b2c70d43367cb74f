------------------------------- MODULE Cursor -------------------------------
(***************************************************************************)
(* The cursor of extra/cursor: a buffer and a position, from which values  *)
(* are taken, or into which they are put, one after the other.  A call     *)
(* that would pass the end of the buffer does nothing and says so.         *)
(*                                                                         *)
(* A cursor is [buf, pos], pos bytes of buf being done with; len is that   *)
(* of buf.  Bytes have as many values as the model needs.                  *)
(***************************************************************************)
EXTENDS Integers, Sequences, FiniteSetsExt

CONSTANT ByteMod   \* values of a byte: 256

ASSUME ByteModAssumption == ByteMod \in Nat \ {0, 1}

\* b to the power n, and the sum of the first n members of s: by recursion, so
\* that there is something to prove about them.
Power(b, n) == LET p[k \in 0..n] == IF k = 0 THEN 1 ELSE b * p[k - 1] IN p[n]
Total(s, n) == LET t[k \in 0..n] == IF k = 0 THEN 0 ELSE t[k - 1] + s[k] IN t[n]

Blank == -1        \* a byte that nothing was written to

CursorNew(buf) == [buf |-> buf, pos |-> 0]

Fits_Short(c, n) == c.pos + n < Len(c.buf)
Fits_OneOver(c, n) == c.pos + n <= Len(c.buf) + 1

\* SIZE_CHECK, and the same test in cursor_take and cursor_put.
Fits(c, n) == c.pos + n <= Len(c.buf)

Remaining(c) == Len(c.buf) - c.pos

Advance(c, n) == [c EXCEPT !.pos = @ + n]

\* cursor_put and the cursor_pack functions, for the bytes s that fit.
Put(c, s) ==
  Advance([c EXCEPT !.buf = [i \in DOMAIN @ |->
             IF i \in (c.pos + 1)..(c.pos + Len(s)) THEN s[i - c.pos] ELSE @[i]]],
          Len(s))

\* cursor_take and the cursor_unpack functions, for n bytes that are there.
Taken(c, n) == SubSeq(c.buf, c.pos + 1, c.pos + n)

\* The little-endian bytes of a number of n bytes, and back.
PackLe(v, n) == [i \in 1..n |-> (v \div Power(ByteMod, i - 1)) % ByteMod]
UnpackLe(s) == Total([i \in DOMAIN s |-> s[i] * Power(ByteMod, i - 1)], Len(s))

\* cursor_put, of the bytes s: all of them or none.
PutAll(c, s) ==
  IF Fits(c, Len(s)) THEN [res |-> "ok", csr |-> Put(c, s)]
                     ELSE [res |-> "exhausted", csr |-> c]

\* cursor_unpack_le_*, of a number of n bytes.
GetLe(c, n) ==
  IF Fits(c, n) THEN [res |-> "ok", csr |-> Advance(c, n), val |-> UnpackLe(Taken(c, n))]
                ELSE [res |-> "exhausted", csr |-> c, val |-> 0]
=============================================================================
