----------------------------- MODULE VarintCode -----------------------------
(***************************************************************************)
(* What cursor_pack_var_le_u32 and cursor_unpack_var_le_u32 do, call by    *)
(* call, as the datagram routines use them.  Varint has the loops that do  *)
(* it, and checks them against this.                                       *)
(*                                                                         *)
(* Seven bits of the number in each byte, low ones first; the eighth says  *)
(* that another byte follows.                                              *)
(***************************************************************************)
EXTENDS Cursor

CONSTANTS
  Group,     \* numbers one byte holds: 128
  Width,     \* numbers a uint32_t holds: 2^32
  MaxBytes   \* the most bytes that are read: sizeof(uint32_t) + 1

ASSUME GroupAssumption == Group \in Nat \ {0, 1} /\ ByteMod = 2 * Group
ASSUME MaxBytesAssumption ==
  /\ MaxBytes \in Nat \ {0}
  /\ Width \in Nat
  /\ Power(Group, MaxBytes - 1) < Width
  /\ Width <= Power(Group, MaxBytes)

IsExtended_Beyond(b) == b > Group

IsExtended(b) == b >= Group     \* the top bit

VarSize(v) == Min({k \in 1..MaxBytes : v < Power(Group, k)})
VarBytes(v) ==
  [i \in 1..VarSize(v) |->
     ((v \div Power(Group, i - 1)) % Group) + (IF i < VarSize(v) THEN Group ELSE 0)]

\* The bytes of a number that does not fit are put as far as there is room.
PutVar(c, v) ==
  LET s == VarBytes(v)
  IN  IF Fits(c, Len(s))
        THEN [res |-> "ok", csr |-> Put(c, s)]
        ELSE [res |-> "exhausted", csr |-> Put(c, SubSeq(s, 1, Remaining(c)))]

VarEnd_OrAll(c) ==
  Min({MaxBytes, Remaining(c)} \cup {k \in 1..MaxBytes : c.pos + k <= Len(c.buf)
                                             /\ ~IsExtended(c.buf[c.pos + k])})

\* Bytes are taken up to the first that says it is the last, but no more than
\* MaxBytes, and the bits beyond the width are lost.
VarEnd(c) ==
  Min({MaxBytes} \cup {k \in 1..MaxBytes : c.pos + k <= Len(c.buf)
                                          /\ ~IsExtended(c.buf[c.pos + k])})
VarValue(s) ==
  Total([i \in DOMAIN s |-> (s[i] % Group) * Power(Group, i - 1)], Len(s)) % Width
GetVar(c) ==
  IF Fits(c, VarEnd(c))
    THEN [res |-> "ok", csr |-> Advance(c, VarEnd(c)), val |-> VarValue(Taken(c, VarEnd(c)))]
    ELSE [res |-> "exhausted", csr |-> Advance(c, Remaining(c)), val |-> 0]
=============================================================================
