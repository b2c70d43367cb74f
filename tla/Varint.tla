------------------------------- MODULE Varint -------------------------------
(***************************************************************************)
(* The loops of cursor_pack_var_le_u32 and cursor_unpack_var_le_u32, byte  *)
(* by byte.  A caller packs numbers into a buffer until it has enough or   *)
(* there is no more room, and then unpacks what it packed; or it unpacks   *)
(* bytes from elsewhere.                                                   *)
(***************************************************************************)
EXTENDS VarintCode, SequencesExt

CONSTANTS
  Capacity,  \* sizes of the buffers packed into
  Foreign,   \* buffers that were not packed here
  MaxCalls   \* bound: numbers packed

\* What is known of the buffers.
Buffers ==
  /\ Capacity \subseteq Nat
  /\ Foreign \subseteq Seq(0..(ByteMod - 1))

ASSUME VarintAssumption == Buffers /\ MaxCalls \in Nat

VARIABLES
  csr,     \* the cursor
  op,      \* the call in progress, or "idle"
  val,     \* what is left to pack; or out, what is unpacked so far
  i,       \* the loop counter of cursor_unpack_var_le_u32
  res,     \* what the last call returned
  dst,     \* what the caller's *dst holds
  mode,    \* "pack", "unpack" or "foreign": what the caller is at
  before,  \* history: the cursor when the last call began, if any
  arg,     \* history: the number to pack
  packed,  \* history: the numbers packed
  read     \* history: the numbers unpacked

vars == <<csr, op, val, i, res, dst, mode, before, arg, packed, read>>
history == <<mode, before, arg, packed, read>>

Numbers == 0..(Width - 1)

Init ==
  /\ \/ mode = "pack" /\ \E n \in Capacity : csr = CursorNew([k \in 1..n |-> Blank])
     \/ mode = "foreign" /\ \E buf \in Foreign : csr = CursorNew(buf)
  /\ op = "idle"
  /\ val = 0
  /\ i = 0
  /\ res = "ok"
  /\ dst = 0
  /\ before = <<>>
  /\ arg = 0
  /\ packed = <<>>
  /\ read = <<>>

Return(r) == op' = "idle" /\ res' = r

(***************************************************************************)
(* cursor_pack_var_le_u32.                                                 *)
(***************************************************************************)
CallPack(v) ==
  /\ op = "idle" /\ mode = "pack" /\ res = "ok"
  /\ Len(packed) < MaxCalls
  /\ op' = "pack"
  /\ val' = v
  /\ arg' = v
  /\ before' = <<csr>>
  /\ UNCHANGED <<csr, i, res, dst, mode, packed, read>>

\* cursor_pack_le_u8, which returns err_buf_exhausted or has put the byte.
PackByte(b) == csr' = IF Fits(csr, 1) THEN Put(csr, <<b>>) ELSE csr

NeedsMore_OneLess(v) == v > Group

NeedsMore(v) == v > Group - 1

PackMore ==
  /\ op = "pack" /\ NeedsMore(val)
  /\ PackByte((val % Group) + Group)
  /\ \/ Fits(csr, 1) /\ val' = val \div Group /\ UNCHANGED <<op, res>>
     \/ ~Fits(csr, 1) /\ Return("exhausted") /\ UNCHANGED val
  /\ UNCHANGED <<i, dst, history>>

PackLast ==
  /\ op = "pack" /\ ~NeedsMore(val)
  /\ PackByte(val % Group)
  /\ Return(IF Fits(csr, 1) THEN "ok" ELSE "exhausted")
  /\ packed' = IF Fits(csr, 1) THEN Append(packed, arg) ELSE packed
  /\ UNCHANGED <<val, i, dst, mode, before, arg, read>>

(***************************************************************************)
(* The caller turns to reading what it wrote.                              *)
(***************************************************************************)
Rewind ==
  /\ op = "idle" /\ mode = "pack"
  /\ mode' = "unpack"
  /\ csr' = CursorNew(SubSeq(csr.buf, 1, csr.pos))
  /\ res' = "ok"
  /\ before' = <<>>
  /\ UNCHANGED <<op, val, i, dst, arg, packed, read>>

(***************************************************************************)
(* cursor_unpack_var_le_u32.                                               *)
(***************************************************************************)
CallUnpack ==
  /\ op = "idle" /\ mode # "pack" /\ res = "ok"
  /\ op' = "unpack"
  /\ val' = 0
  /\ i' = 0
  /\ before' = <<csr>>
  /\ UNCHANGED <<csr, res, dst, mode, arg, packed, read>>

UnpackNone_Stores ==
  /\ op = "unpack" /\ ~Fits(csr, 1)
  /\ Return("exhausted")
  /\ dst' = val
  /\ UNCHANGED <<csr, val, i, history>>

UnpackNone ==
  /\ op = "unpack" /\ ~Fits(csr, 1)
  /\ Return("exhausted")
  /\ UNCHANGED <<csr, val, i, dst, history>>

LastByte_NoLimit(b) == ~IsExtended(b)

\* The loop ends with a byte that is not extended, or with the last that it
\* counts to.
LastByte(b) == ~IsExtended(b) \/ i = MaxBytes - 1

UnpackByte ==
  /\ op = "unpack" /\ Fits(csr, 1)
  /\ LET b   == csr.buf[csr.pos + 1]
         new == (val + (b % Group) * Power(Group, i)) % Width
     IN  /\ val' = new
         /\ csr' = Advance(csr, 1)
         /\ IF LastByte(b)
              THEN Return("ok") /\ dst' = new /\ read' = Append(read, new) /\ UNCHANGED i
              ELSE i' = i + 1 /\ UNCHANGED <<op, res, dst, read>>
  /\ UNCHANGED <<mode, before, arg, packed>>

Step == PackMore \/ PackLast \/ UnpackNone \/ UnpackByte
Next == (\E v \in Numbers : CallPack(v)) \/ Rewind \/ CallUnpack \/ Step

Spec == Init /\ [][Next]_vars

(***************************************************************************)
(* Properties.                                                             *)
(***************************************************************************)
\* The cursor stays inside its buffer, what is unpacked inside a uint32_t, and
\* the loop counter inside the bytes one number may have.
TypeOK ==
  /\ csr.pos \in 0..Len(csr.buf)
  /\ \A k \in DOMAIN csr.buf : csr.buf[k] \in 0..(ByteMod - 1) \cup {Blank}
  /\ op \in {"idle", "pack", "unpack"}
  /\ val \in Numbers /\ dst \in Numbers /\ arg \in Numbers
  /\ i \in 0..(MaxBytes - 1)
  /\ res \in {"ok", "exhausted"}
  /\ mode \in {"pack", "unpack", "foreign"}

\* What was packed is unpacked, in the same order, until there is no more of it;
\* the bytes of a number that did not fit do not read as a number.
RoundTrip ==
  mode = "unpack" =>
    /\ IsPrefix(read, packed)
    /\ res = "exhausted" => read = packed

\* The loops do what the datagram routines are modelled to rely on.
LoopsAgree ==
  op = "idle" /\ before # <<>> =>
    IF mode = "pack"
      THEN LET p == PutVar(before[1], arg) IN csr = p.csr /\ res = p.res
      ELSE LET g == GetVar(before[1])
           IN  csr = g.csr /\ res = g.res /\ (res = "ok" => dst = g.val)

\* A call leaves *dst alone unless it succeeds.
DstKept == [][dst' # dst => op = "unpack" /\ op' = "idle" /\ res' = "ok"]_vars
=============================================================================
