--------------------------- MODULE DatagramProofs ---------------------------
(***************************************************************************)
(* What holds of Datagram, for bytes and numbers of any width, payloads    *)
(* and buffers of any length, and frames cut at any byte.                  *)
(***************************************************************************)
EXTENDS Datagram, SequenceTheorems, TLAPS

(***************************************************************************)
(* The lemmas of VarintProofs about the operators of Cursor and VarintCode *)
(* speak of the same operators: its constants are those of Datagram, and   *)
(* the others are of the loops only.                                       *)
(***************************************************************************)
V == INSTANCE VarintProofs WITH
       Capacity <- {}, Foreign <- {}, MaxCalls <- 0, op <- at, val <- dg, i <- next,
       dst <- word, mode <- out, before <- fate, arg <- res, packed <- vars, read <- past

\* The operators are the same.
LEMMA SumsSame ==
  /\ \A b, n : V!Power(b, n) = Power(b, n)
  /\ \A s, n : V!Total(s, n) = Total(s, n)
<1>1. ASSUME NEW b, NEW n PROVE V!Power(b, n) = Power(b, n)
  BY Zenon DEF V!Power, Power
<1>2. ASSUME NEW s, NEW n PROVE V!Total(s, n) = Total(s, n)
  BY Zenon DEF V!Total, Total
<1> QED
  BY <1>1, <1>2

\* What those lemmas assume of the constants is what Datagram assumes.
LEMMA Assumed ==
  /\ ByteMod \in Nat \ {0, 1}
  /\ Group \in Nat \ {0, 1} /\ ByteMod = 2 * Group
  /\ MaxBytes \in Nat \ {0}
  /\ Width \in Nat
  /\ V!Power(Group, MaxBytes - 1) < Width
  /\ Width <= V!Power(Group, MaxBytes)
  /\ V!Buffers /\ 0 \in Nat
<1>1. V!Buffers
  BY DEF V!Buffers
<1>2. V!Power(Group, MaxBytes - 1) = Power(Group, MaxBytes - 1)
      /\ V!Power(Group, MaxBytes) = Power(Group, MaxBytes)
  BY SumsSame
<1> QED
  BY <1>1, <1>2, ByteModAssumption, GroupAssumption, MaxBytesAssumption

LEMMA CursorSame ==
  /\ \A c, n : V!Fits(c, n) = Fits(c, n)
  /\ \A c : V!Remaining(c) = Remaining(c)
  /\ \A c, n : V!Advance(c, n) = Advance(c, n)
  /\ \A c, s : V!Put(c, s) = Put(c, s)
  /\ \A c, n : V!Taken(c, n) = Taken(c, n)
<1>1. ASSUME NEW c, NEW n PROVE V!Fits(c, n) = Fits(c, n)
  BY Zenon DEF V!Fits, Fits
<1>2. ASSUME NEW c PROVE V!Remaining(c) = Remaining(c)
  BY Zenon DEF V!Remaining, Remaining
<1>3. ASSUME NEW c, NEW n PROVE V!Advance(c, n) = Advance(c, n)
  BY Zenon DEF V!Advance, Advance
<1>4. ASSUME NEW c, NEW s PROVE V!Put(c, s) = Put(c, s)
  BY Zenon DEF V!Put, Put, V!Advance, Advance
<1>5. ASSUME NEW c, NEW n PROVE V!Taken(c, n) = Taken(c, n)
  BY Zenon DEF V!Taken, Taken
<1> QED
  BY <1>1, <1>2, <1>3, <1>4, <1>5

LEMMA VarSame ==
  /\ \A v : V!VarSize(v) = VarSize(v)
  /\ \A v : V!VarBytes(v) = VarBytes(v)
  /\ \A c, v : V!PutVar(c, v) = PutVar(c, v)
  /\ \A c : V!GetVar(c) = GetVar(c) /\ V!VarEnd(c) = VarEnd(c)
<1>1. ASSUME NEW v PROVE V!VarSize(v) = VarSize(v)
  BY Zenon DEF V!VarSize, VarSize, V!Power, Power, V!Min, Min
<1>2. ASSUME NEW v PROVE V!VarBytes(v) = VarBytes(v)
  <2>1. V!VarSize(v) = VarSize(v) /\ \A b, n : V!Power(b, n) = Power(b, n)
    BY <1>1, SumsSame
  <2> QED
    BY <2>1, Zenon DEF V!VarBytes, VarBytes
<1>3. ASSUME NEW c, NEW v PROVE V!PutVar(c, v) = PutVar(c, v)
  <2>1. V!VarBytes(v) = VarBytes(v)
    BY <1>2
  <2> QED
    BY <2>1, CursorSame, Zenon DEF V!PutVar, PutVar
<1>4. ASSUME NEW c PROVE V!GetVar(c) = GetVar(c) /\ V!VarEnd(c) = VarEnd(c)
  <2>1. V!VarEnd(c) = VarEnd(c)
    BY Zenon DEF V!VarEnd, VarEnd, V!IsExtended, IsExtended, V!Min, Min
  <2>2. \A s : V!VarValue(s) = VarValue(s)
    <3> SUFFICES ASSUME NEW s PROVE V!VarValue(s) = VarValue(s)
      OBVIOUS
    <3> QED
      BY SumsSame, Zenon DEF V!VarValue, VarValue
  <2> QED
    <3>1. V!GetVar(c) = GetVar(c)
      BY <2>1, <2>2, CursorSame, Zenon DEF V!GetVar, GetVar
    <3> QED
      BY <2>1, <3>1
<1> QED
  BY <1>1, <1>2, <1>3, <1>4

(***************************************************************************)
(* Constants, and cursors.                                                 *)
(***************************************************************************)
LEMMA Consts ==
  /\ ByteMod \in Nat \ {0} /\ Width \in Nat \ {0} /\ MaxBytes \in Nat \ {0}
  /\ FpBytes \in Nat \ {0} /\ Power(ByteMod, FpBytes) = Width
  /\ Numbers \subseteq V!Numbers /\ V!Numbers = 0..(Width - 1)
BY Assumed, V!Consts, DatagramAssumption DEF V!Numbers

\* What a buffer is made of.
Byte == 0..(ByteMod - 1)
Cells == {Blank, Coded} \cup 0..(ByteMod - 1)

LEMMA CellsInt == Cells \subseteq Int /\ V!AnyByte \subseteq Cells
BY Consts DEF Cells, Blank, Coded, V!AnyByte

At(buf, pos) == [buf |-> buf, pos |-> pos]

\* The bytes s are at pos; or as many of them as there is buffer.
Holds(buf, pos, s) ==
  pos + Len(s) <= Len(buf) /\ \A k \in 1..Len(s) : buf[pos + k] = s[k]
Begins(buf, pos, s) == \A k \in 1..Len(s) : pos + k <= Len(buf) => buf[pos + k] = s[k]

LEMMA AtSame == \A buf, pos : V!At(buf, pos) = At(buf, pos)
BY Zenon DEF V!At, At

LEMMA HoldsSame == \A buf, pos, s : V!Holds(buf, pos, s) <=> Holds(buf, pos, s)
BY Zenon DEF V!Holds, Holds

LEMMA AtIs ==
  ASSUME NEW buf, NEW pos
  PROVE  /\ At(buf, pos).buf = buf /\ At(buf, pos).pos = pos
         /\ \A n : Fits(At(buf, pos), n) <=> pos + n <= Len(buf)
         /\ \A n : Advance(At(buf, pos), n) = At(buf, pos + n)
         /\ Remaining(At(buf, pos)) = Len(buf) - pos
<1>1. At(buf, pos).buf = buf /\ At(buf, pos).pos = pos
  BY DEF At
<1>2. \A n : Advance(At(buf, pos), n) = At(buf, pos + n)
  BY DEF At, Advance
<1> QED
  BY <1>1, <1>2 DEF Fits, Remaining

\* What is put behind the position is there, and what is before it stays.
Kept(new, buf, pos) == Len(new) = Len(buf) /\ \A k \in 1..pos : new[k] = buf[k]

LEMMA PutToIs ==
  ASSUME NEW buf \in Seq(Cells), NEW pos \in Nat, NEW s \in Seq(Cells)
  PROVE  \A n \in 0..Len(s) : pos + n <= Len(buf) =>
           /\ V!PutTo(buf, pos, s, n) \in Seq(Cells) /\ Len(V!PutTo(buf, pos, s, n)) = Len(buf)
           /\ \A k \in 1..pos : V!PutTo(buf, pos, s, n)[k] = buf[k]
           /\ \A k \in 1..n : V!PutTo(buf, pos, s, n)[pos + k] = s[k]
<1> SUFFICES ASSUME NEW n \in 0..Len(s), pos + n <= Len(buf)
             PROVE  /\ V!PutTo(buf, pos, s, n) \in Seq(Cells)
                    /\ Len(V!PutTo(buf, pos, s, n)) = Len(buf)
                    /\ \A k \in 1..pos : V!PutTo(buf, pos, s, n)[k] = buf[k]
                    /\ \A k \in 1..n : V!PutTo(buf, pos, s, n)[pos + k] = s[k]
  OBVIOUS
<1> QED
  BY Assumed, V!PutToIs, SMTT(60)

LEMMA PutAllIs ==
  ASSUME NEW buf \in Seq(Cells), NEW pos \in Nat, NEW s \in Seq(Cells)
  PROVE  IF pos + Len(s) <= Len(buf)
           THEN \E new \in Seq(Cells) :
                  /\ PutAll(At(buf, pos), s) = [res |-> "ok", csr |-> At(new, pos + Len(s))]
                  /\ Kept(new, buf, pos) /\ Holds(new, pos, s)
           ELSE PutAll(At(buf, pos), s) = [res |-> "exhausted", csr |-> At(buf, pos)]
<1>1. Fits(At(buf, pos), Len(s)) <=> pos + Len(s) <= Len(buf)
  BY AtIs
<1>2. CASE pos + Len(s) <= Len(buf)
  <2> DEFINE new == V!PutTo(buf, pos, s, Len(s))
  <2>2. /\ new \in Seq(Cells) /\ Len(new) = Len(buf)
        /\ \A k \in 1..pos : new[k] = buf[k]
        /\ \A k \in 1..Len(s) : new[pos + k] = s[k]
    <3>1. Len(s) \in 0..Len(s)
      BY LenProperties
    <3> QED
      BY <1>2, <3>1, PutToIs
  <2>3. V!Put(V!At(buf, pos), s) = V!At(new, pos + Len(s))
    BY Assumed, V!PutAllOf
  <2>4. Put(At(buf, pos), s) = At(new, pos + Len(s))
    BY <2>3, CursorSame, AtSame, Zenon
  <2> HIDE DEF new
  <2>5. PutAll(At(buf, pos), s) = [res |-> "ok", csr |-> At(new, pos + Len(s))]
    BY <1>1, <1>2, <2>4 DEF PutAll
  <2>6. Kept(new, buf, pos) /\ Holds(new, pos, s)
    BY <1>2, <2>2 DEF Kept, Holds
  <2> QED
    BY <1>2, <2>2, <2>5, <2>6
<1>3. CASE ~(pos + Len(s) <= Len(buf))
  BY <1>1, <1>3 DEF PutAll
<1> QED
  BY <1>2, <1>3

LEMMA PutVarIs ==
  ASSUME NEW buf \in Seq(Cells), NEW pos \in Nat, pos <= Len(buf), NEW v \in V!Numbers
  PROVE  IF pos + VarSize(v) <= Len(buf)
           THEN \E new \in Seq(Cells) :
                  /\ PutVar(At(buf, pos), v) = [res |-> "ok", csr |-> At(new, pos + VarSize(v))]
                  /\ Kept(new, buf, pos) /\ Holds(new, pos, VarBytes(v))
           ELSE \E new \in Seq(Cells) :
                  /\ PutVar(At(buf, pos), v) = [res |-> "exhausted", csr |-> At(new, Len(new))]
                  /\ Len(new) = Len(buf)
<1> DEFINE s == VarBytes(v)
           n == VarSize(v)
           l == Len(buf)
<1>1. v \in V!Numbers
  BY Consts
<1>2. s \in Seq(V!AnyByte) /\ Len(s) = n /\ n \in Nat
  <2>1. V!VarBytes(v) \in Seq(V!AnyByte) /\ Len(V!VarBytes(v)) = V!VarSize(v)
    BY <1>1, Assumed, V!BytesAre
  <2>2. V!VarSize(v) \in 1..MaxBytes
    BY <1>1, Assumed, V!SizeIs
  <2>3. s = V!VarBytes(v) /\ n = V!VarSize(v)
    BY VarSame
  <2> QED
    BY <2>1, <2>2, <2>3, Consts
<1>3. s \in Seq(Cells)
  BY <1>2, CellsInt, SeqMonotonic
<1>4. V!PutVar(V!At(buf, pos), v) =
        IF pos + V!VarSize(v) <= l
          THEN [res |-> "ok",
                csr |-> V!At(V!PutTo(buf, pos, V!VarBytes(v), V!VarSize(v)), pos + V!VarSize(v))]
          ELSE [res |-> "exhausted",
                csr |-> V!At(V!PutTo(buf, pos, V!VarBytes(v), l - pos), l)]
  BY <1>1, CellsInt, Assumed, V!PutVarIs
<1>5. PutVar(At(buf, pos), v) =
        IF pos + n <= l
          THEN [res |-> "ok", csr |-> At(V!PutTo(buf, pos, s, n), pos + n)]
          ELSE [res |-> "exhausted", csr |-> At(V!PutTo(buf, pos, s, l - pos), l)]
  BY <1>4, VarSame, AtSame, Zenon
<1>6. l \in Nat
  BY LenProperties
<1> HIDE DEF s, n, l
<1>7. CASE pos + n <= l
  <2> DEFINE new == V!PutTo(buf, pos, s, n)
  <2>1. /\ new \in Seq(Cells) /\ Len(new) = Len(buf)
        /\ \A k \in 1..pos : new[k] = buf[k]
        /\ \A k \in 1..n : new[pos + k] = s[k]
    <3>1. n \in 0..Len(s) /\ pos + n <= Len(buf)
      BY <1>2, <1>7 DEF l
    <3> QED
      BY <1>3, <3>1, PutToIs
  <2> HIDE DEF new
  <2>2. Kept(new, buf, pos) /\ Holds(new, pos, s)
    BY <1>2, <1>7, <2>1 DEF Kept, Holds, l
  <2>3. PutVar(At(buf, pos), v) = [res |-> "ok", csr |-> At(new, pos + n)]
    BY <1>5, <1>7 DEF new
  <2> QED
    BY <1>7, <2>1, <2>2, <2>3 DEF n, l, s
<1>8. CASE ~(pos + n <= l)
  <2> DEFINE new == V!PutTo(buf, pos, s, l - pos)
  <2>1. new \in Seq(Cells) /\ Len(new) = l
    <3>1. l - pos \in 0..Len(s) /\ pos + (l - pos) <= Len(buf)
      BY <1>2, <1>6, <1>8 DEF l
    <3>2. new \in Seq(Cells) /\ Len(new) = Len(buf)
      BY <1>3, <3>1, PutToIs
    <3> QED
      BY <3>2 DEF l
  <2> HIDE DEF new
  <2>2. PutVar(At(buf, pos), v) = [res |-> "exhausted", csr |-> At(new, Len(new))]
    BY <1>5, <1>8, <2>1 DEF new
  <2> QED
    BY <1>8, <2>1, <2>2 DEF n, l, s
<1> QED
  BY <1>7, <1>8

(***************************************************************************)
(* The inductive invariant.  How far the routines are says where they are  *)
(* in the bytes of the datagram that was sent: the fields and the payload  *)
(* have their places in the buffer, the same on both sides.                *)
(***************************************************************************)
Values == 0..(Width - 1)
NumFields(t) == Len(SerFields[t])
Field(t, k) == SerFields[t][k]
Fields(t, n) == {Field(t, k) : k \in 1..n}

\* The bytes of a field, and where it ends.
Piece(d, k) ==
  LET f == Field(d.type, k) IN IF f = "fp" THEN PackLe(d.val[f], FpBytes) ELSE VarBytes(d.val[f])
Offset(d, k) == HdrBytes + Total(FieldSizes(d), k)
PayStart(d) == Offset(d, NumFields(d.type))

DTypes ==
  /\ dg.type \in Types /\ dg \in Datagrams(dg.type)
  /\ csr = At(csr.buf, csr.pos) /\ csr.buf \in Seq(Cells) /\ csr.pos \in 0..Len(csr.buf)
  /\ next \in 0..(Len(FrameStartSer) + 1)
  /\ word.bit12 \in BOOLEAN /\ word.type \in Nat

\* Serialisation: the fields before the next one are in their places.
Written(n) == \A k \in 1..n : Holds(csr.buf, Offset(dg, k - 1), Piece(dg, k))
Unread == out = Unset /\ word = HdrWord(dg) /\ fate = "none"

SerInv ==
  at = "ser" =>
    /\ Unread /\ res = "none"
    /\ next \in 0..(NumFields(dg.type) + 1)
    /\ csr.pos = IF next = 0 THEN 0 ELSE Offset(dg, next - 1)
    /\ Written(next - 1)

AirInv ==
  at = "air" =>
    /\ Unread /\ res = "ok"
    /\ csr.pos = WireSize(dg)
    /\ Written(NumFields(dg.type)) /\ Holds(csr.buf, PayStart(dg), dg.pay)

\* What arrived, up to where it was cut; or other bytes, as many.
Body(buf) == \A k \in (HdrBytes + 1)..Len(buf) : buf[k] \in Byte

Arrived ==
  /\ IF fate = "damaged"
       THEN Body(csr.buf)
       ELSE /\ \A k \in 1..NumFields(dg.type) : Begins(csr.buf, Offset(dg, k - 1), Piece(dg, k))
            /\ Begins(csr.buf, PayStart(dg), dg.pay)
  /\ fate \in {"whole", "cut", "garbled", "damaged"}
  /\ IF fate = "cut" THEN Len(csr.buf) < WireSize(dg) ELSE Len(csr.buf) = WireSize(dg)
  /\ fate \in {"whole", "cut"} => word = HdrWord(dg)

\* n fields were read, as far as p: those that were sent have the values that
\* were sent, whatever they are called, unless the bytes are other ones: then
\* each has taken a byte at least.
LeastTo(n) == IF n < 3 THEN n ELSE n - 1 + FpBytes

SentTo(n, p) ==
  /\ \A k \in 1..n : k <= NumFields(dg.type) =>
       out.val[Field(word.type, k)] = dg.val[Field(dg.type, k)]
  /\ IF n <= NumFields(dg.type) THEN p = Offset(dg, n) ELSE p >= PayStart(dg)

ReadTo(n, p) ==
  /\ ~word.bit12 /\ word.type \in Types /\ n \in 0..NumFields(word.type)
  /\ out.val \in [Fields(word.type, n) -> Values]
  /\ IF fate = "damaged" THEN p >= HdrBytes + LeastTo(n) ELSE SentTo(n, p)

Struct(t, val, pay) ==
  [type |-> t, flags |-> FlagsOf(word.type, word.bits), val |-> val, pay |-> pay]

DesInv ==
  at = "des" =>
    /\ Arrived
    /\ IF next = 0 THEN csr.pos = 0 /\ out = Unset /\ res = "none"
       ELSE ReadTo(next - 1, csr.pos) /\ out = Struct(0, out.val, <<>>) /\ res = "none"

\* How it ends.
NoRoom == fate = "none" /\ res = "err_nomem" /\ out = Unset /\ Len(csr.buf) < WireSize(dg)
Refused ==
  /\ Arrived /\ out.type = 0 /\ out.pay = <<>>
  /\ \A f \in DOMAIN out.val : out.val[f] \in Values
  /\ fate \in {"whole", "cut"} =>
       \A f \in DOMAIN out.val : f \in DOMAIN dg.val /\ out.val[f] = dg.val[f]
  /\ \/ res = "err_exception" /\ word.bit12
     \/ res = "invalid_type" /\ ~word.bit12 /\ word.type \notin Types
     \/ /\ res = "err_nomem" /\ ~word.bit12 /\ word.type \in Types
        /\ fate \in {"whole", "cut"} => Len(csr.buf) < PayStart(dg)
WasRead ==
  /\ Arrived /\ res = "ok"
  /\ \E p \in 0..Len(csr.buf) :
       /\ ReadTo(NumFields(word.type), p)
       /\ out = Struct(word.type, out.val, SubSeq(csr.buf, p + 1, Len(csr.buf)))

DoneInv == at = "done" => NoRoom \/ Refused \/ WasRead

DInv ==
  /\ DTypes /\ at \in {"ser", "air", "des", "done"}
  /\ SerInv /\ AirInv /\ DesInv /\ DoneInv

(***************************************************************************)
(* Fields: their names and their bytes.                                    *)
(***************************************************************************)
LEMMA FieldNames ==
  /\ DesFields = SerFields /\ DesFlags = SerFlags
  /\ \A t \in Types :
       /\ NumFields(t) \in {4, 5} /\ DOMAIN SerFields[t] = 1..NumFields(t)
       /\ Field(t, 1) = "oui" /\ Field(t, 2) = "did" /\ Field(t, 3) = "fp"
       /\ NumFields(t) = 5 <=> t = FrameStart
       /\ \A k \in 1..NumFields(t) : Field(t, k) = "fp" <=> k = 3
       /\ \A j, k \in 1..NumFields(t) : Field(t, j) = Field(t, k) => j = k
       /\ ToSet(SerFields[t]) = Fields(t, NumFields(t))
  /\ Field(FrameStart, 5) = "fragments" /\ Len(FrameStartSer) = 5
<1> USE DEF SerFields, Monolithic, FrameStart, FrameData, Ack
<1>1. DesFields = SerFields
  BY DEF DesFields, MonolithicSer, FrameStartSer, FrameDataSer, AckSer,
         MonolithicDes, FrameStartDes, FrameDataDes, AckDes
<1>2. DesFlags = SerFlags
  BY DEF DesFlags, SerFlags, MonolithicFlagsSer, FrameStartFlagsSer, FrameDataFlagsSer,
         AckFlagsSer, MonolithicFlagsDes, FrameStartFlagsDes, FrameDataFlagsDes, AckFlagsDes
<1>3. /\ SerFields[1] = MonolithicSer /\ SerFields[2] = FrameStartSer
      /\ SerFields[3] = FrameDataSer /\ SerFields[4] = AckSer
  OBVIOUS
<1>4. /\ Len(MonolithicSer) = 4 /\ Len(FrameStartSer) = 5 /\ Len(FrameDataSer) = 4 /\ Len(AckSer) = 4
      /\ DOMAIN MonolithicSer = 1..4 /\ DOMAIN FrameStartSer = 1..5
      /\ DOMAIN FrameDataSer = 1..4 /\ DOMAIN AckSer = 1..4
  BY DEF MonolithicSer, FrameStartSer, FrameDataSer, AckSer
<1>5. \A t \in Types : t \in {1, 2, 3, 4}
  BY DEF Types
<1> HIDE DEF SerFields
<1>6. ASSUME NEW t \in Types
      PROVE  /\ NumFields(t) \in {4, 5} /\ DOMAIN SerFields[t] = 1..NumFields(t)
             /\ NumFields(t) = 5 <=> t = 2
  <2>1. CASE t = 1
    <3>1. NumFields(t) = 4 /\ DOMAIN SerFields[t] = 1..4
      BY <1>3, <1>4, <2>1 DEF NumFields
    <3> QED
      BY <2>1, <3>1
  <2>2. CASE t = 2
    BY <1>3, <1>4, <2>2 DEF NumFields
  <2>3. CASE t = 3
    <3>1. NumFields(t) = 4 /\ DOMAIN SerFields[t] = 1..4
      BY <1>3, <1>4, <2>3 DEF NumFields
    <3> QED
      BY <2>3, <3>1
  <2>4. CASE t = 4
    <3>1. NumFields(t) = 4 /\ DOMAIN SerFields[t] = 1..4
      BY <1>3, <1>4, <2>4 DEF NumFields
    <3> QED
      BY <2>4, <3>1
  <2> QED
    BY <1>5, <2>1, <2>2, <2>3, <2>4
<1>7. ASSUME NEW t \in Types
      PROVE  /\ Field(t, 1) = "oui" /\ Field(t, 2) = "did" /\ Field(t, 3) = "fp"
             /\ Field(t, 4) \in {"seq", "fragment"} /\ (t = 2 => Field(t, 5) = "fragments")
  BY <1>3, <1>5 DEF Field, MonolithicSer, FrameStartSer, FrameDataSer, AckSer
<1>8. ASSUME NEW t \in Types, NEW k \in 1..NumFields(t)
      PROVE  k \in {1, 2, 3, 4} \/ (k = 5 /\ t = 2)
  BY <1>6
<1>9. ASSUME NEW t \in Types, NEW k \in 1..NumFields(t) PROVE Field(t, k) = "fp" <=> k = 3
  <2>1. Field(t, k) \in {"oui", "did", "seq", "fragment", "fragments"} \/ k = 3
    BY <1>7, <1>8
  <2> QED
    BY <1>7, <2>1
<1>10. ASSUME NEW t \in Types, NEW j \in 1..NumFields(t), NEW k \in 1..NumFields(t),
              Field(t, j) = Field(t, k)
       PROVE  j = k
  <2> DEFINE n(f) == IF f = "oui" THEN 1 ELSE IF f = "did" THEN 2 ELSE
                     IF f = "fp" THEN 3 ELSE IF f \in {"seq", "fragment"} THEN 4 ELSE 5
  <2>1. ASSUME NEW m \in 1..NumFields(t) PROVE n(Field(t, m)) = m
    <3>1. n("oui") = 1 /\ n("did") = 2 /\ n("fp") = 3 /\ n("seq") = 4 /\ n("fragment") = 4
          /\ n("fragments") = 5
      OBVIOUS
    <3> HIDE DEF n
    <3> QED
      BY <1>7, <1>8, <3>1
  <2> HIDE DEF n
  <2> QED
    BY <1>10, <2>1
<1>11. ASSUME NEW t \in Types PROVE ToSet(SerFields[t]) = Fields(t, NumFields(t))
  <2>1. DOMAIN SerFields[t] = 1..NumFields(t)
    BY <1>6
  <2> QED
    BY <2>1, Zenon DEF ToSet, Fields, Field
<1>12. 2 \in Types
  BY DEF Types
<1> QED
  BY <1>1, <1>2, <1>4, <1>6, <1>7, <1>9, <1>10, <1>11, <1>12

LEMMA VarIs ==
  ASSUME NEW v \in Values
  PROVE  VarBytes(v) \in Seq(Byte) /\ Len(VarBytes(v)) = VarSize(v) /\ VarSize(v) \in 1..MaxBytes
<1>1. v \in V!Numbers
  BY Consts DEF Values
<1>2. V!VarBytes(v) \in Seq(V!AnyByte) /\ Len(V!VarBytes(v)) = V!VarSize(v)
  BY <1>1, Assumed, V!BytesAre
<1>3. V!VarSize(v) \in 1..MaxBytes
  BY <1>1, Assumed, V!SizeIs
<1>4. V!AnyByte = Byte
  BY DEF V!AnyByte, Byte
<1> QED
  BY <1>2, <1>3, <1>4, VarSame, Zenon

\* The bytes of a fingerprint are its digits, low ones first.
LEMMA PackIs ==
  ASSUME NEW v \in Values
  PROVE  /\ PackLe(v, FpBytes) \in Seq(Byte) /\ Len(PackLe(v, FpBytes)) = FpBytes
         /\ UnpackLe(PackLe(v, FpBytes)) = v
<1> DEFINE s == PackLe(v, FpBytes)
           a == [k \in DOMAIN s |-> s[k] * Power(ByteMod, k - 1)]
<1>1. v \in Nat /\ ByteMod \in Nat \ {0} /\ FpBytes \in Nat
  BY Consts DEF Values
<1>2. \A n \in Nat : Power(ByteMod, n) \in Nat \ {0}
  <2>1. \A n \in Nat : V!Power(ByteMod, n) \in Nat \ {0}
    BY <1>1, Assumed, V!PowerFacts
  <2> QED
    BY <2>1, SumsSame
<1>3. /\ DOMAIN s = 1..FpBytes
      /\ \A k \in 1..FpBytes : s[k] = (v \div Power(ByteMod, k - 1)) % ByteMod
  BY DEF PackLe
<1>4. ASSUME NEW k \in 1..FpBytes PROVE s[k] \in Byte
  <2>1. Power(ByteMod, k - 1) \in Nat \ {0}
    BY <1>1, <1>2
  <2>2. v \div Power(ByteMod, k - 1) \in Nat
    <3> DEFINE w == Power(ByteMod, k - 1)
    <3>1. w \in Nat \ {0}
      BY <2>1
    <3> HIDE DEF w
    <3>2. v \div w \in Nat
      BY <1>1, <3>1
    <3> QED
      BY <3>2 DEF w
  <2> DEFINE x == v \div Power(ByteMod, k - 1)
  <2>3. x \in Nat /\ s[k] = x % ByteMod
    BY <1>3, <2>2
  <2> HIDE DEF x, s
  <2> QED
    BY <1>1, <2>3 DEF Byte
<1> HIDE DEF s
<1>5. s \in Seq(Byte) /\ Len(s) = FpBytes
  <2>1. s = [k \in 1..FpBytes |-> s[k]]
    BY DEF s, PackLe
  <2> QED
    BY <1>1, <1>4, <2>1, IsASeq, LenProperties
<1>6. V!AreDigits(a, FpBytes, ByteMod, v)
  <2>1. \A k \in 1..FpBytes :
          a[k] = ((v \div Power(ByteMod, k - 1)) % ByteMod) * Power(ByteMod, k - 1)
    BY <1>3, Zenon
  <2> HIDE DEF a
  <2> QED
    BY <2>1, SumsSame, Zenon DEF V!AreDigits
<1>7. V!Total(a, FpBytes) = v % V!Power(ByteMod, FpBytes)
  <2> HIDE DEF a
  <2>1. \A n \in 0..FpBytes : V!Total(a, n) = v % V!Power(ByteMod, n)
    BY <1>1, <1>6, Assumed, V!Digits
  <2> QED
    BY <1>1, <2>1
<1>8. Total(a, FpBytes) = v % Width
  BY <1>7, SumsSame, Consts, Zenon
<1>9. v % Width = v
  BY Consts DEF Values
<1>10. UnpackLe(s) = Total(a, FpBytes)
  BY <1>5, Zenon DEF UnpackLe
<1> QED
  BY <1>5, <1>8, <1>9, <1>10 DEF s

\* A field of a datagram has a value, and bytes of which there is at least one.
LEMMA DatagramIs ==
  ASSUME NEW t \in Types, NEW d \in Datagrams(t)
  PROVE  /\ d.type = t /\ d.flags \subseteq ToSet(SerFlags[t])
         /\ d.val \in [Fields(t, NumFields(t)) -> Values]
         /\ d.pay \in Seq(Byte) /\ d.pay \in Seq(Cells) /\ Len(d.pay) \in Nat
         /\ d = [type |-> t, flags |-> d.flags, val |-> d.val, pay |-> d.pay]
         /\ \A k \in 1..NumFields(t) : d.val[Field(t, k)] \in Values
<1>1. /\ d.type = t /\ d.flags \subseteq ToSet(SerFlags[t])
      /\ d.val \in [ToSet(SerFields[t]) -> Numbers] /\ d.pay \in Payloads
      /\ d = [type |-> t, flags |-> d.flags, val |-> d.val, pay |-> d.pay]
  BY DEF Datagrams
<1>2. d.val \in [Fields(t, NumFields(t)) -> Values]
  BY <1>1, FieldNames, DatagramAssumption DEF Values
<1>3. d.pay \in Seq(Byte)
  BY <1>1, DatagramAssumption DEF Byte
<1>4. d.pay \in Seq(Cells) /\ Len(d.pay) \in Nat
  <2>1. Byte \subseteq Cells
    BY DEF Byte, Cells
  <2> QED
    BY <1>3, <2>1, SeqMonotonic, LenProperties
<1>5. \A k \in 1..NumFields(t) : d.val[Field(t, k)] \in Values
  BY <1>2 DEF Fields
<1> QED
  BY <1>1, <1>2, <1>3, <1>4, <1>5

LEMMA PieceIs ==
  ASSUME NEW t \in Types, NEW d \in Datagrams(t), NEW k \in 1..NumFields(t)
  PROVE  /\ Piece(d, k) \in Seq(Byte) /\ Piece(d, k) \in Seq(Cells)
         /\ FieldSizes(d)[k] = Len(Piece(d, k)) /\ Len(Piece(d, k)) \in Nat \ {0}
         /\ Piece(d, k) = IF k = 3 THEN PackLe(d.val[Field(t, k)], FpBytes)
                                   ELSE VarBytes(d.val[Field(t, k)])
<1> DEFINE v == d.val[Field(t, k)]
<1>1. v \in Values /\ d.type = t
  BY DatagramIs
<1>2. Field(t, k) = "fp" <=> k = 3
  BY FieldNames
<1>3. Piece(d, k) = IF k = 3 THEN PackLe(v, FpBytes) ELSE VarBytes(v)
  BY <1>1, <1>2 DEF Piece
<1>4. FieldSizes(d)[k] = IF k = 3 THEN FpBytes ELSE VarSize(v)
  <2>1. DOMAIN SerFields[t] = 1..NumFields(t)
    BY FieldNames
  <2>2. FieldSizes(d)[k] = FieldSize(d, SerFields[t][k])
    BY <1>1, <2>1 DEF FieldSizes
  <2> QED
    BY <1>2, <2>2 DEF FieldSize, Field
<1> HIDE DEF v
<1>5. Piece(d, k) \in Seq(Byte) /\ FieldSizes(d)[k] = Len(Piece(d, k)) /\ Len(Piece(d, k)) \in Nat \ {0}
  <2>1. CASE k = 3
    <3>1. Piece(d, k) = PackLe(v, FpBytes) /\ FieldSizes(d)[k] = FpBytes
      BY <1>3, <1>4, <2>1
    <3> QED
      BY <1>1, <3>1, PackIs, Consts
  <2>2. CASE k # 3
    <3>1. Piece(d, k) = VarBytes(v) /\ FieldSizes(d)[k] = VarSize(v)
      BY <1>3, <1>4, <2>2
    <3>2. VarBytes(v) \in Seq(Byte) /\ Len(VarBytes(v)) = VarSize(v) /\ VarSize(v) \in 1..MaxBytes
      BY <1>1, VarIs
    <3> QED
      BY <3>1, <3>2, Consts
  <2> QED
    BY <2>1, <2>2
<1>6. Byte \subseteq Cells
  BY DEF Byte, Cells
<1>7. Piece(d, k) \in Seq(Cells)
  BY <1>5, <1>6, SeqMonotonic
<1> QED
  BY <1>3, <1>5, <1>7 DEF v

\* The places of the fields: one behind the other.
LEMMA OffsetIs ==
  ASSUME NEW t \in Types, NEW d \in Datagrams(t)
  PROVE  /\ Offset(d, 0) = HdrBytes /\ PayStart(d) = Offset(d, NumFields(t))
         /\ \A k \in 0..NumFields(t) : Offset(d, k) \in Nat /\ HdrBytes <= Offset(d, k)
         /\ \A k \in 1..NumFields(t) : Offset(d, k) = Offset(d, k - 1) + Len(Piece(d, k))
         /\ \A j \in 0..NumFields(t) : \A k \in j..NumFields(t) : Offset(d, j) <= Offset(d, k)
         /\ WireSize(d) = PayStart(d) + Len(d.pay) /\ WireSize(d) \in Nat
         /\ NumberSize(d) \in Nat /\ PayStart(d) = HdrBytes + NumberSize(d)
<1> DEFINE m == NumFields(t)
           a == FieldSizes(d)
<1>1. m \in Nat /\ d.type = t /\ DOMAIN SerFields[t] = 1..m /\ Len(d.pay) \in Nat
  BY DatagramIs, FieldNames
<1>2. \A k \in 1..m : a[k] = Len(Piece(d, k)) /\ a[k] \in Nat
  BY PieceIs
<1> HIDE DEF a
<1>3. /\ V!Total(a, 0) = 0
      /\ \A n \in 0..m : V!Total(a, n) \in Nat
      /\ \A n \in 0..(m - 1) : V!Total(a, n + 1) = V!Total(a, n) + a[n + 1]
  BY <1>1, <1>2, Assumed, V!TotalNext
<1>4. /\ Total(a, 0) = 0
      /\ \A n \in 0..m : Total(a, n) \in Nat
      /\ \A n \in 0..(m - 1) : Total(a, n + 1) = Total(a, n) + a[n + 1]
  BY <1>3, SumsSame
<1>5. \A j \in 0..m : \A k \in j..m : Total(a, j) <= Total(a, k)
  <2> SUFFICES ASSUME NEW j \in 0..m PROVE \A k \in j..m : Total(a, j) <= Total(a, k)
    OBVIOUS
  <2>1. \A k \in j..m : V!Total(a, j) <= V!Total(a, k)
    BY <1>1, <1>2, Assumed, V!TotalGrows
  <2> QED
    BY <2>1, SumsSame
<1>6. /\ \A k : Offset(d, k) = HdrBytes + Total(a, k)
      /\ PayStart(d) = Offset(d, m) /\ WireSize(d) = HdrBytes + Total(a, m) + Len(d.pay)
      /\ NumberSize(d) = Total(a, m)
  BY <1>1 DEF Offset, PayStart, WireSize, NumberSize, a, NumFields
<1>7. \A k \in 1..m : Offset(d, k) = Offset(d, k - 1) + Len(Piece(d, k))
  <2> SUFFICES ASSUME NEW k \in 1..m PROVE Offset(d, k) = Offset(d, k - 1) + Len(Piece(d, k))
    OBVIOUS
  <2>1. k - 1 \in 0..(m - 1) /\ k - 1 \in 0..m /\ (k - 1) + 1 = k
    BY <1>1
  <2>2. Total(a, k) = Total(a, k - 1) + a[k] /\ Total(a, k - 1) \in Nat /\ a[k] \in Nat
    BY <1>2, <1>4, <2>1
  <2> QED
    BY <1>2, <1>6, <2>2 DEF HdrBytes
<1> HIDE DEF m
<1>8. m \in 0..m
  BY <1>1
<1>9. \A k \in 0..m : Offset(d, k) \in Nat /\ HdrBytes <= Offset(d, k)
  BY <1>4, <1>6 DEF HdrBytes
<1>10. \A j \in 0..m : \A k \in j..m : Offset(d, j) <= Offset(d, k)
  <2> SUFFICES ASSUME NEW j \in 0..m, NEW k \in j..m PROVE Offset(d, j) <= Offset(d, k)
    OBVIOUS
  <2>1. Total(a, j) <= Total(a, k) /\ Total(a, j) \in Nat /\ k \in 0..m /\ Total(a, k) \in Nat
    BY <1>1, <1>4, <1>5
  <2> QED
    BY <1>6, <2>1 DEF HdrBytes
<1>11. WireSize(d) = PayStart(d) + Len(d.pay) /\ WireSize(d) \in Nat
  BY <1>1, <1>4, <1>6, <1>8 DEF HdrBytes
<1>12. Offset(d, 0) = HdrBytes
  BY <1>4, <1>6 DEF HdrBytes
<1>13. NumberSize(d) \in Nat /\ PayStart(d) = HdrBytes + NumberSize(d)
  BY <1>4, <1>6, <1>8
<1> QED
  BY <1>6, <1>7, <1>9, <1>10, <1>11, <1>12, <1>13, Zenon DEF m

(***************************************************************************)
(* A field is put and read back.                                           *)
(***************************************************************************)
PutField(c, d, k) ==
  LET f == Field(d.type, k)
  IN  IF f = "fp" THEN PutAll(c, PackLe(d.val[f], FpBytes)) ELSE PutVar(c, d.val[f])

GetField(c, f) == IF f = "fp" THEN GetLe(c, FpBytes) ELSE GetVar(c)

LEMMA PutFieldIs ==
  ASSUME NEW t \in Types, NEW d \in Datagrams(t), NEW k \in 1..NumFields(t),
         NEW buf \in Seq(Cells), NEW pos \in Nat, pos <= Len(buf)
  PROVE  IF pos + Len(Piece(d, k)) <= Len(buf)
           THEN \E new \in Seq(Cells) :
                  /\ PutField(At(buf, pos), d, k)
                       = [res |-> "ok", csr |-> At(new, pos + Len(Piece(d, k)))]
                  /\ Kept(new, buf, pos) /\ Holds(new, pos, Piece(d, k))
           ELSE \E new \in Seq(Cells) : \E p \in 0..Len(new) :
                  /\ PutField(At(buf, pos), d, k) = [res |-> "exhausted", csr |-> At(new, p)]
                  /\ Len(new) = Len(buf)
<1> DEFINE s == Piece(d, k)
           v == d.val[Field(t, k)]
           c == At(buf, pos)
<1>1. v \in Values /\ v \in V!Numbers /\ d.type = t /\ (Field(t, k) = "fp" <=> k = 3)
  BY DatagramIs, FieldNames, Consts DEF Values
<1>2. s \in Seq(Cells) /\ Len(s) \in Nat
  BY PieceIs
<1>3. Len(buf) \in Nat
  BY LenProperties
<1>4. CASE k = 3
  <2>1. PutField(c, d, k) = PutAll(c, s) /\ s = PackLe(v, FpBytes)
    BY <1>1, <1>4, PieceIs, Zenon DEF PutField
  <2> HIDE DEF s, c
  <2>2. CASE pos + Len(s) <= Len(buf)
    <3>1. PICK new \in Seq(Cells) :
            /\ PutAll(c, s) = [res |-> "ok", csr |-> At(new, pos + Len(s))]
            /\ Kept(new, buf, pos) /\ Holds(new, pos, s)
      BY <1>2, <2>2, PutAllIs DEF c
    <3> QED
      BY <2>1, <2>2, <3>1 DEF s, c
  <2>3. CASE ~(pos + Len(s) <= Len(buf))
    <3>1. PutAll(c, s) = [res |-> "exhausted", csr |-> At(buf, pos)]
      BY <1>2, <2>3, PutAllIs DEF c
    <3>2. pos \in 0..Len(buf)
      BY <1>3
    <3> QED
      BY <2>1, <2>3, <3>1, <3>2 DEF s, c
  <2> QED
    BY <2>2, <2>3
<1>5. CASE k # 3
  <2>1. PutField(c, d, k) = PutVar(c, v) /\ s = VarBytes(v)
    <3>1. Field(d.type, k) # "fp" /\ Field(d.type, k) = Field(t, k)
      BY <1>1, <1>5
    <3>2. PutField(c, d, k) = PutVar(c, v)
      BY <3>1, Zenon DEF PutField
    <3> QED
      BY <1>5, <3>2, PieceIs
  <2>2. Len(s) = VarSize(v)
    BY <1>1, <2>1, VarIs
  <2> HIDE DEF s, c, v
  <2>3. CASE pos + Len(s) <= Len(buf)
    <3>1. PICK new \in Seq(Cells) :
            /\ PutVar(c, v) = [res |-> "ok", csr |-> At(new, pos + VarSize(v))]
            /\ Kept(new, buf, pos) /\ Holds(new, pos, VarBytes(v))
      BY <1>1, <2>2, <2>3, PutVarIs DEF c
    <3> QED
      BY <2>1, <2>2, <2>3, <3>1 DEF s, c
  <2>4. CASE ~(pos + Len(s) <= Len(buf))
    <3>1. PICK new \in Seq(Cells) :
            /\ PutVar(c, v) = [res |-> "exhausted", csr |-> At(new, Len(new))]
            /\ Len(new) = Len(buf)
      BY <1>1, <2>2, <2>4, PutVarIs DEF c
    <3>2. Len(new) \in 0..Len(new)
      BY <1>3, <3>1
    <3> QED
      BY <2>1, <2>4, <3>1, <3>2 DEF s, c
  <2> QED
    BY <2>3, <2>4
<1> QED
  BY <1>4, <1>5

\* The bytes behind a position are taken.
LEMMA TakenIs ==
  ASSUME NEW buf \in Seq(Cells), NEW pos \in Nat, NEW s \in Seq(Cells), Holds(buf, pos, s)
  PROVE  Taken(At(buf, pos), Len(s)) = s
<1>1. buf \in Seq(Int) /\ s \in Seq(Int)
  BY CellsInt, SeqMonotonic
<1>2. V!Holds(buf, pos, s)
  BY HoldsSame
<1>3. V!Taken(V!At(buf, pos), Len(s)) = s
  BY <1>1, <1>2, Assumed, V!TakenHolds
<1> QED
  BY <1>3, CursorSame, AtSame, Zenon

\* A field that is all there is read as it was written, and one that is cut is
\* not read.
LEMMA GetFieldIs ==
  ASSUME NEW t \in Types, NEW d \in Datagrams(t), NEW k \in 1..NumFields(t),
         NEW buf \in Seq(Cells), NEW pos \in Nat, pos <= Len(buf),
         Begins(buf, pos, Piece(d, k)), NEW f, f = "fp" <=> k = 3
  PROVE  IF pos + Len(Piece(d, k)) <= Len(buf)
           THEN GetField(At(buf, pos), f) =
                  [res |-> "ok", csr |-> At(buf, pos + Len(Piece(d, k))),
                   val |-> d.val[Field(t, k)]]
           ELSE \E p \in 0..Len(buf) :
                  GetField(At(buf, pos), f) = [res |-> "exhausted", csr |-> At(buf, p), val |-> 0]
<1> DEFINE s == Piece(d, k)
           v == d.val[Field(t, k)]
           c == At(buf, pos)
<1>1. v \in Values /\ v \in V!Numbers
  BY DatagramIs, Consts DEF Values
<1>2. s \in Seq(Cells) /\ Len(s) \in Nat
  BY PieceIs
<1>3. Len(buf) \in Nat /\ buf \in Seq(Int)
  BY LenProperties, CellsInt, SeqMonotonic
<1>4. pos + Len(s) <= Len(buf) => Holds(buf, pos, s)
  <2> SUFFICES ASSUME pos + Len(s) <= Len(buf), NEW j \in 1..Len(s) PROVE buf[pos + j] = s[j]
    BY DEF Holds
  <2>1. pos + j <= Len(buf)
    BY <1>2, <1>3
  <2> HIDE DEF s
  <2> QED
    BY <2>1 DEF Begins, s
<1>5. CASE k = 3
  <2>1. GetField(c, f) = GetLe(c, FpBytes) /\ s = PackLe(v, FpBytes)
    BY <1>5, PieceIs, Zenon DEF GetField
  <2>2. Len(s) = FpBytes /\ UnpackLe(s) = v
    BY <1>1, <2>1, PackIs
  <2> HIDE DEF s, v
  <2>3. (Fits(c, FpBytes) <=> pos + Len(s) <= Len(buf)) /\ Advance(c, FpBytes) = At(buf, pos + Len(s))
    BY <2>2, AtIs
  <2> HIDE DEF c
  <2>4. CASE pos + Len(s) <= Len(buf)
    <3>1. Taken(c, FpBytes) = s
      BY <1>2, <1>4, <2>2, <2>4, TakenIs DEF c
    <3>2. GetLe(c, FpBytes) = [res |-> "ok", csr |-> At(buf, pos + Len(s)), val |-> v]
      BY <2>2, <2>3, <2>4, <3>1, Zenon DEF GetLe
    <3> QED
      BY <2>1, <2>4, <3>2 DEF s, c, v
  <2>5. CASE ~(pos + Len(s) <= Len(buf))
    <3>1. GetLe(c, FpBytes) = [res |-> "exhausted", csr |-> c, val |-> 0]
      BY <2>3, <2>5, Zenon DEF GetLe
    <3>2. pos \in 0..Len(buf)
      BY <1>3
    <3> QED
      BY <2>1, <2>5, <3>1, <3>2 DEF s, c
  <2> QED
    BY <2>4, <2>5
<1>6. CASE k # 3
  <2>1. GetField(c, f) = GetVar(c) /\ s = VarBytes(v)
    <3>1. f # "fp"
      BY <1>6
    <3>2. GetField(c, f) = GetVar(c)
      BY <3>1, Zenon DEF GetField
    <3> QED
      BY <1>6, <3>2, PieceIs
  <2>2. Len(s) = VarSize(v)
    BY <1>1, <2>1, VarIs
  <2>3. GetVar(c) = V!GetVar(V!At(buf, pos)) /\ s = V!VarBytes(v) /\ VarSize(v) = V!VarSize(v)
    BY <2>1, VarSame, AtSame, Zenon
  <2> HIDE DEF s, c, v
  <2>4. CASE pos + Len(s) <= Len(buf)
    <3>1. V!Holds(buf, pos, V!VarBytes(v))
      BY <1>4, <2>3, <2>4, HoldsSame
    <3>2. V!GetVar(V!At(buf, pos)) =
            [res |-> "ok", csr |-> V!At(buf, pos + V!VarSize(v)), val |-> v]
      BY <1>1, <1>3, <3>1, Assumed, V!GetVarHolds
    <3>3. GetVar(c) = [res |-> "ok", csr |-> At(buf, pos + Len(s)), val |-> v]
      BY <2>2, <2>3, <3>2, AtSame, Zenon
    <3> QED
      BY <2>1, <2>4, <3>3 DEF s, c, v
  <2>5. CASE ~(pos + Len(s) <= Len(buf))
    <3>1. /\ V!VarSize(v) \in 1..MaxBytes
          /\ \A j \in 1..V!VarSize(v) : V!IsExtended(V!VarBytes(v)[j]) <=> j < V!VarSize(v)
      BY <1>1, Assumed, V!BytesAre, V!SizeIs
    <3>2. Len(s) \in 1..MaxBytes /\ Len(buf) < pos + MaxBytes /\ Len(buf) < pos + Len(s)
      BY <1>2, <1>3, <2>2, <2>3, <2>5, <3>1, Consts
    <3>3. ASSUME NEW j \in 1..(Len(buf) - pos) PROVE V!IsExtended(buf[pos + j])
      <4>1. j \in 1..Len(s) /\ j < Len(s) /\ pos + j <= Len(buf)
        BY <1>2, <1>3, <3>2
      <4>2. buf[pos + j] = s[j]
        BY <4>1 DEF Begins, s
      <4>3. V!IsExtended(s[j])
        BY <2>2, <2>3, <3>1, <4>1
      <4> QED
        BY <4>2, <4>3
    <3>4. V!GetVar(V!At(buf, pos)) = [res |-> "exhausted", csr |-> V!At(buf, Len(buf)), val |-> 0]
      BY <1>3, <3>2, <3>3, Assumed, V!GetVarCut
    <3>5. GetVar(c) = [res |-> "exhausted", csr |-> At(buf, Len(buf)), val |-> 0]
      BY <2>3, <3>4, AtSame, Zenon
    <3>6. Len(buf) \in 0..Len(buf)
      BY <1>3
    <3> QED
      BY <2>1, <2>5, <3>5, <3>6 DEF s, c
  <2> QED
    BY <2>4, <2>5
<1> QED
  BY <1>5, <1>6

\* Whatever the bytes of a fingerprint are, it has 32 bits,
LEMMA UnpackAny ==
  ASSUME NEW s \in Seq(Byte), Len(s) = FpBytes
  PROVE  UnpackLe(s) \in Values
<1> DEFINE a == [k \in DOMAIN s |-> s[k] * Power(ByteMod, k - 1)]
           A == {n \in Nat : n <= FpBytes => V!Total(a, n) < Power(ByteMod, n)}
<1>0. ByteMod \in Nat \ {0} /\ FpBytes \in Nat /\ Power(ByteMod, FpBytes) = Width
  BY Consts
<1>1. /\ Power(ByteMod, 0) = 1
      /\ \A n \in Nat : Power(ByteMod, n) \in Nat \ {0} /\ Power(ByteMod, n + 1) = ByteMod * Power(ByteMod, n)
  <2>1. /\ V!Power(ByteMod, 0) = 1
        /\ \A n \in Nat : V!Power(ByteMod, n) \in Nat \ {0} /\ V!Power(ByteMod, n + 1) = ByteMod * V!Power(ByteMod, n)
    BY <1>0, Assumed, V!PowerFacts
  <2> QED
    BY <2>1, SumsSame
<1>2. \A k \in 1..FpBytes : s[k] \in Byte /\ a[k] = s[k] * Power(ByteMod, k - 1)
  <2>1. DOMAIN s = 1..FpBytes /\ \A k \in 1..FpBytes : s[k] \in Byte
    BY ElementOfSeq, LenProperties
  <2> QED
    BY <2>1
<1> HIDE DEF a
<1>3. \A k \in 1..FpBytes : a[k] \in Nat
  <2> SUFFICES ASSUME NEW k \in 1..FpBytes PROVE a[k] \in Nat
    OBVIOUS
  <2> DEFINE w == Power(ByteMod, k - 1)
  <2>1. w \in Nat
    <3>1. k - 1 \in Nat
      BY <1>0
    <3> QED
      BY <1>1, <3>1
  <2>2. s[k] \in Byte /\ a[k] = s[k] * w
    BY <1>2
  <2> HIDE DEF w
  <2> QED
    BY <1>0, <2>1, <2>2 DEF Byte
<1>4. /\ V!Total(a, 0) = 0
      /\ \A n \in 0..FpBytes : V!Total(a, n) \in Nat
      /\ \A n \in 0..(FpBytes - 1) : V!Total(a, n + 1) = V!Total(a, n) + a[n + 1]
  BY <1>0, <1>3, Assumed, V!TotalNext
<1>5. 0 \in A
  BY <1>1, <1>4
<1>6. ASSUME NEW n \in Nat, n \in A PROVE n + 1 \in A
  <2> SUFFICES ASSUME n + 1 <= FpBytes PROVE V!Total(a, n + 1) < Power(ByteMod, n + 1)
    OBVIOUS
  <2> DEFINE w == Power(ByteMod, n)
             t == V!Total(a, n)
             d == s[n + 1]
             e == ByteMod - 1 - d
  <2>1. n \in 0..(FpBytes - 1) /\ n \in 0..FpBytes /\ n + 1 \in 1..FpBytes /\ (n + 1) - 1 = n
    BY <1>0
  <2>2. w \in Nat \ {0} /\ Power(ByteMod, n + 1) = ByteMod * w
    BY <1>1
  <2>3. t \in Nat /\ t < w
    BY <1>4, <1>6, <2>1
  <2>4. V!Total(a, n + 1) = t + d * w
    BY <1>2, <1>4, <2>1
  <2>5. d \in Nat /\ e \in Nat /\ ByteMod = (d + e) + 1
    <3>1. d \in Byte
      BY <1>2, <2>1
    <3> HIDE DEF d
    <3> QED
      BY <1>0, <3>1 DEF Byte
  <2> HIDE DEF w, t, d, e
  <2>6. ByteMod * w = d * w + e * w + w /\ d * w \in Nat /\ e * w \in Nat
    BY <2>2, <2>5
  <2> QED
    BY <2>2, <2>3, <2>4, <2>6
<1>7. Nat \subseteq A
  <2> HIDE DEF A
  <2> QED
    BY <1>5, <1>6, Assumed, V!Induction
<1>8. V!Total(a, FpBytes) < Width /\ V!Total(a, FpBytes) \in Nat
  <2>1. FpBytes \in 0..FpBytes
    BY <1>0
  <2> QED
    BY <1>0, <1>4, <1>7, <2>1
<1>9. UnpackLe(s) = Total(a, FpBytes)
  BY Zenon DEF UnpackLe, a
<1> QED
  BY <1>0, <1>8, <1>9, SumsSame, Consts DEF Values

\* and so have those of a number, of which there is at least one.
LEMMA GetVarAny ==
  ASSUME NEW buf \in Seq(Cells), NEW pos \in Nat, pos <= Len(buf), NEW f, f # "fp"
  PROVE  \E to \in pos..Len(buf), r \in {"ok", "exhausted"}, v \in Values :
           /\ GetField(At(buf, pos), f) = [res |-> r, csr |-> At(buf, to), val |-> v]
           /\ r = "ok" => to >= pos + 1
<1>1. buf \in Seq(Int)
  BY CellsInt, SeqMonotonic
<1>2. PICK to \in pos..Len(buf), r \in {"ok", "exhausted"}, v \in V!Numbers :
        V!GetVar(V!At(buf, pos)) = [res |-> r, csr |-> V!At(buf, to), val |-> v]
  BY <1>1, Assumed, V!GetVarAny
<1>3. GetField(At(buf, pos), f) = V!GetVar(V!At(buf, pos))
  BY VarSame, AtSame, Zenon DEF GetField
<1>4. V!Numbers = Values
  BY Consts DEF Values
<1>5. GetField(At(buf, pos), f) = [res |-> r, csr |-> At(buf, to), val |-> v]
  BY <1>2, <1>3, AtSame, Zenon
<1>6. ASSUME r = "ok" PROVE to >= pos + 1
  <2> DEFINE c == At(buf, pos)
             e == VarEnd(c)
  <2>1. e \in Nat \ {0}
    <3>1. V!VarEnd(V!At(buf, pos)) \in 1..MaxBytes
      BY <1>1, Assumed, V!VarEndIs
    <3>2. e = V!VarEnd(V!At(buf, pos))
      <4>1. V!At(buf, pos) = c
        BY AtSame
      <4>2. V!VarEnd(c) = VarEnd(c)
        BY VarSame
      <4> QED
        BY <4>1, <4>2
    <3> QED
      BY <3>1, <3>2, Consts
  <2>2. GetVar(c) = [res |-> "ok", csr |-> At(buf, to), val |-> v]
    BY <1>5, <1>6 DEF GetField
  <2>3. CASE Fits(c, e)
    <3>1. GetVar(c).csr = Advance(c, e)
      BY <2>3 DEF GetVar
    <3>2. Advance(c, e) = At(buf, pos + e)
      BY AtIs
    <3>3. At(buf, to) = At(buf, pos + e)
      BY <2>2, <3>1, <3>2
    <3>4. to = pos + e
      BY <3>3, AtIs
    <3> QED
      BY <2>1, <3>4
  <2>4. CASE ~Fits(c, e)
    <3>1. GetVar(c).res = "exhausted"
      BY <2>4 DEF GetVar
    <3> QED
      BY <2>2, <3>1
  <2> QED
    BY <2>3, <2>4
<1> QED
  BY <1>4, <1>5, <1>6

LEMMA GetFieldAny ==
  ASSUME NEW buf \in Seq(Cells), Body(buf), NEW pos \in Nat, HdrBytes <= pos, pos <= Len(buf), NEW f
  PROVE  \E to \in pos..Len(buf), r \in {"ok", "exhausted"}, v \in Values :
           /\ GetField(At(buf, pos), f) = [res |-> r, csr |-> At(buf, to), val |-> v]
           /\ r = "ok" => to >= pos + (IF f = "fp" THEN FpBytes ELSE 1)
<1>1. CASE f # "fp"
  BY <1>1, GetVarAny
<1>2. CASE f = "fp"
  <2> DEFINE c == At(buf, pos)
             s == Taken(c, FpBytes)
  <2>0. Len(buf) \in Nat /\ FpBytes \in Nat /\ 0 \in Values
    BY LenProperties, Consts DEF Values
  <2>1. GetField(c, f) = GetLe(c, FpBytes)
    BY <1>2 DEF GetField
  <2>2. (Fits(c, FpBytes) <=> pos + FpBytes <= Len(buf)) /\ Advance(c, FpBytes) = At(buf, pos + FpBytes)
    BY AtIs
  <2>3. CASE pos + FpBytes <= Len(buf)
    <3>1. s \in Seq(Byte) /\ Len(s) = FpBytes
      <4>1. s = SubSeq(buf, pos + 1, pos + FpBytes)
        BY AtIs DEF Taken
      <4>2. \A j \in (pos + 1)..(pos + FpBytes) : buf[j] \in Byte
        BY <2>0, <2>3 DEF Body, HdrBytes
      <4> PICK p, q : p = pos + 1 /\ q = pos + FpBytes
        OBVIOUS
      <4>3. p \in Int /\ q \in Int /\ \A j \in p..q : buf[j] \in Byte
        BY <2>0, <4>2
      <4>4. SubSeq(buf, p, q) \in Seq(Byte) /\ Len(SubSeq(buf, p, q)) = IF p <= q THEN q - p + 1 ELSE 0
        BY <4>3, SubSeqProperties
      <4> QED
        BY <2>0, <4>1, <4>4
    <3>2. UnpackLe(s) \in Values
      BY <3>1, UnpackAny
    <3> HIDE DEF c
    <3>3. GetLe(c, FpBytes) = [res |-> "ok", csr |-> At(buf, pos + FpBytes), val |-> UnpackLe(s)]
      BY <2>2, <2>3 DEF GetLe
    <3>4. pos + FpBytes \in pos..Len(buf)
      BY <2>0, <2>3
    <3> HIDE DEF s
    <3> QED
      BY <1>2, <2>1, <3>2, <3>3, <3>4 DEF c
  <2>4. CASE ~(pos + FpBytes <= Len(buf))
    <3> HIDE DEF c
    <3>1. GetLe(c, FpBytes) = [res |-> "exhausted", csr |-> c, val |-> 0]
      BY <2>2, <2>4 DEF GetLe
    <3>2. pos \in pos..Len(buf)
      BY <2>0
    <3> QED
      BY <2>0, <2>1, <3>1, <3>2 DEF c
  <2> QED
    BY <2>3, <2>4
<1> QED
  BY <1>1, <1>2

(***************************************************************************)
(* The invariant holds at first, and each step preserves it.               *)
(***************************************************************************)
\* The flags that were set are the flags that are read.
LEMMA FlagsBack ==
  ASSUME NEW t \in Types, NEW fl, fl \subseteq ToSet(SerFlags[t])
  PROVE  FlagsOf(t, FlagBits(t, fl)) = fl
<1> DEFINE s == SerFlags[t]
<1>1. DesFlags[t] = s
  BY FieldNames
<1>2. s \in {MonolithicFlagsSer, FrameStartFlagsSer, FrameDataFlagsSer, AckFlagsSer}
  <2>1. t \in {1, 2, 3, 4}
    BY DEF Types, Ack
  <2> QED
    BY <2>1 DEF SerFlags
<1> HIDE DEF s
<1>3. Len(s) \in Nat /\ DOMAIN s = 1..Len(s)
  <2>1. /\ Len(MonolithicFlagsSer) = 5 /\ DOMAIN MonolithicFlagsSer = 1..5
        /\ Len(FrameStartFlagsSer) = 5 /\ DOMAIN FrameStartFlagsSer = 1..5
        /\ Len(FrameDataFlagsSer) = 1 /\ DOMAIN FrameDataFlagsSer = 1..1
        /\ Len(AckFlagsSer) = 5 /\ DOMAIN AckFlagsSer = 1..5
    BY DEF MonolithicFlagsSer, FrameStartFlagsSer, FrameDataFlagsSer, AckFlagsSer
  <2> QED
    BY <1>2, <2>1
<1>4. FlagsOf(t, FlagBits(t, fl))
        = {s[b + 1] : b \in {b \in 0..(Len(s) - 1) : s[b + 1] \in fl} \cap 0..(Len(s) - 1)}
  BY <1>1, Zenon DEF FlagsOf, FlagBits, s
<1>5. ASSUME NEW f \in fl
      PROVE  \E b \in 0..(Len(s) - 1) : s[b + 1] = f
  <2>1. PICK j \in DOMAIN s : s[j] = f
    BY DEF ToSet, s
  <2>2. j - 1 \in 0..(Len(s) - 1) /\ (j - 1) + 1 = j
    BY <1>3, <2>1
  <2> QED
    BY <2>1, <2>2
<1> QED
  BY <1>4, <1>5

LEMMA HoldsKept ==
  ASSUME NEW buf \in Seq(Cells), NEW new \in Seq(Cells), NEW pos \in Nat, NEW p \in Nat, NEW s \in Seq(Cells),
         Holds(buf, p, s), p + Len(s) <= pos, Kept(new, buf, pos)
  PROVE  Holds(new, p, s)
<1>1. Len(s) \in Nat /\ Len(buf) \in Nat
  BY LenProperties
<1>2. ASSUME NEW k \in 1..Len(s) PROVE new[p + k] = s[k]
  <2>1. p + k \in 1..pos
    BY <1>1
  <2> QED
    BY <2>1 DEF Holds, Kept
<1> QED
  BY <1>2 DEF Holds, Kept

LEMMA HoldsCut ==
  ASSUME NEW buf \in Seq(Cells), NEW n \in 0..Len(buf), NEW p \in Nat, NEW s \in Seq(Cells),
         Holds(buf, p, s)
  PROVE  Begins(SubSeq(buf, 1, n), p, s)
<1>1. Len(s) \in Nat /\ Len(buf) \in Nat
  BY LenProperties
<1>2. Len(SubSeq(buf, 1, n)) = n /\ \A k \in 1..n : SubSeq(buf, 1, n)[k] = buf[k]
  BY <1>1, SubSeqProperties
<1>3. ASSUME NEW k \in 1..Len(s), p + k <= n PROVE SubSeq(buf, 1, n)[p + k] = s[k]
  <2>1. p + k \in 1..n
    BY <1>1, <1>3
  <2> QED
    BY <1>2, <2>1 DEF Holds
<1> QED
  BY <1>2, <1>3 DEF Begins

\* One more field was read.
LEMMA ReadNext ==
  ASSUME NEW n \in Nat, NEW p, NEW q, NEW v \in Values, dg.type \in Types, ReadTo(n, p),
         n + 1 <= NumFields(word.type), UNCHANGED <<dg, word, fate>>,
         out'.val = With(out.val, Field(word.type, n + 1), v),
         IF fate = "damaged"
           THEN q >= HdrBytes + LeastTo(n + 1)
           ELSE IF n + 1 <= NumFields(dg.type)
                  THEN v = dg.val[Field(dg.type, n + 1)] /\ q = Offset(dg, n + 1)
                  ELSE q >= PayStart(dg)
  PROVE  ReadTo(n + 1, q)'
<1> DEFINE t == word.type
           f == Field(t, n + 1)
           new == out'.val
<1>1. /\ ~word.bit12 /\ t \in Types /\ n + 1 \in 0..NumFields(t) /\ NumFields(t) \in Nat
      /\ NumFields(dg.type) \in Nat
      /\ out.val \in [Fields(t, n) -> Values]
  BY FieldNames DEF ReadTo
<1>2. Fields(t, n + 1) = Fields(t, n) \cup {f}
  <2>1. \A k \in 1..(n + 1) : k \in 1..n \/ k = n + 1
    OBVIOUS
  <2>2. \A k \in 1..n : k \in 1..(n + 1)
    OBVIOUS
  <2>3. n + 1 \in 1..(n + 1)
    OBVIOUS
  <2> QED
    BY <2>1, <2>2, <2>3, Zenon DEF Fields
<1>3. new = [g \in Fields(t, n) \cup {f} |-> IF g = f THEN v ELSE out.val[g]]
  <2>1. DOMAIN out.val = Fields(t, n)
    BY <1>1
  <2> QED
    BY <2>1, Zenon DEF With
<1> HIDE DEF new
<1>4. new \in [Fields(t, n + 1) -> Values]
  BY <1>1, <1>2, <1>3
<1>5. ASSUME fate # "damaged", NEW k \in 1..(n + 1), k <= NumFields(dg.type)
      PROVE  new[Field(t, k)] = dg.val[Field(dg.type, k)]
  <2>1. CASE k = n + 1
    <3>1. new[f] = v
      BY <1>3
    <3> QED
      BY <1>5, <2>1, <3>1
  <2>2. CASE k # n + 1
    <3>1. k \in 1..n /\ k \in 1..NumFields(t) /\ n + 1 \in 1..NumFields(t)
      BY <1>1, <2>2
    <3>2. Field(t, k) # f
      BY <1>1, <2>2, <3>1, FieldNames
    <3>3. Field(t, k) \in Fields(t, n)
      BY <3>1 DEF Fields
    <3>4. new[Field(t, k)] = out.val[Field(t, k)]
      BY <1>3, <3>2, <3>3
    <3> QED
      BY <1>5, <3>1, <3>4 DEF ReadTo, SentTo
  <2> QED
    BY <2>1, <2>2
<1> HIDE DEF f
<1>6. fate # "damaged" =>
        IF n + 1 <= NumFields(dg.type) THEN q = Offset(dg, n + 1) ELSE q >= PayStart(dg)
  OBVIOUS
<1>7. word' = word /\ dg' = dg /\ fate' = fate
  OBVIOUS
<1>8. IF fate' = "damaged" THEN q >= HdrBytes + LeastTo(n + 1) ELSE SentTo(n + 1, q)'
  <2>1. CASE fate = "damaged"
    BY <1>7, <2>1
  <2>2. CASE fate # "damaged"
    BY <1>5, <1>6, <1>7, <2>2 DEF SentTo, new
  <2> QED
    BY <2>1, <2>2
<1> QED
  BY <1>1, <1>4, <1>7, <1>8 DEF ReadTo, new

LEMMA InitHolds == Init => DInv
<1> SUFFICES ASSUME Init PROVE DInv
  OBVIOUS
<1>1. PICK t \in Types : dg \in Datagrams(t)
  BY DEF Init
<1>2. PICK n \in 0..(WireSize(dg) + MaxSpare) : csr = CursorNew([j \in 1..n |-> Blank])
  BY DEF Init
<1>3. at = "ser" /\ next = 0 /\ word = HdrWord(dg) /\ out = Unset /\ res = "none" /\ fate = "none"
  BY DEF Init
<1>4. dg.type = t /\ WireSize(dg) \in Nat
  BY <1>1, DatagramIs, OffsetIs
<1> DEFINE b == [j \in 1..n |-> Blank]
<1>5. n \in Nat
  BY <1>2, <1>4, DatagramAssumption
<1>6. b \in Seq(Cells) /\ Len(b) = n
  <2>1. \A j \in 1..n : Blank \in Cells
    BY DEF Cells
  <2> QED
    BY <1>5, <2>1, IsASeq, LenProperties
<1> HIDE DEF b
<1>7. csr = At(b, 0) /\ csr.buf = b /\ csr.pos = 0
  BY <1>2 DEF CursorNew, At, b
<1>8. DTypes
  <2>1. dg.type \in Types /\ dg \in Datagrams(dg.type)
    BY <1>1, <1>4
  <2>2. word.bit12 \in BOOLEAN /\ word.type \in Nat
    BY <1>3, <2>1 DEF HdrWord, Types, Ack
  <2>3. next \in 0..(Len(FrameStartSer) + 1)
    BY <1>3, FieldNames
  <2> QED
    BY <1>5, <1>6, <1>7, <2>1, <2>2, <2>3 DEF DTypes
<1>9. SerInv
  <2>1. NumFields(t) \in Nat
    BY FieldNames
  <2>2. next \in 0..(NumFields(dg.type) + 1)
    BY <1>3, <1>4, <2>1
  <2>3. Written(next - 1)
    BY <1>3 DEF Written
  <2> QED
    BY <1>3, <1>7, <2>2, <2>3 DEF SerInv, Unread
<1> QED
  BY <1>3, <1>8, <1>9 DEF DInv, AirInv, DesInv, DoneInv

\* What the types say of a state.
LEMMA TypesAre ==
  ASSUME DTypes
  PROVE  /\ dg.type \in Types /\ dg \in Datagrams(dg.type)
         /\ csr = At(csr.buf, csr.pos) /\ csr.buf \in Seq(Cells) /\ Len(csr.buf) \in Nat
         /\ csr.pos \in Nat /\ csr.pos <= Len(csr.buf) /\ csr.pos \in 0..Len(csr.buf)
         /\ NumFields(dg.type) \in {4, 5}
BY FieldNames, LenProperties DEF DTypes

LEMMA TypesNext ==
  ASSUME DTypes, NEW buf \in Seq(Cells), NEW pos \in 0..Len(buf), csr' = At(buf, pos), dg' = dg,
         next' \in 0..6, word'.bit12 \in BOOLEAN, word'.type \in Nat
  PROVE  DTypes' /\ csr'.buf = buf /\ csr'.pos = pos
<1>1. csr'.buf = buf /\ csr'.pos = pos
  BY AtIs
<1>2. 0..6 = 0..(Len(FrameStartSer) + 1)
  BY FieldNames
<1>3. dg'.type \in Types /\ dg' \in Datagrams(dg'.type)
  BY DEF DTypes
<1> QED
  BY <1>1, <1>2, <1>3, Zenon DEF DTypes

\* Whatever stops the serialisation, the buffer was too small.
LEMMA SerFails ==
  ASSUME DInv, at = "ser", NEW buf \in Seq(Cells), NEW pos \in 0..Len(buf), csr' = At(buf, pos),
         Len(buf) < WireSize(dg), Return("done", "err_nomem"), UNCHANGED <<word, out, past>>
  PROVE  DInv'
<1>1. DTypes /\ Unread /\ next \in 0..6
  BY FieldNames DEF DInv, SerInv, DTypes
<1>2. at' = "done" /\ res' = "err_nomem" /\ next' = next /\ word' = word /\ out' = out /\ dg' = dg
      /\ fate' = fate
  BY DEF Return, past
<1>3. DTypes' /\ csr'.buf = buf /\ csr'.pos = pos
  <2>1. word'.bit12 \in BOOLEAN /\ word'.type \in Nat
    BY <1>1, <1>2 DEF DTypes
  <2> QED
    BY <1>1, <1>2, <2>1, TypesNext
<1>4. NoRoom'
  <2>1. WireSize(dg)' = WireSize(dg)
    BY <1>2 DEF WireSize, NumberSize, FieldSizes, FieldSize
  <2> QED
    BY <1>1, <1>2, <1>3, <2>1 DEF NoRoom, Unread
<1> QED
  BY <1>2, <1>3, <1>4 DEF DInv, SerInv, AirInv, DesInv, DoneInv

\* The places of a datagram do not depend on the state.
LEMMA DgKept ==
  ASSUME dg' = dg
  PROVE  /\ \A k : Offset(dg, k)' = Offset(dg, k) /\ Piece(dg, k)' = Piece(dg, k)
         /\ PayStart(dg)' = PayStart(dg) /\ WireSize(dg)' = WireSize(dg)
         /\ NumFields(dg.type)' = NumFields(dg.type) /\ HdrWord(dg)' = HdrWord(dg)
OBVIOUS

\* A field, or the header, or the payload was put: what was there before is
\* there still.
LEMMA WrittenNext ==
  ASSUME DTypes, NEW n \in 0..NumFields(dg.type), Written(n), NEW pos \in Nat, Offset(dg, n) <= pos,
         NEW new \in Seq(Cells), Kept(new, csr.buf, pos), csr'.buf = new, dg' = dg
  PROVE  Written(n)'
<1> SUFFICES ASSUME NEW k \in 1..n PROVE Holds(new, Offset(dg, k - 1), Piece(dg, k))
  BY DEF Written
<1>1. k \in 1..NumFields(dg.type) /\ k - 1 \in 0..NumFields(dg.type) /\ n \in k..NumFields(dg.type)
      /\ k \in 0..NumFields(dg.type)
  BY TypesAre
<1>2. /\ Offset(dg, k) = Offset(dg, k - 1) + Len(Piece(dg, k)) /\ Offset(dg, k) <= Offset(dg, n)
      /\ Offset(dg, k - 1) \in Nat /\ Offset(dg, n) \in Nat /\ Offset(dg, k) \in Nat
  BY <1>1, TypesAre, OffsetIs
<1>3. Piece(dg, k) \in Seq(Cells) /\ Holds(csr.buf, Offset(dg, k - 1), Piece(dg, k))
  BY <1>1, TypesAre, PieceIs DEF Written
<1>4. Offset(dg, k - 1) + Len(Piece(dg, k)) <= pos
  BY <1>2
<1>5. csr.buf \in Seq(Cells)
  BY TypesAre
<1> QED
  BY <1>2, <1>3, <1>4, <1>5, HoldsKept

LEMMA SerHdrHolds ==
  ASSUME DInv, SerHdr
  PROVE  DInv'
<1> DEFINE b == csr.buf
           h == [j \in 1..HdrBytes |-> Coded]
           p == PutAll(csr, h)
<1>1. /\ at = "ser" /\ next = 0 /\ csr' = p.csr
      /\ IF p.res = "ok" THEN Continue ELSE Return("done", "err_nomem")
      /\ UNCHANGED <<word, out, past>>
  BY DEF SerHdr, SerStep
<1>2. DTypes /\ SerInv /\ Unread /\ res = "none" /\ csr.pos = 0 /\ csr = At(b, 0) /\ b \in Seq(Cells)
      /\ Len(b) \in Nat
  BY <1>1, TypesAre DEF DInv, SerInv
<1>3. h \in Seq(Cells) /\ Len(h) = HdrBytes
  <2>1. \A j \in 1..HdrBytes : Coded \in Cells
    BY DEF Cells
  <2> QED
    BY <2>1, IsASeq, LenProperties DEF HdrBytes
<1> HIDE DEF h, b, p
<1>4. CASE HdrBytes <= Len(b)
  <2>1. PICK new \in Seq(Cells) :
          /\ PutAll(At(b, 0), h) = [res |-> "ok", csr |-> At(new, 0 + Len(h))]
          /\ Kept(new, b, 0) /\ Holds(new, 0, h)
    <3>1. 0 + Len(h) <= Len(b)
      BY <1>2, <1>3, <1>4 DEF HdrBytes
    <3> QED
      BY <1>2, <1>3, <3>1, PutAllIs
  <2>2. csr' = At(new, HdrBytes) /\ Continue
    BY <1>1, <1>2, <1>3, <2>1 DEF p, HdrBytes
  <2>3. next' = 1 /\ at' = "ser" /\ res' = "none" /\ word' = word /\ out' = out /\ dg' = dg /\ fate' = fate
    BY <1>1, <1>2, <2>2 DEF Continue, past
  <2>4. HdrBytes \in 0..Len(new)
    BY <1>2, <1>4, <2>1 DEF Kept, HdrBytes
  <2>5. DTypes' /\ csr'.buf = new /\ csr'.pos = HdrBytes
    <3>1. word'.bit12 \in BOOLEAN /\ word'.type \in Nat /\ next' \in 0..6
      BY <1>2, <2>3 DEF DTypes
    <3> QED
      BY <1>2, <2>2, <2>3, <2>4, <3>1, TypesNext
  <2>6. SerInv'
    <3>1. Unread'
      BY <1>2, <2>3, DgKept, Zenon DEF Unread, Unset
    <3>2. Offset(dg, 0)' = HdrBytes /\ next' - 1 = 0 /\ NumFields(dg.type)' \in {4, 5}
      BY <1>2, <2>3, TypesAre, OffsetIs
    <3>3. Written(next - 1)'
      BY <2>3 DEF Written
    <3> QED
      BY <2>3, <2>5, <3>1, <3>2, <3>3 DEF SerInv
  <2> QED
    BY <2>3, <2>5, <2>6 DEF DInv, AirInv, DesInv, DoneInv
<1>5. CASE ~(HdrBytes <= Len(b))
  <2>1. p = [res |-> "exhausted", csr |-> At(b, 0)]
    <3>1. ~(0 + Len(h) <= Len(b))
      BY <1>2, <1>3, <1>5 DEF HdrBytes
    <3> QED
      BY <1>2, <1>3, <3>1, PutAllIs DEF p
  <2>2. csr' = At(b, 0) /\ Return("done", "err_nomem")
    BY <1>1, <2>1
  <2>3. Len(b) < WireSize(dg)
    <3>1. Offset(dg, 0) = HdrBytes /\ PayStart(dg) \in Nat /\ HdrBytes <= PayStart(dg)
          /\ WireSize(dg) = PayStart(dg) + Len(dg.pay) /\ Len(dg.pay) \in Nat
      <4>1. NumFields(dg.type) \in 0..NumFields(dg.type)
        BY <1>2, TypesAre
      <4> QED
        BY <1>2, <4>1, TypesAre, OffsetIs, DatagramIs
    <3> QED
      BY <1>2, <1>5, <3>1 DEF HdrBytes
  <2>4. 0 \in 0..Len(b)
    BY <1>2
  <2> QED
    BY <1>1, <1>2, <2>2, <2>3, <2>4, SerFails
<1> QED
  BY <1>4, <1>5

LEMMA SerFieldHolds ==
  ASSUME DInv, SerField
  PROVE  DInv'
<1> PICK k : k = next
  OBVIOUS
<1> DEFINE b == csr.buf
           m == NumFields(dg.type)
           s == Piece(dg, k)
           o == csr.pos
           p == PutField(csr, dg, k)
<1>1. DTypes /\ SerInv /\ at = "ser" /\ next = k /\ k \in DOMAIN SerFields[dg.type]
  BY DEF DInv, SerField
<1>2. /\ dg.type \in Types /\ dg \in Datagrams(dg.type) /\ csr = At(b, o) /\ b \in Seq(Cells)
      /\ Len(b) \in Nat /\ o \in Nat /\ o <= Len(b) /\ m \in {4, 5}
  BY <1>1, TypesAre
<1>3. k \in 1..m /\ k - 1 \in 0..m /\ k \in 0..m /\ k + 1 \in 0..6 /\ k + 1 \in 0..(m + 1) /\ k # 0
  <2>1. DOMAIN SerFields[dg.type] = 1..m
    BY <1>2, FieldNames
  <2> QED
    BY <1>1, <1>2, <2>1
<1>4. /\ csr' = p.csr
      /\ IF p.res = "ok" THEN Continue ELSE Return("done", "err_nomem")
      /\ UNCHANGED <<word, out, past>>
  BY Zenon DEF SerField, SerStep, PutField, Field
<1>5. Unread /\ res = "none" /\ o = Offset(dg, k - 1) /\ Written(k - 1)
  BY <1>1, <1>3 DEF SerInv
<1>6. s \in Seq(Cells) /\ Len(s) \in Nat
  BY <1>2, <1>3, PieceIs
<1>7. /\ Offset(dg, k) = o + Len(s) /\ Offset(dg, k) \in Nat /\ Offset(dg, k) <= PayStart(dg)
      /\ WireSize(dg) = PayStart(dg) + Len(dg.pay) /\ Len(dg.pay) \in Nat /\ PayStart(dg) \in Nat
  <2>1. m \in k..m /\ m \in 0..m
    BY <1>2, <1>3
  <2>2. Offset(dg, k) = Offset(dg, k - 1) + Len(s) /\ Offset(dg, k) \in Nat
    BY <1>2, <1>3, OffsetIs
  <2>3. Offset(dg, k) <= Offset(dg, m) /\ PayStart(dg) = Offset(dg, m) /\ Offset(dg, m) \in Nat
    BY <1>2, <1>3, <2>1, OffsetIs
  <2>4. WireSize(dg) = PayStart(dg) + Len(dg.pay) /\ Len(dg.pay) \in Nat
    BY <1>2, OffsetIs, DatagramIs
  <2> QED
    BY <1>5, <2>2, <2>3, <2>4
<1> HIDE DEF b, m, s, o, p
<1>8. IF o + Len(s) <= Len(b)
         THEN \E new \in Seq(Cells) :
                /\ PutField(At(b, o), dg, k) = [res |-> "ok", csr |-> At(new, o + Len(s))]
                /\ Kept(new, b, o) /\ Holds(new, o, s)
         ELSE \E new \in Seq(Cells) : \E q \in 0..Len(new) :
                /\ PutField(At(b, o), dg, k) = [res |-> "exhausted", csr |-> At(new, q)]
                /\ Len(new) = Len(b)
  <2>1. dg.type \in Types /\ dg \in Datagrams(dg.type) /\ k \in 1..NumFields(dg.type)
    BY <1>2, <1>3 DEF m
  <2>2. b \in Seq(Cells) /\ o \in Nat /\ o <= Len(b)
    BY <1>2
  <2> HIDE DEF PutField
  <2> QED
    BY <2>1, <2>2, PutFieldIs DEF s
<1>9. CASE o + Len(s) <= Len(b)
  <2>1. PICK new \in Seq(Cells) :
          /\ PutField(At(b, o), dg, k) = [res |-> "ok", csr |-> At(new, o + Len(s))]
          /\ Kept(new, b, o) /\ Holds(new, o, s)
    BY <1>9, <1>8
  <2>2. csr' = At(new, o + Len(s)) /\ Continue
    BY <1>2, <1>4, <2>1 DEF p
  <2>3. next' = k + 1 /\ at' = "ser" /\ res' = "none" /\ word' = word /\ out' = out /\ dg' = dg /\ fate' = fate
    BY <1>1, <1>4, <1>5, <2>2 DEF Continue, past
  <2>4. o + Len(s) \in 0..Len(new)
    BY <1>2, <1>6, <1>9, <2>1 DEF Kept
  <2>5. DTypes' /\ csr'.buf = new /\ csr'.pos = o + Len(s)
    <3>1. word'.bit12 \in BOOLEAN /\ word'.type \in Nat /\ next' \in 0..6
      BY <1>1, <1>3, <2>3 DEF DTypes
    <3> QED
      BY <1>1, <2>2, <2>3, <2>4, <3>1, TypesNext
  <2>6. Written(k - 1)'
    <3>1. Offset(dg, k - 1) <= o
      BY <1>2, <1>5
    <3> QED
      BY <1>1, <1>2, <1>3, <1>5, <2>1, <2>3, <2>5, <3>1, WrittenNext DEF b, m
  <2>7. Written(k)'
    <3> SUFFICES ASSUME NEW j \in 1..k PROVE Holds(new, Offset(dg, j - 1), Piece(dg, j))
      BY <2>3, <2>5 DEF Written
    <3>1. CASE j = k
      BY <1>5, <2>1, <3>1 DEF s
    <3>2. CASE j # k
      <4>1. j \in 1..(k - 1)
        BY <1>3, <3>2
      <4> QED
        BY <2>3, <2>5, <2>6, <4>1 DEF Written
    <3> QED
      BY <3>1, <3>2
  <2>8. SerInv'
    <3>1. Unread'
      BY <1>5, <2>3, DgKept, Zenon DEF Unread, Unset
    <3>2. next' - 1 = k /\ next' # 0 /\ next' \in 0..(m + 1) /\ m' = m
      BY <1>3, <2>3 DEF m
    <3>3. Written(next - 1)'
      BY <2>7, <3>2 DEF Written
    <3>4. csr'.pos = Offset(dg', next' - 1)
      BY <1>7, <2>3, <2>5, <3>2
    <3> QED
      BY <2>3, <3>1, <3>2, <3>3, <3>4 DEF SerInv, m
  <2> QED
    BY <2>3, <2>5, <2>8 DEF DInv, AirInv, DesInv, DoneInv
<1>10. CASE ~(o + Len(s) <= Len(b))
  <2>1. PICK new \in Seq(Cells) : \E q \in 0..Len(new) :
          /\ PutField(At(b, o), dg, k) = [res |-> "exhausted", csr |-> At(new, q)]
          /\ Len(new) = Len(b)
    BY <1>10, <1>8
  <2>2. PICK q \in 0..Len(new) :
          PutField(At(b, o), dg, k) = [res |-> "exhausted", csr |-> At(new, q)]
    BY <2>1
  <2>3. csr' = At(new, q) /\ Return("done", "err_nomem")
    BY <1>2, <1>4, <2>2 DEF p
  <2>4. Len(new) < WireSize(dg)
    BY <1>2, <1>6, <1>7, <1>10, <2>1
  <2> QED
    BY <1>1, <1>4, <2>3, <2>4, SerFails
<1> QED
  BY <1>9, <1>10

LEMMA SerPayHolds ==
  ASSUME DInv, SerPay
  PROVE  DInv'
<1> DEFINE b == csr.buf
           m == NumFields(dg.type)
           s == dg.pay
           o == csr.pos
           p == PutAll(csr, s)
<1>1. /\ DTypes /\ SerInv /\ at = "ser" /\ next = m + 1 /\ csr' = p.csr
      /\ IF p.res = "ok" THEN Return("air", "ok") ELSE Return("done", "err_nomem")
      /\ UNCHANGED <<word, out, past>>
  BY Zenon DEF DInv, SerPay, NumFields
<1>2. /\ dg.type \in Types /\ dg \in Datagrams(dg.type) /\ csr = At(b, o) /\ b \in Seq(Cells)
      /\ Len(b) \in Nat /\ o \in Nat /\ o <= Len(b) /\ m \in {4, 5} /\ m \in 0..m
  BY <1>1, TypesAre
<1>3. Unread /\ res = "none" /\ o = Offset(dg, m) /\ Written(m)
  <2>1. next # 0 /\ next - 1 = m
    BY <1>1, <1>2
  <2> QED
    BY <1>1, <2>1 DEF SerInv
<1>4. s \in Seq(Cells) /\ Len(s) \in Nat
  BY <1>2, DatagramIs
<1>5. PayStart(dg) = o /\ WireSize(dg) = o + Len(s)
  BY <1>2, <1>3, OffsetIs
<1> HIDE DEF b, s, o, p
<1>6. CASE o + Len(s) <= Len(b)
  <2>1. PICK new \in Seq(Cells) :
          /\ PutAll(At(b, o), s) = [res |-> "ok", csr |-> At(new, o + Len(s))]
          /\ Kept(new, b, o) /\ Holds(new, o, s)
    BY <1>2, <1>4, <1>6, PutAllIs
  <2>2. csr' = At(new, o + Len(s)) /\ Return("air", "ok")
    BY <1>1, <1>2, <2>1 DEF p
  <2>3. next' = next /\ at' = "air" /\ res' = "ok" /\ word' = word /\ out' = out /\ dg' = dg /\ fate' = fate
    BY <1>1, <2>2 DEF Return, past
  <2>4. o + Len(s) \in 0..Len(new)
    BY <1>2, <1>4, <1>6, <2>1 DEF Kept
  <2>5. DTypes' /\ csr'.buf = new /\ csr'.pos = o + Len(s)
    <3>1. word'.bit12 \in BOOLEAN /\ word'.type \in Nat /\ next' \in 0..6
      BY <1>1, <1>2, <2>3 DEF DTypes
    <3> QED
      BY <1>1, <2>2, <2>3, <2>4, <3>1, TypesNext
  <2>6. Written(m)'
    <3>1. Offset(dg, m) <= o
      BY <1>2, <1>3
    <3>2. Kept(new, csr.buf, o)
      BY <2>1 DEF b
    <3> HIDE DEF m
    <3>3. m' = m
      BY <2>3 DEF m
    <3>4. m \in 0..NumFields(dg.type)
      BY <1>2 DEF m
    <3>5. \A n \in 0..NumFields(dg.type) : Written(n) /\ Offset(dg, n) <= o => Written(n)'
      BY <1>1, <1>2, <2>1, <2>3, <2>5, <3>2, WrittenNext
    <3>6. \A n : n = m' => (Written(n)' => Written(m)')
      BY <3>3 DEF Written
    <3> QED
      BY <1>3, <3>1, <3>3, <3>4, <3>5, <3>6
  <2>7. AirInv'
    <3>1. Unread'
      BY <1>3, <2>3, DgKept, Zenon DEF Unread, Unset
    <3>2. /\ csr'.pos = WireSize(dg') /\ Holds(csr'.buf, PayStart(dg'), dg'.pay)
      BY <1>5, <2>1, <2>3, <2>5 DEF s
    <3> QED
      BY <2>3, <2>6, <3>1, <3>2 DEF AirInv
  <2> QED
    BY <2>3, <2>5, <2>7 DEF DInv, SerInv, DesInv, DoneInv
<1>7. CASE ~(o + Len(s) <= Len(b))
  <2>1. p = [res |-> "exhausted", csr |-> At(b, o)]
    BY <1>2, <1>4, <1>7, PutAllIs DEF p
  <2>2. csr' = At(b, o) /\ Return("done", "err_nomem")
    BY <1>1, <2>1
  <2>3. Len(b) < WireSize(dg) /\ o \in 0..Len(b)
    BY <1>2, <1>4, <1>5, <1>7
  <2> QED
    BY <1>1, <1>2, <2>2, <2>3, SerFails
<1> QED
  BY <1>6, <1>7

\* Something arrives: whatever it is, the datagram and its struct are as they were.
LEMMA ArriveHolds ==
  ASSUME DInv, NEW how \in {"whole", "cut", "garbled", "damaged"}, NEW new \in Seq(Cells), Arrive(how, new),
         how \in {"whole", "cut"} => word' = word, word'.bit12 \in BOOLEAN, word'.type \in Nat,
         IF how = "damaged"
           THEN Body(new)
           ELSE /\ \A k \in 1..NumFields(dg.type) : Begins(new, Offset(dg, k - 1), Piece(dg, k))
                /\ Begins(new, PayStart(dg), dg.pay),
         IF how = "cut" THEN Len(new) < WireSize(dg) ELSE Len(new) = WireSize(dg)
  PROVE  DInv'
<1>1. /\ at = "air" /\ csr' = CursorNew(new) /\ at' = "des" /\ next' = 0 /\ res' = "none"
      /\ fate' = how /\ dg' = dg /\ out' = out
  BY DEF Arrive
<1>2. DTypes /\ Unread
  BY <1>1 DEF DInv, AirInv
<1>3. csr' = At(new, 0) /\ 0 \in 0..Len(new)
  BY <1>1, LenProperties DEF CursorNew, At
<1>4. DTypes' /\ csr'.buf = new /\ csr'.pos = 0
  BY <1>1, <1>2, <1>3, TypesNext
<1>5. Arrived'
  <2>1. how \in {"whole", "cut"} => word' = HdrWord(dg)
    BY <1>2 DEF Unread
  <2> QED
    BY <1>1, <1>4, <2>1, DgKept DEF Arrived, Body
<1>6. DesInv'
  <2>1. out' = Unset
    BY <1>1, <1>2 DEF Unread
  <2> QED
    BY <1>1, <1>4, <1>5, <2>1, Zenon DEF DesInv, Unset
<1> QED
  BY <1>1, <1>4, <1>6 DEF DInv, SerInv, AirInv, DoneInv

\* The first bytes of what was sent.
LEMMA SentBegins ==
  ASSUME DInv, at = "air", NEW n \in 0..csr.pos
  PROVE  /\ SubSeq(csr.buf, 1, n) \in Seq(Cells) /\ Len(SubSeq(csr.buf, 1, n)) = n
         /\ csr.pos = WireSize(dg) /\ SubSeq(Sent, 1, n) = SubSeq(csr.buf, 1, n)
         /\ \A k \in 1..NumFields(dg.type) :
              Begins(SubSeq(csr.buf, 1, n), Offset(dg, k - 1), Piece(dg, k))
         /\ Begins(SubSeq(csr.buf, 1, n), PayStart(dg), dg.pay)
<1> DEFINE b == csr.buf
           m == NumFields(dg.type)
           new == SubSeq(b, 1, n)
<1>1. DTypes /\ csr.pos = WireSize(dg) /\ Written(m) /\ Holds(b, PayStart(dg), dg.pay)
  BY DEF DInv, AirInv
<1>2. /\ dg.type \in Types /\ dg \in Datagrams(dg.type) /\ b \in Seq(Cells)
      /\ Len(b) \in Nat /\ csr.pos \in Nat /\ csr.pos <= Len(b) /\ m \in {4, 5} /\ m \in 0..m
  BY <1>1, TypesAre
<1>3. n \in 0..Len(b) /\ n \in Nat
  BY <1>2
<1> HIDE DEF b, m, new
<1>4. /\ new \in Seq(Cells) /\ Len(new) = n /\ \A k \in 1..n : new[k] = b[k]
  BY <1>2, <1>3, SubSeqProperties DEF new
<1>5. ASSUME NEW k \in 1..m PROVE Begins(new, Offset(dg, k - 1), Piece(dg, k))
  <2>1. k \in 1..NumFields(dg.type) /\ k - 1 \in 0..NumFields(dg.type)
    BY <1>2 DEF m
  <2>2. Offset(dg, k - 1) \in Nat /\ Piece(dg, k) \in Seq(Cells)
    BY <1>2, <2>1, OffsetIs, PieceIs
  <2>3. Holds(b, Offset(dg, k - 1), Piece(dg, k))
    BY <1>1 DEF Written, b
  <2> QED
    BY <1>2, <1>3, <2>2, <2>3, HoldsCut DEF new
<1>6. Begins(new, PayStart(dg), dg.pay)
  <2>1. PayStart(dg) \in Nat /\ dg.pay \in Seq(Cells)
    BY <1>2, OffsetIs, DatagramIs DEF m
  <2> QED
    BY <1>1, <1>2, <1>3, <2>1, HoldsCut DEF new
<1>7. SubSeq(Sent, 1, n) = new
  <2> DEFINE l == csr.pos
             c == SubSeq(b, 1, l)
             e == SubSeq(c, 1, n)
  <2>0. l \in 0..Len(b) /\ l \in Nat /\ n <= l
    BY <1>2
  <2> HIDE DEF l
  <2>1. c \in Seq(Cells) /\ Len(c) = l /\ \A k \in 1..l : c[k] = b[k]
    BY <1>2, <2>0, SubSeqProperties
  <2> HIDE DEF c
  <2>2. e \in Seq(Cells) /\ Len(e) = n /\ \A k \in 1..n : e[k] = c[k]
    <3>1. n \in 0..Len(c)
      BY <1>3, <2>0, <2>1
    <3> QED
      BY <1>3, <2>1, <3>1, SubSeqProperties
  <2>3. \A k \in 1..n : e[k] = new[k]
    BY <1>3, <1>4, <2>0, <2>1, <2>2
  <2>4. e = new
    BY <1>4, <2>2, <2>3, SeqEqual
  <2>5. Sent = c
    BY DEF Sent, b, c, l
  <2> QED
    BY <2>4, <2>5
<1> QED
  BY <1>1, <1>4, <1>5, <1>6, <1>7 DEF new, b, m

\* What is sent after the header is bytes.
LEMMA BodyIs ==
  ASSUME DInv, at = "air", NEW i \in (HdrBytes + 1)..csr.pos
  PROVE  csr.buf[i] \in Byte
<1> DEFINE m == NumFields(dg.type)
<1>1. DTypes /\ csr.pos = WireSize(dg) /\ Written(m) /\ Holds(csr.buf, PayStart(dg), dg.pay)
  BY DEF DInv, AirInv
<1>2. dg.type \in Types /\ dg \in Datagrams(dg.type) /\ m \in {4, 5} /\ csr.pos \in Nat
  BY <1>1, TypesAre
<1>3. i \in Nat
  BY <1>2 DEF HdrBytes
<1>4. /\ Offset(dg, 0) = HdrBytes /\ PayStart(dg) = Offset(dg, m)
      /\ \A k \in 0..m : Offset(dg, k) \in Nat
      /\ \A k \in 1..m : Offset(dg, k) = Offset(dg, k - 1) + Len(Piece(dg, k))
      /\ WireSize(dg) = PayStart(dg) + Len(dg.pay)
  BY <1>2, OffsetIs
<1>5. ASSUME NEW p \in Nat, NEW s \in Seq(Byte), Holds(csr.buf, p, s), p < i, i <= p + Len(s)
      PROVE  csr.buf[i] \in Byte
  <2>1. i - p \in 1..Len(s) /\ p + (i - p) = i
    BY <1>3, <1>5, LenProperties
  <2>2. csr.buf[p + (i - p)] = s[i - p]
    BY <1>5, <2>1 DEF Holds
  <2>3. s[i - p] \in Byte
    BY <1>5, <2>1, ElementOfSeq
  <2> QED
    BY <2>1, <2>2, <2>3
<1>6. ASSUME NEW k \in 1..m, Offset(dg, k - 1) < i, i <= Offset(dg, k)
      PROVE  csr.buf[i] \in Byte
  <2>1. k - 1 \in 0..m
    BY <1>2
  <2>2. Piece(dg, k) \in Seq(Byte) /\ Offset(dg, k - 1) \in Nat /\ i <= Offset(dg, k - 1) + Len(Piece(dg, k))
    BY <1>2, <1>4, <1>6, <2>1, PieceIs
  <2>3. Holds(csr.buf, Offset(dg, k - 1), Piece(dg, k))
    BY <1>1 DEF Written
  <2> QED
    BY <1>5, <1>6, <2>2, <2>3
<1>7. ASSUME Offset(dg, m) < i PROVE csr.buf[i] \in Byte
  <2>1. dg.pay \in Seq(Byte)
    BY <1>2, DatagramIs
  <2>2. m \in 0..m
    BY <1>2
  <2>3. PayStart(dg) \in Nat /\ PayStart(dg) < i
    BY <1>4, <1>7, <2>2
  <2>4. i <= PayStart(dg) + Len(dg.pay)
    BY <1>1, <1>4
  <2> QED
    BY <1>1, <1>5, <2>1, <2>3, <2>4
<1>8. Offset(dg, 0) < i
  BY <1>3, <1>4 DEF HdrBytes
<1> HIDE DEF m, Offset
<1>9. PICK o \in [0..5 -> Int] : \A k \in 0..5 : k <= m => o[k] = Offset(dg, k)
  <2> DEFINE o == [k \in 0..5 |-> IF k <= m THEN Offset(dg, k) ELSE 0]
  <2>1. o \in [0..5 -> Int]
    BY <1>2, <1>4
  <2> QED
    BY <2>1
<1>10. o[0] < i
  BY <1>2, <1>8, <1>9
<1>11. ASSUME NEW k \in 1..5, k <= m, o[k - 1] < i, ~(o[k] < i) PROVE csr.buf[i] \in Byte
  <2>1. k \in 1..m /\ k - 1 \in 0..5 /\ k - 1 <= m /\ k \in 0..5
    BY <1>2, <1>11
  <2>2. o[k - 1] = Offset(dg, k - 1) /\ o[k] = Offset(dg, k) /\ o[k] \in Int
    BY <1>9, <1>11, <2>1
  <2>3. Offset(dg, k - 1) < i /\ i <= Offset(dg, k)
    BY <1>3, <1>11, <2>2
  <2> QED
    BY <1>6, <2>1, <2>3
<1>12. o[1] < i \/ csr.buf[i] \in Byte
  BY <1>2, <1>10, <1>11
<1>13. o[2] < i \/ csr.buf[i] \in Byte
  BY <1>2, <1>12, <1>11
<1>14. o[3] < i \/ csr.buf[i] \in Byte
  BY <1>2, <1>13, <1>11
<1>15. o[4] < i \/ csr.buf[i] \in Byte
  BY <1>2, <1>14, <1>11
<1>16. m = 5 => o[5] < i \/ csr.buf[i] \in Byte
  BY <1>2, <1>15, <1>11
<1> QED
  BY <1>2, <1>7, <1>9, <1>15, <1>16

\* A function on the first numbers is a sequence of as many.
LEMMA FunIsSeq ==
  ASSUME NEW S, NEW n \in Nat, NEW s \in [1..n -> S]
  PROVE  s \in Seq(S) /\ Len(s) = n
<1>1. s \in Seq(S)
  <2>1. [1..n -> S] \in {[1..k -> S] : k \in Nat}
    OBVIOUS
  <2>2. s \in UNION {[1..k -> S] : k \in Nat}
    BY <2>1, Zenon
  <2> QED
    BY <2>2, SeqDef, Zenon
<1>2. DOMAIN s = 1..n /\ DOMAIN s = 1..Len(s) /\ Len(s) \in Nat
  BY <1>1, LenProperties
<1> QED
  BY <1>1, <1>2

LEMMA AirHolds ==
  ASSUME DInv, Whole \/ Cut \/ Garble \/ Damage
  PROVE  DInv'
<1> DEFINE l == csr.pos
<1>1. DTypes /\ l \in Nat /\ csr.buf \in Seq(Cells)
  BY TypesAre DEF DInv
<1>2. word.bit12 \in BOOLEAN /\ word.type \in Nat
  BY <1>1 DEF DTypes
<1>3. at = "air"
  BY DEF Whole, Cut, Garble, Damage, Arrive
<1>4. \A w \in Words : w.bit12 \in BOOLEAN /\ w.type \in Nat
  BY DEF Words, Ack
<1>5. l \in 0..l /\ l = WireSize(dg)
  BY <1>1, <1>3, SentBegins
<1>6. /\ Sent \in Seq(Cells) /\ Len(Sent) = WireSize(dg)
      /\ \A k \in 1..NumFields(dg.type) : Begins(Sent, Offset(dg, k - 1), Piece(dg, k))
      /\ Begins(Sent, PayStart(dg), dg.pay)
  BY <1>3, <1>5, SentBegins DEF Sent
<1>7. CASE Whole
  <2>1. Arrive("whole", Sent) /\ word' = word
    BY <1>7 DEF Whole
  <2> QED
    BY <1>2, <1>6, <2>1, ArriveHolds
<1>8. CASE Cut
  <2>1. PICK n \in 0..(l - 1) : Arrive("cut", SubSeq(Sent, 1, n))
    BY <1>8 DEF Cut
  <2>2. word' = word /\ n \in 0..l /\ n < l
    BY <1>1, <1>8 DEF Cut
  <2> DEFINE new == SubSeq(Sent, 1, n)
  <2>3. /\ new \in Seq(Cells) /\ Len(new) = n
        /\ \A k \in 1..NumFields(dg.type) : Begins(new, Offset(dg, k - 1), Piece(dg, k))
        /\ Begins(new, PayStart(dg), dg.pay)
    BY <1>3, <2>2, SentBegins
  <2> HIDE DEF new
  <2>4. Arrive("cut", new)
    BY <2>1 DEF new
  <2>5. Len(new) < WireSize(dg)
    BY <1>5, <2>2, <2>3
  <2> QED
    BY <1>2, <2>2, <2>3, <2>4, <2>5, ArriveHolds
<1>9. CASE Garble
  <2>1. Arrive("garbled", Sent) /\ word' \in Words
    BY <1>9 DEF Garble
  <2> QED
    BY <1>4, <1>6, <2>1, ArriveHolds
<1>10. CASE Damage
  <2>1. PICK k \in 1..MaxWrong : \E wrong \in kSubset(k, (HdrBytes + 1)..l) :
          \E byte \in [wrong -> WrongBytes] :
            Arrive("damaged", [i \in 1..l |-> IF i \in wrong THEN byte[i] ELSE csr.buf[i]])
    BY <1>10 DEF Damage
  <2> PICK wrong \in kSubset(k, (HdrBytes + 1)..l) : \E byte \in [wrong -> WrongBytes] :
        Arrive("damaged", [i \in 1..l |-> IF i \in wrong THEN byte[i] ELSE csr.buf[i]])
    BY <2>1
  <2>2. PICK byte \in [wrong -> WrongBytes] :
          Arrive("damaged", [i \in 1..l |-> IF i \in wrong THEN byte[i] ELSE csr.buf[i]])
    OBVIOUS
  <2> DEFINE new == [i \in 1..l |-> IF i \in wrong THEN byte[i] ELSE csr.buf[i]]
  <2>3. \A i \in 1..l : csr.buf[i] \in Cells
    BY <1>1, TypesAre, ElementOfSeq
  <2>4. \A i \in 1..l : new[i] \in Cells
    BY <2>2, <2>3, DatagramAssumption DEF Cells
  <2>5. new \in Seq(Cells) /\ Len(new) = l
    <3>1. new = [i \in 1..l |-> new[i]]
      OBVIOUS
    <3> HIDE DEF new
    <3>2. new \in [1..l -> Cells]
      BY <2>4, <3>1
    <3> HIDE DEF l
    <3> QED
      BY <1>1, <3>2, FunIsSeq
  <2>6. \A i \in (HdrBytes + 1)..l : i \in 1..l /\ new[i] \in Byte
    <3> SUFFICES ASSUME NEW i \in (HdrBytes + 1)..l PROVE i \in 1..l /\ new[i] \in Byte
      OBVIOUS
    <3>1. i \in 1..l
      BY <1>1 DEF HdrBytes
    <3>2. csr.buf[i] \in Byte
      BY <1>3, BodyIs
    <3> QED
      BY <2>2, <3>1, <3>2, DatagramAssumption DEF Byte
  <2> HIDE DEF new
  <2>7. Body(new) /\ Len(new) = WireSize(dg)
    BY <1>5, <2>5, <2>6 DEF Body
  <2>8. Arrive("damaged", new)
    BY <2>2 DEF new
  <2>9. word'.bit12 \in BOOLEAN /\ word'.type \in Nat
    BY <1>2, <1>4, <1>10 DEF Damage
  <2> QED
    BY <2>5, <2>7, <2>8, <2>9, ArriveHolds
<1> QED
  BY <1>7, <1>8, <1>9, <1>10

\* A header that was sent has a type.
LEMMA SentIs ==
  ASSUME DTypes, word = HdrWord(dg)
  PROVE  ~word.bit12 /\ word.type = dg.type /\ word.type \in Types
         /\ word.bits = FlagBits(dg.type, dg.flags)
BY TypesAre DEF HdrWord

\* A datagram is refused: how many of its fields were read does not show.
LEMMA DesFails ==
  ASSUME DInv, at = "des", Arrived, NEW pos \in 0..Len(csr.buf), csr' = At(csr.buf, pos), NEW r,
         Return("done", r), UNCHANGED <<word, past>>, out' = out,
         \/ r = "err_exception" /\ word.bit12
         \/ r = "invalid_type" /\ ~word.bit12 /\ word.type \notin Types
         \/ /\ r = "err_nomem" /\ ~word.bit12 /\ word.type \in Types
            /\ fate \in {"whole", "cut"} => Len(csr.buf) < PayStart(dg)
  PROVE  DInv'
<1>1. DTypes /\ DesInv /\ next \in 0..6 /\ csr.buf \in Seq(Cells)
  BY FieldNames DEF DInv, DTypes
<1>2. /\ at' = "done" /\ res' = r /\ next' = next /\ word' = word /\ dg' = dg /\ fate' = fate
  BY DEF Return, past
<1>3. DTypes' /\ csr'.buf = csr.buf
  <2>1. word'.bit12 \in BOOLEAN /\ word'.type \in Nat
    BY <1>1, <1>2 DEF DTypes
  <2> QED
    BY <1>1, <1>2, <2>1, TypesNext
<1>4. /\ out.type = 0 /\ out.pay = <<>> /\ \A f \in DOMAIN out.val : out.val[f] \in Values
      /\ fate \in {"whole", "cut"} =>
           \A f \in DOMAIN out.val : f \in DOMAIN dg.val /\ out.val[f] = dg.val[f]
  <2>1. CASE next = 0
    BY <1>1, <2>1 DEF DesInv, Unset, NoVal
  <2>2. CASE next # 0
    <3>1. out = Struct(0, out.val, <<>>) /\ ReadTo(next - 1, csr.pos)
      BY <1>1, <2>2 DEF DesInv
    <3>2. out.type = 0 /\ out.pay = <<>>
      BY <3>1 DEF Struct
    <3>3. out.val \in [Fields(word.type, next - 1) -> Values]
      BY <3>1 DEF ReadTo
    <3>4. ASSUME fate \in {"whole", "cut"}, NEW f \in DOMAIN out.val
          PROVE  f \in DOMAIN dg.val /\ out.val[f] = dg.val[f]
      <4>1. word.type = dg.type /\ dg.type \in Types /\ dg \in Datagrams(dg.type)
        BY <1>1, <3>4, SentIs, TypesAre DEF Arrived
      <4>2. PICK k \in 1..(next - 1) : f = Field(dg.type, k)
        BY <3>3, <3>4, <4>1 DEF Fields
      <4>3. SentTo(next - 1, csr.pos) /\ next - 1 \in 0..NumFields(dg.type)
        BY <3>1, <3>4, <4>1 DEF ReadTo
      <4>4. k \in 1..NumFields(dg.type) /\ k <= NumFields(dg.type)
        BY <4>1, <4>3, FieldNames
      <4>5. out.val[f] = dg.val[f]
        BY <4>1, <4>2, <4>3, <4>4 DEF SentTo
      <4>6. f \in Fields(dg.type, NumFields(dg.type))
        BY <4>2, <4>4 DEF Fields
      <4> QED
        BY <4>1, <4>5, <4>6, DatagramIs
    <3> QED
      BY <3>2, <3>3, <3>4
  <2> QED
    BY <2>1, <2>2
<1>5. Arrived'
  BY <1>2, <1>3, DgKept DEF Arrived, Body
<1>6. Refused'
  <2>1. PayStart(dg)' = PayStart(dg) /\ Values' = Values
    BY <1>2, DgKept
  <2> QED
    BY <1>2, <1>3, <1>4, <1>5, <2>1 DEF Refused
<1> QED
  BY <1>2, <1>3, <1>6 DEF DInv, SerInv, AirInv, DesInv, DoneInv

LEMMA DesHdrHolds ==
  ASSUME DInv, DesHdr
  PROVE  DInv'
<1> DEFINE b == csr.buf
<1>1. at = "des" /\ next = 0 /\ DTypes /\ DesInv /\ UNCHANGED <<word, past>>
  BY DEF DInv, DesHdr
<1>2. Arrived /\ csr.pos = 0 /\ out = Unset /\ res = "none"
  BY <1>1 DEF DesInv
<1>3. /\ dg.type \in Types /\ dg \in Datagrams(dg.type) /\ csr = At(b, 0) /\ b \in Seq(Cells)
      /\ Len(b) \in Nat /\ word.bit12 \in BOOLEAN /\ word.type \in Nat
  BY <1>1, <1>2, TypesAre DEF DTypes
<1>4. (Fits(csr, HdrBytes) <=> HdrBytes <= Len(b)) /\ Advance(csr, HdrBytes) = At(b, HdrBytes)
  <2>1. (\A n : Fits(At(b, 0), n) <=> 0 + n <= Len(b)) /\ \A n : Advance(At(b, 0), n) = At(b, 0 + n)
    BY AtIs
  <2> QED
    BY <1>3, <2>1 DEF HdrBytes
<1>5. /\ Offset(dg, 0) = HdrBytes /\ HdrBytes <= PayStart(dg) /\ PayStart(dg) \in Nat
      /\ WireSize(dg) = PayStart(dg) + Len(dg.pay) /\ Len(dg.pay) \in Nat
  <2>1. NumFields(dg.type) \in 0..NumFields(dg.type)
    BY <1>1, TypesAre
  <2> QED
    BY <1>3, <2>1, OffsetIs, DatagramIs
<1> HIDE DEF b
<1>6. CASE ~Fits(csr, HdrBytes)
  <2>1. csr' = csr /\ out' = out /\ Return("done", "err_nomem")
    BY <1>6 DEF DesHdr
  <2>2. Len(b) < HdrBytes /\ Len(b) < PayStart(dg)
    BY <1>3, <1>4, <1>5, <1>6 DEF HdrBytes
  <2>3. fate = "cut"
    BY <1>2, <1>3, <1>5, <2>2 DEF Arrived, b, HdrBytes
  <2>4. ~word.bit12 /\ word.type \in Types
    BY <1>1, <1>2, <2>3, SentIs DEF Arrived
  <2>5. 0 \in 0..Len(csr.buf) /\ csr' = At(csr.buf, 0)
    BY <1>3, <2>1 DEF b
  <2> QED
    BY <1>1, <1>2, <2>1, <2>2, <2>4, <2>5, DesFails DEF b
<1>7. CASE Fits(csr, HdrBytes)
  <2>1. csr' = At(csr.buf, HdrBytes) /\ HdrBytes \in 0..Len(csr.buf)
    BY <1>3, <1>4, <1>7 DEF DesHdr, b, HdrBytes
  <2>2. TypeBits(word.type) <=> word.type \in Types
    BY <1>3 DEF TypeBits, Types, Ack
  <2>3. CASE word.bit12
    <3>1. Return("done", "err_exception") /\ out' = out
      BY <1>7, <2>3 DEF DesHdr
    <3> QED
      BY <1>1, <1>2, <2>1, <2>3, <3>1, DesFails
  <2>4. CASE ~word.bit12 /\ ~TypeBits(word.type)
    <3>1. Return("done", "invalid_type") /\ out' = out
      BY <1>7, <2>4 DEF DesHdr
    <3> QED
      BY <1>1, <1>2, <2>1, <2>2, <2>4, <3>1, DesFails
  <2>5. CASE ~word.bit12 /\ TypeBits(word.type)
    <3>1. Continue /\ out' = [out EXCEPT !.flags = FlagsOf(word.type, word.bits)]
      BY <1>7, <2>5 DEF DesHdr
    <3>2. next' = 1 /\ at' = "des" /\ res' = "none" /\ word' = word /\ dg' = dg /\ fate' = fate
      BY <1>1, <1>2, <3>1 DEF Continue, past
    <3>3. DTypes' /\ csr'.buf = csr.buf /\ csr'.pos = HdrBytes
      <4>1. word'.bit12 \in BOOLEAN /\ word'.type \in Nat /\ next' \in 0..6 /\ csr.buf \in Seq(Cells)
        BY <1>3, <3>2 DEF b
      <4> QED
        BY <1>1, <2>1, <3>2, <4>1, TypesNext
    <3>4. Arrived'
      BY <1>2, <3>2, <3>3, DgKept DEF Arrived, Body
    <3>5. out' = Struct(0, NoVal, <<>>)'
      BY <1>2, <3>1, <3>2 DEF Unset, Struct
    <3>6. out'.val = NoVal
      BY <3>5 DEF Struct
    <3>7. ReadTo(0, HdrBytes)'
      <4>1. NumFields(word.type) \in Nat /\ NumFields(dg.type) \in Nat
        BY <1>3, <2>2, <2>5, FieldNames
      <4>2. Fields(word.type, 0) = {}
        BY DEF Fields
      <4>3. NoVal \in [Fields(word.type, 0) -> Values]
        BY <4>2 DEF NoVal
      <4>4. ~word'.bit12 /\ word'.type \in Types /\ 0 \in 0..NumFields(word'.type)
        BY <2>2, <2>5, <3>2, <4>1
      <4>5. out'.val \in [Fields(word'.type, 0) -> Values]
        BY <3>2, <3>6, <4>3
      <4>6. IF 0 <= NumFields(dg'.type) THEN HdrBytes = Offset(dg', 0) ELSE HdrBytes >= PayStart(dg')
        BY <1>5, <3>2, <4>1
      <4>7. HdrBytes >= HdrBytes + LeastTo(0)
        BY DEF LeastTo, HdrBytes
      <4>8. SentTo(0, HdrBytes)'
        BY <4>6 DEF SentTo
      <4> QED
        BY <4>4, <4>5, <4>7, <4>8 DEF ReadTo, LeastTo
    <3>8. DesInv'
      <4>1. next' - 1 = 0 /\ next' # 0
        BY <3>2
      <4>2. out' = Struct(0, out.val, <<>>)'
        BY <3>5, <3>6 DEF Struct
      <4>3. ReadTo(next - 1, csr.pos)'
        BY <3>3, <3>7, <4>1 DEF ReadTo, SentTo, LeastTo
      <4> QED
        BY <3>2, <3>4, <4>1, <4>2, <4>3 DEF DesInv
    <3> QED
      BY <3>2, <3>3, <3>8 DEF DInv, SerInv, AirInv, DoneInv
  <2> QED
    BY <2>3, <2>4, <2>5
<1> QED
  BY <1>6, <1>7

LEMMA StructIs ==
  ASSUME NEW t, NEW val, NEW pay
  PROVE  /\ Struct(t, val, pay).val = val /\ Struct(t, val, pay).pay = pay
         /\ Struct(t, val, pay).type = t
         /\ Struct(t, val, pay).flags = FlagsOf(word.type, word.bits)
BY DEF Struct

LEMMA StructSet ==
  ASSUME NEW val, NEW w
  PROVE  [Struct(0, val, <<>>) EXCEPT !.val = w] = Struct(0, w, <<>>)
BY DEF Struct

\* The next field is read, or the bytes end in it.
LEMMA DesFieldIs ==
  ASSUME DTypes, Arrived, NEW k \in Nat \ {0}, k <= NumFields(word.type), ReadTo(k - 1, csr.pos),
         NEW g, g = GetField(csr, Field(word.type, k))
  PROVE  \E p \in 0..Len(csr.buf), v \in Values :
           /\ g.csr = At(csr.buf, p)
           /\ g.res = "ok" =>
                /\ g.val = v
                /\ IF fate = "damaged"
                     THEN p >= HdrBytes + LeastTo(k)
                     ELSE IF k <= NumFields(dg.type)
                            THEN v = dg.val[Field(dg.type, k)] /\ p = Offset(dg, k)
                            ELSE p >= PayStart(dg)
           /\ g.res # "ok" /\ fate \in {"whole", "cut"} => Len(csr.buf) < PayStart(dg)
<1> DEFINE b == csr.buf
           m == NumFields(dg.type)
           f == Field(word.type, k)
           s == Piece(dg, k)
           o == csr.pos
<1>1. /\ dg.type \in Types /\ dg \in Datagrams(dg.type) /\ csr = At(b, o) /\ b \in Seq(Cells)
      /\ Len(b) \in Nat /\ o \in Nat /\ o <= Len(b) /\ m \in {4, 5} /\ m \in 0..m
  BY TypesAre
<1>2. word.type \in Types /\ (f = "fp" <=> k = 3)
  BY FieldNames DEF ReadTo
<1>3. PayStart(dg) = Offset(dg, m) /\ PayStart(dg) \in Nat
  BY <1>1, OffsetIs
<1> HIDE DEF b, m, f, s, o
<1>4. CASE k <= m /\ fate # "damaged"
  <2>1. k \in 1..m /\ k \in 0..m /\ k - 1 \in 0..m /\ m \in k..m
    BY <1>1, <1>4
  <2>2. o = Offset(dg, k - 1)
    BY <1>4, <2>1 DEF ReadTo, SentTo, m, o
  <2>3. /\ Offset(dg, k) = o + Len(s) /\ Offset(dg, k) \in Nat /\ Offset(dg, k) <= PayStart(dg)
        /\ dg.val[Field(dg.type, k)] \in Values
    <3>1. Offset(dg, k) = o + Len(s) /\ Offset(dg, k) \in Nat
      BY <1>1, <2>1, <2>2, OffsetIs DEF m, s
    <3>2. Offset(dg, k) <= Offset(dg, m)
      BY <1>1, <2>1, OffsetIs DEF m
    <3>3. dg.val[Field(dg.type, k)] \in Values
      BY <1>1, <2>1, DatagramIs DEF m
    <3> QED
      BY <1>3, <3>1, <3>2, <3>3
  <2>4. Begins(b, o, s)
    BY <1>4, <2>1, <2>2 DEF Arrived, m, b, s
  <2>5. IF o + Len(s) <= Len(b)
          THEN GetField(At(b, o), f) =
                 [res |-> "ok", csr |-> At(b, o + Len(s)), val |-> dg.val[Field(dg.type, k)]]
          ELSE \E p \in 0..Len(b) :
                 GetField(At(b, o), f) = [res |-> "exhausted", csr |-> At(b, p), val |-> 0]
    <3>1. k \in 1..NumFields(dg.type)
      BY <2>1 DEF m
    <3>2. Begins(b, o, Piece(dg, k))
      BY <2>4 DEF s
    <3>3. /\ dg.type \in Types /\ dg \in Datagrams(dg.type)
          /\ b \in Seq(Cells) /\ o \in Nat /\ o <= Len(b) /\ (f = "fp" <=> k = 3)
      BY <1>1, <1>2
    <3>4. IF o + Len(Piece(dg, k)) <= Len(b)
            THEN GetField(At(b, o), f) =
                   [res |-> "ok", csr |-> At(b, o + Len(Piece(dg, k))),
                    val |-> dg.val[Field(dg.type, k)]]
            ELSE \E p \in 0..Len(b) :
                   GetField(At(b, o), f) = [res |-> "exhausted", csr |-> At(b, p), val |-> 0]
      BY ONLY <3>1, <3>2, <3>3, GetFieldIs
    <3> QED
      BY <3>4 DEF s
  <2>6. g = GetField(At(b, o), f)
    BY <1>1 DEF f
  <2>7. CASE o + Len(s) <= Len(b)
    <3>1. o + Len(s) \in 0..Len(b)
      BY <1>1, <2>3, <2>7
    <3>2. g = [res |-> "ok", csr |-> At(b, o + Len(s)), val |-> dg.val[Field(dg.type, k)]]
      BY <2>5, <2>6, <2>7
    <3> HIDE DEF At
    <3> QED
      BY <1>4, <2>3, <3>1, <3>2 DEF b, m
  <2>8. CASE ~(o + Len(s) <= Len(b))
    <3>1. PICK p \in 0..Len(b) : g = [res |-> "exhausted", csr |-> At(b, p), val |-> 0]
      BY <2>5, <2>6, <2>8
    <3>2. Len(b) < PayStart(dg)
      BY <1>1, <1>3, <2>3, <2>8
    <3>3. 0 \in Values
      BY Consts DEF Values
    <3> QED
      BY <3>1, <3>2, <3>3 DEF b
  <2> QED
    BY <2>7, <2>8
<1>5. CASE ~(k <= m) /\ fate # "damaged"
  <2>1. fate \notin {"whole", "cut"}
    <3> SUFFICES ASSUME fate \in {"whole", "cut"} PROVE FALSE
      OBVIOUS
    <3>1. word = HdrWord(dg)
      BY DEF Arrived
    <3>2. word.type = dg.type
      BY <3>1, SentIs
    <3> QED
      BY <1>5, <3>2 DEF m
  <2>2. f # "fp"
    BY <1>1, <1>2, <1>5
  <2>3. PICK p \in o..Len(b), r \in {"ok", "exhausted"}, v \in Values :
          GetField(At(b, o), f) = [res |-> r, csr |-> At(b, p), val |-> v]
    BY <1>1, <2>2, GetVarAny
  <2>4. o >= PayStart(dg)
    <3>1. IF k - 1 <= m THEN o = Offset(dg, k - 1) ELSE o >= PayStart(dg)
      BY <1>5 DEF ReadTo, SentTo, m, o
    <3>2. k - 1 <= m => k - 1 = m
      BY <1>1, <1>5
    <3> QED
      BY <1>1, <1>3, <3>1, <3>2
  <2>5. p \in 0..Len(b) /\ p >= PayStart(dg)
    BY <1>1, <1>3, <2>4
  <2>6. g = [res |-> r, csr |-> At(b, p), val |-> v]
    BY <1>1, <2>3 DEF f
  <2> QED
    BY <1>5, <2>1, <2>5, <2>6 DEF b, m
<1>6. CASE fate = "damaged"
  <2>1. o >= HdrBytes + LeastTo(k - 1) /\ Body(b)
    BY <1>6 DEF ReadTo, Arrived, b, o
  <2>2. HdrBytes <= o
    BY <1>1, <2>1, Consts DEF LeastTo, HdrBytes
  <2>3. PICK p \in o..Len(b), r \in {"ok", "exhausted"}, v \in Values :
          /\ GetField(At(b, o), f) = [res |-> r, csr |-> At(b, p), val |-> v]
          /\ r = "ok" => p >= o + (IF f = "fp" THEN FpBytes ELSE 1)
    BY <1>1, <2>1, <2>2, GetFieldAny
  <2>4. r = "ok" => p >= HdrBytes + LeastTo(k)
    <3>1. o + (IF f = "fp" THEN FpBytes ELSE 1) >= HdrBytes + LeastTo(k)
      BY <1>1, <1>2, <2>1, Consts DEF LeastTo, HdrBytes
    <3>2. HdrBytes + LeastTo(k) \in Nat /\ o + (IF f = "fp" THEN FpBytes ELSE 1) \in Nat /\ p \in Nat
      BY <1>1, Consts DEF LeastTo, HdrBytes
    <3> QED
      BY <2>3, <3>1, <3>2
  <2>5. p \in 0..Len(b)
    BY <1>1
  <2>6. g = [res |-> r, csr |-> At(b, p), val |-> v]
    BY <1>1, <2>3 DEF f
  <2> QED
    BY <1>6, <2>4, <2>5, <2>6 DEF b
<1> QED
  BY <1>4, <1>5, <1>6

LEMMA DesFieldHolds ==
  ASSUME DInv, DesField
  PROVE  DInv'
<1> PICK k : k = next
  OBVIOUS
<1> DEFINE b == csr.buf
           f == Field(word.type, k)
           g == GetField(csr, f)
<1>1. at = "des" /\ next = k /\ DTypes /\ DesInv /\ UNCHANGED <<word, past>> /\ k > 0
      /\ k \in DOMAIN DesFields[word.type] /\ k \in Nat
  BY DEF DInv, DesField, DTypes
<1>2. Arrived /\ res = "none" /\ ReadTo(k - 1, csr.pos) /\ out = Struct(0, out.val, <<>>)
  BY <1>1 DEF DesInv
<1>3. word.type \in Types /\ k \in Nat \ {0} /\ k <= NumFields(word.type) /\ k + 1 \in 0..6
      /\ ~word.bit12
  <2>1. word.type \in Types /\ ~word.bit12
    BY <1>2 DEF ReadTo
  <2>2. k \in 1..NumFields(word.type) /\ NumFields(word.type) \in {4, 5}
    BY <1>1, <2>1, FieldNames
  <2> QED
    BY <2>1, <2>2
<1>4. /\ csr' = g.csr
      /\ IF g.res = "ok" THEN Continue /\ out' = [out EXCEPT !.val = With(@, f, g.val)]
                         ELSE Return("done", "err_nomem") /\ out' = out
  <2>1. DesFields[word.type][k] = f
    BY FieldNames DEF Field
  <2> QED
    BY <1>1, <2>1, Zenon DEF DesField, GetField
<1>5. b \in Seq(Cells)
  BY <1>1, TypesAre
<1> HIDE DEF g
<1>6. PICK p \in 0..Len(b), v \in Values :
        /\ g.csr = At(b, p)
        /\ g.res = "ok" =>
             /\ g.val = v
             /\ IF fate = "damaged"
                  THEN p >= HdrBytes + LeastTo(k)
                  ELSE IF k <= NumFields(dg.type)
                         THEN v = dg.val[Field(dg.type, k)] /\ p = Offset(dg, k)
                         ELSE p >= PayStart(dg)
        /\ g.res # "ok" /\ fate \in {"whole", "cut"} => Len(b) < PayStart(dg)
  BY <1>1, <1>2, <1>3, DesFieldIs DEF g
<1>7. CASE g.res = "ok"
  <2>1. csr' = At(b, p) /\ Continue /\ out' = [out EXCEPT !.val = With(@, f, v)]
    BY <1>4, <1>6, <1>7
  <2>2. next' = k + 1 /\ at' = "des" /\ res' = "none" /\ word' = word /\ dg' = dg /\ fate' = fate
    BY <1>1, <1>2, <2>1 DEF Continue, past
  <2>3. DTypes' /\ csr'.buf = b /\ csr'.pos = p
    <3>1. word'.bit12 \in BOOLEAN /\ word'.type \in Nat /\ next' \in 0..6
      BY <1>1, <1>3, <2>2 DEF DTypes
    <3> QED
      BY <1>1, <1>5, <2>1, <2>2, <3>1, TypesNext
  <2>4. Arrived'
    BY <1>2, <2>2, <2>3, DgKept DEF Arrived, Body
  <2>5. out' = Struct(0, With(out.val, f, v), <<>>) /\ out'.val = With(out.val, f, v)
    <3>1. PICK val : out = Struct(0, val, <<>>) /\ val = out.val
      BY <1>2
    <3>2. out' = Struct(0, With(out.val, f, v), <<>>)
      <4>1. out' = [out EXCEPT !.val = With(out.val, f, v)]
        BY <2>1, Zenon
      <4> QED
        BY <3>1, <4>1, StructSet, Zenon
    <3> QED
      BY <3>2, StructIs
  <2>6. ReadTo(k, p)'
    <3> DEFINE n == k - 1
    <3>1. n \in Nat /\ n + 1 = k
      BY <1>3
    <3>2. ReadTo(n, csr.pos) /\ n + 1 <= NumFields(word.type) /\ dg.type \in Types
      BY <1>1, <1>2, <1>3, <3>1, TypesAre
    <3>3. out'.val = With(out.val, Field(word.type, n + 1), v)
      BY <2>5, <3>1
    <3>4. IF fate = "damaged"
            THEN p >= HdrBytes + LeastTo(n + 1)
            ELSE IF n + 1 <= NumFields(dg.type)
                   THEN v = dg.val[Field(dg.type, n + 1)] /\ p = Offset(dg, n + 1)
                   ELSE p >= PayStart(dg)
      BY <1>6, <1>7, <3>1
    <3> HIDE DEF n, f
    <3>5. ReadTo(n + 1, p)'
      BY <2>2, <3>1, <3>2, <3>3, <3>4, ReadNext
    <3> QED
      BY <3>1, <3>5
  <2>7. DesInv'
    <3>1. next' - 1 = k /\ next' # 0
      BY <1>3, <2>2
    <3>2. out' = Struct(0, out.val, <<>>)'
      BY <2>2, <2>5 DEF Struct
    <3>3. ReadTo(next - 1, csr.pos)'
      BY <2>3, <2>6, <3>1 DEF ReadTo, SentTo, LeastTo
    <3> QED
      BY <2>2, <2>4, <3>1, <3>2, <3>3 DEF DesInv
  <2> QED
    BY <2>2, <2>3, <2>7 DEF DInv, SerInv, AirInv, DoneInv
<1>8. CASE g.res # "ok"
  <2>1. csr' = At(csr.buf, p) /\ Return("done", "err_nomem") /\ out' = out
    BY <1>4, <1>6, <1>8
  <2>2. fate \in {"whole", "cut"} => Len(csr.buf) < PayStart(dg)
    BY <1>6, <1>8
  <2> QED
    BY <1>1, <1>2, <1>3, <2>1, <2>2, DesFails
<1> QED
  BY <1>7, <1>8

LEMMA DesPayHolds ==
  ASSUME DInv, DesPay
  PROVE  DInv'
<1> DEFINE b == csr.buf
           n == NumFields(word.type)
           o == csr.pos
<1>1. /\ at = "des" /\ DTypes /\ DesInv /\ next > 0 /\ next = Len(DesFields[word.type]) + 1
      /\ UNCHANGED <<word, past>> /\ Return("done", "ok")
      /\ out' = [out EXCEPT !.pay = Taken(csr, Remaining(csr)), !.type = word.type]
      /\ csr' = Advance(csr, Remaining(csr))
  BY DEF DInv, DesPay
<1>2. next = n + 1 /\ next # 0
  <2>1. next = n + 1
    BY <1>1, FieldNames, Zenon DEF NumFields
  <2>2. next \in Nat
    BY <1>1 DEF DTypes
  <2> QED
    BY <1>1, <2>1, <2>2
<1>3. Arrived /\ ReadTo(next - 1, o) /\ out = Struct(0, out.val, <<>>)
  BY <1>1, <1>2 DEF DesInv
<1>4. word.type \in Types /\ n \in {4, 5} /\ next - 1 = n
  <2>1. word.type \in Types
    BY <1>3 DEF ReadTo
  <2>2. n \in {4, 5}
    BY <2>1, FieldNames
  <2> QED
    BY <1>2, <2>1, <2>2
<1>5. /\ csr = At(b, o) /\ b \in Seq(Cells) /\ Len(b) \in Nat /\ o \in Nat /\ o <= Len(b) /\ o \in 0..Len(b)
      /\ next \in 0..6
  BY <1>1, FieldNames, TypesAre DEF DTypes
<1>6. Remaining(csr) = Len(b) - o /\ Advance(csr, Remaining(csr)) = At(b, Len(b))
      /\ Taken(csr, Remaining(csr)) = SubSeq(b, o + 1, Len(b))
  <2>1. Remaining(csr) = Len(b) - o
    BY DEF Remaining
  <2>2. o + (Len(b) - o) = Len(b)
    BY <1>5
  <2>3. Advance(csr, Remaining(csr)) = At(b, o + (Len(b) - o))
    BY <1>5, <2>1, AtIs
  <2>4. Taken(csr, Remaining(csr)) = SubSeq(b, o + 1, o + (Len(b) - o))
    BY <2>1, Zenon DEF Taken
  <2> QED
    BY <2>1, <2>2, <2>3, <2>4, Zenon
<1> HIDE DEF b, o, n
<1>7. /\ at' = "done" /\ res' = "ok" /\ next' = next /\ word' = word /\ dg' = dg /\ fate' = fate
      /\ csr' = At(b, Len(b))
  BY <1>1, <1>6 DEF Return, past
<1>8. DTypes' /\ csr'.buf = b
  <2>1. word'.bit12 \in BOOLEAN /\ word'.type \in Nat /\ next' \in 0..6 /\ Len(b) \in 0..Len(b)
    BY <1>1, <1>5, <1>7 DEF DTypes
  <2> QED
    BY <1>1, <1>5, <1>7, <2>1, TypesNext
<1>9. Arrived'
  BY <1>3, <1>7, <1>8, DgKept DEF Arrived, Body, b
<1>10. out' = Struct(word.type, out.val, SubSeq(b, o + 1, Len(b)))
  <2> DEFINE s == SubSeq(b, o + 1, Len(b))
  <2>1. out' = [out EXCEPT !.pay = s, !.type = word.type]
    BY <1>1, <1>6
  <2>2. PICK val : out = Struct(0, val, <<>>) /\ val = out.val
    BY <1>3
  <2> HIDE DEF s
  <2>3. [Struct(0, val, <<>>) EXCEPT !.pay = s, !.type = word.type] = Struct(word.type, val, s)
    <3>1. [Struct(0, val, <<>>) EXCEPT !.pay = s] = Struct(0, val, s)
      BY DEF Struct
    <3>2. [Struct(0, val, s) EXCEPT !.type = word.type] = Struct(word.type, val, s)
      BY DEF Struct
    <3> QED
      BY <3>1, <3>2
  <2>4. out' = Struct(word.type, val, s)
    BY <2>1, <2>2, <2>3, Zenon
  <2> QED
    BY <2>2, <2>4 DEF s
<1>11. ReadTo(n, o)
  BY <1>3, <1>4
<1>12. out'.val = out.val
  BY <1>10, StructIs
<1>13. WasRead'
  <2>1. \A j, p : ReadTo(j, p) => ReadTo(j, p)'
    BY <1>7, <1>12, DgKept DEF ReadTo, SentTo, LeastTo
  <2>2. n = NumFields(word'.type)
    BY <1>7 DEF n
  <2>4. PICK p \in 0..Len(b) : p = o
    BY <1>5
  <2>5. PICK j : j = n
    OBVIOUS
  <2>6. ReadTo(j, p)' /\ j = NumFields(word'.type)
    BY <1>11, <2>1, <2>2, <2>4, <2>5
  <2>7. ReadTo(NumFields(word.type), p)'
    BY <2>6 DEF ReadTo, SentTo, LeastTo
  <2>8. out' = Struct(word.type, out.val, SubSeq(csr.buf, p + 1, Len(csr.buf)))'
    BY <1>7, <1>8, <1>10, <1>12, <2>4 DEF Struct
  <2>9. p \in 0..Len(csr'.buf)
    BY <1>8
  <2> QED
    BY <1>7, <1>9, <2>7, <2>8, <2>9 DEF WasRead
<1> QED
  BY <1>7, <1>8, <1>13 DEF DInv, SerInv, AirInv, DesInv, DoneInv

LEMMA StepHolds == DInv /\ [Next]_vars => DInv'
<1> SUFFICES ASSUME DInv, [Next]_vars PROVE DInv'
  OBVIOUS
<1>1. CASE SerHdr
  BY <1>1, SerHdrHolds
<1>2. CASE SerField
  BY <1>2, SerFieldHolds
<1>3. CASE SerPay
  BY <1>3, SerPayHolds
<1>4. CASE Whole \/ Cut \/ Garble \/ Damage
  BY <1>4, AirHolds
<1>5. CASE DesHdr
  BY <1>5, DesHdrHolds
<1>6. CASE DesField
  BY <1>6, DesFieldHolds
<1>7. CASE DesPay
  BY <1>7, DesPayHolds
<1>8. CASE UNCHANGED vars
  <2>1. UNCHANGED <<dg, csr, at, next, word, out, res, fate>>
    BY <1>8 DEF vars
  <2>2. DTypes'
    BY <2>1 DEF DInv, DTypes
  <2>3. SerInv' /\ AirInv'
    BY <2>1 DEF DInv, SerInv, AirInv, Unread, Unset, Written
  <2>4. (Arrived => Arrived') /\ (NoRoom => NoRoom')
    BY <2>1 DEF Arrived, Body, NoRoom, Unset
  <2>5. DesInv'
    <3>1. ASSUME at = "des", next # 0
          PROVE  ReadTo(next - 1, csr.pos)' /\ (out = Struct(0, out.val, <<>>))'
      <4>1. ReadTo(next - 1, csr.pos) /\ out = Struct(0, out.val, <<>>)
        BY <3>1 DEF DInv, DesInv
      <4> QED
        BY <2>1, <4>1 DEF ReadTo, SentTo, LeastTo, Struct
    <3> QED
      BY <2>1, <2>4, <3>1 DEF DInv, DesInv, Unset
  <2>6. Refused => Refused'
    BY <2>1, <2>4 DEF Refused
  <2>7. WasRead => WasRead'
    BY <2>1, <2>4 DEF WasRead, ReadTo, SentTo, LeastTo, Struct
  <2>8. DoneInv'
    BY <2>1, <2>4, <2>6, <2>7 DEF DInv, DoneInv
  <2> QED
    BY <2>1, <2>2, <2>3, <2>5, <2>8 DEF DInv
<1> QED
  BY <1>1, <1>2, <1>3, <1>4, <1>5, <1>6, <1>7, <1>8 DEF Next

LEMMA InvHolds == Spec => []DInv
<1>1. Init => DInv
  BY InitHolds
<1>2. DInv /\ [Next]_vars => DInv'
  BY StepHolds
<1> QED
  BY <1>1, <1>2, PTL DEF Spec

(***************************************************************************)
(* What the invariant says of a datagram that was read.                    *)
(***************************************************************************)
LEMMA ReadIs ==
  ASSUME DTypes, WasRead
  PROVE  \E p \in 0..Len(csr.buf) :
           /\ Arrived /\ ReadTo(NumFields(word.type), p)
           /\ out.type = word.type /\ out.flags = FlagsOf(word.type, word.bits)
           /\ out.pay = SubSeq(csr.buf, p + 1, Len(csr.buf)) /\ Len(out.pay) = Len(csr.buf) - p
<1>1. PICK p \in 0..Len(csr.buf) :
        /\ ReadTo(NumFields(word.type), p)
        /\ out = Struct(word.type, out.val, SubSeq(csr.buf, p + 1, Len(csr.buf)))
  BY DEF WasRead
<1> DEFINE s == SubSeq(csr.buf, p + 1, Len(csr.buf))
<1>2. csr.buf \in Seq(Cells) /\ Len(csr.buf) \in Nat
  BY TypesAre
<1>3. Len(s) = Len(csr.buf) - p
  BY <1>1, <1>2, SubSeqProperties
<1> HIDE DEF s
<1>4. PICK val : out = Struct(word.type, val, s)
  BY <1>1 DEF s
<1>5. out.type = word.type /\ out.flags = FlagsOf(word.type, word.bits) /\ out.pay = s
  BY <1>4, StructIs
<1>6. Arrived
  BY DEF WasRead
<1> QED
  BY <1>1, <1>3, <1>5, <1>6 DEF s

LEMMA RestIs ==
  ASSUME NEW X, NEW b \in Seq(X), NEW p \in Nat, p <= Len(b)
  PROVE  /\ SubSeq(b, p + 1, Len(b)) \in Seq(X) /\ Len(SubSeq(b, p + 1, Len(b))) = Len(b) - p
         /\ \A k \in 1..(Len(b) - p) : SubSeq(b, p + 1, Len(b))[k] = b[p + k]
<1> PICK l \in Nat : l = Len(b)
  BY LenProperties
<1> PICK q \in Int : q = p + 1
  OBVIOUS
<1>1. \A j \in q..l : b[j] \in X
  BY ElementOfSeq
<1>2. l \in Int
  OBVIOUS
<1>3. /\ SubSeq(b, q, l) \in Seq(X)
      /\ Len(SubSeq(b, q, l)) = IF q <= l THEN l - q + 1 ELSE 0
      /\ \A j \in 1..(l - q + 1) : SubSeq(b, q, l)[j] = b[q + j - 1]
  BY <1>1, <1>2, SubSeqProperties
<1> PICK c : c = SubSeq(b, q, l)
  OBVIOUS
<1>4. /\ c \in Seq(X)
      /\ Len(c) = IF q <= l THEN l - q + 1 ELSE 0
      /\ \A j \in 1..(l - q + 1) : c[j] = b[q + j - 1]
  BY <1>3, Zenon
<1>5. Len(c) = l - p
  BY <1>4
<1>6. ASSUME NEW k \in 1..(l - p) PROVE c[k] = b[p + k]
  <2>1. k \in 1..(l - q + 1) /\ q + k - 1 = p + k
    OBVIOUS
  <2> QED
    BY <1>4, <2>1
<1> QED
  BY <1>4, <1>5, <1>6

\* When the types have the same fields, it is what was sent.
LEMMA ReadSame ==
  ASSUME DTypes, Arrived, fate # "damaged", NEW p \in 0..Len(csr.buf),
         ReadTo(NumFields(word.type), p), SerFields[word.type] = SerFields[dg.type]
  PROVE  /\ p = PayStart(dg) /\ out.val = dg.val
         /\ SubSeq(csr.buf, p + 1, Len(csr.buf)) = SubSeq(dg.pay, 1, Len(csr.buf) - p)
         /\ SubSeq(dg.pay, 1, Len(dg.pay)) = dg.pay
<1> DEFINE b == csr.buf
           m == NumFields(dg.type)
           s == dg.pay
           l == Len(b)
<1>1. /\ dg.type \in Types /\ dg \in Datagrams(dg.type) /\ b \in Seq(Cells) /\ l \in Nat
      /\ m \in {4, 5} /\ m \in 0..m
  BY TypesAre
<1>2. NumFields(word.type) = m /\ (\A k : Field(word.type, k) = Field(dg.type, k))
      /\ Fields(word.type, m) = Fields(dg.type, m)
  BY DEF NumFields, Field, Fields
<1>3. p = PayStart(dg) /\ p \in Nat
  <2>1. p = Offset(dg, m)
    BY <1>1, <1>2 DEF ReadTo, SentTo
  <2> QED
    BY <1>1, <2>1, OffsetIs
<1>4. out.val = dg.val
  <2>1. out.val \in [Fields(dg.type, m) -> Values] /\ dg.val \in [Fields(dg.type, m) -> Values]
    BY <1>1, <1>2, DatagramIs DEF ReadTo
  <2>2. ASSUME NEW f \in Fields(dg.type, m) PROVE out.val[f] = dg.val[f]
    <3>1. PICK k \in 1..m : f = Field(dg.type, k)
      BY DEF Fields
    <3>2. k <= m /\ k \in 1..NumFields(word.type)
      BY <1>1, <1>2, <3>1
    <3>3. out.val[Field(word.type, k)] = dg.val[Field(dg.type, k)]
      BY <3>2 DEF ReadTo, SentTo
    <3> QED
      BY <1>2, <3>1, <3>3
  <2> QED
    BY <2>1, <2>2
<1>5. /\ s \in Seq(Cells) /\ Len(s) \in Nat /\ l <= p + Len(s) /\ p <= l /\ Begins(b, p, s)
  <2>1. WireSize(dg) = PayStart(dg) + Len(s) /\ WireSize(dg) \in Nat
    BY <1>1, OffsetIs
  <2>2. l <= WireSize(dg) /\ Begins(b, PayStart(dg), s)
    BY <1>1, <2>1 DEF Arrived
  <2> QED
    BY <1>1, <1>3, <2>1, <2>2, DatagramIs
<1> HIDE DEF b, m, s
<1>6. SubSeq(b, p + 1, l) = SubSeq(s, 1, l - p)
  <2> HIDE DEF l
  <2>1. l = Len(b)
    BY DEF l
  <2>2. /\ SubSeq(b, p + 1, l) \in Seq(Cells) /\ Len(SubSeq(b, p + 1, l)) = l - p
        /\ \A k \in 1..(l - p) : SubSeq(b, p + 1, l)[k] = b[p + k]
    <3>1. p \in Nat /\ p <= Len(b) /\ b \in Seq(Cells)
      BY <1>1, <1>3, <1>5, <2>1
    <3> QED
      BY <2>1, <3>1, RestIs
  <2>3. /\ SubSeq(s, 1, l - p) \in Seq(Cells) /\ Len(SubSeq(s, 1, l - p)) = l - p
        /\ \A k \in 1..(l - p) : SubSeq(s, 1, l - p)[k] = s[k]
    BY <1>1, <1>3, <1>5, SubSeqProperties
  <2>4. ASSUME NEW k \in 1..(l - p) PROVE b[p + k] = s[k]
    <3>1. k \in 1..Len(s) /\ p + k <= Len(b)
      BY <1>1, <1>3, <1>5, <2>1
    <3> QED
      BY <1>5, <3>1 DEF Begins
  <2> QED
    BY <2>2, <2>3, <2>4, SeqEqual
<1>7. SubSeq(s, 1, Len(s)) = s
  <2>1. /\ SubSeq(s, 1, Len(s)) \in Seq(Cells) /\ Len(SubSeq(s, 1, Len(s))) = Len(s)
        /\ \A k \in 1..Len(s) : SubSeq(s, 1, Len(s))[k] = s[k]
    BY <1>5, SubSeqProperties
  <2> QED
    BY <1>5, <2>1, SeqEqual
<1> QED
  BY <1>3, <1>4, <1>6, <1>7 DEF b, s, l

\* A frame whose header is what was sent.
LEMMA SentRead ==
  ASSUME DInv, at = "done", fate \in {"whole", "cut"}
  PROVE  IF Len(csr.buf) < PayStart(dg)
           THEN /\ res = "err_nomem" /\ out.type = 0 /\ out.pay = <<>>
                /\ \A f \in DOMAIN out.val : f \in DOMAIN dg.val /\ out.val[f] = dg.val[f]
           ELSE /\ res = "ok" /\ out.type = dg.type /\ out.flags = dg.flags /\ out.val = dg.val
                /\ out.pay = SubSeq(dg.pay, 1, Len(csr.buf) - PayStart(dg))
                /\ SubSeq(dg.pay, 1, Len(dg.pay)) = dg.pay
<1>1. DTypes /\ (Refused \/ WasRead)
  BY DEF DInv, DoneInv, NoRoom
<1>2. word = HdrWord(dg)
  BY <1>1 DEF Refused, WasRead, Arrived
<1>3. ~word.bit12 /\ word.type = dg.type /\ word.type \in Types /\ word.bits = FlagBits(dg.type, dg.flags)
  BY <1>1, <1>2, SentIs
<1>4. /\ dg.type \in Types /\ dg \in Datagrams(dg.type) /\ Len(csr.buf) \in Nat
      /\ PayStart(dg) \in Nat
  <2>1. NumFields(dg.type) \in 0..NumFields(dg.type)
    BY <1>1, TypesAre
  <2> QED
    BY <1>1, <2>1, TypesAre, OffsetIs
<1>5. CASE Refused
  <2>1. /\ res = "err_nomem" /\ Len(csr.buf) < PayStart(dg) /\ out.type = 0 /\ out.pay = <<>>
        /\ \A f \in DOMAIN out.val : f \in DOMAIN dg.val /\ out.val[f] = dg.val[f]
    BY <1>3, <1>5 DEF Refused
  <2> QED
    BY <2>1
<1>6. CASE WasRead
  <2>1. PICK p \in 0..Len(csr.buf) :
          /\ Arrived /\ ReadTo(NumFields(word.type), p)
          /\ out.type = word.type /\ out.flags = FlagsOf(word.type, word.bits)
          /\ out.pay = SubSeq(csr.buf, p + 1, Len(csr.buf)) /\ Len(out.pay) = Len(csr.buf) - p
    BY <1>1, <1>6, ReadIs
  <2>2. /\ p = PayStart(dg) /\ out.val = dg.val
        /\ SubSeq(csr.buf, p + 1, Len(csr.buf)) = SubSeq(dg.pay, 1, Len(csr.buf) - p)
        /\ SubSeq(dg.pay, 1, Len(dg.pay)) = dg.pay
    BY <1>1, <1>3, <2>1, ReadSame
  <2>3. out.flags = dg.flags
    <3>1. dg.flags \subseteq ToSet(SerFlags[dg.type])
      BY <1>4, DatagramIs
    <3>2. FlagsOf(dg.type, FlagBits(dg.type, dg.flags)) = dg.flags
      BY <1>4, <3>1, FlagsBack
    <3> QED
      BY <1>3, <2>1, <3>2
  <2>4. ~(Len(csr.buf) < PayStart(dg))
    BY <1>4, <2>1, <2>2
  <2>5. res = "ok"
    BY <1>6 DEF WasRead
  <2> QED
    BY <1>3, <2>1, <2>2, <2>3, <2>4, <2>5
<1> QED
  BY <1>1, <1>5, <1>6

\* The places of the end of the numbers, and of the payload.
LEMMA EndIs ==
  ASSUME DTypes
  PROVE  /\ PayStart(dg) \in Nat /\ Len(dg.pay) \in Nat /\ WireSize(dg) = PayStart(dg) + Len(dg.pay)
         /\ PayStart(dg) = Offset(dg, NumFields(dg.type)) /\ WireSize(dg) \in Nat
<1>1. dg.type \in Types /\ dg \in Datagrams(dg.type)
      /\ NumFields(dg.type) \in 0..NumFields(dg.type)
  BY TypesAre
<1> QED
  BY <1>1, OffsetIs, DatagramIs

(***************************************************************************)
(* Theorems.                                                               *)
(***************************************************************************)
\* The cursor stays inside its buffer, and a struct has a type only with every
\* member of that type, each of 32 bits, whatever frame is read.
THEOREM TypeCorrect == Spec => []TypeOK
<1>1. ASSUME DInv PROVE TypeOK
  <2>1. DTypes /\ csr.pos \in 0..Len(csr.buf) /\ next \in 0..(Len(FrameStartSer) + 1)
        /\ at \in {"ser", "air", "des", "done"}
    BY <1>1 DEF DInv, DTypes
  <2>2. ASSUME out = Unset
        PROVE  out.type = 0 /\ \A f \in DOMAIN out.val : out.val[f] \in 0..(Width - 1)
    BY <2>2 DEF Unset, NoVal
  <2>3. ASSUME NEW n, NEW p, ReadTo(n, p)
        PROVE  (\A f \in DOMAIN out.val : out.val[f] \in 0..(Width - 1))
               /\ DOMAIN out.val = Fields(word.type, n)
    BY <2>3 DEF ReadTo, Values
  <2> DEFINE Rest == /\ res \in {"none", "ok", "err_nomem", "err_exception", "invalid_type"}
                     /\ \A f \in DOMAIN out.val : out.val[f] \in 0..(Width - 1)
                     /\ out.type # 0 => DOMAIN out.val = ToSet(SerFields[out.type])
  <2>4. CASE at \in {"ser", "air"}
    <3>1. out = Unset /\ res \in {"none", "ok"}
      BY <1>1, <2>4 DEF DInv, SerInv, AirInv, Unread
    <3>2. Rest
      BY <2>2, <3>1
    <3> QED
      BY <2>1, <3>2 DEF TypeOK
  <2>5. CASE at = "des"
    <3>1. CASE next = 0
      <4>1. out = Unset /\ res = "none"
        BY <1>1, <2>5, <3>1 DEF DInv, DesInv
      <4>2. Rest
        BY <2>2, <4>1
      <4> QED
        BY <2>1, <4>2 DEF TypeOK
    <3>2. CASE next # 0
      <4>1. ReadTo(next - 1, csr.pos) /\ out = Struct(0, out.val, <<>>) /\ res = "none"
        BY <1>1, <2>5, <3>2 DEF DInv, DesInv
      <4>2. out.type = 0
        BY <4>1 DEF Struct
      <4>3. Rest
        BY <2>3, <4>1, <4>2
      <4> QED
        BY <2>1, <4>3 DEF TypeOK
    <3> QED
      BY <3>1, <3>2
  <2>6. CASE at = "done"
    <3>1. NoRoom \/ Refused \/ WasRead
      BY <1>1, <2>6 DEF DInv, DoneInv
    <3>2. CASE NoRoom
      <4>1. out = Unset /\ res = "err_nomem"
        BY <3>2 DEF NoRoom
      <4>2. Rest
        BY <2>2, <4>1
      <4> QED
        BY <2>1, <4>2 DEF TypeOK
    <3>3. CASE Refused
      <4>1. out.type = 0 /\ (\A f \in DOMAIN out.val : out.val[f] \in 0..(Width - 1))
            /\ res \in {"err_nomem", "err_exception", "invalid_type"}
        BY <3>3 DEF Refused, Values
      <4>2. Rest
        BY <4>1
      <4> QED
        BY <2>1, <4>2 DEF TypeOK
    <3>4. CASE WasRead
      <4>1. PICK p \in 0..Len(csr.buf) : ReadTo(NumFields(word.type), p) /\ out.type = word.type
        BY <2>1, <3>4, ReadIs
      <4>2. ToSet(SerFields[word.type]) = Fields(word.type, NumFields(word.type))
        BY <4>1, FieldNames DEF ReadTo
      <4>3. res = "ok"
        BY <3>4 DEF WasRead
      <4>4. Rest
        BY <2>3, <4>1, <4>2, <4>3
      <4> QED
        BY <2>1, <4>4 DEF TypeOK
    <3> QED
      BY <3>1, <3>2, <3>3, <3>4
  <2> QED
    BY <2>1, <2>4, <2>5, <2>6
<1> QED
  BY <1>1, InvHolds, PTL

\* A datagram that arrives as it was sent is read as it was written.
LEMMA WholeRead == DInv => RoundTrip
<1> SUFFICES ASSUME DInv, at = "done", fate = "whole" PROVE res = "ok" /\ Same(out, dg)
  BY DEF RoundTrip
<1>1. DTypes /\ Len(csr.buf) = WireSize(dg)
  BY DEF DInv, DoneInv, NoRoom, Refused, WasRead, Arrived
<1>2. Len(csr.buf) - PayStart(dg) = Len(dg.pay) /\ ~(Len(csr.buf) < PayStart(dg))
  BY <1>1, EndIs
<1> QED
  BY <1>2, SentRead DEF Same

\* A datagram whose frame arrived whole is read as it was written, by its type, its
\* flags, its members and its payload.
THEOREM RoundTrips == Spec => []RoundTrip
BY WholeRead, InvHolds, PTL

\* Serialising fails when the buffer is smaller than the datagram, and only then,
\* and fills as many bytes as it has.
THEOREM FillsExactly == Spec => []FitsExactly
<1>1. DInv => FitsExactly
  BY DEF DInv, AirInv, DoneInv, NoRoom, Refused, WasRead, Arrived, FitsExactly
<1> QED
  BY <1>1, InvHolds, PTL

\* A frame that lost its end is refused, with only members that were sent, or is the datagram with the end of the
\* payload missing, as many bytes as were lost.
THEOREM CutIsSeen == Spec => []CutShows
<1>1. ASSUME DInv PROVE CutShows
  <2> SUFFICES ASSUME at = "done", fate = "cut",
                      NEW lost, lost = WireSize(dg) - Len(csr.buf)
               PROVE  IF lost > Len(dg.pay)
                        THEN /\ res = "err_nomem" /\ out.type = 0 /\ out.pay = <<>>
                             /\ \A f \in DOMAIN out.val :
                                  f \in DOMAIN dg.val /\ out.val[f] = dg.val[f]
                        ELSE res = "ok" /\ Same(out, [dg EXCEPT !.pay = SubSeq(@, 1, Len(@) - lost)])
    BY DEF CutShows
  <2>1. DTypes /\ Len(csr.buf) \in Nat
    BY <1>1, TypesAre DEF DInv
  <2>2. (lost > Len(dg.pay) <=> Len(csr.buf) < PayStart(dg))
        /\ Len(dg.pay) - lost = Len(csr.buf) - PayStart(dg)
    BY <2>1, EndIs
  <2> DEFINE s == SubSeq(dg.pay, 1, Len(dg.pay) - lost)
             d == [dg EXCEPT !.pay = s]
  <2>3. d.type = dg.type /\ d.flags = dg.flags /\ d.val = dg.val /\ d.pay = s
    <3>1. PICK a, b, c, e : dg = [type |-> a, flags |-> b, val |-> c, pay |-> e]
      <4>1. dg = [type |-> dg.type, flags |-> dg.flags, val |-> dg.val, pay |-> dg.pay]
        BY <2>1, TypesAre, DatagramIs
      <4> QED
        BY <4>1, Zenon
    <3> HIDE DEF s
    <3>2. d = [[type |-> a, flags |-> b, val |-> c, pay |-> e] EXCEPT !.pay = s]
      BY <3>1, Zenon
    <3> HIDE DEF d
    <3>3. d = [type |-> a, flags |-> b, val |-> c, pay |-> s]
      BY <3>2
    <3> QED
      BY <3>1, <3>3
  <2>4. CASE Len(csr.buf) < PayStart(dg)
    BY <1>1, <2>2, <2>4, SentRead
  <2>5. CASE ~(Len(csr.buf) < PayStart(dg))
    <3>1. res = "ok" /\ out.type = dg.type /\ out.flags = dg.flags /\ out.val = dg.val
          /\ out.pay = SubSeq(dg.pay, 1, Len(csr.buf) - PayStart(dg))
      BY <1>1, <2>5, SentRead
    <3>2. out.pay = s
      BY <2>2, <3>1
    <3>3. Same(out, d)
      BY <2>3, <3>1, <3>2 DEF Same
    <3> QED
      BY <2>2, <2>5, <3>1, <3>3
  <2> QED
    BY <2>4, <2>5
<1> QED
  BY <1>1, InvHolds, PTL

\* A header taken for another changes the flags and the type only, and what
\* follows the fields that the two types have in common.
THEOREM GarbledHeaders == Spec => []GarbledHeader
<1>1. ASSUME DInv PROVE GarbledHeader
  <2> SUFFICES ASSUME at = "done", fate = "garbled"
               PROVE  /\ res = "err_exception" <=> word.bit12
                      /\ res = "invalid_type" <=> ~word.bit12 /\ word.type \notin Types
                      /\ res = "ok" =>
                           /\ \A f \in {"oui", "did", "fp"} : out.val[f] = dg.val[f]
                           /\ SerFields[out.type] = SerFields[dg.type] =>
                                out.val = dg.val /\ out.pay = dg.pay
    BY DEF GarbledHeader
  <2>1. DTypes /\ word.bit12 \in BOOLEAN /\ (Refused \/ WasRead)
    BY <1>1 DEF DInv, DTypes, DoneInv, NoRoom
  <2>2. CASE Refused
    BY <2>1, <2>2 DEF Refused
  <2>3. CASE WasRead
    <3>1. PICK p \in 0..Len(csr.buf) :
            /\ Arrived /\ ReadTo(NumFields(word.type), p)
            /\ out.type = word.type
            /\ out.pay = SubSeq(csr.buf, p + 1, Len(csr.buf))
      BY <2>1, <2>3, ReadIs
    <3>2. word.type \in Types /\ dg.type \in Types /\ ~word.bit12
      BY <2>1, <3>1, TypesAre DEF ReadTo
    <3>3. res = "ok"
      BY <2>3 DEF WasRead
    <3>4. \A f \in {"oui", "did", "fp"} : out.val[f] = dg.val[f]
      <4>1. \A k \in 1..3 : k \in 1..NumFields(word.type) /\ k <= NumFields(dg.type)
        BY <3>2, FieldNames
      <4>2. \A k \in 1..3 : out.val[Field(word.type, k)] = dg.val[Field(dg.type, k)]
        BY <3>1, <4>1 DEF ReadTo, SentTo
      <4>3. \A t \in Types : Field(t, 1) = "oui" /\ Field(t, 2) = "did" /\ Field(t, 3) = "fp"
        BY FieldNames
      <4>4. 1 \in 1..3 /\ 2 \in 1..3 /\ 3 \in 1..3
        OBVIOUS
      <4> QED
        BY <3>2, <4>2, <4>3, <4>4
    <3>5. ASSUME SerFields[out.type] = SerFields[dg.type]
          PROVE  out.val = dg.val /\ out.pay = dg.pay
      <4>1. /\ p = PayStart(dg) /\ out.val = dg.val
            /\ SubSeq(csr.buf, p + 1, Len(csr.buf)) = SubSeq(dg.pay, 1, Len(csr.buf) - p)
            /\ SubSeq(dg.pay, 1, Len(dg.pay)) = dg.pay
        BY <2>1, <3>1, <3>5, ReadSame
      <4>2. Len(csr.buf) = WireSize(dg)
        BY <3>1 DEF Arrived
      <4>3. Len(csr.buf) - p = Len(dg.pay)
        BY <2>1, <4>1, <4>2, EndIs
      <4> QED
        BY <3>1, <4>1, <4>3
    <3> QED
      BY <3>2, <3>3, <3>4, <3>5
  <2> QED
    BY <2>1, <2>2, <2>3
<1> QED
  BY <1>1, InvHolds, PTL

\* More bytes are copied into the pay member than it has room for only of a
\* frame_start that is taken for a type without fragments and of numbers that
\* arrived damaged, and never more than these numbers took when they were sent.
THEOREM OverrunsKnown == Spec => []PayOverruns
<1>1. ASSUME DInv PROVE PayOverruns
  <2> DEFINE m == NumFields(dg.type)
             n == NumFields(word.type)
             pay == Len(dg.pay)
  <2> SUFFICES ASSUME at = "done", Len(out.pay) > MaxPay
               PROVE  \/ /\ fate = "garbled" /\ dg.type = FrameStart
                         /\ pay + VarSize(dg.val["fragments"]) > MaxPay
                      \/ /\ fate = "damaged"
                         /\ pay + NumberSize(dg) - LeastSize(out.type) > MaxPay
    BY Zenon DEF PayOverruns
  <2>0. MaxPay \in Nat /\ FpBytes \in Nat
    BY DatagramAssumption
  <2>1. DTypes /\ WasRead
    <3>1. NoRoom \/ Refused => out.pay = <<>>
      BY DEF NoRoom, Refused, Unset
    <3>2. ~(NoRoom \/ Refused)
      BY <2>0, <3>1
    <3> QED
      BY <1>1, <3>2 DEF DInv, DoneInv
  <2>2. PICK p \in 0..Len(csr.buf) :
          /\ Arrived /\ ReadTo(n, p) /\ out.type = word.type
          /\ Len(out.pay) = Len(csr.buf) - p
    BY <2>1, ReadIs
  <2>3. /\ dg.type \in Types /\ dg \in Datagrams(dg.type) /\ word.type \in Types
        /\ n \in {4, 5} /\ m \in {4, 5} /\ Len(csr.buf) \in Nat
    BY <2>1, <2>2, TypesAre, FieldNames DEF ReadTo
  <2>4. /\ Len(csr.buf) <= PayStart(dg) + pay /\ PayStart(dg) \in Nat /\ pay \in Nat
        /\ PayStart(dg) = Offset(dg, m) /\ WireSize(dg) = PayStart(dg) + pay
    BY <2>1, <2>2, <2>3, EndIs DEF Arrived
  <2>5. pay <= MaxPay
    <3>1. dg.pay \in Payloads
      BY <2>3 DEF Datagrams
    <3> QED
      BY <3>1, DatagramAssumption
  <2>6. p < PayStart(dg)
    BY <2>0, <2>2, <2>3, <2>4, <2>5
  <2>7. CASE fate = "damaged"
    <3>1. p >= HdrBytes + LeastSize(out.type)
      <4>1. p >= HdrBytes + LeastTo(n)
        BY <2>2, <2>7 DEF ReadTo
      <4>2. LeastTo(n) = LeastSize(out.type)
        <5>1. out.type = word.type
          BY <2>2
        <5>2. n = Len(SerFields[out.type])
          BY <5>1 DEF NumFields
        <5> HIDE DEF n
        <5>3. LeastTo(n) = n - 1 + FpBytes
          BY <2>3 DEF LeastTo
        <5> QED
          BY <2>0, <2>3, <5>2, <5>3 DEF LeastSize
      <4> QED
        BY <4>1, <4>2
    <3>2. PayStart(dg) = HdrBytes + NumberSize(dg) /\ NumberSize(dg) \in Nat
      BY <2>3, OffsetIs
    <3>3. LeastSize(out.type) \in Int
      BY <2>0, <2>2, <2>3 DEF LeastSize, NumFields
    <3> DEFINE x == NumberSize(dg)
               y == LeastSize(out.type)
    <3>4. x \in Int
      BY <3>2
    <3> HIDE DEF x, y, pay
    <3>5. p >= HdrBytes + y /\ PayStart(dg) = HdrBytes + x /\ y \in Int
      BY <3>1, <3>2, <3>3 DEF x, y
    <3>6. pay + x - y > MaxPay
      BY <2>0, <2>2, <2>3, <2>4, <3>4, <3>5 DEF HdrBytes
    <3> QED
      BY <2>7, <3>6 DEF x, y
  <2>8. CASE fate # "damaged"
    <3>1. n <= m /\ p = Offset(dg, n)
      <4>1. SentTo(n, p)
        BY <2>2, <2>8 DEF ReadTo
      <4>2. p \in Int /\ PayStart(dg) \in Int
        BY <2>3, <2>4
      <4> QED
        BY <2>6, <4>1, <4>2 DEF SentTo
    <3>2. n = 4 /\ m = 5
      <4>1. n # m
        BY <2>3, <2>4, <2>6, <3>1
      <4> QED
        BY <2>3, <3>1, <4>1
    <3>3. dg.type = FrameStart /\ Field(dg.type, 5) = "fragments" /\ 5 \in 1..NumFields(dg.type)
      BY <2>3, <3>2, FieldNames
    <3>4. fate = "garbled"
      <4>1. fate \in {"whole", "cut"} => n = m
        <5> SUFFICES ASSUME fate \in {"whole", "cut"} PROVE n = m
          OBVIOUS
        <5>1. word = HdrWord(dg)
          BY <2>2 DEF Arrived
        <5> QED
          BY <2>1, <5>1, SentIs
      <4>2. fate \in {"whole", "cut", "garbled"}
        BY <2>2, <2>8 DEF Arrived
      <4> QED
        BY <3>2, <4>1, <4>2
    <3> DEFINE more == VarSize(dg.val["fragments"])
    <3>5. Offset(dg, 5) = Offset(dg, 5 - 1) + Len(Piece(dg, 5))
      BY <2>3, <3>3, OffsetIs
    <3>6. Len(Piece(dg, 5)) = more
      <4>1. dg.val["fragments"] \in Values
        BY <2>3, <3>3, DatagramIs
      <4>2. Piece(dg, 5) = VarBytes(dg.val["fragments"])
        BY <2>3, <3>3, PieceIs
      <4> QED
        BY <4>1, <4>2, VarIs
    <3>7. Offset(dg, 4) \in Nat /\ Len(Piece(dg, 5)) \in Nat
      <4>1. 4 \in 0..NumFields(dg.type)
        BY <3>2
      <4> QED
        BY <2>3, <3>3, <4>1, OffsetIs, PieceIs
    <3> HIDE DEF more, m, n, pay
    <3>8. p = Offset(dg, 4) /\ PayStart(dg) = Offset(dg, 4) + more
      BY <2>4, <3>1, <3>2, <3>5, <3>6
    <3>9. /\ Len(csr.buf) <= (Offset(dg, 4) + more) + pay /\ more \in Nat
          /\ Len(csr.buf) - Offset(dg, 4) > MaxPay
      BY <2>2, <2>4, <3>6, <3>7, <3>8
    <3>10. pay + more > MaxPay
      BY <2>0, <2>3, <2>4, <3>7, <3>9
    <3> QED
      BY <3>3, <3>4, <3>10 DEF more, pay
  <2> QED
    BY <2>7, <2>8
<1> QED
  BY <1>1, InvHolds, PTL

\* What lfc_dg_*__eq compares is every flag and every field.
LEMMA EqIs ==
  ASSUME NEW t \in Types
  PROVE  /\ EqMembers[t] = Fields(t, NumFields(t)) \cup ToSet(SerFlags[t])
         /\ Fields(t, NumFields(t)) \cap ToSet(SerFlags[t]) = {}
<1>1. ToSet(SerFields[t]) = Fields(t, NumFields(t))
  BY FieldNames
<1>2. ASSUME NEW a, NEW b, NEW c, NEW d
      PROVE  ToSet(<<a, b, c, d>>) = {a, b, c, d}
  BY DEF ToSet
<1>3. ASSUME NEW a, NEW b, NEW c, NEW d, NEW e
      PROVE  ToSet(<<a, b, c, d, e>>) = {a, b, c, d, e}
  BY DEF ToSet
<1>4. ToSet(<<"ldpc">>) = {"ldpc"}
  BY DEF ToSet
<1>5. CASE t = 1
  <2>1. SerFields[t] = MonolithicSer /\ SerFlags[t] = MonolithicFlagsSer /\ EqMembers[t] = MonolithicEq
    BY <1>5 DEF SerFields, SerFlags, EqMembers
  <2>2. ToSet(MonolithicSer) = {"oui", "did", "fp", "seq"}
    BY <1>2 DEF MonolithicSer
  <2>3. ToSet(MonolithicFlagsSer) = {"downlink", "should_ack", "cts_rts", "priority", "ldpc"}
    BY <1>3 DEF MonolithicFlagsSer
  <2>4. EqMembers[t] = ToSet(SerFlags[t]) \cup {"oui", "did", "fp", "seq"}
    BY <2>1, Zenon DEF MonolithicEq
  <2> QED
    BY <1>1, <2>1, <2>2, <2>3, <2>4
<1>6. CASE t = 2
  <2>1. SerFields[t] = FrameStartSer /\ SerFlags[t] = FrameStartFlagsSer /\ EqMembers[t] = FrameStartEq
    BY <1>6 DEF SerFields, SerFlags, EqMembers
  <2>2. ToSet(FrameStartSer) = {"oui", "did", "fp", "seq", "fragments"}
    BY <1>3 DEF FrameStartSer
  <2>3. ToSet(FrameStartFlagsSer) = {"downlink", "should_ack", "cts_rts", "priority", "ldpc"}
    BY <1>3 DEF FrameStartFlagsSer
  <2>4. EqMembers[t] = ToSet(SerFlags[t]) \cup {"oui", "did", "fp", "seq", "fragments"}
    BY <2>1, Zenon DEF FrameStartEq
  <2> QED
    BY <1>1, <2>1, <2>2, <2>3, <2>4
<1>7. CASE t = 3
  <2>1. SerFields[t] = FrameDataSer /\ SerFlags[t] = FrameDataFlagsSer /\ EqMembers[t] = FrameDataEq
    BY <1>7 DEF SerFields, SerFlags, EqMembers
  <2>2. ToSet(FrameDataSer) = {"oui", "did", "fp", "fragment"}
    BY <1>2 DEF FrameDataSer
  <2>3. ToSet(FrameDataFlagsSer) = {"ldpc"}
    BY <1>4 DEF FrameDataFlagsSer
  <2>4. EqMembers[t] = {"ldpc", "oui", "did", "fp", "fragment"}
    BY <2>1, Zenon DEF FrameDataEq
  <2> QED
    BY <1>1, <2>1, <2>2, <2>3, <2>4
<1>8. CASE t = 4
  <2>1. SerFields[t] = AckSer /\ SerFlags[t] = AckFlagsSer /\ EqMembers[t] = AckEq
    BY <1>8 DEF SerFields, SerFlags, EqMembers
  <2>2. ToSet(AckSer) = {"oui", "did", "fp", "seq"}
    BY <1>2 DEF AckSer
  <2>3. ToSet(AckFlagsSer) = {"failure", "session_expired", "cts_rts", "retransmit", "ldpc"}
    BY <1>3 DEF AckFlagsSer
  <2>4. EqMembers[t] = ToSet(SerFlags[t]) \cup {"oui", "did", "fp", "seq"}
    BY <2>1, Zenon DEF AckEq
  <2> QED
    BY <1>1, <2>1, <2>2, <2>3, <2>4
<1> QED
  BY <1>5, <1>6, <1>7, <1>8 DEF Types, Ack

\* It is true of the datagram that was read and of no other.
THEOREM ComparisonTells == Spec => []EqTells
<1>1. ASSUME DInv PROVE EqTells
  <2> SUFFICES ASSUME at = "done", fate = "whole", NEW d \in Datagrams(out.type)
               PROVE  DgEq(out.type, d, out) <=> Same(out, d)
    BY DEF EqTells
  <2> DEFINE t == out.type
             F == Fields(t, NumFields(t))
             G == ToSet(SerFlags[t])
  <2>1. Same(out, dg) /\ DTypes
    BY <1>1, WholeRead DEF RoundTrip, DInv
  <2>2. t \in Types /\ dg \in Datagrams(t) /\ d \in Datagrams(t)
    BY <2>1, TypesAre DEF Same
  <2>3. /\ out.flags \subseteq G /\ out.val \in [F -> Values]
        /\ d.flags \subseteq G /\ d.val \in [F -> Values] /\ d.type = t
    BY <2>1, <2>2, DatagramIs DEF Same
  <2>4. EqMembers[t] = F \cup G /\ F \cap G = {}
    BY <2>2, EqIs
  <2> HIDE DEF t, F, G
  <2>5. EqMembers[t] \cap DOMAIN d.val = F /\ EqMembers[t] \ DOMAIN d.val = G
    BY <2>3, <2>4
  <2>6. (\A f \in F : d.val[f] = out.val[f]) <=> out.val = d.val
    BY <2>3
  <2>7. (\A f \in G : f \in d.flags <=> f \in out.flags) <=> out.flags = d.flags
    BY <2>3
  <2>8. PayEq(d.pay, out.pay) <=> out.pay = d.pay
    BY DEF PayEq
  <2>9. DgEq(t, d, out) <=> /\ \A f \in F : d.val[f] = out.val[f]
                            /\ \A f \in G : f \in d.flags <=> f \in out.flags
                            /\ PayEq(d.pay, out.pay)
    BY <2>5, Zenon DEF DgEq
  <2>10. Same(out, d) <=> out.flags = d.flags /\ out.val = d.val /\ out.pay = d.pay
    BY <2>3 DEF Same, t
  <2> QED
    BY <2>6, <2>7, <2>8, <2>9, <2>10 DEF t
<1> QED
  BY <1>1, InvHolds, PTL

=============================================================================
