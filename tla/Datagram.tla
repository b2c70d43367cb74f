------------------------------ MODULE Datagram ------------------------------
(***************************************************************************)
(* Serialisation of the four types of datagram, lfc_dg_ser.c, and what     *)
(* lfc_dg_des.c makes of the bytes that arrive, field by field.            *)
(*                                                                         *)
(* A datagram is serialised into a buffer of some capacity; if it fits,    *)
(* the bytes are sent, and arrive as they are, cut short, with another     *)
(* header word, or with other bytes after it; and are deserialised.        *)
(*                                                                         *)
(* The three bytes of the header are opaque here, and the word that they   *)
(* encode is beside them: Golay is about those.  The bytes after it are    *)
(* numbers, through Cursor and VarintCode.                                 *)
(***************************************************************************)
EXTENDS VarintCode, SequencesExt

CONSTANTS
  FpBytes,   \* sizeof(uint32_t)
  Numbers,   \* values of the numeric fields
  Payloads,  \* payloads
  MaxPay,    \* LFC_DG_CONSTANTS_MAX_PAY_LEN, the size of the pay members
  MaxFlags,  \* bound: flags a datagram has
  MaxSpare,  \* bound: bytes of a buffer that the datagram does not need
  MaxWrong,  \* bound: bytes after the header that arrive wrong
  WrongBytes \* bound: what such a byte arrives as

Coded == -2  \* a byte of an encoded header
HdrBytes == 3

ASSUME DatagramAssumption ==
  /\ FpBytes \in Nat \ {0}
  /\ Power(ByteMod, FpBytes) = Width
  /\ Numbers \subseteq 0..(Width - 1)
  /\ Payloads \subseteq Seq(0..(ByteMod - 1))
  /\ \A p \in Payloads : Len(p) <= MaxPay
  /\ MaxPay \in Nat /\ MaxSpare \in Nat
  /\ MaxWrong \in Nat /\ WrongBytes \subseteq 0..(ByteMod - 1)

(***************************************************************************)
(* enum lfc_dg_type.                                                       *)
(***************************************************************************)
Monolithic == 1
FrameStart == 2
FrameData  == 3
Ack        == 4
Types == 1..Ack

(***************************************************************************)
(* The members that each routine treats, in its order: the fields that are *)
(* serialised and deserialised between header and payload, and the flags   *)
(* from bit 0 up.                                                          *)
(***************************************************************************)
MonolithicSer == <<"oui", "did", "fp", "seq">>
AckSer        == <<"oui", "did", "fp", "seq">>
FrameStartSer == <<"oui", "did", "fp", "seq", "fragments">>
FrameDataSer  == <<"oui", "did", "fp", "fragment">>
SerFields == <<MonolithicSer, FrameStartSer, FrameDataSer, AckSer>>

MonolithicDes == <<"oui", "did", "fp", "seq">>
AckDes        == <<"oui", "did", "fp", "seq">>
FrameStartDes_AsMonolithic == <<"oui", "did", "fp", "seq">>
FrameStartDes == <<"oui", "did", "fp", "seq", "fragments">>
FrameDataDes_FpFirst == <<"fp", "oui", "did", "fragment">>
FrameDataDes  == <<"oui", "did", "fp", "fragment">>
DesFields == <<MonolithicDes, FrameStartDes, FrameDataDes, AckDes>>

MonolithicFlagsSer == <<"downlink", "should_ack", "cts_rts", "priority", "ldpc">>
AckFlagsSer        == <<"failure", "session_expired", "cts_rts", "retransmit", "ldpc">>
FrameStartFlagsSer == <<"downlink", "should_ack", "cts_rts", "priority", "ldpc">>
FrameDataFlagsSer  == <<"ldpc">>
SerFlags == <<MonolithicFlagsSer, FrameStartFlagsSer, FrameDataFlagsSer, AckFlagsSer>>

MonolithicFlagsDes == <<"downlink", "should_ack", "cts_rts", "priority", "ldpc">>
AckFlagsDes_Swapped == <<"failure", "session_expired", "retransmit", "cts_rts", "ldpc">>
AckFlagsDes        == <<"failure", "session_expired", "cts_rts", "retransmit", "ldpc">>
FrameStartFlagsDes == <<"downlink", "should_ack", "cts_rts", "priority", "ldpc">>
FrameDataFlagsDes  == <<"ldpc">>
DesFlags == <<MonolithicFlagsDes, FrameStartFlagsDes, FrameDataFlagsDes, AckFlagsDes>>

\* The bits that are set in a header, and the flags they are read as.
FlagBits(t, flags) == {b \in 0..(Len(SerFlags[t]) - 1) : SerFlags[t][b + 1] \in flags}
FlagsOf(t, bits) == {DesFlags[t][b + 1] : b \in bits \cap 0..(Len(DesFlags[t]) - 1)}

\* lfc_dg_*__eq: the members that are compared, besides the payloads.
MonolithicEq == ToSet(MonolithicFlagsSer) \cup {"oui", "did", "fp", "seq"}
AckEq        == ToSet(AckFlagsSer) \cup {"oui", "did", "fp", "seq"}
FrameStartEq_NoFragments == ToSet(FrameStartFlagsSer) \cup {"oui", "did", "fp", "seq"}
FrameStartEq == ToSet(FrameStartFlagsSer) \cup {"oui", "did", "fp", "seq", "fragments"}
FrameDataEq  == {"ldpc", "oui", "did", "fp", "fragment"}
EqMembers == <<MonolithicEq, FrameStartEq, FrameDataEq, AckEq>>

PayEq(l, r) == Len(l) = Len(r) /\ l = r
DgEq(t, l, r) ==
  /\ \A f \in EqMembers[t] \cap DOMAIN l.val : l.val[f] = r.val[f]
  /\ \A f \in EqMembers[t] \ DOMAIN l.val : f \in l.flags <=> f \in r.flags
  /\ PayEq(l.pay, r.pay)

----------------------------------------------------------------------------
VARIABLES
  dg,    \* the datagram to send
  csr,   \* the cursor of the call in progress
  at,    \* "ser", "air", "des" or "done": what is happening to it
  next,  \* the header, 0, or the field that is next
  word,  \* the word that the header bytes encode
  out,   \* struct lfc_dg_des
  res,   \* what the last call returned
  fate   \* history: what became of the frame on the air

vars == <<dg, csr, at, next, word, out, res, fate>>
past == <<dg, fate>>

Datagrams(t) ==
  [type : {t},
   flags : {s \in SUBSET ToSet(SerFlags[t]) : Cardinality(s) <= MaxFlags},
   val : [ToSet(SerFields[t]) -> Numbers],
   pay : Payloads]

\* A word of 12 bits or, when nothing could be decoded, whatever the uint16_t
\* that was to hold it has: then bit 12, which is examined, may be set.
Words == [bit12 : BOOLEAN, type : 0..(Ack + 1), bits : {{}, 0..5}]

HdrWord(d) == [bit12 |-> FALSE, type |-> d.type, bits |-> FlagBits(d.type, d.flags)]

\* The bytes that a datagram takes.
FieldSize(d, f) == IF f = "fp" THEN FpBytes ELSE VarSize(d.val[f])
FieldSizes(d) ==
  [k \in DOMAIN SerFields[d.type] |-> FieldSize(d, SerFields[d.type][k])]
NumberSize(d) == Total(FieldSizes(d), Len(SerFields[d.type]))
WireSize(d) == HdrBytes + NumberSize(d) + Len(d.pay)

NoVal == [f \in {} |-> 0]
Unset == [type |-> 0, flags |-> {}, val |-> NoVal, pay |-> <<>>]

Init ==
  /\ \E t \in Types : dg \in Datagrams(t)
  /\ \E n \in 0..(WireSize(dg) + MaxSpare) : csr = CursorNew([i \in 1..n |-> Blank])
  /\ at = "ser"
  /\ next = 0
  /\ word = HdrWord(dg)
  /\ out = Unset
  /\ res = "none"
  /\ fate = "none"

(***************************************************************************)
(* lfc_dg_*__ser.  CSR_RES and LFC_RES return from the routine; what was   *)
(* put in the buffer stays there.                                          *)
(***************************************************************************)
Return(to, r) == at' = to /\ res' = r /\ UNCHANGED next
Continue == next' = next + 1 /\ UNCHANGED <<at, res>>

\* The cursor and the result of a put.
SerStep(p) ==
  /\ csr' = p.csr
  /\ IF p.res = "ok" THEN Continue ELSE Return("done", "err_nomem")
  /\ UNCHANGED <<word, out, past>>

SerHdr ==
  /\ at = "ser" /\ next = 0
  /\ SerStep(PutAll(csr, [i \in 1..HdrBytes |-> Coded]))

SerField ==
  /\ at = "ser" /\ next \in DOMAIN SerFields[dg.type]
  /\ LET f == SerFields[dg.type][next]
     IN  SerStep(IF f = "fp" THEN PutAll(csr, PackLe(dg.val[f], FpBytes))
                             ELSE PutVar(csr, dg.val[f]))

SerPay ==
  /\ at = "ser" /\ next = Len(SerFields[dg.type]) + 1
  /\ LET p == PutAll(csr, dg.pay)
     IN  csr' = p.csr /\ IF p.res = "ok" THEN Return("air", "ok")
                                         ELSE Return("done", "err_nomem")
  /\ UNCHANGED <<word, out, past>>

(***************************************************************************)
(* The frame arrives: whole, with up to three bits of its header wrong but *)
(* corrected; cut short; with more bits of the header wrong than that; or  *)
(* with bytes after the header wrong, whatever became of the header.       *)
(***************************************************************************)
Sent == SubSeq(csr.buf, 1, csr.pos)

Arrive(how, bytes) ==
  /\ at = "air"
  /\ csr' = CursorNew(bytes)
  /\ at' = "des"
  /\ next' = 0
  /\ res' = "none"
  /\ fate' = how
  /\ UNCHANGED <<dg, out>>

Whole == Arrive("whole", Sent) /\ UNCHANGED word
Cut == (\E n \in 0..(csr.pos - 1) : Arrive("cut", SubSeq(Sent, 1, n))) /\ UNCHANGED word
Garble == Arrive("garbled", Sent) /\ word' \in Words

Damage ==
  /\ \E k \in 1..MaxWrong : \E wrong \in kSubset(k, (HdrBytes + 1)..csr.pos) :
       \E byte \in [wrong -> WrongBytes] :
         Arrive("damaged", [i \in 1..csr.pos |-> IF i \in wrong THEN byte[i] ELSE csr.buf[i]])
  /\ UNCHANGED word \/ word' \in Words

(***************************************************************************)
(* lfc_dg__des: the header, and the routine for its type.                  *)
(***************************************************************************)
\* lfc_dg_type__des.
TypeBits(t) == t # 0 /\ t <= Ack

DesHdr ==
  /\ at = "des" /\ next = 0
  /\ IF ~Fits(csr, HdrBytes) THEN csr' = csr /\ out' = out /\ Return("done", "err_nomem")
     ELSE /\ csr' = Advance(csr, HdrBytes)
          /\ CASE word.bit12 -> Return("done", "err_exception") /\ out' = out
               [] ~word.bit12 /\ ~TypeBits(word.type) ->
                    Return("done", "invalid_type") /\ out' = out
               [] OTHER ->
                    Continue /\ out' = [out EXCEPT !.flags = FlagsOf(word.type, word.bits)]
  /\ UNCHANGED <<word, past>>

\* A member of the struct is set.
With(val, f, v) == [k \in DOMAIN val \cup {f} |-> IF k = f THEN v ELSE val[k]]

DesField ==
  /\ at = "des" /\ next > 0 /\ next \in DOMAIN DesFields[word.type]
  /\ LET f == DesFields[word.type][next]
         g == IF f = "fp" THEN GetLe(csr, FpBytes) ELSE GetVar(csr)
     IN  /\ csr' = g.csr
         /\ IF g.res = "ok" THEN Continue /\ out' = [out EXCEPT !.val = With(@, f, g.val)]
                            ELSE Return("done", "err_nomem") /\ out' = out
  /\ UNCHANGED <<word, past>>

\* cursor_take_remaining, which copies what is left whatever the size of the pay
\* member, the last of its struct; the type is set last.
DesPay ==
  /\ at = "des" /\ next > 0 /\ next = Len(DesFields[word.type]) + 1
  /\ out' = [out EXCEPT !.pay = Taken(csr, Remaining(csr)), !.type = word.type]
  /\ csr' = Advance(csr, Remaining(csr))
  /\ Return("done", "ok")
  /\ UNCHANGED <<word, past>>

Next ==
  \/ SerHdr \/ SerField \/ SerPay
  \/ Whole \/ Cut \/ Garble \/ Damage
  \/ DesHdr \/ DesField \/ DesPay

Spec == Init /\ [][Next]_vars

(***************************************************************************)
(* Properties.                                                             *)
(***************************************************************************)
\* The cursor is inside its buffer, and a datagram is given a type only when
\* every member of that type has been read.
TypeOK ==
  /\ csr.pos \in 0..Len(csr.buf)
  /\ at \in {"ser", "air", "des", "done"}
  /\ next \in 0..(Len(FrameStartSer) + 1)
  /\ res \in {"none", "ok", "err_nomem", "err_exception", "invalid_type"}
  /\ \A f \in DOMAIN out.val : out.val[f] \in 0..(Width - 1)
  /\ out.type # 0 => DOMAIN out.val = ToSet(SerFields[out.type])

Same(o, d) == o.type = d.type /\ o.flags = d.flags /\ o.val = d.val /\ o.pay = d.pay

\* What arrives as it was sent is read as it was written, every type, flag and
\* field of it, and the payload.
RoundTrip == at = "done" /\ fate = "whole" => res = "ok" /\ Same(out, dg)

\* Serialising succeeds when there is room for the whole datagram and then
\* fills exactly that, and fails in every smaller buffer, wherever it ends.
FitsExactly ==
  /\ at = "air" => csr.pos = WireSize(dg)
  /\ at = "done" /\ fate = "none" => Len(csr.buf) < WireSize(dg)

\* A frame whose end was lost is refused when it is a number that is cut: then the
\* struct has no type and no payload, and the members that were read before are
\* those that were sent.  Otherwise it is the datagram with a payload that is cut.
CutShows ==
  at = "done" /\ fate = "cut" =>
    LET lost == WireSize(dg) - Len(csr.buf)
    IN  IF lost > Len(dg.pay)
          THEN /\ res = "err_nomem" /\ out.type = 0 /\ out.pay = <<>>
               /\ \A f \in DOMAIN out.val : f \in DOMAIN dg.val /\ out.val[f] = dg.val[f]
          ELSE res = "ok" /\ Same(out, [dg EXCEPT !.pay = SubSeq(@, 1, Len(@) - lost)])

\* A header taken for another is refused or changes the flags and the type: the
\* organization, device and fingerprint, which come first in every type, are
\* read as sent, and so is all the rest when the type has the same fields.
GarbledHeader ==
  at = "done" /\ fate = "garbled" =>
    /\ res = "err_exception" <=> word.bit12
    /\ res = "invalid_type" <=> ~word.bit12 /\ word.type \notin Types
    /\ res = "ok" =>
         /\ \A f \in {"oui", "did", "fp"} : out.val[f] = dg.val[f]
         /\ SerFields[out.type] = SerFields[dg.type] => out.val = dg.val /\ out.pay = dg.pay

\* The fewest bytes that the numbers of a type take.
LeastSize(t) == FpBytes + Len(SerFields[t]) - 1

\* cursor_take_remaining copies more into the pay member than there is room for
\* only when a frame_start was taken for a type that has no fragments, or when
\* numbers arrived damaged and took fewer bytes than they were sent in: and then
\* only if the payload was long enough for these bytes to make it too long.
PayOverruns ==
  at = "done" /\ Len(out.pay) > MaxPay =>
    \/ /\ fate = "garbled" /\ dg.type = FrameStart
       /\ Len(dg.pay) + VarSize(dg.val["fragments"]) > MaxPay
    \/ /\ fate = "damaged"
       /\ Len(dg.pay) + NumberSize(dg) - LeastSize(out.type) > MaxPay

\* lfc_dg_*__eq tells the datagram that was read from every other of its type.
EqTells ==
  at = "done" /\ fate = "whole" =>
    \A d \in Datagrams(out.type) : DgEq(out.type, d, out) <=> Same(out, d)

(***************************************************************************)
(* What the code's own words say of it and it does not do.                 *)
(***************************************************************************)
\* datagram.h: LFC_DG_CONSTANTS_MAX_PAY_LEN is the "max supported datagram payload
\* length", and what is read of a frame has a payload of no more.
PayFits == at = "done" => Len(out.pay) <= MaxPay
=============================================================================
