----------------------------- MODULE MCDatagram -----------------------------
(***************************************************************************)
(* Instances of Datagram for TLC.  Bytes have four bits, of which a varint *)
(* uses three, and a uint32_t has two bytes: as in the code, one byte less *)
(* than the longest varint, whose last byte has bits to spare.             *)
(***************************************************************************)
EXTENDS Datagram

AllPayloads == {<<>>, <<9, 0>>}

\* Those that fill the pay member.
FullPayloads == {p \in AllPayloads : Len(p) = MaxPay}
=============================================================================
